-------------------------- MODULE FieldRepoProofs --------------------------
(***************************************************************************)
(* The field repository keeps the numbers of the fields and the data of    *)
(* the levels matched, for every set of declarations, any number of levels *)
(* and any sequence of declarations, regrids and restarts.                 *)
(***************************************************************************)
EXTENDS FieldRepo, SequenceTheorems, TLAPS

Contents == Values \cup {Zero, Mixed}
Entry == [name : Names, state : 0..3]
Fab == [shape : Shapes, ngrow : Nat, val : Contents]
Info == [shape : Shapes, ngrow : Nat, nstates : 1..3]

(* The tables of the fields: every entry has a FieldInfo, and a field with *)
(* n time states has an entry for each of them.                            *)
TablesMatch ==
  /\ field_vec \in Seq(Entry)
  /\ DOMAIN info \subseteq Names
  /\ \A n \in DOMAIN info : info[n] \in Info
  /\ \A i \in Ids : field_vec[i].name \in DOMAIN info
  /\ \A n \in DOMAIN info : \A s \in 0..(info[n].nstates - 1) : HasState(n, s)

(* One MultiFab for each field, of the field's shape.                      *)
Matches(data) ==
  /\ data \in Seq(Fab) /\ Len(data) = Len(field_vec)
  /\ \A i \in Ids : /\ data[i].shape = info[field_vec[i].name].shape
                    /\ data[i].ngrow = info[field_vec[i].name].ngrow

LevelsMatch ==
  /\ DOMAIN level_data = Levels
  /\ \A l \in Levels : IF l \in WithData THEN Matches(level_data[l])
                       ELSE level_data[l] = NoLevel

(* How far an operation of the mesh may have come.                         *)
MeshInOrder ==
  /\ mesh \in [op : {"none", "scratch", "restart", "ready", "regrid"},
               finest : -1..MaxLevel, next : 0..(MaxLevel + 1), target : Levels]
  /\ mesh.op = "none" => ~is_initialized /\ mesh.finest = -1
  /\ mesh.op \in {"scratch", "restart"} =>
       mesh.next <= mesh.target + 1 /\ (mesh.next >= 1 => is_initialized)
  /\ mesh.op = "restart" => mesh.finest = mesh.target
  /\ mesh.op = "scratch" => IF mesh.next = 0 THEN mesh.finest = 0
                            ELSE mesh.finest = mesh.next - 1
  /\ mesh.op = "ready" => is_initialized /\ mesh.finest >= 0
  /\ mesh.op = "regrid" => is_initialized /\ mesh.finest >= 0 /\ mesh.next >= 1

RepoInv == TablesMatch /\ LevelsMatch /\ MeshInOrder

-----------------------------------------------------------------------------
(* A sequence of n equal elements.                                         *)
LEMMA Constants ==
  ASSUME NEW S, NEW n \in Nat, NEW e \in S
  PROVE  /\ [i \in 1..n |-> e] \in Seq(S)
         /\ Len([i \in 1..n |-> e]) = n
  OBVIOUS

(* A MultiFab that has just been allocated is zero.                        *)
LEMMA NewFabTyped ==
  ASSUME NEW in, in.shape \in Shapes, in.ngrow \in Nat
  PROVE  /\ NewFab(in) \in Fab
         /\ NewFab(in).shape = in.shape /\ NewFab(in).ngrow = in.ngrow
  BY DEF NewFab, Fab, Contents

(* A new level gets one MultiFab for each field there is.                  *)
LEMMA NewLevelMatches ==
  ASSUME TablesMatch
  PROVE  Matches(NewLevelData)
<1> Ids = 1..Len(field_vec) /\ Len(field_vec) \in Nat
  BY LenProperties DEF TablesMatch, Ids
<1>1. \A i \in Ids : /\ NewLevelData[i] \in Fab
                     /\ NewLevelData[i].shape = info[field_vec[i].name].shape
                     /\ NewLevelData[i].ngrow = info[field_vec[i].name].ngrow
  <2> SUFFICES ASSUME NEW i \in Ids
               PROVE  /\ NewLevelData[i] \in Fab
                      /\ NewLevelData[i].shape = info[field_vec[i].name].shape
                      /\ NewLevelData[i].ngrow = info[field_vec[i].name].ngrow
    OBVIOUS
  <2> DEFINE in == info[field_vec[i].name]
  <2>1. in.shape \in Shapes /\ in.ngrow \in Nat
    BY DEF TablesMatch, Info
  <2>2. NewLevelData[i] = NewFab(in)
    BY DEF NewLevelData
  <2> HIDE DEF in
  <2> QED
    BY <2>1, <2>2, NewFabTyped DEF in
<1>2. NewLevelData \in Seq(Fab) /\ Len(NewLevelData) = Len(field_vec)
  <2>1. NewLevelData = [i \in 1..Len(field_vec) |-> NewLevelData[i]]
    BY DEF NewLevelData
  <2> QED
    BY <1>1, <2>1
<1> QED
  BY <1>1, <1>2 DEF Matches

Written(data, ids, vals) ==
  [i \in Ids |-> IF i \in ids THEN [data[i] EXCEPT !.val = vals[i]] ELSE data[i]]

(* Writing to some of the fields of a level changes no shape.              *)
LEMMA WritingKeepsTheMatch ==
  ASSUME NEW data, Matches(data), NEW ids, NEW vals, field_vec \in Seq(Entry),
         \A i \in Ids \cap ids : vals[i] \in Contents
  PROVE  Matches(Written(data, ids, vals))
<1> DEFINE new == Written(data, ids, vals)
<1> Ids = 1..Len(field_vec) /\ Len(field_vec) \in Nat
  BY LenProperties DEF Ids
<1>1. \A i \in Ids : data[i] \in Fab
  BY ElementOfSeq DEF Matches
<1>2. \A i \in Ids : new[i] \in Fab /\ new[i].shape = data[i].shape
                                    /\ new[i].ngrow = data[i].ngrow
  BY <1>1 DEF Fab, Contents, Written
<1>3. new \in Seq(Fab) /\ Len(new) = Len(field_vec)
  <2>1. new = [i \in 1..Len(field_vec) |-> new[i]]
    BY DEF Written
  <2> HIDE DEF new
  <2> QED
    BY <1>2, <2>1
<1> HIDE DEF new
<1>4. Matches(new)
  BY <1>2, <1>3 DEF Matches
<1> QED
  BY <1>4 DEF new

(* Fields appended to the tables: the entries before them keep their       *)
(* numbers, and every level that has data gets as many MultiFabs.          *)
LEMMA AllocatingKeepsTheMatch ==
  ASSUME RepoInv, NEW in, NEW n \in Nat, Ready, Allocate(in, n),
         in.shape \in Shapes, in.ngrow \in Nat, UNCHANGED << mesh, is_initialized >>,
         field_vec' \in Seq(Entry), Len(field_vec') = Len(field_vec) + n,
         \A i \in Ids : /\ field_vec'[i] = field_vec[i]
                        /\ info'[field_vec[i].name] = info[field_vec[i].name],
         \A i \in Ids' \ Ids : /\ info'[field_vec'[i].name].shape = in.shape
                               /\ info'[field_vec'[i].name].ngrow = in.ngrow
  PROVE  LevelsMatch'
<1> USE DEF RepoInv
<1>1. /\ Ids = 1..Len(field_vec) /\ Len(field_vec) \in Nat
      /\ Ids' = 1..(Len(field_vec) + n)
  BY LenProperties DEF TablesMatch, Ids
<1>2. WithData' = WithData
  BY DEF WithData
<1>3. \A l \in Levels : AllocatedOn(l) <=> l \in WithData
  BY DEF Ready, MeshInOrder, WithData, AllocatedOn, Levels
<1>4. ASSUME NEW l \in Levels, l \in WithData PROVE Matches(level_data[l])'
  <2> DEFINE data == level_data[l]
             more == [i \in 1..n |-> NewFab(in)]
  <2>1. Matches(data)
    BY <1>4 DEF LevelsMatch
  <2>2. data \in Seq(Fab) /\ Len(data) = Len(field_vec)
    BY <2>1 DEF Matches
  <2>3. more \in Seq(Fab) /\ Len(more) = n
    BY NewFabTyped, Constants
  <2>4. level_data'[l] = data \o more
    BY <1>3, <1>4 DEF Allocate
  <2>5. \A i \in 1..n : more[i].shape = in.shape /\ more[i].ngrow = in.ngrow
    BY NewFabTyped
  <2>6. \A i \in Ids : data[i].shape = info[field_vec[i].name].shape
                       /\ data[i].ngrow = info[field_vec[i].name].ngrow
    BY <2>1 DEF Matches
  <2> HIDE DEF data, more
  <2>7. /\ data \o more \in Seq(Fab) /\ Len(data \o more) = Len(field_vec) + n
        /\ \A i \in 1..(Len(field_vec) + n) : (data \o more)[i] =
              IF i <= Len(field_vec) THEN data[i] ELSE more[i - Len(field_vec)]
    <3>1. data \in Seq(Fab) /\ more \in Seq(Fab)
      BY <2>2, <2>3
    <3>2. /\ data \o more \in Seq(Fab) /\ Len(data \o more) = Len(data) + Len(more)
          /\ \A i \in 1..(Len(data) + Len(more)) : (data \o more)[i] =
                IF i <= Len(data) THEN data[i] ELSE more[i - Len(data)]
      BY <3>1, ConcatProperties
    <3> QED
      BY <3>2, <2>2, <2>3
  <2>8. ASSUME NEW i \in Ids'
        PROVE  /\ (data \o more)[i].shape = info'[field_vec'[i].name].shape
               /\ (data \o more)[i].ngrow = info'[field_vec'[i].name].ngrow
    <3>1. CASE i \in Ids
      <4>1. i <= Len(field_vec) /\ i \in 1..(Len(field_vec) + n)
        BY <1>1, <3>1
      <4>2. (data \o more)[i] = data[i]
        BY <2>7, <4>1
      <4>3. field_vec'[i] = field_vec[i]
            /\ info'[field_vec[i].name] = info[field_vec[i].name]
        BY <3>1
      <4> QED
        BY <2>6, <3>1, <4>2, <4>3
    <3>2. CASE i \notin Ids
      <4>1. i - Len(field_vec) \in 1..n /\ ~(i <= Len(field_vec))
        BY <1>1, <2>8, <3>2
      <4>2. (data \o more)[i] = more[i - Len(field_vec)]
        BY <1>1, <2>7, <4>1
      <4> QED
        BY <2>5, <2>8, <3>2, <4>1, <4>2
    <3> QED
      BY <3>1, <3>2
  <2>9. level_data'[l] \in Seq(Fab) /\ Len(level_data'[l]) = Len(field_vec')
    BY <2>4, <2>7
  <2>10. \A i \in Ids' : /\ level_data'[l][i].shape = info'[field_vec'[i].name].shape
                         /\ level_data'[l][i].ngrow = info'[field_vec'[i].name].ngrow
    BY <2>4, <2>8
  <2> QED
    BY <2>9, <2>10 DEF Matches
<1>5. ASSUME NEW l \in Levels, l \notin WithData PROVE level_data'[l] = NoLevel
  BY <1>3, <1>5 DEF LevelsMatch, Allocate
<1>6. DOMAIN level_data' = Levels
  BY DEF Allocate
<1> QED
  BY <1>2, <1>4, <1>5, <1>6 DEF LevelsMatch, Levels

(* declare_field of a new name.                                            *)
LEMMA DeclaringKeepsTheMatch ==
  ASSUME RepoInv, NEW d \in Decls, DeclareField(d)
  PROVE  TablesMatch' /\ LevelsMatch'
<1> USE DEF RepoInv
<1> DEFINE new == [i \in 1..d.nstates |-> [name |-> d.name, state |-> i - 1]]
<1>1. /\ d.name \in Names /\ d.shape \in Shapes /\ d.ngrow \in Nat
      /\ d.nstates \in 1..3 /\ d.name \notin DOMAIN info
  BY RepoAssumption DEF Decl, DeclareField, StatesAllowed, NM1
<1>2. new \in Seq(Entry) /\ Len(new) = d.nstates
  <2>1. \A i \in 1..d.nstates : [name |-> d.name, state |-> i - 1] \in Entry
    BY <1>1 DEF Entry
  <2> QED
    BY <1>1, <2>1
<1>3. field_vec' = field_vec \o new /\ field_vec \in Seq(Entry)
  BY DEF DeclareField, TablesMatch
<1>4. \A i \in 1..d.nstates : new[i] = [name |-> d.name, state |-> i - 1]
  OBVIOUS
<1> HIDE DEF new
<1>5. /\ field_vec' \in Seq(Entry) /\ Len(field_vec') = Len(field_vec) + d.nstates
      /\ \A i \in 1..(Len(field_vec) + d.nstates) : field_vec'[i] =
            IF i <= Len(field_vec) THEN field_vec[i] ELSE new[i - Len(field_vec)]
  <2>1. /\ field_vec \o new \in Seq(Entry)
        /\ Len(field_vec \o new) = Len(field_vec) + Len(new)
        /\ \A i \in 1..(Len(field_vec) + Len(new)) : (field_vec \o new)[i] =
              IF i <= Len(field_vec) THEN field_vec[i] ELSE new[i - Len(field_vec)]
    BY <1>2, <1>3, ConcatProperties
  <2> QED
    BY <2>1, <1>2, <1>3
<1>6. /\ Ids = 1..Len(field_vec) /\ Len(field_vec) \in Nat
      /\ Ids' = 1..(Len(field_vec) + d.nstates)
  BY <1>3, <1>5, LenProperties DEF Ids
<1>7. \A i \in Ids : i \in Ids' /\ field_vec'[i] = field_vec[i]
  BY <1>1, <1>5, <1>6
<1>8. \A s \in 0..(d.nstates - 1) : /\ Len(field_vec) + s + 1 \in Ids'
                                    /\ field_vec'[Len(field_vec) + s + 1] =
                                         [name |-> d.name, state |-> s]
  <2> SUFFICES ASSUME NEW s \in 0..(d.nstates - 1)
               PROVE  /\ Len(field_vec) + s + 1 \in Ids'
                      /\ field_vec'[Len(field_vec) + s + 1] =
                           [name |-> d.name, state |-> s]
    OBVIOUS
  <2> DEFINE i == Len(field_vec) + s + 1
  <2>1. /\ i \in 1..(Len(field_vec) + d.nstates) /\ ~(i <= Len(field_vec))
        /\ i - Len(field_vec) = s + 1 /\ s + 1 \in 1..d.nstates /\ (s + 1) - 1 = s
    BY <1>1, <1>6
  <2>2. field_vec'[i] = new[s + 1]
    BY <1>5, <2>1
  <2> QED
    BY <1>4, <1>6, <2>1, <2>2
<1>9. \A i \in Ids' \ Ids : field_vec'[i].name = d.name
  <2> SUFFICES ASSUME NEW i \in Ids' \ Ids PROVE field_vec'[i].name = d.name
    OBVIOUS
  <2>1. PICK j \in 1..d.nstates : j = i - Len(field_vec) /\ ~(i <= Len(field_vec))
    BY <1>1, <1>6
  <2>2. field_vec'[i] = new[j]
    BY <1>5, <1>6, <2>1
  <2>3. field_vec'[i] = [name |-> d.name, state |-> j - 1]
    BY <1>4, <2>2
  <2> QED
    BY <2>3
<1>10. /\ DOMAIN info' = DOMAIN info \cup {d.name}
       /\ \A n \in DOMAIN info : info'[n] = info[n]
       /\ info'[d.name] = [shape |-> d.shape, ngrow |-> d.ngrow, nstates |-> d.nstates]
  BY <1>1 DEF DeclareField
<1>11. \A i \in Ids : field_vec[i].name \in DOMAIN info
  BY DEF TablesMatch
<1>12. TablesMatch'
  <2>1. DOMAIN info' \subseteq Names
    BY <1>1, <1>10 DEF TablesMatch
  <2>2. \A n \in DOMAIN info' : info'[n] \in Info
    BY <1>1, <1>10 DEF TablesMatch, Info
  <2>3. \A i \in Ids' : field_vec'[i].name \in DOMAIN info'
    BY <1>7, <1>9, <1>10, <1>11
  <2>4. ASSUME NEW n \in DOMAIN info', NEW s \in 0..(info'[n].nstates - 1)
        PROVE  HasState(n, s)'
    <3>1. CASE n = d.name
      BY <1>8, <1>10, <2>4, <3>1 DEF HasState
    <3>2. CASE n # d.name
      BY <1>7, <1>10, <2>4, <3>2 DEF HasState, TablesMatch
    <3> QED
      BY <3>1, <3>2
  <2> QED
    BY <1>5, <2>1, <2>2, <2>3, <2>4 DEF TablesMatch
<1>13. LevelsMatch'
  <2>1. /\ Ready /\ Allocate(d, d.nstates) /\ d.nstates \in Nat
        /\ UNCHANGED << mesh, is_initialized >>
    BY <1>1 DEF DeclareField
  <2>2. \A i \in Ids : /\ field_vec'[i] = field_vec[i]
                       /\ info'[field_vec[i].name] = info[field_vec[i].name]
    BY <1>7, <1>10, <1>11
  <2>3. \A i \in Ids' \ Ids : /\ info'[field_vec'[i].name].shape = d.shape
                              /\ info'[field_vec'[i].name].ngrow = d.ngrow
    BY <1>9, <1>10
  <2> QED
    BY <1>1, <1>5, <2>1, <2>2, <2>3, AllocatingKeepsTheMatch
<1> QED
  BY <1>12, <1>13

(* Field::create_state.                                                    *)
LEMMA CreatingKeepsTheMatch ==
  ASSUME RepoInv, NEW name \in Names, CreateState(name)
  PROVE  TablesMatch' /\ LevelsMatch'
<1> DEFINE e == [name |-> name, state |-> NPH]
<1>1. /\ name \in DOMAIN info /\ info[name] \in Info /\ e \in Entry
      /\ field_vec \in Seq(Entry) /\ field_vec' = Append(field_vec, e) /\ info' = info
  BY DEF RepoInv, CreateState, StateMissing, TablesMatch, Entry, NPH
<1> HIDE DEF e
<1>2. /\ field_vec' \in Seq(Entry) /\ Len(field_vec') = Len(field_vec) + 1
      /\ Len(field_vec) \in Nat /\ field_vec'[Len(field_vec) + 1] = e
      /\ \A i \in 1..Len(field_vec) : field_vec'[i] = field_vec[i]
  BY <1>1
<1>3. Ids = 1..Len(field_vec) /\ Ids' = 1..(Len(field_vec) + 1)
  BY <1>1, <1>2, LenProperties DEF Ids
<1>4. \A i \in Ids : i \in Ids' /\ field_vec'[i] = field_vec[i]
  BY <1>2, <1>3
<1>5. \A i \in Ids' \ Ids : field_vec'[i].name = name
  <2>1. \A i \in Ids' \ Ids : i = Len(field_vec) + 1
    BY <1>2, <1>3
  <2> QED
    BY <1>2, <2>1 DEF e
<1>6. TablesMatch'
  <2>1. \A i \in Ids' : field_vec'[i].name \in DOMAIN info
    BY <1>1, <1>4, <1>5 DEF RepoInv, TablesMatch
  <2>2. \A n \in DOMAIN info : \A s \in 0..(info[n].nstates - 1) : HasState(n, s)'
    BY <1>4 DEF RepoInv, TablesMatch, HasState
  <2> QED
    BY <1>1, <1>2, <2>1, <2>2 DEF RepoInv, TablesMatch
<1>7. LevelsMatch'
  <2>1. /\ Ready /\ Allocate(info[name], 1) /\ UNCHANGED << mesh, is_initialized >>
        /\ info[name].shape \in Shapes /\ info[name].ngrow \in Nat
    BY <1>1 DEF CreateState, Info
  <2>2. \A i \in Ids : /\ field_vec'[i] = field_vec[i]
                       /\ info'[field_vec[i].name] = info[field_vec[i].name]
    BY <1>1, <1>4
  <2>3. \A i \in Ids' \ Ids : /\ info'[field_vec'[i].name].shape = info[name].shape
                              /\ info'[field_vec'[i].name].ngrow = info[name].ngrow
    BY <1>1, <1>5
  <2>4. 1 \in Nat /\ RepoInv
    BY DEF RepoInv
  <2> QED
    BY <1>2, <2>1, <2>2, <2>3, <2>4, AllocatingKeepsTheMatch
<1> QED
  BY <1>6, <1>7

-----------------------------------------------------------------------------
(* The contents of a level that has data.                                  *)
LEMMA ContentsTyped ==
  ASSUME TablesMatch, NEW data, Matches(data), NEW i \in Ids
  PROVE  data[i].val \in Contents
<1>1. i \in 1..Len(data)
  BY LenProperties DEF TablesMatch, Matches, Ids
<1>2. data[i] \in Fab
  BY <1>1, ElementOfSeq DEF Matches
<1> QED
  BY <1>2 DEF Fab, Contents

(* A level is made or remade with data that matches.                       *)
LEMMA PuttingKeepsTheMatch ==
  ASSUME RepoInv, NEW l \in Levels, NEW data, Put(l, data), Matches(data),
         WithData' = WithData \cup {l}, UNCHANGED << field_vec, info >>
  PROVE  TablesMatch' /\ LevelsMatch'
<1>1. TablesMatch' /\ (\A d : Matches(d) <=> Matches(d)')
  BY DEF RepoInv, TablesMatch, Matches, Ids, HasState
<1>2. /\ DOMAIN level_data' = Levels /\ level_data'[l] = data
      /\ \A k \in Levels \ {l} : level_data'[k] = level_data[k]
  BY DEF Put, RepoInv, LevelsMatch
<1>3. \A k \in Levels : IF k \in WithData' THEN Matches(level_data'[k])
                        ELSE level_data'[k] = NoLevel
  BY <1>2 DEF RepoInv, LevelsMatch
<1>4. \A k \in Levels : IF k \in WithData' THEN Matches(level_data[k])'
                        ELSE level_data'[k] = NoLevel
  BY <1>3 DEF RepoInv, TablesMatch, Matches, Ids
<1> QED
  BY <1>1, <1>2, <1>4 DEF LevelsMatch, Levels

(* A level whose data stays, or goes away, while the others stay.          *)
LEMMA KeepingKeepsTheMatch ==
  ASSUME RepoInv, WithData' = WithData, UNCHANGED << field_vec, info, level_data >>
  PROVE  TablesMatch' /\ LevelsMatch'
<1>1. TablesMatch'
  BY DEF RepoInv, TablesMatch, Ids, HasState
<1>2. \A l \in Levels : IF l \in WithData' THEN Matches(level_data[l])'
                        ELSE level_data'[l] = NoLevel
  BY DEF RepoInv, LevelsMatch, Matches, Ids
<1> QED
  BY <1>1, <1>2 DEF RepoInv, LevelsMatch, Levels

LEMMA ClearingKeepsTheMatch ==
  ASSUME RepoInv, NEW l \in Levels, Put(l, NoLevel),
         WithData' = WithData \ {l}, UNCHANGED << field_vec, info >>
  PROVE  TablesMatch' /\ LevelsMatch'
<1>1. TablesMatch'
  BY DEF RepoInv, TablesMatch, Ids, HasState
<1>2. /\ DOMAIN level_data' = Levels /\ level_data'[l] = NoLevel
      /\ \A k \in Levels \ {l} : level_data'[k] = level_data[k]
  BY DEF Put, RepoInv, LevelsMatch
<1>3. \A k \in Levels : IF k \in WithData' THEN Matches(level_data[k])'
                        ELSE level_data'[k] = NoLevel
  BY <1>2 DEF RepoInv, LevelsMatch, Matches, Ids
<1> QED
  BY <1>1, <1>2, <1>3 DEF LevelsMatch, Levels

(* Field operations on all the active levels.                              *)
LEMMA SettingKeepsTheMatch ==
  ASSUME RepoInv, NEW ids, NEW new, SetFields(ids, new),
         \A l \in Active : \A i \in Ids \cap ids : new[l][i] \in Contents
  PROVE  TablesMatch' /\ LevelsMatch' /\ UNCHANGED << mesh, is_initialized >>
<1>1. /\ mesh.op = "ready" /\ UNCHANGED << field_vec, info, is_initialized, mesh >>
  BY DEF SetFields
<1>2. TablesMatch' /\ field_vec \in Seq(Entry)
  BY <1>1 DEF RepoInv, TablesMatch, Ids, HasState
<1>3. WithData' = WithData /\ WithData = Active
  BY <1>1 DEF WithData, Active
<1>4. ASSUME NEW l \in Levels, l \in Active PROVE Matches(level_data'[l])
  <2>1. Matches(level_data[l])
    BY <1>3, <1>4 DEF RepoInv, LevelsMatch
  <2>2. level_data'[l] = Written(level_data[l], ids, new[l])
    BY <1>4 DEF SetFields, Written
  <2> QED
    BY <1>2, <1>4, <2>1, <2>2, WritingKeepsTheMatch
<1>5. \A l \in Levels : l \notin Active => level_data'[l] = level_data[l]
  BY DEF SetFields
<1>6. DOMAIN level_data' = Levels
  BY DEF SetFields
<1>7. \A l \in Levels : IF l \in WithData' THEN Matches(level_data[l])'
                        ELSE level_data'[l] = NoLevel
  BY <1>1, <1>3, <1>4, <1>5 DEF RepoInv, LevelsMatch, Matches, Ids
<1> QED
  BY <1>1, <1>2, <1>6, <1>7 DEF LevelsMatch, Levels

(* The data that a kept field gets on a new or remade level.               *)
LEMMA RefillingMatches ==
  ASSUME TablesMatch, NEW vals, \A i \in Ids : vals[i] \in Contents
  PROVE  Matches(Refilled(vals))
<1>1. Matches(NewLevelData) /\ field_vec \in Seq(Entry)
  BY NewLevelMatches DEF TablesMatch
<1>2. Refilled(vals) = Written(NewLevelData, kept, vals)
  BY DEF Refilled, Written
<1> QED
  BY <1>1, <1>2, WritingKeepsTheMatch

-----------------------------------------------------------------------------
(* Every step of an operation of the mesh.                                 *)
MeshNext ==
  \/ InitFromScratch \/ RestartMesh \/ MakeNewLevelFromScratch \/ MeshMade
  \/ BeginRegrid \/ RemakeLevel \/ LevelUnchanged \/ MakeNewLevelFromCoarse
  \/ ClearLevel \/ EndRegrid

LEMMA MeshStaysInOrder ==
  ASSUME RepoInv, MeshNext
  PROVE  MeshInOrder'
<1> USE RepoAssumption DEF RepoInv, MeshInOrder, Levels
<1>1. CASE InitFromScratch
  BY <1>1 DEF InitFromScratch
<1>2. CASE RestartMesh
  BY <1>2 DEF RestartMesh
<1>3. CASE MakeNewLevelFromScratch
  <2>1. /\ mesh'.op = mesh.op /\ mesh'.next = mesh.next + 1 /\ mesh'.target = mesh.target
        /\ mesh'.finest = IF mesh.op = "scratch" THEN mesh.next ELSE mesh.finest
        /\ DOMAIN mesh' = DOMAIN mesh /\ is_initialized'
        /\ mesh.op \in {"scratch", "restart"} /\ mesh.next <= mesh.target
    BY <1>3 DEF MakeNewLevelFromScratch
  <2>2. mesh' = [op |-> mesh.op, finest |-> mesh'.finest, next |-> mesh.next + 1,
                 target |-> mesh.target]
    BY <1>3, <2>1 DEF MakeNewLevelFromScratch
  <2>3. mesh'.finest \in -1..MaxLevel /\ mesh.next + 1 \in 0..(MaxLevel + 1)
    BY <2>1
  <2> QED
    BY <2>1, <2>2, <2>3
<1>4. CASE MeshMade
  BY <1>4 DEF MeshMade
<1>5. CASE BeginRegrid
  <2>1. PICK t \in Levels :
          mesh' = [op |-> "regrid", finest |-> mesh.finest, next |-> 1, target |-> t]
    BY <1>5 DEF BeginRegrid
  <2> QED
    BY <1>5, <2>1 DEF BeginRegrid
<1>6. CASE RemakeLevel
  BY <1>6 DEF RemakeLevel, NextLevel
<1>7. CASE LevelUnchanged
  BY <1>7 DEF LevelUnchanged, NextLevel
<1>8. CASE MakeNewLevelFromCoarse
  BY <1>8 DEF MakeNewLevelFromCoarse, NextLevel
<1>9. CASE ClearLevel
  BY <1>9 DEF ClearLevel, NextLevel
<1>10. CASE EndRegrid
  <2>1. mesh' = [op |-> "ready", finest |-> mesh.target, next |-> mesh.next,
                 target |-> mesh.target]
    BY <1>10 DEF EndRegrid
  <2> QED
    BY <1>10, <2>1 DEF EndRegrid
<1> QED
  BY <1>1, <1>2, <1>3, <1>4, <1>5, <1>6, <1>7, <1>8, <1>9, <1>10 DEF MeshNext

LEMMA MeshKeepsTheMatch ==
  ASSUME RepoInv, MeshNext
  PROVE  TablesMatch' /\ LevelsMatch'
<1> USE RepoAssumption DEF Levels
<1>0. TablesMatch /\ Matches(NewLevelData) /\ MeshInOrder
  BY NewLevelMatches DEF RepoInv
<1>1. CASE InitFromScratch
  <2>1. WithData' = WithData
    BY <1>1 DEF InitFromScratch, WithData
  <2> QED
    BY <1>1, <2>1, KeepingKeepsTheMatch DEF InitFromScratch
<1>2. CASE RestartMesh
  <2>1. WithData' = WithData
    BY <1>2 DEF RestartMesh, WithData
  <2> QED
    BY <1>2, <2>1, KeepingKeepsTheMatch DEF RestartMesh
<1>3. CASE MakeNewLevelFromScratch
  <2>1. mesh.next \in Levels /\ WithData' = WithData \cup {mesh.next}
    BY <1>0, <1>3 DEF MakeNewLevelFromScratch, WithData, MeshInOrder
  <2> QED
    BY <1>0, <1>3, <2>1, PuttingKeepsTheMatch DEF MakeNewLevelFromScratch
<1>4. CASE MeshMade
  <2>1. WithData' = WithData
    BY <1>0, <1>4 DEF MeshMade, WithData, MeshInOrder
  <2> QED
    BY <1>4, <2>1, KeepingKeepsTheMatch DEF MeshMade
<1>5. CASE BeginRegrid
  <2>1. WithData' = WithData
    BY <1>0, <1>5 DEF BeginRegrid, WithData, MeshInOrder
  <2> QED
    BY <1>5, <2>1, KeepingKeepsTheMatch DEF BeginRegrid
<1>6. CASE RemakeLevel
  <2>1. /\ mesh.next \in Levels /\ mesh.next - 1 \in Levels
        /\ mesh.next \in WithData /\ mesh.next - 1 \in WithData
        /\ WithData' = WithData \cup {mesh.next}
    BY <1>0, <1>6 DEF RemakeLevel, NextLevel, WithData, MeshInOrder
  <2>2. Matches(level_data[mesh.next]) /\ Matches(level_data[mesh.next - 1])
    BY <2>1 DEF RepoInv, LevelsMatch
  <2>3. \A i \in Ids : Patched[i] \in Contents
    BY <1>0, <2>2, ContentsTyped DEF Patched, Merge, Contents
  <2>4. Matches(Refilled(Patched))
    BY <1>0, <2>3, RefillingMatches
  <2> QED
    BY <1>6, <2>1, <2>4, PuttingKeepsTheMatch DEF RemakeLevel
<1>7. CASE LevelUnchanged
  <2>1. WithData' = WithData
    BY <1>0, <1>7 DEF LevelUnchanged, NextLevel, WithData, MeshInOrder
  <2> QED
    BY <1>7, <2>1, KeepingKeepsTheMatch DEF LevelUnchanged
<1>8. CASE MakeNewLevelFromCoarse
  <2>1. /\ mesh.next \in Levels /\ mesh.next - 1 \in Levels
        /\ mesh.next - 1 \in WithData
        /\ WithData' = WithData \cup {mesh.next}
    BY <1>0, <1>8 DEF MakeNewLevelFromCoarse, NextLevel, WithData, MeshInOrder
  <2>2. Matches(level_data[mesh.next - 1])
    BY <2>1 DEF RepoInv, LevelsMatch
  <2>3. \A i \in Ids : FromCoarse[i] \in Contents
    BY <1>0, <2>2, ContentsTyped DEF FromCoarse
  <2>4. Matches(Refilled(FromCoarse))
    BY <1>0, <2>3, RefillingMatches
  <2> QED
    BY <1>8, <2>1, <2>4, PuttingKeepsTheMatch DEF MakeNewLevelFromCoarse
<1>9. CASE ClearLevel
  <2>1. mesh.next \in Levels /\ WithData' = WithData \ {mesh.next}
    BY <1>0, <1>9 DEF ClearLevel, NextLevel, WithData, MeshInOrder
  <2> QED
    BY <1>9, <2>1, ClearingKeepsTheMatch DEF ClearLevel, ClearedData
<1>10. CASE EndRegrid
  <2>1. WithData' = WithData
    BY <1>0, <1>10 DEF EndRegrid, WithData, MeshInOrder
  <2> QED
    BY <1>10, <2>1, KeepingKeepsTheMatch DEF EndRegrid
<1> QED
  BY <1>1, <1>2, <1>3, <1>4, <1>5, <1>6, <1>7, <1>8, <1>9, <1>10 DEF MeshNext

-----------------------------------------------------------------------------
(* The operations of the fields leave their data matched: what they copy   *)
(* are the contents of another state of the same field, which exists.      *)
LEMMA FieldsKeepTheMatch ==
  ASSUME RepoInv,
         \/ \E i \in Ids, v \in Values : SetVal(i, v)
         \/ \E name \in Names : AdvanceStates(name) \/ SaveState(name) \/ RecallState(name)
  PROVE  TablesMatch' /\ LevelsMatch' /\ UNCHANGED << mesh, is_initialized >>
<1>1. ASSUME NEW l \in Active, NEW i \in Ids, mesh.op = "ready"
      PROVE  Val(l, i) \in Contents
  <2>1. l \in WithData /\ l \in Levels
    BY <1>1 DEF WithData, Active
  <2> QED
    BY <1>1, <2>1, ContentsTyped DEF RepoInv, LevelsMatch, Val
<1>2. ASSUME NEW n, NEW s, HasState(n, s) PROVE Id(n, s) \in Ids
  BY <1>2 DEF HasState, Id
<1>3. ASSUME NEW i \in Ids, NEW v \in Values, SetVal(i, v)
      PROVE  TablesMatch' /\ LevelsMatch' /\ UNCHANGED << mesh, is_initialized >>
  <2> DEFINE new == [l \in Active |-> [j \in {i} |-> v]]
  <2>1. SetFields({i}, new)
    BY <1>3 DEF SetVal
  <2>2. \A l \in Active : \A j \in Ids \cap {i} : new[l][j] \in Contents
    BY DEF Contents
  <2> HIDE DEF new
  <2> QED
    BY <2>1, <2>2, SettingKeepsTheMatch
<1>4. ASSUME NEW name \in Names, AdvanceStates(name)
      PROVE  TablesMatch' /\ LevelsMatch' /\ UNCHANGED << mesh, is_initialized >>
  <2> DEFINE ids == OlderStates(name)
             new == [l \in Active |-> [i \in ids |->
                       Val(l, Id(name, field_vec[i].state - 1))]]
  <2>1. SetFields(ids, new) /\ name \in DOMAIN info /\ mesh.op = "ready"
    BY <1>4 DEF AdvanceStates, SetFields
  <2>2. ASSUME NEW l \in Active, NEW i \in ids PROVE new[l][i] \in Contents
    <3>1. /\ field_vec[i].state - 1 \in 0..(info[name].nstates - 1)
      BY <2>1 DEF OlderStates, RepoInv, TablesMatch, Info
    <3>2. HasState(name, field_vec[i].state - 1)
      BY <2>1, <3>1 DEF RepoInv, TablesMatch
    <3>3. Val(l, Id(name, field_vec[i].state - 1)) \in Contents
      BY <1>1, <1>2, <2>1, <3>2
    <3> QED
      BY <3>3
  <2> HIDE DEF new, ids
  <2> QED
    BY <2>1, <2>2, SettingKeepsTheMatch
<1>5. ASSUME NEW name, NEW to, NEW from, CopyState(name, to, from)
      PROVE  TablesMatch' /\ LevelsMatch' /\ UNCHANGED << mesh, is_initialized >>
  <2> DEFINE ids == {Id(name, to)}
             new == [l \in Active |-> [i \in ids |-> Val(l, Id(name, from))]]
  <2>1. SetFields(ids, new) /\ HasState(name, from) /\ mesh.op = "ready"
    BY <1>5 DEF CopyState, SetFields
  <2>2. ASSUME NEW l \in Active, NEW i \in ids PROVE new[l][i] \in Contents
    <3>1. Val(l, Id(name, from)) \in Contents
      BY <1>1, <1>2, <2>1
    <3> QED
      BY <3>1
  <2> HIDE DEF new, ids
  <2> QED
    BY <2>1, <2>2, SettingKeepsTheMatch
<1> QED
  BY <1>3, <1>4, <1>5 DEF SaveState, RecallState

(* The inductive invariant: the level data can only stay matched because   *)
(* every field has its FieldInfo and all its states, and because a mesh    *)
(* operation has come no further than its counters say.                    *)
THEOREM MatchIsInvariant == RepoSpec => []RepoInv
<1>1. RepoInit => RepoInv
  <2> SUFFICES ASSUME RepoInit PROVE RepoInv
    OBVIOUS
  <2> USE RepoAssumption DEF RepoInit, Levels
  <2>1. TablesMatch
    BY DEF TablesMatch, Ids
  <2>2. LevelsMatch
    BY DEF LevelsMatch, WithData
  <2>3. MeshInOrder
    BY DEF MeshInOrder
  <2> QED
    BY <2>1, <2>2, <2>3 DEF RepoInv
<1>2. RepoInv /\ [RepoNext]_repo_vars => RepoInv'
  <2> SUFFICES ASSUME RepoInv, [RepoNext]_repo_vars PROVE RepoInv'
    OBVIOUS
  <2>1. ASSUME UNCHANGED << mesh, is_initialized >> PROVE MeshInOrder'
    BY <2>1 DEF RepoInv, MeshInOrder
  <2>2. ASSUME UNCHANGED << field_vec, info, level_data, mesh, is_initialized >>
        PROVE  RepoInv'
    <3>1. WithData' = WithData
      BY <2>2 DEF WithData
    <3> QED
      BY <2>1, <2>2, <3>1, KeepingKeepsTheMatch DEF RepoInv
  <2>3. CASE \E d \in Decls : DeclareAgain(d)
    BY <2>2, <2>3 DEF DeclareAgain
  <2>4. CASE \E d \in Decls : DeclareField(d)
    BY <2>1, <2>4, DeclaringKeepsTheMatch DEF DeclareField, RepoInv
  <2>5. CASE \E name \in Names : CreateState(name)
    BY <2>1, <2>5, CreatingKeepsTheMatch DEF CreateState, RepoInv
  <2>6. CASE MeshNext
    BY <2>6, MeshStaysInOrder, MeshKeepsTheMatch DEF RepoInv
  <2>7. CASE \/ \E i \in Ids, v \in Values : SetVal(i, v)
             \/ \E name \in Names : AdvanceStates(name) \/ SaveState(name)
                                    \/ RecallState(name)
    BY <2>1, <2>7, FieldsKeepTheMatch DEF RepoInv
  <2>8. CASE UNCHANGED repo_vars
    BY <2>2, <2>8 DEF repo_vars
  <2> QED
    BY <2>3, <2>4, <2>5, <2>6, <2>7, <2>8 DEF RepoNext, MeshNext
<1> QED
  BY <1>1, <1>2, PTL DEF RepoSpec

(* Element id of every level's data is the MultiFab of field number id, of *)
(* that field's components and ghost cells, whatever is declared when and  *)
(* however often levels are made, remade and removed                       *)
(* (FieldRepo::declare_field, create_state, make_new_level_from_coarse,    *)
(* remake_level, clear_level).                                             *)
THEOREM DataStaysMatched == RepoSpec => []LevelDataMatchesFields
<1>1. RepoInv => LevelDataMatchesFields
  BY DEF RepoInv, LevelsMatch, Matches, LevelDataMatchesFields
<1> QED
  BY <1>1, MatchIsInvariant, PTL

-----------------------------------------------------------------------------
(* The contents of the fields through regrids. *)

LEMMA CoarsestHasData ==
  ASSUME RepoInv, NEW l \in WithData
  PROVE  0 \in WithData /\ l \in Levels
BY RepoAssumption DEF RepoInv, MeshInOrder, WithData, Levels

(* New fields are zero on every level there is, the others keep what they  *)
(* have.                                                                   *)
LEMMA AllocatedValues ==
  ASSUME RepoInv, NEW in, NEW n \in Nat, Ready, Allocate(in, n),
         in.shape \in Shapes, in.ngrow \in Nat, Ids' = 1..(Len(field_vec) + n),
         NEW l \in WithData
  PROVE  /\ \A i \in Ids : Val(l, i)' = Val(l, i)
         /\ \A i \in Ids' \ Ids : Val(l, i)' = Zero
<1> DEFINE data == level_data[l]
           more == [i \in 1..n |-> NewFab(in)]
<1>1. Ids = 1..Len(field_vec) /\ Len(field_vec) \in Nat
  BY LenProperties DEF RepoInv, TablesMatch, Ids
<1>2. l \in Levels /\ AllocatedOn(l)
  BY CoarsestHasData DEF RepoInv, Ready, MeshInOrder, WithData, AllocatedOn, Levels
<1>3. data \in Seq(Fab) /\ Len(data) = Len(field_vec)
  BY <1>2 DEF RepoInv, LevelsMatch, Matches
<1>4. more \in Seq(Fab) /\ Len(more) = n
  BY NewFabTyped, Constants
<1>5. level_data'[l] = data \o more
  BY <1>2 DEF Allocate
<1>6. \A i \in 1..n : more[i].val = Zero
  BY DEF NewFab
<1> HIDE DEF data, more
<1>7. \A i \in 1..(Len(field_vec) + n) : (data \o more)[i] =
         IF i <= Len(field_vec) THEN data[i] ELSE more[i - Len(field_vec)]
  <2>1. \A i \in 1..(Len(data) + Len(more)) : (data \o more)[i] =
           IF i <= Len(data) THEN data[i] ELSE more[i - Len(data)]
    BY <1>3, <1>4, ConcatProperties
  <2> QED
    BY <2>1, <1>3, <1>4
<1>8. ASSUME NEW i \in Ids PROVE Val(l, i)' = Val(l, i)
  <2>1. i <= Len(field_vec) /\ i \in 1..(Len(field_vec) + n)
    BY <1>1
  <2> QED
    BY <1>5, <1>7, <2>1 DEF Val, data
<1>9. ASSUME NEW i \in Ids' \ Ids PROVE Val(l, i)' = Zero
  <2>1. /\ i - Len(field_vec) \in 1..n /\ ~(i <= Len(field_vec))
        /\ i \in 1..(Len(field_vec) + n)
    BY <1>1
  <2>2. level_data'[l][i] = more[i - Len(field_vec)]
    BY <1>5, <1>7, <2>1
  <2> QED
    BY <1>6, <2>1, <2>2 DEF Val
<1> QED
  BY <1>8, <1>9

(* Fields that are added change nothing for those there are: they have     *)
(* names or states of their own, and have not been saved.                  *)
LEMMA GrowingKeepsContents ==
  ASSUME RepoInv, RegridInv, UNCHANGED << mesh, stepped >>,
         Ids \subseteq Ids', \A i \in Ids : field_vec'[i] = field_vec[i],
         \A i, j \in Ids' : field_vec'[i] = field_vec'[j] => i = j,
         \A i \in Ids' \ Ids : field_vec'[i].state # N \/ field_vec'[i].name \notin stepped,
         DOMAIN info \subseteq DOMAIN info',
         NEW new, kept' = kept \cup new,
         \A i \in new : /\ i \in Ids' \ Ids /\ field_vec'[i].state = NP1
                        /\ field_vec'[i].name \notin stepped,
         \A l \in WithData : /\ \A i \in Ids : Val(l, i)' = Val(l, i)
                             /\ \A i \in Ids' \ Ids : Val(l, i)' = Zero
  PROVE  RegridInv'
<1> USE DEF RegridInv
<1>1. WithData' = WithData
  BY DEF WithData
<1>2. \A l \in WithData : 0 \in WithData
  BY CoarsestHasData
<1>3. EntriesUnique'
  BY DEF EntriesUnique
<1>4. KeptAreNew'
  BY DEF KeptAreNew
<1>5. ASSUME NEW l \in WithData, NEW i \in Ids', field_vec'[i].state = N,
             field_vec'[i].name \in stepped, KeptName(field_vec[i].name)'
      PROVE  Val(l, i)' = Val(0, i)'
  <2>1. i \in Ids /\ field_vec'[i] = field_vec[i]
    BY <1>5
  <2>2. PICK j \in kept' : field_vec'[j].name = field_vec'[i].name
    BY <1>5 DEF KeptName
  <2>3. j \in kept /\ j \in Ids /\ field_vec'[j] = field_vec[j]
    BY <1>5, <2>2 DEF KeptAreNew
  <2>4. KeptName(field_vec[i].name)
    BY <2>1, <2>2, <2>3 DEF KeptName
  <2>5. Val(l, i) = Val(0, i)
    BY <1>5, <2>1, <2>4 DEF SavedSinceRegrid
  <2> QED
    BY <1>2, <2>1, <2>5
<1>6. SavedSinceRegrid'
  BY <1>1, <1>5 DEF SavedSinceRegrid
<1>7. ZeroUntilReady'
  BY <1>1 DEF ZeroUntilReady
<1>8. \A l \in WithData, i \in kept' : Val(l, i)' = Val(0, i)'
  BY <1>2 DEF KeptAreNew, KeptFieldsSurviveRegrid, Val
<1>9. \A l \in WithData, i \in Ids' : Val(l, i)' \in {Val(0, i)', Zero}
  BY <1>2 DEF OtherFieldsCurrentOrZero, Val
<1> QED
  BY <1>1, <1>3, <1>4, <1>6, <1>7, <1>8, <1>9
     DEF KeptFieldsSurviveRegrid, OtherFieldsCurrentOrZero, Val

LEMMA DeclaringKeepsContents ==
  ASSUME RepoInv, RegridInv, NEW d \in Decls, DeclareField(d)
  PROVE  RegridInv'
<1> DEFINE new == [i \in 1..d.nstates |-> [name |-> d.name, state |-> i - 1]]
           n == Len(field_vec)
<1>1. /\ d.shape \in Shapes /\ d.ngrow \in Nat /\ d.nstates \in 1..3 /\ d.name \notin DOMAIN info
  BY RepoAssumption DEF Decl, DeclareField, StatesAllowed, NM1
<1>2. new \in Seq(Entry) /\ Len(new) = d.nstates
  <2>1. d.name \in Names
    BY RepoAssumption DEF Decl
  <2>2. \A i \in 1..d.nstates : [name |-> d.name, state |-> i - 1] \in Entry
    BY <1>1, <2>1 DEF Entry
  <2> QED
    BY <1>1, <2>2
<1>3. field_vec' = field_vec \o new /\ field_vec \in Seq(Entry) /\ n \in Nat
  BY LenProperties DEF DeclareField, RepoInv, TablesMatch
<1>4. \A i \in 1..d.nstates : new[i] = [name |-> d.name, state |-> i - 1]
  OBVIOUS
<1> HIDE DEF new
<1>5. /\ Len(field_vec') = n + d.nstates /\ field_vec' \in Seq(Entry)
      /\ \A i \in 1..(n + d.nstates) : field_vec'[i] =
            IF i <= n THEN field_vec[i] ELSE new[i - n]
  <2>1. /\ field_vec \o new \in Seq(Entry)
        /\ Len(field_vec \o new) = Len(field_vec) + Len(new)
        /\ \A i \in 1..(Len(field_vec) + Len(new)) : (field_vec \o new)[i] =
              IF i <= Len(field_vec) THEN field_vec[i] ELSE new[i - Len(field_vec)]
    BY <1>2, <1>3, ConcatProperties
  <2> QED
    BY <2>1, <1>2, <1>3
<1>6. Ids = 1..n /\ Ids' = 1..(n + d.nstates)
  BY <1>3, <1>5, LenProperties DEF Ids
<1>7. \A i \in Ids : field_vec'[i] = field_vec[i] /\ i \in Ids'
  BY <1>1, <1>3, <1>5, <1>6
<1>8. \A i \in Ids' \ Ids : /\ field_vec'[i].name = d.name
                             /\ field_vec'[i].state = (i - n) - 1
                             /\ i \in Int
  <2> SUFFICES ASSUME NEW i \in Ids' \ Ids
               PROVE  /\ field_vec'[i].name = d.name
                      /\ field_vec'[i].state = (i - n) - 1
                      /\ i \in Int
    OBVIOUS
  <2>1. i \in 1..(n + d.nstates) /\ ~(i <= n) /\ i - n \in 1..d.nstates
    BY <1>1, <1>3, <1>6
  <2>2. field_vec'[i] = new[i - n]
    BY <1>5, <2>1
  <2>3. field_vec'[i] = [name |-> d.name, state |-> (i - n) - 1]
    BY <1>4, <2>1, <2>2
  <2> QED
    BY <2>1, <2>3
<1>9. \A i \in Ids : field_vec[i].name # d.name
  BY <1>1 DEF RepoInv, TablesMatch
<1> HIDE DEF n
<1>10. ASSUME NEW i \in Ids', NEW j \in Ids', field_vec'[i] = field_vec'[j] PROVE i = j
  <2>1. CASE i \in Ids /\ j \in Ids
    BY <1>7, <1>10, <2>1 DEF RegridInv, EntriesUnique
  <2>2. CASE i \notin Ids /\ j \notin Ids
    <3>1. (i - n) - 1 = (j - n) - 1 /\ i \in Int /\ j \in Int
      BY <1>8, <1>10, <2>2
    <3> QED
      BY <1>3, <3>1
  <2>3. CASE (i \in Ids /\ j \notin Ids) \/ (i \notin Ids /\ j \in Ids)
    <3>1. \A k \in Ids : field_vec'[k].name # d.name
      BY <1>7, <1>9
    <3>2. \A k \in Ids' \ Ids : field_vec'[k].name = d.name
      BY <1>8
    <3> QED
      BY <1>10, <2>3, <3>1, <3>2
  <2> QED
    BY <2>1, <2>2, <2>3
<1>11. d.name \notin stepped
  BY <1>1 DEF RegridInv, SavedSinceRegrid
<1>12. \A i \in Ids' \ Ids : field_vec'[i].name \notin stepped
  BY <1>8, <1>11
<1> DEFINE add == IF d.keep THEN {n + 1} ELSE {}
<1>13. kept' = kept \cup add
  BY DEF DeclareField, KeepDeclared, n
<1>14. \A i \in add : /\ i \in Ids' \ Ids /\ field_vec'[i].state = NP1
                      /\ field_vec'[i].name \notin stepped
  <2>1. n + 1 \in Ids' \ Ids
    BY <1>1, <1>3, <1>6
  <2>2. field_vec'[n + 1].name = d.name /\ field_vec'[n + 1].state = ((n + 1) - n) - 1
    BY <1>8, <2>1
  <2>3. ((n + 1) - n) - 1 = NP1
    BY <1>3 DEF NP1
  <2> QED
    BY <2>1, <2>2, <2>3, <1>11
<1>15. \A l \in WithData : /\ \A i \in Ids : Val(l, i)' = Val(l, i)
                           /\ \A i \in Ids' \ Ids : Val(l, i)' = Zero
  <2>1. Ready /\ Allocate(d, d.nstates) /\ d.nstates \in Nat
    BY <1>1 DEF DeclareField
  <2>2. Ids' = 1..(Len(field_vec) + d.nstates)
    BY <1>6 DEF n
  <2> QED
    BY <1>1, <2>1, <2>2, AllocatedValues
<1>16. UNCHANGED << mesh, stepped >> /\ DOMAIN info \subseteq DOMAIN info'
  BY DEF DeclareField
<1> HIDE DEF add
<1> QED
  BY <1>7, <1>10, <1>12, <1>13, <1>14, <1>15, <1>16, GrowingKeepsContents

LEMMA CreatingKeepsContents ==
  ASSUME RepoInv, RegridInv, NEW name \in Names, CreateState(name)
  PROVE  RegridInv'
<1> DEFINE e == [name |-> name, state |-> NPH]
           n == Len(field_vec)
<1>1. /\ name \in DOMAIN info /\ info[name] \in Info /\ ~HasState(name, NPH)
      /\ field_vec \in Seq(Entry) /\ field_vec' = Append(field_vec, e)
      /\ info' = info /\ kept' = kept \cup {} /\ UNCHANGED << mesh, stepped >>
      /\ e \in Entry
  BY DEF RepoInv, CreateState, StateMissing, TablesMatch, Entry, NPH
<1>2. e.state # N
  BY DEF NPH, N
<1>3. \A i \in Ids : field_vec[i] # e
  BY <1>1 DEF HasState
<1> HIDE DEF e
<1>4. /\ Len(field_vec') = n + 1 /\ n \in Nat /\ field_vec'[n + 1] = e
      /\ \A i \in 1..n : field_vec'[i] = field_vec[i]
      /\ field_vec' \in Seq(Entry)
  BY <1>1
<1>5. Ids = 1..n /\ Ids' = 1..(n + 1)
  BY <1>1, <1>4, LenProperties DEF Ids
<1>6. \A i \in Ids : i \in Ids' /\ field_vec'[i] = field_vec[i]
  BY <1>4, <1>5
<1>7. \A i \in Ids' \ Ids : i = n + 1 /\ field_vec'[i] = e
  BY <1>4, <1>5
<1>8. ASSUME NEW i \in Ids', NEW j \in Ids', field_vec'[i] = field_vec'[j] PROVE i = j
  BY <1>3, <1>6, <1>7, <1>8 DEF RegridInv, EntriesUnique
<1>9. \A l \in WithData : /\ \A i \in Ids : Val(l, i)' = Val(l, i)
                          /\ \A i \in Ids' \ Ids : Val(l, i)' = Zero
  <2>1. Ready /\ Allocate(info[name], 1) /\ 1 \in Nat
        /\ info[name].shape \in Shapes /\ info[name].ngrow \in Nat
    BY <1>1 DEF CreateState, Info
  <2> QED
    BY <1>5, <2>1, AllocatedValues
<1>10. /\ \A i \in Ids' \ Ids : field_vec'[i].state # N
       /\ Ids \subseteq Ids' /\ DOMAIN info \subseteq DOMAIN info'
  BY <1>1, <1>2, <1>6, <1>7
<1> DEFINE add == {}
<1>11. kept' = kept \cup add
  BY <1>1
<1>12. \A i \in add : /\ i \in Ids' \ Ids /\ field_vec'[i].state = NP1
                      /\ field_vec'[i].name \notin stepped
  OBVIOUS
<1> HIDE DEF add
<1> QED
  BY <1>1, <1>6, <1>8, <1>9, <1>10, <1>11, <1>12, GrowingKeepsContents

(* A second declaration may keep a field only while there is no mesh.      *)
LEMMA AgainKeepsContents ==
  ASSUME RepoInv, RegridInv, NEW d \in Decls, DeclareAgain(d)
  PROVE  RegridInv'
<1> USE DEF RegridInv
<1>1. UNCHANGED << field_vec, info, level_data, is_initialized, mesh, stepped >>
  BY DEF DeclareAgain
<1>2. WithData' = WithData /\ Ids' = Ids
  BY <1>1 DEF WithData, Ids
<1>3. CASE ~d.keep
  <2>1. kept' = kept
    BY <1>3 DEF DeclareAgain, KeepDeclared
  <2> QED
    BY <1>1, <1>2, <2>1
       DEF EntriesUnique, KeptAreNew, SavedSinceRegrid, ZeroUntilReady, KeptName, Val,
           KeptFieldsSurviveRegrid, OtherFieldsCurrentOrZero
<1>4. CASE d.keep
  <2>1. /\ ~is_initialized /\ d.name \in DOMAIN info
        /\ kept' = kept \cup {Id(d.name, NP1)}
    BY <1>4 DEF DeclareAgain, KeepDeclared
  <2>2. WithData = {}
    BY <2>1 DEF RepoInv, MeshInOrder, DeclareAgain, Ready, WithData
  <2>3. HasState(d.name, 0)
    <3>1. 0 \in 0..(info[d.name].nstates - 1)
      BY <2>1 DEF RepoInv, TablesMatch, Info
    <3> QED
      BY <2>1, <3>1 DEF RepoInv, TablesMatch
  <2>4. Id(d.name, NP1) \in Ids /\ field_vec[Id(d.name, NP1)].state = NP1
    BY <2>3 DEF HasState, Id, NP1
  <2>5. KeptAreNew'
    BY <1>1, <1>2, <2>1, <2>4 DEF KeptAreNew
  <2> QED
    BY <1>1, <1>2, <2>2, <2>5
       DEF EntriesUnique, SavedSinceRegrid, ZeroUntilReady,
           KeptFieldsSurviveRegrid, OtherFieldsCurrentOrZero
<1> QED
  BY <1>3, <1>4

(* A step of the mesh that leaves the data alone.                          *)
LEMMA SameContents ==
  ASSUME RepoInv, RegridInv, WithData' \subseteq WithData,
         UNCHANGED << field_vec, info, kept >>,
         \A l \in WithData' \cup {0} : level_data'[l] = level_data[l],
         stepped' \in {stepped, {}},
         mesh'.op # "ready" => stepped' = {},
         mesh'.op \in {"none", "scratch", "restart"} => mesh.op \in {"none", "scratch", "restart"}
  PROVE  RegridInv'
<1> USE DEF RegridInv
<1>1. Ids' = Ids /\ \A n : KeptName(n)' = KeptName(n)
  BY DEF Ids, KeptName
<1>2. \A l \in WithData' \cup {0}, i \in Ids : Val(l, i)' = Val(l, i)
  BY DEF Val
<1>3. EntriesUnique' /\ KeptAreNew' /\ ZeroUntilReady'
  BY <1>1, <1>2 DEF EntriesUnique, KeptAreNew, ZeroUntilReady
<1>4. \A l \in WithData', i \in Ids :
        field_vec[i].state = N /\ field_vec[i].name \in stepped' /\ KeptName(field_vec[i].name)
        => Val(l, i)' = Val(0, i)'
  BY <1>2 DEF SavedSinceRegrid
<1>5. SavedSinceRegrid'
  <2>1. \A i \in Ids : KeptName(field_vec[i].name)' = KeptName(field_vec[i].name)
    BY DEF KeptName
  <2> QED
    BY <1>1, <1>4, <2>1 DEF SavedSinceRegrid
<1>6. \A l \in WithData', i \in kept : Val(l, i)' = Val(0, i)'
  BY <1>2 DEF KeptAreNew, KeptFieldsSurviveRegrid, Val
<1>7. \A l \in WithData', i \in Ids : Val(l, i)' \in {Val(0, i)', Zero}
  BY <1>2 DEF OtherFieldsCurrentOrZero, Val
<1> QED
  BY <1>1, <1>3, <1>5, <1>6, <1>7 DEF KeptFieldsSurviveRegrid, OtherFieldsCurrentOrZero, Val

(* A level that AMReX makes from scratch, before there is anything but     *)
(* zeros.                                                                  *)
LEMMA ScratchKeepsContents ==
  ASSUME RepoInv, RegridInv, MakeNewLevelFromScratch
  PROVE  RegridInv'
<1> USE DEF RegridInv
<1> DEFINE k == mesh.next
<1>1. /\ mesh.op \in {"scratch", "restart"} /\ mesh'.op = mesh.op
      /\ k \in Levels /\ WithData' = WithData \cup {k} /\ Put(k, NewLevelData)
      /\ UNCHANGED << field_vec, info, kept, stepped >>
  BY RepoAssumption DEF MakeNewLevelFromScratch, WithData, RepoInv, MeshInOrder, Levels
<1>2. /\ level_data'[k] = NewLevelData
      /\ \A l \in WithData \ {k} : level_data'[l] = level_data[l]
  <2> HIDE DEF k
  <2> QED
    BY <1>1, CoarsestHasData DEF Put, RepoInv, LevelsMatch
<1> HIDE DEF k
<1>3. Ids' = Ids /\ \A i \in Ids : NewLevelData[i].val = Zero
  BY <1>1 DEF Ids, NewLevelData, NewFab
<1>4. \A l \in WithData', i \in Ids : Val(l, i)' = Zero
  BY <1>1, <1>2, <1>3 DEF Val, ZeroUntilReady
<1>5. 0 \in WithData'
  BY <1>1, RepoAssumption DEF MakeNewLevelFromScratch, WithData, RepoInv, MeshInOrder, Levels
<1>6. EntriesUnique' /\ KeptAreNew' /\ ZeroUntilReady' /\ SavedSinceRegrid'
  BY <1>1, <1>3, <1>4, <1>5 DEF EntriesUnique, KeptAreNew, ZeroUntilReady, SavedSinceRegrid
<1>7. \A l \in WithData', i \in kept : Val(l, i)' = Val(0, i)'
  BY <1>4, <1>5 DEF KeptAreNew
<1>8. \A l \in WithData', i \in Ids : Val(l, i)' \in {Val(0, i)', Zero}
  BY <1>4
<1> QED
  BY <1>1, <1>3, <1>6, <1>7, <1>8 DEF KeptFieldsSurviveRegrid, OtherFieldsCurrentOrZero, Val

(* A level above the coarsest that a regrid makes or remakes: its fields   *)
(* are zero or what they are on the coarsest; the kept ones are the latter.*)
LEMMA RefillingKeepsContents ==
  ASSUME RepoInv, RegridInv, NEW l \in Levels, l # 0, NEW vals, Put(l, Refilled(vals)),
         WithData' = WithData \cup {l}, UNCHANGED << field_vec, info, kept, stepped >>,
         mesh.op = "regrid", mesh'.op = "regrid", 0 \in WithData,
         \A i \in kept : vals[i] = Val(0, i)
  PROVE  RegridInv'
<1> USE DEF RegridInv
<1>1. Ids' = Ids /\ stepped = {} /\ kept \subseteq Ids
  BY DEF Ids, SavedSinceRegrid, KeptAreNew
<1>2. /\ level_data'[l] = Refilled(vals)
      /\ \A k \in WithData \ {l} : level_data'[k] = level_data[k]
  BY CoarsestHasData DEF Put, RepoInv, LevelsMatch
<1>3. \A i \in Ids : Refilled(vals)[i].val = IF i \in kept THEN vals[i] ELSE Zero
  BY DEF Refilled, NewLevelData, NewFab
<1>4. /\ \A i \in Ids : Val(l, i)' = IF i \in kept THEN vals[i] ELSE Zero
      /\ \A k \in WithData \ {l}, i \in Ids : Val(k, i)' = Val(k, i)
  BY <1>2, <1>3 DEF Val
<1>5. \A i \in Ids : Val(0, i)' = Val(0, i)
  BY <1>4
<1>6. EntriesUnique' /\ KeptAreNew' /\ SavedSinceRegrid' /\ ZeroUntilReady'
  BY <1>1 DEF EntriesUnique, KeptAreNew, SavedSinceRegrid, ZeroUntilReady
<1>7. \A k \in WithData', i \in kept : Val(k, i)' = Val(0, i)'
  BY <1>1, <1>4, <1>5 DEF KeptFieldsSurviveRegrid, Val
<1>8. \A k \in WithData', i \in Ids : Val(k, i)' \in {Val(0, i)', Zero}
  BY <1>1, <1>4, <1>5 DEF OtherFieldsCurrentOrZero, Val
<1> QED
  BY <1>1, <1>6, <1>7, <1>8 DEF KeptFieldsSurviveRegrid, OtherFieldsCurrentOrZero, Val

LEMMA MeshKeepsContents ==
  ASSUME RepoInv, RegridInv, MeshNext
  PROVE  RegridInv'
<1> USE RepoAssumption DEF Levels
<1>0. MeshInOrder /\ (mesh.op # "ready" => stepped = {})
  BY DEF RepoInv, RegridInv, SavedSinceRegrid
<1>1. CASE InitFromScratch \/ RestartMesh
  <2>1. /\ WithData' = WithData /\ UNCHANGED << field_vec, info, kept, level_data, stepped >>
        /\ mesh.op = "none" /\ mesh'.op \in {"scratch", "restart"}
    BY <1>1 DEF InitFromScratch, RestartMesh, WithData
  <2> QED
    BY <1>0, <2>1, SameContents
<1>2. CASE MakeNewLevelFromScratch
  BY <1>2, ScratchKeepsContents
<1>3. CASE MeshMade
  <2>1. /\ WithData' = WithData /\ UNCHANGED << field_vec, info, kept, level_data, stepped >>
        /\ mesh'.op = "ready"
    BY <1>0, <1>3 DEF MeshMade, WithData, MeshInOrder
  <2> QED
    BY <2>1, SameContents
<1>4. CASE BeginRegrid
  <2>1. /\ WithData' = WithData /\ UNCHANGED << field_vec, info, kept, level_data >>
        /\ mesh'.op = "regrid" /\ stepped' = {}
    BY <1>0, <1>4 DEF BeginRegrid, WithData, MeshInOrder
  <2> QED
    BY <2>1, SameContents
<1>5. CASE RemakeLevel
  <2>1. /\ mesh.next \in Levels /\ mesh.next # 0 /\ 0 \in WithData
        /\ mesh.next \in WithData /\ mesh.next - 1 \in WithData
        /\ WithData' = WithData \cup {mesh.next}
        /\ mesh.op = "regrid" /\ mesh'.op = "regrid"
    BY <1>0, <1>5 DEF RemakeLevel, NextLevel, WithData, MeshInOrder
  <2>2. \A i \in kept : Patched[i] = Val(0, i)
    BY <2>1 DEF Patched, Merge, Val, RegridInv, KeptFieldsSurviveRegrid, KeptAreNew
  <2> QED
    BY <1>5, <2>1, <2>2, RefillingKeepsContents DEF RemakeLevel
<1>6. CASE LevelUnchanged
  <2>1. /\ WithData' = WithData /\ UNCHANGED << field_vec, info, kept, level_data, stepped >>
        /\ mesh.op = "regrid" /\ mesh'.op = "regrid"
    BY <1>0, <1>6 DEF LevelUnchanged, NextLevel, WithData, MeshInOrder
  <2> QED
    BY <1>0, <2>1, SameContents
<1>7. CASE MakeNewLevelFromCoarse
  <2>1. /\ mesh.next \in Levels /\ mesh.next # 0 /\ 0 \in WithData
        /\ mesh.next - 1 \in WithData
        /\ WithData' = WithData \cup {mesh.next}
        /\ mesh.op = "regrid" /\ mesh'.op = "regrid"
    BY <1>0, <1>7 DEF MakeNewLevelFromCoarse, NextLevel, WithData, MeshInOrder
  <2>2. \A i \in kept : FromCoarse[i] = Val(0, i)
    BY <2>1 DEF FromCoarse, Val, RegridInv, KeptFieldsSurviveRegrid, KeptAreNew
  <2> QED
    BY <1>7, <2>1, <2>2, RefillingKeepsContents DEF MakeNewLevelFromCoarse
<1>8. CASE ClearLevel
  <2>1. /\ mesh.next \in Levels /\ mesh.next # 0 /\ WithData' = WithData \ {mesh.next}
        /\ mesh.op = "regrid" /\ mesh'.op = "regrid"
        /\ UNCHANGED << field_vec, info, kept, stepped >>
    BY <1>0, <1>8 DEF ClearLevel, NextLevel, WithData, MeshInOrder
  <2>2. \A l \in Levels \ {mesh.next} : level_data'[l] = level_data[l]
    BY <1>8 DEF ClearLevel, Put, RepoInv, LevelsMatch
  <2>3. WithData' \cup {0} \subseteq Levels \ {mesh.next}
    BY <2>1, CoarsestHasData
  <2> QED
    BY <1>0, <2>1, <2>2, <2>3, SameContents
<1>9. CASE EndRegrid
  <2>1. /\ WithData' = WithData /\ UNCHANGED << field_vec, info, kept, level_data, stepped >>
        /\ mesh'.op = "ready"
    BY <1>0, <1>9 DEF EndRegrid, WithData, MeshInOrder
  <2> QED
    BY <2>1, SameContents
<1> QED
  BY <1>1, <1>2, <1>3, <1>4, <1>5, <1>6, <1>7, <1>8, <1>9 DEF MeshNext

(* Writing to fields on all the levels, alike on all levels for those that *)
(* are kept, and for the Old states that may be recalled to them.          *)
LEMMA SettingKeepsContents ==
  ASSUME RepoInv, RegridInv, NEW ids, NEW new, SetFields(ids, new),
         stepped' \subseteq DOMAIN info,
         \A l \in Active, i \in Ids \cap ids : new[l][i] \in {new[0][i], Zero},
         \A l \in Active, i \in kept \cap ids : new[l][i] = new[0][i],
         \A l \in Active, i \in Ids :
           field_vec[i].state = N /\ field_vec[i].name \in stepped'
             /\ KeptName(field_vec[i].name)
           => IF i \in ids THEN new[l][i] = new[0][i] ELSE field_vec[i].name \in stepped
  PROVE  RegridInv'
<1> USE DEF RegridInv
<1>1. /\ mesh.op = "ready" /\ UNCHANGED << field_vec, info, kept, mesh >>
  BY DEF SetFields
<1>2. WithData' = WithData /\ WithData = Active /\ 0 \in Active /\ Ids' = Ids
  BY <1>1, RepoAssumption DEF WithData, Active, Ids, RepoInv, MeshInOrder, Levels
<1>3. /\ DOMAIN level_data = Levels /\ Active \subseteq Levels
      /\ \A l \in Active, i \in Ids : "val" \in DOMAIN level_data[l][i]
  <2>1. \A l \in Active : Matches(level_data[l])
    BY <1>2 DEF RepoInv, LevelsMatch, Active
  <2>2. Ids = 1..Len(field_vec)
    BY LenProperties DEF RepoInv, TablesMatch, Ids
  <2>3. \A l \in Active, i \in Ids : level_data[l][i] \in Fab
    BY <2>1, <2>2, ElementOfSeq DEF Matches
  <2> QED
    BY <2>3 DEF Fab, RepoInv, LevelsMatch, Active
<1>4. \A l \in Active, i \in Ids :
        Val(l, i)' = IF i \in ids THEN new[l][i] ELSE Val(l, i)
  BY <1>3 DEF SetFields, Val
<1>5. EntriesUnique' /\ KeptAreNew' /\ ZeroUntilReady'
  BY <1>1, <1>2 DEF EntriesUnique, KeptAreNew, ZeroUntilReady
<1>6. \A n : KeptName(n)' <=> KeptName(n)
  BY <1>1 DEF KeptName
<1>7. ASSUME NEW l \in Active, NEW i \in Ids, field_vec[i].state = N,
             field_vec[i].name \in stepped', KeptName(field_vec[i].name)
      PROVE  Val(l, i)' = Val(0, i)'
  <2>1. IF i \in ids THEN new[l][i] = new[0][i] ELSE field_vec[i].name \in stepped
    BY <1>7
  <2>2. CASE i \in ids
    BY <1>2, <1>4, <2>1, <2>2
  <2>3. CASE i \notin ids
    <3>1. Val(l, i) = Val(0, i)
      BY <1>2, <1>7, <2>1, <2>3 DEF SavedSinceRegrid
    <3> QED
      BY <1>2, <1>4, <2>3, <3>1
  <2> QED
    BY <2>2, <2>3
<1>8. SavedSinceRegrid'
  <2>1. \A l \in WithData', i \in Ids' :
          field_vec'[i].state = N /\ field_vec'[i].name \in stepped'
            /\ KeptName(field_vec[i].name)'
          => Val(l, i)' = Val(0, i)'
    <3>1. \A i \in Ids : KeptName(field_vec[i].name)' <=> KeptName(field_vec[i].name)
      BY <1>1 DEF KeptName
    <3> QED
      BY <1>1, <1>2, <1>7, <3>1
  <2> QED
    BY <1>1, <2>1 DEF SavedSinceRegrid
<1>9. \A l \in WithData', i \in kept : Val(l, i)' = Val(0, i)'
  <2>1. \A l \in Active, i \in kept : i \in Ids /\ Val(l, i) = Val(0, i)
    BY <1>2 DEF KeptAreNew, KeptFieldsSurviveRegrid, Val
  <2> QED
    BY <1>2, <1>4, <2>1
<1>10. \A l \in WithData', i \in Ids : Val(l, i)' \in {Val(0, i)', Zero}
  <2>1. \A l \in Active, i \in Ids : Val(l, i) \in {Val(0, i), Zero}
    BY <1>2 DEF OtherFieldsCurrentOrZero, Val
  <2> QED
    BY <1>2, <1>4, <2>1
<1> QED
  BY <1>1, <1>2, <1>5, <1>8, <1>9, <1>10
     DEF KeptFieldsSurviveRegrid, OtherFieldsCurrentOrZero, Val

LEMMA IdOfState ==
  ASSUME RepoInv, NEW n, NEW s, HasState(n, s)
  PROVE  /\ Id(n, s) \in Ids /\ field_vec[Id(n, s)] = [name |-> n, state |-> s]
         /\ n \in DOMAIN info
<1>1. Id(n, s) \in Ids /\ field_vec[Id(n, s)] = [name |-> n, state |-> s]
  BY DEF HasState, Id
<1>2. field_vec[Id(n, s)].name = n
  BY <1>1
<1> QED
  BY <1>1, <1>2 DEF RepoInv, TablesMatch

(* The New state of a kept name is the kept field.                         *)
LEMMA KeptId ==
  ASSUME RepoInv, RegridInv, NEW n, HasState(n, NP1), KeptName(n)
  PROVE  Id(n, NP1) \in kept
<1>1. PICK j \in kept : field_vec[j].name = n
  BY DEF KeptName
<1>2. j \in Ids /\ field_vec[j].state = NP1 /\ field_vec[j] \in Entry
  <2>1. j \in Ids /\ field_vec \in Seq(Entry)
    BY DEF RegridInv, KeptAreNew, RepoInv, TablesMatch
  <2>2. Ids = 1..Len(field_vec)
    BY <2>1, LenProperties DEF Ids
  <2> QED
    BY <2>1, <2>2, ElementOfSeq DEF RegridInv, KeptAreNew
<1>3. field_vec[j] = [name |-> n, state |-> NP1]
  BY <1>1, <1>2 DEF Entry
<1>4. j = Id(n, NP1)
  BY <1>2, <1>3, IdOfState DEF RegridInv, EntriesUnique
<1> QED
  BY <1>4

LEMMA FieldsKeepContents ==
  ASSUME RepoInv, RegridInv,
         \/ \E i \in Ids, v \in Values : SetVal(i, v)
         \/ \E name \in Names : AdvanceStates(name) \/ SaveState(name) \/ RecallState(name)
  PROVE  RegridInv'
<1>0. /\ kept \subseteq Ids /\ \A j \in kept : field_vec[j].state = NP1
      /\ stepped \subseteq DOMAIN info /\ NP1 # N
      /\ \A i \in Ids : field_vec[i] \in Entry
  <2>1. field_vec \in Seq(Entry) /\ Ids = 1..Len(field_vec)
    BY LenProperties DEF RepoInv, TablesMatch, Ids
  <2> QED
    BY <2>1, ElementOfSeq DEF RegridInv, KeptAreNew, SavedSinceRegrid, NP1, N
<1>1. ASSUME mesh.op = "ready"
      PROVE  /\ WithData = Active /\ 0 \in Active
             /\ \A l \in Active, i \in kept : Val(l, i) = Val(0, i)
             /\ \A l \in Active, i \in Ids : Val(l, i) \in {Val(0, i), Zero}
  <2>1. WithData = Active /\ 0 \in Active
    BY <1>1, RepoAssumption DEF WithData, Active, RepoInv, MeshInOrder, Levels
  <2> QED
    BY <2>1 DEF RegridInv, KeptFieldsSurviveRegrid, OtherFieldsCurrentOrZero, Val
<1>2. ASSUME NEW i \in Ids, NEW v \in Values, SetVal(i, v)
      PROVE  RegridInv'
  <2> DEFINE new == [l \in Active |-> [j \in {i} |-> v]]
  <2>1. SetFields({i}, new) /\ stepped' = stepped /\ 0 \in Active
    BY <1>1, <1>2 DEF SetVal, SetFields
  <2>2. \A l \in Active, j \in {i} : new[l][j] = v
    OBVIOUS
  <2> HIDE DEF new
  <2> QED
    BY <1>0, <2>1, <2>2, SettingKeepsContents
<1>3. ASSUME NEW name \in Names, AdvanceStates(name)
      PROVE  RegridInv'
  <2> DEFINE ids == OlderStates(name)
             from(i) == Id(name, field_vec[i].state - 1)
             new == [l \in Active |-> [i \in ids |-> Val(l, from(i))]]
  <2>1. /\ SetFields(ids, new) /\ name \in DOMAIN info /\ info[name].nstates >= 2
        /\ info[name].nstates \in Int
        /\ mesh.op = "ready" /\ stepped' = stepped \cup {name}
    BY <1>3 DEF AdvanceStates, SetFields, RepoInv, TablesMatch, Info
  <2>2. \A i \in ids : /\ i \in Ids /\ field_vec[i].name = name
                       /\ field_vec[i].state \in 1..(info[name].nstates - 1)
    BY DEF OlderStates
  <2>3. ASSUME NEW i \in ids PROVE HasState(name, field_vec[i].state - 1) /\ from(i) \in Ids
    <3>1. field_vec[i].state - 1 \in 0..(info[name].nstates - 1)
      BY <2>1, <2>2
    <3>2. HasState(name, field_vec[i].state - 1)
      BY <2>1, <3>1 DEF RepoInv, TablesMatch
    <3> QED
      BY <3>2, IdOfState
  <2>4. ASSUME NEW i \in ids, field_vec[i].state = N, KeptName(name)
        PROVE  from(i) \in kept
    <3>1. field_vec[i].state - 1 = NP1
      BY <2>4 DEF N, NP1
    <3> QED
      BY <2>3, <2>4, <3>1, KeptId
  <2>5. \A l \in Active, i \in ids : new[l][i] = Val(l, from(i))
    OBVIOUS
  <2>6. \A i \in Ids : field_vec[i].state = N /\ field_vec[i].name = name => i \in ids
    BY <2>1 DEF OlderStates, N
  <2>7. \A i \in kept : i \notin ids
    BY <1>0, <2>2 DEF NP1
  <2> HIDE DEF ids, from, new
  <2>8. \A l \in Active, i \in Ids \cap ids : new[l][i] \in {new[0][i], Zero}
    BY <1>1, <2>1, <2>3, <2>5
  <2>9. ASSUME NEW l \in Active, NEW i \in Ids, field_vec[i].state = N,
               field_vec[i].name \in stepped', KeptName(field_vec[i].name)
        PROVE  IF i \in ids THEN new[l][i] = new[0][i] ELSE field_vec[i].name \in stepped
    <3>1. CASE i \in ids
      <4>1. from(i) \in kept
        BY <2>2, <2>4, <2>9, <3>1
      <4> QED
        BY <1>1, <2>1, <2>5, <3>1, <4>1
    <3>2. CASE i \notin ids
      BY <2>1, <2>6, <2>9, <3>2
    <3> QED
      BY <3>1, <3>2
  <2>10. stepped' \subseteq DOMAIN info
    BY <1>0, <2>1
  <2> QED
    BY <2>1, <2>7, <2>8, <2>9, <2>10, SettingKeepsContents
<1>4. ASSUME NEW name, NEW to \in {NP1, N}, NEW from, CopyState(name, to, from),
             to = NP1 => /\ from = N /\ name \in stepped /\ stepped' = stepped,
             to = N => from = NP1 /\ stepped' = stepped \cup {name}
      PROVE  RegridInv'
  <2> DEFINE a == Id(name, to)
             b == Id(name, from)
             new == [l \in Active |-> [i \in {a} |-> Val(l, b)]]
  <2>1. /\ SetFields({a}, new) /\ HasState(name, from) /\ HasState(name, to)
        /\ mesh.op = "ready"
    BY <1>4 DEF CopyState, SetFields
  <2>2. /\ a \in Ids /\ b \in Ids /\ name \in DOMAIN info
        /\ field_vec[a].name = name /\ field_vec[a].state = to
        /\ field_vec[b].name = name /\ field_vec[b].state = from
        /\ \A i \in Ids : field_vec[i].name = name /\ field_vec[i].state = to => i = a
    <3>1. /\ a \in Ids /\ field_vec[a] = [name |-> name, state |-> to]
          /\ b \in Ids /\ field_vec[b] = [name |-> name, state |-> from]
          /\ name \in DOMAIN info
      BY <2>1, IdOfState
    <3> HIDE DEF a, b
    <3>2. ASSUME NEW i \in Ids, field_vec[i].name = name, field_vec[i].state = to
          PROVE  i = a
      <4>1. field_vec[i] = [name |-> name, state |-> to]
        BY <1>0, <3>2 DEF Entry
      <4> QED
        BY <3>1, <4>1 DEF RegridInv, EntriesUnique
    <3> QED
      BY <3>1, <3>2
  <2>3. \A l \in Active : new[l][a] = Val(l, b)
    OBVIOUS
  <2>4. to = N /\ KeptName(name) => b \in kept
    BY <1>4, <2>1, KeptId
  <2>5. ASSUME to = NP1, a \in kept, NEW l \in Active PROVE Val(l, b) = Val(0, b)
    <3>1. KeptName(field_vec[b].name)
      BY <2>2, <2>5 DEF KeptName
    <3>2. l \in WithData
      BY <1>1, <2>1
    <3> QED
      BY <1>4, <2>2, <2>5, <3>1, <3>2 DEF RegridInv, SavedSinceRegrid
  <2> HIDE DEF a, b, new
  <2>6. \A l \in Active, i \in Ids \cap {a} : new[l][i] \in {new[0][i], Zero}
    BY <1>1, <2>1, <2>2, <2>3
  <2>7. \A l \in Active, i \in kept \cap {a} : new[l][i] = new[0][i]
    BY <1>0, <1>1, <2>1, <2>2, <2>3, <2>5
  <2>8. ASSUME NEW l \in Active, NEW i \in Ids, field_vec[i].state = N,
               field_vec[i].name \in stepped', KeptName(field_vec[i].name)
        PROVE  IF i \in {a} THEN new[l][i] = new[0][i] ELSE field_vec[i].name \in stepped
    <3>1. CASE i = a
      <4>1. to = N /\ KeptName(name)
        BY <2>2, <2>8, <3>1
      <4> QED
        BY <1>1, <2>1, <2>3, <2>4, <3>1, <4>1
    <3>2. CASE i # a
      BY <1>4, <2>2, <2>8, <3>2
    <3> QED
      BY <3>1, <3>2
  <2>9. stepped' \subseteq DOMAIN info
    BY <1>0, <1>4, <2>2
  <2> QED
    BY <2>1, <2>6, <2>7, <2>8, <2>9, SettingKeepsContents
<1>5. ASSUME NEW name \in Names, SaveState(name) \/ RecallState(name)
      PROVE  RegridInv'
  BY <1>0, <1>4, <1>5 DEF SaveState, RecallState
<1> QED
  BY <1>2, <1>3, <1>5

THEOREM RegridIsInvariant == RepoSpec => []RegridInv
<1>1. RepoInit => RegridInv
  BY DEF RepoInit, RegridInv, EntriesUnique, KeptAreNew, SavedSinceRegrid, ZeroUntilReady,
         WithData, Ids, KeptFieldsSurviveRegrid, OtherFieldsCurrentOrZero
<1>2. RepoInv /\ RegridInv /\ [RepoNext]_repo_vars => RegridInv'
  <2> SUFFICES ASSUME RepoInv, RegridInv, [RepoNext]_repo_vars PROVE RegridInv'
    OBVIOUS
  <2>1. CASE \E d \in Decls : DeclareAgain(d) \/ DeclareField(d)
    BY <2>1, AgainKeepsContents, DeclaringKeepsContents
  <2>2. CASE \E name \in Names : CreateState(name)
    BY <2>2, CreatingKeepsContents
  <2>3. CASE MeshNext
    BY <2>3, MeshKeepsContents
  <2>4. CASE \/ \E i \in Ids, v \in Values : SetVal(i, v)
             \/ \E name \in Names : AdvanceStates(name) \/ SaveState(name)
                                    \/ RecallState(name)
    BY <2>4, FieldsKeepContents
  <2>5. CASE UNCHANGED repo_vars
    <3>1. WithData' = WithData /\ Ids' = Ids /\ \A n : KeptName(n)' = KeptName(n)
      BY <2>5 DEF repo_vars, WithData, Ids, KeptName
    <3> QED
      BY <2>5, <3>1
         DEF repo_vars, RegridInv, EntriesUnique, KeptAreNew, SavedSinceRegrid, ZeroUntilReady,
             KeptName, Val, KeptFieldsSurviveRegrid, OtherFieldsCurrentOrZero
  <2> QED
    BY <2>1, <2>2, <2>3, <2>4, <2>5 DEF RepoNext, MeshNext
<1> QED
  BY <1>1, <1>2, MatchIsInvariant, PTL DEF RepoSpec

(* A field with fillpatch_on_regrid has the same contents on all levels    *)
(* after any regrids and steps; an Old state, which is not kept, can only  *)
(* be recalled to it if it was saved since (AmrCore, Field::advance_states,*)
(* copy_state, incflo::regrid_and_update).                                 *)
THEOREM KeptContentsSurvive == RepoSpec => []KeptFieldsSurviveRegrid
<1>1. RegridInv => KeptFieldsSurviveRegrid
  BY DEF RegridInv
<1> QED
  BY <1>1, RegridIsInvariant, PTL

(* The other fields are never left with what a level held before it was    *)
(* removed.                                                                *)
THEOREM OthersCurrentOrZero == RepoSpec => []OtherFieldsCurrentOrZero
<1>1. RegridInv => OtherFieldsCurrentOrZero
  BY DEF RegridInv
<1> QED
  BY <1>1, RegridIsInvariant, PTL

=============================================================================
