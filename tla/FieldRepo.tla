----------------------------- MODULE FieldRepo -----------------------------
(***************************************************************************)
(* The field repository (core/FieldRepo, Field): fields are declared by    *)
(* name at any time, before and after the mesh is made; every field has a  *)
(* number, and the MultiFab of field number id on a level is the element   *)
(* id of that level's vector.  AMReX makes, remakes and clears the levels  *)
(* and calls the repository back, level by level.                          *)
(*                                                                         *)
(* The contents of a MultiFab is a label: what was last written to it.     *)
(***************************************************************************)
EXTENDS Integers, Sequences

CONSTANTS
  Decls,      \* the declarations that the modules of the program make
  Names,      \* their base names
  Shapes,     \* number of components and location
  MaxLevel,   \* amr.max_level
  Values      \* what may be written to a field

NP1 == 0        \* FieldState: New
N == 1          \* Old
NM1 == 2
NPH == 3

(* keep: the module sets fillpatch_on_regrid on the field it gets back.    *)
Decl == [name : Names, shape : Shapes, ngrow : Nat, nstates : Nat \ {0}, keep : BOOLEAN]

ASSUME RepoAssumption ==
  /\ Decls \subseteq Decl
  /\ MaxLevel \in Nat
  /\ Values \subseteq Nat \ {0}

VARIABLES
  field_vec,    \* m_field_vec: name and state of each field, by number
  info,         \* the FieldInfo of each declared name
  kept,         \* the fields with m_fillpatch_on_regrid
  level_data,   \* m_leveldata: the MultiFabs of a level, or NoLevel
  is_initialized,
  mesh,         \* the AmrCore: finest_level and the operation in progress
  accepted,     \* history: the declarations that have been answered
  stepped       \* history: the names whose Old was set since the last regrid

repo_vars ==
  << field_vec, info, kept, level_data, is_initialized, mesh, accepted, stepped >>

Levels == 0..MaxLevel
NoLevel == << >>

Zero == 0       \* setVal(0) of a new MultiFab
Mixed == -1     \* parts of a level with different contents

Ids == DOMAIN field_vec

Id(name, state) == CHOOSE i \in Ids : field_vec[i] = [name |-> name, state |-> state]

HasState(name, state) == \E i \in Ids : field_vec[i] = [name |-> name, state |-> state]

\* Mutant: the loop over the levels stops before the finest one.
Active_Coarser == {l \in Levels : l < mesh.finest \/ l = 0}

(* num_active_levels() of them *)
Active == {l \in Levels : l <= mesh.finest}

Ready == mesh.op \in {"none", "ready"}

RepoInit ==
  /\ field_vec = << >> /\ info = << >> /\ kept = {}
  /\ level_data = [l \in Levels |-> NoLevel]
  /\ is_initialized = FALSE
  /\ mesh = [op |-> "none", finest |-> -1, next |-> 0, target |-> 0]
  /\ accepted = {} /\ stepped = {}

-----------------------------------------------------------------------------
(* declare_field and create_state *)

NewFab(in) == [shape |-> in.shape, ngrow |-> in.ngrow, val |-> Zero]

\* Mutant: a field declared late gets no data on the finest level.
AllocatedOn_Coarser(l) == is_initialized /\ l < mesh.finest

AllocatedOn(l) == is_initialized /\ l <= mesh.finest

(* allocate_field_data(field), for n fields with the same FieldInfo.       *)
Allocate(in, n) ==
  level_data' = [l \in Levels |->
                   IF AllocatedOn(l) THEN level_data[l] \o [i \in 1..n |-> NewFab(in)]
                   ELSE level_data[l]]

Inconsistent(d) == d.shape # info[d.name].shape \/ d.nstates # info[d.name].nstates

(* The modules set fillpatch_on_regrid in their constructors, before the   *)
(* mesh is made, or on fields that nobody has declared before them.        *)
KeepDeclared(d, id) ==
  /\ d.keep /\ is_initialized => d.name \notin DOMAIN info
  /\ kept' = IF d.keep THEN kept \cup {id} ELSE kept

(* "If the field is already registered check and return the fields"        *)
DeclareAgain(d) ==
  /\ Ready /\ d.name \in DOMAIN info
  /\ ~Inconsistent(d)
  /\ KeepDeclared(d, Id(d.name, NP1))
  /\ accepted' = accepted \cup {d}
  /\ UNCHANGED << field_vec, info, level_data, is_initialized, mesh, stepped >>

(* "Only allow states to be at times and not half steps" *)
StatesAllowed(d) == d.nstates <= NM1 + 1

DeclareField(d) ==
  /\ Ready /\ d.name \notin DOMAIN info
  /\ StatesAllowed(d)
  /\ field_vec' = field_vec \o [i \in 1..d.nstates |-> [name |-> d.name, state |-> i - 1]]
  /\ info' = [n \in DOMAIN info \cup {d.name} |->
                IF n = d.name
                THEN [shape |-> d.shape, ngrow |-> d.ngrow, nstates |-> d.nstates]
                ELSE info[n]]
  /\ Allocate(d, d.nstates)
  /\ KeepDeclared(d, Len(field_vec) + 1)
  /\ accepted' = accepted \cup {d}
  /\ UNCHANGED << is_initialized, mesh, stepped >>

(* Field::create_state returns the state that is there. *)
StateMissing(name) == name \in DOMAIN info /\ ~HasState(name, NPH)

CreateState(name) ==
  /\ Ready /\ StateMissing(name)
  /\ field_vec' = Append(field_vec, [name |-> name, state |-> NPH])
  /\ Allocate(info[name], 1)
  /\ UNCHANGED << info, kept, is_initialized, mesh, accepted, stepped >>

-----------------------------------------------------------------------------
(* The levels *)

(* allocate_field_data(ba, dm, ...): all the fields, in their order.       *)
NewLevelData == [i \in Ids |-> NewFab(info[field_vec[i].name])]

Put(l, data) == level_data' = [level_data EXCEPT ![l] = data]

(* A new run: AMReX adds one level after the other.                        *)
InitFromScratch ==
  /\ mesh.op = "none"
  /\ \E t \in Levels : mesh' = [op |-> "scratch", finest |-> 0, next |-> 0, target |-> t]
  /\ UNCHANGED << field_vec, info, kept, level_data, is_initialized, accepted, stepped >>

(* ReadCheckpointFile reads finest_level before it makes the levels.       *)
RestartMesh ==
  /\ mesh.op = "none"
  /\ \E t \in Levels : mesh' = [op |-> "restart", finest |-> t, next |-> 0, target |-> t]
  /\ UNCHANGED << field_vec, info, kept, level_data, is_initialized, accepted, stepped >>

MakeNewLevelFromScratch ==
  /\ mesh.op \in {"scratch", "restart"} /\ mesh.next <= mesh.target
  /\ Put(mesh.next, NewLevelData)
  /\ is_initialized' = TRUE
  /\ mesh' = [mesh EXCEPT !.next = @ + 1,
                !.finest = IF mesh.op = "scratch" THEN mesh.next ELSE @]
  /\ UNCHANGED << field_vec, info, kept, accepted, stepped >>

MeshMade ==
  /\ mesh.op \in {"scratch", "restart"} /\ mesh.next > mesh.target
  /\ mesh' = [mesh EXCEPT !.op = "ready"]
  /\ UNCHANGED << field_vec, info, kept, level_data, is_initialized, accepted, stepped >>

(* regrid(0, time): the tagged cells ask for levels 1 to target.           *)
BeginRegrid ==
  /\ mesh.op = "ready" /\ MaxLevel > 0
  /\ \E t \in Levels : mesh' = [mesh EXCEPT !.op = "regrid", !.next = 1, !.target = t]
  /\ stepped' = {}
  /\ UNCHANGED << field_vec, info, kept, level_data, is_initialized, accepted >>

NextLevel == mesh' = [mesh EXCEPT !.next = @ + 1]

Merge(a, b) == IF a = b THEN a ELSE Mixed

\* Mutant: the data that is interpolated is not copied to the kept fields.
Refilled_Nothing(vals) == NewLevelData

(* The fields that are kept are filled, the others are zero.               *)
Refilled(vals) ==
  [i \in Ids |-> IF i \in kept THEN [NewLevelData[i] EXCEPT !.val = vals[i]]
                 ELSE NewLevelData[i]]

(* fillpatch: the old data where there is some, the coarse level elsewhere.*)
Patched ==
  [i \in Ids |-> Merge(level_data[mesh.next - 1][i].val, level_data[mesh.next][i].val)]

FromCoarse == [i \in Ids |-> level_data[mesh.next - 1][i].val]

RemakeLevel ==
  /\ mesh.op = "regrid" /\ mesh.next <= mesh.target /\ mesh.next <= mesh.finest
  /\ Put(mesh.next, Refilled(Patched))
  /\ NextLevel
  /\ UNCHANGED << field_vec, info, kept, is_initialized, accepted, stepped >>

(* A level whose grids do not change may be left as it is.                 *)
LevelUnchanged ==
  /\ mesh.op = "regrid" /\ mesh.next <= mesh.target /\ mesh.next <= mesh.finest
  /\ NextLevel
  /\ UNCHANGED << field_vec, info, kept, level_data, is_initialized, accepted, stepped >>

MakeNewLevelFromCoarse ==
  /\ mesh.op = "regrid" /\ mesh.next <= mesh.target /\ mesh.next > mesh.finest
  /\ Put(mesh.next, Refilled(FromCoarse))
  /\ NextLevel
  /\ UNCHANGED << field_vec, info, kept, is_initialized, accepted, stepped >>

ClearedData == NoLevel

ClearLevel ==
  /\ mesh.op = "regrid" /\ mesh.next > mesh.target /\ mesh.next <= mesh.finest
  /\ Put(mesh.next, ClearedData)
  /\ NextLevel
  /\ UNCHANGED << field_vec, info, kept, is_initialized, accepted, stepped >>

EndRegrid ==
  /\ mesh.op = "regrid" /\ mesh.next > mesh.target /\ mesh.next > mesh.finest
  /\ mesh' = [mesh EXCEPT !.op = "ready", !.finest = mesh.target]
  /\ UNCHANGED << field_vec, info, kept, level_data, is_initialized, accepted, stepped >>

-----------------------------------------------------------------------------
(* Field: the data as a whole, on all the active levels *)

(* The present contents of a field on a level.                             *)
Val(l, i) == level_data[l][i].val

(* new[l][i] for the fields ids, the present contents for the others.      *)
SetFields(ids, new) ==
  /\ mesh.op = "ready"
  /\ level_data' = [l \in Levels |->
                      IF l \in Active
                      THEN [i \in Ids |-> IF i \in ids
                                          THEN [level_data[l][i] EXCEPT !.val = new[l][i]]
                                          ELSE level_data[l][i]]
                      ELSE level_data[l]]
  /\ UNCHANGED << field_vec, info, kept, is_initialized, mesh, accepted >>

SetVal(i, v) == SetFields({i}, [l \in Active |-> [j \in {i} |-> v]]) /\ UNCHANGED stepped

OlderStates(name) ==
  {i \in Ids : field_vec[i].name = name /\ field_vec[i].state \in 1..(info[name].nstates - 1)}

(* The loop runs from the oldest state, so each gets the one before it.    *)
AdvanceStates(name) ==
  /\ name \in DOMAIN info /\ info[name].nstates >= 2
  /\ SetFields(OlderStates(name),
       [l \in Active |-> [i \in OlderStates(name) |->
          Val(l, Id(name, field_vec[i].state - 1))]])
  /\ stepped' = stepped \cup {name}

CopyState(name, to, from) ==
  /\ HasState(name, to) /\ HasState(name, from)
  /\ SetFields({Id(name, to)},
       [l \in Active |-> [i \in {Id(name, to)} |-> Val(l, Id(name, from))]])

(* InitialIterations and the predictor start from the Old state, which     *)
(* they have set after the mesh was last changed.                          *)
SaveState(name) == CopyState(name, N, NP1) /\ stepped' = stepped \cup {name}

RecallState(name) == name \in stepped /\ CopyState(name, NP1, N) /\ UNCHANGED stepped

-----------------------------------------------------------------------------
RepoNext ==
  \/ \E d \in Decls : DeclareAgain(d) \/ DeclareField(d)
  \/ \E name \in Names : CreateState(name) \/ AdvanceStates(name)
  \/ InitFromScratch \/ RestartMesh \/ MakeNewLevelFromScratch \/ MeshMade
  \/ BeginRegrid \/ RemakeLevel \/ LevelUnchanged \/ MakeNewLevelFromCoarse
  \/ ClearLevel \/ EndRegrid
  \/ \E i \in Ids, v \in Values : SetVal(i, v)
  \/ \E name \in Names : SaveState(name) \/ RecallState(name)

RepoSpec == RepoInit /\ [][RepoNext]_repo_vars

-----------------------------------------------------------------------------
(* The levels that hold data at this moment of a mesh operation.           *)
WithData ==
  CASE mesh.op = "none"                   -> {}
    [] mesh.op \in {"scratch", "restart"} -> {l \in Levels : l < mesh.next}
    [] mesh.op = "ready"                  -> {l \in Levels : l <= mesh.finest}
    [] mesh.op = "regrid" ->
         {l \in Levels : \/ l < mesh.next /\ l <= mesh.target
                         \/ l >= mesh.next /\ l <= mesh.finest}

(* Whatever is declared when, and however levels come and go, element id   *)
(* of every level's data is the MultiFab of field number id, with the      *)
(* components and ghost cells of that field; levels that are gone hold     *)
(* nothing.                                                                *)
LevelDataMatchesFields ==
  \A l \in Levels :
    IF l \in WithData
    THEN /\ Len(level_data[l]) = Len(field_vec)
         /\ \A i \in Ids : LET f == info[field_vec[i].name]
                           IN  /\ level_data[l][i].shape = f.shape
                               /\ level_data[l][i].ngrow = f.ngrow
    ELSE level_data[l] = NoLevel

(* A field that is kept on regrid has the same contents on all levels      *)
(* after any sequence of regrids, also on levels that have just appeared   *)
(* or come back.                                                           *)
KeptFieldsSurviveRegrid ==
  \A l \in WithData, i \in kept : level_data[l][i].val = level_data[0][i].val

(* The other fields (mueff, the terms of the equations, and the Old and    *)
(* NPH states of every field, since the flag is on the New state alone)    *)
(* hold what they did or zero, and never what a level held before it was   *)
(* removed.                                                                *)
OtherFieldsCurrentOrZero ==
  \A l \in WithData, i \in Ids : level_data[l][i].val \in {level_data[0][i].val, Zero}

(* FieldRepo.H: "an error is raised if the subsequent calls do not have    *)
(* the same field parameters (e.g., number of components, states, or ghost *)
(* cells)": whoever declares a field gets the ghost cells it asked for.    *)
GhostCellsAsAsked == \A d \in accepted : info[d.name].ngrow = d.ngrow

-----------------------------------------------------------------------------
(* Why the contents are what they should be.  A field is kept by its New   *)
(* state; the steps write all levels alike; and what recall_state brings   *)
(* back was saved since the mesh last changed, when all levels of a kept   *)
(* field held the same.                                                    *)
EntriesUnique == \A i, j \in Ids : field_vec[i] = field_vec[j] => i = j

KeptName(name) == \E j \in kept : field_vec[j].name = name

KeptAreNew == \A j \in kept : j \in Ids /\ field_vec[j].state = NP1

SavedSinceRegrid ==
  /\ stepped \subseteq DOMAIN info
  /\ mesh.op # "ready" => stepped = {}
  /\ \A l \in WithData, i \in Ids :
       field_vec[i].state = N /\ field_vec[i].name \in stepped /\ KeptName(field_vec[i].name)
       => Val(l, i) = Val(0, i)

ZeroUntilReady ==
  mesh.op \in {"none", "scratch", "restart"} =>
    \A l \in WithData, i \in Ids : Val(l, i) = Zero

RegridInv ==
  /\ EntriesUnique /\ KeptAreNew /\ SavedSinceRegrid /\ ZeroUntilReady
  /\ KeptFieldsSurviveRegrid /\ OtherFieldsCurrentOrZero

=============================================================================
