--------------------------- MODULE StepDataProofs ---------------------------
(***************************************************************************)
(* Theorems about the contents of the fields.                              *)
(***************************************************************************)
EXTENDS StepData, IntervalLemmas

-----------------------------------------------------------------------------
(* Kernels that leave slots alone.  The kernels of ks write nothing in S.  *)
Quiet(ks, S) == \E U : ks \in Seq(U) /\ \A q \in U : q.writes \cap S = {}

LEMMA QuietNone == ASSUME NEW S PROVE Quiet(<< >>, S)
<1>1. PICK q : q = [writes |-> {}]
  OBVIOUS
<1>2. << >> \in Seq({q}) /\ q.writes \cap S = {}
  BY <1>1
<1>3. QED
  BY <1>2 DEF Quiet

LEMMA QuietOne ==
  ASSUME NEW S, NEW q, q.writes \cap S = {}
  PROVE  Quiet(<< q >>, S)
<1>1. << q >> \in Seq({q})
  OBVIOUS
<1>2. QED
  BY <1>1 DEF Quiet

LEMMA QuietJoin ==
  ASSUME NEW S, NEW a, NEW b, Quiet(a, S), Quiet(b, S)
  PROVE  Quiet(a \o b, S)
<1>1. PICK U : a \in Seq(U) /\ \A q \in U : q.writes \cap S = {}
  BY DEF Quiet
<1>2. PICK V : b \in Seq(V) /\ \A q \in V : q.writes \cap S = {}
  BY DEF Quiet
<1>3. a \in Seq(U \cup V) /\ b \in Seq(U \cup V)
  BY <1>1, <1>2
<1>4. a \o b \in Seq(U \cup V)
  BY <1>3
<1>5. \A q \in U \cup V : q.writes \cap S = {}
  BY <1>1, <1>2
<1>6. QED
  BY <1>4, <1>5 DEF Quiet

LEMMA QuietPair ==
  ASSUME NEW S, NEW p, NEW q, Quiet(<< p >>, S), Quiet(<< q >>, S)
  PROVE  Quiet(<< p, q >>, S)
<1>1. PICK U : << p >> \in Seq(U) /\ \A x \in U : x.writes \cap S = {}
  BY DEF Quiet
<1>2. PICK V : << q >> \in Seq(V) /\ \A x \in V : x.writes \cap S = {}
  BY DEF Quiet
<1>3. p \in U /\ q \in V
  BY <1>1, <1>2
<1>4. << p, q >> \in Seq(U \cup V)
  BY <1>3
<1>5. \A x \in U \cup V : x.writes \cap S = {}
  BY <1>1, <1>2
<1>6. QED
  BY <1>4, <1>5 DEF Quiet

LEMMA Writes ==
  \A op, r, w, g :
    /\ Kernel(op, r, w, g).writes = w
    /\ Compute(op, r, w).writes = w
    /\ Look(op, r).writes = {}
    /\ SetVal(op, w).writes = w
BY DEF Kernel, Compute, Look, SetVal

LEMMA FlattenedExists ==
  ASSUME NEW ss, Len(ss) \in Nat, Len(ss) # 0
  PROVE  \E g : g = [i \in 1..Len(ss) |-> IF i = 1 THEN ss[i] ELSE g[i - 1] \o ss[i]]
<1> DEFINE Upto(g, j) == g = [i \in 1..j |-> IF i = 1 THEN ss[i] ELSE g[i - 1] \o ss[i]]
           S == {j \in 1..Len(ss) : \E g : Upto(g, j)}
<1>1. 1 \in S
  <2> DEFINE g == [i \in 1..1 |-> ss[i]]
  <2>1. g = [i \in 1..1 |-> IF i = 1 THEN ss[i] ELSE g[i - 1] \o ss[i]]
    OBVIOUS
  <2>2. 1 \in 1..Len(ss)
    OBVIOUS
  <2> HIDE DEF g
  <2>3. QED
    BY <2>1, <2>2
<1>2. ASSUME NEW j \in 1..(Len(ss) - 1), j \in S
      PROVE  j + 1 \in S
  <2>1. PICK g : Upto(g, j)
    BY <1>2
  <2> DEFINE h == [i \in 1..(j + 1) |-> IF i = j + 1 THEN g[j] \o ss[j + 1] ELSE g[i]]
  <2>2. \A i \in 1..j : g[i] = IF i = 1 THEN ss[i] ELSE g[i - 1] \o ss[i]
    BY <2>1
  <2>3. \A i \in 1..(j + 1) : h[i] = IF i = 1 THEN ss[i] ELSE h[i - 1] \o ss[i]
    <3> SUFFICES ASSUME NEW i \in 1..(j + 1)
                 PROVE  h[i] = IF i = 1 THEN ss[i] ELSE h[i - 1] \o ss[i]
      OBVIOUS
    <3>1. CASE i = j + 1
      <4>1. i # 1 /\ i - 1 = j /\ i - 1 \in 1..(j + 1) /\ i - 1 # j + 1
        BY <3>1
      <4>2. h[i - 1] = g[j]
        BY <4>1
      <4>3. h[i] = g[j] \o ss[i]
        BY <3>1
      <4>4. QED
        BY <4>1, <4>2, <4>3
    <3>2. CASE i # j + 1
      <4>1. i \in 1..j /\ h[i] = g[i]
        BY <3>2
      <4>2. i # 1 => i - 1 \in 1..(j + 1) /\ i - 1 # j + 1
        BY <4>1
      <4>3. i # 1 => h[i - 1] = g[i - 1]
        BY <4>2
      <4>4. QED
        BY <2>2, <4>1, <4>3
    <3>3. QED
      BY <3>1, <3>2
  <2>4. h = [i \in 1..(j + 1) |-> h[i]]
    OBVIOUS
  <2> HIDE DEF h
  <2>5. Upto(h, j + 1)
    BY <2>3, <2>4
  <2>6. j + 1 \in 1..Len(ss)
    OBVIOUS
  <2>7. QED
    BY <2>5, <2>6
<1> HIDE DEF S
<1>3. Len(ss) \in S
  <2>1. 1 \in Int /\ Len(ss) \in Int /\ Len(ss) \in 1..Len(ss)
    OBVIOUS
  <2>2. QED
    BY <1>1, <1>2, <2>1, IntervalInduction
<1>4. QED
  BY <1>3 DEF S

(* A sequence of quiet sequences is quiet.                                 *)
LEMMA QuietFlatten ==
  ASSUME NEW S, NEW X, NEW ss \in Seq(X), \A i \in 1..Len(ss) : Quiet(ss[i], S)
  PROVE  Quiet(FlattenSeq(ss), S)
<1>1. Len(ss) \in Nat
  OBVIOUS
<1>2. CASE Len(ss) = 0
  <2>1. ss = << >>
    BY <1>2
  <2>2. FlattenSeq(ss) = ss
    BY <1>2 DEF FlattenSeq
  <2>3. QED
    BY <2>1, <2>2, QuietNone
<1>3. CASE Len(ss) # 0
  <2> DEFINE f == CHOOSE g : g = [i \in 1..Len(ss) |-> IF i = 1 THEN ss[i] ELSE g[i - 1] \o ss[i]]
  <2>1. f = [i \in 1..Len(ss) |-> IF i = 1 THEN ss[i] ELSE f[i - 1] \o ss[i]]
    BY <1>1, <1>3, FlattenedExists, Zenon
  <2>2. FlattenSeq(ss) = f[Len(ss)]
    BY <1>3, Zenon DEF FlattenSeq
  <2> HIDE DEF f
  <2> DEFINE T == {j \in 1..Len(ss) : Quiet(f[j], S)}
  <2>3. 1 \in T
    <3>1. 1 \in 1..Len(ss)
      BY <1>1, <1>3
    <3>2. f[1] = ss[1]
      BY <2>1, <3>1
    <3>3. QED
      BY <3>1, <3>2
  <2>4. ASSUME NEW j \in 1..(Len(ss) - 1), j \in T
        PROVE  j + 1 \in T
    <3>1. j + 1 \in 1..Len(ss) /\ j + 1 # 1 /\ (j + 1) - 1 = j
      BY <1>1
    <3>2. f[j + 1] = f[j] \o ss[j + 1]
      BY <2>1, <3>1
    <3>3. Quiet(f[j], S) /\ Quiet(ss[j + 1], S)
      BY <2>4, <3>1
    <3>4. Quiet(f[j] \o ss[j + 1], S)
      BY <3>3, QuietJoin
    <3>5. QED
      BY <3>1, <3>2, <3>4
  <2> HIDE DEF T
  <2>5. Len(ss) \in T
    <3>1. 1 \in Int /\ Len(ss) \in Int /\ Len(ss) \in 1..Len(ss)
      BY <1>1, <1>3
    <3>2. QED
      BY <2>3, <2>4, <3>1, IntervalInduction
  <2>6. QED
    BY <2>2, <2>5 DEF T
<1>4. QED
  BY <1>2, <1>3

-----------------------------------------------------------------------------
(* What Perform does to slots that are left alone. *)

(* g holds the contents before the first kernel and after each of them. *)
Stages(g, d, ks, tt) ==
  g = [i \in 0..Len(ks) |->
         IF i = 0 THEN [data |-> d, used |-> {}]
         ELSE [data |-> Write(g[i - 1].data, ks[i].writes, Label(g[i - 1].data, ks[i], tt)),
               used |-> g[i - 1].used \cup Uses(g[i - 1].data, ks[i], tt)]]

LEMMA PerformExists ==
  ASSUME NEW d, NEW ks, NEW tt, Len(ks) \in Nat
  PROVE  \E g : Stages(g, d, ks, tt)
<1> DEFINE Nxt(b, q) == [data |-> Write(b.data, q.writes, Label(b.data, q, tt)),
                         used |-> b.used \cup Uses(b.data, q, tt)]
           base == [data |-> d, used |-> {}]
           Upto(g, j) == g = [i \in 0..j |-> IF i = 0 THEN base ELSE Nxt(g[i - 1], ks[i])]
           S == {j \in 0..Len(ks) : \E g : Upto(g, j)}
<1>a. \A g, j : Upto(g, j) =>
        g = [i \in 0..j |->
               IF i = 0 THEN [data |-> d, used |-> {}]
               ELSE [data |-> Write(g[i - 1].data, ks[i].writes, Label(g[i - 1].data, ks[i], tt)),
                     used |-> g[i - 1].used \cup Uses(g[i - 1].data, ks[i], tt)]]
  BY Zenon
<1> HIDE DEF Nxt, base
<1>1. 0 \in S
  <2> DEFINE g == [i \in 0..0 |-> base]
  <2>1. g = [i \in 0..0 |-> IF i = 0 THEN base ELSE Nxt(g[i - 1], ks[i])]
    OBVIOUS
  <2>2. 0 \in 0..Len(ks)
    OBVIOUS
  <2> HIDE DEF g
  <2>3. QED
    BY <2>1, <2>2
<1>2. ASSUME NEW j \in 0..(Len(ks) - 1), j \in S
      PROVE  j + 1 \in S
  <2>1. PICK g : Upto(g, j)
    BY <1>2
  <2> DEFINE h == [i \in 0..(j + 1) |-> IF i = j + 1 THEN Nxt(g[j], ks[j + 1]) ELSE g[i]]
  <2>2. \A i \in 0..j : g[i] = IF i = 0 THEN base ELSE Nxt(g[i - 1], ks[i])
    BY <2>1
  <2>3. \A i \in 0..(j + 1) : h[i] = IF i = 0 THEN base ELSE Nxt(h[i - 1], ks[i])
    <3> SUFFICES ASSUME NEW i \in 0..(j + 1)
                 PROVE  h[i] = IF i = 0 THEN base ELSE Nxt(h[i - 1], ks[i])
      OBVIOUS
    <3>1. CASE i = j + 1
      <4>1. i # 0 /\ i - 1 = j /\ i - 1 \in 0..(j + 1) /\ i - 1 # j + 1
        BY <3>1
      <4>2. h[i - 1] = g[j]
        BY <4>1
      <4>3. h[i] = Nxt(g[j], ks[i])
        BY <3>1
      <4>4. QED
        BY <4>1, <4>2, <4>3
    <3>2. CASE i # j + 1
      <4>1. i \in 0..j /\ h[i] = g[i]
        BY <3>2
      <4>2. i # 0 => i - 1 \in 0..(j + 1) /\ i - 1 # j + 1
        BY <4>1
      <4>3. i # 0 => h[i - 1] = g[i - 1]
        BY <4>2
      <4>4. QED
        BY <2>2, <4>1, <4>3
    <3>3. QED
      BY <3>1, <3>2
  <2>4. h = [i \in 0..(j + 1) |-> h[i]]
    OBVIOUS
  <2> HIDE DEF h
  <2>5. Upto(h, j + 1)
    BY <2>3, <2>4
  <2>6. j + 1 \in 0..Len(ks)
    OBVIOUS
  <2>7. QED
    BY <2>5, <2>6
<1> HIDE DEF S
<1>3. Len(ks) \in S
  <2>1. 0 \in Int /\ Len(ks) \in Int /\ Len(ks) \in 0..Len(ks) /\ 0 <= Len(ks)
    OBVIOUS
  <2>2. QED
    BY <1>1, <1>2, <2>1, IntervalInduction
<1>4. PICK g : Upto(g, Len(ks))
  BY <1>3 DEF S
<1> HIDE DEF Upto
<1>5. g = [i \in 0..Len(ks) |->
             IF i = 0 THEN [data |-> d, used |-> {}]
             ELSE [data |-> Write(g[i - 1].data, ks[i].writes, Label(g[i - 1].data, ks[i], tt)),
                   used |-> g[i - 1].used \cup Uses(g[i - 1].data, ks[i], tt)]]
  BY <1>4, <1>a, Zenon
<1>6. QED
  BY <1>5, Zenon DEF Stages

LEMMA WriteElsewhere ==
  ASSUME NEW d, NEW slots, NEW l, NEW s, s \notin slots
  PROVE  Get(Write(d, slots, l), s) = Get(d, s)
BY DEF Get, Write

LEMMA PerformQuiet ==
  ASSUME NEW d, NEW ks, NEW tt, NEW S, Quiet(ks, S), NEW s \in S
  PROVE  Get(Perform(d, ks, tt).data, s) = Get(d, s)
<1>1. PICK U : ks \in Seq(U) /\ \A q \in U : q.writes \cap S = {}
  BY DEF Quiet
<1>2. Len(ks) \in Nat /\ \A i \in 1..Len(ks) : s \notin ks[i].writes
  BY <1>1
<1> DEFINE f == CHOOSE g : Stages(g, d, ks, tt)
<1>a. \E g : Stages(g, d, ks, tt)
  BY <1>2, PerformExists
<1>b. Perform(d, ks, tt) = f[Len(ks)]
  BY Zenon DEF Perform, Stages
<1>c. Stages(f, d, ks, tt)
  BY <1>a, Zenon
<1> HIDE DEF f
<1>3. f = [i \in 0..Len(ks) |->
             IF i = 0 THEN [data |-> d, used |-> {}]
             ELSE [data |-> Write(f[i - 1].data, ks[i].writes, Label(f[i - 1].data, ks[i], tt)),
                   used |-> f[i - 1].used \cup Uses(f[i - 1].data, ks[i], tt)]]
  BY <1>c, Zenon DEF Stages
<1> DEFINE T == {j \in 0..Len(ks) : Get(f[j].data, s) = Get(d, s)}
<1>5. 0 \in T
  <2>1. 0 \in 0..Len(ks)
    BY <1>2
  <2>2. f[0] = [data |-> d, used |-> {}]
    BY <1>3, <2>1
  <2>3. f[0].data = d
    BY <2>2
  <2>4. QED
    BY <2>1, <2>3
<1>6. ASSUME NEW j \in 0..(Len(ks) - 1), j \in T
      PROVE  j + 1 \in T
  <2>1. j + 1 \in 0..Len(ks) /\ j + 1 # 0 /\ (j + 1) - 1 = j /\ j + 1 \in 1..Len(ks)
    BY <1>2
  <2>2. f[j + 1] = [data |-> Write(f[j].data, ks[j + 1].writes, Label(f[j].data, ks[j + 1], tt)),
                    used |-> f[j].used \cup Uses(f[j].data, ks[j + 1], tt)]
    BY <1>3, <2>1
  <2>3. f[j + 1].data = Write(f[j].data, ks[j + 1].writes, Label(f[j].data, ks[j + 1], tt))
    BY <2>2
  <2>4. s \notin ks[j + 1].writes
    BY <1>2, <2>1
  <2>5. Get(f[j + 1].data, s) = Get(f[j].data, s)
    BY <2>3, <2>4, WriteElsewhere
  <2>6. QED
    BY <1>6, <2>1, <2>5
<1> HIDE DEF T
<1>7. Len(ks) \in T
  <2>1. 0 \in Int /\ Len(ks) \in Int /\ Len(ks) \in 0..Len(ks) /\ 0 <= Len(ks)
    BY <1>2
  <2>2. QED
    BY <1>5, <1>6, <2>1, IntervalInduction
<1>8. QED
  BY <1>b, <1>7 DEF T

-----------------------------------------------------------------------------
(* The fields of the equations, density and the pressure gradient; which   *)
(* of them a new mesh keeps is told below.                                 *)
KnownFields ==
  {"velocity", "temperature", "tke", "sdr", "passive_scalar", "vof", "levelset", "density", "gp"}

Known == States(KnownFields, "New")

LEMMA QuietKernel ==
  ASSUME NEW S, NEW op, NEW r, NEW w, NEW g, w \cap S = {}
  PROVE  Quiet(<< Kernel(op, r, w, g) >>, S)
<1>1. PICK q : q = Kernel(op, r, w, g)
  OBVIOUS
<1>2. q.writes \cap S = {}
  BY <1>1, Writes
<1>3. QED
  BY <1>1, <1>2, QuietOne

(* A kernel that writes nothing outside of the host leaves every slot.     *)
LEMMA QuietRead ==
  ASSUME NEW S, NEW op, NEW r, NEW g
  PROVE  Quiet(<< Kernel(op, r, {}, g) >>, S)
<1>1. {} \cap S = {}
  OBVIOUS
<1>2. QED
  BY <1>1, QuietKernel

LEMMA QuietLook ==
  ASSUME NEW S, NEW op, NEW r
  PROVE  Quiet(<< Look(op, r) >>, S)
BY QuietRead, Zenon DEF Look

LEMMA QuietCompute ==
  ASSUME NEW S, NEW op, NEW r, NEW w, w \cap S = {}
  PROVE  Quiet(<< Compute(op, r, w) >>, S)
BY QuietKernel, Zenon DEF Compute

LEMMA QuietSetVal ==
  ASSUME NEW S, NEW op, NEW w, w \cap S = {}
  PROVE  Quiet(<< SetVal(op, w) >>, S)
BY QuietKernel, Zenon DEF SetVal

(* Slots that are not the New state of such a field.                       *)
LEMMA OtherField ==
  ASSUME NEW S, S \subseteq Known, NEW F, F \cap KnownFields = {}
  PROVE  States(F, "New") \cap S = {}
BY DEF States, Known

LEMMA OtherSlot ==
  ASSUME NEW S, S \subseteq Known, NEW f, f \notin KnownFields
  PROVE  {New(f)} \cap S = {}
BY DEF States, Known, New

LEMMA OtherState ==
  ASSUME NEW S, S \subseteq Known, NEW f, NEW st, st # "New"
  PROVE  {<< f, st >>} \cap S = {}
BY DEF States, Known

-----------------------------------------------------------------------------
(* Filling ghost cells leaves the cells alone, whatever the boundaries are. *)

LEMMA QuietPlanes ==
  ASSUME NEW S, NEW f, NEW given
  PROVE  Quiet(PopulateData(f, given, c), S)
<1>1. Quiet(<< Kernel("plane inflow", {Planes}, {}, given) >>, S)
  BY QuietRead, Zenon
<1>2. Quiet(PlaneGate(f, c), S)
  BY QuietLook, QuietNone, Zenon DEF PlaneGate, If
<1>3. QED
  BY <1>1, <1>2, QuietJoin, Zenon DEF PopulateData

LEMMA QuietFillPatch ==
  ASSUME NEW S, NEW slot, NEW given
  PROVE  Quiet(FillPatch(slot, given, c), S)
<1>1. Quiet(FillPatchOf(slot, given), S)
  BY QuietRead, Zenon DEF FillPatchOf
<1>2. Quiet(BoundaryFill(slot[1], given, c), S)
  <2>1. Quiet(If(FromPlanes(slot[1], c), PopulateData(slot[1], given, c)), S)
    BY QuietPlanes, QuietNone, Zenon DEF If
  <2>2. Quiet(FillMPL(slot[1]), S)
    BY QuietLook, Zenon DEF FillMPL, MPLSetVelocity, MPLSetTemperature
  <2>3. Quiet(If(FromMPL(slot[1], c), FillMPL(slot[1])), S)
    BY <2>2, QuietNone, Zenon DEF If
  <2>4. QED
    BY <2>1, <2>3, QuietJoin, Zenon DEF BoundaryFill
<1>3. Quiet(WaveFill(slot, given, c), S)
  BY QuietRead, QuietNone, Zenon DEF WaveFill, If
<1>4. Quiet(BoundaryFill(slot[1], given, c) \o WaveFill(slot, given, c), S)
  BY <1>2, <1>3, QuietJoin
<1>5. Quiet((FillPatchOf(slot, given) \o BoundaryFill(slot[1], given, c)) \o WaveFill(slot, given, c), S)
  BY <1>1, <1>2, <1>3, QuietJoin, Zenon
<1>6. QED
  BY <1>5, Zenon DEF FillPatch

-----------------------------------------------------------------------------
(* The hooks of the equations: their operators are made again, and what    *)
(* follows a solution is done.  With two fluids, density is computed again *)
(* from the volume fraction or the level set.                              *)

LEMMA QuietReset ==
  ASSUME NEW S, S \subseteq Known, NEW eqn
  PROVE  Quiet(ResetOperators(eqn), S)
<1>1. "tke_lhs_src_term" \notin KnownFields /\ "sdr_lhs_src_term" \notin KnownFields
      /\ "advalpha" \notin KnownFields
  BY DEF KnownFields
<1>2. /\ {New("tke_lhs_src_term")} \cap S = {}
      /\ {New("sdr_lhs_src_term")} \cap S = {}
      /\ {New("advalpha")} \cap S = {}
  BY <1>1, OtherSlot
<1>3. /\ Quiet(<< SetVal("reset", {New("tke_lhs_src_term")}) >>, S)
      /\ Quiet(<< SetVal("reset", {New("sdr_lhs_src_term")}) >>, S)
      /\ Quiet(<< SetVal("reset", {New("advalpha")}) >>, S)
  BY <1>2, QuietSetVal
<1>4. QED
  BY <1>3, QuietNone DEF ResetOperators

LEMMA QuietSetDensity ==
  ASSUME NEW S, S \subseteq Known, New("density") \notin S
  PROVE  Quiet(SetDensityViaVOF, S) /\ Quiet(SetDensityViaLevelset, S)
<1>1. {New("density")} \cap S = {}
  OBVIOUS
<1>2. QED
  BY <1>1, QuietCompute, Zenon DEF SetDensityViaVOF, SetDensityViaLevelset

LEMMA QuietPostSolve ==
  ASSUME NEW S, S \subseteq Known, NEW eqn, eqn \in {"vof", "levelset"} => New("density") \notin S
  PROVE  Quiet(PostSolve(eqn, "now", c), S)
<1>1. ASSUME New("density") \notin S PROVE Quiet(PostSolveVOF(c), S)
  <2>1. Quiet(FillPatch(New("vof"), "new", c), S)
    BY QuietFillPatch
  <2>2. Quiet(SetDensityViaVOF, S)
    BY <1>1, QuietSetDensity
  <2>3. Quiet(SetNphDensity, S)
    <3>1. "NPH" # "New"
      OBVIOUS
    <3>2. {NPH("density")} \cap S = {}
      BY <3>1, OtherState, Zenon DEF NPH
    <3>3. QED
      BY <3>2, QuietKernel, Zenon DEF SetNphDensity, Midpoint
  <2>4. Quiet(AdvectedFaceDensity, S)
    <3>1. "advalpha" \notin KnownFields
      BY DEF KnownFields
    <3>2. {New("advalpha")} \cap S = {}
      BY <3>1, OtherSlot
    <3>3. QED
      BY <3>2, QuietCompute, Zenon DEF AdvectedFaceDensity
  <2>5. Quiet(FillPatch(New("vof"), "new", c) \o SetDensityViaVOF, S)
    BY <2>1, <2>2, QuietJoin, Zenon
  <2>6. Quiet(FillPatch(New("vof"), "new", c) \o SetDensityViaVOF \o SetNphDensity, S)
    BY <2>5, <2>3, QuietJoin, Zenon
  <2>7. QED
    BY <2>6, <2>4, QuietJoin, Zenon DEF PostSolveVOF
<1>2. ASSUME New("density") \notin S PROVE Quiet(PostSolveLevelset, S)
  <2>1. Quiet(<< Kernel("levelset fill", {New("levelset")}, {}, "now") >>, S)
    BY QuietRead, Zenon
  <2>2. Quiet(SetDensityViaLevelset, S)
    BY <1>2, QuietSetDensity
  <2>3. QED
    BY <2>1, <2>2, QuietJoin, Zenon DEF PostSolveLevelset
<1>3. Quiet(PostSolveTke("now", c), S)
  BY QuietLook, QuietFillPatch, QuietJoin, Zenon DEF PostSolveTke
<1>4. Quiet(PostSolveSdr("now", c), S)
  BY QuietLook, QuietFillPatch, QuietJoin, Zenon DEF PostSolveSdr
<1>5. Quiet(FillPatch(New(eqn), "now", c), S)
  BY QuietFillPatch, Zenon
<1>6. QED
  BY <1>1, <1>2, <1>3, <1>4, <1>5 DEF PostSolve

LEMMA QuietEquation ==
  ASSUME NEW S, S \subseteq Known, NEW eqn, eqn \in {"vof", "levelset"} => New("density") \notin S
  PROVE  Quiet(EquationPostRegrid(eqn, c), S)
BY QuietReset, QuietPostSolve, QuietJoin, Zenon DEF EquationPostRegrid

LEMMA QuietEquations ==
  ASSUME NEW S, S \subseteq Known, NEW U, c.scalars \in Seq(U), DensityFollows => New("density") \notin S
  PROVE  Quiet(EquationPostRegrid("velocity", c) \o AllScalars(c, LAMBDA f : EquationPostRegrid(f, c)), S)
<1>1. Quiet(EquationPostRegrid("velocity", c), S)
  <2>1. "velocity" \notin {"vof", "levelset"}
    OBVIOUS
  <2>2. QED
    BY <2>1, QuietEquation, Zenon
<1>2. Quiet(AllScalars(c, LAMBDA f : EquationPostRegrid(f, c)), S)
  <2> DEFINE K == {EquationPostRegrid(c.scalars[i], c) : i \in DOMAIN c.scalars}
             ss == [i \in DOMAIN c.scalars |-> EquationPostRegrid(c.scalars[i], c)]
  <2>1. ss \in Seq(K) /\ \A i \in 1..Len(ss) : i \in DOMAIN c.scalars /\ ss[i] = EquationPostRegrid(c.scalars[i], c)
    OBVIOUS
  <2>2. \A i \in DOMAIN c.scalars : c.scalars[i] \in {"vof", "levelset"} => New("density") \notin S
    BY DEF DensityFollows
  <2>3. \A i \in 1..Len(ss) : Quiet(ss[i], S)
    BY <2>1, <2>2, QuietEquation
  <2>4. AllScalars(c, LAMBDA f : EquationPostRegrid(f, c)) = FlattenSeq(ss)
    BY Zenon DEF AllScalars, ForEach
  <2> HIDE DEF ss, K
  <2>5. QED
    BY <2>1, <2>3, <2>4, QuietFlatten
<1>3. QED
  BY <1>1, <1>2, QuietJoin, Zenon

-----------------------------------------------------------------------------
(* The hooks of the physics.  Only the anelastic boundary layer and the    *)
(* builder of channels write fields that are kept.                         *)

Anelastic == "anelastic" \in c.extra

LEMMA QuietStatic ==
  ASSUME NEW S, S \subseteq Known, NEW op, NEW F, F \cap KnownFields = {}
  PROVE  Quiet(<< Kernel(op, {}, States(F, "New"), "static") >>, S)
BY OtherField, QuietKernel, Zenon

LEMMA QuietStaticOne ==
  ASSUME NEW S, S \subseteq Known, NEW op, NEW f, f \notin KnownFields
  PROVE  Quiet(<< Kernel(op, {}, {New(f)}, "static") >>, S)
BY OtherSlot, QuietKernel, Zenon

LEMMA QuietABL ==
  ASSUME NEW S, S \subseteq Known, Anelastic => New("density") \notin S
  PROVE  Quiet(ABLPostRegrid(c), S)
<1>1. CASE Anelastic
  <2>1. {"reference_density", "reference_pressure", "reference_temperature"} \cap KnownFields = {}
    BY DEF KnownFields
  <2>2. Quiet(<< Kernel("anelastic", {},
                        States({"reference_density", "reference_pressure", "reference_temperature"}, "New"),
                        "static") >>, S)
    BY <2>1, QuietStatic
  <2>3. {New("density")} \cap S = {}
    BY <1>1
  <2>4. PICK r : r = {New("reference_density")}
    OBVIOUS
  <2>5. Quiet(<< Compute("anelastic density", r, {New("density")}) >>, S)
    BY <2>3, QuietCompute, Zenon
  <2>6. PICK p, q : /\ p = Kernel("anelastic", {},
                        States({"reference_density", "reference_pressure", "reference_temperature"}, "New"),
                        "static")
                    /\ q = Compute("anelastic density", r, {New("density")})
    BY Zenon
  <2>7. Quiet(<< p >>, S) /\ Quiet(<< q >>, S)
    BY <2>2, <2>5, <2>6, Zenon
  <2>8. Quiet(<< p, q >>, S)
    BY <2>7, QuietPair
  <2>9. ABLPostRegrid(c) = << p, q >>
    BY <1>1, <2>4, <2>6, Zenon DEF Anelastic, ABLPostRegrid, AnelasticPostInit, If
  <2>10. QED
    BY <2>8, <2>9, Zenon
<1>2. CASE ~Anelastic
  <2>1. ABLPostRegrid(c) = << >>
    BY <1>2, Zenon DEF Anelastic, ABLPostRegrid, AnelasticPostInit, If
  <2>2. QED
    BY <2>1, QuietNone, Zenon
<1>3. QED
  BY <1>1, <1>2

LEMMA QuietTerrain ==
  ASSUME NEW S, S \subseteq Known
  PROVE  Quiet(TerrainPostRegrid(c), S)
<1>1. Quiet(BuildTerrain(c), S)
  <2>1. {"terrain_blank", "terrain_drag", "terrainz0", "terrain_height", "terrain_damping"}
          \cap KnownFields = {}
    BY DEF KnownFields
  <2>2. Quiet(<< Kernel("terrain", {}, TerrainFields, "static") >>, S)
    BY <2>1, QuietStatic, Zenon DEF TerrainFields
  <2>3. QED
    BY <2>2, QuietNone, Zenon DEF BuildTerrain, If
<1>2. Quiet(ConvertWavesToTerrain(c), S)
  <2>1. "terrainz0" \notin KnownFields
    BY DEF KnownFields
  <2>2. PICK p : p = Kernel("roughness", {}, {New("terrainz0")}, "static")
    BY Zenon
  <2>3. Quiet(<< p >>, S)
    BY <2>1, <2>2, QuietStaticOne, Zenon
  <2>4. {"terrain_blank", "terrain_height", "terrain_drag"} \cap KnownFields = {}
    BY DEF KnownFields
  <2>5. States({"terrain_blank", "terrain_height", "terrain_drag"}, "New") \cap S = {}
    BY <2>4, OtherField
  <2>6. PICK q : q = Compute("waves to terrain", States({"ow_vof", "ow_levelset"}, "New"),
                             States({"terrain_blank", "terrain_height", "terrain_drag"}, "New"))
    BY Zenon
  <2>7. Quiet(<< q >>, S)
    BY <2>5, <2>6, QuietCompute, Zenon
  <2>8. Quiet(<< p, q >>, S)
    BY <2>3, <2>7, QuietPair
  <2>9. QED
    BY <2>2, <2>6, <2>8, QuietNone, Zenon DEF ConvertWavesToTerrain, If
<1>3. QED
  BY <1>1, <1>2, QuietJoin, Zenon DEF TerrainPostRegrid

LEMMA QuietForest ==
  ASSUME NEW S, S \subseteq Known
  PROVE  Quiet(ForestPostRegrid, S)
<1>1. {"forest_drag", "forest_id"} \cap KnownFields = {}
  BY DEF KnownFields
<1>2. QED
  BY <1>1, QuietStatic, Zenon DEF ForestPostRegrid, ForestInitializeFields, ForestFields

LEMMA QuietMultiPhase ==
  ASSUME NEW S, S \subseteq Known
  PROVE  Quiet(MultiPhasePostRegrid(c), S)
<1>1. "reference_density" \notin KnownFields /\ "reference_pressure" \notin KnownFields
  BY DEF KnownFields
<1>2. Quiet(If("reference_density" \in c.extra,
               << Kernel("define_rho0", {}, {New("reference_density")}, "static") >>), S)
  BY <1>1, QuietStaticOne, QuietNone, Zenon DEF If
<1>3. Quiet(If("reference_pressure" \in c.extra,
               << Kernel("define_p0", {}, {New("reference_pressure")}, "static") >>), S)
  BY <1>1, QuietStaticOne, QuietNone, Zenon DEF If
<1>4. QED
  BY <1>2, <1>3, QuietJoin, Zenon DEF MultiPhasePostRegrid, ReferenceState

LEMMA QuietMMS ==
  ASSUME NEW S, S \subseteq Known
  PROVE  Quiet(FillMMSSource, S)
<1>1. "mms_vel_src" \notin KnownFields
  BY DEF KnownFields
<1>2. QED
  BY <1>1, QuietStaticOne, Zenon DEF FillMMSSource

LEMMA QuietActuators ==
  ASSUME NEW S, S \subseteq Known
  PROVE  Quiet(ActuatorPostRegrid, S)
<1>1. "host" # "New"
  OBVIOUS
<1>2. {Host("actuator_data")} \cap S = {} /\ {Particles} \cap S = {}
  BY <1>1, OtherState, Zenon DEF Host, Particles
<1>3. Quiet(InitializeContainer, S) /\ Quiet(InitializeParticles, S)
  BY <1>2, QuietKernel, Zenon DEF InitializeContainer, InitializeParticles
<1>4. QED
  BY <1>3, QuietJoin, Zenon DEF ActuatorPostRegrid, SetupContainer

LEMMA QuietBuilder ==
  ASSUME NEW S, S \subseteq Known, States(BuiltFields, "New") \cap S = {}
  PROVE  Quiet(ChannelBuilderPostRegrid(c), S)
<1> DEFINE F == {"velocity"} \cup IF c.interface = "none" THEN {"density"} ELSE {"levelset"}
<1>1. F \subseteq BuiltFields
  BY DEF BuiltFields
<1>2. States(F, "New") \cap S = {}
  BY <1>1 DEF States
<1>3. PICK p : p = Kernel("ChannelBuilder", {}, States(F, "New"), "start")
  BY Zenon
<1> PICK w : w = States(F, "New")
  BY Zenon
<1>4. Quiet(<< p >>, S)
  <2>1. w \cap S = {} /\ p = Kernel("ChannelBuilder", {}, w, "start")
    BY <1>2, <1>3, Zenon
  <2>2. Quiet(<< Kernel("ChannelBuilder", {}, w, "start") >>, S)
    BY <2>1, QuietKernel, Zenon
  <2>3. QED
    BY <2>1, <2>2, Zenon
<1>5. "terrain_blank" \notin KnownFields
  BY DEF KnownFields
<1>6. PICK q : q = Kernel("ChannelBuilder walls", {}, {New("terrain_blank")}, "static")
  BY Zenon
<1>7. Quiet(<< q >>, S)
  BY <1>5, <1>6, QuietStaticOne, Zenon
<1>8. Quiet(<< p, q >>, S)
  BY <1>4, <1>7, QuietPair
<1>9. ChannelBuilderPostRegrid(c) = << p, q >>
  BY <1>3, <1>6, Zenon DEF ChannelBuilderPostRegrid, ChannelBuilderInit, Initial
<1>10. QED
  BY <1>8, <1>9, Zenon

LEMMA QuietPhysics ==
  ASSUME NEW S, S \subseteq Known, NEW U, c.physics \in Seq(U),
         Anelastic => New("density") \notin S,
         Has("ChannelBuilder", c) => States(BuiltFields, "New") \cap S = {}
  PROVE  Quiet(PhysicsPostRegrid, S)
<1>1. ASSUME NEW i \in DOMAIN c.physics PROVE Quiet(PostRegridOf(c.physics[i], c), S)
  <2>1. c.physics[i] = "ChannelBuilder" => Quiet(ChannelBuilderPostRegrid(c), S)
    BY QuietBuilder DEF Has
  <2>2. /\ Quiet(ABLPostRegrid(c), S) /\ Quiet(TerrainPostRegrid(c), S) /\ Quiet(ForestPostRegrid, S)
        /\ Quiet(MultiPhasePostRegrid(c), S) /\ Quiet(FillMMSSource, S) /\ Quiet(ActuatorPostRegrid, S)
        /\ Quiet(<< >>, S)
    BY QuietABL, QuietTerrain, QuietForest, QuietMultiPhase, QuietMMS, QuietActuators, QuietNone
  <2>3. QED
    BY <2>1, <2>2 DEF PostRegridOf
<1> DEFINE K == {PostRegridOf(c.physics[i], c) : i \in DOMAIN c.physics}
           ss == [i \in DOMAIN c.physics |-> PostRegridOf(c.physics[i], c)]
<1>2. ss \in Seq(K) /\ \A i \in 1..Len(ss) : i \in DOMAIN c.physics /\ ss[i] = PostRegridOf(c.physics[i], c)
  OBVIOUS
<1>3. \A i \in 1..Len(ss) : Quiet(ss[i], S)
  BY <1>1, <1>2
<1>4. PhysicsPostRegrid = FlattenSeq(ss)
  BY Zenon DEF PhysicsPostRegrid, AllPhysics, ForEach
<1> HIDE DEF ss, K
<1>5. QED
  BY <1>2, <1>3, <1>4, QuietFlatten

-----------------------------------------------------------------------------
(* Post-processing, tagging, and what is done with the mesh. *)

LEMMA QuietOutputs ==
  ASSUME NEW S, S \subseteq Known, NEW U, c.outputs \in Seq(U)
  PROVE  Quiet(PostRegridOutputs(c), S)
<1>1. Quiet(FreeSurfacePostRegrid, S)
  <2>1. "sample_loc" \notin KnownFields
    BY DEF KnownFields
  <2>2. QED
    BY <2>1, QuietStaticOne, Zenon DEF FreeSurfacePostRegrid, FreeSurfaceInit, SampleLocations
<1>2. ASSUME NEW i \in DOMAIN c.outputs PROVE Quiet(OutputPostRegrid(c.outputs[i]), S)
  BY <1>1, QuietNone, Zenon DEF OutputPostRegrid, If
<1> DEFINE K == {OutputPostRegrid(c.outputs[i]) : i \in DOMAIN c.outputs}
           ss == [i \in DOMAIN c.outputs |-> OutputPostRegrid(c.outputs[i])]
<1>3. ss \in Seq(K) /\ \A i \in 1..Len(ss) : i \in DOMAIN c.outputs /\ ss[i] = OutputPostRegrid(c.outputs[i])
  OBVIOUS
<1>4. \A i \in 1..Len(ss) : Quiet(ss[i], S)
  BY <1>2, <1>3
<1>5. PostRegridOutputs(c) = FlattenSeq(ss)
  BY Zenon DEF PostRegridOutputs, ForEach
<1> HIDE DEF ss, K
<1>6. QED
  BY <1>3, <1>4, <1>5, QuietFlatten

LEMMA QuietTagging ==
  ASSUME NEW S, c.criteria \in Seq(Criteria)
  PROVE  Quiet(TagCells(c), S)
<1>1. ASSUME NEW f PROVE Quiet(TagGradient(f, c), S)
  BY QuietFillPatch, QuietLook, QuietJoin, Zenon DEF TagGradient
<1>2. Quiet(TagGradient("velocity", c), S) /\ Quiet(TagGradient(c.tagged, c), S)
  <2>1. PICK f : f = c.tagged
    OBVIOUS
  <2>2. Quiet(TagGradient(f, c), S)
    BY <1>1
  <2>3. Quiet(TagGradient("velocity", c), S)
    BY <1>1
  <2>4. QED
    BY <2>1, <2>2, <2>3
<1>3. Quiet(OversetRefinement, S)
  BY QuietLook, Zenon DEF OversetRefinement
<1>4. ASSUME NEW i \in DOMAIN c.criteria PROVE Quiet(TagOne(c.criteria[i], c), S)
  <2>1. c.criteria[i] \in Criteria
    OBVIOUS
  <2>2. /\ Quiet(FieldRefinement(c), S) /\ Quiet(GradientMagRefinement(c), S)
        /\ Quiet(CurvatureRefinement(c), S) /\ Quiet(VorticityMagRefinement(c), S)
        /\ Quiet(QCriterionRefinement(c), S)
        /\ Quiet(GeometryRefinement, S) /\ Quiet(CartBoxRefinement, S)
    BY <1>2, QuietNone DEF FieldRefinement, GradientMagRefinement, CurvatureRefinement,
       VorticityMagRefinement, QCriterionRefinement, GeometryRefinement, CartBoxRefinement
  <2>3. QED
    BY <1>3, <2>1, <2>2 DEF TagOne, Criteria
<1> DEFINE K == {TagOne(c.criteria[i], c) : i \in DOMAIN c.criteria}
           ss == [i \in DOMAIN c.criteria |-> TagOne(c.criteria[i], c)]
<1>5. ss \in Seq(K) /\ \A i \in 1..Len(ss) : i \in DOMAIN c.criteria /\ ss[i] = TagOne(c.criteria[i], c)
  OBVIOUS
<1>6. \A i \in 1..Len(ss) : Quiet(ss[i], S)
  BY <1>4, <1>5
<1>7. TagCells(c) = FlattenSeq(ss)
  BY Zenon DEF TagCells, ForEach
<1> HIDE DEF ss, K
<1>8. QED
  BY <1>5, <1>6, <1>7, QuietFlatten

LEMMA QuietRemake ==
  ASSUME NEW S, NEW U, c.scalars \in Seq(U)
  PROVE  Quiet(Remake, S)
<1> DEFINE list == << "velocity", "density", "gp" >> \o c.scalars
           K == {FillPatch(New(list[i]), "now", c) : i \in DOMAIN list}
           ss == [i \in DOMAIN list |-> FillPatch(New(list[i]), "now", c)]
<1>1. list \in Seq({"velocity", "density", "gp"} \cup U)
  OBVIOUS
<1>2. Remake = FlattenSeq(ss)
  BY Zenon DEF Remake, ForEach
<1> HIDE DEF list
<1>3. ss \in Seq(K) /\ \A i \in 1..Len(ss) : ss[i] = FillPatch(New(list[i]), "now", c)
  BY <1>1
<1>4. ASSUME NEW f PROVE Quiet(FillPatch(New(f), "now", c), S)
  BY QuietFillPatch, Zenon
<1>5. \A i \in 1..Len(ss) : Quiet(ss[i], S)
  BY <1>3, <1>4
<1> HIDE DEF ss, K
<1>6. QED
  BY <1>2, <1>3, <1>5, QuietFlatten

LEMMA QuietMasks ==
  ASSUME NEW S, S \subseteq Known
  PROVE  Quiet(SetMasks, S)
<1>1. {"mask_cell", "mask_node"} \cap KnownFields = {}
  BY DEF KnownFields
<1>2. Masks \cap S = {}
  BY <1>1, OtherField, Zenon DEF Masks
<1>3. Quiet(ResetMasks, S) /\ Quiet(<< SetVal("masks", Masks) >>, S)
  BY <1>2, QuietKernel, QuietSetVal, Zenon DEF ResetMasks
<1>4. QED
  BY <1>3, Zenon DEF SetMasks

LEMMA QuietStateFields ==
  ASSUME NEW S, NEW U, c.scalars \in Seq(U)
  PROVE  Quiet(FillpatchStateFields("now", c), S)
<1>1. Quiet(If(ConstantDensity(c), FillPatch(New("density"), "now", c)), S)
  BY QuietFillPatch, QuietNone, Zenon DEF If
<1>2. Quiet(FillPatch(New("velocity"), "now", c), S)
  BY QuietFillPatch
<1>3. Quiet(AllScalars(c, LAMBDA f : FillPatch(New(f), "now", c)), S)
  <2> DEFINE K == {FillPatch(New(c.scalars[i]), "now", c) : i \in DOMAIN c.scalars}
             ss == [i \in DOMAIN c.scalars |-> FillPatch(New(c.scalars[i]), "now", c)]
  <2>1. ss \in Seq(K) /\ \A i \in 1..Len(ss) : ss[i] = FillPatch(New(c.scalars[i]), "now", c)
    OBVIOUS
  <2>2. ASSUME NEW f PROVE Quiet(FillPatch(New(f), "now", c), S)
    BY QuietFillPatch, Zenon
  <2>3. \A i \in 1..Len(ss) : Quiet(ss[i], S)
    BY <2>1, <2>2
  <2>4. AllScalars(c, LAMBDA f : FillPatch(New(f), "now", c)) = FlattenSeq(ss)
    BY Zenon DEF AllScalars, ForEach
  <2> HIDE DEF ss, K
  <2>5. QED
    BY <2>1, <2>3, <2>4, QuietFlatten
<1>4. Quiet(If(ConstantDensity(c), FillPatch(New("density"), "now", c)) \o
            FillPatch(New("velocity"), "now", c), S)
  BY <1>1, <1>2, QuietJoin, Zenon
<1>5. QED
  BY <1>3, <1>4, QuietJoin, Zenon DEF FillpatchStateFields

-----------------------------------------------------------------------------
(* The kept fields are among those that a new mesh is filled with.         *)

LEMMA KeptAreKnown ==
  ASSUME c \in Configs, NEW S, S = States(KeptFields, "New")
  PROVE  /\ S \subseteq Known /\ S \subseteq FilledOnRegrid
         /\ Anelastic => New("density") \notin S
         /\ DensityFollows => New("density") \notin S
         /\ Has("ChannelBuilder", c) => States(BuiltFields, "New") \cap S = {}
<1>1. c.scalars \in Seq(ScalarEquationNames)
  BY ConfigsAssumption
<1>2. \A i \in DOMAIN c.scalars : c.scalars[i] \in ScalarEquationNames
  BY <1>1
<1>3. Solved \subseteq KnownFields
  BY <1>2 DEF Solved, ScalarEquationNames, KnownFields
<1>4. KeptFields \subseteq KnownFields
  BY <1>3 DEF KeptFields, State, KnownFields
<1>5. S \subseteq Known
  BY <1>4 DEF States, Known
<1>6. KeptFields \subseteq Solved \cup {"density", "gp", "wall_dist"}
  BY DEF KeptFields, State
<1>7. S \subseteq FilledOnRegrid
  BY <1>6 DEF States, FilledOnRegrid
<1>8. Anelastic \/ DensityFollows => "density" \notin KeptFields
  BY DEF KeptFields, SetOnNewMesh, Anelastic, IfThere
<1>9. Has("ChannelBuilder", c) => BuiltFields \cap KeptFields = {}
  BY DEF KeptFields, SetOnNewMesh, IfThere
<1>10. QED
  BY <1>5, <1>7, <1>8, <1>9 DEF States, New

(* Quiet kernels keep a field, also when slots were dropped before.        *)
LEMMA StageKeeps ==
  ASSUME NEW S, NEW ks, Quiet(ks, S), NEW d, NEW f, New(f) \in S
  PROVE  Get(Perform(d, ks, t).data, New(f)) = Get(d, New(f))
<1>1. PICK tt : tt = t
  OBVIOUS
<1>2. Get(Perform(d, ks, tt).data, New(f)) = Get(d, New(f))
  BY PerformQuiet
<1>3. QED
  BY <1>1, <1>2, Zenon

LEMMA RestrictedKeeps ==
  ASSUME NEW d, NEW slots, NEW s \in slots
  PROVE  Get(Restricted(d, slots), s) = Get(d, s)
BY DEF Get, Restricted

(* What a change of the mesh does to the kept fields. *)

LEMMA KeepMeshKeeps == ASSUME c \in Configs, KeepMesh PROVE Keeps(KeptFields)
<1>1. PICK S : S = States(KeptFields, "New")
  OBVIOUS
<1>2. PICK d : d = data
  OBVIOUS
<1>3. data' = Perform(data, << >>, t).data
  BY Zenon DEF KeepMesh, Stage, Performs
<1>4. ASSUME NEW f \in KeptFields PROVE Get(data', New(f)) = Get(data, New(f))
  <2>1. New(f) \in S
    BY <1>1 DEF States, New
  <2>2. Quiet(<< >>, S)
    BY QuietNone
  <2>3. PICK g : g = f
    OBVIOUS
  <2>4. Get(Perform(d, << >>, t).data, New(g)) = Get(d, New(g))
    BY <2>1, <2>2, <2>3, StageKeeps
  <2>5. QED
    BY <1>2, <1>3, <2>3, <2>4, Zenon
<1>5. QED
  BY <1>4 DEF Keeps

LEMMA RegridKeeps == ASSUME c \in Configs, Regrid PROVE Keeps(KeptFields)
<1>1. PICK S : S = States(KeptFields, "New")
  OBVIOUS
<1> PICK U : c.scalars \in Seq(U) /\ c.criteria \in Seq(Criteria)
  BY ConfigsAssumption
<1>2. S \subseteq Known /\ S \subseteq FilledOnRegrid
  BY <1>1, KeptAreKnown
<1>3. PICK a : a = TagCells(c) \o Remake
  OBVIOUS
<1>4. PICK b : b = SetMasks \o FillpatchStateFields("now", c)
  OBVIOUS
<1>5. PICK d : d = data
  OBVIOUS
<1>6. PICK e : e = Perform(data, TagCells(c) \o Remake, t).data
  OBVIOUS
<1>7. PICK h : h = Restricted(e, FilledOnRegrid \cup OnHost(data))
  OBVIOUS
<1>8. data' = Perform(h, b, t).data
  BY <1>4, <1>6, <1>7, Zenon DEF Regrid
<1>9. e = Perform(d, a, t).data
  BY <1>3, <1>5, <1>6, Zenon
<1>10. Quiet(a, S)
  <2>1. Quiet(TagCells(c), S) /\ Quiet(Remake, S)
    BY QuietTagging, QuietRemake
  <2>2. QED
    BY <1>3, <2>1, QuietJoin, Zenon
<1>11. Quiet(b, S)
  <2>1. Quiet(SetMasks, S) /\ Quiet(FillpatchStateFields("now", c), S)
    BY <1>2, QuietMasks, QuietStateFields
  <2>2. QED
    BY <1>4, <2>1, QuietJoin, Zenon
<1>12. ASSUME NEW f \in KeptFields PROVE Get(data', New(f)) = Get(data, New(f))
  <2>1. PICK g : g = f
    OBVIOUS
  <2>2. New(g) \in S
    BY <1>1, <2>1 DEF States, New
  <2>3. Get(Perform(d, a, t).data, New(g)) = Get(d, New(g))
    BY <1>10, <2>2, StageKeeps
  <2>4. Get(Perform(h, b, t).data, New(g)) = Get(h, New(g))
    BY <1>11, <2>2, StageKeeps
  <2>5. PICK slots : slots = FilledOnRegrid \cup OnHost(data)
    OBVIOUS
  <2>6. New(g) \in slots
    BY <1>2, <2>2, <2>5
  <2>7. Get(Restricted(e, slots), New(g)) = Get(e, New(g))
    BY <2>6, RestrictedKeeps
  <2>8. QED
    BY <1>5, <1>7, <1>8, <1>9, <2>1, <2>3, <2>4, <2>5, <2>7, Zenon
<1>13. QED
  BY <1>12 DEF Keeps

LEMMA RegriddedKeeps == ASSUME c \in Configs, Regridded PROVE Keeps(KeptFields)
<1>1. PICK S : S = States(KeptFields, "New")
  OBVIOUS
<1> PICK U : c.scalars \in Seq(U) /\ c.physics \in Seq(STRING) /\ c.outputs \in Seq(STRING)
  BY ConfigsAssumption
<1>2. /\ S \subseteq Known
      /\ Anelastic => New("density") \notin S
      /\ DensityFollows => New("density") \notin S
      /\ Has("ChannelBuilder", c) => States(BuiltFields, "New") \cap S = {}
  BY <1>1, KeptAreKnown
<1>3. PICK a : a = EquationPostRegrid("velocity", c) \o
                   AllScalars(c, LAMBDA f : EquationPostRegrid(f, c)) \o
                   PhysicsPostRegrid \o PostRegridOutputs(c)
  OBVIOUS
<1>4. PICK d : d = data
  OBVIOUS
<1>5. data' = Perform(d, a, t).data
  BY <1>3, <1>4, Zenon DEF Regridded, Stage, Performs
<1>6. Quiet(a, S)
  <2>1. Quiet(EquationPostRegrid("velocity", c) \o AllScalars(c, LAMBDA f : EquationPostRegrid(f, c)), S)
    BY <1>2, QuietEquations, Zenon
  <2>2. Quiet(PhysicsPostRegrid, S)
    BY <1>2, QuietPhysics, Zenon
  <2>3. Quiet(PostRegridOutputs(c), S)
    BY <1>2, QuietOutputs, Zenon
  <2>4. Quiet(EquationPostRegrid("velocity", c) \o AllScalars(c, LAMBDA f : EquationPostRegrid(f, c)) \o
              PhysicsPostRegrid, S)
    BY <2>1, <2>2, QuietJoin, Zenon
  <2>5. QED
    BY <1>3, <2>3, <2>4, QuietJoin, Zenon
<1>7. ASSUME NEW f \in KeptFields PROVE Get(data', New(f)) = Get(data, New(f))
  <2>1. PICK g : g = f
    OBVIOUS
  <2>2. New(g) \in S
    BY <1>1, <2>1 DEF States, New
  <2>3. Get(Perform(d, a, t).data, New(g)) = Get(d, New(g))
    BY <1>6, <2>2, StageKeeps
  <2>4. QED
    BY <1>4, <1>5, <2>1, <2>3, Zenon
<1>8. QED
  BY <1>7 DEF Keeps

LEMMA RestartMeshKeeps == ASSUME c \in Configs, RestartMesh PROVE Keeps(KeptFields)
<1>1. PICK S : S = States(KeptFields, "New")
  OBVIOUS
<1> PICK U : c.physics \in Seq(U)
  BY ConfigsAssumption
<1>2. /\ S \subseteq Known /\ S \subseteq FilledOnRegrid
      /\ Anelastic => New("density") \notin S
      /\ Has("ChannelBuilder", c) => States(BuiltFields, "New") \cap S = {}
  BY <1>1, KeptAreKnown
<1>3. PICK a : a = PhysicsPostRegrid
  OBVIOUS
<1>4. PICK slots : slots = FilledOnRegrid \cup OnHost(data)
  OBVIOUS
<1>5. PICK e \in {data, Restricted(data, FilledOnRegrid \cup OnHost(data))} :
             data' = Perform(e, PhysicsPostRegrid, t).data
  BY Zenon DEF RestartMesh
<1>6. PICK d : d = data
  OBVIOUS
<1>7. Quiet(a, S)
  BY <1>2, <1>3, QuietPhysics, Zenon
<1>8. ASSUME NEW f \in KeptFields PROVE Get(data', New(f)) = Get(data, New(f))
  <2>1. PICK g : g = f
    OBVIOUS
  <2>2. New(g) \in S
    BY <1>1, <2>1 DEF States, New
  <2>3. PICK h : h = e
    OBVIOUS
  <2>4. Get(Perform(h, a, t).data, New(g)) = Get(h, New(g))
    BY <1>7, <2>2, StageKeeps
  <2>5. New(g) \in slots
    BY <1>2, <1>4, <2>2
  <2>6. Get(Restricted(d, slots), New(g)) = Get(d, New(g))
    BY <2>5, RestrictedKeeps
  <2>7. Get(h, New(g)) = Get(data, New(g))
    BY <1>4, <1>5, <1>6, <2>3, <2>6, Zenon
  <2>8. QED
    BY <1>3, <1>5, <2>1, <2>3, <2>4, <2>7, Zenon
<1>9. QED
  BY <1>8 DEF Keeps

-----------------------------------------------------------------------------
(* No action changes the configuration, and only those of the mesh are the *)
(* stages that the property is about.                                      *)

LEMMA StartSteps ==
  ASSUME Start
  PROVE  c' = c /\ (did' \in NewMeshStages => RestartMesh)
<1>1. CASE InitMesh
  BY <1>1, Zenon DEF InitMesh, At, NewMeshStages, Same
<1>2. CASE ReadCheckpointFile
  BY <1>2, Zenon DEF ReadCheckpointFile, At, NewMeshStages, Same
<1>3. CASE RestartMesh
  BY <1>3, Zenon DEF RestartMesh, At, NewMeshStages, Same
<1>4. CASE InitModules
  BY <1>4, Zenon DEF InitModules, At, NewMeshStages, Stage, Same
<1>5. CASE InitEquations
  BY <1>5, Zenon DEF InitEquations, At, NewMeshStages, Stage, Same
<1>6. CASE Connect
  BY <1>6, Zenon DEF Connect, At, NewMeshStages, Same
<1>7. CASE PrepareForTimeIntegration
  BY <1>7, Zenon DEF PrepareForTimeIntegration, At, NewMeshStages, Stage, Same
<1>8. CASE InitialProjection
  BY <1>8, Zenon DEF InitialProjection, At, NewMeshStages, Stage, Same
<1>9. CASE StartIterations
  BY <1>9, Zenon DEF StartIterations, At, NewMeshStages
<1>10. CASE TakeBack
  BY <1>10, Zenon DEF TakeBack, At, NewMeshStages
<1>11. QED
  BY <1>1, <1>2, <1>3, <1>4, <1>5, <1>6, <1>7, <1>8, <1>9, <1>10, Zenon DEF Start

LEMMA PredictorSteps ==
  ASSUME Predictor
  PROVE  c' = c /\ (did' \in NewMeshStages => FALSE)
<1>1. CASE Properties
  BY <1>1, Zenon DEF Properties, At, NewMeshStages, Stage, Same
<1>2. CASE SourcesOfOldState
  BY <1>2, Zenon DEF SourcesOfOldState, At, NewMeshStages, Stage, Same
<1>3. CASE DiffusionOfOldState
  BY <1>3, Zenon DEF DiffusionOfOldState, At, NewMeshStages, Stage, Same
<1>4. CASE FaceVelocities
  BY <1>4, Zenon DEF FaceVelocities, At, NewMeshStages, Stage, Same
<1>5. CASE ScalarEquations
  BY <1>5, Zenon DEF ScalarEquations, At, NewMeshStages, EachScalar
<1>6. CASE Momentum
  BY <1>6, Zenon DEF Momentum, At, NewMeshStages, Stage, Same
<1>7. CASE Projection
  BY <1>7, Zenon DEF Projection, At, NewMeshStages, Stage, Same
<1>8. QED
  BY <1>1, <1>2, <1>3, <1>4, <1>5, <1>6, <1>7, Zenon DEF Predictor

LEMMA CorrectorSteps ==
  ASSUME Corrector
  PROVE  c' = c /\ (did' \in NewMeshStages => FALSE)
<1>1. CASE CorrectAdvection
  BY <1>1, Zenon DEF CorrectAdvection, At, NewMeshStages, Stage, Same
<1>2. CASE CorrectProperties
  BY <1>2, Zenon DEF CorrectProperties, At, NewMeshStages, Stage, Same
<1>3. CASE CorrectScalars
  BY <1>3, Zenon DEF CorrectScalars, At, NewMeshStages, EachScalar
<1>4. CASE CorrectVelocity
  BY <1>4, Zenon DEF CorrectVelocity, At, NewMeshStages, Stage, Same
<1>5. CASE CorrectProjection
  BY <1>5, Zenon DEF CorrectProjection, At, NewMeshStages, Stage, Same
<1>6. QED
  BY <1>1, <1>2, <1>3, <1>4, <1>5, Zenon DEF Corrector

LEMMA PrescribedSteps ==
  ASSUME Prescribed
  PROVE  c' = c /\ (did' \in NewMeshStages => FALSE)
<1>1. CASE Prescribe
  BY <1>1, Zenon DEF Prescribe, At, NewMeshStages, Stage, Same
<1>2. CASE PrescribeScalars
  BY <1>2, Zenon DEF PrescribeScalars, At, NewMeshStages, EachScalar
<1>3. CASE PrescribeVelocity
  BY <1>3, Zenon DEF PrescribeVelocity, At, NewMeshStages, Stage, Same
<1>4. QED
  BY <1>1, <1>2, <1>3, Zenon DEF Prescribed

LEMMA StepSteps ==
  ASSUME Step
  PROVE  c' = c /\ (did' \in NewMeshStages => KeepMesh \/ Regrid \/ Regridded)
<1>1. CASE NewTimestep
  BY <1>1, Zenon DEF NewTimestep, At, NewMeshStages
<1>2. CASE KeepMesh
  BY <1>2, Zenon DEF KeepMesh, At, NewMeshStages, Stage, Same
<1>3. CASE Regrid
  BY <1>3, Zenon DEF Regrid, At, NewMeshStages, Same
<1>4. CASE Regridded
  BY <1>4, Zenon DEF Regridded, At, NewMeshStages, Stage, Same
<1>5. CASE StartStep
  BY <1>5, Zenon DEF StartStep, At, NewMeshStages
<1>6. CASE PreAdvance
  BY <1>6, Zenon DEF PreAdvance, At, NewMeshStages, Stage, Same
<1>7. CASE StartIteration
  BY <1>7, Zenon DEF StartIteration, At, NewMeshStages, Stage, Same
<1>8. CASE NextIteration
  BY <1>8, Zenon DEF NextIteration, At, NewMeshStages
<1>9. CASE PostAdvance
  BY <1>9, Zenon DEF PostAdvance, At, NewMeshStages, Stage, Same
<1>10. CASE WriteOutputs
  BY <1>10, Zenon DEF WriteOutputs, At, NewMeshStages
<1>11. CASE Predictor
  BY <1>11, PredictorSteps, Zenon
<1>12. CASE Corrector
  BY <1>12, CorrectorSteps, Zenon
<1>13. CASE Prescribed
  BY <1>13, PrescribedSteps, Zenon
<1>14. QED
  BY <1>1, <1>2, <1>3, <1>4, <1>5, <1>6, <1>7, <1>8, <1>9, <1>10, <1>11, <1>12, <1>13, Zenon DEF Step

LEMMA NextSteps ==
  ASSUME [Next]_vars
  PROVE  /\ c' = c
         /\ did' \in NewMeshStages =>
              RestartMesh \/ KeepMesh \/ Regrid \/ Regridded \/ data' = data
<1>1. CASE Start
  BY <1>1, StartSteps, Zenon
<1>2. CASE Step
  BY <1>2, StepSteps, Zenon
<1>3. CASE Restart
  BY <1>3, Zenon DEF Restart, At, NewMeshStages
<1>4. CASE Finished \/ UNCHANGED vars
  BY <1>4, Zenon DEF Finished, vars
<1>5. QED
  BY <1>1, <1>2, <1>3, <1>4, Zenon DEF Next

LEMMA ConfigStays == Spec => [](c \in Configs)
<1>1. Init => c \in Configs
  BY Zenon DEF Init
<1>2. c \in Configs /\ [Next]_vars => (c \in Configs)'
  BY NextSteps, Zenon
<1>3. QED
  BY <1>1, <1>2, PTL DEF Spec

(* Whatever the configuration, the actions that change the mesh (Regrid and *)
(* Regridded for regrid_and_update, RestartMesh for the levels that a       *)
(* checkpoint does not have) leave every field as it was that their hooks   *)
(* do not set again: remake_level fills them, and nothing after it writes   *)
(* them ("If regrid happened, call post regrid actions", incflo.cpp:112).   *)
THEOREM RegridsKeepTheState == Spec => RegridKeepsState
<1>1. c \in Configs /\ [Next]_vars => [did' \in NewMeshStages => Keeps(KeptFields)]_vars
  <2> SUFFICES ASSUME c \in Configs, [Next]_vars, did' \in NewMeshStages
               PROVE  Keeps(KeptFields)
    BY Zenon
  <2>1. RestartMesh \/ KeepMesh \/ Regrid \/ Regridded \/ data' = data
    BY NextSteps, Zenon
  <2>2. CASE RestartMesh
    BY <2>2, RestartMeshKeeps
  <2>3. CASE KeepMesh
    BY <2>3, KeepMeshKeeps
  <2>4. CASE Regrid
    BY <2>4, RegridKeeps
  <2>5. CASE Regridded
    BY <2>5, RegriddedKeeps
  <2>6. CASE data' = data
    BY <2>6, Zenon DEF Keeps
  <2>7. QED
    BY <2>1, <2>2, <2>3, <2>4, <2>5, <2>6, Zenon
<1>2. QED
  BY <1>1, ConfigStays, PTL DEF Spec, RegridKeepsState

=============================================================================
