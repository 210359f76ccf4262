---------------------------- MODULE FieldStates ----------------------------
(***************************************************************************)
(* The contents of the fields on the finest level of the mesh, as the time *)
(* they belong to.  A slot is a field in one of its time states; its data  *)
(* is the number of half steps since the start of the run (2 * n is the    *)
(* time t^n, 2 * n + 1 the time half a step later), or Static for what     *)
(* does not depend on time.  A slot that nobody has written since AMReX    *)
(* made the level holds the zero of the allocation: it is not in data.     *)
(*                                                                         *)
(* The code works on fields in kernels: loops that read some slots and     *)
(* write others.  A kernel is modelled by those slots and by the time of   *)
(* what it writes.  Numbers in cells are left out.                         *)
(***************************************************************************)
EXTENDS Integers, Sequences, FiniteSets, SequencesExt

New(f) == << f, "New" >>
Old(f) == << f, "Old" >>
NPH(f) == << f, "NPH" >>

States(fs, st) == {<< f, st >> : f \in fs}

(* dof_state(fstate): the state of the equation's own field.               *)
Dof(f, st) == IF st = "New" THEN New(f) ELSE Old(f)

(* phi_state(fstate): the state of another field in a source term.         *)
Phi(f, st) == IF st = "Old" THEN Old(f) ELSE NPH(f)

Times == {"now", "half", "new", "half ahead"}

Static == 1000      \* above every time of a run
Unset == -1

(* How the time of what a kernel writes follows from what it reads:        *)
(*   oldest  - it is as old as the oldest of them                          *)
(*   mean    - the mean of two states                                      *)
(*   next    - one step after the Old state of the field that is written;  *)
(*             an Old state that does not depend on time stands for the    *)
(*             beginning of the step                                       *)
(*   static  - it does not depend on time                                  *)
(*   start   - it is an initial condition                                  *)
(*   now, half, new - it is computed for a time of the step                *)
(*   zero    - setVal(0): contents that the code puts there on purpose     *)
Kernel(op, reads, writes, gives) ==
  [op |-> op, reads |-> reads, writes |-> writes, gives |-> gives]

(* A kernel that computes its result from what it reads. *)
Compute(op, reads, writes) == Kernel(op, reads, writes, "oldest")

(* A kernel whose result nothing else in the model depends on. *)
Look(op, reads) == Kernel(op, reads, {}, "oldest")

Get(data, s) == IF s \in DOMAIN data THEN data[s] ELSE Unset

Oldest(labels) ==
  IF labels = {} THEN Static ELSE CHOOSE l \in labels : \A o \in labels : l <= o

Newest(labels) == CHOOSE l \in labels : \A o \in labels : o <= l

Halfway(labels) ==
  CASE Oldest(labels) = Static -> Static
    [] Newest(labels) = Static -> Oldest(labels) - 1
    [] OTHER -> (Oldest(labels) + Newest(labels)) \div 2

(* t is the clock: current_time and new_time, in half steps, and dt.       *)
(* With a prescribed velocity, some work is done for the half time before  *)
(* the clock has advanced.                                                 *)
TimeOf(given, t) ==
  CASE given = "now" -> t.cur [] given = "half" -> (t.cur + t.new) \div 2
    [] given = "new" -> t.new [] given = "half ahead" -> t.cur + t.dt \div 2

(* The label that kernel k gives to what it writes.  The zero of a slot    *)
(* that nobody has written has no age, unless there is nothing else.       *)
Label(data, k, t) ==
  LET read == {Get(data, s) : s \in k.reads}
      in == read \ {Unset}
      base == {Get(data, Old(s[1])) : s \in k.writes}
  IN CASE k.gives \in {"static", "zero"} -> Static
       [] k.gives = "start" -> 0
       [] k.gives \in Times -> TimeOf(k.gives, t)
       [] read = {Unset} -> Unset
       [] k.gives = "mean" -> Halfway(in)
       [] k.gives = "next" -> (IF Oldest(base) = Static THEN t.cur ELSE Oldest(base)) + 2
       [] OTHER -> Oldest(in)

Write(data, slots, l) ==
  [s \in DOMAIN data \cup slots |-> IF s \in slots THEN l ELSE data[s]]

(* What a kernel reads, with the age of the contents and, for a kernel that *)
(* is given a time, that time.                                             *)
Uses(data, k, t) ==
  {[op |-> k.op, slot |-> s, label |-> Get(data, s),
    at |-> IF k.gives \in Times THEN TimeOf(k.gives, t) ELSE Unset]
     : s \in k.reads}

(* The kernels of a sequence, one after the other: the new data, and what  *)
(* they have read.                                                         *)
Perform(data, kernels, t) ==
  LET after[i \in 0..Len(kernels)] ==
        IF i = 0 THEN [data |-> data, used |-> {}]
        ELSE LET before == after[i - 1]
                 k == kernels[i]
             IN [data |-> Write(before.data, k.writes, Label(before.data, k, t)),
                 used |-> before.used \cup Uses(before.data, k, t)]
  IN after[Len(kernels)]

(* One sequence of kernels for each element of a list of objects. *)
ForEach(list, Kernels(_)) == FlattenSeq([i \in DOMAIN list |-> Kernels(list[i])])

If(condition, kernels) == IF condition THEN kernels ELSE << >>

-----------------------------------------------------------------------------
(* The operations of Field and field_ops on whole fields *)

Copy(to, from) == Compute("copy", {from}, {to})

CopyState(f, to, from) == Copy(<< f, to >>, << f, from >>)

(* Field::advance_states with the two states of both schemes.              *)
AdvanceStates(f) == << CopyState(f, "Old", "New") >>

(* lincomb(NPH, 0.5, Old, 0.5, New) *)
Midpoint(f) == Kernel("lincomb", {Old(f), New(f)}, {NPH(f)}, "mean")

SetVal(op, slots) == Kernel(op, {}, slots, "zero")

Initial(op, fs) == Kernel(op, {}, States(fs, "New"), "start")

(* add, saxpy, divide: y is updated with x. *)
Update(op, y, x) == Compute(op, {x, y}, {y})

=============================================================================
