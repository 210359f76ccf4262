------------------------------ MODULE W2AProofs ------------------------------
(***************************************************************************)
(* Theorems about the ocean waves that are read from a modes file, for     *)
(* every file, number of processors and sequence of steps and restarts.    *)
(***************************************************************************)
EXTENDS W2AWaves, IntervalLemmas, TLAPS

USE ModesAssumption

-----------------------------------------------------------------------------
(* The steps of the file. *)

(* A time lies after the step before its step, and not after its step.     *)
LEMMA StepOfTime ==
  ASSUME NEW time \in Nat
  PROVE  LET n == time2step(time)
         IN  /\ n \in Int /\ n >= 0
             /\ dt_modes * (n - 1) < time /\ time <= dt_modes * n
<1> DEFINE n == time2step(time)
           r == (time + dt_modes - 1) % dt_modes
<1>1. /\ dt_modes \in Int /\ dt_modes > 0 /\ time + dt_modes - 1 \in Int
      /\ time \in Int /\ time >= 0
  OBVIOUS
<1>2. /\ n \in Int /\ r \in Int /\ 0 <= r /\ r < dt_modes
      /\ time + dt_modes - 1 = (dt_modes * n) + r
  BY <1>1, QuotientRemainder, RemainderRange DEF time2step
<1> HIDE DEF n, r
<1>3. dt_modes * (n - 1) = (dt_modes * n) - dt_modes
  BY <1>1, <1>2
<1>4. dt_modes * (n - 1) < time /\ time <= dt_modes * n
  BY <1>1, <1>2, <1>3
<1>5. n >= 0
  <2>1. ~(n <= -1)
    <3> SUFFICES ASSUME n <= -1 PROVE FALSE
      OBVIOUS
    <3>1. -n \in Int /\ -n >= 1
      BY <1>2
    <3>2. dt_modes * (-n) >= dt_modes
      BY <1>1, <3>1, MultipleAtLeastOne
    <3>3. dt_modes * n = -(dt_modes * (-n))
      BY <1>1, <1>2
    <3>4. time <= dt_modes * n /\ dt_modes * n \in Int
      BY <1>1, <1>2, <1>4
    <3> DEFINE y == dt_modes * (-n)
               z == dt_modes * n
    <3> HIDE DEF y, z
    <3>5. z = -y /\ y >= dt_modes /\ y \in Int /\ z \in Int
      <4>1. z = -y
        BY <3>3 DEF y, z
      <4>2. y >= dt_modes
        BY <3>2 DEF y
      <4>3. y \in Int
        BY <1>1, <3>1 DEF y
      <4>4. z \in Int
        BY <3>4 DEF z
      <4>5. QED
        BY <4>1, <4>2, <4>3, <4>4
    <3>6. z < 0
      BY <1>1, <3>5
    <3>7. time <= z
      BY <3>4 DEF z
    <3>8. QED
      BY <1>1, <3>5, <3>6, <3>7
  <2>2. QED
    BY <1>2, <2>1
<1>6. QED
  BY <1>2, <1>4, <1>5 DEF n

-----------------------------------------------------------------------------
(* What an update does to wdata. *)

LEMMA EvaluatedData ==
  ASSUME NEW o, NEW w \in WData(o), NEW n \in Int, NEW time \in Int
  PROVE  LET v == evaluate_read_resize(w, n, time).w
         IN  /\ v \in WData(o)
             /\ v.ntime = n /\ v.t_last = time
             /\ v.t = IF n # w.ntime THEN n * dt_modes - w.t_winit ELSE w.t
             /\ v.resize_flag = (w.resize_flag \/ w.t_last <= 0)
             /\ v.n_winit = w.n_winit /\ v.t_winit = w.t_winit
             /\ v.do_interp = w.do_interp /\ v.regrid_occurred = w.regrid_occurred
<1> DEFINE wtime == IF n # w.ntime THEN n * dt_modes - w.t_winit ELSE w.t
           flag == w.resize_flag \/ w.t_last <= 0
           v == evaluate_read_resize(w, n, time).w
<1>1. wtime \in Int /\ flag \in BOOLEAN
  BY DEF WData
<1>2. v = [w EXCEPT !.ntime = n, !.t = wtime, !.t_last = time, !.resize_flag = flag]
  BY DEF evaluate_read_resize
<1> HIDE DEF wtime, flag, v
<1>3. v \in WData(o)
  BY <1>1, <1>2 DEF WData
<1>4. v.ntime = n /\ v.t_last = time /\ v.t = wtime /\ v.resize_flag = flag
  BY <1>1, <1>2 DEF WData
<1>5. /\ v.n_winit = w.n_winit /\ v.t_winit = w.t_winit
      /\ v.do_interp = w.do_interp /\ v.regrid_occurred = w.regrid_occurred
  BY <1>1, <1>2 DEF WData
<1>6. QED
  BY <1>3, <1>4, <1>5 DEF v, wtime, flag

(* Where it reads, the processors that read are those that need the waves, *)
(* if that may have changed.                                               *)
LEMMA ReaderData ==
  ASSUME NEW o, NEW w \in WData(o), overlap \in [Ranks -> BOOLEAN]
  PROVE  LET v == ReduceOffset(Resize(CheckStop(w)))
         IN  /\ v \in WData(v.n_offset)
             /\ v.ntime = w.ntime /\ v.t_last = w.t_last /\ v.t = w.t
             /\ v.n_winit = w.n_winit /\ v.t_winit = w.t_winit
             /\ v.regrid_occurred = w.regrid_occurred
             /\ v.resize_flag = FALSE
             /\ v.do_interp = IF w.resize_flag THEN overlap ELSE w.do_interp
             /\ v.n_offset = [r \in Ranks |-> Max({CheckStop(w).n_offset[s] : s \in Ranks})]
<1> DEFINE c == CheckStop(w)
           z == Resize(c)
           v == ReduceOffset(z)
<1>1. /\ c \in WData(c.n_offset)
      /\ c.ntime = w.ntime /\ c.t_last = w.t_last /\ c.t = w.t
      /\ c.n_winit = w.n_winit /\ c.t_winit = w.t_winit
      /\ c.regrid_occurred = w.regrid_occurred
      /\ c.resize_flag = w.resize_flag /\ c.do_interp = w.do_interp
  BY DEF WData, CheckStop
<1>2. DOMAIN c.n_offset = Ranks
  BY DEF WData, CheckStop
<1> HIDE DEF c
<1>3. /\ z \in WData(c.n_offset) /\ z.n_offset = c.n_offset
      /\ z.ntime = w.ntime /\ z.t_last = w.t_last /\ z.t = w.t
      /\ z.n_winit = w.n_winit /\ z.t_winit = w.t_winit
      /\ z.regrid_occurred = w.regrid_occurred
      /\ z.resize_flag = FALSE
      /\ z.do_interp = IF w.resize_flag THEN overlap ELSE w.do_interp
  BY <1>1 DEF WData, Resize
<1> HIDE DEF z
<1> DEFINE offsets == [r \in Ranks |-> Max({z.n_offset[s] : s \in Ranks})]
<1>4. v = [z EXCEPT !.n_offset = offsets]
  BY DEF ReduceOffset
<1>5. offsets = [r \in Ranks |-> Max({c.n_offset[s] : s \in Ranks})]
  BY <1>3
<1> HIDE DEF offsets, v
<1>6. /\ v \in WData(v.n_offset) /\ v.n_offset = offsets
      /\ v.ntime = z.ntime /\ v.t_last = z.t_last /\ v.t = z.t
      /\ v.n_winit = z.n_winit /\ v.t_winit = z.t_winit
      /\ v.regrid_occurred = z.regrid_occurred
      /\ v.resize_flag = z.resize_flag /\ v.do_interp = z.do_interp
  BY <1>3, <1>4 DEF WData
<1>7. QED
  BY <1>3, <1>5, <1>6 DEF c, z, v

(* The data that an update reads with, and what each processor gets.       *)
StepAt(time) == time2step(time + wdata.t_winit)
Evaluated(time) == evaluate_read_resize(wdata, StepAt(time), time)
Reads(time) == Evaluated(time).read
Flagged(time) ==
  LET w == Evaluated(time).w IN [w EXCEPT !.resize_flag = @ \/ w.regrid_occurred]
ReadsWith(time) == ReduceOffset(Resize(CheckStop(Flagged(time))))
Got(time, r) == ReadFields(ReadsWith(time), r, Evaluated(time).double_data)

(* The two waves between which is interpolated, and the time of the first. *)
From(time, r) == IF Reads(time) THEN Got(time, r).old ELSE field[r].old
Towards(time, r) == IF Reads(time) THEN Got(time, r).new ELSE field[r].new
TimeBefore(time) ==
  IF Reads(time) THEN (Evaluated(time).w.ntime - 1) * dt_modes ELSE wdata.t_last
Target(time, r) ==
  time_interpolate_wave_fields(From(time, r), Towards(time, r), TimeBefore(time), time,
                               Evaluated(time).w.t)

LEMMA FlaggedData ==
  ASSUME W2ATypeOK, NEW time \in Int, StepAt(time) \in Int
  PROVE  LET w == Flagged(time)
         IN  /\ w \in WData(wdata.n_offset)
             /\ w.ntime = StepAt(time) /\ w.t_last = time
             /\ w.t = IF StepAt(time) # wdata.ntime
                      THEN StepAt(time) * dt_modes - wdata.t_winit ELSE wdata.t
             /\ w.resize_flag =
                  (wdata.resize_flag \/ wdata.t_last <= 0 \/ wdata.regrid_occurred)
             /\ w.n_winit = wdata.n_winit /\ w.t_winit = wdata.t_winit
             /\ w.do_interp = wdata.do_interp /\ w.regrid_occurred = wdata.regrid_occurred
             /\ w.n_offset = wdata.n_offset
<1> DEFINE v == Evaluated(time).w
           n == StepAt(time)
           o == wdata.n_offset
           w == Flagged(time)
<1>1. wdata \in WData(o)
  BY DEF W2ATypeOK
<1>2. v = evaluate_read_resize(wdata, n, time).w
  BY DEF Evaluated
<1> HIDE DEF v
<1>3. /\ v \in WData(o)
      /\ v.ntime = n /\ v.t_last = time
      /\ v.t = IF n # wdata.ntime THEN n * dt_modes - wdata.t_winit ELSE wdata.t
      /\ v.resize_flag = (wdata.resize_flag \/ wdata.t_last <= 0)
      /\ v.n_winit = wdata.n_winit /\ v.t_winit = wdata.t_winit
      /\ v.do_interp = wdata.do_interp /\ v.regrid_occurred = wdata.regrid_occurred
  BY <1>1, <1>2, EvaluatedData
<1> DEFINE flag == v.resize_flag \/ v.regrid_occurred
<1>4. w = [v EXCEPT !.resize_flag = flag]
  BY DEF Flagged, v
<1>5. flag \in BOOLEAN
  BY <1>3 DEF WData
<1>6. flag = (wdata.resize_flag \/ wdata.t_last <= 0 \/ wdata.regrid_occurred)
  BY <1>3
<1> HIDE DEF flag, w
<1>7. /\ w \in WData(o) /\ w.resize_flag = flag
      /\ w.ntime = v.ntime /\ w.t_last = v.t_last /\ w.t = v.t
      /\ w.n_winit = v.n_winit /\ w.t_winit = v.t_winit
      /\ w.do_interp = v.do_interp /\ w.regrid_occurred = v.regrid_occurred
      /\ w.n_offset = o
  BY <1>3, <1>4, <1>5 DEF WData
<1>8. QED
  BY <1>3, <1>6, <1>7 DEF w

LEMMA ReadsWithData ==
  ASSUME W2ATypeOK, NEW time \in Int, StepAt(time) \in Int
  PROVE  LET v == ReadsWith(time)
             w == Flagged(time)
         IN  /\ v \in WData(v.n_offset)
             /\ v.ntime = w.ntime /\ v.t_last = w.t_last /\ v.t = w.t
             /\ v.n_winit = w.n_winit /\ v.t_winit = w.t_winit
             /\ v.regrid_occurred = w.regrid_occurred
             /\ v.resize_flag = FALSE
             /\ v.do_interp = IF w.resize_flag THEN overlap ELSE w.do_interp
<1>1. Flagged(time) \in WData(wdata.n_offset)
  BY FlaggedData
<1>2. overlap \in [Ranks -> BOOLEAN]
  BY DEF W2ATypeOK, Overlaps
<1>3. QED
  BY <1>1, <1>2, ReaderData DEF ReadsWith

LEMMA ReadsWithOffset ==
  ASSUME W2ATypeOK, NEW time \in Int, StepAt(time) \in Int
  PROVE  ReadsWith(time).n_offset =
           [r \in Ranks |-> Max({CheckStop(Flagged(time)).n_offset[s] : s \in Ranks})]
<1>1. Flagged(time) \in WData(wdata.n_offset)
  BY FlaggedData
<1>2. overlap \in [Ranks -> BOOLEAN]
  BY DEF W2ATypeOK, Overlaps
<1>3. QED
  BY <1>1, <1>2, ReaderData DEF ReadsWith

(* When it reads, and between which times it interpolates. *)
LEMMA UpdateTimes ==
  ASSUME W2ATypeOK, NEW time \in Int, StepAt(time) \in Int
  PROVE  /\ Reads(time) <=> (StepAt(time) # wdata.ntime \/ wdata.t_last <= 0)
         /\ Evaluated(time).w.t = Flagged(time).t
         /\ TimeBefore(time) =
              IF Reads(time) THEN (StepAt(time) - 1) * dt_modes ELSE wdata.t_last
<1>1. wdata \in WData(wdata.n_offset)
  BY DEF W2ATypeOK
<1>2. Evaluated(time).w.ntime = StepAt(time)
      /\ Evaluated(time).w.t = IF StepAt(time) # wdata.ntime
                    THEN StepAt(time) * dt_modes - wdata.t_winit ELSE wdata.t
  BY <1>1, EvaluatedData DEF Evaluated
<1>3. Evaluated(time).w.t = Flagged(time).t
  BY <1>2, FlaggedData
<1>4. Reads(time) <=> (StepAt(time) # wdata.ntime \/ wdata.t_last <= 0)
  BY DEF Reads, Evaluated, evaluate_read_resize
<1>5. QED
  BY <1>2, <1>3, <1>4 DEF TimeBefore

(* An update of the targets, in these terms. *)
LEMMA UpdateParts ==
  ASSUME NEW time
  PROVE  LET u == Update(time)
         IN  /\ u.read = Reads(time)
             /\ u.ok = (Reads(time) => \A r \in Ranks : Got(time, r).ok)
             /\ u.wdata = IF Reads(time)
                  THEN [ReadsWith(time) EXCEPT !.n_offset = [r \in Ranks |-> Got(time, r).n_offset]]
                  ELSE Flagged(time)
             /\ \A r \in Ranks : /\ u.field[r].new = Towards(time, r)
                                 /\ u.field[r].old = Target(time, r)
                                 /\ u.field[r].target = Target(time, r)
             /\ u.astray = (Reads(time) /\
                  \/ Evaluated(time).double_data # 0
                     /\ [r \in Ranks |-> Got(time, r).n_offset] # wdata.n_offset
                  \/ \E r, s \in Ranks : Got(time, r).n_offset # Got(time, s).n_offset)
<1> DEFINE got == [r \in Ranks |-> Got(time, r)]
           in == IF Reads(time) THEN got ELSE field
           offsets == [r \in Ranks |-> got[r].n_offset]
           t_last == IF Reads(time) THEN (Evaluated(time).w.ntime - 1) * dt_modes ELSE wdata.t_last
           target == [r \in Ranks |->
             time_interpolate_wave_fields(in[r].old, in[r].new, t_last, time, Evaluated(time).w.t)]
           fields == [r \in Ranks |->
             [old |-> target[r], new |-> in[r].new, target |-> target[r]]]
<1>1. Update(time) =
        [read |-> Reads(time),
         ok |-> Reads(time) => \A r \in Ranks : got[r].ok,
         wdata |-> IF Reads(time) THEN [ReadsWith(time) EXCEPT !.n_offset = offsets] ELSE Flagged(time),
         field |-> fields,
         astray |-> Reads(time) /\
           \/ Evaluated(time).double_data # 0 /\ offsets # wdata.n_offset
           \/ \E r, s \in Ranks : offsets[r] # offsets[s]]
  BY DEF Update, Evaluated, StepAt, Flagged, ReadsWith, Got, Reads
<1>2. \A r \in Ranks : in[r].old = From(time, r) /\ in[r].new = Towards(time, r)
  BY DEF From, Towards
<1>3. \A r \in Ranks : got[r] = Got(time, r)
  OBVIOUS
<1>4. offsets = [r \in Ranks |-> Got(time, r).n_offset]
  BY <1>3
<1> HIDE DEF got, in
<1>5. \A r \in Ranks : target[r] = Target(time, r)
  BY <1>2 DEF Target, TimeBefore
<1> HIDE DEF target
<1>6. \A r \in Ranks : /\ fields[r].new = Towards(time, r)
                       /\ fields[r].old = Target(time, r)
                       /\ fields[r].target = Target(time, r)
  BY <1>2, <1>5
<1>7. \A r \in Ranks : offsets[r] = Got(time, r).n_offset
  BY <1>4
<1> HIDE DEF offsets, fields
<1>8. Update(time).read = Reads(time) /\ Update(time).field = fields
  BY <1>1
<1>9. Update(time).ok = (Reads(time) => \A r \in Ranks : Got(time, r).ok)
  BY <1>1, <1>3
<1>10. Update(time).wdata =
         IF Reads(time)
         THEN [ReadsWith(time) EXCEPT !.n_offset = [r \in Ranks |-> Got(time, r).n_offset]]
         ELSE Flagged(time)
  BY <1>1, <1>4
<1>11. Update(time).astray = (Reads(time) /\
                  \/ Evaluated(time).double_data # 0
                     /\ [r \in Ranks |-> Got(time, r).n_offset] # wdata.n_offset
                  \/ \E r, s \in Ranks : Got(time, r).n_offset # Got(time, s).n_offset)
  BY <1>1, <1>4, <1>7
<1>12. QED
  BY <1>6, <1>8, <1>9, <1>10, <1>11

-----------------------------------------------------------------------------
(* Types and times. *)

(* An update is made for a time after that of the last one, or for that at *)
(* which the run begins.                                                   *)
Due(time) ==
  \/ stage = "post_init" /\ time = cur_time
  \/ stage \in {"evolve", "regridded", "predictor"} /\ time > wdata.t_last

LEMMA W2ATypes ==
  ASSUME W2ATypeOK
  PROVE  /\ dt_modes \in Nat /\ dt_modes >= 1
         /\ last_in_file \in Nat /\ n_wstop \in Nat /\ last_in_file <= n_wstop
         /\ wdata.n_winit \in Nat /\ wdata.n_winit <= last_in_file
         /\ wdata.ntime \in Int /\ wdata.t \in Int /\ wdata.t_last \in Int
         /\ wdata.t_winit \in Int
         /\ wdata.resize_flag \in BOOLEAN /\ wdata.regrid_occurred \in BOOLEAN
         /\ wdata.do_interp \in [Ranks -> BOOLEAN] /\ overlap \in [Ranks -> BOOLEAN]
         /\ cur_time \in Nat /\ new_time \in Nat
<1>1. dt_modes \in Nat /\ dt_modes >= 1 /\ n_wstop \in Nat
  OBVIOUS
<1>2. last_in_file \in 0..n_wstop
  BY DEF W2ATypeOK
<1>3. /\ wdata.n_winit \in InitSteps
      /\ wdata.ntime \in Int /\ wdata.t \in Int /\ wdata.t_last \in Int
      /\ wdata.t_winit \in Int
      /\ wdata.resize_flag \in BOOLEAN /\ wdata.regrid_occurred \in BOOLEAN
      /\ wdata.do_interp \in [Ranks -> BOOLEAN]
  BY DEF W2ATypeOK, WData
<1>4. wdata.n_winit \in 0..last_in_file
  BY <1>3 DEF W2ATypeOK
<1>5. overlap \in [Ranks -> BOOLEAN] /\ cur_time \in Nat /\ new_time \in Nat
  BY DEF W2ATypeOK, Overlaps
<1>6. QED
  BY <1>1, <1>2, <1>3, <1>4, <1>5

LEMMA WinitTime ==
  ASSUME W2ATypeOK, TimesInv
  PROVE  wdata.t_winit \in Nat /\ wdata.t_winit = dt_modes * wdata.n_winit
<1>1. dt_modes * wdata.n_winit \in Nat
  BY W2ATypes
<1>2. QED
  BY <1>1 DEF TimesInv

(* The step that an update is made with.                                   *)
LEMMA StepReached ==
  ASSUME W2ATypeOK, TimesInv, NEW time \in Nat, Due(time)
  PROVE  /\ StepAt(time) \in Int /\ StepAt(time) >= wdata.ntime
         /\ dt_modes * (StepAt(time) - 1) < time + wdata.t_winit
         /\ time + wdata.t_winit <= dt_modes * StepAt(time)
         /\ Flagged(time).t = dt_modes * StepAt(time) - wdata.t_winit
         /\ ~Reads(time) =>
              StepAt(time) = wdata.ntime /\ wdata.t_last > 0 /\ stage # "post_init"
<1> DEFINE n == StepAt(time)
<1>1. wdata.t_winit \in Nat /\ time + wdata.t_winit \in Nat
  BY WinitTime
<1>2. /\ n \in Int /\ n >= 0
      /\ dt_modes * (n - 1) < time + wdata.t_winit /\ time + wdata.t_winit <= dt_modes * n
  BY <1>1, StepOfTime DEF StepAt
<1>3. n >= wdata.ntime
  <2>1. CASE stage = "post_init"
    <3>1. wdata.ntime = wdata.n_winit
      BY <2>1 DEF TimesInv
    <3>2. ~(n <= wdata.n_winit - 1)
      <4> SUFFICES ASSUME n <= wdata.n_winit - 1 PROVE FALSE
        OBVIOUS
      <4>1. dt_modes * n <= dt_modes * wdata.n_winit - dt_modes
        <5>1. wdata.n_winit - n \in Int /\ wdata.n_winit - n >= 1
          BY <1>2, W2ATypes
        <5>2. dt_modes * (wdata.n_winit - n) >= dt_modes
          BY <5>1, MultipleAtLeastOne, W2ATypes
        <5>3. dt_modes * (wdata.n_winit - n) = dt_modes * wdata.n_winit - dt_modes * n
          BY <1>2, W2ATypes
        <5>4. dt_modes * n \in Int /\ dt_modes * wdata.n_winit \in Int
          BY <1>2, W2ATypes
        <5>5. QED
          BY <5>2, <5>3, <5>4
      <4>2. dt_modes * n <= wdata.t_winit - dt_modes /\ dt_modes * n \in Int
        BY <1>2, <4>1, WinitTime, W2ATypes
      <4>3. QED
        BY <1>1, <1>2, <4>2, W2ATypes
    <3>3. QED
      BY <1>2, <3>1, <3>2, W2ATypes
  <2>2. CASE stage # "post_init"
    <3>1. wdata.t_last >= 0 /\ wdata.ntime = time2step(wdata.t_last + wdata.t_winit)
          /\ wdata.t_last < time
      BY <2>2 DEF Due, TimesInv
    <3> DEFINE x == wdata.t_last + wdata.t_winit + dt_modes - 1
               y == time + wdata.t_winit + dt_modes - 1
    <3>2. x \in Int /\ y \in Int /\ x <= y /\ dt_modes \in Int /\ dt_modes > 0
      BY <1>1, <3>1, W2ATypes
    <3>3. x \div dt_modes <= y \div dt_modes
      BY <3>2, QuotientMonotone
    <3>4. QED
      BY <3>1, <3>3 DEF StepAt, time2step
  <2>3. QED
    BY <2>1, <2>2
<1>4. Flagged(time).t = dt_modes * n - wdata.t_winit
  <2>1. Flagged(time).t = IF n # wdata.ntime THEN n * dt_modes - wdata.t_winit ELSE wdata.t
    BY <1>2, FlaggedData
  <2>2. n * dt_modes = dt_modes * n
    BY <1>2, W2ATypes
  <2>3. wdata.t = dt_modes * wdata.ntime - wdata.t_winit
    BY DEF TimesInv
  <2>4. QED
    BY <2>1, <2>2, <2>3
<1>5. ~Reads(time) => n = wdata.ntime /\ wdata.t_last > 0 /\ stage # "post_init"
  <2>1. ~Reads(time) => n = wdata.ntime /\ ~(wdata.t_last <= 0)
    BY <1>2, UpdateTimes
  <2>2. stage = "post_init" => wdata.t_last <= 0
    BY DEF TimesInv, NotYet
  <2>3. QED
    BY <2>1, <2>2, W2ATypes
<1>6. QED
  BY <1>2, <1>3, <1>4, <1>5

(* What is known of wdata after an update.                                 *)
LEMMA UpdatedData ==
  ASSUME W2ATypeOK, TimesInv, NEW time \in Nat, Due(time), NEW next,
         UpdateTargetFields(time, next)
  PROVE  /\ wdata' \in WData(wdata'.n_offset)
         /\ wdata'.n_winit = wdata.n_winit /\ wdata'.t_winit = wdata.t_winit
         /\ wdata'.ntime = StepAt(time) /\ wdata'.t_last = time
         /\ wdata'.t = dt_modes * StepAt(time) - wdata.t_winit
         /\ wdata'.regrid_occurred = wdata.regrid_occurred
         /\ LET moved == wdata.resize_flag \/ wdata.t_last <= 0 \/ wdata.regrid_occurred
            IN  IF Reads(time)
                THEN wdata'.do_interp = IF moved THEN overlap ELSE wdata.do_interp
                ELSE wdata'.do_interp = wdata.do_interp /\ wdata'.resize_flag = moved
         /\ asked' = time
<1> DEFINE n == StepAt(time)
           moved == wdata.resize_flag \/ wdata.t_last <= 0 \/ wdata.regrid_occurred
           v == ReadsWith(time)
           w == Flagged(time)
           offsets == [r \in Ranks |-> Got(time, r).n_offset]
<1>1. n \in Int /\ w.t = dt_modes * n - wdata.t_winit
  BY StepReached
<1>2. wdata' = IF Reads(time) THEN [v EXCEPT !.n_offset = offsets] ELSE w
  BY UpdateParts DEF UpdateTargetFields
<1>3. /\ w \in WData(w.n_offset)
      /\ w.ntime = n /\ w.t_last = time
      /\ w.resize_flag = moved
      /\ w.n_winit = wdata.n_winit /\ w.t_winit = wdata.t_winit
      /\ w.do_interp = wdata.do_interp /\ w.regrid_occurred = wdata.regrid_occurred
  BY <1>1, FlaggedData
<1>4. /\ v \in WData(v.n_offset)
      /\ v.ntime = w.ntime /\ v.t_last = w.t_last /\ v.t = w.t
      /\ v.n_winit = w.n_winit /\ v.t_winit = w.t_winit
      /\ v.regrid_occurred = w.regrid_occurred
      /\ v.do_interp = IF w.resize_flag THEN overlap ELSE w.do_interp
  <2>1. StepAt(time) \in Int /\ time \in Int
    BY <1>1
  <2>2. QED
    BY <2>1, ReadsWithData, Zenon
<1> HIDE DEF v, w, offsets, n, moved
<1>5. CASE Reads(time)
  <2>1. wdata' = [v EXCEPT !.n_offset = offsets]
    BY <1>2, <1>5
  <2>2. /\ wdata' \in WData(offsets) /\ wdata'.n_offset = offsets
        /\ wdata'.ntime = v.ntime /\ wdata'.t_last = v.t_last /\ wdata'.t = v.t
        /\ wdata'.n_winit = v.n_winit /\ wdata'.t_winit = v.t_winit
        /\ wdata'.regrid_occurred = v.regrid_occurred
        /\ wdata'.do_interp = v.do_interp
    BY <1>4, <2>1 DEF WData
  <2>3. asked' = time
    BY DEF UpdateTargetFields
  <2>4. QED
    BY <1>1, <1>3, <1>4, <1>5, <2>2, <2>3 DEF n, moved
<1>6. CASE ~Reads(time)
  <2>1. wdata' = w /\ asked' = time
    BY <1>2, <1>6 DEF UpdateTargetFields
  <2>2. QED
    BY <1>1, <1>3, <1>6, <2>1 DEF n, moved
<1>7. QED
  BY <1>5, <1>6

(* An update keeps types and times.                                        *)
LEMMA UpdateKeepsTypes ==
  ASSUME W2ATypeOK, TimesInv, NEW time \in Nat, Due(time), NEW next,
         UpdateTargetFields(time, next)
  PROVE  /\ wdata' \in WData(wdata'.n_offset)
         /\ asked' \in Nat /\ fresh' \in 0..2 /\ astray' \in BOOLEAN
         /\ stage' \in {next, "aborted"}
<1>1. wdata' \in WData(wdata'.n_offset)
  BY UpdatedData
<1>2. asked' \in Nat /\ stage' \in {next, "aborted"}
  BY DEF UpdateTargetFields
<1>3. fresh' \in 0..2
  <2>1. fresh' = IF Update(time).read /\ fresh < 2 THEN fresh + 1 ELSE fresh
    BY DEF UpdateTargetFields
  <2>2. fresh \in 0..2
    BY DEF W2ATypeOK
  <2>3. QED
    BY <2>1, <2>2
<1>4. astray' \in BOOLEAN
  BY DEF UpdateTargetFields
<1>5. QED
  BY <1>1, <1>2, <1>3, <1>4

LEMMA UpdateKeepsTimes ==
  ASSUME W2ATypeOK, TimesInv, NEW time \in Nat, Due(time), NEW next,
         UpdateTargetFields(time, next)
  PROVE  /\ wdata'.t_winit = dt_modes * wdata'.n_winit
         /\ wdata'.t = dt_modes * wdata'.ntime - wdata'.t_winit
         /\ wdata'.t_last = time /\ wdata'.t_last >= 0 /\ asked' = time
         /\ wdata'.ntime = time2step(wdata'.t_last + wdata'.t_winit)
<1>1. /\ wdata'.n_winit = wdata.n_winit /\ wdata'.t_winit = wdata.t_winit
      /\ wdata'.ntime = StepAt(time) /\ wdata'.t_last = time
      /\ wdata'.t = dt_modes * StepAt(time) - wdata.t_winit
      /\ asked' = time
  BY UpdatedData
<1>2. wdata.t_winit = dt_modes * wdata.n_winit
  BY DEF TimesInv
<1>3. wdata'.ntime = time2step(wdata'.t_last + wdata'.t_winit)
  BY <1>1 DEF StepAt
<1>4. QED
  BY <1>1, <1>2, <1>3

LEMMA UpdateKeepsReaders ==
  ASSUME W2ATypeOK, TimesInv, ReadersInv, NEW time \in Nat, Due(time), NEW next,
         UpdateTargetFields(time, next), overlap' = overlap
  PROVE  ReadersInv'
<1> DEFINE moved == wdata.resize_flag \/ wdata.t_last <= 0 \/ wdata.regrid_occurred
<1>1. \A r \in Ranks : overlap[r] => wdata.do_interp[r] \/ moved
  BY DEF ReadersInv, Due
<1>2. IF Reads(time)
      THEN wdata'.do_interp = IF moved THEN overlap ELSE wdata.do_interp
      ELSE wdata'.do_interp = wdata.do_interp /\ wdata'.resize_flag = moved
  BY UpdatedData
<1> HIDE DEF moved
<1>3. \A r \in Ranks : overlap'[r] => wdata'.do_interp[r] \/ wdata'.resize_flag
  BY <1>1, <1>2
<1>4. QED
  BY <1>3 DEF ReadersInv

-----------------------------------------------------------------------------
(* The times of the updates. *)

LEMMA PreAdvanceTime ==
  ASSUME W2ATypeOK, TimesInv, NEW dt \in TimeSteps, stage \in {"evolve", "regridded"}
  PROVE  /\ cur_time + dt \div 2 \in Nat /\ cur_time + dt \in Nat
         /\ cur_time < cur_time + dt \div 2 /\ cur_time + dt \div 2 < cur_time + dt
         /\ Due(cur_time + dt \div 2)
<1>1. dt \in Nat /\ dt >= 1 /\ dt % 2 = 0 /\ cur_time \in Nat
  BY W2ATypes
<1>2. dt \div 2 \in Int /\ dt = 2 * (dt \div 2)
  BY <1>1, QuotientRemainder
<1>3. dt \div 2 >= 1 /\ dt \div 2 < dt
  BY <1>1, <1>2
<1>4. wdata.t_last = cur_time
  BY DEF TimesInv
<1>5. QED
  BY <1>1, <1>2, <1>3, <1>4 DEF Due

LEMMA PrePredictorTime ==
  ASSUME W2ATypeOK, TimesInv, stage = "predictor"
  PROVE  new_time \in Nat /\ Due(new_time) /\ cur_time < new_time
BY W2ATypes DEF TimesInv, Due

LEMMA PostInitTime ==
  ASSUME W2ATypeOK, stage = "post_init"
  PROVE  cur_time \in Nat /\ Due(cur_time)
BY W2ATypes DEF Due

-----------------------------------------------------------------------------
(* Types, times and readers over every step. *)

LEMMA FirstData ==
  ASSUME NEW step \in InitSteps, LastSteps # {}
  PROVE  LET w == read_inputs(step)
         IN  /\ w \in WData(w.n_offset)
             /\ w.ntime = step /\ w.n_winit = step /\ w.t_winit = dt_modes * step
             /\ w.t = 0 /\ w.t_last = NotYet
             /\ w.do_interp = [r \in Ranks |-> TRUE]
             /\ w.n_offset = [r \in Ranks |-> 0]
             /\ step \in Nat /\ step <= n_wstop
<1> DEFINE zeros == [r \in Ranks |-> 0]
           all == [r \in Ranks |-> TRUE]
           c == [ntime |-> step, n_winit |-> step, t_winit |-> dt_modes * step,
                 n_offset |-> zeros, t |-> 0, t_last |-> NotYet,
                 do_interp |-> all, resize_flag |-> FALSE, regrid_occurred |-> FALSE]
           w == read_inputs(step)
<1>1. step \in Nat /\ step <= n_wstop /\ dt_modes * step \in Int
  <2>1. PICK last \in LastSteps : TRUE
    OBVIOUS
  <2>2. last \in 0..n_wstop /\ step \in 0..last /\ n_wstop \in Nat /\ dt_modes \in Nat
    OBVIOUS
  <2>3. step \in Nat /\ step <= n_wstop
    BY <2>2
  <2>4. QED
    BY <2>2, <2>3
<1> DEFINE offsets == [r \in Ranks |-> IF step + zeros[r] > n_wstop
                                       THEN update_offset_timestep(step, step) ELSE zeros[r]]
<1>2. w = [c EXCEPT !.n_offset = offsets]
  BY DEF read_inputs, CheckStop
<1>3. offsets = zeros
  BY <1>1
<1>4. all \in [Ranks -> BOOLEAN] /\ NotYet \in Int
  BY DEF NotYet
<1> HIDE DEF offsets, zeros, all
<1>5. w = [c EXCEPT !.n_offset = zeros]
  BY <1>2, <1>3
<1> HIDE DEF w
<1>6. /\ w.ntime = step /\ w.n_winit = step /\ w.t_winit = dt_modes * step
      /\ w.t = 0 /\ w.t_last = NotYet /\ w.do_interp = all /\ w.n_offset = zeros
  BY <1>5
<1>7. w \in WData(zeros)
  <2>1. w = c
    BY <1>5
  <2>2. c \in WData(zeros)
    BY <1>1, <1>4 DEF WData
  <2>3. QED
    BY <2>1, <2>2
<1>8. QED
  BY <1>1, <1>6, <1>7 DEF w, zeros, all

Steady == W2ATypeOK /\ TimesInv /\ ReadersInv

LEMMA InitSteady == Init => Steady
<1> SUFFICES ASSUME Init PROVE Steady
  OBVIOUS
<1>1. PICK step \in InitSteps : wdata = [read_inputs(step) EXCEPT !.t_last = 0]
  BY DEF Init
<1> DEFINE c == read_inputs(step)
<1>2. /\ c \in WData(c.n_offset)
      /\ c.ntime = step /\ c.n_winit = step /\ c.t_winit = dt_modes * step
      /\ c.t = 0 /\ c.do_interp = [r \in Ranks |-> TRUE] /\ step \in Nat
  BY FirstData DEF Init
<1>3. wdata = [c EXCEPT !.t_last = 0]
  BY <1>1
<1> HIDE DEF c
<1>4. /\ wdata \in WData(c.n_offset) /\ wdata.n_offset = c.n_offset
      /\ wdata.ntime = step /\ wdata.n_winit = step /\ wdata.t_winit = dt_modes * step
      /\ wdata.t = 0 /\ wdata.t_last = 0 /\ wdata.do_interp = [r \in Ranks |-> TRUE]
  BY <1>2, <1>3 DEF WData
<1>5. W2ATypeOK
  <2>1. wdata \in WData(wdata.n_offset)
    BY <1>4
  <2>2. /\ last_in_file \in LastSteps /\ stage = "post_init" /\ cur_time = 0 /\ new_time = 0
        /\ overlap \in Overlaps /\ asked = NotYet /\ saved = NotYet /\ fresh = 2
        /\ astray \in BOOLEAN
    BY DEF Init
  <2>3. QED
    BY <2>1, <2>2 DEF W2ATypeOK
<1>6. TimesInv
  <2>1. dt_modes * step \in Int /\ dt_modes * step - dt_modes * step = 0
    BY <1>2
  <2>2. wdata.t = dt_modes * wdata.ntime - wdata.t_winit
    BY <1>4, <2>1
  <2>3. stage = "post_init" /\ cur_time = 0 /\ asked = NotYet /\ saved = NotYet
    BY DEF Init
  <2>4. QED
    BY <1>4, <2>2, <2>3 DEF TimesInv
<1>7. ReadersInv
  BY <1>4 DEF ReadersInv
<1>8. QED
  BY <1>5, <1>6, <1>7 DEF Steady

LEMMA PostInitSteady == Steady /\ PostInit => Steady'
<1> SUFFICES ASSUME Steady, PostInit PROVE Steady'
  OBVIOUS
<1>1. /\ W2ATypeOK /\ TimesInv /\ ReadersInv /\ stage = "post_init"
      /\ UpdateTargetFields(cur_time, "evolve")
      /\ UNCHANGED << last_in_file, cur_time, new_time, overlap, saved >>
  BY DEF Steady, PostInit
<1>2. cur_time \in Nat /\ Due(cur_time)
  BY <1>1, PostInitTime
<1>3. /\ wdata' \in WData(wdata'.n_offset)
      /\ asked' \in Nat /\ fresh' \in 0..2 /\ astray' \in BOOLEAN
      /\ stage' \in {"evolve", "aborted"}
  BY <1>1, <1>2, UpdateKeepsTypes
<1>4. /\ wdata'.t_winit = dt_modes * wdata'.n_winit
      /\ wdata'.t = dt_modes * wdata'.ntime - wdata'.t_winit
      /\ wdata'.t_last = cur_time /\ wdata'.t_last >= 0 /\ asked' = cur_time
      /\ wdata'.ntime = time2step(wdata'.t_last + wdata'.t_winit)
  BY <1>1, <1>2, UpdateKeepsTimes
<1>5. W2ATypeOK'
  BY <1>1, <1>3 DEF W2ATypeOK
<1>6. TimesInv'
  BY <1>1, <1>3, <1>4 DEF TimesInv
<1>7. ReadersInv'
  BY <1>1, <1>2, UpdateKeepsReaders
<1>8. QED
  BY <1>5, <1>6, <1>7 DEF Steady

LEMMA PreAdvanceSteady == Steady /\ PreAdvance => Steady'
<1> SUFFICES ASSUME Steady, PreAdvance PROVE Steady'
  OBVIOUS
<1>1. PICK dt \in TimeSteps :
        new_time' = cur_time + dt /\ UpdateTargetFields(cur_time + dt \div 2, "predictor")
  BY DEF PreAdvance
<1>2. /\ W2ATypeOK /\ TimesInv /\ ReadersInv /\ stage \in {"evolve", "regridded"}
      /\ UNCHANGED << last_in_file, cur_time, overlap, saved >>
  BY DEF Steady, PreAdvance
<1> DEFINE time == cur_time + dt \div 2
<1>3. /\ time \in Nat /\ Due(time) /\ cur_time + dt \in Nat
      /\ time < cur_time + dt /\ cur_time < time
  BY <1>2, PreAdvanceTime
<1>4. UpdateTargetFields(time, "predictor")
  BY <1>1
<1>5. cur_time \in Nat
  BY <1>2, W2ATypes
<1> HIDE DEF time
<1>6. /\ wdata' \in WData(wdata'.n_offset)
      /\ asked' \in Nat /\ fresh' \in 0..2 /\ astray' \in BOOLEAN
      /\ stage' \in {"predictor", "aborted"}
  BY <1>2, <1>3, <1>4, UpdateKeepsTypes
<1>7. /\ wdata'.t_winit = dt_modes * wdata'.n_winit
      /\ wdata'.t = dt_modes * wdata'.ntime - wdata'.t_winit
      /\ wdata'.t_last = time /\ wdata'.t_last >= 0 /\ asked' = time
      /\ wdata'.ntime = time2step(wdata'.t_last + wdata'.t_winit)
  BY <1>2, <1>3, <1>4, UpdateKeepsTimes
<1>8. W2ATypeOK'
  BY <1>1, <1>2, <1>3, <1>6 DEF W2ATypeOK
<1>9. TimesInv'
  <2>1. wdata'.t_last < new_time' /\ cur_time' < new_time'
    BY <1>1, <1>2, <1>3, <1>5, <1>7
  <2>2. saved' # NotYet => saved' > 0
    BY <1>2 DEF TimesInv
  <2>3. QED
    BY <1>6, <1>7, <2>1, <2>2 DEF TimesInv
<1>10. ReadersInv'
  BY <1>2, <1>3, <1>4, UpdateKeepsReaders
<1>11. QED
  BY <1>8, <1>9, <1>10 DEF Steady

LEMMA PrePredictorSteady == Steady /\ PrePredictor => Steady'
<1> SUFFICES ASSUME Steady, PrePredictor PROVE Steady'
  OBVIOUS
<1>1. /\ W2ATypeOK /\ TimesInv /\ ReadersInv /\ stage = "predictor"
      /\ UpdateTargetFields(new_time, "post_advance")
      /\ UNCHANGED << last_in_file, cur_time, new_time, overlap, saved >>
  BY DEF Steady, PrePredictor
<1>2. new_time \in Nat /\ Due(new_time) /\ cur_time < new_time
  BY <1>1, PrePredictorTime
<1>3. /\ wdata' \in WData(wdata'.n_offset)
      /\ asked' \in Nat /\ fresh' \in 0..2 /\ astray' \in BOOLEAN
      /\ stage' \in {"post_advance", "aborted"}
  BY <1>1, <1>2, UpdateKeepsTypes
<1>4. /\ wdata'.t_winit = dt_modes * wdata'.n_winit
      /\ wdata'.t = dt_modes * wdata'.ntime - wdata'.t_winit
      /\ wdata'.t_last = new_time /\ wdata'.t_last >= 0 /\ asked' = new_time
      /\ wdata'.ntime = time2step(wdata'.t_last + wdata'.t_winit)
  BY <1>1, <1>2, UpdateKeepsTimes
<1>5. W2ATypeOK'
  BY <1>1, <1>3 DEF W2ATypeOK
<1>6. TimesInv'
  BY <1>1, <1>2, <1>3, <1>4 DEF TimesInv
<1>7. ReadersInv'
  BY <1>1, <1>2, UpdateKeepsReaders
<1>8. QED
  BY <1>5, <1>6, <1>7 DEF Steady

LEMMA RegridSteady == Steady /\ Regrid => Steady'
<1> SUFFICES ASSUME Steady, Regrid PROVE Steady'
  OBVIOUS
<1>1. /\ W2ATypeOK /\ TimesInv /\ stage = "evolve" /\ stage' = "regridded"
      /\ wdata' = [wdata EXCEPT !.regrid_occurred = TRUE]
      /\ overlap' \in Overlaps /\ fresh' = 0 /\ asked' = NotYet
      /\ UNCHANGED << last_in_file, cur_time, new_time, saved, astray >>
  BY DEF Steady, Regrid
<1>2. wdata \in WData(wdata.n_offset)
  BY <1>1 DEF W2ATypeOK
<1>3. /\ wdata' \in WData(wdata.n_offset) /\ wdata'.n_offset = wdata.n_offset
      /\ wdata'.ntime = wdata.ntime /\ wdata'.n_winit = wdata.n_winit
      /\ wdata'.t_winit = wdata.t_winit /\ wdata'.t = wdata.t /\ wdata'.t_last = wdata.t_last
      /\ wdata'.regrid_occurred = TRUE
  BY <1>1, <1>2 DEF WData
<1>4. W2ATypeOK'
  BY <1>1, <1>3 DEF W2ATypeOK
<1>5. TimesInv'
  BY <1>1, <1>3 DEF TimesInv
<1>6. ReadersInv'
  BY <1>1, <1>3 DEF ReadersInv
<1>7. QED
  BY <1>4, <1>5, <1>6 DEF Steady

LEMMA PostAdvanceData ==
  ASSUME W2ATypeOK, PostAdvance
  PROVE  /\ wdata' \in WData(wdata.n_offset) /\ wdata'.n_offset = wdata.n_offset
         /\ wdata'.ntime = wdata.ntime /\ wdata'.n_winit = wdata.n_winit
         /\ wdata'.t_winit = wdata.t_winit /\ wdata'.t = wdata.t
         /\ wdata'.t_last = wdata.t_last /\ wdata'.regrid_occurred = FALSE
         /\ wdata'.resize_flag = wdata.resize_flag /\ wdata'.do_interp = wdata.do_interp
<1>1. wdata \in WData(wdata.n_offset) /\ wdata' = [wdata EXCEPT !.regrid_occurred = FALSE]
  BY DEF W2ATypeOK, PostAdvance
<1>2. QED
  BY <1>1 DEF WData

LEMMA PostAdvanceSteady == Steady /\ PostAdvance => Steady'
<1> SUFFICES ASSUME Steady, PostAdvance PROVE Steady'
  OBVIOUS
<1>1. /\ W2ATypeOK /\ TimesInv /\ ReadersInv /\ stage = "post_advance" /\ stage' = "evolve"
      /\ cur_time' = new_time /\ saved' \in {saved, new_time}
      /\ UNCHANGED << last_in_file, new_time, overlap, asked, fresh, astray >>
  BY DEF Steady, PostAdvance
<1>2. /\ wdata' \in WData(wdata.n_offset) /\ wdata'.n_offset = wdata.n_offset
      /\ wdata'.ntime = wdata.ntime /\ wdata'.n_winit = wdata.n_winit
      /\ wdata'.t_winit = wdata.t_winit /\ wdata'.t = wdata.t
      /\ wdata'.t_last = wdata.t_last
      /\ wdata'.resize_flag = wdata.resize_flag /\ wdata'.do_interp = wdata.do_interp
  BY <1>1, PostAdvanceData
<1>3. new_time \in Nat /\ cur_time \in Nat /\ cur_time < new_time /\ wdata.t_last = new_time
  BY <1>1, W2ATypes DEF TimesInv
<1>4. W2ATypeOK'
  BY <1>1, <1>2, <1>3 DEF W2ATypeOK
<1>5. TimesInv'
  <2>1. saved' # NotYet => saved' > 0
    BY <1>1, <1>3 DEF TimesInv
  <2>2. /\ wdata.t_winit = dt_modes * wdata.n_winit
        /\ wdata.t = dt_modes * wdata.ntime - wdata.t_winit
        /\ wdata.t_last >= 0 /\ asked \in {NotYet, wdata.t_last}
        /\ wdata.ntime = time2step(wdata.t_last + wdata.t_winit)
    BY <1>1 DEF TimesInv
  <2>3. QED
    BY <1>1, <1>2, <1>3, <2>1, <2>2 DEF TimesInv
<1>6. ReadersInv'
  BY <1>1, <1>2 DEF ReadersInv
<1>7. QED
  BY <1>4, <1>5, <1>6 DEF Steady

LEMMA RestartData ==
  ASSUME W2ATypeOK, TimesInv, Restart
  PROVE  /\ wdata' \in WData(wdata'.n_offset)
         /\ wdata'.ntime = wdata.n_winit /\ wdata'.n_winit = wdata.n_winit
         /\ wdata'.t_winit = dt_modes * wdata.n_winit
         /\ wdata'.t = 0 /\ wdata'.t_last = NotYet
         /\ wdata'.do_interp = [r \in Ranks |-> TRUE]
         /\ wdata'.n_offset = [r \in Ranks |-> 0]
         /\ stage' = "post_init" /\ cur_time' = saved /\ saved \in Nat /\ saved > 0
<1>1. wdata' = read_inputs(wdata.n_winit) /\ saved # NotYet
      /\ stage' = "post_init" /\ cur_time' = saved
  BY DEF Restart
<1>2. wdata.n_winit \in InitSteps /\ LastSteps # {} /\ saved \in Nat \cup {NotYet}
  BY DEF W2ATypeOK, WData
<1>3. saved > 0
  BY <1>1 DEF TimesInv
<1>4. QED
  BY <1>1, <1>2, <1>3, FirstData

LEMMA RestartSteady == Steady /\ Restart => Steady'
<1> SUFFICES ASSUME Steady, Restart PROVE Steady'
  OBVIOUS
<1>1. /\ W2ATypeOK /\ TimesInv /\ new_time' = saved /\ saved' = saved
      /\ overlap' \in Overlaps /\ asked' = NotYet /\ fresh' = 2 /\ astray' \in BOOLEAN
      /\ last_in_file' = last_in_file
  BY DEF Steady, Restart
<1>2. /\ wdata' \in WData(wdata'.n_offset)
      /\ wdata'.ntime = wdata.n_winit /\ wdata'.n_winit = wdata.n_winit
      /\ wdata'.t_winit = dt_modes * wdata.n_winit
      /\ wdata'.t = 0 /\ wdata'.t_last = NotYet
      /\ wdata'.do_interp = [r \in Ranks |-> TRUE]
      /\ stage' = "post_init" /\ cur_time' = saved /\ saved \in Nat /\ saved > 0
  BY <1>1, RestartData DEF Steady
<1>3. W2ATypeOK'
  BY <1>1, <1>2 DEF W2ATypeOK
<1>4. TimesInv'
  <2>1. dt_modes * wdata.n_winit \in Int
    BY <1>1, W2ATypes
  <2>2. wdata'.t = dt_modes * wdata'.ntime - wdata'.t_winit
    BY <1>2, <2>1
  <2>3. QED
    BY <1>1, <1>2, <2>2 DEF TimesInv
<1>5. ReadersInv'
  BY <1>2 DEF ReadersInv
<1>6. QED
  BY <1>3, <1>4, <1>5 DEF Steady

LEMMA NextSteady == Steady /\ [Next]_vars => Steady'
<1>1. Steady /\ UNCHANGED vars => Steady'
  BY DEF vars, Steady, W2ATypeOK, TimesInv, ReadersInv
<1>2. Finished => UNCHANGED vars
  BY DEF Finished
<1>3. QED
  BY <1>1, <1>2, PostInitSteady, PreAdvanceSteady, PrePredictorSteady, RegridSteady,
     PostAdvanceSteady, RestartSteady DEF Next

-----------------------------------------------------------------------------
(* What is in the fields, for waves that begin at the first step of the    *)
(* file.                                                                   *)

LEMMA ZeroIsNoWave == \A time : ~IsWaveAt(Zero, time)
BY DEF Zero, IsWaveAt

LEMMA Interpolated ==
  ASSUME NEW old, NEW future, NEW before \in Int, NEW time \in Int, NEW after \in Int,
         before < time, time <= after, IsWaveAt(future, after)
  PROVE  LET x == time_interpolate_wave_fields(old, future, before, time, after)
         IN  /\ time = after => IsWaveAt(x, time)
             /\ IsWaveAt(old, before) /\ after - before <= dt_modes => IsWaveAt(x, time)
             /\ old = Zero => IsWaveAt(x, time) \/ x = Zero
<1> DEFINE x == time_interpolate_wave_fields(old, future, before, time, after)
<1>1. time # before
  OBVIOUS
<1>2. ASSUME time = after PROVE IsWaveAt(x, time)
  <2>1. x = future
    BY <1>1, <1>2 DEF time_interpolate_wave_fields
  <2>2. QED
    BY <1>2, <2>1
<1>3. ASSUME IsWaveAt(old, before), after - before <= dt_modes
      PROVE  IsWaveAt(x, time)
  <2>1. CASE time = after
    BY <1>2, <2>1
  <2>2. CASE time # after
    <3>1. Zero \notin {old, future}
      BY <1>3, ZeroIsNoWave
    <3>2. {old.kind, future.kind} = {"wave"} /\ old.at = before /\ future.at = after
      BY <1>3 DEF IsWaveAt
    <3>3. before # after /\ after - before \in 0..dt_modes
      BY <1>3
    <3>4. (time - old.at) * (after - before) = (time - before) * (future.at - old.at)
      BY <3>2
    <3>5. future.at - old.at \in 0..dt_modes
      BY <3>2, <3>3
    <3>6. x = Wave(time, future.step)
      BY <1>1, <2>2, <3>1, <3>2, <3>3, <3>4, <3>5 DEF time_interpolate_wave_fields
    <3>7. QED
      BY <3>6 DEF Wave, IsWaveAt
  <2>3. QED
    BY <2>1, <2>2
<1>4. ASSUME old = Zero PROVE IsWaveAt(x, time) \/ x = Zero
  <2>1. CASE time = after
    BY <1>2, <2>1
  <2>2. CASE time # after
    BY <1>1, <1>4, <2>2 DEF time_interpolate_wave_fields
  <2>3. QED
    BY <2>1, <2>2
<1>5. QED
  BY <1>2, <1>3, <1>4

LEMMA InterpolatedZeros ==
  \A before, time, after : time_interpolate_wave_fields(Zero, Zero, before, time, after) = Zero
BY DEF time_interpolate_wave_fields

(* Processors that need the waves read them.                               *)
LEMMA WhoNeedsReads ==
  ASSUME Steady, NEW time \in Nat, Due(time), Reads(time), NEW r \in Ranks, overlap[r]
  PROVE  ReadsWith(time).do_interp[r]
<1> DEFINE moved == wdata.resize_flag \/ wdata.t_last <= 0 \/ wdata.regrid_occurred
<1>1. W2ATypeOK /\ TimesInv /\ ReadersInv
  BY DEF Steady
<1>2. StepAt(time) \in Int /\ time \in Int
  BY <1>1, StepReached
<1>3. Flagged(time).resize_flag = moved /\ Flagged(time).do_interp = wdata.do_interp
  BY <1>1, <1>2, FlaggedData, Zenon
<1>4. ReadsWith(time).do_interp =
        IF Flagged(time).resize_flag THEN overlap ELSE Flagged(time).do_interp
  BY <1>1, <1>2, ReadsWithData, Zenon
<1>5. wdata.do_interp[r] \/ moved
  BY <1>1 DEF ReadersInv, Due
<1> HIDE DEF moved
<1>6. QED
  BY <1>3, <1>4, <1>5

(* What the processors read.                                               *)
LEMMA WhatIsRead ==
  ASSUME Steady, NEW time \in Nat, Due(time), Reads(time), NEW r \in Ranks, overlap[r]
  PROVE  LET n == StepAt(time)
             after == Flagged(time).t
         IN  /\ IsWaveAt(Towards(time, r), after)
             /\ \/ wdata.t_last >= 0 /\ n <= wdata.ntime + 1 /\ From(time, r) = field[r].new
                \/ IsWaveAt(From(time, r), after - dt_modes)
                \/ after = time
<1> DEFINE n == StepAt(time)
           after == Flagged(time).t
           v == ReadsWith(time)
           d == Evaluated(time).double_data
<1>1. W2ATypeOK /\ TimesInv
  BY DEF Steady
<1>2. n \in Int /\ time \in Int
  BY <1>1, StepReached
<1>3. v.do_interp[r]
  BY WhoNeedsReads
<1>4. v.t = after
  BY <1>1, <1>2, ReadsWithData, Zenon
<1>5. Towards(time, r) = Got(time, r).new /\ From(time, r) = Got(time, r).old
  BY DEF Towards, From
<1>6. IsWaveAt(Towards(time, r), after)
  <2>1. PICK step : Got(time, r).new = Wave(v.t, step)
    BY <1>3 DEF Got, ReadFields
  <2>2. QED
    BY <1>4, <1>5, <2>1 DEF Wave, IsWaveAt
<1>7. d = 1 => IsWaveAt(From(time, r), after - dt_modes)
  <2> SUFFICES ASSUME d = 1 PROVE IsWaveAt(From(time, r), after - dt_modes)
    OBVIOUS
  <2>1. PICK step : Got(time, r).old = Wave(v.t - dt_modes, step)
    BY <1>3 DEF Got, ReadFields
  <2>2. QED
    BY <1>4, <1>5, <2>1 DEF Wave, IsWaveAt
<1>8. d = 0 => From(time, r) = field[r].new
  BY <1>5 DEF Got, ReadFields
<1> DEFINE wtime == IF n # wdata.ntime THEN n * dt_modes - wdata.t_winit ELSE wdata.t
           skipped == n # wdata.ntime /\ n > wdata.ntime + 1
<1>9. d = IF ~skipped /\ wdata.t_last >= 0 THEN 0 ELSE IF wtime = time THEN 2 ELSE 1
  BY DEF Evaluated, evaluate_read_resize
<1>10. wtime = after
  BY <1>1, <1>2, FlaggedData, Zenon
<1>11. wdata.ntime \in Int /\ wdata.t_last \in Int
  BY <1>1, W2ATypes
<1>12. ~skipped => n <= wdata.ntime + 1
  BY <1>2, <1>11
<1> HIDE DEF d, wtime, skipped, n, after
<1>13. \/ d = 0 /\ ~skipped /\ wdata.t_last >= 0
       \/ d = 1
       \/ after = time
  BY <1>9, <1>10
<1>14. QED
  BY <1>6, <1>7, <1>8, <1>12, <1>13 DEF n, after

FirstFileStep == wdata.n_winit = 0

(* The times of an update where the waves begin at the first step.         *)
LEMMA UpdateInterval ==
  ASSUME Steady, FirstFileStep, NEW time \in Nat, Due(time)
  PROVE  LET after == Flagged(time).t
         IN  /\ after \in Int /\ after = dt_modes * StepAt(time)
             /\ after - dt_modes < time /\ time <= after
             /\ Evaluated(time).w.t = after
             /\ Reads(time) => TimeBefore(time) = after - dt_modes
             /\ ~Reads(time) => /\ TimeBefore(time) = wdata.t_last /\ wdata.t = after
                                /\ wdata.t_last \in Int
                                /\ wdata.t_last < time /\ after - wdata.t_last <= dt_modes
<1> DEFINE n == StepAt(time)
           after == Flagged(time).t
<1>0. time \in Int
  OBVIOUS
<1>1. W2ATypeOK /\ TimesInv
  BY DEF Steady
<1>2. wdata.t_winit = 0
  <2>1. wdata.t_winit = dt_modes * wdata.n_winit /\ wdata.n_winit = 0
    BY <1>1 DEF TimesInv, FirstFileStep
  <2>2. QED
    BY <2>1, <1>1, W2ATypes
<1>3. /\ n \in Int
      /\ dt_modes * (n - 1) < time + wdata.t_winit /\ time + wdata.t_winit <= dt_modes * n
      /\ after = dt_modes * n - wdata.t_winit
      /\ ~Reads(time) => n = wdata.ntime /\ wdata.t_last > 0 /\ stage # "post_init"
  BY <1>1, StepReached
<1>4. dt_modes \in Int /\ dt_modes >= 1 /\ wdata.ntime \in Int /\ wdata.t_last \in Int
  BY <1>1, W2ATypes
<1>5. dt_modes * n \in Int /\ dt_modes * (n - 1) = dt_modes * n - dt_modes
      /\ (n - 1) * dt_modes = dt_modes * n - dt_modes
  BY <1>3, <1>4
<1> DEFINE T == dt_modes * n
<1>6. after = T /\ T \in Int /\ T - dt_modes < time /\ time <= T
  <2> DEFINE S == dt_modes * (n - 1)
  <2>1. S < time + 0 /\ time + 0 <= T /\ after = T - 0 /\ S = T - dt_modes /\ T \in Int
    BY <1>2, <1>3, <1>5
  <2> HIDE DEF S, T, after
  <2>2. QED
    BY <1>4, <2>1
<1>7. Evaluated(time).w.t = after
  BY <1>1, <1>3, <1>0, UpdateTimes, Zenon
<1>8. Reads(time) => TimeBefore(time) = after - dt_modes
  <2>1. Reads(time) => TimeBefore(time) = (n - 1) * dt_modes
    BY <1>1, <1>3, <1>0, UpdateTimes, Zenon
  <2>2. (n - 1) * dt_modes = after - dt_modes
    BY <1>5, <1>6
  <2>3. QED
    BY <2>1, <2>2
<1>9. ASSUME ~Reads(time)
      PROVE  /\ TimeBefore(time) = wdata.t_last /\ wdata.t = after
             /\ wdata.t_last < time /\ after - wdata.t_last <= dt_modes
  <2>1. TimeBefore(time) = wdata.t_last
    BY <1>1, <1>3, <1>9, <1>0, UpdateTimes, Zenon
  <2>2. n = wdata.ntime /\ wdata.t_last > 0 /\ stage # "post_init"
    BY <1>3, <1>9
  <2>3. wdata.t = dt_modes * wdata.ntime - wdata.t_winit
        /\ wdata.ntime = time2step(wdata.t_last + wdata.t_winit)
    BY <1>1, <2>2 DEF TimesInv, Due
  <2>4. wdata.t = after
    BY <1>3, <2>2, <2>3
  <2>5. wdata.t_last < time
    BY <2>2 DEF Due
  <2>6. n = time2step(wdata.t_last)
    BY <1>2, <1>4, <2>2, <2>3
  <2>7. dt_modes * (n - 1) < wdata.t_last
    BY <1>4, <2>2, <2>6, StepOfTime
  <2>8. after - wdata.t_last <= dt_modes
    <3> HIDE DEF T, after
    <3>1. T - dt_modes < wdata.t_last
      BY <1>5, <2>7 DEF T
    <3>2. QED
      BY <1>4, <1>6, <3>1
  <2>9. QED
    BY <2>1, <2>4, <2>5, <2>8
<1>10. QED
  BY <1>4, <1>6, <1>7, <1>8, <1>9

(* The waves it is between come from the file, or from the update before.  *)
LEMMA WavesBetween ==
  ASSUME Steady, FieldsInv, FirstFileStep, NEW time \in Nat, Due(time), Reads(time),
         NEW r \in Ranks, overlap[r]
  PROVE  LET after == Flagged(time).t
         IN  \/ IsWaveAt(From(time, r), after - dt_modes)
             \/ From(time, r) = Zero /\ fresh = 0
             \/ after = time
<1> DEFINE n == StepAt(time)
           after == Flagged(time).t
<1>1. W2ATypeOK /\ TimesInv
  BY DEF Steady
<1>2. /\ after \in Int /\ after = dt_modes * n
      /\ after - dt_modes < time /\ time <= after
  BY UpdateInterval
<1>3. n \in Int /\ n >= wdata.ntime
  BY <1>1, StepReached
<1>4. \/ wdata.t_last >= 0 /\ n <= wdata.ntime + 1 /\ From(time, r) = field[r].new
      \/ IsWaveAt(From(time, r), after - dt_modes)
      \/ after = time
  BY WhatIsRead
<1>5. /\ wdata.ntime \in Int /\ dt_modes \in Int /\ dt_modes >= 1 /\ wdata.t_last \in Int
  BY <1>1, W2ATypes
<1>6. ASSUME wdata.t_last >= 0, n <= wdata.ntime + 1, From(time, r) = field[r].new,
             stage = "post_init"
      PROVE  after = time
  <2>1. time = 0
    BY <1>1, <1>6 DEF TimesInv, Due, NotYet
  <2>2. ~(n >= 1)
    <3>1. n >= 1 => dt_modes * n >= dt_modes
      BY <1>3, <1>5, MultipleAtLeastOne
    <3> HIDE DEF n, after
    <3>2. QED
      BY <1>2, <1>3, <1>5, <2>1, <3>1
  <2>3. wdata.ntime = 0
    BY <1>1, <1>6 DEF TimesInv, FirstFileStep
  <2>4. n = 0
    BY <1>3, <2>2, <2>3
  <2>5. QED
    BY <1>2, <1>5, <2>1, <2>4
<1>7. ASSUME wdata.t_last >= 0, n <= wdata.ntime + 1, From(time, r) = field[r].new,
             stage # "post_init"
      PROVE  IsWaveAt(From(time, r), after - dt_modes) \/ (From(time, r) = Zero /\ fresh = 0)
  <2>1. stage \in {"evolve", "regridded", "predictor"} /\ time > wdata.t_last
    BY <1>7 DEF Due
  <2>2. wdata.t = dt_modes * wdata.ntime - wdata.t_winit
        /\ wdata.ntime = time2step(wdata.t_last + wdata.t_winit)
        /\ wdata.t_winit = dt_modes * wdata.n_winit
    BY <1>1, <2>1 DEF TimesInv
  <2>3. wdata.t_winit = 0
    BY <1>5, <2>2 DEF FirstFileStep
  <2>4. n = wdata.ntime + 1
    <3>1. n # wdata.ntime \/ wdata.t_last = 0
      BY <1>1, <1>3, <1>5, <1>7, UpdateTimes
    <3>2. ASSUME wdata.t_last = 0 PROVE n # wdata.ntime
      <4>1. wdata.ntime = time2step(0)
        BY <2>2, <2>3, <3>2
      <4>2. dt_modes * (time2step(0) - 1) < 0
        BY StepOfTime
      <4>3. wdata.ntime <= 0
        <5>1. wdata.ntime - 1 >= 1 => dt_modes * (wdata.ntime - 1) >= dt_modes
          BY <1>5, MultipleAtLeastOne
        <5>2. wdata.ntime - 1 = 0 => dt_modes * (wdata.ntime - 1) = 0
          BY <1>5
        <5> DEFINE m == wdata.ntime - 1
                   M == dt_modes * m
        <5>3. M < 0 /\ (m >= 1 => M >= dt_modes) /\ (m = 0 => M = 0)
          BY <4>1, <4>2, <5>1, <5>2
        <5>4. m \in Int /\ M \in Int /\ wdata.ntime = m + 1
          BY <1>5
        <5> HIDE DEF m, M
        <5>5. m <= -1
          BY <1>5, <5>3, <5>4
        <5>6. QED
          BY <5>4, <5>5
      <4>4. n # 0
        <5>1. n = 0 => dt_modes * n = 0
          BY <1>5
        <5> HIDE DEF n, after
        <5>2. QED
          BY <1>2, <2>1, <3>2, <5>1
      <4>5. n >= 0
        <5>1. time + wdata.t_winit \in Nat
          BY <2>3
        <5>2. QED
          BY <5>1, StepOfTime DEF StepAt
      <4>6. QED
        BY <1>3, <1>5, <4>3, <4>4, <4>5
    <3>3. QED
      BY <1>3, <1>5, <1>7, <3>1, <3>2
  <2>5. wdata.t = after - dt_modes
    <3>1. dt_modes * (n - 1) = dt_modes * n - dt_modes
      BY <1>3, <1>5
    <3>2. wdata.ntime = n - 1
      BY <1>3, <1>5, <2>4
    <3>3. wdata.t = dt_modes * wdata.ntime
      BY <1>5, <2>2, <2>3
    <3>4. QED
      BY <1>2, <3>1, <3>2, <3>3
  <2>6. fresh \in 0..2
    BY <1>1 DEF W2ATypeOK
  <2>7. fresh = 0 => field[r].new = Zero
    BY <2>1 DEF FieldsInv, FirstFileStep
  <2>8. fresh > 0 => IsWaveAt(field[r].new, wdata.t)
    BY <2>1 DEF FieldsInv, FirstFileStep
  <2> HIDE DEF after
  <2>9. QED
    BY <1>7, <2>5, <2>6, <2>7, <2>8
<1>8. QED
  BY <1>4, <1>6, <1>7

LEMMA UpdateKeepsFields ==
  ASSUME Steady, FieldsInv, FirstFileStep, NEW time \in Nat, Due(time), NEW next,
         UpdateTargetFields(time, next), overlap' = overlap
  PROVE  /\ fresh' = 0 => \A r \in Ranks : field'[r].old = Zero /\ field'[r].new = Zero
         /\ fresh' > 0 => \A r \in Ranks : overlap'[r] =>
              /\ IsWaveAt(field'[r].new, wdata'.t)
              /\ IsWaveAt(field'[r].old, wdata'.t_last) \/ (field'[r].old = Zero /\ fresh' = 1)
         /\ \A r \in Ranks : field'[r].target = field'[r].old
<1> DEFINE after == Flagged(time).t
<1>1. W2ATypeOK /\ TimesInv
  BY DEF Steady
<1>2. /\ after \in Int /\ after - dt_modes < time /\ time <= after
      /\ Evaluated(time).w.t = after
      /\ Reads(time) => TimeBefore(time) = after - dt_modes
      /\ ~Reads(time) => /\ TimeBefore(time) = wdata.t_last /\ wdata.t = after
                         /\ wdata.t_last \in Int
                         /\ wdata.t_last < time /\ after - wdata.t_last <= dt_modes
  BY UpdateInterval
<1>3. \A r \in Ranks : /\ field'[r].new = Towards(time, r)
                       /\ field'[r].old = Target(time, r)
                       /\ field'[r].target = Target(time, r)
  BY UpdateParts DEF UpdateTargetFields
<1>4. fresh' = IF Reads(time) /\ fresh < 2 THEN fresh + 1 ELSE fresh
  BY UpdateParts DEF UpdateTargetFields
<1>5. fresh \in 0..2 /\ dt_modes \in Int /\ dt_modes >= 1 /\ time \in Int
  BY <1>1, W2ATypes DEF W2ATypeOK
<1>6. wdata'.t = after /\ wdata'.t_last = time
  <2>1. wdata'.t = dt_modes * StepAt(time) - wdata.t_winit /\ wdata'.t_last = time
    BY <1>1, UpdatedData
  <2>2. after = dt_modes * StepAt(time) - wdata.t_winit
    BY <1>1, StepReached
  <2>3. QED
    BY <2>1, <2>2
<1>7. \A r \in Ranks : Target(time, r) =
        time_interpolate_wave_fields(From(time, r), Towards(time, r), TimeBefore(time), time, after)
  BY <1>2 DEF Target
<1>8. ASSUME Reads(time)
      PROVE  /\ fresh' > 0
             /\ \A r \in Ranks : overlap[r] =>
                  /\ IsWaveAt(Towards(time, r), after)
                  /\ IsWaveAt(Target(time, r), time) \/ (Target(time, r) = Zero /\ fresh' = 1)
  <2>1. fresh' > 0 /\ (fresh = 0 => fresh' = 1)
    BY <1>4, <1>5, <1>8
  <2>2. ASSUME NEW r \in Ranks, overlap[r]
        PROVE  /\ IsWaveAt(Towards(time, r), after)
               /\ IsWaveAt(Target(time, r), time) \/ (Target(time, r) = Zero /\ fresh = 0)
    <3> DEFINE before == after - dt_modes
    <3>1. IsWaveAt(Towards(time, r), after)
      BY <1>8, <2>2, WhatIsRead
    <3>2. \/ IsWaveAt(From(time, r), before)
          \/ From(time, r) = Zero /\ fresh = 0
          \/ after = time
      BY <1>8, <2>2, WavesBetween
    <3>3. before \in Int /\ before < time /\ after - before <= dt_modes /\ TimeBefore(time) = before
      BY <1>2, <1>5, <1>8
    <3> HIDE DEF after, before
    <3> DEFINE x == time_interpolate_wave_fields(From(time, r), Towards(time, r), before, time, after)
    <3>4. /\ time = after => IsWaveAt(x, time)
          /\ IsWaveAt(From(time, r), before) /\ after - before <= dt_modes => IsWaveAt(x, time)
          /\ From(time, r) = Zero => IsWaveAt(x, time) \/ x = Zero
      BY <1>2, <1>5, <3>1, <3>3, Interpolated
    <3>5. Target(time, r) = x
      BY <1>7, <3>3
    <3> HIDE DEF x
    <3>6. QED
      BY <3>1, <3>2, <3>3, <3>4, <3>5
  <2>3. QED
    BY <2>1, <2>2
<1>9. ASSUME ~Reads(time)
      PROVE  /\ fresh' = fresh
             /\ fresh = 0 => \A r \in Ranks : Target(time, r) = Zero /\ Towards(time, r) = Zero
             /\ fresh > 0 => \A r \in Ranks : overlap[r] =>
                  /\ IsWaveAt(Towards(time, r), after)
                  /\ IsWaveAt(Target(time, r), time) \/ (Target(time, r) = Zero /\ fresh = 1)
  <2>1. fresh' = fresh
    BY <1>4, <1>9
  <2>2. stage \in {"evolve", "regridded", "predictor"}
    BY <1>1, <1>9, StepReached DEF Due
  <2>3. \A r \in Ranks : From(time, r) = field[r].old /\ Towards(time, r) = field[r].new
    BY <1>9 DEF From, Towards
  <2>4. fresh = 0 => \A r \in Ranks : field[r].old = Zero /\ field[r].new = Zero
    BY <2>2 DEF FieldsInv, FirstFileStep
  <2>5. fresh = 0 => \A r \in Ranks : Target(time, r) = Zero /\ Towards(time, r) = Zero
    BY <1>7, <2>3, <2>4, InterpolatedZeros
  <2>6. ASSUME fresh > 0, NEW r \in Ranks, overlap[r]
        PROVE  /\ IsWaveAt(Towards(time, r), after)
               /\ IsWaveAt(Target(time, r), time) \/ (Target(time, r) = Zero /\ fresh = 1)
    <3> DEFINE before == wdata.t_last
    <3>1. /\ IsWaveAt(field[r].new, wdata.t)
          /\ IsWaveAt(field[r].old, wdata.t_last) \/ (field[r].old = Zero /\ fresh = 1)
      BY <2>2, <2>6 DEF FieldsInv, FirstFileStep
    <3>2. /\ IsWaveAt(Towards(time, r), after)
          /\ IsWaveAt(From(time, r), before) \/ (From(time, r) = Zero /\ fresh = 1)
      BY <1>2, <1>9, <2>3, <3>1
    <3>3. before \in Int /\ before < time /\ after - before <= dt_modes /\ TimeBefore(time) = before
      BY <1>2, <1>9
    <3> HIDE DEF after, before
    <3> DEFINE x == time_interpolate_wave_fields(From(time, r), Towards(time, r), before, time, after)
    <3>4. /\ IsWaveAt(From(time, r), before) /\ after - before <= dt_modes => IsWaveAt(x, time)
          /\ From(time, r) = Zero => IsWaveAt(x, time) \/ x = Zero
      BY <1>2, <1>5, <3>2, <3>3, Interpolated
    <3>5. Target(time, r) = x
      BY <1>7, <3>3
    <3> HIDE DEF x
    <3>6. QED
      BY <3>2, <3>3, <3>4, <3>5
  <2>7. QED
    BY <2>1, <2>5, <2>6
<1>10. QED
  <2> HIDE DEF after
  <2>1. CASE Reads(time)
    <3>1. fresh' > 0 /\ fresh' # 0
      BY <1>4, <1>5, <2>1
    <3>2. QED
      BY <1>3, <1>6, <1>8, <2>1, <3>1
  <2>2. CASE ~Reads(time)
    BY <1>3, <1>6, <1>9, <2>2
  <2>3. QED
    BY <2>1, <2>2

(* The contents over every step. *)
LEMMA InitFields == Init => FieldsInv
BY DEF Init, FieldsInv

LEMMA UpdateStepFields ==
  ASSUME Steady, FieldsInv, NEW time \in Nat, Due(time), NEW next,
         UpdateTargetFields(time, next), overlap' = overlap
  PROVE  FieldsInv'
<1>1. W2ATypeOK /\ TimesInv
  BY DEF Steady
<1>2. wdata'.n_winit = wdata.n_winit
  BY <1>1, UpdatedData
<1>3. CASE FirstFileStep
  BY <1>3, UpdateKeepsFields DEF FieldsInv
<1>4. CASE ~FirstFileStep
  BY <1>2, <1>4 DEF FieldsInv, FirstFileStep
<1>5. QED
  BY <1>3, <1>4

LEMMA NextFields == Steady /\ FieldsInv /\ [Next]_vars => FieldsInv'
<1> SUFFICES ASSUME Steady, FieldsInv, [Next]_vars PROVE FieldsInv'
  OBVIOUS
<1>1. W2ATypeOK /\ TimesInv
  BY DEF Steady
<1>2. CASE PostInit
  <2>1. cur_time \in Nat /\ Due(cur_time)
    BY <1>1, <1>2, PostInitTime DEF PostInit
  <2>2. UpdateTargetFields(cur_time, "evolve") /\ overlap' = overlap
    BY <1>2 DEF PostInit
  <2>3. QED
    BY <2>1, <2>2, UpdateStepFields
<1>3. CASE PreAdvance
  <2>1. PICK dt \in TimeSteps : UpdateTargetFields(cur_time + dt \div 2, "predictor")
    BY <1>3 DEF PreAdvance
  <2>2. stage \in {"evolve", "regridded"} /\ overlap' = overlap
    BY <1>3 DEF PreAdvance
  <2> DEFINE time == cur_time + dt \div 2
  <2>3. time \in Nat /\ Due(time)
    BY <1>1, <2>2, PreAdvanceTime
  <2>4. UpdateTargetFields(time, "predictor")
    BY <2>1
  <2> HIDE DEF time
  <2>5. QED
    BY <2>2, <2>3, <2>4, UpdateStepFields
<1>4. CASE PrePredictor
  <2>1. new_time \in Nat /\ Due(new_time)
    BY <1>1, <1>4, PrePredictorTime DEF PrePredictor
  <2>2. UpdateTargetFields(new_time, "post_advance") /\ overlap' = overlap
    BY <1>4 DEF PrePredictor
  <2>3. QED
    BY <2>1, <2>2, UpdateStepFields
<1>5. CASE Regrid
  <2>1. fresh' = 0 /\ asked' = NotYet /\ field' = NewLevels
    BY <1>5 DEF Regrid
  <2>2. \A r \in Ranks : field'[r].old = Zero /\ field'[r].new = Zero
    BY <2>1 DEF NewLevels
  <2>3. QED
    BY <2>1, <2>2 DEF FieldsInv
<1>6. CASE PostAdvance
  <2>1. /\ wdata'.n_winit = wdata.n_winit /\ wdata'.t = wdata.t /\ wdata'.t_last = wdata.t_last
    BY <1>1, <1>6, PostAdvanceData
  <2>2. stage = "post_advance" /\ UNCHANGED << field, overlap, asked, fresh >>
    BY <1>6 DEF PostAdvance
  <2>3. QED
    BY <2>1, <2>2 DEF FieldsInv
<1>7. CASE Restart
  BY <1>7 DEF Restart, FieldsInv
<1>8. CASE Finished \/ UNCHANGED vars
  BY <1>8 DEF Finished, vars, FieldsInv
<1>9. QED
  BY <1>2, <1>3, <1>4, <1>5, <1>6, <1>7, <1>8 DEF Next

LEMMA SteadyInvariant == Spec => []Steady
BY InitSteady, NextSteady, PTL DEF Spec

(* update_target_fields: whatever lies between two updates, the target is  *)
(* the wave at the time it was made for, if the waves begin at the first   *)
(* step of the file; on levels that have been remade it may be zero until  *)
(* two steps of the file have been read.                                   *)
THEOREM TargetsAreOfTheirTime == Spec => []TargetsAtTheirTime
<1>1. Steady /\ FieldsInv => TargetsAtTheirTime
  <2> SUFFICES ASSUME Steady, FieldsInv, NEW r \in Ranks, Updated(r), wdata.n_winit = 0
               PROVE  TargetIsTheWaveAsked(r) \/ (field[r].target = Zero /\ fresh < 2)
    BY DEF TargetsAtTheirTime
  <2>1. W2ATypeOK /\ TimesInv
    BY DEF Steady
  <2>2. stage \notin {"post_init", "aborted"} /\ asked = wdata.t_last /\ asked # NotYet
        /\ overlap[r]
    BY <2>1 DEF Updated, TimesInv
  <2>3. field[r].target = field[r].old
    BY <2>2 DEF FieldsInv
  <2>4. fresh \in 0..2
    BY <2>1 DEF W2ATypeOK
  <2>5. fresh = 0 => field[r].old = Zero
    BY <2>2 DEF FieldsInv
  <2>6. fresh > 0 => IsWaveAt(field[r].old, wdata.t_last) \/ (field[r].old = Zero /\ fresh = 1)
    BY <2>2 DEF FieldsInv
  <2>7. QED
    BY <2>2, <2>3, <2>4, <2>5, <2>6 DEF TargetIsTheWaveAsked, IsWaveAt
<1>2. QED
  BY <1>1, SteadyInvariant, InitFields, NextFields, PTL DEF Spec

-----------------------------------------------------------------------------
(* The turns of the file, for waves that begin at any step of it.          *)

(* The step for n in a file of the steps from first to last.               *)
TurnStep(first, last, n) ==
  IF n <= last THEN n ELSE first + ((n - last - 1) % (last - first + 1))

(* It is a step of the file, and goes on with n up to the last one, after  *)
(* which comes the first.                                                  *)
LEMMA TurnOfSteps ==
  ASSUME NEW first \in Int, NEW last \in Int, first <= last,
         NEW n \in Int, first <= n, NEW k \in Int, k >= 0
  PROVE  /\ TurnStep(first, last, n) \in Int
         /\ first <= TurnStep(first, last, n) /\ TurnStep(first, last, n) <= last
         /\ TurnStep(first, last, n) + k <= last =>
              TurnStep(first, last, n + k) = TurnStep(first, last, n) + k
         /\ TurnStep(first, last, n) = last => TurnStep(first, last, n + 1) = first
<1> DEFINE b == last - first + 1
           a == n - last - 1
<1>1. b \in Int /\ b > 0 /\ a \in Int
  OBVIOUS
<1>2. CASE n <= last
  <2>1. TurnStep(first, last, n) = n
    BY <1>2 DEF TurnStep
  <2>2. n + k <= last => TurnStep(first, last, n + k) = n + k
    BY DEF TurnStep
  <2>3. ASSUME n = last PROVE TurnStep(first, last, n + 1) = first
    <3>1. ~(n + 1 <= last) /\ (n + 1) - last - 1 = 0
      BY <2>3
    <3>2. TurnStep(first, last, n + 1) = first + (0 % b)
      BY <3>1 DEF TurnStep
    <3>3. 0 % b = 0
      BY <1>1, RemainderOfZero
    <3> HIDE DEF b
    <3>4. QED
      BY <3>2, <3>3
  <2>4. QED
    BY <1>2, <2>1, <2>2, <2>3
<1>3. CASE ~(n <= last)
  <2> DEFINE ra == a % b
             rk == (a + k) % b
             ro == (a + 1) % b
  <2>1. ra \in Int /\ 0 <= ra /\ ra < b
    BY <1>1, RemainderRange
  <2>2. /\ ra + k < b => rk = ra + k
        /\ ra + 1 = b => ro = 0
    <3> HIDE DEF a, b
    <3>1. ra + k < b => rk = ra + k
      BY <1>1, RemainderAfter
    <3>2. ra + 1 = b => ro = 0
      BY <1>1, RemainderAfter
    <3>3. QED
      BY <3>1, <3>2
  <2>3. /\ (n + k) - last - 1 = a + k /\ ~(n + k <= last)
        /\ (n + 1) - last - 1 = a + 1 /\ ~(n + 1 <= last)
    BY <1>3
  <2>4. /\ TurnStep(first, last, n) = first + ra
        /\ TurnStep(first, last, n + k) = first + rk
        /\ TurnStep(first, last, n + 1) = first + ro
    BY <1>3, <2>3 DEF TurnStep
  <2> HIDE DEF ra, rk, ro
  <2>5. QED
    BY <2>1, <2>2, <2>4
<1>4. QED
  BY <1>2, <1>3

LEMMA StepInTurn == \A n : StepInFile(n) = TurnStep(wdata.n_winit, last_in_file, n)
BY DEF StepInFile, TurnStep

LEMMA NotBeforeFirst ==
  ASSUME W2ATypeOK, TimesInv, stage # "aborted"
  PROVE  wdata.ntime >= wdata.n_winit
<1> DEFINE n == wdata.ntime
           first == wdata.n_winit
<1>1. /\ dt_modes \in Int /\ dt_modes >= 1 /\ n \in Int /\ first \in Nat
      /\ wdata.t_last \in Int
  BY W2ATypes
<1>2. CASE stage = "post_init"
  BY <1>1, <1>2 DEF TimesInv
<1>3. CASE stage # "post_init"
  <2>1. wdata.t_last >= 0 /\ n = time2step(wdata.t_last + wdata.t_winit)
    BY <1>3 DEF TimesInv
  <2>2. wdata.t_winit \in Nat /\ wdata.t_winit = dt_modes * first
    BY WinitTime
  <2>3. wdata.t_last + wdata.t_winit <= dt_modes * n
    BY <1>1, <2>1, <2>2, StepOfTime
  <2>4. ASSUME first - n >= 1 PROVE FALSE
    <3>1. dt_modes * (first - n) >= dt_modes
      BY <1>1, <2>4, MultipleAtLeastOne
    <3>2. dt_modes * (first - n) = dt_modes * first - dt_modes * n
      BY <1>1
    <3> DEFINE x == dt_modes * first
               y == dt_modes * n
    <3>3. x \in Int /\ y \in Int
      BY <1>1
    <3>4. x - y >= dt_modes /\ wdata.t_last + x <= y
      BY <2>2, <2>3, <3>1, <3>2
    <3> HIDE DEF x, y
    <3>5. QED
      BY <1>1, <2>1, <3>3, <3>4
  <2>5. QED
    BY <1>1, <2>4
<1>4. QED
  BY <1>2, <1>3

LEMMA ReaderAt ==
  ASSUME NEW w, NEW r, NEW off \in Int,
         w.ntime \in Int, w.n_winit \in Int, w.n_offset[r] \in Int
  PROVE  LET x == Reader(w, r, off)
         IN  /\ x.n_offset \in Int
             /\ x.step = w.ntime + x.n_offset + off
             /\ x.ok = get_data(x.step)
             /\ x.n_offset = IF get_data(w.ntime + w.n_offset[r] + off) THEN w.n_offset[r]
                             ELSE w.n_winit - w.ntime
<1> DEFINE step == w.ntime + w.n_offset[r] + off
           offset == IF get_data(step) THEN w.n_offset[r]
                     ELSE update_offset_timestep(w.ntime, w.n_winit)
           x == Reader(w, r, off)
<1>1. /\ x.n_offset = offset /\ x.step = w.ntime + offset + off
      /\ x.ok = get_data(w.ntime + offset + off)
  BY DEF Reader
<1>2. update_offset_timestep(w.ntime, w.n_winit) = w.n_winit - w.ntime
  BY DEF update_offset_timestep
<1>3. offset \in Int
  BY <1>2
<1>4. QED
  BY <1>1, <1>2, <1>3

(* What a processor that reads puts into w2a New is the step that its      *)
(* offset says, and a step of the file.                                    *)
LEMMA StepRead ==
  ASSUME NEW o, NEW w \in WData(o), w.n_winit \in Int,
         NEW c \in Int, NEW r \in DOMAIN w.n_offset, w.n_offset[r] = c,
         w.do_interp[r], NEW double_data,
         ReadFields(w, r, double_data).ok
  PROVE  /\ ReadFields(w, r, double_data).n_offset \in Int
         /\ ReadFields(w, r, double_data).new.step =
              w.ntime + ReadFields(w, r, double_data).n_offset
         /\ get_data(ReadFields(w, r, double_data).new.step)
         /\ double_data = 0 =>
              ReadFields(w, r, double_data).n_offset =
                IF get_data(w.ntime + c) THEN c ELSE w.n_winit - w.ntime
<1> DEFINE got == ReadFields(w, r, double_data)
           before == Reader(w, r, -1)
           turned == before.n_offset
           offsets == [w.n_offset EXCEPT ![r] = turned]
           x == IF double_data = 1 THEN [w EXCEPT !.n_offset = offsets] ELSE w
           now == Reader(x, r, 0)
<1>1. w.ntime \in Int /\ w.n_offset[r] = c
  BY DEF WData
<1>2. turned \in Int
  BY <1>1, ReaderAt
<1>3. /\ got.n_offset = now.n_offset /\ got.new = Wave(w.t, now.step)
      /\ got.ok => now.ok
  BY DEF ReadFields
<1> HIDE DEF turned
<1>4. offsets[r] \in Int
  BY <1>2
<1> HIDE DEF offsets
<1>5. x.ntime = w.ntime /\ x.n_winit = w.n_winit /\ x.n_offset[r] \in Int
  BY <1>1, <1>4 DEF WData
<1>6. double_data = 0 => x.n_offset[r] = c
  BY <1>1
<1> HIDE DEF x
<1> DEFINE a == x.ntime + x.n_offset[r] + 0
<1>7. /\ now.n_offset \in Int /\ now.step = x.ntime + now.n_offset + 0
      /\ now.ok = get_data(now.step)
      /\ now.n_offset = IF get_data(a) THEN x.n_offset[r] ELSE x.n_winit - x.ntime
  BY <1>1, <1>5, ReaderAt
<1>8. double_data = 0 => a = w.ntime + c
  BY <1>1, <1>5, <1>6
<1>9. got.new.step = now.step
  BY <1>3 DEF Wave
<1> HIDE DEF now, got, a
<1>10. now.step = w.ntime + now.n_offset
  BY <1>1, <1>5, <1>7
<1>11. QED
  BY <1>3, <1>5, <1>6, <1>7, <1>8, <1>9, <1>10 DEF got

(* While all are at the same step of the file they begin to read there.    *)
LEMMA CommonOffset ==
  ASSUME Steady, TurnsInv, ~astray, NEW time \in Nat, Due(time), Ranks # {}
  PROVE  LET n == StepAt(time)
             off == StepInFile(wdata.ntime) - wdata.ntime
             c == IF n + off > n_wstop THEN wdata.n_winit - n ELSE off
         IN ReadsWith(time).n_offset = [s \in Ranks |-> c]
<1> DEFINE n == StepAt(time)
           off == StepInFile(wdata.ntime) - wdata.ntime
           c == IF n + off > n_wstop THEN wdata.n_winit - n ELSE off
           w == Flagged(time)
           checked == CheckStop(w).n_offset
<1>1. W2ATypeOK /\ TimesInv /\ stage # "aborted"
  BY DEF Steady, Due
<1>2. n \in Int /\ time \in Int
  BY <1>1, StepReached
<1>3. /\ w \in WData(wdata.n_offset) /\ w.ntime = n /\ w.n_winit = wdata.n_winit
      /\ w.n_offset = wdata.n_offset
  BY <1>1, <1>2, FlaggedData, Zenon
<1>4. \A s \in Ranks : wdata.n_offset[s] = off
  BY <1>1 DEF TurnsInv
<1>5. wdata.n_winit \in Int
  BY <1>1, W2ATypes
<1>6. ReadsWith(time).n_offset = [r \in Ranks |-> Max({checked[s] : s \in Ranks})]
  BY <1>1, <1>2, ReadsWithOffset, Zenon
<1> HIDE DEF w, off, n
<1> DEFINE offsets == [r \in Ranks |->
     IF w.ntime + w.n_offset[r] > n_wstop THEN update_offset_timestep(w.ntime, w.n_winit)
     ELSE w.n_offset[r]]
<1>7. checked = offsets
  <2>1. CheckStop(w) = [w EXCEPT !.n_offset = offsets]
    BY DEF CheckStop
  <2> HIDE DEF offsets
  <2>2. QED
    BY <1>3, <2>1 DEF WData
<1> HIDE DEF checked
<1>8. update_offset_timestep(w.ntime, w.n_winit) = wdata.n_winit - n
  BY <1>2, <1>3, <1>5 DEF update_offset_timestep
<1>9. \A s \in Ranks : checked[s] = c
  BY <1>3, <1>4, <1>7, <1>8
<1> HIDE DEF offsets
<1>10. {checked[s] : s \in Ranks} = {c}
  BY <1>9
<1>11. c \in Int
  <2>1. wdata.ntime \in Int /\ wdata.ntime >= wdata.n_winit /\ last_in_file \in Int
        /\ wdata.n_winit <= last_in_file
    BY <1>1, W2ATypes, NotBeforeFirst
  <2>2. StepInFile(wdata.ntime) \in Int
    BY <1>5, <2>1, TurnOfSteps, StepInTurn
  <2>3. QED
    BY <1>2, <1>5, <2>1, <2>2 DEF off
<1> HIDE DEF c
<1>12. Max({c}) = c
  <2>1. \A x \in {c} : c >= x
    BY <1>11
  <2>2. QED
    BY <2>1 DEF Max
<1>13. QED
  BY <1>6, <1>10, <1>12 DEF c, n, off

(* An update that reads leaves all at the step of their turn.              *)
LEMMA ReadKeepsTurns ==
  ASSUME Steady, TurnsInv, NEW time \in Nat, Due(time), NEW next,
         UpdateTargetFields(time, next), Reads(time), ~astray', stage' # "aborted",
         NEW r \in Ranks
  PROVE  LET n == StepAt(time)
         IN  /\ wdata'.n_offset[r] = StepInFile(n) - n
             /\ overlap[r] => field'[r].new.step = StepInFile(n)
<1> DEFINE n == StepAt(time)
           d == Evaluated(time).double_data
           v == ReadsWith(time)
           first == wdata.n_winit
           last == last_in_file
           at == StepInFile(wdata.ntime)
           off == at - wdata.ntime
           c == IF n + off > n_wstop THEN first - n ELSE off
<1>0. time \in Int /\ Ranks # {}
  OBVIOUS
<1>1. W2ATypeOK /\ TimesInv /\ stage # "aborted"
  BY DEF Steady, Due
<1>2. n \in Int /\ n >= wdata.ntime
  BY <1>1, StepReached
<1>3. /\ first \in Int /\ last \in Int /\ n_wstop \in Int /\ wdata.ntime \in Int
      /\ 0 <= first /\ first <= last /\ last <= n_wstop /\ first <= wdata.ntime
      /\ wdata.t_last \in Int
  BY <1>1, W2ATypes, NotBeforeFirst
<1>4. ~astray /\ ~Update(time).astray /\ Update(time).ok
  BY DEF UpdateTargetFields
<1>5. \A s \in Ranks : Got(time, s).ok
  BY <1>4, UpdateParts
<1>6. \A s, q \in Ranks : Got(time, s).n_offset = Got(time, q).n_offset
  BY <1>4, UpdateParts
<1>7. d # 0 => [s \in Ranks |-> Got(time, s).n_offset] = wdata.n_offset
  BY <1>4, UpdateParts
<1>8. \A s \in Ranks : wdata.n_offset[s] = off
  BY <1>1, <1>4 DEF TurnsInv
<1>9. v.n_offset = [s \in Ranks |-> c]
  BY <1>4, CommonOffset
<1>10. /\ v \in WData(v.n_offset) /\ v.ntime = n /\ v.n_winit = first
  <2>1. /\ v \in WData(v.n_offset) /\ v.ntime = Flagged(time).ntime
        /\ v.n_winit = Flagged(time).n_winit
    BY <1>0, <1>1, <1>2, ReadsWithData, Zenon
  <2>2. Flagged(time).ntime = n /\ Flagged(time).n_winit = wdata.n_winit
    BY <1>0, <1>1, <1>2, FlaggedData, Zenon
  <2>3. QED
    BY <2>1, <2>2
<1>11. at \in Int /\ first <= at /\ at <= last
  BY <1>3, TurnOfSteps, StepInTurn
<1>12. PICK q \in Ranks : overlap[q]
  BY <1>1 DEF W2ATypeOK, Overlaps
<1> DEFINE reached == n + Got(time, q).n_offset
<1>13. c \in Int
  BY <1>2, <1>3, <1>11
<1>14. ASSUME NEW s \in Ranks, overlap[s]
       PROVE  /\ Got(time, s).n_offset \in Int
              /\ Got(time, s).new.step = n + Got(time, s).n_offset
              /\ get_data(Got(time, s).new.step)
              /\ d = 0 => Got(time, s).n_offset = IF get_data(n + c) THEN c ELSE first - n
  <2>1. v.do_interp[s]
    BY <1>14, WhoNeedsReads
  <2>2. Got(time, s) = ReadFields(v, s, d) /\ Got(time, s).ok
    BY <1>5 DEF Got
  <2> HIDE DEF v, d, c, n, first
  <2>3. v.n_winit \in Int
    BY <1>3, <1>10
  <2>4. ReadFields(v, s, d).ok
    BY <2>2
  <2>5. /\ ReadFields(v, s, d).n_offset \in Int
        /\ ReadFields(v, s, d).new.step = v.ntime + ReadFields(v, s, d).n_offset
        /\ get_data(ReadFields(v, s, d).new.step)
        /\ d = 0 => ReadFields(v, s, d).n_offset =
             IF get_data(v.ntime + c) THEN c ELSE v.n_winit - v.ntime
    <3>1. PICK o, w, e, b : o = v.n_offset /\ w = v /\ e = c /\ b = d
      OBVIOUS
    <3>2. /\ w \in WData(o) /\ w.n_winit \in Int /\ e \in Int
          /\ s \in DOMAIN w.n_offset /\ w.n_offset[s] = e /\ w.do_interp[s] /\ ReadFields(w, s, b).ok
      BY <1>9, <1>10, <1>13, <2>1, <2>3, <2>4, <3>1
    <3>3. /\ ReadFields(w, s, b).n_offset \in Int
          /\ ReadFields(w, s, b).new.step = w.ntime + ReadFields(w, s, b).n_offset
          /\ get_data(ReadFields(w, s, b).new.step)
          /\ b = 0 => ReadFields(w, s, b).n_offset =
               IF get_data(w.ntime + e) THEN e ELSE w.n_winit - w.ntime
      BY <3>2, StepRead
    <3>4. QED
      BY <3>1, <3>3
  <2>6. QED
    BY <1>10, <2>2, <2>5
<1>15. /\ Got(time, q).n_offset \in Int /\ get_data(reached)
       /\ d = 0 => Got(time, q).n_offset = IF get_data(n + c) THEN c ELSE first - n
  BY <1>12, <1>14
<1>16. reached = StepInFile(n)
  <2> DEFINE o == Got(time, q).n_offset
             k == n - wdata.ntime
  <2>1. k \in Int /\ k >= 0 /\ n = wdata.ntime + k /\ n + off = at + k
    BY <1>2, <1>3, <1>11
  <2>2. /\ at + k <= last => StepInFile(n) = at + k
        /\ k = 1 /\ at = last => StepInFile(n) = first
    <3> HIDE DEF n, k, at
    <3>1. at = TurnStep(first, last, wdata.ntime)
          /\ StepInFile(n) = TurnStep(first, last, n)
      BY StepInTurn DEF at
    <3> HIDE DEF first, last
    <3>2. /\ at + k <= last => TurnStep(first, last, wdata.ntime + k) = at + k
          /\ at = last => TurnStep(first, last, wdata.ntime + 1) = first
      <4>1. /\ first \in Int /\ last \in Int /\ first <= last
            /\ wdata.ntime \in Int /\ first <= wdata.ntime /\ k \in Int /\ k >= 0
        BY <1>3, <2>1
      <4>2. PICK f, l, m, j : f = first /\ l = last /\ m = wdata.ntime /\ j = k
        OBVIOUS
      <4>3. /\ TurnStep(f, l, m) + j <= l => TurnStep(f, l, m + j) = TurnStep(f, l, m) + j
            /\ TurnStep(f, l, m) = l => TurnStep(f, l, m + 1) = f
        <5>1. /\ f \in Int /\ l \in Int /\ f <= l /\ m \in Int /\ f <= m
              /\ j \in Int /\ j >= 0
          BY <4>1, <4>2
        <5>2. QED
          BY <5>1, TurnOfSteps
      <4>4. QED
        BY <3>1, <4>2, <4>3
    <3>3. QED
      BY <2>1, <3>1, <3>2
  <2>3. reached \in 0..last /\ o \in Int
    BY <1>15 DEF get_data
  <2>4. CASE d # 0
    <3>1. o = off
      BY <1>7, <1>8, <2>4
    <3>2. reached = at + k
      BY <2>1, <3>1
    <3>3. QED
      BY <2>2, <2>3, <3>2
  <2>5. CASE d = 0
    <3>1. k <= 1
      <4>1. ~(n # wdata.ntime /\ n > wdata.ntime + 1)
        BY <2>5 DEF Evaluated, evaluate_read_resize
      <4>2. QED
        BY <1>2, <1>3, <4>1
    <3>2. o = IF n + c \in 0..last THEN c ELSE first - n
      BY <1>15, <2>5 DEF get_data
    <3> HIDE DEF o, at, n, k, off, first, last
    <3>3. CASE at + k <= last
      <4>1. n + off <= n_wstop /\ n + off \in 0..last
        BY <1>2, <1>3, <1>11, <2>1, <3>3
      <4>2. c = off
        BY <4>1, <1>3, <2>1
      <4>3. o = off
        BY <3>2, <4>1, <4>2
      <4>4. QED
        BY <2>1, <2>2, <3>3, <4>3 DEF o
    <3>4. CASE ~(at + k <= last)
      <4>1. k = 1 /\ at = last /\ n + off = last + 1
        BY <1>3, <1>11, <2>1, <3>1, <3>4
      <4>2. c = first - n \/ (c = off /\ n + c \notin 0..last)
        BY <4>1, <1>3
      <4>3. o = first - n
        BY <3>2, <4>2
      <4>4. n + o = first
        BY <1>2, <1>3, <4>3
      <4>5. QED
        BY <2>2, <4>1, <4>4 DEF o
    <3>5. QED
      BY <3>3, <3>4
  <2>6. QED
    BY <2>4, <2>5
<1>17. Got(time, q).n_offset = StepInFile(n) - n
  BY <1>2, <1>15, <1>16
<1>18. wdata'.n_offset[r] = StepInFile(n) - n
  <2>1. wdata' = [v EXCEPT !.n_offset = [s \in Ranks |-> Got(time, s).n_offset]]
    BY UpdateParts DEF UpdateTargetFields
  <2>2. wdata'.n_offset[r] = Got(time, r).n_offset
    BY <1>10, <2>1 DEF WData
  <2>3. QED
    BY <1>6, <1>17, <2>2
<1>19. overlap[r] => field'[r].new.step = StepInFile(n)
  <2>1. field'[r].new = Got(time, r).new
    BY UpdateParts DEF UpdateTargetFields, Towards
  <2>2. overlap[r] => Got(time, r).new.step = n + Got(time, q).n_offset
    BY <1>6, <1>14
  <2>3. QED
    BY <1>16, <2>1, <2>2
<1>20. QED
  BY <1>18, <1>19

(* The turns over every step.                                              *)
LEMMA SameFile ==
  ASSUME last_in_file' = last_in_file, wdata'.n_winit = wdata.n_winit,
         NEW n, wdata'.ntime = n
  PROVE  StepInFile(wdata.ntime)' = StepInFile(n)
BY DEF StepInFile

LEMMA FirstTurn ==
  ASSUME W2ATypeOK
  PROVE  StepInFile(wdata.n_winit) = wdata.n_winit
BY W2ATypes DEF StepInFile

LEMMA UpdateStepTurns ==
  ASSUME Steady, TurnsInv, NEW time \in Nat, Due(time), NEW next,
         UpdateTargetFields(time, next), overlap' = overlap, last_in_file' = last_in_file
  PROVE  TurnsInv'
<1> SUFFICES ASSUME stage' # "aborted", ~astray', NEW r \in Ranks
             PROVE  /\ wdata'.n_offset[r] = StepInFile(wdata.ntime)' - wdata'.ntime
                    /\ stage' # "post_init" /\ fresh' > 0 /\ overlap'[r] =>
                         field'[r].new.step = StepInFile(wdata.ntime)'
  BY DEF TurnsInv
<1> DEFINE n == StepAt(time)
<1>1. W2ATypeOK /\ TimesInv /\ stage # "aborted" /\ ~astray
  BY DEF Steady, Due, UpdateTargetFields
<1>2. wdata'.n_winit = wdata.n_winit /\ wdata'.ntime = n
  BY <1>1, UpdatedData
<1>3. StepInFile(wdata.ntime)' = StepInFile(n)
  <2> HIDE DEF n
  <2>1. QED
    BY <1>2, SameFile
<1>4. CASE Reads(time)
  <2>1. /\ wdata'.n_offset[r] = StepInFile(n) - n
        /\ overlap[r] => field'[r].new.step = StepInFile(n)
    BY <1>4, ReadKeepsTurns
  <2> HIDE DEF n
  <2>2. QED
    BY <1>2, <1>3, <2>1
<1>5. CASE ~Reads(time)
  <2>1. n \in Int /\ n = wdata.ntime /\ stage # "post_init"
    BY <1>1, <1>5, StepReached
  <2>2. wdata' = Flagged(time) /\ field'[r].new = Towards(time, r)
    BY <1>5, UpdateParts DEF UpdateTargetFields
  <2>3. Flagged(time).n_offset = wdata.n_offset
    <3>1. time \in Int
      OBVIOUS
    <3>2. QED
      BY <1>1, <2>1, <3>1, FlaggedData, Zenon
  <2>4. Towards(time, r) = field[r].new
    BY <1>5 DEF Towards
  <2>5. fresh' = fresh
    BY <1>5, UpdateParts DEF UpdateTargetFields
  <2> HIDE DEF n
  <2>6. /\ wdata.n_offset[r] = StepInFile(n) - n
        /\ fresh > 0 /\ overlap[r] => field[r].new.step = StepInFile(n)
    BY <1>1, <2>1 DEF TurnsInv
  <2>7. QED
    BY <1>2, <1>3, <2>2, <2>3, <2>4, <2>5, <2>6
<1>6. QED
  BY <1>4, <1>5

LEMMA InitTurns == Init => TurnsInv
<1> SUFFICES ASSUME Init, NEW r \in Ranks
             PROVE  wdata.n_offset[r] = StepInFile(wdata.ntime) - wdata.ntime
  BY DEF Init, TurnsInv
<1>1. W2ATypeOK
  BY InitSteady DEF Steady
<1>2. PICK step \in InitSteps : wdata = [read_inputs(step) EXCEPT !.t_last = 0]
  BY DEF Init
<1> DEFINE c == read_inputs(step)
<1>3. /\ c \in WData(c.n_offset) /\ c.ntime = step /\ c.n_winit = step
      /\ c.n_offset = [s \in Ranks |-> 0] /\ step \in Nat
  BY FirstData DEF Init
<1>4. wdata = [c EXCEPT !.t_last = 0]
  BY <1>2
<1> HIDE DEF c
<1>5. wdata.ntime = step /\ wdata.n_winit = step /\ wdata.n_offset = [s \in Ranks |-> 0]
  BY <1>3, <1>4 DEF WData
<1>6. StepInFile(step) = step
  BY <1>1, <1>5, FirstTurn
<1>7. QED
  BY <1>3, <1>5, <1>6

LEMMA RestartTurns == Steady /\ Restart => TurnsInv'
<1> SUFFICES ASSUME Steady, Restart, NEW r \in Ranks
             PROVE  /\ wdata'.n_offset[r] = StepInFile(wdata.ntime)' - wdata'.ntime
                    /\ stage' = "post_init"
  BY DEF TurnsInv
<1>1. W2ATypeOK /\ TimesInv /\ last_in_file' = last_in_file
  BY DEF Steady, Restart
<1>2. /\ wdata'.ntime = wdata.n_winit /\ wdata'.n_winit = wdata.n_winit
      /\ wdata'.n_offset = [s \in Ranks |-> 0] /\ stage' = "post_init"
  BY <1>1, RestartData
<1>3. StepInFile(wdata.ntime)' = StepInFile(wdata.n_winit)
  BY <1>1, <1>2, SameFile
<1>4. StepInFile(wdata.n_winit) = wdata.n_winit /\ wdata.n_winit \in Int
  BY <1>1, FirstTurn, W2ATypes
<1>5. QED
  BY <1>2, <1>3, <1>4

LEMMA NextTurns == Steady /\ TurnsInv /\ [Next]_vars => TurnsInv'
<1> SUFFICES ASSUME Steady, TurnsInv, [Next]_vars PROVE TurnsInv'
  OBVIOUS
<1>1. W2ATypeOK /\ TimesInv
  BY DEF Steady
<1>2. CASE PostInit
  <2>1. cur_time \in Nat /\ Due(cur_time)
    BY <1>1, <1>2, PostInitTime DEF PostInit
  <2>2. UpdateTargetFields(cur_time, "evolve") /\ UNCHANGED << overlap, last_in_file >>
    BY <1>2 DEF PostInit
  <2>3. QED
    BY <2>1, <2>2, UpdateStepTurns
<1>3. CASE PreAdvance
  <2>1. PICK dt \in TimeSteps : UpdateTargetFields(cur_time + dt \div 2, "predictor")
    BY <1>3 DEF PreAdvance
  <2>2. stage \in {"evolve", "regridded"} /\ UNCHANGED << overlap, last_in_file >>
    BY <1>3 DEF PreAdvance
  <2> DEFINE time == cur_time + dt \div 2
  <2>3. time \in Nat /\ Due(time)
    BY <1>1, <2>2, PreAdvanceTime
  <2>4. UpdateTargetFields(time, "predictor")
    BY <2>1
  <2> HIDE DEF time
  <2>5. QED
    BY <2>2, <2>3, <2>4, UpdateStepTurns
<1>4. CASE PrePredictor
  <2>1. new_time \in Nat /\ Due(new_time)
    BY <1>1, <1>4, PrePredictorTime DEF PrePredictor
  <2>2. UpdateTargetFields(new_time, "post_advance") /\ UNCHANGED << overlap, last_in_file >>
    BY <1>4 DEF PrePredictor
  <2>3. QED
    BY <2>1, <2>2, UpdateStepTurns
<1>5. CASE Regrid
  <2>1. /\ stage = "evolve" /\ fresh' = 0 /\ UNCHANGED << last_in_file, astray >>
        /\ wdata' = [wdata EXCEPT !.regrid_occurred = TRUE]
    BY <1>5 DEF Regrid
  <2>2. /\ wdata'.n_offset = wdata.n_offset /\ wdata'.ntime = wdata.ntime
        /\ wdata'.n_winit = wdata.n_winit
    BY <1>1, <2>1 DEF W2ATypeOK, WData
  <2>3. StepInFile(wdata.ntime)' = StepInFile(wdata.ntime)
    BY <2>1, <2>2 DEF StepInFile
  <2>4. \A r \in Ranks : ~astray => wdata.n_offset[r] = StepInFile(wdata.ntime) - wdata.ntime
    BY <2>1 DEF TurnsInv
  <2>5. QED
    BY <2>1, <2>2, <2>3, <2>4 DEF TurnsInv
<1>6. CASE PostAdvance
  <2>1. /\ stage = "post_advance" /\ UNCHANGED << last_in_file, field, overlap, fresh, astray >>
    BY <1>6 DEF PostAdvance
  <2>2. /\ wdata'.n_offset = wdata.n_offset /\ wdata'.ntime = wdata.ntime
        /\ wdata'.n_winit = wdata.n_winit
    BY <1>1, <1>6, PostAdvanceData
  <2>3. StepInFile(wdata.ntime)' = StepInFile(wdata.ntime)
    BY <2>1, <2>2 DEF StepInFile
  <2>4. ASSUME ~astray, NEW r \in Ranks
        PROVE  /\ wdata.n_offset[r] = StepInFile(wdata.ntime) - wdata.ntime
               /\ fresh > 0 /\ overlap[r] => field[r].new.step = StepInFile(wdata.ntime)
    BY <2>1, <2>4 DEF TurnsInv
  <2>5. QED
    BY <2>1, <2>2, <2>3, <2>4 DEF TurnsInv
<1>7. CASE Restart
  BY <1>7, RestartTurns
<1>8. CASE Finished \/ UNCHANGED vars
  BY <1>8 DEF Finished, vars, TurnsInv, StepInFile
<1>9. QED
  BY <1>2, <1>3, <1>4, <1>5, <1>6, <1>7, <1>8 DEF Next

(* update_offset_timestep: for every length of the file, nominal or cut    *)
(* short, and every first step, the step that is read for a step of the    *)
(* waves is that of a file that repeats, until an update skips its end or  *)
(* the processors disagree.                                                *)
THEOREM TurnsRepeat == Spec => []WavesRepeat
<1>1. Steady /\ TurnsInv => WavesRepeat
  <2> SUFFICES ASSUME Steady, TurnsInv, NEW r \in Ranks, Updated(r), ~astray, fresh > 0
               PROVE  field[r].new.step = StepInFile(wdata.ntime)
    BY DEF WavesRepeat
  <2>1. stage \notin {"post_init", "aborted"} /\ overlap[r]
    BY DEF Steady, Updated, TimesInv
  <2>2. QED
    BY <2>1 DEF TurnsInv
<1>2. QED
  BY <1>1, SteadyInvariant, InitTurns, NextTurns, PTL DEF Spec

=============================================================================
