------------------------------ MODULE W2AWaves ------------------------------
(***************************************************************************)
(* Ocean waves read from the modes file of a HOS simulation.  The file has *)
(* the waves at steps of dt_modes.  The target fields at any other time    *)
(* are interpolated between two steps: w2a New holds the step after that   *)
(* time, w2a Old the wave at the time of the last interpolation.  Which    *)
(* steps are read, and when, follows from the step and the time that were  *)
(* used last; the end of the file sends the reader back to where it began. *)
(*                                                                         *)
(* Time is an integer, such that half a step of the flow is one too.  The  *)
(* contents of a field are the time of the wave in it (its shape, heights  *)
(* and directions are left out).  Each processor has its part of them, and *)
(* reads the file only if its boxes reach into the zones of the waves.     *)
(***************************************************************************)
EXTENDS Integers, FiniteSetsExt

CONSTANTS
  Ranks,         \* the processors
  dt_modes,      \* time between two steps of the modes file
  n_wstop,       \* nominal last step of the file, from its header
  LastSteps,     \* last step that the file has: it may have been cut short
  InitSteps,     \* HOS_init_timestep of the input files
  TimeSteps,     \* the time steps of the flow, even numbers
  MaxTime, MaxLaunches, MaxRegrids      \* bounds

ASSUME ModesAssumption ==
  /\ dt_modes \in Nat \ {0} /\ n_wstop \in Nat /\ LastSteps \subseteq 0..n_wstop
  /\ \A step \in InitSteps, last \in LastSteps : step \in 0..last
  /\ \A dt \in TimeSteps : dt \in Nat \ {0} /\ dt % 2 = 0

VARIABLES
  last_in_file,
  stage,     \* where the program is
  cur_time, new_time,
  wdata,     \* W2AWavesData; n_offset and do_interp of each processor
  field,     \* contents of w2a Old, w2a New and ow (the target), on each
  overlap,   \* whether the boxes of a processor reach into a relaxation zone
  asked,     \* time of the last update of the targets
  saved,     \* time of the checkpoint on disk
  launches, regrids,
  fresh,     \* steps read since the levels were remade
  astray     \* an update that skipped steps went beyond the end of the file, or
             \* the processors disagree on where they are in it

vars == << last_in_file, stage, cur_time, new_time, wdata, field, overlap, asked, saved,
           launches, regrids, fresh, astray >>

(* Contents of a field *)
Wave(time, step) == [kind |-> "wave", at |-> time, step |-> step]
Quiescent == [kind |-> "quiescent"]
Zero == [kind |-> "zero"]           \* AMReX has made the level anew
Wrong == [kind |-> "wrong"]

NotYet == -1

-----------------------------------------------------------------------------
(* The modes file (Waves2AMR) *)

(* The first step that is not before the time. *)
time2step(time) == (time + dt_modes - 1) \div dt_modes

get_data(step) == step \in 0..last_in_file

-----------------------------------------------------------------------------
(* waves2amr_ops.H *)

\* Mutant: the first step is read twice, once more after the last one.
update_offset_timestep_Next(ntime, n0) == -ntime + n0 + 1

update_offset_timestep(ntime, n0) == -ntime + n0

(* The step that a processor reads for ntime + off, after at most one      *)
(* return to the first.                                                    *)
Reader(w, r, off) ==
  LET step == w.ntime + w.n_offset[r] + off
      offset == IF get_data(step) THEN w.n_offset[r]
                ELSE update_offset_timestep(w.ntime, w.n_winit)
      again == w.ntime + offset + off
  IN [step |-> again, n_offset |-> offset, ok |-> get_data(again)]

(* The end of the nominal file *)
CheckStop(w) ==
  [w EXCEPT !.n_offset = [r \in Ranks |->
     IF w.ntime + @[r] > n_wstop THEN update_offset_timestep(w.ntime, w.n_winit) ELSE @[r]]]

(* HOS_init_timestep; the waves of the first step are read at once. *)
read_inputs(step) ==
  CheckStop([ntime |-> step, n_winit |-> step, t_winit |-> dt_modes * step,
             n_offset |-> [r \in Ranks |-> 0], t |-> 0, t_last |-> NotYet,
             do_interp |-> [r \in Ranks |-> TRUE],
             resize_flag |-> FALSE, regrid_occurred |-> FALSE])

(* "Always get modes on every processor for initialization" *)
FirstWave(w, r) == Wave(0, Reader(w, r, 0).step)

(* The solution and the target start as the first waves; "default w2a      *)
(* values matter for where no updates happen".                             *)
InitData(w) ==
  [r \in Ranks |->
     [old |-> FirstWave(w, r), new |-> Quiescent, target |-> FirstWave(w, r)]]

NewLevels == [r \in Ranks |-> [old |-> Zero, new |-> Zero, target |-> Zero]]

\* Mutant: a restart reads only the step after its time.
evaluate_read_resize_SingleRead(w, new_ntime, time) ==
  LET moved == new_ntime # w.ntime
      wtime == IF moved THEN new_ntime * dt_modes - w.t_winit ELSE w.t
  IN [read |-> moved \/ w.t_last <= 0,
      double_data |-> IF ~moved \/ new_ntime <= w.ntime + 1 \/ w.t_last < 0 THEN 0
                      ELSE IF wtime = time THEN 2 ELSE 1,
      w |-> [w EXCEPT !.ntime = new_ntime, !.t = wtime, !.t_last = time,
                      !.resize_flag = @ \/ w.t_last <= 0]]

(* Whether to read, and what for w2a Old: 0 - the step that w2a New held,  *)
(* 1 - the step before is read too, 2 - none, since the time is that of    *)
(* the step.  t_last < 0: a restart, or a start without waves; t_last = 0: *)
(* the start.                                                              *)
evaluate_read_resize(w, new_ntime, time) ==
  LET moved == new_ntime # w.ntime
      wtime == IF moved THEN new_ntime * dt_modes - w.t_winit ELSE w.t
      skipped == moved /\ new_ntime > w.ntime + 1
  IN [read |-> moved \/ w.t_last <= 0,
      double_data |-> IF ~skipped /\ w.t_last >= 0 THEN 0
                      ELSE IF wtime = time THEN 2 ELSE 1,
      w |-> [w EXCEPT !.ntime = new_ntime, !.t = wtime, !.t_last = time,
                      !.resize_flag = @ \/ w.t_last <= 0]]

(* Only processors whose boxes reach into the zones interpolate, from the  *)
(* next time that data are read.                                           *)
Resize(w) ==
  IF w.resize_flag THEN [w EXCEPT !.resize_flag = FALSE, !.do_interp = overlap] ELSE w

(* "Only perform reading where needed, communicate offset though" *)
ReduceOffset(w) ==
  [w EXCEPT !.n_offset = [r \in Ranks |-> Max({@[s] : s \in Ranks})]]

(* Old becomes a * Old + b * New with b = (t_new - t_old) / (t_future -    *)
(* t_old): the wave at t_new if both held waves of the times that b takes  *)
(* them for, or as far from them as makes no difference.                   *)
time_interpolate_wave_fields(old, future, t_old, t_new, t_future) ==
  CASE t_new = t_old -> old
    [] t_new # t_old /\ t_new = t_future -> future
    [] OTHER ->
         IF Zero \in {old, future} THEN Zero
         ELSE IF /\ {old.kind, future.kind} = {"wave"}
                 /\ t_old # t_future
                 /\ (t_new - old.at) * (t_future - t_old) =
                    (t_new - t_old) * (future.at - old.at)
                 /\ future.at - old.at \in 0..dt_modes
           THEN Wave(t_new, future.step)
           ELSE Wrong

(* The steps of the file that a processor puts into w2a Old, if need be,   *)
(* and into w2a New.                                                       *)
ReadFields(w, r, double_data) ==
  LET before == Reader(w, r, -1)
      double == double_data = 1 /\ w.do_interp[r]
      now == Reader(IF double THEN [w EXCEPT !.n_offset[r] = before.n_offset] ELSE w, r, 0)
  IN [n_offset |-> IF w.do_interp[r] THEN now.n_offset ELSE w.n_offset[r],
      ok |-> w.do_interp[r] => now.ok /\ (double => before.ok),
      old |-> CASE double_data = 0 -> field[r].new
                [] double -> Wave(w.t - dt_modes, before.step)
                [] OTHER -> field[r].old,
      new |-> IF w.do_interp[r] THEN Wave(w.t, now.step) ELSE field[r].new]

(* What an update of the targets for the time does: to wdata, to the       *)
(* fields, and whether all could read what they need.                      *)
Update(time) ==
  LET e == evaluate_read_resize(wdata, time2step(time + wdata.t_winit), time)
      flagged == [e.w EXCEPT !.resize_flag = @ \/ e.w.regrid_occurred]
      reader == ReduceOffset(Resize(CheckStop(flagged)))
      got == [r \in Ranks |-> ReadFields(reader, r, e.double_data)]
      offsets == [r \in Ranks |-> got[r].n_offset]
      in == IF e.read THEN got ELSE field
      t_last == IF e.read THEN (e.w.ntime - 1) * dt_modes ELSE wdata.t_last
      target == [r \in Ranks |->
        time_interpolate_wave_fields(in[r].old, in[r].new, t_last, time, e.w.t)]
  IN [read |-> e.read,
      ok |-> e.read => \A r \in Ranks : got[r].ok,
      wdata |-> IF e.read THEN [reader EXCEPT !.n_offset = offsets] ELSE flagged,
      field |-> [r \in Ranks |->
        [old |-> target[r], new |-> in[r].new, target |-> target[r]]],
      astray |-> e.read /\
        \/ e.double_data # 0 /\ offsets # wdata.n_offset
        \/ \E r, s \in Ranks : offsets[r] # offsets[s]]

UpdateTargetFields(time, next) ==
  LET u == Update(time)
  IN /\ wdata' = u.wdata /\ field' = u.field /\ asked' = time
     /\ fresh' = IF u.read /\ fresh < 2 THEN fresh + 1 ELSE fresh
     /\ astray' = (astray \/ u.astray)
     /\ stage' = IF u.ok THEN next ELSE "aborted"

-----------------------------------------------------------------------------
(* OceanWaves, from the first launch to the last *)

(* The zones are in the domain: some processor has them. *)
Overlaps == {o \in [Ranks -> BOOLEAN] : \E r \in Ranks : o[r]}

Init ==
  /\ last_in_file \in LastSteps
  /\ stage = "post_init" /\ cur_time = 0 /\ new_time = 0
  /\ \E step \in InitSteps : wdata = [read_inputs(step) EXCEPT !.t_last = 0]
  /\ field = InitData(wdata)
  /\ overlap \in Overlaps
  /\ asked = NotYet /\ saved = NotYet /\ launches = 1 /\ regrids = 0 /\ fresh = 2
  /\ astray = FALSE

PostInit ==
  /\ stage = "post_init"
  /\ UpdateTargetFields(cur_time, "evolve")
  /\ UNCHANGED << last_in_file, cur_time, new_time, overlap, saved, launches, regrids >>

(* The levels are remade: none of these fields is filled on a regrid. *)
Regrid ==
  /\ stage = "evolve" /\ regrids < MaxRegrids
  /\ field' = NewLevels
  /\ overlap' \in Overlaps
  /\ wdata' = [wdata EXCEPT !.regrid_occurred = TRUE]
  /\ regrids' = regrids + 1 /\ fresh' = 0 /\ asked' = NotYet /\ stage' = "regridded"
  /\ UNCHANGED << last_in_file, cur_time, new_time, saved, launches, astray >>

PreAdvance ==
  /\ stage \in {"evolve", "regridded"}
  /\ \E dt \in TimeSteps :
       /\ cur_time + dt <= MaxTime
       /\ new_time' = cur_time + dt
       /\ UpdateTargetFields(cur_time + dt \div 2, "predictor")
  /\ UNCHANGED << last_in_file, cur_time, overlap, saved, launches, regrids >>

PrePredictor ==
  /\ stage = "predictor"
  /\ UpdateTargetFields(new_time, "post_advance")
  /\ UNCHANGED << last_in_file, cur_time, new_time, overlap, saved, launches, regrids >>

(* The relaxation zones use the targets; the step may be checkpointed. *)
PostAdvance ==
  /\ stage = "post_advance" /\ stage' = "evolve"
  /\ wdata' = [wdata EXCEPT !.regrid_occurred = FALSE]
  /\ cur_time' = new_time
  /\ saved' \in {saved, new_time}
  /\ UNCHANGED << last_in_file, new_time, field, overlap, asked, launches, regrids, fresh, astray >>

(* wdata is made anew and nothing of it is in a checkpoint. *)
Restart ==
  /\ stage # "aborted" /\ saved # NotYet /\ launches < MaxLaunches
  /\ launches' = launches + 1
  /\ cur_time' = saved /\ new_time' = saved /\ stage' = "post_init"
  /\ wdata' = read_inputs(wdata.n_winit)
  /\ field' = NewLevels
  /\ overlap' \in Overlaps
  /\ asked' = NotYet /\ fresh' = 2
  /\ astray' = FALSE
  /\ UNCHANGED << last_in_file, saved, regrids >>

Finished ==
  /\ \/ stage = "aborted"
     \/ stage \in {"evolve", "regridded"} /\ \A dt \in TimeSteps : cur_time + dt > MaxTime
  /\ UNCHANGED vars

Next ==
  \/ PostInit \/ Regrid \/ PreAdvance \/ PrePredictor \/ PostAdvance \/ Restart \/ Finished

Spec == Init /\ [][Next]_vars

-----------------------------------------------------------------------------
(* Properties *)

Updated(r) == asked # NotYet /\ stage # "aborted" /\ overlap[r]

TargetIsTheWaveAsked(r) ==
  field[r].target.kind = "wave" /\ field[r].target.at = asked

(* After every update the target is the wave at the time it was made for,  *)
(* however many steps of the file lie between two updates and whatever was *)
(* restarted in between.  Two things are excused: waves that do not begin  *)
(* at the first step of the file (see TargetsHaveTheirTime), and levels    *)
(* that a regrid has made anew, which hold nothing until two more steps of *)
(* the file have been read: the interpolation does not know.               *)
TargetsAtTheirTime ==
  \A r \in Ranks : Updated(r) /\ wdata.n_winit = 0 =>
    TargetIsTheWaveAsked(r) \/ (field[r].target = Zero /\ fresh < 2)

(* "Time (in HOS sim) to begin reading from (this corresponds to t = 0 in  *)
(* Kynema-SGF sim, functions as offset)": the waves may begin at any step. *)
TargetsHaveTheirTime ==
  \A r \in Ranks : Updated(r) /\ regrids = 0 => TargetIsTheWaveAsked(r)

(* The step of the file that is used for a step n of the waves: beyond the *)
(* end, the steps from the first one again.                                *)
StepInFile(n) ==
  IF n <= last_in_file THEN n
  ELSE wdata.n_winit + ((n - last_in_file - 1) % (last_in_file - wdata.n_winit + 1))

(* The waves repeat with the length of the file: every step of it is used  *)
(* once in each turn, whether its end is the nominal one or comes early,   *)
(* and a run that is restarted before the end goes on with the same waves. *)
(* An update that skips steps of the file over its end, the first one of a *)
(* run that is restarted beyond it among them, shifts the turns; so do     *)
(* processors that do not read, when the end comes early: the offset that  *)
(* is communicated is the largest, and theirs is larger than that of the   *)
(* processors that have met the end.                                       *)
WavesRepeat ==
  \A r \in Ranks : Updated(r) /\ ~astray /\ fresh > 0 =>
    field[r].new.step = StepInFile(wdata.ntime)

-----------------------------------------------------------------------------
(* Why these hold. *)

(* The offsets are those of TurnsInv. *)
WData(offsets) ==
  [ ntime : Int, n_winit : InitSteps, t_winit : Int, n_offset : {offsets},
    t : Int, t_last : Int, do_interp : [Ranks -> BOOLEAN],
    resize_flag : BOOLEAN, regrid_occurred : BOOLEAN ]

W2ATypeOK ==
  /\ last_in_file \in LastSteps
  /\ stage \in {"post_init", "evolve", "regridded", "predictor", "post_advance", "aborted"}
  /\ cur_time \in Nat /\ new_time \in Nat
  /\ wdata \in WData(wdata.n_offset)
  /\ overlap \in Overlaps
  /\ asked \in Nat \cup {NotYet} /\ saved \in Nat \cup {NotYet}
  /\ fresh \in 0..2 /\ astray \in BOOLEAN

(* The reader is at the first step of the file that is not before the time *)
(* of the last update, which lies where the program is.                    *)
TimesInv ==
  /\ wdata.t_winit = dt_modes * wdata.n_winit
  /\ wdata.t = dt_modes * wdata.ntime - wdata.t_winit
  /\ saved # NotYet => saved > 0
  /\ stage = "post_init" =>
       /\ wdata.ntime = wdata.n_winit /\ asked = NotYet
       /\ (wdata.t_last = 0 /\ cur_time = 0) \/ (wdata.t_last = NotYet /\ cur_time > 0)
  /\ stage \notin {"post_init", "aborted"} =>
       /\ wdata.t_last >= 0 /\ asked \in {NotYet, wdata.t_last}
       /\ wdata.ntime = time2step(wdata.t_last + wdata.t_winit)
  /\ stage \in {"evolve", "regridded"} => wdata.t_last = cur_time
  /\ stage = "predictor" => wdata.t_last < new_time
  /\ stage = "post_advance" => wdata.t_last = new_time
  /\ stage \in {"predictor", "post_advance"} => cur_time < new_time

(* Who needs the waves reads them, from the next time on that any are.     *)
ReadersInv ==
  stage # "aborted" =>
    \A r \in Ranks : overlap[r] =>
      \/ wdata.do_interp[r] \/ wdata.resize_flag
      \/ stage = "regridded" /\ wdata.regrid_occurred

IsWaveAt(f, time) == f.kind = "wave" /\ f.at = time

(* The two waves that are interpolated: w2a Old has the time of the last   *)
(* update, w2a New that of the step of the file.                           *)
FieldsInv ==
  stage \notin {"post_init", "aborted"} /\ wdata.n_winit = 0 =>
    /\ fresh = 0 => \A r \in Ranks : field[r].old = Zero /\ field[r].new = Zero
    /\ fresh > 0 => \A r \in Ranks : overlap[r] =>
         /\ IsWaveAt(field[r].new, wdata.t)
         /\ IsWaveAt(field[r].old, wdata.t_last) \/ (field[r].old = Zero /\ fresh = 1)
    /\ asked # NotYet => \A r \in Ranks : field[r].target = field[r].old

(* All processors are at the same step of the file, in the same turn.      *)
TurnsInv ==
  stage # "aborted" /\ ~astray =>
    \A r \in Ranks :
      /\ wdata.n_offset[r] = StepInFile(wdata.ntime) - wdata.ntime
      /\ stage # "post_init" /\ fresh > 0 /\ overlap[r] =>
           field[r].new.step = StepInFile(wdata.ntime)

W2AInv == W2ATypeOK /\ TimesInv /\ ReadersInv /\ FieldsInv /\ TurnsInv

=============================================================================
