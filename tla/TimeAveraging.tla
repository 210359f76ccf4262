---------------------------- MODULE TimeAveraging ----------------------------
(***************************************************************************)
(* The running mean of a field (TimeAveraging with ReAveraging), updated   *)
(* from the post-processing hooks of the time loop.  The mean is linear in *)
(* the samples, so it is modelled by the weight it gives to each of them:  *)
(* num[t] / den is the weight of the field at time t, num[Restored] / den  *)
(* that of the mean read from the checkpoint of a restarted run.           *)
(*                                                                         *)
(* A tick is one unit of simulation time here (m_dt is -1.0 when unset).   *)
(***************************************************************************)
EXTENDS Evolve, Sequences

CONSTANTS
  Averages,   \* the parameters of the averages considered
  MaxTime     \* no run goes past this time

Average == [ start_time : Nat, stop_time : Nat, time_interval : Int, window : Nat ]

ASSUME AveragesAssumption == Averages \subseteq Average /\ MaxTime \in Nat

VARIABLES
  avg,          \* the parameters, never changed
  accumulated,  \* m_accumulated_avg_time_interval
  mean,         \* [num, den], den = 0: divided by zero (inf or NaN)
  samples       \* history: the times sampled by this run, in order

avg_vars == << evolve_vars, avg, accumulated, mean, samples >>

Restored == -1
SampleIds == {Restored} \cup 0..MaxTime

Undefined == [num |-> [s \in SampleIds |-> 0], den |-> 0]

(* A new field is zero everywhere: it gives no weight to anything.         *)
ZeroField == [num |-> [s \in SampleIds |-> 0], den |-> 1]
RestoredField == [num |-> [s \in SampleIds |-> IF s = Restored THEN 1 ELSE 0], den |-> 1]

AvgInit ==
  /\ Init
  /\ avg \in Averages
  /\ accumulated = 0
  /\ mean = ZeroField
  /\ samples = << >>

-----------------------------------------------------------------------------
(* ReAveraging::operator() *)

Filter(interval, elapsed) == Max2(Min2(avg.window, elapsed), interval)

\* Mutant: the old mean keeps the weight of the whole window.
Factor_Whole(interval, elapsed) == Filter(interval, elapsed)

Factor(interval, elapsed) == Max2(Filter(interval, elapsed) - interval, 0)

(* (mean * factor + field(t) * interval) / filter                          *)
MeanWith(old, t, interval, elapsed) ==
  LET filter == Filter(interval, elapsed)
      factor == Factor(interval, elapsed)
  IN  IF old.den = 0 \/ filter = 0 THEN Undefined
      ELSE [num |-> [s \in SampleIds |->
                       old.num[s] * factor + (IF s = t THEN interval * old.den ELSE 0)],
            den |-> old.den * filter]

-----------------------------------------------------------------------------
(* TimeAveraging::post_advance_work at time t with the step d.             *)

\* Mutant: a period's boundary belongs to the steps on both of its sides.
OnPhase_Inclusive(t, d) ==
  avg.time_interval < 0 \/ (t - avg.start_time) % avg.time_interval <= d

OnPhase(t, d) ==
  avg.time_interval < 0 \/ (t - avg.start_time) % avg.time_interval < d

DoAvg(t, d) == t >= avg.start_time /\ t < avg.stop_time /\ OnPhase(t, d)

Accumulate(t, d) == accumulated' = IF DoAvg(t, d) THEN 0 ELSE accumulated + d

\* Mutant: the last step only, not the steps since the last sample.
SampledInterval_LastStep(d) == d

SampledInterval(d) == accumulated + d

AvgWork(old, t, d) ==
  /\ Accumulate(t, d)
  /\ IF DoAvg(t, d)
     THEN /\ mean' = MeanWith(old, t, SampledInterval(d), t - avg.start_time)
          /\ samples' = Append(samples, t)
     ELSE mean' = old /\ UNCHANGED samples

(* post_init_actions calls post_advance_work too, before the initial       *)
(* iterations have set dt.                                                 *)
AvgStart(c) ==
  /\ NoInitialIterations \/ InitialIterations(c) \/ (stage = "init" /\ CflAbort(c))
  /\ AvgWork(mean, new_time, dt[0])
  /\ UNCHANGED avg

(* register_io_var: the mean is a field of the checkpoint.                 *)
AvgRestart(chk) ==
  /\ ReadCheckpointFile(chk)
  /\ AvgWork(RestoredField, chk.time, dt[0])
  /\ UNCHANGED avg

AvgStep(c) ==
  /\ \/ PrepareForTimeIntegration \/ StartStep \/ PreAdvance \/ ComputeDt(c)
     \/ OutputAtFinalTime
     \/ stage = "dt" /\ CflAbort(c)
  /\ UNCHANGED << avg, accumulated, mean, samples >>

AvgAdvance ==
  /\ PostAdvanceWork
  /\ AvgWork(mean, new_time, dt[0])
  /\ UNCHANGED avg

AvgNext ==
  \/ \E c \in CflDts : AvgStart(c) \/ AvgStep(c)
  \/ \E chk \in Checkpoints : AvgRestart(chk)
  \/ AvgAdvance
  \/ Stopped /\ UNCHANGED avg_vars

AvgSpec == AvgInit /\ [][AvgNext]_avg_vars

-----------------------------------------------------------------------------
FirstRun == start_time = 0

(* The step is known when the first sample is taken.  An adaptive run adds *)
(* the -1 of an unset dt to the accumulated interval first.                *)
StepsKnown == ~Adaptive \/ (FirstRun /\ avg.start_time > 1)

(* The sum of the weights, from that of the restored mean to the last one. *)
SumOf(num) ==
  LET upTo[s \in SampleIds] == num[s] + (IF s = Restored THEN 0 ELSE upTo[s - 1])
  IN  upTo[MaxTime]

IsAverage ==
  samples # << >> =>
    /\ mean.den > 0
    /\ \A s \in SampleIds : mean.num[s] >= 0
    /\ SumOf(mean.num) = mean.den

(* The mean is a mean: its weights are never negative and add up to one,   *)
(* with and without a window, after a restart, and when phases are sampled *)
(* at another rate than the steps.  (It cannot then leave the range of the *)
(* samples, and the mean of a constant field is that constant.)            *)
MeanIsAverage == StepsKnown => IsAverage

(* inputs_Averaging.rst: "Time-averaging can be done to compute the means  *)
(* of any variable", with averaging_start_time 0 by default.               *)
MeanIsAlwaysAverage == IsAverage

(* Without a window the weight of each sample is the time since the sample *)
(* before it, out of the time since averaging started: the mean is the     *)
(* time average, however the steps vary and whatever phases are sampled.   *)
MeanIsTimeAverage ==
  StepsKnown /\ FirstRun /\ avg.window >= MaxTime /\ samples # << >> =>
    LET elapsed == samples[Len(samples)] - avg.start_time
        since(i) == IF i = 1 THEN avg.start_time ELSE samples[i - 1]
    IN  elapsed > 0 =>
          \A i \in DOMAIN samples :
            mean.num[samples[i]] * elapsed = mean.den * (samples[i] - since(i))

Phase(t) == (t - avg.start_time) \div avg.time_interval

(* Phase averaging takes one sample in every period that a step ends in,   *)
(* from the start of averaging to its end.                                 *)
OneSamplePerPhase ==
  StepsKnown /\ FirstRun /\ avg.time_interval > 0 =>
    /\ \A i, j \in DOMAIN samples : i < j => Phase(samples[i]) < Phase(samples[j])
    /\ stage = "top" /\ ~is_init /\ new_time >= avg.start_time /\ new_time < avg.stop_time
         => samples # << >> /\ Phase(samples[Len(samples)]) = Phase(new_time)
-----------------------------------------------------------------------------
(* Why phases and weights are what they are.  Time is sampled up to t:     *)
(* the samples are in order, and the accumulated interval is the time      *)
(* since the last of them, or since before the start where there is none.  *)

LastSample == samples[Len(samples)]

SamplesUpTo(t) ==
  /\ \A i \in DOMAIN samples : avg.start_time <= samples[i] /\ samples[i] <= t
  /\ \A i, j \in DOMAIN samples : i < j => samples[i] < samples[j]
  /\ IF samples = << >> THEN accumulated >= (IF Adaptive THEN t - 1 ELSE t + 1)
                        ELSE accumulated = t - LastSample

PhasesUpTo(t) ==
  avg.time_interval > 0 =>
    /\ \A i, j \in DOMAIN samples : i < j => Phase(samples[i]) < Phase(samples[j])
    /\ t >= avg.start_time /\ t < avg.stop_time
         => samples # << >> /\ Phase(LastSample) = Phase(t)

(* Nothing later than t has a weight, and the samples share the weight of  *)
(* the time from the start of averaging to the last of them.               *)
WeightsUpTo(t) ==
  avg.window >= MaxTime /\ t <= MaxTime =>
    /\ mean.den > 0
    /\ \A s \in SampleIds : s > t => mean.num[s] = 0
    /\ samples # << >> => \A i \in DOMAIN samples :
         mean.num[samples[i]] * (LastSample - avg.start_time)
           = mean.den * (samples[i] - (IF i = 1 THEN avg.start_time ELSE samples[i - 1]))

AvgTypeOK ==
  /\ avg \in Average
  /\ accumulated \in Int
  /\ mean \in [num : [SampleIds -> Int], den : Int]
  /\ samples \in Seq(Int)

AvgInv ==
  /\ stage = "init" =>
       /\ samples = << >> /\ accumulated = 0 /\ mean = ZeroField
       /\ ~Adaptive => dt[0] >= 1
       /\ Adaptive => dt[0] = -1
  /\ stage # "init" /\ StepsKnown /\ FirstRun =>
       SamplesUpTo(Reached) /\ PhasesUpTo(Reached) /\ WeightsUpTo(Reached)

(* No weight is negative, and they add up to one from the first sample on, *)
(* or from the restart on: the interval that is sampled is at least a      *)
(* tick, and no shorter than the time averaged where it is the first.      *)
MeanInv ==
  stage # "init" /\ StepsKnown =>
    /\ ~FirstRun => accumulated >= 0
    /\ mean.den > 0
    /\ \A s \in SampleIds : mean.num[s] >= 0
    /\ samples # << >> \/ ~FirstRun => SumOf(mean.num) = mean.den

=============================================================================
