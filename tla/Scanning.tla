------------------------------ MODULE Scanning ------------------------------
(***************************************************************************)
(* A Sampling object with instruments that scan: a lidar with a time       *)
(* table, the DTU spinner lidar and the radar.  Spinner and radar scan     *)
(* faster than the flow steps: at every output they place the beams that   *)
(* are due since the last one, along a clock of their own which they move  *)
(* by a sample period per beam.  A beam stands here for its scan time,     *)
(* from which the code computes its direction.                             *)
(*                                                                         *)
(* Fixed steps only for spinner and radar: with an adaptive step dt is -1  *)
(* when they are initialized, and neither can be set up.  (With delay_time *)
(* the first steps have another length; then the number of cones, which    *)
(* the radar computes once, is modelled as if it followed the step.)       *)
(***************************************************************************)
EXTENDS PostProcessing, Sequences

CONSTANTS
  Instruments,    \* the sets of samplers considered, with their parameters
  UnsetClocks     \* what m_radar_time may be before it is assigned

Instrument ==
  [ devices : SUBSET {"lidar", "spinner", "radar"},
    period : Nat \ {0},              \* scan_time / num_samples, 1 / sampling_frequency
    rounded : {-1, 0, 1},            \* how dt / period comes out if it is whole
    restart_sample : BOOLEAN ]

ASSUME InstrumentsAssumption == Instruments \subseteq Instrument /\ UnsetClocks \subseteq Nat

VARIABLES
  instr,      \* the object of this run
  samplers    \* [lidar, spinner, radar]: the state of each

scan_vars == << post_vars, instr, samplers >>

Has(device) == device \in instr.devices

Outside == -1         \* m_fill_val: a beam outside the domain
NoBeams == << >>

-----------------------------------------------------------------------------
(* Beams per step.  A quotient of Reals that is a whole number in ticks    *)
(* may come out just below or just above it.                               *)

WholeRatio == dt[0] % instr.period = 0

(* int(dt_sim / dt_s) and ceil(dt_sim / dt_s) *)
SamplesPerStep == dt[0] \div instr.period - (IF WholeRatio /\ instr.rounded < 0 THEN 1 ELSE 0)
SlotsPerStep   == dt[0] \div instr.period + (IF WholeRatio /\ instr.rounded <= 0 THEN 0 ELSE 1)

\* Mutant: no correction.
TimeCorrections_None(lag) == {0}

(* (ts_diff > dt_s) ? int(ts_diff / dt_s) : 0, of a difference and a period *)
(* that are both rounded.                                                  *)
TimeCorrections(lag) ==
  IF lag <= 0 THEN {0}
  ELSE IF lag % instr.period = 0 THEN {lag \div instr.period - 1, lag \div instr.period}
  ELSE {lag \div instr.period}

(* The loop over m_ntotal beams, of which m_ns are taken.                  *)
BeamsTaken(correction) == Min2(SamplesPerStep + correction, SlotsPerStep)

Beams(from, n) ==
  [k \in 1..SlotsPerStep |-> IF k <= n THEN from + (k - 1) * instr.period ELSE Outside]

-----------------------------------------------------------------------------
(* update_sampling_locations of each instrument, in a call at time new     *)
(* within the step that began at cur, of a run that began at start.        *)

LidarAt(cur) == << cur >>

\* The call in initialize only sets the clock (m_update_count = 0).
SpinnerAtStart(new) == [clock |-> new, beams |-> NoBeams]

SpinnerUpdates(s, new) ==
  { [ clock |-> s.clock + BeamsTaken(c) * instr.period,
      beams |-> Beams(s.clock, BeamsTaken(c)) ] : c \in TimeCorrections(new - s.clock) }

NoLos == [beams |-> NoBeams, ray |-> Outside, at |-> -1]

RadarAtStart(t) ==
  [ clock |-> t, current_cones |-> NoBeams, prior_cones |-> NoBeams,
    los |-> NoLos, los_next |-> NoLos, los_prior |-> NoLos ]

RadarUpdates(r, cur, start) ==
  LET from == IF cur = start THEN cur ELSE r.clock
  IN  { [ r EXCEPT !.clock = from + BeamsTaken(c) * instr.period,
                   !.current_cones = Beams(from, BeamsTaken(c)) ] :
          c \in TimeCorrections(cur - from) }

(* calc_lineofsight_velocity: cones in the velocity of time "at".  The     *)
(* projections are those of the current cones, and of these always the     *)
(* first one is used.                                                      *)
LineOfSight(cones, r, at) == [beams |-> cones, ray |-> r.current_cones[1], at |-> at]

(* Both halves of the buffer: the cones of the last sampling and the       *)
(* current ones, in the present flow.                                      *)
ConvertVelocity(r, at) ==
  [r EXCEPT !.los = LineOfSight(r.prior_cones, r, at),
            !.los_next = LineOfSight(r.current_cones, r, at)]

\* Mutant: the velocities kept are those of the older cones.
PostSampleActions_OlderCones(r) ==
  [r EXCEPT !.prior_cones = r.current_cones, !.los_prior = r.los]

(* post_sample_actions of the radar; the others have none.                 *)
PostSampleActions(r) ==
  [r EXCEPT !.prior_cones = r.current_cones, !.los_prior = r.los_next]

-----------------------------------------------------------------------------
(* Sampling *)

Fresh(new) ==
  { [ lidar |-> NoBeams, spinner |-> SpinnerAtStart(new),
      radar |-> RadarAtStart(t), written |-> << NoLos, NoLos >> ] :
      t \in IF Has("radar") THEN UnsetClocks ELSE {0} }

(* The beams are placed, then all fields are sampled, at new_time.         *)
Sampled(s, sp, ra, new, cur) ==
  [ s EXCEPT
      !.lidar = IF Has("lidar") THEN LidarAt(cur) ELSE NoBeams,
      !.spinner = sp,
      !.radar = IF Has("radar") THEN ConvertVelocity(ra, new) ELSE s.radar ]

SamplingWorkflow(s, new, cur, start) ==
  { Sampled(s, sp, ra, new, cur) :
      sp \in IF Has("spinner") THEN SpinnerUpdates(s.spinner, new) ELSE {s.spinner},
      ra \in IF Has("radar") THEN RadarUpdates(s.radar, cur, start) ELSE {s.radar} }

(* output_netcdf_field of the radar interpolates between these two.        *)
ProcessOutput(s) == [s EXCEPT !.written = << s.radar.los_prior, s.radar.los >>]

SamplingPost(s) == [s EXCEPT !.radar = PostSampleActions(s.radar)]

SampleOutput(s, new, cur, start) ==
  { SamplingPost(ProcessOutput(w)) : w \in SamplingWorkflow(s, new, cur, start) }

InitializeSampling(new) ==
  IF instr.restart_sample
  THEN UNION { { SamplingPost(w) : w \in SamplingWorkflow(s, new, new, new) } : s \in Fresh(new) }
  ELSE Fresh(new)

SetUp(due, new) ==
  IF due THEN UNION { SampleOutput(s, new, new, new) : s \in InitializeSampling(new) }
  ELSE InitializeSampling(new)

(* The radar asserts dt >= period.  Without a spinner in the same object   *)
(* the container asserts that all points are in the domain, and those of   *)
(* the cones of the radar that are not taken are not.                      *)
CanBeSetUp(i) ==
  /\ i.rounded # 0 => dt[0] % i.period = 0
  /\ i.devices \cap {"spinner", "radar"} # {} => ~Adaptive
  /\ "radar" \in i.devices =>
       /\ "spinner" \in i.devices
       /\ i.period < dt[0] \/ (i.period = dt[0] /\ i.rounded >= 0)

-----------------------------------------------------------------------------
(* The object within the run *)

ScanInit ==
  /\ PostInit
  /\ instr \in {i \in Instruments : CanBeSetUp(i)}
  /\ samplers \in Fresh(0)

ScanStart(c) ==
  /\ PostStart(c)
  /\ samplers' \in SetUp(OutputDue, new_time)
  /\ UNCHANGED instr

ScanRestart(chk) ==
  /\ PostRestart(chk)
  /\ samplers' \in SetUp(post_out'.count > post_out.count, chk.time)
  /\ UNCHANGED instr

ScanStep(c) == PostStep(c) /\ UNCHANGED << instr, samplers >>

ScanIfOutput(due) ==
  /\ samplers' \in IF due THEN SampleOutput(samplers, new_time, cur_time, start_time)
                          ELSE {samplers}
  /\ UNCHANGED instr

ScanAdvance == PostAdvance /\ ScanIfOutput(OutputDue)

ScanFinal == PostFinal /\ ScanIfOutput(FinalDue)

ScanNext ==
  \/ \E c \in CflDts : ScanStart(c) \/ ScanStep(c)
  \/ \E chk \in Checkpoints : ScanRestart(chk)
  \/ ScanAdvance
  \/ ScanFinal
  \/ Stopped /\ UNCHANGED scan_vars

ScanSpec == ScanInit /\ [][ScanNext]_scan_vars

-----------------------------------------------------------------------------
(* The beams of the last output are of times around it.                    *)
BeamsAreRecent(beams, behind, ahead) ==
  \A k \in DOMAIN beams :
    beams[k] # Outside => beams[k] \in (post_out.time - behind) .. (post_out.time + ahead)

(* How often the beams of a step are placed at the start already.          *)
StartSamples == IF instr.restart_sample THEN 2 ELSE 1

EveryStep == post.interval = 1 /\ post.delay <= 0
EqualSteps == ~Adaptive /\ cfg.delay_time <= 0

(* An object that is sampled in every step of a run with equal steps keeps *)
(* its instruments with the flow for as long as the run lasts, however     *)
(* step and sample period divide: spinner beams are at most two periods    *)
(* behind the flow they are sampled in and at most a step ahead of it      *)
(* (what the sampling at the start has run ahead), the lidar and the       *)
(* radar, which look at current_time, a step further behind.               *)
InstrumentsKeepPace ==
  EveryStep /\ EqualSteps /\ stage \notin {"init", "abort"} =>
    /\ BeamsAreRecent(samplers.lidar, dt[0], 0)
    /\ BeamsAreRecent(samplers.spinner.beams, 2 * instr.period, StartSamples * dt[0])
    /\ BeamsAreRecent(samplers.radar.prior_cones, dt[0] + 2 * instr.period, dt[0])

(* The line-of-sight velocities the radar interpolates in time are of the  *)
(* same cones, placed at the last output and sampled there and again at    *)
(* this one.                                                               *)
ConesSeenTwice ==
  [][Has("radar") /\ post_out.count > 0 /\ post_out'.count > post_out.count
     => LET then == samplers'.written[1]
            now  == samplers'.written[2]
        IN  /\ then.beams = now.beams
            /\ then.at = post_out.time
            /\ now.at = post_out'.time]_scan_vars

(* TimeCorrections is there for the "time mismatch" (the comment of        *)
(* update_sampling_locations in both samplers): an instrument that is      *)
(* sampled less often catches up.                                          *)
InstrumentsCatchUp ==
  stage \notin {"init", "abort"} /\ post_out.count > 0
  => BeamsAreRecent(samplers.spinner.beams, dt[0] + 2 * instr.period, StartSamples * dt[0])

(* Every velocity the radar writes is projected along the cone it was      *)
(* sampled in.                                                             *)
ProjectedAlongItsCone ==
  \A k \in DOMAIN samplers.radar.los_next.beams :
    samplers.radar.los_next.beams[k] \in {samplers.radar.los_next.ray, Outside}

-----------------------------------------------------------------------------
(* Why these hold. *)

ScanTypeOK ==
  /\ instr \in Instruments
  /\ DOMAIN samplers = {"lidar", "spinner", "radar", "written"}
  /\ DOMAIN samplers.radar =
       {"clock", "current_cones", "prior_cones", "los", "los_next", "los_prior"}

(* What the radar keeps for the next output was sampled at this one, in    *)
(* the cones it keeps.                                                     *)
ConesInv ==
  Has("radar") /\ post_out.count > 0 =>
    /\ samplers.radar.los_prior.beams = samplers.radar.prior_cones
    /\ samplers.radar.los_prior.at = post_out.time

EqualStepsInv == EqualSteps => dt[0] = cfg.fixed_dt

(* The clocks are set so that at the next output the spinner is at most    *)
(* two periods behind, and ahead by what it was sampled too often at the   *)
(* start; the radar starts again with the first step.                      *)
PaceInv ==
  EveryStep /\ EqualSteps /\ stage \notin {"init", "abort"} =>
    /\ post_out.time = Reached
    /\ Has("spinner") =>
         samplers.spinner.clock \in (post_out.time + dt[0] - 2 * instr.period)
                                   .. (post_out.time + StartSamples * dt[0])
    /\ ~Has("spinner") => samplers.spinner.beams = NoBeams
    /\ Has("radar") /\ post_out.time > start_time =>
         samplers.radar.clock \in (post_out.time - 2 * instr.period) .. post_out.time
    /\ ~Has("radar") => samplers.radar.current_cones = NoBeams

ScanInv == ScanTypeOK /\ ConesInv /\ EqualStepsInv /\ PaceInv

=============================================================================
