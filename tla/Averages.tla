------------------------------ MODULE Averages ------------------------------
(***************************************************************************)
(* The statistics of the atmospheric boundary layer (ABLStats): averages   *)
(* over horizontal planes, which the wall model and the forcing terms take *)
(* from there, moments of second and third order, and their files; the     *)
(* initial flow; and the forcing towards mesoscale profiles.  Averages are *)
(* on the host; c.stats says how often statistics are written, and how.    *)
(***************************************************************************)
EXTENDS Actuators

Exists(f, c) ==
  f \in {"velocity", "density"} \/ (\E i \in DOMAIN c.scalars : c.scalars[i] = f) \/ f \in c.extra

WithExisting(fs, optional, c) == fs \cup {f \in optional : Exists(f, c)}

Hosts(names) == {Host(name) : name \in names}

(* A term of this name is among the sources of some equation.              *)
SourceIn(name, c) == \E eqn \in DOMAIN c.sources : \E i \in DOMAIN c.sources[eqn] : c.sources[eqn][i] = name

-----------------------------------------------------------------------------
(* FieldPlaneAveraging.  An average of the velocity comes with derivatives *)
(* along the line, and with the averages of the horizontal speed.          *)

Deriv(plane) == << plane, "deriv" >>
Speed(plane) == << plane, "speed" >>

OnLine(s) == s[2] \in {"deriv", "speed"}

ComputeAverages(plane, of) == << Compute(plane, {of}, {Host(plane)}) >>

ComputeLineDerivatives(plane) ==
  << Compute("compute_line_derivatives", {Host(plane)}, {Deriv(plane)}) >>

ComputeHvelmagAverages(plane) ==
  << Compute("compute_hvelmag_averages", {New("velocity")}, {Speed(plane)}) >>

FieldPlaneAveraging(plane, of) == ComputeAverages(plane, of)

VelPlaneAveraging(plane) ==
  ComputeAverages(plane, New("velocity")) \o ComputeLineDerivatives(plane) \o
  ComputeHvelmagAverages(plane)

(* What the users of a plane average read of it.                           *)
LineAverageInterpolated(plane) == {Host(plane)}

LineHvelmagInterpolated(plane) == {Speed(plane)}

(* The line in the file has the number of the step that is complete, and   *)
(* the time at which it began.                                             *)
OutputLineAverage(plane) ==
  << Kernel("output_line_average", {Host(plane)}, {}, "now") >>

-----------------------------------------------------------------------------
(* Moments of the fluctuations: the fields of now less their averages.     *)

SecondMoment(moment, f, fplane, g, gplane) ==
  << Compute("second moment", {f, g, Host(fplane), Host(gplane)}, {Host(moment)}) >>

ThirdMoment(moment, f, plane) ==
  << Compute("third moment", {f, Host(plane)}, {Host(moment)}) >>

OutputSecondMoment(moment) ==
  << Kernel("output_line_average", {Host(moment)}, {}, "now") >>

OutputThirdMoment(moment) ==
  << Kernel("output_line_average", {Host(moment)}, {}, "now") >>

-----------------------------------------------------------------------------
(* ABLStats *)

Averaged == {"vel_plane", "temp_plane", "vel_plane_fine", "temp_plane_fine", "mueff_plane"}

Moments == {"tt", "tu", "uu"}

(* "Always compute mean velocity/temperature profiles"; the fine ones are  *)
(* averages over all levels.                                               *)
CalcAverages ==
  VelPlaneAveraging("vel_plane") \o
  FieldPlaneAveraging("temp_plane", New("temperature")) \o
  VelPlaneAveraging("vel_plane_fine") \o
  FieldPlaneAveraging("temp_plane_fine", New("temperature")) \o
  FieldPlaneAveraging("mueff_plane", << "velocity", "mueff" >>)

CalcMoments ==
  SecondMoment("tt", New("temperature"), "temp_plane", New("temperature"), "temp_plane") \o
  SecondMoment("tu", New("velocity"), "vel_plane", New("temperature"), "temp_plane") \o
  SecondMoment("uu", New("velocity"), "vel_plane", New("velocity"), "vel_plane") \o
  ThirdMoment("uuu", New("velocity"), "vel_plane")

(* The height where the temperature increases most.                        *)
ComputeZi == << Compute("compute_zi", {New("temperature")}, {Host("zi")}) >>

SfsStress ==
  << Compute("sfs stress", States({"velocity", "temperature"}, "New") \cup
                           {<< "velocity", "mueff" >>, << "temperature", "mueff" >>},
             Hosts({"sfs_stress", "tsfs_stress"})) >>

(* The energy budget: what is left of the change of the kinetic energy.    *)
TkeDiffusion ==
  << Look("tke budget", {New("tke"), Old("tke"), << "tke", "conv" >>, New("buoy_prod"),
                         New("shear_prod"), New("dissipation")}) >>

StatsFile == Host("stats file")

PrepareAsciiFile == << SetVal("prepare_ascii_file", {StatsFile}) >>

PrepareNetcdfFile == << SetVal("prepare_netcdf_file", {StatsFile}) >>

StatsInitialize(c) ==
  CASE c.stats.interval <= 0 -> << >>
    [] c.stats.format = "netcdf" -> PrepareNetcdfFile
    [] OTHER -> PrepareAsciiFile

(* The line of this step: the height of the inversion, and the driving     *)
(* force and the surface fluxes that the step was made with.               *)
StatsLine(c) ==
  << Kernel("abl statistics", {StatsFile, Host("zi")}, {}, "new"),
     Look("surface", {Host("m_mo")} \cup IfThere(SourceIn("ABLForcing", c), {Host("abl_forcing")})) >>

WriteAscii(c) ==
  ForEach(<< "vel_plane", "temp_plane", "vel_plane_fine", "temp_plane_fine", "mueff_plane" >>,
          OutputLineAverage) \o
  ForEach(<< "tt", "tu", "uu" >>, OutputSecondMoment) \o OutputThirdMoment("uuu") \o
  StatsLine(c)

WriteNetcdf(c) ==
  SfsStress \o
  If(Exists("tke", c), << Look("ksgs", {New("tke")}) >>) \o
  StatsLine(c) \o
  << Look("mean profiles",
          Hosts(Averaged \cup Moments \cup {"uuu", "sfs_stress", "tsfs_stress"}) \cup {Speed("vel_plane")}) >> \o
  If(SourceIn("ABLMesoForcingMom", c), << Look("meso error", {Host("meso_mom")}) >>) \o
  If(SourceIn("ABLMesoForcingTemp", c), << Look("meso error", {Host("meso_temp")}) >>) \o
  If(c.stats.budget, TkeDiffusion)

ProcessOutput(c) ==
  CASE c.stats.interval <= 0 -> << >>
    [] c.stats.format = "netcdf" -> WriteNetcdf(c)
    [] OTHER -> WriteAscii(c)

StatsPostInit(c) == StatsInitialize(c) \o CalcAverages

StatsDue(step, c) == c.stats.interval < 0 \/ step % c.stats.interval = 0

StatsPostAdvance(step, c) ==
  CalcAverages \o If(StatsDue(step, c), ComputeZi \o CalcMoments \o ProcessOutput(c))

-----------------------------------------------------------------------------
(* ABLFieldInit: the initial profiles, from the input file or from a file  *)
(* of its own.                                                             *)

Profiles == Host("abl profiles")

InitializeFromInputfile == << Kernel("initialize_from_inputfile", {}, {Profiles}, "static") >>

InitializeFromNetcdf == << Kernel("initialize_from_netcdf", {}, {Profiles}, "static") >>

ABLFieldInit(c) == IF c.stats.format = "netcdf" THEN InitializeFromNetcdf ELSE InitializeFromInputfile

(* Zero, or noise below a height; the profile is added to it.              *)
PerturbTemperature == << Initial("perturb_temperature", {"temperature"}) >>

SetProfiles ==
  << Kernel("ABLFieldInit", {Profiles},
            States({"velocity", "density", "temperature"}, "New"), "start") >>

InitTke(c) == If(Exists("tke", c), << Kernel("init_tke", {Profiles}, {New("tke")}, "start") >>)

ABLInitializeFields(c) == PerturbTemperature \o SetProfiles \o InitTke(c)

-----------------------------------------------------------------------------
(* Mesoscale forcing (c.meso): the error of the plane averages against a   *)
(* file, directly or through a weighted regression, the weights ending in  *)
(* a transition layer that may move with time.                             *)

Heights(term) == << term, "transition height" >>
Weighting(term) == << term, "weighting" >>
Weights(term) == << term, "weights" >>
Regression(term) == << term, "regression" >>

OnMeso(s) == s[2] \in {"transition height", "weighting", "weights", "regression"}

Indirect(c) == c.meso.scheme = "indirect"

SetTransitionWeighting(term) ==
  << Compute("set_transition_weighting", {Heights(term)}, {Weighting(term)}) >>

UpdateWeights(term) == << Compute("update_weights", {Weighting(term)}, {Weights(term)}) >>

InvertMat(term) == << Compute("invert_mat", {Weights(term)}, {Regression(term)}) >>

IndirectForcingInit(term) == UpdateWeights(term) \o InvertMat(term)

(* The constructor.  Only the indirect scheme reads the transition.        *)
MesoscaleForcing(term, c) ==
  If(Indirect(c) /\ c.meso.transition = "none",
     << Kernel("default weighting", {}, {Weighting(term)}, "static") >>) \o
  If(Indirect(c) /\ c.meso.transition = "fixed",
     << Kernel("constant_transition_height", {}, {Heights(term)}, "static") >> \o
     SetTransitionWeighting(term)) \o
  If(Indirect(c) /\ c.meso.transition # "moving", IndirectForcingInit(term))

MovingTransition(term) ==
  << Kernel("transition height", {}, {Heights(term)}, "now") >> \o
  SetTransitionWeighting(term) \o IndirectForcingInit(term)

IndirectError(term, c) ==
  If(c.meso.transition = "moving", MovingTransition(term)) \o
  << Update("regression", Host(term), Regression(term)),
     Update("weighted error", Host(term), Weights(term)) >>

BlendForcings(term) == << Update("blend_forcings", Host(term), Weighting(term)) >>

ConstantForcingTransition(term) ==
  << Update("constant_forcing_transition", Host(term), Heights(term)) >>

(* With tendencies in the file there is nothing to compare.                *)
Tendency(term) == << Kernel("tendency", {}, {Host(term)}, "now") >>

ProfileError(term, plane, c) ==
  << Compute("profile error", LineAverageInterpolated(plane), {Host(term)}) >> \o
  If(Indirect(c), IndirectError(term, c)) \o
  If(Indirect(c) /\ c.meso.upper = "direct", BlendForcings(term)) \o
  If(c.meso.upper = "constant", ConstantForcingTransition(term))

MesoError(term, plane, c) ==
  CASE c.meso.scheme = "none" -> << >>
    [] c.meso.tendency -> Tendency(term)
    [] OTHER -> ProfileError(term, plane, c)

MeanVelocityHeights(c) == MesoError("meso_mom", "vel_plane_fine", c)

(* The surface flux of the file is that of the wall model, too.            *)
MeanTemperatureHeights(c) ==
  MesoError("meso_temp", "temp_plane_fine", c) \o
  << Kernel("update_tflux", {}, {Host("m_mo")}, "now") >>

=============================================================================
