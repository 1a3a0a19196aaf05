---------------------------- MODULE CameraSetup ----------------------------
(***************************************************************************)
(* How the camera is brought up: initCamera (camera.c), which opens the    *)
(* first camera, resets it, calls one setter after another and starts the  *)
(* acquisition.  The camera SDK (external) may refuse any call.  A setter  *)
(* checks the access and the range, sets, and reads the value back into    *)
(* default_metadata, the FITS headers of the images to come; what cannot   *)
(* be read back is replaced by a fixed value.  Some setters report a       *)
(* refusal and end the start-up, others do not.                            *)
(***************************************************************************)
EXTENDS Integers

CONSTANT MaxFaults  \* bound: calls that go wrong in one life of the process

ASSUME FaultsAssumption == MaxFaults \in Nat

VARIABLES
  setup,      \* where initCamera is: the call to come, "ready" or "failed"
  library,    \* has the SDK been initialised?
  hCam,       \* the handle: "null", "open", or "closed" but not yet cleared
  acquiring,  \* is the acquisition started?
  held,       \* settings the camera holds as the program wants them
  header,     \* what default_metadata says of a setting
  faults      \* bound: calls that went wrong

setupVars == <<setup, library, hCam, acquiring, held, header>>

\* Settings whose failure ends the start-up, and those it goes on without.
Required == {"delay", "divider", "gain", "autoExposure", "autoGain",
             "autoBlack", "black", "trigger", "exposure"}
Settings == Required \union {"format", "gamma", "fps", "clock"}
Headers  == Settings \ {"divider", "gamma", "trigger"}

Stages == Settings \union
          {"library", "open", "reset", "astrometry", "acquire", "ready",
           "failed"}

\* A header says what the program wanted, another value of the camera's, or
\* the value a setter writes when it cannot read the setting back.
HeaderValues == {"unset", "wanted", "other", "fallback"}

SetupInit ==
  /\ setup = "library"
  /\ library = FALSE /\ hCam = "null" /\ acquiring = FALSE
  /\ held = {}
  /\ header = [s \in Headers |-> "unset"]
  /\ faults = 0

-----------------------------------------------------------------------------
(***************************************************************************)
(* Opening the camera, in loadCamera.  A failure is reported to main.      *)
(***************************************************************************)
Fault   == faults < MaxFaults /\ faults' = faults + 1
NoFault == UNCHANGED faults

Fails ==
  /\ Fault
  /\ setup' = "failed"
  /\ UNCHANGED <<library, hCam, acquiring, held, header>>

InitLibrary ==
  /\ setup = "library"
  /\ \/ /\ library' = TRUE /\ setup' = "open"
        /\ UNCHANGED <<hCam, acquiring, held, header, faults>>
     \/ Fails

OpenFirstAvailable ==
  /\ setup = "open"
  /\ \/ /\ hCam' = "open" /\ setup' = "reset"
        /\ UNCHANGED <<library, acquiring, held, header, faults>>
     \/ Fails

ResetToDefault ==
  /\ setup = "reset"
  /\ \/ setup' = "format"
        /\ UNCHANGED <<library, hCam, acquiring, held, header, faults>>
     \/ Fails

-----------------------------------------------------------------------------
(***************************************************************************)
(* What a setter may come to: does the camera hold the wanted value (or    *)
(* the one closest to it that the camera has), and does the start-up go    *)
(* on?                                                                     *)
(***************************************************************************)
Done    == [done |-> TRUE,  goesOn |-> TRUE]
Refused == [done |-> FALSE, goesOn |-> FALSE]
Skipped == [done |-> FALSE, goesOn |-> TRUE]

Strict  == {Done, Refused}
Lenient == {Done, Skipped}

\* A format that is not writeable is not set, without a word.
FormatOutcomes == {Done, Refused, Skipped}

\* Without a range the delay is set to 0, but reported as a failure.
DelayOutcomes == Strict \union {[done |-> TRUE, goesOn |-> FALSE]}

\* A clock that is read only stays as it is.
ClockOutcomes == {Done, Refused, Skipped}

\* An exposure whose range cannot be read is cut to 0, which no camera takes.
ExposureOutcomes == Strict

\* The getters of the two automatic modes only ever write 0, "off"; the one
\* of the black level writes what it reads, and 12 bits are noted in any case.
HeaderOf(s, done, heard) ==
  CASE s \in {"autoExposure", "autoGain", "format"} -> "wanted"
    [] s = "autoBlack" -> IF done \/ ~heard THEN "wanted" ELSE "other"
    [] OTHER -> IF ~heard THEN "fallback"
                ELSE IF done THEN "wanted" ELSE "other"

\* One setter: set, read back, note, and go on with the next one.
Set(s, outcomes, next) ==
  /\ setup = s
  /\ \E outcome \in outcomes, heard \in BOOLEAN :
       /\ IF outcome = Done /\ heard THEN UNCHANGED faults ELSE Fault
       /\ s \notin Headers => heard
       /\ held' = IF outcome.done THEN held \union {s} ELSE held
       /\ header' = [h \in Headers |->
                       IF h = s THEN HeaderOf(s, outcome.done, heard)
                       ELSE header[h]]
       /\ setup' = IF outcome.goesOn THEN next ELSE "failed"
  /\ UNCHANGED <<library, hCam, acquiring>>

SetPixelFormat        == Set("format", FormatOutcomes, "delay")
SetMinTriggerDelay    == Set("delay", DelayOutcomes, "divider")
SetMinTriggerDivider  == Set("divider", Strict, "gain")
SetMonoAnalogGain     == Set("gain", Strict, "gamma")
SetGamma              == Set("gamma", Lenient, "autoExposure")
IgnoreAutoExposure    == Set("autoExposure", Lenient, "autoGain")
DisableAutoExposure   == Set("autoExposure", Strict, "autoGain")
DisableAutoGain       == Set("autoGain", Strict, "autoBlack")
IgnoreAutoBlackLevel  == Set("autoBlack", Lenient, "black")
DisableAutoBlackLevel == Set("autoBlack", Strict, "black")
SetBlackLevelOffset   == Set("black", Strict, "fps")
SetFps                == Set("fps", Lenient, "clock")
SetMinPixelClock      == Set("clock", ClockOutcomes, "trigger")
SetTriggerMode        == Set("trigger", Strict, "exposure")
SetExposureTime       == Set("exposure", ExposureOutcomes, "astrometry")

SetCameraParams ==
  \/ SetMinTriggerDelay \/ SetMinTriggerDivider \/ SetMonoAnalogGain
  \/ SetGamma \/ DisableAutoExposure \/ DisableAutoGain
  \/ DisableAutoBlackLevel \/ SetBlackLevelOffset

LoadCamera ==
  \/ InitLibrary \/ OpenFirstAvailable \/ ResetToDefault
  \/ SetPixelFormat \/ SetCameraParams \/ SetFps \/ SetMinPixelClock
  \/ SetTriggerMode

\* initAstrometry loads the index files of the solver.
InitAstrometry ==
  /\ setup = "astrometry"
  /\ \/ setup' = "acquire"
        /\ UNCHANGED <<library, hCam, acquiring, held, header, faults>>
     \/ Fails

StartAcquisition ==
  /\ setup = "acquire"
  /\ \/ /\ acquiring' = TRUE /\ setup' = "ready"
        /\ UNCHANGED <<library, hCam, held, header, faults>>
     \/ Fails

InitCamera ==
  LoadCamera \/ SetExposureTime \/ InitAstrometry \/ StartAcquisition

-----------------------------------------------------------------------------
(***************************************************************************)
(* Properties.                                                             *)
(***************************************************************************)
SetupTypeOK ==
  /\ setup \in Stages
  /\ library \in BOOLEAN /\ acquiring \in BOOLEAN
  /\ hCam \in {"null", "open", "closed"}
  /\ held \subseteq Settings
  /\ header \in [Headers -> HeaderValues]
  /\ faults \in 0 .. MaxFaults

\* A camera that initCamera calls ready obeys software triggers one by one,
\* with the exposure, gain and black level it was given and none of the
\* automatic modes that would change them: no refusal is overlooked among
\* the calls that matter.
ReadyMeansConfigured ==
  setup = "ready" => Required \subseteq held

\* The headers of a camera that is ready never name a value it does not have:
\* what cannot be read back is a fallback, and although the headers of the
\* automatic modes say "off" whatever the camera does, the start-up ends when
\* they cannot be switched off.  The bit depth is the exception: it is noted
\* also when the pixel format could not be set.
HeadersAreTrue ==
  setup = "ready" =>
    \A s \in Headers \ {"format"} :
      header[s] = "fallback" \/ header[s] = IF s \in held THEN "wanted" ELSE "other"
=============================================================================
