-------------------------- MODULE LifecycleProofs --------------------------
(***************************************************************************)
(* The camera is brought up as it should be and closed after the threads,  *)
(* once, for every number of workers, clients and faults.  The invariant   *)
(* says how far the start-up has come by the time of each call, who is     *)
(* over by the time of each join, and who alone may be closing the camera. *)
(***************************************************************************)
EXTENDS Lifecycle, TLAPS

\* The order of the calls of initCamera.
Rank(stage) ==
  CASE stage = "library" -> 0 [] stage = "open" -> 1 [] stage = "reset" -> 2
    [] stage = "format" -> 3 [] stage = "delay" -> 4 [] stage = "divider" -> 5
    [] stage = "gain" -> 6 [] stage = "gamma" -> 7 [] stage = "autoExposure" -> 8
    [] stage = "autoGain" -> 9 [] stage = "autoBlack" -> 10 [] stage = "black" -> 11
    [] stage = "fps" -> 12 [] stage = "clock" -> 13 [] stage = "trigger" -> 14
    [] stage = "exposure" -> 15 [] stage = "astrometry" -> 16
    [] stage = "acquire" -> 17 [] OTHER -> 18

TrueHeader(s) ==
  header[s] = "fallback" \/ header[s] = IF s \in held THEN "wanted" ELSE "other"

\* What has been called has been done and noted, nothing else has.
DoneSoFar ==
  setup # "failed" =>
    /\ \A s \in held : Rank(s) < Rank(setup)
    /\ \A s \in Required : Rank(s) < Rank(setup) => s \in held
    /\ \A s \in Headers \ {"format"} : Rank(s) < Rank(setup) => TrueHeader(s)

NoThread ==
  /\ worker = [w \in Workers |-> "absent"]
  /\ astro = "absent" /\ message = "absent" /\ queue = "none"
  /\ lastClient = Nobody /\ ~anyClients

\* No thread runs before initCamera has succeeded, nor if it fails.
NotStarted ==
  /\ setup # "ready" =>
       /\ main \in {"camera", "exited"} \union Closing
       /\ ~acquiring
       /\ main # "camera" => setup = "failed"
  /\ main = "camera" \/ setup # "ready" => NoThread
  /\ main = "camera" => closes = 0 /\ hCam # "closed"
  /\ setup \in {"library", "open"} => hCam = "null"

WorkersOver == \A w \in Workers : worker[w] \in {"absent", "ended"}
MessageOver == message \in {"absent", "ended"}
ClientOver  == lastClient # Nobody => client[lastClient] = "ended"

\* The threads main has joined are over.
Joined ==
  /\ main = "astro" => astro = "absent"
  /\ main \in {"astro", "message"} => message = "absent"
  /\ ~anyClients => lastClient = Nobody
  /\ main \in {"joinAstro", "joinMessage", "joinClient", "ended"} \union Closing
       => WorkersOver
  /\ setup = "ready" =>
       /\ main \in {"joinMessage", "joinClient", "ended"} \union Closing
            => astro = "ended"
       /\ main = "exited" => astro = "absent"
  /\ main \in {"joinClient", "ended"} \union Closing => MessageOver
  /\ main \in {"ended"} \union Closing => ClientOver

QueueIsPolled == queue = "running" => message = "poll"

\* One thread at a time is closing the camera.
OneCloser ==
  /\ hCam = "open" => closes = 0
  /\ closes <= 1
  /\ astro \in {"stop", "close"} => hCam = "open"
  /\ hCam = "closed" => astro = "exit" \/ main = "exit"
  /\ main = "exit" => hCam # "open"
  /\ main \in {"close", "exit", "ended"} => ~acquiring
  /\ main = "ended" => hCam = "null"
  /\ main = "exited" /\ setup = "failed" => hCam = "null"

IInv == /\ TypeOK
        /\ DoneSoFar /\ NotStarted /\ Joined /\ QueueIsPolled /\ OneCloser

-----------------------------------------------------------------------------
\* A setter that goes on only when it has set what is required, and notes
\* what it did, leaves the start-up in order (the setters of camera.c).
LEMMA SetFollows ==
  ASSUME SetupTypeOK, DoneSoFar,
         NEW s \in Settings, NEW next \in Stages, NEW outcomes,
         Set(s, outcomes, next),
         outcomes \subseteq [done : BOOLEAN, goesOn : BOOLEAN],
         \A outcome \in outcomes :
           s \in Required /\ outcome.goesOn => outcome.done,
         Rank(next) = Rank(s) + 1, next \notin {"ready", "failed"},
         \A t \in Settings : Rank(t) < Rank(next) => Rank(t) < Rank(s) \/ t = s,
         \A t \in Settings : Rank(t) \in Nat
  PROVE  /\ SetupTypeOK' /\ DoneSoFar'
         /\ setup' \in {next, "failed"}
         /\ UNCHANGED <<library, hCam, acquiring>>
<1>1. PICK outcome \in outcomes, heard \in BOOLEAN :
        /\ IF outcome = Done /\ heard THEN UNCHANGED faults ELSE Fault
        /\ s \notin Headers => heard
        /\ held' = IF outcome.done THEN held \union {s} ELSE held
        /\ header' = [h \in Headers |->
                       IF h = s THEN HeaderOf(s, outcome.done, heard)
                       ELSE header[h]]
        /\ setup' = IF outcome.goesOn THEN next ELSE "failed"
  BY DEF Set
<1>2. setup = s /\ s # "failed" /\ UNCHANGED <<library, hCam, acquiring>>
  BY DEF Set, Settings, Required
<1>3. outcome.done \in BOOLEAN /\ outcome.goesOn \in BOOLEAN
  OBVIOUS
<1>4. SetupTypeOK'
  <2>1. faults' \in 0 .. MaxFaults
    BY <1>1, FaultsAssumption DEF SetupTypeOK, Fault
  <2>2. held' \subseteq Settings
    BY <1>1 DEF SetupTypeOK
  <2>3. HeaderOf(s, outcome.done, heard) \in HeaderValues
    BY DEF HeaderOf, HeaderValues
  <2>4. header' \in [Headers -> HeaderValues]
    BY <1>1, <2>3 DEF SetupTypeOK
  <2>5. setup' \in Stages
    BY <1>1 DEF Stages
  <2> QED BY <1>2, <2>1, <2>2, <2>4, <2>5 DEF SetupTypeOK
<1>5. DoneSoFar'
  <2> SUFFICES ASSUME setup' # "failed"
               PROVE  /\ \A t \in held' : Rank(t) < Rank(next)
                      /\ \A t \in Required : Rank(t) < Rank(next) => t \in held'
                      /\ \A t \in Headers \ {"format"} :
                           Rank(t) < Rank(next) => TrueHeader(t)'
    BY <1>1 DEF DoneSoFar
  <2>1. outcome.goesOn /\ (s \in Required => outcome.done)
    BY <1>1
  <2>2. held \subseteq Settings /\ Required \subseteq Settings
        /\ Headers \subseteq Settings
    BY DEF SetupTypeOK, Settings, Headers
  <2>3. /\ \A t \in held : Rank(t) < Rank(s)
        /\ \A t \in Required : Rank(t) < Rank(s) => t \in held
        /\ \A t \in Headers \ {"format"} : Rank(t) < Rank(s) => TrueHeader(t)
    BY <1>2 DEF DoneSoFar
  <2>4. \A t \in held' : Rank(t) < Rank(next)
    BY <1>1, <2>2, <2>3
  <2>5. \A t \in Required : Rank(t) < Rank(next) => t \in held'
    BY <1>1, <2>1, <2>2, <2>3
  <2>6. ASSUME NEW t \in Headers \ {"format"}, Rank(t) < Rank(next)
        PROVE  TrueHeader(t)'
    <3>1. CASE t = s
      <4>1. s \notin held
        BY <2>2, <2>3
      <4>2. s \in held' <=> outcome.done
        BY <1>1, <4>1
      <4>3. header'[t] = HeaderOf(s, outcome.done, heard)
        BY <1>1, <3>1, <2>6
      <4>4. CASE s \in {"autoExposure", "autoGain", "autoBlack"}
        BY <2>1, <2>6, <3>1, <4>2, <4>3, <4>4 DEF TrueHeader, HeaderOf, Required
      <4>5. CASE s \notin {"autoExposure", "autoGain", "autoBlack", "format"}
        BY <3>1, <4>2, <4>3, <4>5 DEF TrueHeader, HeaderOf
      <4> QED BY <2>6, <3>1, <4>4, <4>5
    <3>2. CASE t # s
      <4>1. TrueHeader(t)
        BY <2>2, <2>3, <2>6, <3>2
      <4>2. header'[t] = header[t] /\ (t \in held' <=> t \in held)
        BY <1>1, <2>6, <3>2
      <4> QED BY <4>1, <4>2 DEF TrueHeader
    <3> QED BY <3>1, <3>2
  <2> QED BY <2>4, <2>5, <2>6
<1>6. setup' \in {next, "failed"}
  BY <1>1
<1> QED BY <1>2, <1>4, <1>5, <1>6

\* Two settings of the same rank are the same.
LEMMA RanksDiffer ==
  ASSUME NEW s \in Settings, NEW t \in Settings, Rank(s) = Rank(t)
  PROVE  s = t
BY DEF Settings, Required, Rank

\* next is the call after the setter of s.
Follows(s, next) ==
  /\ s \in Settings /\ next \in Stages
  /\ Rank(s) \in Nat /\ Rank(next) = Rank(s) + 1
  /\ next \notin {"ready", "failed", "library", "open"}

LEMMA OrderOfSettings ==
  /\ Follows("format", "delay") /\ Follows("delay", "divider")
  /\ Follows("divider", "gain") /\ Follows("gain", "gamma")
  /\ Follows("gamma", "autoExposure") /\ Follows("autoExposure", "autoGain")
  /\ Follows("autoGain", "autoBlack") /\ Follows("autoBlack", "black")
  /\ Follows("black", "fps") /\ Follows("fps", "clock")
  /\ Follows("clock", "trigger") /\ Follows("trigger", "exposure")
  /\ Follows("exposure", "astrometry")
<1>1. Follows("format", "delay") /\ Follows("delay", "divider")
  BY DEF Follows, Settings, Required, Stages, Rank
<1>2. Follows("divider", "gain") /\ Follows("gain", "gamma")
  BY DEF Follows, Settings, Required, Stages, Rank
<1>3. Follows("gamma", "autoExposure") /\ Follows("autoExposure", "autoGain")
  BY DEF Follows, Settings, Required, Stages, Rank
<1>4. Follows("autoGain", "autoBlack") /\ Follows("autoBlack", "black")
  BY DEF Follows, Settings, Required, Stages, Rank
<1>5. Follows("black", "fps") /\ Follows("fps", "clock")
  BY DEF Follows, Settings, Required, Stages, Rank
<1>6. Follows("clock", "trigger") /\ Follows("trigger", "exposure")
  BY DEF Follows, Settings, Required, Stages, Rank
<1>7. Follows("exposure", "astrometry")
  BY DEF Follows, Settings, Required, Stages, Rank
<1> QED BY <1>1, <1>2, <1>3, <1>4, <1>5, <1>6, <1>7

\* Every call of initCamera keeps the start-up in order (initCamera).
LEMMA InitCameraFollows ==
  ASSUME SetupTypeOK, DoneSoFar, InitCamera,
         setup \in {"library", "open"} => hCam = "null",
         hCam # "closed", setup # "ready" => ~acquiring
  PROVE  /\ SetupTypeOK' /\ DoneSoFar'
         /\ setup \notin {"ready", "failed"}
         /\ setup' # "ready" => ~acquiring'
         /\ setup' \in {"library", "open"} => hCam' = "null"
         /\ hCam' # "closed"
<1>1. /\ \A t \in Settings : Rank(t) \in Nat
      /\ Settings \subseteq Stages /\ Headers \subseteq Settings
      /\ Required \subseteq Settings
  BY DEF Settings, Required, Rank, Stages, Headers
<1>2. ASSUME NEW s, NEW next, Follows(s, next), NEW outcomes, Set(s, outcomes, next),
             outcomes \in {Strict, Lenient, DelayOutcomes, ClockOutcomes},
             s \in Required => outcomes \in {Strict, DelayOutcomes}
      PROVE  /\ SetupTypeOK' /\ DoneSoFar'
             /\ setup \notin {"ready", "failed"}
             /\ setup' # "ready" => ~acquiring'
             /\ setup' \in {"library", "open"} => hCam' = "null"
             /\ hCam' # "closed"
  <2> USE DEF Strict, Lenient, DelayOutcomes, ClockOutcomes, Done, Refused, Skipped
  <2>1. /\ s \in Settings /\ next \in Stages /\ Rank(next) = Rank(s) + 1
        /\ next \notin {"ready", "failed", "library", "open"}
    BY <1>2, Zenon DEF Follows
  <2>2. outcomes \subseteq [done : BOOLEAN, goesOn : BOOLEAN]
    <3>1. /\ [done |-> TRUE, goesOn |-> TRUE] \in [done : BOOLEAN, goesOn : BOOLEAN]
          /\ [done |-> FALSE, goesOn |-> FALSE] \in [done : BOOLEAN, goesOn : BOOLEAN]
          /\ [done |-> FALSE, goesOn |-> TRUE] \in [done : BOOLEAN, goesOn : BOOLEAN]
          /\ [done |-> TRUE, goesOn |-> FALSE] \in [done : BOOLEAN, goesOn : BOOLEAN]
      OBVIOUS
    <3> QED BY <1>2, <3>1, Zenon
  <2>3. \A outcome \in outcomes : s \in Required /\ outcome.goesOn => outcome.done
    BY <1>2
  <2>4. \A t \in Settings : Rank(t) < Rank(next) => Rank(t) < Rank(s) \/ t = s
    <3> SUFFICES ASSUME NEW t \in Settings, Rank(t) < Rank(next)
                 PROVE  Rank(t) < Rank(s) \/ t = s
      OBVIOUS
    <3>1. Rank(t) \in Nat /\ Rank(s) \in Nat /\ Rank(t) < Rank(s) + 1
      BY <1>1, <2>1
    <3>2. Rank(t) < Rank(s) \/ Rank(s) = Rank(t)
      BY ONLY <3>1
    <3> QED BY <2>1, <3>2, RanksDiffer
  <2>5. /\ SetupTypeOK' /\ DoneSoFar' /\ setup' \in {next, "failed"}
        /\ UNCHANGED <<library, hCam, acquiring>>
    BY <1>1, <1>2, <2>1, <2>2, <2>3, <2>4, SetFollows
  <2>6. setup = s /\ s \notin {"library", "open", "ready", "failed"}
    BY <1>2, <2>1 DEF Set, Settings, Required
  <2> QED BY <2>1, <2>5, <2>6
<1>4. CASE SetPixelFormat
  <2>1. Set("format", ClockOutcomes, "delay")
    BY <1>4 DEF SetPixelFormat, FormatOutcomes, ClockOutcomes
  <2> QED BY <1>2, <2>1, OrderOfSettings DEF Required
<1>5. CASE SetMinTriggerDelay
  <2>1. Set("delay", DelayOutcomes, "divider")
    BY <1>5 DEF SetMinTriggerDelay
  <2> QED BY <1>2, <2>1, OrderOfSettings
<1>6. CASE SetMinTriggerDivider
  <2>1. Set("divider", Strict, "gain")
    BY <1>6 DEF SetMinTriggerDivider
  <2> QED BY <1>2, <2>1, OrderOfSettings
<1>7. CASE SetMonoAnalogGain
  <2>1. Set("gain", Strict, "gamma")
    BY <1>7 DEF SetMonoAnalogGain
  <2> QED BY <1>2, <2>1, OrderOfSettings
<1>8. CASE SetGamma
  <2>1. Set("gamma", Lenient, "autoExposure")
    BY <1>8 DEF SetGamma
  <2> QED BY <1>2, <2>1, OrderOfSettings DEF Required
<1>9. CASE DisableAutoExposure
  <2>1. Set("autoExposure", Strict, "autoGain")
    BY <1>9 DEF DisableAutoExposure
  <2> QED BY <1>2, <2>1, OrderOfSettings
<1>10. CASE DisableAutoGain
  <2>1. Set("autoGain", Strict, "autoBlack")
    BY <1>10 DEF DisableAutoGain
  <2> QED BY <1>2, <2>1, OrderOfSettings
<1>11. CASE DisableAutoBlackLevel
  <2>1. Set("autoBlack", Strict, "black")
    BY <1>11 DEF DisableAutoBlackLevel
  <2> QED BY <1>2, <2>1, OrderOfSettings
<1>12. CASE SetBlackLevelOffset
  <2>1. Set("black", Strict, "fps")
    BY <1>12 DEF SetBlackLevelOffset
  <2> QED BY <1>2, <2>1, OrderOfSettings
<1>13. CASE SetFps
  <2>1. Set("fps", Lenient, "clock")
    BY <1>13 DEF SetFps
  <2> QED BY <1>2, <2>1, OrderOfSettings DEF Required
<1>14. CASE SetMinPixelClock
  <2>1. Set("clock", ClockOutcomes, "trigger")
    BY <1>14 DEF SetMinPixelClock
  <2> QED BY <1>2, <2>1, OrderOfSettings DEF Required
<1>15. CASE SetTriggerMode
  <2>1. Set("trigger", Strict, "exposure")
    BY <1>15 DEF SetTriggerMode
  <2> QED BY <1>2, <2>1, OrderOfSettings
<1>16. CASE SetExposureTime
  <2>1. Set("exposure", Strict, "astrometry")
    BY <1>16 DEF SetExposureTime, ExposureOutcomes
  <2> QED BY <1>2, <2>1, OrderOfSettings
<1>17. ASSUME NEW next \in Stages, setup \in Stages, setup \notin {"ready", "failed"},
              UNCHANGED <<held, header, faults>>,
              library' \in BOOLEAN, acquiring' \in BOOLEAN,
              hCam' \in {"null", "open"},
              setup' = next, next # "ready" => ~acquiring',
              next \in {"library", "open"} => hCam' = "null",
              \A t \in Settings : Rank(t) < Rank(next) <=> Rank(t) < Rank(setup)
       PROVE  /\ SetupTypeOK' /\ DoneSoFar'
              /\ setup \notin {"ready", "failed"}
              /\ setup' # "ready" => ~acquiring'
              /\ setup' \in {"library", "open"} => hCam' = "null"
              /\ hCam' # "closed"
  <2>1. SetupTypeOK'
    BY <1>17 DEF SetupTypeOK
  <2>2. DoneSoFar'
    BY <1>1, <1>17 DEF DoneSoFar, SetupTypeOK, TrueHeader
  <2> QED BY <1>17, <2>1, <2>2
<1>18. CASE Fails /\ setup \in Stages /\ setup \notin {"ready", "failed"}
  <2>1. SetupTypeOK'
    BY <1>18, FaultsAssumption DEF SetupTypeOK, Fails, Fault, Stages
  <2>2. DoneSoFar' /\ setup' = "failed"
    BY <1>18 DEF DoneSoFar, Fails
  <2> QED BY <1>18, <2>1, <2>2 DEF Fails
<1>19. CASE InitLibrary
  <2>1. CASE Fails
    BY <1>18, <1>19, <2>1 DEF InitLibrary, Stages
  <2>2. CASE ~Fails
    <3>1. \A t \in Settings : Rank(t) < Rank("open") <=> Rank(t) < Rank("library")
      BY DEF Settings, Required, Rank
    <3>2. library' \in BOOLEAN /\ acquiring' \in BOOLEAN
      BY <1>19, <2>2, Zenon DEF InitLibrary, SetupTypeOK
    <3>3. /\ setup' = "open" /\ UNCHANGED <<held, header, faults>>
          /\ hCam' \in {"null", "open"}
          /\ setup' # "ready" => ~acquiring'
          /\ setup' \in {"library", "open"} => hCam' = "null"
      BY <1>19, <2>2 DEF InitLibrary, SetupTypeOK
    <3>4. "open" \in Stages /\ setup \in Stages /\ setup \notin {"ready", "failed"}
      BY <1>19 DEF InitLibrary, Stages
    <3> QED BY <1>17, <1>19, <3>1, <3>2, <3>3, <3>4 DEF InitLibrary
  <2> QED BY <2>1, <2>2
<1>20. CASE OpenFirstAvailable
  <2>1. CASE Fails
    BY <1>18, <1>20, <2>1 DEF OpenFirstAvailable, Stages
  <2>2. CASE ~Fails
    <3>1. \A t \in Settings : Rank(t) < Rank("reset") <=> Rank(t) < Rank("open")
      BY DEF Settings, Required, Rank
    <3>2. library' \in BOOLEAN /\ acquiring' \in BOOLEAN
      BY <1>20, <2>2, Zenon DEF OpenFirstAvailable, SetupTypeOK
    <3>3. /\ setup' = "reset" /\ UNCHANGED <<held, header, faults>>
          /\ hCam' \in {"null", "open"}
          /\ setup' # "ready" => ~acquiring'
          /\ setup' \in {"library", "open"} => hCam' = "null"
      BY <1>20, <2>2 DEF OpenFirstAvailable, SetupTypeOK
    <3>4. "reset" \in Stages /\ setup \in Stages /\ setup \notin {"ready", "failed"}
      BY <1>20 DEF OpenFirstAvailable, Stages
    <3> QED BY <1>17, <1>20, <3>1, <3>2, <3>3, <3>4 DEF OpenFirstAvailable
  <2> QED BY <2>1, <2>2
<1>21. CASE ResetToDefault
  <2>1. CASE Fails
    BY <1>18, <1>21, <2>1 DEF ResetToDefault, Stages
  <2>2. CASE ~Fails
    <3>1. \A t \in Settings : Rank(t) < Rank("format") <=> Rank(t) < Rank("reset")
      BY DEF Settings, Required, Rank
    <3>2. library' \in BOOLEAN /\ acquiring' \in BOOLEAN
      BY <1>21, <2>2, Zenon DEF ResetToDefault, SetupTypeOK
    <3>3. /\ setup' = "format" /\ UNCHANGED <<held, header, faults>>
          /\ hCam' \in {"null", "open"}
          /\ setup' # "ready" => ~acquiring'
          /\ setup' \in {"library", "open"} => hCam' = "null"
      BY <1>21, <2>2 DEF ResetToDefault, SetupTypeOK
    <3>4. "format" \in Stages /\ setup \in Stages /\ setup \notin {"ready", "failed"}
      BY <1>21 DEF ResetToDefault, Stages, Settings
    <3> QED BY <1>17, <1>21, <3>1, <3>2, <3>3, <3>4 DEF ResetToDefault
  <2> QED BY <2>1, <2>2
<1>22. CASE InitAstrometry
  <2>1. CASE Fails
    BY <1>18, <1>22, <2>1 DEF InitAstrometry, Stages
  <2>2. CASE ~Fails
    <3>1. \A t \in Settings : Rank(t) < Rank("acquire") <=> Rank(t) < Rank("astrometry")
      BY DEF Settings, Required, Rank
    <3>2. library' \in BOOLEAN /\ acquiring' \in BOOLEAN
      BY <1>22, <2>2, Zenon DEF InitAstrometry, SetupTypeOK
    <3>3. /\ setup' = "acquire" /\ UNCHANGED <<held, header, faults>>
          /\ hCam' \in {"null", "open"}
          /\ setup' # "ready" => ~acquiring'
          /\ setup' \in {"library", "open"} => hCam' = "null"
      BY <1>22, <2>2 DEF InitAstrometry, SetupTypeOK
    <3>4. "acquire" \in Stages /\ setup \in Stages /\ setup \notin {"ready", "failed"}
      BY <1>22 DEF InitAstrometry, Stages
    <3> QED BY <1>17, <1>22, <3>1, <3>2, <3>3, <3>4 DEF InitAstrometry
  <2> QED BY <2>1, <2>2
<1>23. CASE StartAcquisition
  <2>1. CASE Fails
    BY <1>18, <1>23, <2>1 DEF StartAcquisition, Stages
  <2>2. CASE ~Fails
    <3>1. \A t \in Settings : Rank(t) < Rank("ready") <=> Rank(t) < Rank("acquire")
      BY DEF Settings, Required, Rank
    <3>2. library' \in BOOLEAN /\ acquiring' \in BOOLEAN
      BY <1>23, <2>2, Zenon DEF StartAcquisition, SetupTypeOK
    <3>3. /\ setup' = "ready" /\ UNCHANGED <<held, header, faults>>
          /\ hCam' \in {"null", "open"}
          /\ setup' # "ready" => ~acquiring'
          /\ setup' \in {"library", "open"} => hCam' = "null"
      BY <1>23, <2>2 DEF StartAcquisition, SetupTypeOK
    <3>4. "ready" \in Stages /\ setup \in Stages /\ setup \notin {"ready", "failed"}
      BY <1>23 DEF StartAcquisition, Stages
    <3> QED BY <1>17, <1>23, <3>1, <3>2, <3>3, <3>4 DEF StartAcquisition
  <2> QED BY <2>1, <2>2
<1> QED
  BY <1>4, <1>5, <1>6, <1>7, <1>8, <1>9, <1>10, <1>11, <1>12, <1>13, <1>14,
     <1>15, <1>16, <1>19, <1>20, <1>21, <1>22, <1>23
     DEF InitCamera, LoadCamera, SetCameraParams

-----------------------------------------------------------------------------
\* The initial state satisfies the invariant (the start of main).
LEMMA InvInit == Init => IInv
<1> SUFFICES ASSUME Init PROVE IInv
  OBVIOUS
<1>1. TypeOK
  <2>1. SetupTypeOK
    <3>1. faults \in 0 .. MaxFaults
      BY FaultsAssumption DEF Init, SetupInit
    <3>2. header \in [Headers -> HeaderValues]
      BY DEF Init, SetupInit, HeaderValues
    <3> QED BY <3>1, <3>2, Zenon DEF Init, SetupInit, SetupTypeOK, Stages
  <2> QED BY <2>1, NobodyAssumption
          DEF Init, TypeOK, MainLabels, WorkerLabels, AstroLabels, MessageLabels,
              ClientLabels, Closing
<1>2. DoneSoFar
  <2>1. \A s \in Settings : ~(Rank(s) < Rank("library"))
    BY DEF Settings, Required, Rank
  <2> QED BY <2>1 DEF Init, SetupInit, DoneSoFar, Settings, Headers
<1>3. NotStarted /\ QueueIsPolled
  BY DEF Init, SetupInit, NotStarted, NoThread, QueueIsPolled
<1>4. Joined
  BY DEF Init, SetupInit, Joined, Closing
<1>5. OneCloser
  BY DEF Init, SetupInit, OneCloser
<1> QED BY <1>1, <1>2, <1>3, <1>4, <1>5 DEF IInv

\* A step that leaves the camera and its start-up alone keeps what is known of
\* the start-up.
LEMMA SetupKept ==
  ASSUME SetupTypeOK, DoneSoFar, UNCHANGED setupVars,
         faults' = faults \/ Fault
  PROVE  SetupTypeOK' /\ DoneSoFar'
BY FaultsAssumption
   DEF setupVars, SetupTypeOK, DoneSoFar, TrueHeader, Fault

\* initCamera runs before there is any thread.
LEMMA BringUpStep == ASSUME IInv, BringUp PROVE IInv'
<1>1. /\ main = "camera" /\ InitCamera
      /\ UNCHANGED <<main, shuttingDown, threadVars, clientVars, sendData, closes>>
  BY DEF BringUp
<1>2. /\ SetupTypeOK' /\ DoneSoFar'
      /\ setup \notin {"ready", "failed"}
      /\ setup' # "ready" => ~acquiring'
      /\ setup' \in {"library", "open"} => hCam' = "null"
      /\ hCam' # "closed"
  BY <1>1, InitCameraFollows DEF IInv, TypeOK, NotStarted
<1>3. TypeOK'
  BY <1>1, <1>2 DEF IInv, TypeOK, threadVars, clientVars
<1>4. NotStarted'
  BY <1>1, <1>2 DEF IInv, NotStarted, NoThread, threadVars, clientVars
<1>5. Joined' /\ QueueIsPolled'
  BY <1>1 DEF IInv, NotStarted, NoThread, Joined, QueueIsPolled, WorkersOver,
              MessageOver, ClientOver, threadVars, clientVars, Closing
<1>6. OneCloser'
  BY <1>1, <1>2 DEF IInv, NotStarted, NoThread, OneCloser, threadVars
<1> QED BY <1>2, <1>3, <1>4, <1>5, <1>6 DEF IInv

-----------------------------------------------------------------------------
\* main starts and joins the threads (main).
LEMMA MainSteps ==
  ASSUME IInv,
         \/ CameraReady \/ CameraFails \/ CreateAstro \/ CreateMessage
         \/ CreateWorkers \/ LeaveLoop
         \/ JoinWorkers \/ JoinAstro \/ JoinMessage \/ JoinClient
  PROVE  IInv'
<1> USE DEF MainGoes, MayCrash, NoFault, cameraVars, threadVars, clientVars
<1>1. /\ UNCHANGED setupVars /\ (faults' = faults \/ Fault)
      /\ UNCHANGED <<shuttingDown, queue, closes, sendData>> /\ UNCHANGED clientVars
  BY DEF CameraReady, CameraFails, CreateAstro, CreateMessage, CreateWorkers,
         LeaveLoop, JoinWorkers, JoinAstro, JoinMessage, JoinClient
<1>2. SetupTypeOK' /\ DoneSoFar'
  BY <1>1, SetupKept DEF IInv, TypeOK
<1>3. /\ main' \in MainLabels
      /\ worker' \in [Workers -> WorkerLabels]
      /\ astro' \in AstroLabels /\ message' \in MessageLabels
  BY DEF IInv, TypeOK, MainLabels, WorkerLabels, AstroLabels, MessageLabels,
         CameraReady, CameraFails, CreateAstro, CreateMessage, CreateWorkers,
         LeaveLoop, JoinWorkers, JoinAstro, JoinMessage, JoinClient, ExitAtOnce,
         ExitOrClose
<1>4. TypeOK'
  BY <1>1, <1>2, <1>3 DEF IInv, TypeOK
<1>5. NotStarted'
  BY <1>1 DEF IInv, NotStarted, NoThread, setupVars, Closing,
         CameraReady, CameraFails, CreateAstro, CreateMessage, CreateWorkers,
         LeaveLoop, JoinWorkers, JoinAstro, JoinMessage, JoinClient, ExitAtOnce,
         ExitOrClose
<1>6. QueueIsPolled' /\ OneCloser'
  BY <1>1 DEF IInv, NotStarted, NoThread, QueueIsPolled, Joined, OneCloser,
         setupVars, Closing,
         CameraReady, CameraFails, CreateAstro, CreateMessage, CreateWorkers,
         LeaveLoop, JoinWorkers, JoinAstro, JoinMessage, JoinClient, ExitAtOnce,
         ExitOrClose
<1>7. Joined'
  BY <1>1 DEF IInv, NotStarted, NoThread, Joined, WorkersOver, MessageOver,
         ClientOver, setupVars, Closing,
         CameraReady, CameraFails, CreateAstro, CreateMessage, CreateWorkers,
         LeaveLoop, JoinWorkers, JoinAstro, JoinMessage, JoinClient, ExitAtOnce,
         ExitOrClose, AstroIsOver, ClientIsOver
<1> QED BY <1>2, <1>4, <1>5, <1>6, <1>7 DEF IInv

\* closeCamera, called by main when all is over (closeCamera).
LEMMA CloseCameraStep == ASSUME IInv, CloseCamera PROVE IInv'
<1> USE DEF MainGoes, MayCrash, threadVars, clientVars
<1>1. /\ UNCHANGED <<setup, held, header, faults>>
      /\ UNCHANGED <<shuttingDown, threadVars, clientVars, sendData>>
      /\ main \in Closing
  BY DEF CloseCamera, StopAcquisition, CloseHandle, ExitLibrary, Closing
<1>2. /\ acquiring' \in BOOLEAN /\ library' \in BOOLEAN
      /\ hCam' \in {"null", "open", "closed"}
      /\ closes' \in Nat /\ main' \in MainLabels
  <2>1. acquiring' \in BOOLEAN /\ library' \in BOOLEAN
    BY Zenon DEF CloseCamera, StopAcquisition, CloseHandle, ExitLibrary, IInv,
                 TypeOK, SetupTypeOK
  <2>2. /\ hCam' \in {"null", "open", "closed"}
        /\ closes' \in Nat /\ main' \in MainLabels
    BY DEF CloseCamera, StopAcquisition, CloseHandle, ExitLibrary, IInv, TypeOK,
           SetupTypeOK, MainLabels
  <2> QED BY <2>1, <2>2
<1>3. TypeOK' /\ DoneSoFar'
  <2>1. SetupTypeOK'
    BY <1>1, <1>2, Zenon DEF IInv, TypeOK, SetupTypeOK
  <2>2. DoneSoFar'
    BY <1>1 DEF IInv, DoneSoFar, TrueHeader
  <2> QED BY <1>1, <1>2, <2>1, <2>2 DEF IInv, TypeOK
<1>6. ASSUME astro \in {"absent", "ended"} PROVE OneCloser'
  <2>1. ~acquiring' \/ main' = "exited" \/ main' = "crashed"
    BY Zenon DEF CloseCamera, StopAcquisition, CloseHandle, ExitLibrary, IInv,
                 OneCloser
  <2>2. main' \notin {"exited", "crashed"} => main' \in {"close", "exit", "ended"}
    BY DEF CloseCamera
  <2>3. CASE main = "stop"
    BY <1>1, <1>6, <2>1, <2>3
       DEF CloseCamera, StopAcquisition, IInv, OneCloser
  <2>4. CASE main = "close"
    <3>1. hCam \in {"null", "open"} /\ closes \in Nat
      BY <1>6, <2>4 DEF IInv, TypeOK, SetupTypeOK, OneCloser
    <3> QED BY <1>1, <1>6, <2>1, <2>4, <3>1
            DEF CloseCamera, CloseHandle, IInv, OneCloser
  <2>5. CASE main = "exit"
    <3>1. /\ hCam' = "null" /\ closes' = closes
          /\ main' \in {"ended", "exited", "crashed"}
      BY <2>5 DEF CloseCamera, ExitLibrary
    <3> QED BY <1>1, <1>6, <2>1, <3>1 DEF IInv, OneCloser
  <2> QED BY <1>1, <2>3, <2>4, <2>5 DEF Closing
<1>4. CASE setup = "failed"
  <2>1. NotStarted' /\ Joined' /\ QueueIsPolled'
    BY <1>1, <1>4 DEF IInv, NotStarted, NoThread, Joined, QueueIsPolled,
           WorkersOver, MessageOver, ClientOver, CloseCamera, StopAcquisition,
           CloseHandle, ExitLibrary, Closing
  <2>2. astro = "absent"
    BY <1>4 DEF IInv, NotStarted, NoThread
  <2> QED BY <1>3, <1>6, <2>1, <2>2 DEF IInv
<1>5. CASE setup = "ready"
  <2>1. astro = "ended" /\ WorkersOver /\ MessageOver /\ ClientOver
    BY <1>1, <1>5 DEF IInv, Joined
  <2>2. NotStarted' /\ Joined' /\ QueueIsPolled'
    BY <1>1, <1>5, <2>1 DEF IInv, NotStarted, NoThread, Joined, QueueIsPolled,
           WorkersOver, MessageOver, ClientOver, CloseCamera, StopAcquisition,
           CloseHandle, ExitLibrary, Closing
  <2> QED BY <1>3, <1>6, <2>1, <2>2 DEF IInv
<1> QED BY <1>1, <1>4, <1>5 DEF IInv, NotStarted, Closing

-----------------------------------------------------------------------------
\* The listeners, triggers and senders open and close their sockets, or crash
\* (listen_thread, trigger_thread, the two threads of sc_send.c).
LEMMA WorkerSteps ==
  ASSUME IInv, NEW w \in Workers, Worker(w) PROVE IInv'
<1> USE DEF cameraVars, clientVars, NoFault
<1>1. /\ UNCHANGED setupVars /\ (faults' = faults \/ Fault)
      /\ UNCHANGED <<shuttingDown, astro, message, queue, closes, sendData>>
      /\ UNCHANGED clientVars
      /\ main' = main \/ main' = "crashed"
      /\ worker[w] \in {"born", "loop"} /\ Alive
      /\ worker' \in [Workers -> WorkerLabels]
  BY DEF Worker, OpenSocket, NeverOpened, CloseSocket, WorkerGoes, MayCrash,
         IInv, TypeOK, WorkerLabels
<1>2. SetupTypeOK' /\ DoneSoFar'
  BY <1>1, SetupKept DEF IInv, TypeOK
<1>3. TypeOK'
  BY <1>1, <1>2 DEF IInv, TypeOK, MainLabels
<1>4. /\ setup = "ready" /\ main # "camera"
      /\ main \notin {"joinAstro", "joinMessage", "joinClient", "ended"}
                     \union Closing
  BY <1>1 DEF IInv, NotStarted, NoThread, Joined, WorkersOver, Alive, Final
<1>5. NotStarted' /\ Joined' /\ QueueIsPolled' /\ OneCloser'
  BY <1>1, <1>4 DEF IInv, NotStarted, Joined, QueueIsPolled, OneCloser,
         MessageOver, ClientOver, WorkersOver, setupVars, Closing
<1> QED BY <1>2, <1>3, <1>5 DEF IInv

\* The Astrometry thread goes through its cycles, and closes the camera when a
\* focus run has lost its binning (updateAstrometry, closeCamera, clean).
LEMMA AstroSteps == ASSUME IInv, Astro PROVE IInv'
<1> USE DEF threadVars, clientVars, NoFault
<1>1. /\ UNCHANGED <<setup, held, header, main, worker, message, queue>>
      /\ UNCHANGED clientVars /\ (faults' = faults \/ Fault)
      /\ shuttingDown' \in {0, 1} /\ sendData' \in {0, 1}
      /\ astro \in {"check", "cycle"} \union Closing
      /\ astro' \in AstroLabels \ {"absent"}
      /\ Alive
  BY DEF Astro, AstroChecks, AstroCycle, AstroLosesCamera, StopAcquisition,
         CloseHandle, ExitLibrary, cameraVars, setupVars, AstroLabels, Closing,
         IInv, TypeOK
<1>2. /\ setup = "ready" /\ main # "camera"
      /\ main \notin {"joinMessage", "joinClient", "ended", "exited", "crashed"}
                     \union Closing
  BY <1>1 DEF IInv, NotStarted, NoThread, Joined, Alive, Final, Closing
<1>3. /\ acquiring' \in BOOLEAN /\ library' \in BOOLEAN
  BY Zenon DEF Astro, AstroChecks, AstroCycle, AstroLosesCamera,
       StopAcquisition, CloseHandle, ExitLibrary, cameraVars, setupVars, IInv,
       TypeOK, SetupTypeOK
<1>4. hCam' \in {"null", "open", "closed"} /\ closes' \in Nat
  BY DEF Astro, AstroChecks, AstroCycle, AstroLosesCamera,
       StopAcquisition, CloseHandle, ExitLibrary, cameraVars, setupVars, IInv,
       TypeOK, SetupTypeOK
<1>5. TypeOK' /\ DoneSoFar'
  <2>1. faults' \in 0 .. MaxFaults
    BY <1>1, FaultsAssumption DEF IInv, TypeOK, SetupTypeOK, Fault
  <2>2. SetupTypeOK'
    BY <1>1, <1>3, <1>4, <2>1, Zenon DEF IInv, TypeOK, SetupTypeOK
  <2>3. DoneSoFar'
    BY <1>1 DEF IInv, DoneSoFar, TrueHeader
  <2> QED BY <1>1, <1>4, <2>2, <2>3 DEF IInv, TypeOK
<1>6. NotStarted' /\ Joined' /\ QueueIsPolled'
  <2>1. NotStarted' /\ QueueIsPolled'
    BY <1>1, <1>2 DEF IInv, NotStarted, QueueIsPolled
  <2>2. main # "astro"
    BY <1>1 DEF IInv, Joined, Closing
  <2>3. Joined'
    BY <1>1, <1>2, <2>2 DEF IInv, Joined, WorkersOver, MessageOver, ClientOver,
         Closing
  <2> QED BY <2>1, <2>3
<1>7. OneCloser'
  <2>1. CASE AstroChecks \/ AstroCycle
    BY <1>1, <1>2, <2>1 DEF IInv, OneCloser, AstroChecks, AstroCycle,
         cameraVars, setupVars, Closing
  <2>2. CASE AstroLosesCamera
    BY <1>1, <1>2, <2>2 DEF IInv, OneCloser, AstroLosesCamera, StopAcquisition,
         CloseHandle, ExitLibrary, Closing
  <2> QED BY <2>1, <2>2 DEF Astro
<1> QED BY <1>5, <1>6, <1>7 DEF IInv

\* The message thread takes its queue up and down (initMessageQueue,
\* closeMessageQueue).
LEMMA MessageSteps == ASSUME IInv, Message PROVE IInv'
<1> USE DEF cameraVars, clientVars, NoFault
<1>1. /\ UNCHANGED setupVars /\ (faults' = faults \/ Fault)
      /\ UNCHANGED <<main, shuttingDown, worker, astro, closes, sendData>>
      /\ UNCHANGED clientVars
      /\ message \in {"born", "poll"} /\ message' \in {"poll", "ended"}
      /\ queue' \in {"none", "running", "left"}
      /\ message' = "ended" => queue' # "running"
  BY DEF Message, InitMessageQueue, CloseMessageQueue, CloseQueue, IInv, TypeOK,
         QueueIsPolled
<1>2. SetupTypeOK' /\ DoneSoFar'
  BY <1>1, SetupKept DEF IInv, TypeOK
<1>3. TypeOK'
  BY <1>1, <1>2 DEF IInv, TypeOK, MessageLabels
<1>4. /\ setup = "ready"
      /\ main \notin {"camera", "astro", "message", "joinClient", "ended"}
                     \union Closing
  BY <1>1 DEF IInv, NotStarted, NoThread, Joined, MessageOver
<1>5. NotStarted' /\ Joined' /\ QueueIsPolled' /\ OneCloser'
  BY <1>1, <1>4 DEF IInv, NotStarted, Joined, QueueIsPolled, OneCloser,
         ClientOver, WorkersOver, setupVars
<1> QED BY <1>2, <1>3, <1>5 DEF IInv

-----------------------------------------------------------------------------
\* Clients come, are served and go, and the signal sets a flag (the accept
\* loop of main, processClient, clean).
LEMMA ClientSteps ==
  ASSUME IInv, NEW c \in Clients, Client(c) \/ Accept(c) \/ PeerLeaves(c)
  PROVE  IInv'
<1> USE DEF cameraVars, threadVars, NoFault
<1>1. /\ UNCHANGED setupVars /\ (faults' = faults \/ Fault)
      /\ UNCHANGED <<main, shuttingDown, closes, sendData>>
      /\ UNCHANGED threadVars
      /\ lastClient' \in Clients \union {Nobody} /\ anyClients' \in BOOLEAN
      /\ client' \in [Clients -> ClientLabels]
      /\ peer' \in [Clients -> {"away", "connected", "gone"}]
      /\ \A d \in Clients : client[d] = "ended" /\ main # "accept"
           => client'[d] = "ended"
      /\ main # "accept" => UNCHANGED <<anyClients, lastClient>>
      /\ ~anyClients' => ~anyClients /\ lastClient' = lastClient
  BY DEF Client, Receive, Await, Send, SendOrFail, ClientGoes, Accept, Remember,
         PeerLeaves, IInv, TypeOK, ClientLabels
<1>2. SetupTypeOK' /\ DoneSoFar'
  BY <1>1, SetupKept DEF IInv, TypeOK
<1>3. \A d \in Clients : client'[d] # "absent" => peer'[d] # "away"
  BY DEF Client, Receive, Await, Send, SendOrFail, ClientGoes, Accept, Remember,
         PeerLeaves, IInv, TypeOK
<1>4. TypeOK'
  BY <1>1, <1>2, <1>3 DEF IInv, TypeOK
<1>5. NotStarted' /\ Joined' /\ QueueIsPolled' /\ OneCloser'
  BY <1>1 DEF IInv, NotStarted, NoThread, Joined, QueueIsPolled, OneCloser,
         ClientOver, WorkersOver, MessageOver, setupVars, Closing, TypeOK
<1> QED BY <1>2, <1>4, <1>5 DEF IInv

LEMMA CleanStep == ASSUME IInv, Clean PROVE IInv'
BY DEF Clean, cameraVars, setupVars, threadVars, clientVars, IInv, TypeOK,
       SetupTypeOK, DoneSoFar, TrueHeader, NotStarted, NoThread, Joined,
       QueueIsPolled, OneCloser, WorkersOver, MessageOver, ClientOver

\* Every step keeps the invariant (main and its threads).
LEMMA InvStep == IInv /\ [Next]_vars => IInv'
<1> SUFFICES ASSUME IInv, [Next]_vars PROVE IInv'
  OBVIOUS
<1>1. CASE Main
  BY <1>1, BringUpStep, MainSteps, CloseCameraStep DEF Main
<1>2. CASE Astro
  BY <1>2, AstroSteps
<1>3. CASE Message
  BY <1>3, MessageSteps
<1>4. CASE Clean
  BY <1>4, CleanStep
<1>5. CASE \E w \in Workers : Worker(w)
  BY <1>5, WorkerSteps
<1>6. CASE \E c \in Clients : Client(c) \/ Accept(c) \/ PeerLeaves(c)
  BY <1>6, ClientSteps
<1>7. CASE UNCHANGED vars
  BY <1>7 DEF vars, setupVars, threadVars, clientVars, IInv, TypeOK,
       SetupTypeOK, DoneSoFar, TrueHeader, NotStarted, NoThread, Joined,
       QueueIsPolled, OneCloser, WorkersOver, MessageOver, ClientOver
<1> QED BY <1>1, <1>2, <1>3, <1>4, <1>5, <1>6, <1>7 DEF Next

\* The invariant holds of every behaviour of the process.
THEOREM Invariance == Spec => []IInv
BY InvInit, InvStep, PTL DEF Spec

\* The variables keep their types, and a client with a thread has connected
\* (TypeOK).
THEOREM TypeCorrect == Spec => []TypeOK
<1>1. IInv => TypeOK
  BY DEF IInv
<1> QED BY <1>1, Invariance, PTL

\* A camera that initCamera calls ready is configured, whatever the SDK
\* refused on the way (initCamera and its setters).
THEOREM Configured == Spec => []ReadyMeansConfigured
<1>1. IInv => ReadyMeansConfigured
  <2>1. \A s \in Required : Rank(s) < Rank("ready")
    BY DEF Required, Rank
  <2> QED BY <2>1 DEF IInv, DoneSoFar, ReadyMeansConfigured
<1> QED BY <1>1, Invariance, PTL

\* The headers of a ready camera do not lie (default_metadata as the setters of
\* camera.c leave it).
THEOREM TrueHeaders == Spec => []HeadersAreTrue
<1>1. IInv => HeadersAreTrue
  <2>1. \A s \in Headers : Rank(s) < Rank("ready")
    BY DEF Headers, Settings, Required, Rank
  <2> QED BY <2>1 DEF IInv, DoneSoFar, TrueHeader, HeadersAreTrue
<1> QED BY <1>1, Invariance, PTL

\* main closes the camera when the threads it joins are over (the joins of
\* main before closeCamera).
THEOREM ClosesLast == Spec => []CloseAfterThreads
<1>1. IInv => CloseAfterThreads
  BY DEF IInv, Joined, WorkersOver, MessageOver, ClientOver, CloseAfterThreads
<1> QED BY <1>1, Invariance, PTL

\* The message queue is down before main closes the camera (updateMessages,
\* main).
THEOREM QueueEndsFirst == Spec => []QueueEndsBeforeCamera
<1>1. IInv => QueueEndsBeforeCamera
  BY DEF IInv, Joined, QueueIsPolled, MessageOver, QueueEndsBeforeCamera
<1> QED BY <1>1, Invariance, PTL

\* An open camera is closed once, by main or by a focus run (closeCamera).
THEOREM ClosesOnce == Spec => []ClosedOnce
<1>1. IInv => ClosedOnce
  BY DEF IInv, OneCloser, ClosedOnce
<1> QED BY <1>1, Invariance, PTL

\* The program does not end with the camera open, but for the one exit main
\* takes without closing it (main, closeCamera).
THEOREM ClosedAtExit == Spec => []CameraClosedAtExit
<1>1. IInv => CameraClosedAtExit
  BY DEF IInv, TypeOK, SetupTypeOK, Stages, NotStarted, NoThread, Joined,
         OneCloser, Closing, CameraClosedAtExit
<1> QED BY <1>1, Invariance, PTL
=============================================================================
