# A verification development for blastcam

`blastcam` is the flight software of the BLAST star cameras: one multithreaded C
process (`commands`) that takes images of the sky, focuses the lens, solves for
the pointing of the telescope, obeys commands of TCP clients and of two flight
computers, and sends pointing solutions back.  This directory holds TLA+ models
of the parts of it that are hard to test, the TLC configurations that check
them, and theorems about them with proofs for TLAPS.

The process has **no mutex**.  Its threads meet in plain C globals
(`command_lock`, `taking_image`, `focus_mode`, `cancelling_auto_focus`,
`trigger`, `image_solved`, `shutting_down`, ...) that they poll and overwrite.
Its lens answers over a serial line that can fail at every command, and it keeps
its idea of the lens position as relative shifts.  Those two facts decide what
is worth modelling: the order of unlocked reads and writes, and what a failure
in the middle of an operation leaves behind.

## Inventory

| Component | State | Operations | Talks to | What is hard | Correct when |
|---|---|---|---|---|---|
| TCP clients: `processClient` (commands.c) | `command_lock`, the shared buffer `all_cmds`, `num_clients` | receive, wait for the lock, execute, unlock, send telemetry | shared flags; lens adapter; `send_data` | test and set of the lock are two steps; a closed connection looks like a command | one command at a time; the lock never stays up; a command takes effect once |
| UDP listeners: `listen_thread`, `process_command_packet` (sc_listen.c) | `command_lock` and the same parameters | receive, take the lock, execute, set the trigger mode | same | takes the lock regardless; holds it while waiting for an image | a packet completes; no lens command under an image or an auto-focus run |
| Trigger threads: `trigger_thread` (sc_listen.c) | `trigger` | set it | Astrometry thread | the flag is cleared a step after it was seen | one triggered image per trigger |
| Astrometry thread: `updateAstrometry`, `doCameraAndAstrometry` (commands.c, camera.c) | `taking_image`, `begin_auto_focus`, `photo_time`, `image_solved`, `send_data` | auto-focus if asked, wait for a trigger, expose, transfer, solve | everyone | failures in the middle of an image; shutdown in every state | flags are down between images; the shutdown ends it |
| Auto-focus: `doContrastDetectAutoFocus` (camera.c), `beginAutoFocus`, `defaultFocusPosition`, `shiftFocus` (lens_adapter.c) | focus range, tries, best position, binning | search downwards in steps, then return to the sharpest position | lens, camera, `focus_mode`, cancel flag | every lens call fails or sticks; commands change range and mode under the run, and drive the lens under its last moves | it ends, inside its range, at the sharpest image's position, with the binning restored |
| Lens and exposure: `initLensAdapter`, `adjustCameraHardware`, `runCommand` (lens_adapter.c), `setExposureTime`, `setMonoAnalogGain` (camera.c) | `focus_position`, `prev_focus_pos`, aperture, exposure | start-up moves, relative moves, position read-back, setters | lens adapter, camera | a failed start, move or read-back shifts what the next command builds on | once the position has been read, earlier faults do not spoil a command; failures are reported |
| Solution link: `lostInSpace` (astrometry.c), `astrometry_data_thread` (sc_send.c) | `all_astro_params`, `image_solved[2]`, a packet per computer | write a solution, announce it; copy, lower the flag, send | flight computers | copy and clear without a lock under a writer | each solution reaches both computers; what a packet mixes of two images is bounded |
| Frames: `imageCapture`, `imageTransfer`, `measureSharpness`, `setBinningFactor` (camera.c) | frames in the camera's buffer, acquisition | trigger, wait, unpack, release | camera SDK | a late frame after a timed-out wait | an image gets its own frame and time; frames are released |
| Camera set-up: `initCamera`, `loadCamera` and the setters they call (camera.c) | the camera's settings, `default_metadata` | some twenty calls in a row | camera SDK, FITS headers | each call may be refused, some refusals are fatal and some are not | a camera called ready obeys single triggers with fixed settings, and its headers say so |
| Life cycle: `main`, the thread functions, `closeCamera` (commands.c, camera.c, sc_send.c, sc_listen.c) | threads, camera handle, message queue, `any_clients`, `client_thread_id` | start, accept, join, close | everyone | failures that are ignored at the start and met again at a join; two callers of `closeCamera`; joins that wait for a client | the camera is closed once, last, and the process ends after a signal |
| Imaging: `makeMask`, `boxcarFilterImage`, `findBlobs`, `merge`, `part`, the centroids and the date in `doCameraAndAstrometry` (camera.c) | mask, hot pixels in memory and on disk, filtered image, blobs | mask, smooth, search, sort, centre | blob parameters of the commands, the solver | a request flag tested three times against commands; sliding sums in static buffers; sentinels; flipped axes | the map in use is the one made; the filter is a mean; the brightest star is found and stays whole |
| Parameter telemetry, message polling, FITS files, solver library, matrix and convolution kernels, commander test tool | - | - | - | floating point, file output, a ground tool | - |

Compiled with `TEST_FLIGHT` (the CMake build) the program leaves out blob
finding and solving (camera.c 2931-3090); `Blobs`, `Imaging` and `SolutionLink`
model the build that has them, the other modules cover both.

## Modules

| Module | Models | Read it with |
|---|---|---|
| `Commanding` | all threads that share the command, focus and exposure flags | commands.c 230-480, sc_listen.c 98-459, camera.c 2532-2929 |
| `CommandingProofs` | theorems about `Commanding` | |
| `FocusSearch` | what an auto-focus run promises, without lens, failures or flags | abstract |
| `AutoFocus` | the auto-focus run with its lens calls, failures and interference | camera.c 2532-2756, 1683-1889; lens_adapter.c 400-503, 596-642, 704-792; commands.c 366-431; sc_listen.c 128-322 |
| `AutoFocusProofs` | theorems about `AutoFocus` | |
| `CameraSetup` | `initCamera` call by call | camera.c 272-1050, 1199-1436; astrometry.c 147-172 |
| `Lifecycle` | `main` and the life of every thread, with `CameraSetup` for its camera | commands.c 230-287, 295-480, 799-940; camera.c 1058-1196, 1262-1291; sc_send.c 173-256 |
| `LifecycleProofs` | theorems about `Lifecycle` and `CameraSetup` | |
| `Filters` | mask and box filter, as operators on small images | camera.c 203-208, 2004-2156 |
| `FiltersProofs` | theorems about `Filters`, and the lemmas on induction, recursion and sums | |
| `Blobs` | search, merge sort and centroid, as operators | camera.c 2365-2501, 2961-3008 |
| `Imaging` | an image from its date to the solver, with the packets that disturb it | camera.c 2166-2444, 2796-2811, 2947-3008; sc_listen.c 169-198 |
| `ImagingProofs` | theorems about `Blobs` and `Imaging` | |
| `Frames` | triggers, frames in the camera, binning changes, the close of the camera | camera.c 1199-1292, 1554-1889, 2606-2710, 2900-2925 |
| `FramesProofs` | theorems about `Frames` | |
| `LensControl` | the start of the lens, then one command's effect on lens, aperture and exposure | lens_adapter.c 229-393, 596-811, camera.c 446-500, 865-926 |
| `LensControlProofs` | theorems about `LensControl` | |
| `SolutionLink` | the hand-over of solutions to the flight computers | astrometry.c 269-375, camera.c 2921-3056, sc_send.c 22-170 |
| `SolutionLinkProofs` | theorems about `SolutionLink` | |
| `MCCommanding`, `MCAutoFocus`, `MCLensControl`, `MCImaging` | values of the constants for TLC | |

The modules overlap on purpose, each with the detail its properties need: in
`Commanding` the auto-focus run is reduced to its flags and `adjustCameraHardware`
to one state; `AutoFocus` has one run in full, and commanders without their lock,
their aperture and their exposure; `LensControl` has `adjustCameraHardware` in full
with commands one after another; `Frames` has the image calls of both kinds of image
in full, which are one step that succeeds or fails in the other two.

**Commanding.**  `pc[t]` is where commander `t` is; the labels of `Section` are
the lines between `command_lock = 1` and `command_lock = 0`, in order: the cancel
flag, the focus mode, the gate, the wait for `taking_image`, the adjustment, the
trigger mode (listeners only), the unlock.  `astro` is where the Astrometry thread
is, with the `af...` labels for the auto-focus run.  An action reads or writes a
shared flag once, so test-and-set pairs and check-then-act pairs fall apart the
way they do in the program.  A client's command is read from the shared
`allCmds` at each use, a listener's from its own packet.  `unusedTrigger` is a
history variable: a trigger came since the last triggered image was released.

**AutoFocus.**  `lens` is where the lens is, `focusPos` what the software believes,
`prevPos` what the last `fp` left.  `pc` is where the run is; inside a lens call
(`LensCalls`) `step` is the lens command to come: `mi`, `fp`, `mf` and the `fp` that
checks it in `beginAutoFocus` and `defaultFocusPosition`, the last two in
`shiftFocus`.  A move arrives or halts on the way; `fp` reads the position, fails,
or answers what `sscanf` cannot parse, which `runCommand` counts as success. A
command goes from its mode through the range and the gate to `focus_position`, the
wait for `taking_image`, the lens and the reading (`at[c]`), between any two steps
of the run.  Two threads that use the serial line at once can take each other's
answers; a position read then is any of the lens's (`Reports`).  `disturbed` and
`astray` are history variables: something went wrong with the lens, or a command
changed something, since the run began, and the same of lens and `focus_position`
alone since the reading the last move is computed from.

**Frames.**  A frame is known by the number of the trigger that began it and by
the binning factor it was taken at.  `exposing` holds the frames under way, `queue`
those that wait to be taken, `held` counts those whose buffer was not given back.
`metadataTv` is the time of the last trigger, i.e. its number.  The camera
(external) delivers frames in the order of their triggers, as late as it likes,
or loses them, and may refuse any call; stopping the acquisition drops its frames
and buffers, which the start allocates again ("Buffer is automatically allocated
in the following call").  `unpacked` says what was last copied to
`unpacked_image`, and for what.  `missed` is a history variable: the waits that
ended without a frame since the acquisition started.

**CameraSetup.**  `setup` is the call to come.  A setter has one of three outcomes
(`Done`, `Refused`, `Skipped`), and which of them it can have is what distinguishes
the setters in the code: `DisableAutoGain` reports a refusal, `SetFps` does not.
`held` are the settings the camera has as wanted, `header` what the read-back
leaves in `default_metadata`: the value wanted, another one, or the fallback that
is written when nothing could be read.

**Lifecycle.**  Extends `CameraSetup` with `main` and one variable per thread or
kind of thread; the listener, trigger and sender threads only differ in what they
do while they run and are all `Workers`.  `astro` may lose the camera in a focus
run and close it, in the same three steps as `main` (`StopAcquisition`,
`CloseHandle`, `ExitLibrary`), so that the two can meet.  `MayCrash` stands for
what C leaves undefined: joining a thread that was never created, reading the
result of one, freeing an address list that was never fetched.  `faults` bounds
what goes wrong in one life.

**Imaging.**  A pixel is a pair, an image a function, a double a multiple of
`1/Scale`.  `Filters` and `Blobs` compute what the loops compute, in the same
way: the row sums slide, the columns are added up, the search keeps or replaces
in scan order, the merge runs on its sentinels.  `Imaging` cuts `findBlobs` into
the steps between which a packet makes a difference.  `rows` and `ic` are the
static buffers, which outlive the image.

**LensControl.**  Starts with `initLensAdapter`, whose every step may be its last.
Then an outcome per lens command, again with stuck moves, failures
and unreadable answers.  `goal` (where the command should bring the lens), `fault` (one of
its own lens commands fell short or could not be read), `reading` and `atStart` (has `fp`
read the position since the lens last moved, now and when the command began), `asked`,
`heard` and `failed` are history variables.  No action reads them.

**SolutionLink.**  A parameter is known by the cycle that wrote it.  `photo`, `dec`,
`ra` and `alt`, written in this order, stand for the groups of fields that are
written and read at different times; they are read in the order `alt`, `dec`,
`photo`, `ra`.  `notice` and `sent` count, per computer, the announcements and the
packets.

## Runs

| Run | Instance | Result |
|---|---|---|
| `commanding` | 1 client, 1 listener, 1 focus try, 5 kinds of packets; about 4.4 million states | passes |
| `commanding_live` | 1 listener, 2 tries, fairness; about 0.2 million states | passes |
| `commanding_exclusion` | 2 clients | violates `OneCommandAtATime` |
| `commanding_image` | 1 listener | violates `NoAdjustmentDuringImage` |
| `auto_focus` | lens of 5 counts, margin 1, steps -1, 1, 2, 2 tries, 1 commander, 2 commands per run; about 8.0 million states | passes |
| `lifecycle` | 1 worker, 2 clients, 1 fault; about 285 thousand states | passes |
| `imaging` | images of 13 x 12 pixels, 2 or 3 stars, 1 packet; about 14 thousand states | passes |
| `imaging_centroid` | the same without packets | violates `CentroidIsWeighted` |
| `frames` | 3 buffers, 6 images; about 75 thousand states | passes |
| `lens_control` | lens of 4 counts, 3 client commands, packets of any kind; about 3.1 million states | passes |
| `lens_control_aperture` | clients only | violates `ApertureMovesOncePerCommand` |
| `solution_link` | 2 computers, 2 cycles, fairness | passes |

What the passing runs show:

- `LockNeverAbandoned`: although listeners and clients overwrite `command_lock`
  under each other, no order of their writes leaves it up with no commander in a
  command section.  The argument is not obvious, because commanders do lower each
  other's lock: it holds since whoever writes 1 will write 0 later, and the last
  one to leave writes 0.
- `FlagDownBetweenImages`: an abandoned auto-focus image returns with
  `taking_image` up; the observing image that always follows in the same cycle
  lowers it again, also at shutdown.
- `OneImagePerTrigger`: between two triggered images a new trigger has come.  (A
  trigger that comes between the poll and the clearing is lost; that is
  compatible with the property.)
- `LoneCommanderRespectsFocus`: with a single commander the gate does its work as
  long as `focus_mode` is up.  With two commanders it does not, because the gate
  is read before the wait for the image.
- `CommandsComplete`: a command section ends unless the camera waits for a trigger
  for ever.  The exception is real: in trigger mode `taking_image` is up during
  the wait, the waiting command holds `command_lock`, and a packet that leaves
  trigger mode waits at the same place before it sets the mode.
- `ShutdownStopsCamera`, `AutoFocusEnds`: the loops end, with the tries
  as the only guarantee for the search.
- `ImplementsFocusSearch`: `AutoFocus` implements `FocusSearch` under the
  refinement mapping of `Search`: `phase` from `pc`, `seen` the images of this run,
  `chosen` the best position when the run returns 0.
- `FinishesAtBest`: nothing that went wrong before the last move carries over into it, no
  fault of the search or of the way back and no command, because `beginAutoFocus`
  reads the position again right before it.  From that reading on the lens must obey
  and commands must leave it alone: the gate is open by then, and when it writes `focus_position` or drives the lens, the run
  returns 0 with the lens elsewhere.
- `BinningRestored`: no way out leaves the camera at the search's binning unless
  it is being shut down.
- `ImagesInRange`: an undisturbed search images whole steps down from the end of
  the range and never below its start.
  (The end of the range is imaged, its start is not: the end condition is tested
  before the image.)
- `SharpnessOfItsImage`: a focus position is never given the sharpness of another
  position's image, although nothing ties a frame to its trigger: a run begins with
  an empty acquisition, and whatever leaves a frame behind ends it.
- `UnpackedAtItsSize`, `ReadyForImages`: every failure of a binning change, at
  the stop, the factor or the new start, ends in a camera at binning 1 or in the
  shutdown, and no binned frame is left for `imageTransfer`, which reads a full one.
  The images of a run are taken at its binning and with every buffer free to use:
  frames that observing images never released are gone with the restart, and a
  run that cannot release one of its own ends there.
- `LagBounded`: what the stamps of observing images can be wrong by.  Only waits
  without a frame shift images against their stamps; lost frames, refused triggers
  and unreleased buffers do not.
- `ReadyMeansConfigured`, `HeadersAreTrue`: no refusal among the calls of
  `initCamera` is overlooked.  The headers of the automatic modes read "off"
  whatever the camera answers, because the getters only ever write 0; they are
  true all the same, since the start-up ends when a mode cannot be switched off.
  The bit depth is not: `default_metadata.bitdepth = 12` also when the format is
  not writeable (camera.c 1391-1399).
- `CloseAfterThreads`, `QueueEndsBeforeCamera`, `ClosedOnce`, `CameraClosedAtExit`:
  the order of the joins.  When a focus run closes the camera on the Astrometry
  thread, `main` gets to its own `closeCamera` only afterwards and finds the handle
  cleared.  The one exit that leaves the camera open is the failure to create the
  Astrometry thread (commands.c 820-825).  Clients' threads that are not the last
  one are not joined and may be running while the camera is closed.
- `ShutdownEnds`: after a signal `main` reaches the join of the last client's thread
  whatever happened before; from there it ends if that client has left and an
  image has been transferred once.  Both conditions are real: the client's thread
  does not look at `shutting_down`, and waits for `send_data` without end.
- `MapInUse`: the flag `make_static_hp_mask` is tested when the map is written, again
  when it is read, and then reset.  A packet that withdraws the request between
  the two tests leaves the new map on disk and the old one in use; no other order
  does.  (A request that comes between the second test and the reset is lost.)
- `FilteredIsMean`: the sliding sums equal a mean computed from scratch, for every
  pixel the search looks at, as long as a row of the box fits a `char`, the
  smoothing radius is not above the search border, and the high-pass filter has the
  larger box.  The default parameters satisfy all three (`RadiiAssumption`); commands
  may set others, unchecked (sc_listen.c 192-207).
- `BrightestFound`: the replacement rule of the search may leave two blobs closer than
  `unique_star_spacing`, or the same blob twice when it is near two fainter ones,
  but never loses the brightest.
- `SortedTogether`: the merge keeps the three arrays together and sorted, provided
  every magnitude is above its sentinel 0 (`ThresholdAssumption`).
- `DateKept`: the correction for leap years leaves every date as it is but 29
  February, which becomes 29 January because `gmtime` has counted it right already
  (camera.c 2802-2807, where the comment says "we are still in February"; the same
  code names the FITS files, 1513-1524).
- `LensObeys`: one good `fp` ends the effect of every fault before it, of the start, of
  moves and of readings, and so does a command to infinity, whatever was known.
  It includes a start without faults.  After an `fp` that failed or could not be parsed
  nothing is claimed: such a fault does reach into the next command.
- `ExposureFollows`, `FailuresReported`: see the module.  The reverse of the second
  does not hold: a successful exposure or gain change makes
  `adjustCameraHardware` return 0, and the caller then prints an error.
- `FieldsNotNewerThanTime`, `NoMorePacketsThanSolutions`, `SolutionsArrive`: a
  packet may mix images, but the altitude and the declination in it are never of a later
  image than its photo time, nor the altitude of a later one than the right ascension.
  The right ascension is read after the photo time and may be of a later image than it.
  Nothing is sent without an announcement; one computer's thread
  does not use up the other's flag.

The runs that expect a violation check what a comment says; each has a finding in
`PROJECT.json` with the comment and the lines. What remains of the comment is a
theorem in three of the four, with a condition that the comment does not have.
`CentroidIsWeighted` is wrong in one sign only: `CentroidsReversed` says that sum, x
and the amount of y are those of the light.  `OneCommandAtATime` is broken only by
entering a section with the lock up: `FreeLockExcludes` says that commands exclude
each other if whoever takes `command_lock` finds it down at that very step, so that
a test-and-set in clients and listeners would be enough.
`ApertureMovesOncePerCommand` is broken only by a closed connection:
`ApertureMovesOnce`.

Five more facts of the same kind follow from the models without a run of their own:

- The run lowers `focus_mode` at the end of its search (camera.c 2625), before its last
  moves (2730-2748): the gate is open under these, although commands.c 376-377 and
  sc_listen.c 141-142 say that "performing auto-focusing will restrict some of the other
  cmds".  A command then may write `focus_position` after the reading the last move is
  computed from, or drive the lens, and the run returns 0 with the lens away from
  `bestFocusPos` although the lens obeyed: `FinishesAtBest` without its proviso is
  violated.  The gate is open as well when the first `beginAutoFocus` has failed (2598),
  and after a second `focus_mode = 0` packet; the run goes on moving the lens.
  `LoneCommanderRespectsFocus` is what remains.
- The shift of a command is taken from `prev_focus_pos`, which lens_adapter.c 617 calls the
  "current focus".  After a move that falls short and an `fp` that is not parsed it is the
  commanded position (770-788): the same position commanded again is a shift of 0, and
  the lens stays where it is, with no fault of that command.  `LensObeys` without its
  proviso is violated.
- After a wait without a frame the late frame is taken for the next image and
  stamped with its time (camera.c 1649), which 1647-1648 calls "the time of
  observation start".  `LagBounded` says by how much.
- A solution announced while `astrometry_data_thread` fills the packet of the one
  before is wiped out when it lowers the flag (sc_send.c 145).  `SolutionsArrive`
  therefore promises a packet at least as new as a flag that was seen, no more.
- The second search of an image sets `high_pass_filter` to 0 afterwards, whatever a
  command had set (camera.c 2956-2959).

### Bounds

- Commanders: with one client and one listener every pair of different handlers
  meets; the theorems cover any number.  Two of a kind only matter for mutual
  exclusion, which `commanding_exclusion` refutes with two clients.
- Packets: one for each way a packet can touch a flag.
- `MaxFocusTries` (1600) is 1 or 2: the run leaves its loop with tries left and
  without.  The theorems cover any number.
- In `AutoFocus` the margins of 25 counts and the range are scaled down together; the
  lens has two stops and three positions between them.  Two tries are enough to shift
  once, to reach the start of the range, to reverse with a negative step, and to run
  out.  Two commands can cancel a run and then pass the gate that this opened, or both
  come in the last moves.  One commander is enough to meet the run at every step;
  several are in the theorems.
- `LensControl` has positions inside and beyond the stops, and exposures inside
  one millisecond of each other and across it.
- `Lifecycle` has one fault, in any of the calls: more only combine refusals that end
  the start-up with failures that come after it.  Two clients are enough for one
  that is joined and one that is not.  The theorems cover any number of each.
- `Imaging` has stars whose 3 x 3 smears touch and overlap, brightening and fading
  along the scan, some of them hot, a bright pixel at the edge, and one packet at
  any step; each image follows the zeroed buffers of a start and, in the second
  search, those of the first.  The dates are those around the end of February of a
  leap year, of another, and of 2100.
- `Frames` has six triggers: enough for two missed waits, a focus run that clears
  their frames, and images after it; three buffers can fill up and leak.  The
  theorems cover any number of both.
- `MaxCycles = 2`: a solution can overtake the packet of the previous one.

Deadlock is checked except where the modelled threads end by design (`AutoFocus`: the run is over and the commands are used up; `SolutionLink` and
`Frames`: shutdown, and the last image of the bound; `Lifecycle`: the process has
ended, or `main` waits for a client; `Imaging`: the last image) and in the violation
runs of `Commanding`.

### Fairness

Weak fairness on the steps of each thread: the threads are preemptively
scheduled and none of their steps waits for anything but the flags in the guards
and I/O with time-outs (sockets of 3, 0.5 and 0.005 seconds, `WaitForMessage` a
second, `WaitForFrame` a few exposure times).  One wait has none: the serial line
is read with `VMIN = 99` and `VTIME = 1` (lens_adapter.c 276-278), which gives up
0.1 s after a character but waits without end for the first one, so fairness
assumes a lens adapter that answers something.  Nothing from outside (packets,
connections, triggers, signals, commands, a client that leaves) is fair.

Strong fairness on one step, `SeeNoImage`: a commander polls `taking_image` every
10 or 100 ms, and between two images the flag stays down through the exposure,
the transfer, the output and, outside trigger mode, a pause of a second, so a
poll meets it down.  Without it `CommandsComplete` would fail on a scheduler that
always polls during the short time the flag is up.

### Memory

The threads share globals that are not atomic, which C leaves undefined.  The
models take each aligned load and store as indivisible and in program order;
every loop that polls a flag calls `usleep`, so that the flag is read again.
`FieldsNotNewerThanTime` depends on the order of the loads in
`populate_astrometry_packet` and of the stores in `lostInSpace`, and would not survive a
compiler that swaps them.

## Proofs

`CommandingProofs`, for any sets of clients, listeners and packets (clients and
listeners disjoint, packets of the right type) and any positive number of tries:

- `TypeCorrect`: `TypeOK` is inductive.
- `LockIsNeverAbandoned`: `LockNeverAbandoned` is inductive given `TypeOK`.  The
  lemmas say that a command section keeps its commander inside until the unlock
  and that no other thread moves a commander.
- `FreeLockExcludes`: `OneCommandAtATime` for the behaviours in which `LockIsFree`
  holds of every step.  The strengthening `SectionLocked` adds that a commander in its
  section has the lock up; `MovesKeepSectionLocked` covers the four ways a commander
  can move.
- `FlagIsDownBetweenImages`: inductive; the commanders do not write the flag.
- `EachTriggerUsedOnce`: an action property, from the invariant that a raised
  `trigger` with the thread not at the clearing step has not been used.
- `LoneCommanderIsSafe`: not inductive.  The strengthening `LoneGateHeld` says
  that from the gate to the end of the adjustment a lone commander keeps
  `focus_mode` down, because the Astrometry thread only ever lowers it.

`SolutionLinkProofs`, for any set of computers and number of cycles:

- `TypeCorrect`.
- `FieldsAreNotNewer`: not inductive.  `WritesOrdered` adds the order of the writes
  (`alt <= ra <= dec <= photo <= cycle`, equal to `cycle` from their own step to the
  end of the cycle's writes), `ReadsOrdered` that of the reads (what a packet has
  read is never newer than the shared field, and from the step at which the later
  field is read the two are in order).
- `PacketsAnswerSolutions`: not inductive.  `RaisesCoverPackets` adds the packet
  under way and the raised flag to the packets sent.

`FramesProofs`, for any positive number of buffers, any focus binning above 1 and
any number of images.  All the properties come from one inductive invariant,
`IInv`.  None of them is inductive alone: what can be unpacked next depends on the
frames in flight.  `InOrder` says that these are ordered by their triggers and
that what has arrived is older than what has not; `OfThisFactor` that they all
have the current binning; `Backlog` that each is late by no more than the missed
waits, with one image's difference while the thread waits (`Awaited`);
`FocusReady` that nothing is missed and nothing held back inside a run, so that there
the backlog is nothing.  The theorems are `FramesTypeCorrect`, `SharpnessIsCurrent`,
`SizesAgree`, `CameraReady` and, as an action property, `LagIsBounded`.
Two more have no run of their own:

- `ImagesInOrder`, an action property: no frame is unpacked twice, or after one of a
  later trigger.  `AfterUnpacked` says that everything in flight is younger than what
  was unpacked last; `InOrder` makes the frame taken the oldest.
- `BuffersAreAccounted`: the leak is bounded.  Waiting and unreleased frames never
  exceed the buffers, and each has cost an image.  Inductive once the sets of frames
  are known to be finite.

`LifecycleProofs`, for any sets of workers and clients and any number of faults, from
one inductive invariant `IInv`, of which `DoneSoFar` is about `CameraSetup` and
`NotStarted`, `Joined`, `QueueIsPolled` and `OneCloser` about the threads.
Over `CameraSetup` the invariant is that of a chain: a call is reached only with
the settings of the required calls before it held (`Configured`), and a header once
written agrees with its setting (`TrueHeaders`).  Over `Lifecycle` it says how far
`main` has come implies which threads have ended (`ClosesLast`, `QueueEndsFirst`);
`ClosesOnce` needs that the handle, once closed, stays so until its caller clears
it, and that only one of the two callers can be between those steps; `ClosedAtExit`
adds what each exit has behind it.

`LensControlProofs`, for any lens range, positions, exposures and commands:
`LensIsObedient` rests on `OnCourse`, whose first part `KnownIsTrue` holds under all
faults: as long as `reading` is "known", `prevPos` is where the lens is.  The rest
says, stage by stage of a command and of the start, what a lens without a fault of
that command's own has reached, where the position was known or infinity is the
target (`Sure`): after the move it is at `goal`, and once the position has been read
again the software knows it.  `CommandOnCourse` is the beginning of a command: its
position, cut to the range, becomes the goal, and nothing is assumed of the commands
before.  `ExposureIsFollowed` rests on `ExposureInv`: the exposure noted and the one
asked for have the same ceiling, and the camera has the noted one unless a change is
pending or was refused.  `FailuresAreReported` rests on `Visible`: a failure leaves
-1 until a later setter's 0, and both are below 1.  Two theorems are about the
aperture, by the stages of a command (`ApertureSteps`): `StepsAreUsed` says that
steps outlive their command only where `max_aperture` took precedence, so that a
failed move is not repeated, and `ApertureMovesOnce` that without `PeerClosed` a
command moves the aperture at most once (`MovesInv`: not at all before its turn).

`AutoFocusProofs`, for any lens, margin, steps, tries, scores and commands:
`BinningIsRestored` (from `BinnedOnlyInSearch`), `LensEndsAtBest` (from
`OnTheWayToBest`: the best position is one the lens can reach, and while the lens is
not astray it is where `fp` found it before the last move and at the best position
after it; nothing of the search is needed, because that reading starts `astray` anew),
`ImagesAreInRange` (from `InsideRange`: at each step of a lens call of an undisturbed
run the lens is where the search wants it, a whole number of steps from the end of the
range, or the loop is at its end condition; `ToRangeInside` and `ShiftInside` are the two
calls)
and `RunIsFocusSearch`, the refinement: `BestOfImages` says that the best position
is a sharpest of the images so far, and each action is a step of `FocusSearch`
under the mapping or leaves it unchanged.  Two lemmas carry all of them: `LensCallLeads`,
what a step of a lens call may change and where it leads, and `CommandsKeep`, what no
command touches.

`FiltersProofs`, for images of any size, any mask and any radius `r` with
`2 r + 1 <= CharMax`: `BoxIsMean`, the two passes of `boxcarFilterImage` against a
mean taken from scratch.  `RowSumIsWindow` says that the sum that slides along a row
is the sum over its window, `CountOfBox` that the counts come through the `char`
unharmed, `BoxByRows` that the second pass adds up a box, `LastValue` that a value is
only carried over where nothing counts.

Sums, rows and the carried value are recursive, so these are inductions.  The
library's induction theorems are about predicates, which the provers cannot
instantiate; here induction is stated about sets (`NaturalInduction`,
`FiniteInduction`: a set that holds this and is closed under that holds everything),
proved from the least element of a set (`LeastNatural`, `LeastFiniteSet`), and used
with the set of the values for which the fact holds.  A recursive function is a
choice among the solutions of its equation; `PrimitiveRecursion`,
`MeasuredRecursion` and `LoopExists` show that there is one.  `SumUnique` then makes
the sums of the community modules independent of the order in which they are taken.

`ImagingProofs`, first about operators:

- `PartSorts`: `part` gives the same blobs, in order, for a list of any length.
  `MergeSorts` is the loop of `merge`, whose invariant `Merging` says what was taken
  from each half and that nothing left is brighter; as long as both magnitudes are
  above 0 a sentinel loses against every blob and is never taken itself.
- `SearchCovers`: the scan by induction over the pixels in memory order, with
  `Covered` as the invariant: entries are only replaced by brighter ones.
- `SortedFlip`: the turn of rows into heights and back commutes with the sort.
- `CentroidReversed`: the nine offsets are the pixels within a pixel of the blob, and
  the weights along the columns are the opposite of those in the reference.

Then about `Imaging`, for any set of images, dates, thresholds and packets within the
assumptions.  None of the properties but `DateKept` is inductive: each speaks of one
stage and rests on what the stages before it left in the buffers.  The inductive
invariant `IInv` says that: `MapInv`, that a map made and not yet read is still asked
for, or the request was withdrawn; `FilterInv`, that `rows` holds the row sums of the
image and mask in use for the radius of the pass to come, that `ic` holds the means
before the high-pass filter, and that `border` tells which filters ran; `BlobInv`,
that `blobs` comes from `found`, and `found` from the filtered image.  A packet may
come between any two steps and changes none of it, but for the request.  The theorems
are `TypeCorrect` (above all: every blob lies in the image with its neighbours),
`MapIsInUse`, `FilteredMeans`, `BrightestIsFound`, `BlobsSortedTogether`,
`CentroidsReversed` and `DateIsKept`.  `IInv` also held in TLC on the instance of
`imaging`.

The assumptions that the proofs add to the sizes: the radii (as above), thresholds
that are not negative (with some noise `mean + n_sigma * sigma` is not below 0;
otherwise a magnitude could be 0 and equal a sentinel), dates of the Gregorian
calendar from 1970 to 2299 (`isLeapYear` is given years since 1900, and takes 2000
for a common year, in which nothing is corrected, and 2300 for a leap year), and
pixels that are not negative (they are unsigned).

Only model-checked: liveness (`CommandsComplete`, `ShutdownStopsCamera`,
`AutoFocusEnds`, `SolutionsArrive`, `ShutdownEnds`), which with fairness and
`ENABLED` is out of the prover's reach.  Every other property of a passing run is
stated by a theorem.

## Not modelled

- The solver library, the Sobel convolution and the matrix kernels: floating point.
  `quadRegression`, `gaussianElimination` and `calculateOptimalFocus` are no longer
  called.
- The mean and sigma of an image: the search takes any threshold.  The blob
  parameters a command may change other than the map request and the high-pass
  filter: changed in the middle of an image they change its stars, and nothing
  more was found to depend on them; a box larger than the assumptions of `Filters`
  overflows.
- `filter_return_image`: what it writes is overwritten by the next lines (camera.c
  3011).
- Files, logging, terminal output; the contents of telemetry; the temperature.
- The commander test tool, a ground program that sends packets in turn;
  `Commanding` and `AutoFocus` take packets in any order.
- Partial TCP receives: `recvfrom` on a stream may return less than a command.
- What two threads that use the serial line at once do to each other's bytes:
  `AutoFocus` has the outcome (a wrong position, an unparsed answer, a failed
  command), not the bytes; in `LensControl` commands come one after another.
- Pairs of adjacent reads of shared flags are one step where nothing comes between
  them that a property could tell: `focus_mode` and the cancel flag at the gate
  (commands.c 387), their update by a packet (378-381), `shutting_down` and
  `image_solved` in `astrometry_data_thread` (sc_send.c 105, 142), the request for a
  hot-pixel map and the threshold it carries, read again for each pixel (camera.c
  2199, 2213).  A failure to read the exposure range (camera.c 881-900) ends
  `setExposureTime` like any other failure of it.  The stops `la` reports are taken
  to be those of the lens.
- After a failed open of the serial line the file descriptor is -1 and `FD_SET` on it
  is undefined; `LensControl` lets the commands that follow succeed or fail.
- An acquisition that has leaked all its buffers (`BuffersAreAccounted` allows it)
  gets no frame until a focus run restarts it; no comment promises that it will, so
  nothing is claimed of it.

## Plan

The modules of the first plan are written.  What would come next:

1. A composition of `Frames` with the exposure of `Commanding`, so that lens moves
   can be set against the frames they blur.
2. The sweep of the commander tool, as a pure module.
3. More about the operators of `Blobs`: which stars the search may keep twice, and
   how close together two blobs can be.
