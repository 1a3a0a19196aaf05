----------------------------- MODULE Lifecycle ------------------------------
(***************************************************************************)
(* The life of the process, from initCamera to the return of main          *)
(* (commands.c): the threads main starts, what it does when one cannot be  *)
(* started, the clients it accepts, and the order in which it joins them   *)
(* and closes the camera once shutting_down is set.  The work of a thread  *)
(* is reduced to what its end depends on; the camera's side is that of     *)
(* CameraSetup.                                                            *)
(*                                                                         *)
(* A join of a thread that was never started, and the release of an        *)
(* address list that was never fetched, are undefined in C: the process    *)
(* crashes or goes on.                                                     *)
(***************************************************************************)
EXTENDS CameraSetup

CONSTANTS
  Workers,    \* listener, trigger and sender threads
  Clients,    \* TCP clients, each of which connects once at most
  Nobody      \* no client

ASSUME NobodyAssumption == Nobody \notin Clients

VARIABLES
  main,         \* where main is
  shuttingDown, \* shutting_down
  worker,       \* where each worker is
  astro,        \* where the Astrometry thread is
  message,      \* where the message thread is
  queue,        \* the camera's message queue
  client,       \* where each client's thread is
  peer,         \* the client at the other end of the connection
  anyClients,   \* any_clients
  lastClient,   \* client_thread_id: the last client thread started
  sendData,     \* send_data: an image has been transferred
  closes        \* history: how often an open camera was closed

threadVars == <<worker, astro, message, queue>>
clientVars == <<client, peer, anyClients, lastClient>>
vars == <<setupVars, faults, main, shuttingDown, threadVars, clientVars, sendData,
          closes>>

MainLabels == {"camera", "astro", "message", "workers", "accept",
               "joinWorkers", "joinAstro", "joinMessage", "joinClient",
               "stop", "close", "exit", "ended", "exited", "crashed"}
Final == {"ended", "exited", "crashed"}
Serving == {"accept", "joinWorkers", "joinAstro", "joinMessage"}
Closing == {"stop", "close", "exit"}

WorkerLabels == {"absent", "born", "loop", "ended"}
AstroLabels  == {"absent", "check", "cycle", "ended"} \union Closing
MessageLabels == {"absent", "born", "poll", "ended"}
ClientLabels == {"absent", "recv", "telemetry", "send", "ended"}

Init ==
  /\ SetupInit
  /\ main = "camera"
  /\ shuttingDown = 0
  /\ worker = [w \in Workers |-> "absent"]
  /\ astro = "absent" /\ message = "absent" /\ queue = "none"
  /\ client = [c \in Clients |-> "absent"]
  /\ peer = [c \in Clients |-> "away"]
  /\ anyClients = FALSE /\ lastClient = Nobody
  /\ sendData = 0
  /\ closes = 0

Alive == main \notin Final

-----------------------------------------------------------------------------
(***************************************************************************)
(* closeCamera, called by main and by a focus run whose binning cannot be  *)
(* restored: stop the acquisition, close the handle, clear it and leave    *)
(* the SDK.  Calls on a handle that is no longer open fail and are         *)
(* ignored.                                                                *)
(***************************************************************************)
StopAcquisition ==
  /\ acquiring' = FALSE
  /\ UNCHANGED <<setup, library, hCam, held, header, closes>>

CloseHandle ==
  /\ hCam' = IF hCam = "open" THEN "closed" ELSE hCam
  /\ closes' = IF hCam = "null" THEN closes ELSE closes + 1
  /\ UNCHANGED <<setup, library, acquiring, held, header>>

ExitLibrary ==
  /\ hCam' = "null" /\ library' = FALSE
  /\ UNCHANGED <<setup, acquiring, held, header, closes>>

cameraVars == <<setupVars, closes>>

-----------------------------------------------------------------------------
(***************************************************************************)
(* main, up to the accept loop.                                            *)
(***************************************************************************)
MainGoes(label) == main' = label

\* initCamera returns; only a camera that was opened is closed again.
BringUp ==
  /\ main = "camera"
  /\ InitCamera
  /\ UNCHANGED <<main, shuttingDown, threadVars, clientVars, sendData, closes>>

ExitAtOnce == MainGoes("exited")
ExitOrClose == MainGoes(IF hCam # "null" THEN "stop" ELSE "exited")

CameraReady ==
  /\ main = "camera" /\ setup = "ready"
  /\ MainGoes("astro")
  /\ UNCHANGED <<cameraVars, faults, shuttingDown, threadVars, clientVars, sendData>>

CameraFails ==
  /\ main = "camera" /\ setup = "failed"
  /\ ExitOrClose
  /\ UNCHANGED <<cameraVars, faults, shuttingDown, threadVars, clientVars, sendData>>

\* Without an Astrometry thread the program exits, the camera left open.
CreateAstro ==
  /\ main = "astro"
  /\ \/ astro' = "check" /\ MainGoes("message") /\ NoFault
     \/ UNCHANGED astro /\ ExitAtOnce /\ Fault
  /\ UNCHANGED <<cameraVars, shuttingDown, worker, message, queue, clientVars,
                 sendData>>

\* The other threads are done without if they cannot be started.
CreateMessage ==
  /\ main = "message"
  /\ \/ message' = "born" /\ NoFault
     \/ UNCHANGED message /\ Fault
  /\ MainGoes("workers")
  /\ UNCHANGED <<cameraVars, shuttingDown, worker, astro, queue, clientVars,
                 sendData>>

CreateWorkers ==
  /\ main = "workers"
  /\ \/ worker' = [w \in Workers |-> "born"] /\ NoFault
     \/ worker' \in [Workers -> {"born", "absent"}] /\ Fault
  /\ MainGoes("accept")
  /\ UNCHANGED <<cameraVars, shuttingDown, astro, message, queue, clientVars,
                 sendData>>

\* A client connects.  Its thread, or the memory for it, may not be had.
Remember(c) == lastClient' = c

Accept(c) ==
  /\ main = "accept" /\ shuttingDown = 0
  /\ peer[c] = "away"
  /\ peer' = [peer EXCEPT ![c] = "connected"]
  /\ anyClients' = TRUE
  /\ \/ client' = [client EXCEPT ![c] = "recv"] /\ Remember(c) /\ NoFault
     \/ UNCHANGED <<client, lastClient>> /\ Fault
  /\ UNCHANGED <<cameraVars, main, shuttingDown, threadVars, sendData>>

\* accept() times out every 3 seconds.
LeaveLoop ==
  /\ main = "accept" /\ shuttingDown = 1
  /\ MainGoes("joinWorkers")
  /\ UNCHANGED <<cameraVars, faults, shuttingDown, threadVars, clientVars, sendData>>

-----------------------------------------------------------------------------
(***************************************************************************)
(* main, from the joins to the end.                                        *)
(***************************************************************************)
MayCrash == main' = "crashed"

JoinWorkers ==
  /\ main = "joinWorkers"
  /\ \A w \in Workers : worker[w] \in {"absent", "ended"}
  /\ \/ MainGoes("joinAstro")
     \/ (\E w \in Workers : worker[w] = "absent") /\ MayCrash
  /\ UNCHANGED <<cameraVars, faults, shuttingDown, threadVars, clientVars, sendData>>

AstroIsBusy == astro # "absent"
AstroIsOver == astro = "ended"

JoinAstro ==
  /\ main = "joinAstro"
  /\ AstroIsOver
  /\ MainGoes("joinMessage")
  /\ UNCHANGED <<cameraVars, faults, shuttingDown, threadVars, clientVars, sendData>>

JoinMessage ==
  /\ main = "joinMessage"
  /\ message \in {"absent", "ended"}
  /\ \/ MainGoes(IF anyClients THEN "joinClient" ELSE "stop")
     \/ message = "absent" /\ MayCrash
  /\ UNCHANGED <<cameraVars, faults, shuttingDown, threadVars, clientVars, sendData>>

\* Only the thread started last is joined, if any was.
ClientIsAway(c) == peer[c] # "connected"
ClientIsOver(c) == client[c] = "ended"

JoinClient ==
  /\ main = "joinClient"
  /\ \/ lastClient # Nobody /\ ClientIsOver(lastClient) /\ MainGoes("stop")
     \/ lastClient = Nobody /\ (MainGoes("stop") \/ MayCrash)
  /\ UNCHANGED <<cameraVars, faults, shuttingDown, threadVars, clientVars, sendData>>

CloseCamera ==
  /\ \/ main = "stop" /\ StopAcquisition /\ MainGoes("close")
     \/ main = "close" /\ CloseHandle /\ MainGoes("exit")
     \/ /\ main = "exit" /\ ExitLibrary
        /\ IF setup = "failed" THEN MainGoes("exited")
           ELSE MainGoes("ended") \/ (lastClient = Nobody /\ anyClients /\ MayCrash)
  /\ UNCHANGED <<faults, shuttingDown, threadVars, clientVars, sendData>>

Main ==
  \/ BringUp \/ CameraReady \/ CameraFails
  \/ CreateAstro \/ CreateMessage \/ CreateWorkers
  \/ LeaveLoop
  \/ JoinWorkers \/ JoinAstro \/ JoinMessage \/ JoinClient \/ CloseCamera

-----------------------------------------------------------------------------
(***************************************************************************)
(* The threads.                                                            *)
(***************************************************************************)
WorkerGoes(w, label) == worker' = [worker EXCEPT ![w] = label]

\* The first turn of the loop opens the socket, or gives up.
OpenSocket(w) ==
  /\ Alive /\ worker[w] = "born" /\ shuttingDown = 0
  /\ \/ WorkerGoes(w, "loop") /\ NoFault
     \/ WorkerGoes(w, "ended") /\ Fault
  /\ UNCHANGED <<cameraVars, main, shuttingDown, astro, message, queue,
                 clientVars, sendData>>

\* A thread that finds the shutdown at its first turn releases what it has
\* never got.
NeverOpened(w) ==
  /\ Alive /\ worker[w] = "born" /\ shuttingDown = 1
  /\ \/ WorkerGoes(w, "ended") /\ UNCHANGED main
     \/ UNCHANGED worker /\ MayCrash
  /\ UNCHANGED <<cameraVars, faults, shuttingDown, astro, message, queue, clientVars,
                 sendData>>

\* The loop ends after the wait, the pause or the packet it is at.
CloseSocket(w) ==
  /\ Alive /\ worker[w] = "loop" /\ shuttingDown = 1
  /\ WorkerGoes(w, "ended")
  /\ UNCHANGED <<cameraVars, faults, main, shuttingDown, astro, message, queue,
                 clientVars, sendData>>

Worker(w) == OpenSocket(w) \/ NeverOpened(w) \/ CloseSocket(w)

\* updateAstrometry: a cycle that has begun is finished.
AstroChecks ==
  /\ Alive /\ astro = "check"
  /\ astro' = IF shuttingDown = 1 THEN "ended" ELSE "cycle"
  /\ UNCHANGED <<cameraVars, faults, main, shuttingDown, worker, message, queue,
                 clientVars, sendData>>

\* An image is transferred, or not; a focus run may lose the camera first.
AstroCycle ==
  /\ Alive /\ astro = "cycle"
  /\ \/ astro' = "check" /\ NoFault /\ UNCHANGED sendData
     \/ astro' = "check" /\ NoFault /\ hCam = "open" /\ acquiring /\ sendData' = 1
     \/ astro' = "stop" /\ Fault /\ hCam = "open" /\ UNCHANGED sendData
  /\ UNCHANGED <<cameraVars, main, shuttingDown, worker, message, queue,
                 clientVars>>

\* closeCamera() and clean(), then the rest of the cycle.
AstroLosesCamera ==
  /\ Alive
  /\ \/ /\ astro = "stop" /\ StopAcquisition /\ astro' = "close"
        /\ UNCHANGED shuttingDown
     \/ /\ astro = "close" /\ CloseHandle /\ astro' = "exit"
        /\ UNCHANGED shuttingDown
     \/ astro = "exit" /\ ExitLibrary /\ astro' = "cycle" /\ shuttingDown' = 1
  /\ UNCHANGED <<faults, main, worker, message, queue, clientVars, sendData>>

Astro == AstroChecks \/ AstroCycle \/ AstroLosesCamera

\* A queue that cannot be enabled, started, stopped or destroyed is left.
InitMessageQueue ==
  /\ Alive /\ message = "born"
  /\ \/ /\ message' = "poll" /\ queue' = "running" /\ NoFault
        /\ hCam = "open"
     \/ /\ message' = "ended" /\ queue' = "left"
        /\ (hCam # "open" /\ NoFault) \/ Fault
     \/ message' = "ended" /\ UNCHANGED queue /\ Fault
  /\ UNCHANGED <<cameraVars, main, shuttingDown, worker, astro, clientVars,
                 sendData>>

LeaveQueueRunning == UNCHANGED queue /\ NoFault
CloseQueue ==
  \/ queue' = "none" /\ NoFault
  \/ queue' = "left" /\ Fault

CloseMessageQueue ==
  /\ Alive /\ message = "poll" /\ shuttingDown = 1
  /\ CloseQueue
  /\ message' = "ended"
  /\ UNCHANGED <<cameraVars, main, shuttingDown, worker, astro, clientVars,
                 sendData>>

Message == InitMessageQueue \/ CloseMessageQueue

-----------------------------------------------------------------------------
(***************************************************************************)
(* The clients' threads, which do not look at shutting_down: they end when *)
(* a send fails.                                                           *)
(***************************************************************************)
ClientGoes(c, label) == client' = [client EXCEPT ![c] = label]

\* A command is received and executed, or 3 seconds go by without one.
Receive(c) ==
  /\ Alive /\ client[c] = "recv"
  /\ ClientGoes(c, "telemetry")
  /\ UNCHANGED <<cameraVars, faults, main, shuttingDown, threadVars, peer,
                 anyClients, lastClient, sendData>>

AwaitSecondImage == sendData > 1
AwaitImage == sendData = 1

Await(c) ==
  /\ Alive /\ client[c] = "telemetry"
  /\ AwaitImage
  /\ ClientGoes(c, "send")
  /\ UNCHANGED <<cameraVars, faults, main, shuttingDown, threadVars, peer, anyClients,
                 lastClient, sendData>>

\* The two sends fail once the peer has gone (the first after that may be
\* taken by the network), or when the connection is lost.
FailAndForget(c) ==
  \/ ClientGoes(c, "ended") /\ peer' = [peer EXCEPT ![c] = "away"]
  \/ peer[c] = "connected" /\ ClientGoes(c, "recv") /\ UNCHANGED peer
SendOrFail(c) ==
  \/ ClientGoes(c, "ended") /\ UNCHANGED peer
  \/ peer[c] = "connected" /\ ClientGoes(c, "recv") /\ UNCHANGED peer

Send(c) ==
  /\ Alive /\ client[c] = "send"
  /\ SendOrFail(c)
  /\ UNCHANGED <<cameraVars, faults, main, shuttingDown, threadVars, anyClients,
                 lastClient, sendData>>

Client(c) == Receive(c) \/ Await(c) \/ Send(c)

PeerLeaves(c) ==
  /\ Alive /\ peer[c] = "connected"
  /\ peer' = [peer EXCEPT ![c] = "gone"]
  /\ UNCHANGED <<cameraVars, faults, main, shuttingDown, threadVars, client,
                 anyClients, lastClient, sendData>>

\* The signal handler.
Clean ==
  /\ Alive
  /\ shuttingDown' = 1
  /\ UNCHANGED <<cameraVars, faults, main, threadVars, clientVars, sendData>>

Next ==
  \/ Main \/ Astro \/ Message \/ Clean
  \/ \E w \in Workers : Worker(w)
  \/ \E c \in Clients : Client(c) \/ Accept(c) \/ PeerLeaves(c)

\* Signals and clients come and go as they like.
Fairness ==
  /\ WF_vars(Main) /\ WF_vars(Astro) /\ WF_vars(Message)
  /\ \A w \in Workers : WF_vars(Worker(w))
  /\ \A c \in Clients : WF_vars(Client(c))

Spec == Init /\ [][Next]_vars /\ Fairness

-----------------------------------------------------------------------------
(***************************************************************************)
(* Properties.                                                             *)
(***************************************************************************)
TypeOK ==
  /\ SetupTypeOK
  /\ main \in MainLabels
  /\ shuttingDown \in {0, 1} /\ sendData \in {0, 1}
  /\ worker \in [Workers -> WorkerLabels]
  /\ astro \in AstroLabels /\ message \in MessageLabels
  /\ queue \in {"none", "running", "left"}
  /\ client \in [Clients -> ClientLabels]
  /\ peer \in [Clients -> {"away", "connected", "gone"}]
  /\ anyClients \in BOOLEAN /\ lastClient \in Clients \union {Nobody}
  /\ closes \in Nat
  /\ \A c \in Clients : client[c] # "absent" => peer[c] # "away"

\* When main closes the camera after a run, the threads it has joined are
\* over; what may still meet the close in the middle of a command are the
\* clients' threads that are not the last one ("join threads once the
\* Astrometry thread has closed and terminated").
CloseAfterThreads ==
  main \in Closing /\ setup = "ready" =>
    /\ \A w \in Workers : worker[w] \in {"absent", "ended"}
    /\ astro = "ended" /\ message \in {"absent", "ended"}
    /\ lastClient # Nobody => client[lastClient] = "ended"

\* The message queue is taken down before main closes the camera it listens
\* to, unless the camera refused that.
QueueEndsBeforeCamera == main \in Closing => queue # "running"

\* An open camera is closed once.  A focus run that cannot restore the binning
\* closes it, and main closes it at the end: the second of the two finds the
\* handle cleared, never the one the first is just closing.
ClosedOnce == closes <= 1

\* The program does not end with the camera open, whatever failed at its start
\* or at its end; only when the Astrometry thread cannot be created does it
\* leave the camera as it is.
CameraClosedAtExit ==
  main \in {"ended", "exited"} =>
    \/ hCam = "null" /\ ~acquiring
    \/ setup = "ready" /\ astro = "absent"

\* After a signal main gets as far as the client it joins, whatever the
\* threads were doing and whether they could be started, and it ends when
\* that client's peer has left, provided an image has been transferred.  (The
\* thread waits for a first image without looking at shutting_down: without
\* one, or with the peer still connected, main waits for it for ever.)
ShutdownEnds ==
  /\ main \in Serving /\ shuttingDown = 1 ~> main \in Final \union {"joinClient"}
  /\ /\ main = "joinClient" /\ sendData = 1
     /\ lastClient # Nobody => peer[lastClient] = "gone"
     ~> main \in Final
=============================================================================
