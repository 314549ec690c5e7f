----------------------------- MODULE DaemonMain -----------------------------
(***************************************************************************)
(* The main thread of the daemon (daemon.cpp) under its systemd unit:      *)
(* startup, the creation of the two worker threads, READY=1, the watchdog  *)
(* loop and the end on a signal; and the unit's ExecStartPost, which gives *)
(* the group of the clients access to the socket of the gRPC server.       *)
(***************************************************************************)
EXTENDS Naturals

CONSTANT
    Faults   \* subset of {"thread", "crash"}: pthread_create fails, the process dies

ASSUME DaemonAssumption == Faults \subseteq {"thread", "crash"}

VARIABLES
    pc,       \* where main is, "off" when there is no process
    grpc,     \* the gRPC thread: "none", "started" or "serving"
    renewal,  \* the renewal thread: "none" or "started"
    spec,     \* what main did with the credential spec file in this process
    ready,    \* READY=1 was sent
    signal,   \* got_systemd_shutdown_signal
    socket,   \* the socket file: "absent", "private" or "shared" with the group
    unit      \* the unit: "activating", "active", or "stopped" by the operator

daemonVars == <<pc, grpc, renewal, spec, ready, signal, socket, unit>>

Steps == {"options", "signals", "spec", "grpc", "renewal", "watchdog", "notify", "loop"}

DaemonTypeOK ==
    /\ pc \in Steps \cup {"off"}
    /\ grpc \in {"none", "started", "serving"}
    /\ renewal \in {"none", "started"}
    /\ spec \in {"unknown", "absent", "done"}
    /\ ready \in BOOLEAN
    /\ signal \in BOOLEAN
    /\ socket \in {"absent", "private", "shared"}
    /\ unit \in {"activating", "active", "stopped"}

DaemonInit ==
    /\ pc = "options"
    /\ grpc = "none"
    /\ renewal = "none"
    /\ spec = "unknown"
    /\ ready = FALSE
    /\ signal = FALSE
    /\ socket = "absent"
    /\ unit = "activating"

\* The process ends and its threads with it; the socket file stays.
ProcessEnds(u) ==
    /\ pc' = "off"
    /\ grpc' = "none"
    /\ renewal' = "none"
    /\ spec' = "unknown"
    /\ ready' = FALSE
    /\ signal' = FALSE
    /\ unit' = u
    /\ UNCHANGED socket

\* exit( EXIT_FAILURE ): Restart=on-failure.
ExitFailure == ProcessEnds("activating")

Goto(next) == pc' = next

-----------------------------------------------------------------------------
(* main *)

\* parse_options, and the name of the credential spec file from the environment:
\* a file that does not exist is ignored.
ParseOptions ==
    /\ pc = "options"
    /\ \/ ExitFailure
       \/ /\ spec' \in {"unknown", "absent"}
          /\ Goto("signals")
          /\ UNCHANGED <<grpc, renewal, ready, signal, socket, unit>>

InstallSignalHandlers ==
    /\ pc = "signals"
    /\ \/ ExitFailure
       \/ Goto("spec") /\ UNCHANGED <<grpc, renewal, spec, ready, signal, socket, unit>>

\* Mutant: main goes on when the credential spec file fails.
RunProcessCredSpecFileIgnored ==
    /\ pc = "spec"
    /\ spec' \in IF spec = "absent" THEN {"absent"} ELSE {"failed", "done"}
    /\ Goto("grpc")
    /\ UNCHANGED <<grpc, renewal, ready, signal, socket, unit>>

RunProcessCredSpecFile ==
    /\ pc = "spec"
    /\ \/ spec = "unknown" /\ ExitFailure
       \/ /\ spec' = IF spec = "absent" THEN "absent" ELSE "done"
          /\ Goto("grpc")
          /\ UNCHANGED <<grpc, renewal, ready, signal, socket, unit>>

\* create_pthread returns EXIT_FAILURE, which is 1, when it cannot make the
\* thread; main looks for a negative code and goes on.
Created(thread, old) ==
    \/ thread' = "started"
    \/ "thread" \in Faults /\ thread' = old

CreateGrpcThread ==
    /\ pc = "grpc"
    /\ Created(grpc, "none")
    /\ Goto("renewal")
    /\ UNCHANGED <<renewal, spec, ready, signal, socket, unit>>

CreateRenewalThread ==
    /\ pc = "renewal"
    /\ Created(renewal, "none")
    /\ Goto("watchdog")
    /\ UNCHANGED <<grpc, spec, ready, signal, socket, unit>>

EnableWatchdog ==
    /\ pc = "watchdog"
    /\ \/ ExitFailure
       \/ Goto("notify") /\ UNCHANGED <<grpc, renewal, spec, ready, signal, socket, unit>>

NotifyReady ==
    /\ pc = "notify"
    /\ ready' = TRUE
    /\ Goto("loop")
    /\ UNCHANGED <<grpc, renewal, spec, signal, socket, unit>>

\* Mutant: main waits for the gRPC thread, which waits for a request.
WatchdogLoopJoins ==
    /\ pc = "loop"
    /\ signal
    /\ grpc = "none"
    /\ ProcessEnds("stopped")

\* The loop sends WATCHDOG=1 until the signal was caught; main then returns
\* EXIT_SUCCESS, which the unit does not restart.
WatchdogLoopEnds ==
    /\ pc = "loop"
    /\ signal
    /\ ProcessEnds("stopped")

-----------------------------------------------------------------------------
(* The gRPC thread and systemd. *)

\* Mutant: the socket file of an earlier process is in the way.
ServerListensOnce ==
    /\ grpc = "started"
    /\ socket = "absent"
    /\ grpc' = "serving"
    /\ socket' = "private"
    /\ UNCHANGED <<pc, renewal, spec, ready, signal, unit>>

\* BuildAndStart removes the socket file of an earlier process and binds a new one.
ServerListens ==
    /\ grpc = "started"
    /\ grpc' = "serving"
    /\ socket' = "private"
    /\ UNCHANGED <<pc, renewal, spec, ready, signal, unit>>

\* ExecStartPost runs once READY=1 has come in. Without a socket file chgrp
\* fails, and the unit ends the process and starts again.
ExecStartPost ==
    /\ unit = "activating"
    /\ ready
    /\ IF socket = "absent"
       THEN ExitFailure
       ELSE /\ socket' = "shared"
            /\ unit' = "active"
            /\ UNCHANGED <<pc, grpc, renewal, spec, ready, signal>>

StartProcess ==
    /\ pc = "off"
    /\ unit # "stopped"
    /\ Goto("options")
    /\ UNCHANGED <<grpc, renewal, spec, ready, signal, socket, unit>>

\* systemctl stop: SIGTERM, which kills a process that has no handler yet.
StopSignal ==
    /\ pc # "off"
    /\ ~signal
    /\ IF pc \in {"options", "signals"}
       THEN ProcessEnds("stopped")
       ELSE signal' = TRUE /\ UNCHANGED <<pc, grpc, renewal, spec, ready, socket, unit>>

ProcessCrashes ==
    /\ "crash" \in Faults
    /\ pc # "off"
    /\ ExitFailure

MainStep ==
    \/ ParseOptions \/ InstallSignalHandlers \/ RunProcessCredSpecFile
    \/ CreateGrpcThread \/ CreateRenewalThread \/ EnableWatchdog \/ NotifyReady
    \/ WatchdogLoopEnds

DaemonNext ==
    MainStep \/ ServerListens \/ ExecStartPost \/ StartProcess \/ StopSignal \/ ProcessCrashes

DaemonSpec == DaemonInit /\ [][DaemonNext]_daemonVars

-----------------------------------------------------------------------------
\* The service is announced, and worker threads run, only in a process that has
\* made the ticket of the credential spec file or has none to make: the renewal
\* thread never works beside ProcessCredSpecFile.
ThreadsAfterCredSpec ==
    ready \/ grpc # "none" \/ renewal # "none" => spec \in {"absent", "done"}

\* The signal of systemctl stop ends the process, from whatever step of main,
\* unless it fails on the way or dies (and is then started again).
SignalEndsProcess == signal ~> pc = "off"

\* A process that has announced itself serves requests in the end, or ends,
\* unless it could not make its thread.
ReadyIsServed == (ready /\ grpc # "none") ~> (grpc = "serving" \/ pc = "off")

=============================================================================
