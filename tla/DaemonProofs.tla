---------------------------- MODULE DaemonProofs ----------------------------
(***************************************************************************)
(* The invariants of DaemonMain and LoggingDaemon, for any limit on the    *)
(* length of the log file.                                                 *)
(***************************************************************************)
EXTENDS LoggingDaemon, TLAPS

\* Before main has made a thread there is none, and it makes them after it is
\* done with the credential spec file.
ThreadsInOrder ==
    /\ pc \in {"off", "options", "signals", "spec"} => grpc = "none" /\ renewal = "none" /\ ~ready
    /\ pc \notin {"off", "options", "signals", "spec"} => spec \in {"absent", "done"}

DaemonInv == DaemonTypeOK /\ ThreadsInOrder

\* How many of the threads are about to append to the log file, having looked at
\* its length: one bit for each.
Appending(t) == IF lpc[t] = "append" THEN 1 ELSE 0

LogInv ==
    /\ LoggerTypeOK
    /\ RingInBounds
    /\ \A t \in Thread : loaded[t] \in 0 .. RingLength - 1 \cup {-1}
    /\ \A t \in Thread : lpc[t] = "advance" => loaded[t] # -1
    /\ length + Appending("main") + Appending("grpc") + Appending("renewal") <= MaxLogLen + 3

-----------------------------------------------------------------------------
\* A process that ends leaves nothing but the socket file.
LEMMA ProcessEnds_Inv ==
    ASSUME DaemonInv, NEW u \in {"activating", "stopped"}, ProcessEnds(u)
    PROVE  DaemonInv'
  BY DEF DaemonInv, DaemonTypeOK, ThreadsInOrder, ProcessEnds, Steps

\* Each step of main and of systemd keeps the order of startup.
LEMMA DaemonStep_Inv ==
    ASSUME DaemonInv,
           MainStep \/ ServerListens \/ ExecStartPost \/ StartProcess \/ StopSignal \/ ProcessCrashes
    PROVE  DaemonInv'
<1>0. ASSUME ExitFailure PROVE DaemonInv'
  BY <1>0, ProcessEnds_Inv DEF ExitFailure
<1> USE DEF DaemonInv, DaemonTypeOK, ThreadsInOrder, Steps, Goto
<1>1. CASE ParseOptions
  BY <1>0, <1>1 DEF ParseOptions
<1>2. CASE InstallSignalHandlers
  BY <1>0, <1>2 DEF InstallSignalHandlers
<1>3. CASE RunProcessCredSpecFile
  BY <1>0, <1>3 DEF RunProcessCredSpecFile
<1>4. CASE CreateGrpcThread
  BY <1>4 DEF CreateGrpcThread, Created
<1>5. CASE CreateRenewalThread
  BY <1>5 DEF CreateRenewalThread, Created
<1>6. CASE EnableWatchdog
  BY <1>0, <1>6 DEF EnableWatchdog
<1>7. CASE NotifyReady
  BY <1>7 DEF NotifyReady
<1>8. CASE WatchdogLoopEnds
  BY <1>8, ProcessEnds_Inv DEF WatchdogLoopEnds
<1>9. CASE ServerListens
  BY <1>9 DEF ServerListens
<1>10. CASE ExecStartPost
  BY <1>0, <1>10 DEF ExecStartPost
<1>11. CASE StartProcess
  BY <1>11 DEF StartProcess
<1>12. CASE StopSignal
  <2>1. CASE pc \in {"options", "signals"}
    BY <1>12, <2>1, ProcessEnds_Inv DEF StopSignal
  <2>2. CASE pc \notin {"options", "signals"}
    BY <1>12, <2>2 DEF StopSignal
  <2> QED
    BY <2>1, <2>2
<1>13. CASE ProcessCrashes
  BY <1>0, <1>13 DEF ProcessCrashes
<1> QED
  BY <1>1, <1>2, <1>3, <1>4, <1>5, <1>6, <1>7, <1>8, <1>9, <1>10, <1>11, <1>12, <1>13
  DEF MainStep

-----------------------------------------------------------------------------
\* The array has an element.
LEMMA RingSize == RingLength \in Nat /\ RingLength > 0
  BY DEF RingLength

\* ( n + 1 ) % 80 * 1024 is an index of the array.
LEMMA NextIndexInBounds == \A n \in Nat : NextIndex(n) \in 0 .. RingLength - 1
<1> SUFFICES ASSUME NEW n \in Nat
             PROVE  NextIndex(n) \in 0 .. RingLength - 1
  OBVIOUS
<1>1. (n + 1) % 80 \in Nat /\ (n + 1) % 80 < 80
  OBVIOUS
<1>2. \A k \in Nat : k < 80 => k * 1024 \in Nat /\ k * 1024 < RingLength
  BY DEF RingLength
<1>3. NextIndex(n) \in Nat /\ NextIndex(n) < RingLength
  BY <1>1, <1>2 DEF NextIndex
<1> QED
  BY <1>3, RingSize

\* A thread in write_log.
LEMMA WriteLog_Inv == ASSUME LogInv, NEW t \in Thread, write_log(t) PROVE LogInv'
<1> USE LoggerAssumption DEF LogInv, LoggerTypeOK, At
<1>0. LoggerOf(t) \in Logger
  BY DEF LoggerOf, Logger
<1>1. CASE OpenLog(t)
  BY <1>1 DEF OpenLog, RingInBounds, Appending, Thread
<1>2. CASE AppendLog(t)
  <2>1. log_buffer_count[LoggerOf(t)] \in 0 .. RingLength - 1
    BY <1>0 DEF RingInBounds
  <2>2. \A s \in Thread : loaded'[s] \in 0 .. RingLength - 1 \cup {-1}
    BY <1>2, <2>1 DEF AppendLog
  <2>3. \A s \in Thread : lpc'[s] = "advance" => loaded'[s] # -1
    BY <1>2, <2>1, RingSize DEF AppendLog
  <2>4. LoggerTypeOK' /\ RingInBounds'
    BY <1>0, <1>2 DEF AppendLog, RingInBounds
  <2>5. length' + Appending("main")' + Appending("grpc")' + Appending("renewal")' <= MaxLogLen + 3
    BY <1>2 DEF AppendLog, Appending, Thread
  <2> QED
    BY <2>2, <2>3, <2>4, <2>5
<1>3. CASE AdvanceRing(t)
  <2>1. PICK n \in {loaded[t], log_buffer_count[LoggerOf(t)]} :
          log_buffer_count' = [log_buffer_count EXCEPT ![LoggerOf(t)] = NextIndex(n)]
    BY <1>3 DEF AdvanceRing
  <2>2. n \in Nat
    <3>1. loaded[t] \in Nat
      BY <1>3, RingSize DEF AdvanceRing
    <3>2. log_buffer_count[LoggerOf(t)] \in Nat
      BY <1>0
    <3> QED
      BY <2>1, <3>1, <3>2
  <2>3. NextIndex(n) \in 0 .. RingLength - 1
    BY <2>2, NextIndexInBounds
  <2>4. RingInBounds' /\ log_buffer_count' \in [Logger -> Nat]
    BY <1>0, <2>1, <2>3, RingSize DEF RingInBounds
  <2>5. \A s \in Thread : /\ loaded'[s] \in 0 .. RingLength - 1 \cup {-1}
                          /\ lpc'[s] = "advance" => loaded'[s] # -1
    BY <1>3 DEF AdvanceRing
  <2>6. LoggerTypeOK'
    BY <1>3, <2>4 DEF AdvanceRing
  <2>7. length' + Appending("main")' + Appending("grpc")' + Appending("renewal")' <= MaxLogLen + 3
    BY <1>3 DEF AdvanceRing, Appending, Thread
  <2> QED
    BY <2>4, <2>5, <2>6, <2>7
<1> QED
  BY <1>1, <1>2, <1>3 DEF write_log

\* Every step of the process.
LEMMA LogStep_Inv == LogInv /\ [ProcessNext]_processVars => LogInv'
<1> SUFFICES ASSUME LogInv, [ProcessNext]_processVars
             PROVE  LogInv'
  OBVIOUS
<1>1. ASSUME UNCHANGED loggerVars PROVE LogInv'
  BY <1>1 DEF LogInv, LoggerTypeOK, RingInBounds, Appending, loggerVars
<1>2. ASSUME LoggerFollows PROVE LogInv'
  <2>1. CASE pc' = "off"
    <3>1. /\ log_level' = [o \in Logger |-> LOG_EMERG]
          /\ log_buffer_count' = [o \in Logger |-> 0]
          /\ lpc' = [t \in Thread |-> "out"]
          /\ loaded' = [t \in Thread |-> -1]
          /\ length' = length
      BY <1>2, <2>1 DEF LoggerFollows
    <3>2. RingInBounds'
      BY <3>1, RingSize DEF RingInBounds
    <3>3. LoggerTypeOK'
      BY <3>1 DEF LogInv, LoggerTypeOK
    <3>4. length' + Appending("main")' + Appending("grpc")' + Appending("renewal")' <= MaxLogLen + 3
      BY <3>1, LoggerAssumption DEF LogInv, LoggerTypeOK, Appending, Thread
    <3> QED
      BY <3>1, <3>2, <3>3, <3>4 DEF LogInv
  <2>2. CASE pc' # "off"
    BY <1>2, <2>2 DEF LoggerFollows, LogInv, LoggerTypeOK, RingInBounds, Appending
  <2> QED
    BY <2>1, <2>2
<1>3. ASSUME CopyDaemon PROVE LogInv'
  BY <1>3 DEF CopyDaemon, LogInv, LoggerTypeOK, RingInBounds, Appending, Logger
<1>4. ASSUME NEW t \in Thread, Log(t) PROVE LogInv'
  BY <1>4 DEF Log, logger, At, LogInv, LoggerTypeOK, RingInBounds, Appending, Thread
<1> QED
  BY <1>1, <1>2, <1>3, <1>4, WriteLog_Inv
  DEF ProcessNext, Main, Around, WriteLog, processVars

-----------------------------------------------------------------------------
\* The daemon starts in the order of main, with an empty log.
LEMMA ProcessInit_Inv == ProcessInit => DaemonInv /\ LogInv
<1> SUFFICES ASSUME ProcessInit
             PROVE  DaemonInv /\ LogInv
  OBVIOUS
<1>1. DaemonInv
  BY DEF ProcessInit, DaemonInit, DaemonInv, DaemonTypeOK, ThreadsInOrder, Steps
<1>2. LoggerTypeOK /\ RingInBounds
  BY DEF ProcessInit, LoggerInit, LoggerNew, LoggerTypeOK, RingInBounds, RingLength
<1>3. /\ \A t \in Thread : lpc[t] = "out" /\ loaded[t] = -1
      /\ length = 0
  BY DEF ProcessInit, LoggerInit, LoggerNew
<1>4. length + Appending("main") + Appending("grpc") + Appending("renewal") <= MaxLogLen + 3
  BY <1>3, LoggerAssumption DEF Appending, Thread
<1> QED
  BY <1>1, <1>2, <1>3, <1>4 DEF LogInv

\* Both invariants hold in every state of the process.
THEOREM ProcessInvariant == ProcessSpec => [](DaemonInv /\ LogInv)
<1>1. DaemonInv /\ [ProcessNext]_processVars => DaemonInv'
  <2> SUFFICES ASSUME DaemonInv, [ProcessNext]_processVars
               PROVE  DaemonInv'
    OBVIOUS
  <2>1. ASSUME UNCHANGED daemonVars PROVE DaemonInv'
    BY <2>1 DEF DaemonInv, DaemonTypeOK, ThreadsInOrder, daemonVars
  <2> QED
    BY <2>1, DaemonStep_Inv
    DEF ProcessNext, Main, Around, CopyDaemon, Log, WriteLog, processVars
<1> QED
  BY <1>1, LogStep_Inv, ProcessInit_Inv, PTL DEF ProcessSpec

\* main, its threads and the unit stay in the states the code gives them, whatever
\* is logged in between (DaemonTypeOK).
THEOREM DaemonTypes == ProcessSpec => []DaemonTypeOK
<1>1. DaemonInv => DaemonTypeOK
  BY DEF DaemonInv
<1> QED
  BY ProcessInvariant, <1>1, PTL

\* The worker threads run, and READY=1 is sent, after ProcessCredSpecFile is done
\* (ThreadsAfterCredSpec).
THEOREM CredSpecFirst == ProcessSpec => []ThreadsAfterCredSpec
<1>1. DaemonInv => ThreadsAfterCredSpec
  BY DEF DaemonInv, DaemonTypeOK, ThreadsInOrder, ThreadsAfterCredSpec, Steps
<1> QED
  BY ProcessInvariant, <1>1, PTL

\* No interleaving of unlocked updates takes the ring index out of the array.
THEOREM RingSafe == ProcessSpec => []RingInBounds
<1>1. LogInv => RingInBounds
  BY DEF LogInv
<1> QED
  BY ProcessInvariant, <1>1, PTL

\* The log file outgrows its limit by one message per thread at most.
THEOREM LogFileLimit == ProcessSpec => []LogFileBounded
<1>1. LogInv => LogFileBounded
  BY LoggerAssumption DEF LogInv, LoggerTypeOK, Appending, LogFileBounded
<1> QED
  BY ProcessInvariant, <1>1, PTL

=============================================================================
