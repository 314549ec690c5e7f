---------------------------- MODULE LoggingDaemon ----------------------------
(***************************************************************************)
(* The daemon's process (DaemonMain) with its logger (Logger): who logs,   *)
(* when the level changes and when the renewal thread takes its copy.      *)
(***************************************************************************)
EXTENDS DaemonMain, Logger

VARIABLE
    copied   \* the renewal thread has copied cf_daemon

processVars == <<daemonVars, loggerVars, copied>>

ProcessInit == DaemonInit /\ LoggerInit /\ copied = FALSE

\* Whether thread t may log now.
Runs(t) ==
    CASE t = "main" -> pc \notin {"off", "loop"}
      [] t = "grpc" -> grpc # "none"
      [] t = "renewal" -> copied

Log(t) ==
    /\ Runs(t)
    /\ \E level \in {LOG_ERR, LOG_INFO} : logger(t, level)
    /\ UNCHANGED <<daemonVars, copied>>

WriteLog(t) == write_log(t) /\ UNCHANGED <<daemonVars, copied>>

\* krb_ticket_renew_handler( cf_daemon ) takes its argument by value.
CopyDaemon ==
    /\ renewal = "started"
    /\ ~copied
    /\ copied' = TRUE
    /\ log_level' = [log_level EXCEPT !["copy"] = log_level["daemon"]]
    /\ log_buffer_count' = [log_buffer_count EXCEPT !["copy"] = log_buffer_count["daemon"]]
    /\ UNCHANGED <<daemonVars, lpc, loaded, length>>

\* What a step of the process means to the loggers: set_log_level comes after
\* the creation of the threads, a process that ends takes its loggers with it.
LoggerFollows ==
    IF pc' = "off"
    THEN /\ log_level' = [o \in Logger |-> LOG_EMERG]
         /\ log_buffer_count' = [o \in Logger |-> 0]
         /\ lpc' = [t \in Thread |-> "out"]
         /\ loaded' = [t \in Thread |-> -1]
         /\ copied' = FALSE
         /\ UNCHANGED length
    ELSE /\ log_level' = IF pc = "watchdog" /\ pc' = "notify"
                         THEN [log_level EXCEPT !["daemon"] = LOG_NOTICE] ELSE log_level
         /\ UNCHANGED <<log_buffer_count, lpc, loaded, length, copied>>

Main == lpc["main"] = "out" /\ MainStep /\ LoggerFollows

Around ==
    /\ ServerListens \/ ExecStartPost \/ StartProcess \/ StopSignal \/ ProcessCrashes
    /\ LoggerFollows

ProcessNext ==
    \/ Main \/ Around \/ CopyDaemon
    \/ \E t \in Thread : Log(t) \/ WriteLog(t)

ProcessSpec == ProcessInit /\ [][ProcessNext]_processVars

\* The threads run when they can; main logs a few messages between two of its
\* steps and then takes the next.
ProcessFairSpec ==
    /\ ProcessSpec
    /\ SF_processVars(Main)
    /\ WF_processVars(WriteLog("main"))
    /\ WF_processVars(ServerListens /\ LoggerFollows)
    /\ WF_processVars(ExecStartPost /\ LoggerFollows)
    /\ WF_processVars(StartProcess /\ LoggerFollows)

-----------------------------------------------------------------------------
\* No thread writes beyond the ring buffer, whatever updates of the unlocked
\* index are lost, and although the macro of its modulus has no parentheses.
RingInBounds ==
    \A o \in Logger : log_buffer_count[o] \in 0 .. RingLength - 1

\* The log file outgrows its limit by one message for each thread at most: each
\* may have looked at its length before the others wrote.
LogFileBounded == length <= MaxLogLen + 3

\* "on request failures check logs" (daemon.cpp): an error that a thread of a
\* running daemon reports is logged.
ErrorsLogged == \A t \in Thread : Runs(t) => Passes(t, LOG_ERR)

=============================================================================
