------------------------------- MODULE Logger -------------------------------
(***************************************************************************)
(* CF_logger (daemon.h): a message goes to the journal, to the log file    *)
(* and to a ring buffer when its level passes. The main and the gRPC       *)
(* thread share the logger of the global cf_daemon without a lock; the     *)
(* renewal thread works with a copy of cf_daemon that it makes when it     *)
(* starts. The log file is one for all.                                    *)
(*                                                                         *)
(* Lengths are counted in messages.                                        *)
(***************************************************************************)
EXTENDS Integers

CONSTANT
    MaxLogLen   \* max_log_len, in messages

ASSUME LoggerAssumption == MaxLogLen \in Nat

VARIABLES
    log_level,         \* of each of the two loggers
    log_buffer_count,  \* the ring index of each of them
    lpc,               \* lpc[t]: where thread t is in write_log
    loaded,            \* loaded[t]: the index it has read, -1 outside write_log
    length             \* of the log file; a missing one is made empty

loggerVars == <<log_level, log_buffer_count, lpc, loaded, length>>

Thread == {"main", "grpc", "renewal"}
Logger == {"daemon", "copy"}

\* The logger thread t uses.
LoggerOf(t) == IF t = "renewal" THEN "copy" ELSE "daemon"

\* syslog: the smaller the number, the more severe the message.
LOG_EMERG == 0
LOG_ERR == 3
LOG_NOTICE == 5
LOG_INFO == 6

\* The array has 80 * 1024 elements.
RingLength == 80 * 1024

\* Mutant: the modulus is raised to 90 * 1024, and the array is not.
NextIndexRaised(n) == ((n + 1) % 90) * 1024

\* ( n + 1 ) % MAX_LOG_BUFFER_COUNT: the macro has no parentheses, so that
\* C takes ( n + 1 ) % 80 and multiplies.
NextIndex(n) == ((n + 1) % 80) * 1024

LoggerTypeOK ==
    /\ log_level \in [Logger -> {LOG_EMERG, LOG_NOTICE}]
    /\ log_buffer_count \in [Logger -> Nat]
    /\ lpc \in [Thread -> {"out", "check", "append", "advance"}]
    /\ loaded \in [Thread -> Nat \cup {-1}]
    /\ length \in Nat

\* The logger of a new process.
LoggerNew ==
    /\ log_level = [o \in Logger |-> LOG_EMERG]
    /\ log_buffer_count = [o \in Logger |-> 0]
    /\ lpc = [t \in Thread |-> "out"]
    /\ loaded = [t \in Thread |-> -1]

LoggerInit == LoggerNew /\ length = 0

-----------------------------------------------------------------------------
\* Whether a message of thread t passes.
Passes(t, level) == level >= log_level[LoggerOf(t)]

At(t, here, next) == lpc[t] = here /\ lpc' = [lpc EXCEPT ![t] = next]

\* logger: a message that does not pass changes nothing.
logger(t, level) ==
    /\ Passes(t, level)
    /\ At(t, "out", "check")
    /\ UNCHANGED <<log_level, log_buffer_count, loaded, length>>

\* Mutant: the length of the file is not looked at.
OpenLogUnchecked(t) ==
    /\ At(t, "check", "append")
    /\ UNCHANGED <<log_level, log_buffer_count, loaded, length>>

\* write_log: fstat, and a new file for one that is too long.
OpenLog(t) ==
    /\ At(t, "check", "append")
    /\ length' = IF length > MaxLogLen THEN 0 ELSE length
    /\ UNCHANGED <<log_level, log_buffer_count, loaded>>

\* fprintf to a file opened with "a+", and the message goes into the ring.
AppendLog(t) ==
    /\ At(t, "append", "advance")
    /\ length' = length + 1
    /\ loaded' = [loaded EXCEPT ![t] = log_buffer_count[LoggerOf(t)]]
    /\ UNCHANGED <<log_level, log_buffer_count>>

\* The index is read once more; another thread may have moved it before that, or
\* between this read and the write.
AdvanceRing(t) ==
    /\ At(t, "advance", "out")
    /\ \E n \in {loaded[t], log_buffer_count[LoggerOf(t)]} :
         log_buffer_count' = [log_buffer_count EXCEPT ![LoggerOf(t)] = NextIndex(n)]
    /\ loaded' = [loaded EXCEPT ![t] = -1]
    /\ UNCHANGED <<log_level, length>>

write_log(t) == OpenLog(t) \/ AppendLog(t) \/ AdvanceRing(t)

=============================================================================
