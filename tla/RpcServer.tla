----------------------------- MODULE RpcServer -----------------------------
(***************************************************************************)
(* The asynchronous gRPC server of gmsa_service.cpp: one CallData object   *)
(* per call, allocated with new and deleting itself, whose address is the  *)
(* tag of its events in the completion queue. HandleRpcs takes one event   *)
(* at a time, so the body of a handler (LeaseService) is one step here.    *)
(*                                                                         *)
(* The seven CallData classes are copies of each other. What a copy can    *)
(* get wrong is in their table Class: the CLASS_NAME that its objects have *)
(* as their cookie and that tells which of the seven casts in the loop     *)
(* proceeds, the RPC it registers for, the class of the object that takes  *)
(* its place, and the replies of its handler. Each has a second Proceed,   *)
(* without arguments, which only the constructor calls, in the state       *)
(* CREATE: what it would do in the others is left out. A deleted object's  *)
(* address may be given to the next one.                                   *)
(***************************************************************************)
EXTENDS Naturals, FiniteSets

CONSTANTS
    Method,   \* the RPCs served, one CallData class each
    Tag,      \* addresses of CallData objects
    MaxCalls  \* how many calls of one method wait at a time

-----------------------------------------------------------------------------
(* The classes. *)

CallDataHealthCheck ==
    [cookie |-> "CallDataHealthCheck",
     requests |-> "HealthCheck", spawns |-> "HealthCheck",
     replies |-> {"status OK"}]

CallDataCreateKerberosArnLease ==
    [cookie |-> "CallDataCreateKerberosArnLease",
     requests |-> "AddKerberosArnLease", spawns |-> "AddKerberosArnLease",
     replies |-> {"lease", "INTERNAL"}]

CallDataRenewKerberosArnLease ==
    [cookie |-> "CallDataRenewKerberosArnLease",
     requests |-> "RenewKerberosArnLease", spawns |-> "RenewKerberosArnLease",
     replies |-> {"successful", "INTERNAL"}]

CallDataCreateKerberosLease ==
    [cookie |-> "CallDataCreateKerberosLease",
     requests |-> "AddKerberosLease", spawns |-> "AddKerberosLease",
     replies |-> {"lease", "INTERNAL"}]

CallDataAddNonDomainJoinedKerberosLease ==
    [cookie |-> "CallDataAddNonDomainJoinedKerberosLease",
     requests |-> "AddNonDomainJoinedKerberosLease", spawns |-> "AddNonDomainJoinedKerberosLease",
     replies |-> {"lease", "INTERNAL"}]

CallDataRenewNonDomainJoinedKerberosLease ==
    [cookie |-> "CallDataRenewNonDomainJoinedKerberosLease",
     requests |-> "RenewNonDomainJoinedKerberosLease", spawns |-> "RenewNonDomainJoinedKerberosLease",
     replies |-> {"paths", "INTERNAL"}]

\* Mutant: copied from CallDataHealthCheck, whose object it spawns.
CallDataDeleteKerberosLeaseCopied ==
    [cookie |-> "CallDataDeleteKerberosLease",
     requests |-> "DeleteKerberosLease", spawns |-> "HealthCheck",
     replies |-> {"lease", "INTERNAL"}]

\* Mutant: CLASS_NAME_CallDataDeleteKerberosLease is the text of CallDataHealthCheck.
CallDataDeleteKerberosLeaseNamed ==
    [cookie |-> "CallDataHealthCheck",
     requests |-> "DeleteKerberosLease", spawns |-> "DeleteKerberosLease",
     replies |-> {"lease", "INTERNAL"}]

CallDataDeleteKerberosLease ==
    [cookie |-> "CallDataDeleteKerberosLease",
     requests |-> "DeleteKerberosLease", spawns |-> "DeleteKerberosLease",
     replies |-> {"lease", "INTERNAL"}]

\* HandleRpcs: the class of the first object for each RPC.
Class ==
    [HealthCheck |-> CallDataHealthCheck,
     AddKerberosArnLease |-> CallDataCreateKerberosArnLease,
     RenewKerberosArnLease |-> CallDataRenewKerberosArnLease,
     AddKerberosLease |-> CallDataCreateKerberosLease,
     AddNonDomainJoinedKerberosLease |-> CallDataAddNonDomainJoinedKerberosLease,
     RenewNonDomainJoinedKerberosLease |-> CallDataRenewNonDomainJoinedKerberosLease,
     DeleteKerberosLease |-> CallDataDeleteKerberosLease]

\* What the handlers reply.
Reply == {"status OK", "lease", "successful", "paths", "INTERNAL"}

ASSUME RpcAssumption ==
    /\ MaxCalls \in Nat \ {0}
    /\ Method \subseteq DOMAIN Class

-----------------------------------------------------------------------------
VARIABLES
    status,      \* status_ of the object at an address, "free" when there is none
    class,       \* class[i]: the RPC whose class in the table the object at i has,
                 \* "none" when there is no object
    registered,  \* objects that asked gRPC for a call and have none yet
    backlog,     \* backlog[m]: calls of m that clients made and no object has
    cq,          \* the completion queue: pairs of a tag and the ok flag
    sending,     \* objects whose Finish is under way
    answer,      \* answer[i]: the reply it sends, "none" when it sends none
    loop,        \* HandleRpcs: "start", "check", "wait", "stopped" or "aborted"
    shutdown     \* *pthread_shutdown_signal

rpcVars == <<status, class, registered, backlog, cq, sending, answer, loop, shutdown>>

RpcTypeOK ==
    /\ status \in [Tag -> {"free", "PROCESS", "FINISH"}]
    /\ class \in [Tag -> Method \cup {"none"}]
    /\ registered \subseteq Tag
    /\ backlog \in [Method -> 0 .. MaxCalls]
    /\ cq \subseteq Tag \X BOOLEAN
    /\ sending \subseteq Tag
    /\ answer \in [Tag -> Reply \cup {"none"}]
    /\ loop \in {"start", "check", "wait", "stopped", "aborted"}
    /\ shutdown \in BOOLEAN

RpcInit ==
    /\ status = [i \in Tag |-> "free"]
    /\ class = [i \in Tag |-> "none"]
    /\ registered = {}
    /\ backlog = [m \in Method |-> 0]
    /\ cq = {}
    /\ sending = {}
    /\ answer = [i \in Tag |-> "none"]
    /\ loop = "start"
    /\ shutdown = FALSE

\* The RPC the object at i registers for, the classes whose Proceed runs on it, and
\* what they may reply.
Serves(i) == Class[class[i]].requests
Proceeds(i) == {m \in Method : Class[m].cookie = Class[class[i]].cookie}
Replies(i) == UNION {Class[m].replies : m \in Proceeds(i)}

Free == {i \in Tag : status[i] = "free"}

\* The constructor calls Proceed, which registers the object at once: CREATE is
\* never seen from outside.
NewCallData(i, m) ==
    /\ i \in Free
    /\ class' = [class EXCEPT ![i] = m]
    /\ registered' = registered \cup {i}

-----------------------------------------------------------------------------
\* HandleRpcs makes the first object of each class.
FirstCallData ==
    /\ loop = "start"
    /\ \E at \in [Method -> Free] :
         /\ \A m, n \in Method : at[m] = at[n] => m = n
         /\ status' = [i \in Tag |-> IF \E m \in Method : at[m] = i THEN "PROCESS" ELSE status[i]]
         /\ class' = [i \in Tag |-> IF \E m \in Method : at[m] = i
                                    THEN CHOOSE m \in Method : at[m] = i ELSE class[i]]
         /\ registered' = {at[m] : m \in Method}
    /\ loop' = "check"
    /\ UNCHANGED <<backlog, cq, sending, answer, shutdown>>

\* while ( !*pthread_shutdown_signal ): the flag is read before each wait only.
LoopTop ==
    /\ loop = "check"
    /\ loop' = IF shutdown THEN "stopped" ELSE "wait"
    /\ UNCHANGED <<status, class, registered, backlog, cq, sending, answer, shutdown>>

\* Mutant: no new object takes the place of the one that got the call.
ProceedProcessAlone(i) ==
    /\ loop = "wait"
    /\ <<i, TRUE>> \in cq
    /\ status[i] = "PROCESS"
    /\ status' = [status EXCEPT ![i] = "FINISH"]
    /\ \E r \in Replies(i) : answer' = [answer EXCEPT ![i] = r]
    /\ sending' = sending \cup {i}
    /\ cq' = cq \ {<<i, TRUE>>}
    /\ loop' = "check"
    /\ UNCHANGED <<class, registered, backlog, shutdown>>

\* Mutant: status_ is not set before Finish.
ProceedProcessAgain(i) ==
    /\ loop = "wait"
    /\ <<i, TRUE>> \in cq
    /\ status[i] = "PROCESS"
    /\ \E j \in Free :
         /\ NewCallData(j, Class[class[i]].spawns)
         /\ status' = [status EXCEPT ![j] = "PROCESS"]
    /\ \E r \in Replies(i) : answer' = [answer EXCEPT ![i] = r]
    /\ sending' = sending \cup {i}
    /\ cq' = cq \ {<<i, TRUE>>}
    /\ loop' = "check"
    /\ UNCHANGED <<backlog, shutdown>>

\* Next returned the event of a call: a new object takes the next call of the
\* method, the handler runs, and Finish sends the reply.
ProceedProcess(i) ==
    /\ loop = "wait"
    /\ <<i, TRUE>> \in cq
    /\ status[i] = "PROCESS"
    /\ \E j \in Free :
         /\ NewCallData(j, Class[class[i]].spawns)
         /\ status' = [status EXCEPT ![j] = "PROCESS", ![i] = "FINISH"]
    /\ \E r \in Replies(i) : answer' = [answer EXCEPT ![i] = r]
    /\ sending' = sending \cup {i}
    /\ cq' = cq \ {<<i, TRUE>>}
    /\ loop' = "check"
    /\ UNCHANGED <<backlog, shutdown>>

\* Mutant: the object is not deleted.
ProceedFinishLeaks(i) ==
    /\ loop = "wait"
    /\ <<i, TRUE>> \in cq
    /\ status[i] = "FINISH"
    /\ cq' = cq \ {<<i, TRUE>>}
    /\ loop' = "check"
    /\ UNCHANGED <<status, class, registered, backlog, sending, answer, shutdown>>

\* Next returned the end of a Finish: delete this.
ProceedFinish(i) ==
    /\ loop = "wait"
    /\ <<i, TRUE>> \in cq
    /\ status[i] = "FINISH"
    /\ status' = [status EXCEPT ![i] = "free"]
    /\ class' = [class EXCEPT ![i] = "none"]
    /\ cq' = cq \ {<<i, TRUE>>}
    /\ loop' = "check"
    /\ UNCHANGED <<registered, backlog, sending, answer, shutdown>>

\* GPR_ASSERT( ok ) fails and aborts the process.
AssertOkFails(i) ==
    /\ loop = "wait"
    /\ <<i, FALSE>> \in cq
    /\ cq' = cq \ {<<i, FALSE>>}
    /\ loop' = "aborted"
    /\ UNCHANGED <<status, class, registered, backlog, sending, answer, shutdown>>

-----------------------------------------------------------------------------
(* gRPC and the clients. *)

ClientCalls(m) ==
    /\ backlog[m] < MaxCalls
    /\ backlog' = [backlog EXCEPT ![m] = @ + 1]
    /\ UNCHANGED <<status, class, registered, cq, sending, answer, loop, shutdown>>

\* A waiting call is given to the object registered for its method.
CallArrives(i) ==
    /\ i \in registered
    /\ backlog[Serves(i)] > 0
    /\ backlog' = [backlog EXCEPT ![Serves(i)] = @ - 1]
    /\ registered' = registered \ {i}
    /\ cq' = cq \cup {<<i, TRUE>>}
    /\ UNCHANGED <<status, class, sending, answer, loop, shutdown>>

\* The reply went out, or the call was already dead: the client cancelled it,
\* its deadline passed or its connection dropped.
ReplySent(i, ok) ==
    /\ i \in sending
    /\ sending' = sending \ {i}
    /\ answer' = [answer EXCEPT ![i] = "none"]
    /\ cq' = cq \cup {<<i, ok>>}
    /\ UNCHANGED <<status, class, registered, backlog, loop, shutdown>>

ShutdownSignal ==
    /\ ~shutdown
    /\ shutdown' = TRUE
    /\ UNCHANGED <<status, class, registered, backlog, cq, sending, answer, loop>>

ServerStep(i) == ProceedProcess(i) \/ ProceedFinish(i) \/ AssertOkFails(i)

RpcNext ==
    \/ FirstCallData \/ LoopTop
    \/ \E i \in Tag : ServerStep(i) \/ CallArrives(i)
    \/ \E i \in Tag, ok \in BOOLEAN : ReplySent(i, ok)
    \/ \E m \in Method : ClientCalls(m)
    \/ ShutdownSignal

RpcSpec == RpcInit /\ [][RpcNext]_rpcVars

\* The loop and gRPC run when they can, and the queue serves every tag.
RpcFairSpec ==
    /\ RpcSpec
    /\ WF_rpcVars(FirstCallData)
    /\ WF_rpcVars(LoopTop)
    /\ \A i \in Tag : /\ SF_rpcVars(ServerStep(i))
                      /\ WF_rpcVars(CallArrives(i))
                      /\ WF_rpcVars(\E ok \in BOOLEAN : ReplySent(i, ok))

-----------------------------------------------------------------------------
Running == loop \in {"check", "wait"}

Operation == {"call", "ok event", "failed event", "reply"}

Pending(i) == {k \in Operation :
                 \/ k = "call" /\ i \in registered
                 \/ k = "ok event" /\ <<i, TRUE>> \in cq
                 \/ k = "failed event" /\ <<i, FALSE>> \in cq
                 \/ k = "reply" /\ i \in sending}

Listens(i, m) == status[i] = "PROCESS" /\ Serves(i) = m

\* While the loop runs each RPC has exactly one object that waits for a call or
\* holds one not yet processed: no RPC is ever left without a listener, and the
\* reply of one call does not register a second listener.
OneListener ==
    Running => \A m \in Method :
        /\ \E i \in Tag : Listens(i, m)
        /\ \A i, j \in Tag : Listens(i, m) /\ Listens(j, m) => i = j

\* While the loop runs every live object has exactly one operation outstanding
\* and no operation names a deleted object: Proceed is never called on freed
\* memory, no object is deleted twice and none is leaked.
OneOperationPerObject ==
    Running => \A i \in Tag :
        IF status[i] = "free" THEN Pending(i) = {}
        ELSE \E k \in Operation : Pending(i) = {k}

\* The reply that goes out to a call is one of the handler of its own RPC: the
\* casts in the loop lead from the event to the class that registered for the RPC,
\* although the address was another object's before, and to no other.
RepliesAreReal ==
    \A i \in sending : answer[i] \in Class[Serves(i)].replies

\* The object that waits for calls of m holds one, which the loop has not seen.
Holds(m) == \E i \in Tag : Listens(i, m) /\ <<i, TRUE>> \in cq

Promise == INSTANCE RpcPromise WITH
    Handle <- Tag,
    waiting <- [m \in Method |-> backlog[m] + IF Holds(m) THEN 1 ELSE 0],
    replies <- {h \in Tag \X Method : h[1] \in sending /\ h[2] \in Proceeds(h[1])},
    serving <- loop \notin {"stopped", "aborted"}

\* Objects that are made, reused at the same address and deleted come to this:
\* every call is handled once and gets one reply, of the class that the casts in
\* the loop lead to and that is the class of its RPC; no event is mistaken for a
\* call, and no call is lost between two objects.
AnswersEachCall == Promise!PromiseSpec

\* A call is taken up unless the loop ends first.
CallsTaken ==
    \A m \in Method : (backlog[m] > 0) ~> (backlog[m] = 0 \/ shutdown \/ loop = "aborted")

=============================================================================
