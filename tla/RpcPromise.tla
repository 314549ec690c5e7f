---------------------------- MODULE RpcPromise -----------------------------
(***************************************************************************)
(* What the RPC server promises its clients, without objects, addresses    *)
(* and events: each call is taken once, by the handler of its own RPC, and *)
(* gets one reply; nobody gets a reply without a call. The server may end  *)
(* at any time and then takes no more calls.                               *)
(*                                                                         *)
(* RpcServer implements it: see AnswersEachCall there.                     *)
(***************************************************************************)
EXTENDS Naturals

CONSTANTS
    Method,   \* the RPCs served
    Handle    \* names for the replies under way

VARIABLES
    waiting,   \* waiting[m]: the calls of m that no handler has taken
    replies,   \* the replies under way, each with its handle and its RPC
    serving    \* the server takes calls

promiseVars == <<waiting, replies, serving>>

PromiseInit ==
    /\ waiting = [m \in Method |-> 0]
    /\ replies = {}
    /\ serving = TRUE

Call(m) ==
    /\ waiting' = [waiting EXCEPT ![m] = @ + 1]
    /\ UNCHANGED <<replies, serving>>

\* The handler of m takes a call that waits, runs and begins its one reply.
Answer(h, m) ==
    /\ serving
    /\ waiting[m] > 0
    /\ \A k \in Method : <<h, k>> \notin replies
    /\ waiting' = [waiting EXCEPT ![m] = @ - 1]
    /\ replies' = replies \cup {<<h, m>>}
    /\ UNCHANGED serving

\* The reply goes out, or its client is gone.
Deliver(h, m) ==
    /\ <<h, m>> \in replies
    /\ replies' = replies \ {<<h, m>>}
    /\ UNCHANGED <<waiting, serving>>

End ==
    /\ serving' = FALSE
    /\ UNCHANGED <<waiting, replies>>

PromiseNext ==
    \/ \E m \in Method : Call(m) \/ \E h \in Handle : Answer(h, m) \/ Deliver(h, m)
    \/ End

PromiseSpec == PromiseInit /\ [][PromiseNext]_promiseVars

=============================================================================
