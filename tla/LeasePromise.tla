---------------------------- MODULE LeasePromise ----------------------------
(***************************************************************************)
(* What the service promises its clients about leases, without files and   *)
(* threads: a granted lease has a ticket for each of its accounts until an *)
(* operation on that very lease, a deleted one has none until it is        *)
(* created again, and one operation is in progress at a time, which the    *)
(* end of the process may cut off at any point.                            *)
(*                                                                         *)
(* CredentialsFetcher implements it: see KeepsPromise there.               *)
(***************************************************************************)
CONSTANTS
    Lease,    \* lease ids
    Account,  \* service accounts
    NoLease

VARIABLES
    told,      \* told[l]: what the client of the last operation on l was told
    promised,  \* the tickets of the granted leases
    usable,    \* the tickets there are
    op         \* the lease the operation in progress is about

promiseVars == <<told, promised, usable, op>>

Of(l) == {l} \X Account

PromiseInit ==
    /\ told = [l \in Lease |-> "none"]
    /\ promised = {}
    /\ usable = {}
    /\ op = NoLease

\* An operation on lease l begins: from now on it promises nothing.
Begin(l) ==
    /\ op = NoLease
    /\ op' = l
    /\ \E s \in {"none", "deleting"} : told' = [told EXCEPT ![l] = s]
    /\ promised' = promised \ Of(l)
    /\ UNCHANGED usable

\* It makes and removes tickets of l, and of l only.
Work(l) ==
    /\ op = l
    /\ usable' \ Of(l) = usable \ Of(l)
    /\ UNCHANGED <<told, promised, op>>

\* It ends. A create operation grants tickets that are there, or fails.
Grant(l) ==
    /\ op = l
    /\ told[l] = "none"
    /\ op' = NoLease
    /\ told' = [told EXCEPT ![l] = "granted"]
    /\ \E T \in SUBSET (usable \cap Of(l)) : promised' = promised \cup T
    /\ UNCHANGED usable

Fail(l) ==
    /\ op = l
    /\ told[l] = "none"
    /\ op' = NoLease
    /\ told' = [told EXCEPT ![l] = "failed"]
    /\ UNCHANGED <<promised, usable>>

\* A delete operation leaves nothing, or says OK although it could not.
Delete(l) ==
    /\ op = l
    /\ told[l] = "deleting"
    /\ op' = NoLease
    /\ \/ told' = [told EXCEPT ![l] = "deleted"] /\ usable \cap Of(l) = {}
       \/ told' = [told EXCEPT ![l] = "partly"]
    /\ UNCHANGED <<promised, usable>>

\* There was no such lease.
DeleteNothing(l) ==
    /\ op = NoLease
    /\ usable \cap Of(l) = {}
    /\ told' = [told EXCEPT ![l] = "deleted"]
    /\ promised' = promised \ Of(l)
    /\ UNCHANGED <<usable, op>>

\* A renewal takes no ticket away and brings none back to a deleted lease.
Renew(l) ==
    /\ told[l] # "deleted"
    /\ usable \subseteq usable'
    /\ usable' \ Of(l) = usable \ Of(l)
    /\ UNCHANGED <<told, promised, op>>

\* The operation is cut off: its client is told nothing.
CutOff ==
    /\ op' = NoLease
    /\ UNCHANGED <<told, promised, usable>>

PromiseNext ==
    \/ \E l \in Lease : \/ Begin(l) \/ Work(l) \/ Grant(l) \/ Fail(l)
                        \/ Delete(l) \/ DeleteNothing(l) \/ Renew(l)
    \/ CutOff

PromiseSpec == PromiseInit /\ [][PromiseNext]_promiseVars

=============================================================================
