------------------------ MODULE CredentialsFetcher ------------------------
(***************************************************************************)
(* The daemon: the gRPC thread and the renewal thread interleaved on the   *)
(* Kerberos directory, tickets that age, and a process that can die at any *)
(* step and is started again by systemd on the directory it left behind.   *)
(***************************************************************************)
EXTENDS LeaseService, RenewalThread

vars == <<krbDirVars, grpcVars, renewalVars>>

TypeOK == KrbDirTypeOK /\ LeaseServiceTypeOK /\ RenewalTypeOK

Init == KrbDirInit /\ LeaseServiceInit /\ RenewalInit

-----------------------------------------------------------------------------
\* Time passes: a ticket comes within RENEW_TICKET_HOURS of its end.
TicketAges(t) ==
    /\ cc[t] = "fresh"
    /\ cc' = [cc EXCEPT ![t] = "stale"]
    /\ UNCHANGED <<leaseDir, acctDir, metaFile, meta, hostTgt, grpcVars, renewalVars>>

\* The ticket of the machine or user in the default cache runs out.
HostTgtExpires ==
    /\ "tgt_expiry" \in Faults
    /\ hostTgt
    /\ hostTgt' = FALSE
    /\ UNCHANGED <<leaseDir, acctDir, cc, metaFile, meta, grpcVars, renewalVars>>

\* main starts the two threads.
StartThreads ==
    /\ gpc = "ready"
    /\ rpc' = "sleep"
    /\ RenewalClear
    /\ Rest("idle")
    /\ UNCHANGED <<krbDirVars, issued, reply, listed>>

\* The process ends, both threads with it: a signal, a failed assertion, the
\* watchdog, or the abort of the gRPC thread.
ProcessDies ==
    /\ \/ gpc = "abort"
       \/ "crash" \in Faults /\ gpc # "down"
    /\ Rest("down")
    /\ rpc' = "off"
    /\ RenewalClear
    /\ UNCHANGED <<krbDirVars, issued, reply, listed>>

GrpcStep == (Request \/ Startup \/ Progress) /\ UNCHANGED renewalVars

RenewalStep == gpc # "abort" /\ RenewalNext /\ UNCHANGED grpcVars

Next ==
    \/ GrpcStep
    \/ RenewalStep
    \/ \E t \in Ticket : TicketAges(t)
    \/ HostTgtExpires
    \/ StartThreads
    \/ ProcessDies

Spec == Init /\ [][Next]_vars

-----------------------------------------------------------------------------
(* Safety. *)

TicketsOf(l) == {t \in Ticket : t[1] = l}

\* A client that was told OK by a create operation has, until the lease is
\* deleted or created again, a metadata file that lists its tickets and a ticket
\* in the krb5cc of each of them: no step of the renewal thread, of an operation
\* on another lease or of a crash takes one away.
GrantedIsComplete ==
    \A l \in Lease : reply[l] = "granted" =>
        /\ metaFile[l] = "ok"
        /\ \A e \in meta[l] : e.tkt \in acctDir /\ HasTicket(cc[e.tkt])

\* A create operation that answered INTERNAL left no krb5cc file and no metadata
\* under the lease id it drew, at whichever step it failed.
FailedLeavesNoTicket ==
    \A l \in RandomId : reply[l] = "failed" =>
        /\ metaFile[l] = "absent"
        /\ \A t \in TicketsOf(l) : cc[t] = "absent"

\* After a deletion that removed the lease directory nothing of the lease comes
\* back, although the renewal thread may still hold entries it read before.
DeletedStaysGone ==
    \A l \in Lease : reply[l] = "deleted" =>
        /\ l \notin leaseDir
        /\ metaFile[l] = "absent"
        /\ \A t \in TicketsOf(l) : t \notin acctDir /\ cc[t] = "absent"

\* The renewal thread works on no lease under a random id that is still being
\* created or whose creation failed: the metadata is written after the last ticket.
RenewsOnlyGranted ==
    \A e \in rents \cup ({rcur} \ {NoEntry}) :
        e.tkt[1] \in RandomId => reply[e.tkt[1]] \notin {"none", "failed"}

\* The exit "Directory already exists" of the create handlers, which would skip
\* the remaining tickets and still answer OK, is never taken: no earlier lease,
\* failed, deleted in part or cut off by a crash, left the directory behind.
FreshDirectory ==
    gpc = "mkdir" /\ gop \in {"AddKerberosLease", "AddNonDomainJoinedKerberosLease"} =>
        gtodo \cap acctDir = {}

\* A ticket is lost only to an operation of the gRPC thread on its own lease.
TicketLostByOwnLease ==
    [][\A t \in Ticket : HasTicket(cc[t]) /\ ~HasTicket(cc'[t]) =>
          glease = t[1] /\ gop \in AddOps \cup {"DeleteKerberosLease"}]_vars

-----------------------------------------------------------------------------
(* Why they hold: the invariant that every step preserves.                 *)

\* No file without its directory: a krb5cc is in a ticket directory, a ticket
\* directory and a metadata file in a lease directory.
DirectoryTree ==
    /\ \A t \in Ticket : t \notin acctDir => cc[t] = "absent"
    /\ \A t \in acctDir : t[1] \in leaseDir
    /\ \A l \in Lease : metaFile[l] # "absent" => l \in leaseDir

\* Metadata lists only tickets of its own lease.
OwnEntries == \A l \in Lease : \A e \in meta[l] : e.tkt[1] = l

\* A create operation works on the tickets of its lease, of which its client has
\* heard nothing yet.
CreateFrame ==
    gpc \in AddSteps =>
        /\ gop \in AddOps
        /\ reply[glease] = "none"
        /\ glist \cup gtodo \subseteq TicketsOf(glease)
        /\ gpc = "fill" => glease \in leaseDir

\* The tickets it has passed are there.
TicketsMade ==
    gpc \in {"host", "mkdir", "fetch", "open", "fill"} =>
        /\ \A t \in glist \ gtodo :
              (gpc = "fetch" /\ t = gcur.tkt) \/ (t \in acctDir /\ HasTicket(cc[t]))
        /\ gpc \in {"open", "fill"} => gtodo = {}

\* A delete operation works on the tickets of its lease, and remove_all knows of
\* every ticket directory the lease still has.
DeleteFrame ==
    gpc \in DeleteSteps =>
        /\ gop = "DeleteKerberosLease"
        /\ reply[glease] = "deleting"
        /\ \A e \in gents : e.tkt[1] = glease
        /\ gpc \in {"unlink", "rmdir"} =>
              /\ gtodo \subseteq TicketsOf(glease)
              /\ acctDir \cap TicketsOf(glease) \subseteq gtodo
        /\ gpc = "rmdir" => gcur.tkt \in gtodo

\* The parts together with what they are for: a granted lease is complete and a
\* deleted one is gone, in every state of the two threads between two steps of
\* an operation.
LeaseInv ==
    /\ TypeOK
    /\ DirectoryTree
    /\ OwnEntries
    /\ CreateFrame
    /\ TicketsMade
    /\ DeleteFrame
    /\ DeletedStaysGone
    /\ "metadata_open" \notin Faults => GrantedIsComplete

-----------------------------------------------------------------------------
(* The promise of the service that this implements. *)

\* The tickets the metadata of granted leases lists, and the tickets on disk.
PromisedTickets ==
    {t \in Ticket : reply[t[1]] = "granted" /\ \E e \in meta[t[1]] : e.tkt = t}

UsableTickets == {t \in Ticket : HasTicket(cc[t])}

Promise == INSTANCE LeasePromise WITH
    told <- reply, promised <- PromisedTickets, usable <- UsableTickets, op <- glease

\* The daemon keeps the promise made to its clients: with the file operations of
\* both threads interleaved and the process dying between any two of them, each
\* step is one of LeasePromise or changes nothing a client relies on.
KeepsPromise == Promise!PromiseSpec

-----------------------------------------------------------------------------
(* What comments and tests say, and the code does not do. *)

\* DeleteKerberosLease answered OK: the file paths its reply lists do not exist
\* any more (the integration test of DeleteKerberosLease).
DeletedPathsDoNotExist ==
    \A t \in listed : reply[t[1]] \in {"deleted", "partly"} => cc[t] = "absent"

\* Only a fetch of the renewal thread for the lease being deleted gets in the way:
\* if none ever does, remove_all never throws and no path in a reply exists.
FetchDuringDeletion == gpc \in DeleteSteps /\ rpc = "fetch" /\ rcur.tkt[1] = glease

UndisturbedDeletion ==
    []~FetchDuringDeletion =>
        [](DeletedPathsDoNotExist /\ \A l \in Lease : reply[l] # "partly")

\* The renewal thread is ended only by a directory that goes while it scans, and
\* only two operations take directories away then: a deletion, and the cleanup of
\* an ARN request over a lease that is there already. A failed request under a
\* random id does not, as its cleanup leaves every directory it made.
TakesDirectories == gpc \in DeleteSteps \/ (gpc = "cleanup" /\ gop = "AddKerberosArnLease")

OnlyRemovalStopsRenewal == []~TakesDirectories => [](rpc # "dead")

-----------------------------------------------------------------------------
(* How much work is left. *)

\* The steps the operation in progress can still take until it replies. Making a
\* ticket takes three and may end in the cleanup of the whole list, a second try to
\* renew one takes three more, and removing a ticket directory two.
StepsLeft ==
    LET todo == Cardinality(gtodo)
        list == Cardinality(glist)
        ents == Cardinality(gents)
        file == IF metaFile[glease] = "absent" THEN 0 ELSE 1
    IN  CASE gpc = "host"     -> 3 * todo + list + 3
          [] gpc = "mkdir"    -> 3 * todo + list + 2
          [] gpc = "fetch"    -> 3 * todo + list + 4
          [] gpc = "open"     -> 2
          [] gpc = "fill"     -> 1
          [] gpc = "cleanup"  -> todo + 1
          [] gpc = "renew"    -> 4 * ents + 1
          [] gpc = "rekinit1" -> 4 * ents + 4
          [] gpc = "retry"    -> 4 * ents + 3
          [] gpc = "rekinit2" -> 4 * ents + 2
          [] gpc = "kdestroy" -> ents + 2 * Cardinality(acctDir \cap TicketsOf(glease)) + 3
          [] gpc = "unlink"   -> 2 * todo + file + 1
          [] gpc = "rmdir"    -> 2 * todo + file
          [] gpc \in RestSteps -> 0

\* Every step of an operation brings its reply nearer and no step of the renewal
\* thread, of time or of a crash puts it off: none of the retries goes round in
\* circles, and no directory that is filled again keeps remove_all busy.
RequestAdvances ==
    /\ [](StepsLeft \in Nat)
    /\ [][gpc \notin RestSteps =>
            IF UNCHANGED <<grpcVars, metaFile>> THEN StepsLeft' = StepsLeft
                                                ELSE StepsLeft' < StepsLeft]_vars

\* The steps of a round in progress that the renewal thread can still take: six for
\* an entry that is looked at, with two fetches and two kinits, those of all its
\* entries for a file, and those of its ticket directories and its file for a lease.
FileSteps == 6 * Cardinality(Entry) + 1
LeaseSteps == Cardinality(Ticket) + FileSteps + 1

RoundLeft ==
    LET files == FileSteps * Cardinality(rfiles)
        ents == 6 * Cardinality(rents)
    IN  CASE rpc = "scan"  -> LeaseSteps * Cardinality(rleases) + Cardinality(raccts) + files + 2
          [] rpc = "files" -> files + ents + 1
          [] rpc = "fetch" -> files + ents + 6 - 2 * rtry
          [] rpc = "kinit" -> files + ents + 5 - 2 * rtry
          [] rpc \in {"off", "sleep", "dead"} -> 0

\* Every step of the renewal thread brings the end of its round nearer, and nothing
\* the gRPC thread makes or removes meanwhile puts it off: the thread comes back to
\* its sleep, or ends, whatever the scan meets and however often a fetch fails.
RoundAdvances ==
    /\ [](RoundLeft \in Nat)
    /\ [][rpc \notin {"off", "sleep", "dead"} =>
            IF UNCHANGED renewalVars THEN RoundLeft' = RoundLeft
                                     ELSE RoundLeft' < RoundLeft]_vars

-----------------------------------------------------------------------------
(* Liveness. Both threads run when they can; a fetch or a host kinit that is *)
(* tried again and again succeeds in the end; and when host kinits go on to  *)
(* succeed and fetches of a ticket to be tried, the host ticket has not      *)
(* always run out again by the time of the fetch.                            *)

RenewalFetchOf(t) ==
    gpc # "abort" /\ rpc = "fetch" /\ rcur.tkt = t /\ RenewalFetch /\ UNCHANGED grpcVars

Fairness ==
    /\ WF_vars((Startup \/ Progress) /\ UNCHANGED renewalVars)
    /\ WF_vars(StartThreads)
    /\ WF_vars(gpc = "abort" /\ ProcessDies)
    /\ WF_vars(RenewalStep)

RenewalKinitOk == gpc # "abort" /\ RenewalHostKinit /\ hostTgt' /\ UNCHANGED grpcVars

AtFetchOf(t) == rpc = "fetch" /\ rcur.tkt = t

FetchFairness ==
    /\ \A t \in Ticket : SF_vars(RenewalFetchOf(t))
    /\ SF_vars(RenewalKinitOk)
    /\ \A t \in Ticket :
         []<>AtFetchOf(t) /\ []<><<RenewalKinitOk>>_vars => []<>(AtFetchOf(t) /\ hostTgt)

FairSpec == Spec /\ Fairness

RenewalSpec == FairSpec /\ FetchFairness

\* Every request is answered, whatever fails on the way: no loop of a handler
\* runs for ever and none waits for the renewal thread.
RequestsAnswered == (gpc \notin RestSteps) ~> (gpc \in RestSteps)

\* A ticket of a granted lease that the daemon can renew on its own is renewed
\* once it is due, as long as the renewal thread lives.
DueTicketRenewed ==
    \A t \in Ticket :
        (reply[t[1]] = "granted" /\ \E e \in meta[t[1]] : e.tkt = t /\ IsDue(e))
            ~> (cc[t] = "fresh" \/ reply[t[1]] # "granted" \/ rpc \in {"dead", "off"})

\* "run ticket renewal every 10 minutes" (daemon.h): the renewal thread comes
\* back to its sleep again and again while the daemon is up.
RenewalKeepsRunning == []<>(rpc = "sleep" \/ gpc = "down")

=============================================================================
