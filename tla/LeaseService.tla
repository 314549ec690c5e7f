---------------------------- MODULE LeaseService ----------------------------
(***************************************************************************)
(* The thread that serves the RPCs of CredentialsFetcherService            *)
(* (gmsa_service.cpp). HandleRpcs runs one handler at a time, but every    *)
(* handler is a sequence of shell commands and file operations between     *)
(* which the renewal thread can run and the process can die: each of them  *)
(* is an action here. The same thread of control runs ProcessCredSpecFile  *)
(* before the daemon starts its threads.                                   *)
(*                                                                         *)
(* The accounts of one request are a set: duplicates were dropped or       *)
(* rejected by the handler, and the order in which it works through them   *)
(* is the client's choice, here the choice of t in the actions.            *)
(***************************************************************************)
EXTENDS KrbDir

VARIABLES
    gpc,      \* what the thread does next
    gop,      \* the operation in progress
    glease,   \* its lease_id
    gowner,   \* its domainless_user, Host for the machine keytab or vault secret
    glist,    \* krb_ticket_info_list: the tickets of a create request
    gtodo,    \* the ones still to be processed (or removed)
    gfile,    \* the ones whose krb_file_path was set to the krb5cc file
    gents,    \* the metadata entries a renew or delete still has to process
    gcur,     \* the entry in progress
    issued,   \* the random lease ids drawn so far
    reply,    \* reply[l]: what the last finished operation on lease l told its client
    listed    \* the tickets whose path the last reply to a delete lists as deleted

grpcVars == <<gpc, gop, glease, gowner, glist, gtodo, gfile, gents, gcur, issued, reply, listed>>

\* The entry a create handler works on: kinit gets the krb5cc path itself.
CacheEntry(t) == [tkt |-> t, owner |-> gowner, isFile |-> TRUE]

AddOps == {"AddKerberosLease", "AddNonDomainJoinedKerberosLease", "AddKerberosArnLease",
           "ProcessCredSpecFile"}
RenewOps == {"RenewNonDomainJoinedKerberosLease", "RenewKerberosArnLease"}
Ops == AddOps \cup RenewOps \cup {"DeleteKerberosLease"}

AddSteps == {"host", "mkdir", "fetch", "cleanup", "open", "fill"}
RenewSteps == {"renew", "rekinit1", "retry", "rekinit2"}
DeleteSteps == {"kdestroy", "unlink", "rmdir"}
RestSteps == {"down", "ready", "idle", "abort"}

\* The steps that work on the entry gcur.
EntrySteps == {"fetch", "rekinit1", "retry", "rekinit2", "rmdir"}

LeaseServiceTypeOK ==
    /\ gpc \in AddSteps \cup RenewSteps \cup DeleteSteps \cup RestSteps
    /\ gop \in Ops \cup {"none"}
    /\ glease \in Lease \cup {NoLease}
    /\ gowner \in Owner
    /\ glist \subseteq Ticket
    /\ gtodo \subseteq Ticket
    /\ gfile \subseteq Ticket
    /\ gents \subseteq Entry
    /\ gcur \in Entry \cup {NoEntry}
    /\ issued \subseteq RandomId
    /\ reply \in [Lease -> {"none", "granted", "failed", "deleting", "deleted", "partly"}]
    /\ listed \subseteq Ticket
    /\ gpc \in AddSteps \cup DeleteSteps => glease # NoLease
    /\ gpc \in EntrySteps => gcur # NoEntry

LeaseServiceInit ==
    /\ gpc = "down"
    /\ gop = "none"
    /\ glease = NoLease
    /\ gowner = Host
    /\ glist = {}
    /\ gtodo = {}
    /\ gfile = {}
    /\ gents = {}
    /\ gcur = NoEntry
    /\ issued = {}
    /\ reply = [l \in Lease |-> "none"]
    /\ listed = {}

\* The thread goes to rest in pc and its stack frame is gone.
Rest(pc) ==
    /\ gpc' = pc
    /\ gop' = "none"
    /\ glease' = NoLease
    /\ gowner' = Host
    /\ glist' = {}
    /\ gtodo' = {}
    /\ gfile' = {}
    /\ gents' = {}
    /\ gcur' = NoEntry

\* Where an operation ends: a failed startup exits the process, to be started
\* again by systemd; a successful one lets the daemon start its threads.
EndPc(ok) ==
    IF gop = "ProcessCredSpecFile" THEN IF ok THEN "ready" ELSE "down"
                                   ELSE "idle"

-----------------------------------------------------------------------------
(* Creating a lease: AddKerberosLease, AddNonDomainJoinedKerberosLease,    *)
(* AddKerberosArnLease and ProcessCredSpecFile.                            *)

\* A new operation on lease l: what its client was told before no longer counts.
Reopen(l, r) ==
    /\ reply' = [reply EXCEPT ![l] = r]
    /\ listed' = {t \in listed : t[1] # l}

\* The request was parsed: T are the tickets accepted before the first bad
\* credential spec, if there is one (then err_msg is set and nothing is made).
BeginAdd(op, l, o, T, bad) ==
    /\ gpc' = IF bad THEN "cleanup" ELSE IF T = {} THEN "open" ELSE "host"
    /\ gop' = op
    /\ glease' = l
    /\ gowner' = o
    /\ glist' = T
    /\ gtodo' = T
    /\ gfile' = {}
    /\ Reopen(l, "none")
    /\ UNCHANGED <<krbDirVars, gents, gcur>>

\* Mutant: the random source repeats an id.
generate_lease_id_again == RandomId

\* The ids generate_lease_id may return: ten random bytes, never seen before.
generate_lease_id == RandomId \ issued

AddKerberosLease(l, A, bad) ==
    /\ gpc = "idle"
    /\ l \in generate_lease_id
    /\ issued' = issued \cup {l}
    /\ BeginAdd("AddKerberosLease", l, Host, {l} \X A, bad)

\* An empty list of credential specs is rejected here, unlike in AddKerberosLease.
AddNonDomainJoinedKerberosLease(l, u, A, bad) ==
    /\ gpc = "idle"
    /\ l \in generate_lease_id
    /\ A = {} => bad
    /\ issued' = issued \cup {l}
    /\ BeginAdd("AddNonDomainJoinedKerberosLease", l, u, {l} \X A, bad)

\* The client names the lease, as the task id in the mount path of each ARN.
AddKerberosArnLease(l, u, A, bad) ==
    /\ gpc = "idle"
    /\ l \in TaskId
    /\ A # {}
    /\ BeginAdd("AddKerberosArnLease", l, u, {l} \X A, bad)
    /\ UNCHANGED issued

\* main: the credential spec file names one account, under a fixed lease id. A
\* file that cannot be parsed ends the process (bad).
ProcessCredSpecFile(l, a, bad) ==
    /\ gpc = "down"
    /\ l \in FileId
    /\ BeginAdd("ProcessCredSpecFile", l, Host, IF bad THEN {} ELSE {<<l, a>>}, bad)
    /\ UNCHANGED issued

\* main without a credential spec file, or with one that does not exist.
StartWithoutFile ==
    /\ gpc = "down"
    /\ gpc' = "ready"
    /\ UNCHANGED <<krbDirVars, gop, glease, gowner, glist, gtodo, gfile, gents, gcur,
                   issued, reply, listed>>

\* kinit of the machine, the vault secret's user or the request's user, into
\* the default cache. Code 0 made a ticket; a positive code is a failure the
\* handlers do not look at (they test status.first < 0).
HostKinit ==
    /\ gpc = "host"
    /\ hostTgt' \in {hostTgt, TRUE}
    /\ gpc' = "mkdir"
    /\ UNCHANGED <<leaseDir, acctDir, cc, metaFile, meta, gop, glease, gowner, glist, gtodo,
                   gfile, gents, gcur, issued, reply, listed>>

\* Mutant: only the tickets not yet reached are removed.
ToCleanupRest(T) ==
    /\ gpc' = "cleanup"
    /\ gtodo' = gtodo
    /\ gcur' = NoEntry
    /\ UNCHANGED <<krbDirVars, gop, glease, gowner, glist, gfile, gents, issued, reply, listed>>

\* err_msg is set: the handler leaves its loop and removes the tickets of T.
ToCleanup(T) ==
    /\ gpc' = "cleanup"
    /\ gtodo' = T
    /\ gcur' = NoEntry
    /\ UNCHANGED <<krbDirVars, gop, glease, gowner, glist, gfile, gents, issued, reply, listed>>

\* A negative status: a tool is missing, or the vault has no secret.
\* ProcessCredSpecFile returns at once here and removes nothing.
HostKinitError ==
    /\ gpc = "host"
    /\ ToCleanup(IF gop = "ProcessCredSpecFile" THEN {} ELSE glist)

\* The ticket directory and an empty krb5cc. An ARN lease may find both already
\* there and then leaves krb_file_path on the directory; at startup an existing
\* directory is removed first. The other two find a directory nobody made (see
\* FreshDirectory), so their "Directory already exists" exit is never taken.
MakeTicketDir(t) ==
    LET renewed == cc[t] = "absent" \/ gop = "ProcessCredSpecFile" IN
    /\ gpc = "mkdir"
    /\ t \in gtodo
    /\ leaseDir' = leaseDir \cup {t[1]}
    /\ acctDir' = acctDir \cup {t}
    /\ cc' = IF renewed THEN [cc EXCEPT ![t] = "empty"] ELSE cc
    /\ gfile' = IF renewed THEN gfile \cup {t} ELSE gfile
    /\ gtodo' = gtodo \ {t}
    /\ gcur' = CacheEntry(t)
    /\ gpc' = "fetch"
    /\ UNCHANGED <<metaFile, meta, hostTgt, gop, glease, gowner, glist, gents, issued, reply, listed>>

\* fetch_gmsa_password_and_create_krb_ticket returned 0.
FetchTicket ==
    /\ gpc = "fetch"
    /\ fetch_ok(gcur)
    /\ gcur' = NoEntry
    /\ gpc' = IF gtodo = {} THEN "open" ELSE "host"
    /\ UNCHANGED <<leaseDir, acctDir, metaFile, meta, hostTgt, gop, glease, gowner, glist,
                   gtodo, gfile, gents, issued, reply, listed>>

\* Mutant: the failure of the fetch is not looked at.
FetchTicketErrorIgnored ==
    /\ gpc = "fetch"
    /\ gcur' = NoEntry
    /\ gpc' = IF gtodo = {} THEN "open" ELSE "host"
    /\ UNCHANGED <<krbDirVars, gop, glease, gowner, glist, gtodo, gfile, gents, issued, reply, listed>>

FetchTicketError ==
    /\ gpc = "fetch"
    /\ ToCleanup(glist)

\* Mutant: the directory is removed in each case, as the comment in the code has it.
RemoveOnFailureDirs(t) ==
    /\ gpc = "cleanup"
    /\ t \in gtodo
    /\ cc' = [cc EXCEPT ![t] = "absent"]
    /\ acctDir' = acctDir \ {t}
    /\ gtodo' = gtodo \ {t}
    /\ UNCHANGED <<leaseDir, metaFile, meta, hostTgt, gpc, gop, glease, gowner, glist, gfile,
                   gents, gcur, issued, reply, listed>>

\* remove_all( krb_file_path ): the krb5cc file of a ticket that was reached,
\* the whole directory of one that was not.
RemoveOnFailure(t) ==
    /\ gpc = "cleanup"
    /\ t \in gtodo
    /\ cc' = [cc EXCEPT ![t] = "absent"]
    /\ acctDir' = IF t \in gfile THEN acctDir ELSE acctDir \ {t}
    /\ gtodo' = gtodo \ {t}
    /\ UNCHANGED <<leaseDir, metaFile, meta, hostTgt, gpc, gop, glease, gowner, glist, gfile,
                   gents, gcur, issued, reply, listed>>

\* Finish( INTERNAL ), or EXIT_FAILURE at startup.
ReplyFailed ==
    /\ gpc = "cleanup"
    /\ gtodo = {}
    /\ reply' = [reply EXCEPT ![glease] = "failed"]
    /\ Rest(EndPc(FALSE))
    /\ UNCHANGED <<krbDirVars, issued, listed>>

OpenMetadataFile ==
    /\ gpc = "open"
    /\ OpenMetadata(glease)
    /\ gpc' = "fill"
    /\ UNCHANGED <<acctDir, cc, hostTgt, gop, glease, gowner, glist, gtodo, gfile, gents, gcur,
                   issued, reply, listed>>

\* write_meta_data_json logs that the file cannot be opened and returns 0.
OpenMetadataFails ==
    /\ gpc = "open"
    /\ "metadata_open" \in Faults
    /\ leaseDir' = leaseDir \cup {glease}
    /\ reply' = [reply EXCEPT ![glease] = "granted"]
    /\ Rest(EndPc(TRUE))
    /\ UNCHANGED <<acctDir, cc, metaFile, meta, hostTgt, issued, listed>>

\* Mutant: INTERNAL is answered after the metadata was written.
ReplyFailedAfterFill ==
    /\ gpc = "fill"
    /\ FillMetadata(glease, {[tkt |-> t, owner |-> gowner, isFile |-> t \in gfile] : t \in glist})
    /\ reply' = [reply EXCEPT ![glease] = "failed"]
    /\ Rest(EndPc(FALSE))
    /\ UNCHANGED <<leaseDir, acctDir, cc, hostTgt, issued, listed>>

\* The metadata reaches the disk; Finish( OK ).
ReplyGranted ==
    /\ gpc = "fill"
    /\ FillMetadata(glease, {[tkt |-> t, owner |-> gowner, isFile |-> t \in gfile] : t \in glist})
    /\ reply' = [reply EXCEPT ![glease] = "granted"]
    /\ Rest(EndPc(TRUE))
    /\ UNCHANGED <<leaseDir, acctDir, cc, hostTgt, issued, listed>>

-----------------------------------------------------------------------------
(* Renewing on request. Only this thread changes metadata files, and the   *)
(* renewal thread removes nothing, so reading all of them at once reads    *)
(* what the handlers read one file after the other.                        *)

AllEntries == UNION {read_meta_data_json(l) : l \in get_meta_data_file_paths}

BeginRenew(op, es) ==
    /\ gpc = "idle"
    /\ gpc' = "renew"
    /\ gop' = op
    /\ gents' = es
    /\ UNCHANGED <<krbDirVars, glease, gowner, glist, gtodo, gfile, gcur, issued, reply, listed>>

\* renew_kerberos_tickets_domainless: the tickets made for the user of the
\* request, whichever operation made them and whether they are due or not.
RenewNonDomainJoinedKerberosLease(u) ==
    BeginRenew("RenewNonDomainJoinedKerberosLease", {e \in AllEntries : e.owner = u})

\* The entries with credspec_info, which only ARN leases have.
RenewKerberosArnLease ==
    BeginRenew("RenewKerberosArnLease", {e \in AllEntries : e.tkt[1] \in TaskId})

\* renew_gmsa_ticket: the ticket is fetched, at the first or the second try.
RenewTicket(e) ==
    /\ \/ gpc = "renew" /\ e \in gents
       \/ gpc = "retry" /\ e = gcur
    /\ fetch_ok(e)
    /\ gents' = gents \ {e}
    /\ gcur' = NoEntry
    /\ gpc' = "renew"
    /\ UNCHANGED <<leaseDir, acctDir, metaFile, meta, hostTgt, gop, glease, gowner, glist,
                   gtodo, gfile, issued, reply, listed>>

\* It is not, and the user's own ticket is made anew.
RenewTicketFails(e) ==
    /\ \/ gpc = "renew" /\ e \in gents /\ gpc' = "rekinit1"
       \/ gpc = "retry" /\ e = gcur /\ gpc' = "rekinit2"
    /\ gents' = gents \ {e}
    /\ gcur' = e
    /\ UNCHANGED <<krbDirVars, gop, glease, gowner, glist, gtodo, gfile, issued, reply, listed>>

\* Mutant: the second try is repeated until it succeeds.
RenewUserKinitLoops ==
    /\ gpc \in {"rekinit1", "rekinit2"}
    /\ gpc' = "retry"
    /\ hostTgt' \in {hostTgt, TRUE}
    /\ UNCHANGED <<leaseDir, acctDir, cc, metaFile, meta, gop, glease, gowner, glist, gtodo,
                   gfile, gents, gcur, issued, reply, listed>>

\* The status of this kinit is only logged.
RenewUserKinit ==
    /\ \/ gpc = "rekinit1" /\ gpc' = "retry" /\ gcur' = gcur
       \/ gpc = "rekinit2" /\ gpc' = "renew" /\ gcur' = NoEntry
    /\ hostTgt' \in {hostTgt, TRUE}
    /\ UNCHANGED <<leaseDir, acctDir, cc, metaFile, meta, gop, glease, gowner, glist, gtodo,
                   gfile, gents, issued, reply, listed>>

\* S3, the credential spec or the secret cannot be read: the loop over the
\* entries of this metadata file ends, the loop over the files goes on.
RenewArnSkipsFile(e) ==
    /\ gpc = "renew"
    /\ gop = "RenewKerberosArnLease"
    /\ e \in gents
    /\ gents' = {x \in gents : x.tkt[1] # e.tkt[1]}
    /\ UNCHANGED <<krbDirVars, gpc, gop, glease, gowner, glist, gtodo, gfile, gcur, issued,
                   reply, listed>>

\* The secret now names another user than the ticket was made for: no second try.
RenewArnOtherUser(e) ==
    /\ gpc = "renew"
    /\ gop = "RenewKerberosArnLease"
    /\ e \in gents
    /\ gents' = gents \ {e}
    /\ UNCHANGED <<krbDirVars, gpc, gop, glease, gowner, glist, gtodo, gfile, gcur, issued,
                   reply, listed>>

ReplyRenewed ==
    /\ gpc = "renew"
    /\ gents = {}
    /\ Rest("idle")
    /\ UNCHANGED <<krbDirVars, issued, reply, listed>>

-----------------------------------------------------------------------------
(* Deleting: delete_krb_tickets. The reply is OK whatever happens here.    *)

DeleteKerberosLease(l) ==
    /\ gpc = "idle"
    /\ l \in leaseDir
    /\ gpc' = "kdestroy"
    /\ gop' = "DeleteKerberosLease"
    /\ glease' = l
    /\ gents' = read_meta_data_json(l)
    /\ Reopen(l, "deleting")
    /\ UNCHANGED <<krbDirVars, gowner, glist, gtodo, gfile, gcur, issued>>

\* opendir fails: there is nothing to delete.
DeleteMissingLease(l) ==
    /\ gpc = "idle"
    /\ l \in Lease \ leaseDir
    /\ Reopen(l, "deleted")
    /\ UNCHANGED <<krbDirVars, gpc, gop, glease, gowner, glist, gtodo, gfile, gents, gcur,
                   issued>>

\* kdestroy removes the cache and its path goes into the reply, or it fails (it
\* does on a directory) and leaves the cache to remove_all.
Kdestroy(e) ==
    /\ gpc = "kdestroy"
    /\ e \in gents
    /\ gents' = gents \ {e}
    /\ \/ /\ e.isFile
          /\ cc' = [cc EXCEPT ![e.tkt] = "absent"]
          /\ listed' = listed \cup {e.tkt}
       \/ UNCHANGED <<cc, listed>>
    /\ UNCHANGED <<leaseDir, acctDir, metaFile, meta, hostTgt, gpc, gop, glease, gowner, glist,
                   gtodo, gfile, gcur, issued, reply>>

\* Mutant: remove_all is called on krb_files_dir, the lease id being empty.
BeginRemoveAllLeases ==
    /\ gpc = "kdestroy"
    /\ gents = {}
    /\ gpc' = "unlink"
    /\ gtodo' = acctDir
    /\ UNCHANGED <<krbDirVars, gop, glease, gowner, glist, gfile, gents, gcur, issued, reply, listed>>

\* Mutant: only what the metadata lists is removed.
BeginRemoveListed ==
    /\ gpc = "kdestroy"
    /\ gents = {}
    /\ gpc' = "unlink"
    /\ gtodo' = {e.tkt : e \in meta[glease]}
    /\ UNCHANGED <<krbDirVars, gop, glease, gowner, glist, gfile, gents, gcur, issued, reply, listed>>

\* remove_all( lease directory ) lists the directory and then removes what it
\* listed, in any order: first the content of a ticket directory, then itself.
BeginRemoveAll ==
    /\ gpc = "kdestroy"
    /\ gents = {}
    /\ gpc' = "unlink"
    /\ gtodo' = {t \in acctDir : t[1] = glease}
    /\ UNCHANGED <<krbDirVars, gop, glease, gowner, glist, gfile, gents, gcur, issued, reply, listed>>

\* Mutant: the file is left to rmdir (remove in place of remove_all).
RemoveCacheSkipped(t) ==
    /\ gpc = "unlink"
    /\ t \in gtodo
    /\ gcur' = CacheEntry(t)
    /\ gpc' = "rmdir"
    /\ UNCHANGED <<krbDirVars, gop, glease, gowner, glist, gtodo, gfile, gents, issued, reply,
                   listed>>

RemoveCache(t) ==
    /\ gpc = "unlink"
    /\ t \in gtodo
    /\ cc' = [cc EXCEPT ![t] = "absent"]
    /\ gcur' = CacheEntry(t)
    /\ gpc' = "rmdir"
    /\ UNCHANGED <<leaseDir, acctDir, metaFile, meta, hostTgt, gop, glease, gowner, glist,
                   gtodo, gfile, gents, issued, reply, listed>>

RemoveTicketDir ==
    /\ gpc = "rmdir"
    /\ cc[gcur.tkt] = "absent"
    /\ acctDir' = acctDir \ {gcur.tkt}
    /\ gtodo' = gtodo \ {gcur.tkt}
    /\ gcur' = NoEntry
    /\ gpc' = "unlink"
    /\ UNCHANGED <<leaseDir, cc, metaFile, meta, hostTgt, gop, glease, gowner, glist, gfile,
                   gents, issued, reply, listed>>

\* Mutant: remove_all is called again until nothing is in its way.
RemoveTicketDirRetries ==
    /\ gpc = "rmdir"
    /\ cc[gcur.tkt] # "absent"
    /\ gpc' = "unlink"
    /\ gcur' = NoEntry
    /\ UNCHANGED <<krbDirVars, gop, glease, gowner, glist, gtodo, gfile, gents, issued, reply,
                   listed>>

\* rmdir finds the directory not empty (the renewal thread ran kinit in it) and
\* remove_all throws. The catch block closes the directory stream a second
\* time: either nothing comes of it and the reply is OK, or the process aborts.
RemoveTicketDirThrows ==
    /\ gpc = "rmdir"
    /\ cc[gcur.tkt] # "absent"
    /\ reply' = [reply EXCEPT ![glease] = "partly"]
    /\ \E pc \in {"idle", "abort"} : Rest(pc)
    /\ UNCHANGED <<krbDirVars, issued, listed>>

RemoveMetadata ==
    /\ gpc = "unlink"
    /\ metaFile[glease] # "absent"
    /\ metaFile' = [metaFile EXCEPT ![glease] = "absent"]
    /\ meta' = [meta EXCEPT ![glease] = {}]
    /\ UNCHANGED <<leaseDir, acctDir, cc, hostTgt, gpc, gop, glease, gowner, glist, gtodo,
                   gfile, gents, gcur, issued, reply, listed>>

ReplyDeleted ==
    /\ gpc = "unlink"
    /\ gtodo = {}
    /\ metaFile[glease] = "absent"
    /\ leaseDir' = leaseDir \ {glease}
    /\ reply' = [reply EXCEPT ![glease] = "deleted"]
    /\ Rest("idle")
    /\ UNCHANGED <<acctDir, cc, metaFile, meta, hostTgt, issued, listed>>

-----------------------------------------------------------------------------
\* A client request or a start of the process.
Request ==
    \/ \E l \in RandomId, A \in SUBSET Account, bad \in BOOLEAN :
          \/ AddKerberosLease(l, A, bad)
          \/ \E u \in User : AddNonDomainJoinedKerberosLease(l, u, A, bad)
    \/ \E l \in TaskId, u \in User, A \in SUBSET Account, bad \in BOOLEAN :
          AddKerberosArnLease(l, u, A, bad)
    \/ \E u \in User : RenewNonDomainJoinedKerberosLease(u)
    \/ RenewKerberosArnLease
    \/ \E l \in Lease : DeleteKerberosLease(l) \/ DeleteMissingLease(l)

Startup ==
    \/ StartWithoutFile
    \/ \E l \in FileId, a \in Account, bad \in BOOLEAN : ProcessCredSpecFile(l, a, bad)

\* A step of the operation in progress.
Progress ==
    \/ HostKinit \/ HostKinitError
    \/ \E t \in Ticket : MakeTicketDir(t) \/ RemoveOnFailure(t) \/ RemoveCache(t)
    \/ FetchTicket \/ FetchTicketError
    \/ ReplyFailed
    \/ OpenMetadataFile \/ OpenMetadataFails \/ ReplyGranted
    \/ \E e \in Entry : RenewTicket(e) \/ RenewTicketFails(e) \/ Kdestroy(e)
                       \/ RenewArnSkipsFile(e) \/ RenewArnOtherUser(e)
    \/ RenewUserKinit \/ ReplyRenewed
    \/ BeginRemoveAll \/ RemoveTicketDir \/ RemoveTicketDirThrows \/ RemoveMetadata
    \/ ReplyDeleted

=============================================================================
