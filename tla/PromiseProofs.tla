---------------------------- MODULE PromiseProofs ----------------------------
(***************************************************************************)
(* What a lease under a random id leaves behind before its client is told  *)
(* (FreshInv).  Then the refinement: every step of the threads of the      *)
(* daemon is a step of LeasePromise or changes nothing in it, for every    *)
(* set of leases, accounts and users, provided metadata files can be       *)
(* opened.  Last, what alone brings about the two races of a deletion with *)
(* the renewal thread.                                                     *)
(***************************************************************************)
EXTENDS LeaseProofs

USE Nothing DEF AddSteps, RenewSteps, DeleteSteps, RestSteps, EntrySteps

-----------------------------------------------------------------------------
(* Leases under a random id: what they leave behind before their client is told. *)

\* The operations that draw a random lease id.
FreshOps == {"AddKerberosLease", "AddNonDomainJoinedKerberosLease"}

\* Nobody was told of the random lease l, or its creation failed.
Untold(l) == l \notin issued \/ reply[l] \in {"none", "failed"}

\* The metadata of such a lease lists nothing, and an id never drawn has no directory.
UntoldIsUnseen ==
    \A l \in RandomId : /\ Untold(l) => meta[l] = {}
                        /\ l \notin issued => l \notin leaseDir

\* The entries the two threads have read and work on.
EntriesInHand ==
    rents \cup ({rcur} \ {NoEntry})
          \cup {e \in gents \cup ({gcur} \ {NoEntry}) : gpc \in RenewSteps}

\* Of a random lease they name, the client was told.
EntriesAreTold ==
    \A e \in EntriesInHand : e.tkt[1] \in RandomId => ~Untold(e.tkt[1])

\* A create operation has made tickets of its list only, and those it still has to
\* make are not there; in its cleanup the ones it has passed are gone.
FreshCreate ==
    gpc \in AddSteps =>
        /\ gpc \in {"host", "mkdir", "fetch"} => gtodo \subseteq glist
        /\ gpc = "fetch" => gcur.tkt \in glist
        /\ gop \in FreshOps /\ gpc \in {"host", "mkdir", "fetch"} => gtodo \cap acctDir = {}
        /\ glease \in RandomId =>
             /\ glease \in issued /\ gop # "ProcessCredSpecFile"
             /\ gpc # "fill" => metaFile[glease] = "absent"
             /\ \A t \in TicketsOf(glease) : cc[t] # "absent" =>
                   t \in (IF gpc = "cleanup" THEN gtodo ELSE glist)

\* A thread at rest has no entry in hand.
FreshFrame == gpc \in RestSteps => gcur = NoEntry

\* The inductive invariant, on top of LeaseInv.
FreshInv ==
    /\ FreshFrame
    /\ UntoldIsUnseen
    /\ EntriesAreTold
    /\ FreshCreate
    /\ FailedLeavesNoTicket

\* What the four create operations have in common when they begin.
Begins(l, op, o, T, bad) ==
    /\ BeginAdd(op, l, o, T, bad)
    /\ T \subseteq TicketsOf(l)
    /\ gpc \in RestSteps
    /\ issued \subseteq issued'
    /\ IF l \in RandomId THEN /\ l \notin issued /\ op # "ProcessCredSpecFile"
                              /\ issued' = issued \cup {l}
                         ELSE op \notin FreshOps /\ issued' = issued

\* Each create operation begins so.
LEMMA CreateBegins ==
    ASSUME Request \/ Startup
    PROVE  \/ \E l \in Lease, op \in AddOps : \E o, T, bad : Begins(l, op, o, T, bad)
           \/ StartWithoutFile
           \/ \E u \in User : RenewNonDomainJoinedKerberosLease(u)
           \/ RenewKerberosArnLease
           \/ \E l \in Lease : DeleteKerberosLease(l) \/ DeleteMissingLease(l)
  <1> USE DEF AddOps, FreshOps
  <1>l. /\ RandomId \subseteq Lease /\ TaskId \subseteq Lease /\ FileId \subseteq Lease
        /\ \A l \in TaskId \cup FileId : l \notin RandomId
    BY KrbDirAssumption DEF Lease
  <1>p. \A l \in Lease, A \in SUBSET Account : {l} \X A \subseteq TicketsOf(l)
    BY DEF Ticket, TicketsOf
  <1>1. ASSUME NEW l \in RandomId, NEW A \in SUBSET Account, NEW bad \in BOOLEAN,
               AddKerberosLease(l, A, bad)
        PROVE  Begins(l, "AddKerberosLease", Host, {l} \X A, bad)
    BY <1>1, <1>l, <1>p DEF AddKerberosLease, generate_lease_id, Begins
  <1>2. ASSUME NEW l \in RandomId, NEW u \in User, NEW A \in SUBSET Account, NEW bad \in BOOLEAN,
               AddNonDomainJoinedKerberosLease(l, u, A, bad)
        PROVE  Begins(l, "AddNonDomainJoinedKerberosLease", u, {l} \X A, bad)
    BY <1>2, <1>l, <1>p DEF AddNonDomainJoinedKerberosLease, generate_lease_id, Begins
  <1>3. ASSUME NEW l \in TaskId, NEW u \in User, NEW A \in SUBSET Account, NEW bad \in BOOLEAN,
               AddKerberosArnLease(l, u, A, bad)
        PROVE  Begins(l, "AddKerberosArnLease", u, {l} \X A, bad)
    BY <1>3, <1>l, <1>p DEF AddKerberosArnLease, Begins
  <1>4. ASSUME NEW l \in FileId, NEW a \in Account, NEW bad \in BOOLEAN,
               ProcessCredSpecFile(l, a, bad)
        PROVE  Begins(l, "ProcessCredSpecFile", Host, IF bad THEN {} ELSE {<<l, a>>}, bad)
    BY <1>4, <1>l DEF ProcessCredSpecFile, Begins, TicketsOf, Ticket
  <1> DEFINE Some == \E l \in Lease, op \in AddOps : \E o, T, bad : Begins(l, op, o, T, bad)
  <1>5. ASSUME NEW l \in Lease, NEW op \in AddOps, NEW o, NEW T, NEW bad, Begins(l, op, o, T, bad)
        PROVE  Some
    BY <1>5
  <1> HIDE DEF Some
  <1>6. ASSUME NEW l \in RandomId, NEW A \in SUBSET Account, NEW bad \in BOOLEAN,
               \/ AddKerberosLease(l, A, bad)
               \/ \E u \in User : AddNonDomainJoinedKerberosLease(l, u, A, bad)
        PROVE  Some
    <2>1. CASE AddKerberosLease(l, A, bad)
      BY <2>1, <1>l, <1>1, <1>5
    <2>2. ASSUME NEW u \in User, AddNonDomainJoinedKerberosLease(l, u, A, bad) PROVE Some
      <3>1. Begins(l, "AddNonDomainJoinedKerberosLease", u, {l} \X A, bad)
        BY <2>2, <1>2
      <3> QED BY <3>1, <1>l, <1>5
    <2> QED BY <1>6, <2>1, <2>2
  <1>7. ASSUME NEW l \in TaskId, NEW u \in User, NEW A \in SUBSET Account, NEW bad \in BOOLEAN,
               AddKerberosArnLease(l, u, A, bad)
        PROVE  Some
    <2>1. Begins(l, "AddKerberosArnLease", u, {l} \X A, bad)
      BY <1>7, <1>3
    <2> QED BY <2>1, <1>l, <1>5
  <1>8. ASSUME NEW l \in FileId, NEW a \in Account, NEW bad \in BOOLEAN,
               ProcessCredSpecFile(l, a, bad)
        PROVE  Some
    BY <1>8, <1>l, <1>4, <1>5
  <1>9. CASE Request
    BY <1>9, <1>6, <1>7 DEF Request, Some
  <1>10. CASE Startup
    BY <1>10, <1>8 DEF Startup, Some
  <1> QED BY <1>9, <1>10

\* The steps of the gRPC thread that leave the replies and the drawn ids alone.
QuietStep ==
    \/ StartWithoutFile \/ RenewKerberosArnLease
    \/ \E u \in User : RenewNonDomainJoinedKerberosLease(u)
    \/ HostKinit \/ HostKinitError \/ FetchTicket \/ FetchTicketError
    \/ OpenMetadataFile \/ RenewUserKinit \/ ReplyRenewed
    \/ BeginRemoveAll \/ RemoveTicketDir \/ RemoveMetadata
    \/ \E t \in Ticket : MakeTicketDir(t) \/ RemoveOnFailure(t) \/ RemoveCache(t)
    \/ \E e \in Entry : RenewTicket(e) \/ RenewTicketFails(e) \/ Kdestroy(e)
                        \/ RenewArnSkipsFile(e) \/ RenewArnOtherUser(e)

\* It leaves them alone.
LEMMA QuietReplies == QuietStep => reply' = reply /\ issued' = issued
  BY DEF QuietStep, StartWithoutFile, RenewKerberosArnLease, RenewNonDomainJoinedKerberosLease,
     BeginRenew, HostKinit, HostKinitError, FetchTicket, FetchTicketError, ToCleanup,
     OpenMetadataFile, RenewUserKinit, ReplyRenewed, BeginRemoveAll, RemoveTicketDir,
     RemoveMetadata, MakeTicketDir, RemoveOnFailure, RemoveCache, RenewTicket, RenewTicketFails,
     Kdestroy, RenewArnSkipsFile, RenewArnOtherUser

\* The steps of the gRPC thread.
LEMMA GrpcCases ==
    ASSUME GrpcStep
    PROVE  \/ \E l \in Lease, op \in AddOps : \E o, T, bad : Begins(l, op, o, T, bad)
           \/ \E l \in Lease : DeleteKerberosLease(l) \/ DeleteMissingLease(l)
           \/ QuietStep
           \/ ReplyFailed \/ OpenMetadataFails \/ ReplyGranted
           \/ RemoveTicketDirThrows \/ ReplyDeleted
  BY CreateBegins DEF GrpcStep, Progress, QuietStep

\* A client that was told of a lease stays told.
LEMMA ToldStays ==
    ASSUME LeaseInv, [Next]_vars, NEW l \in RandomId, Untold(l)'
    PROVE  Untold(l)
  <1>r. l \in Lease /\ reply \in [Lease -> Replies] /\ (gpc \in AddSteps \cup DeleteSteps => glease \in Lease)
    BY DEF Lease, LeaseInv, TypeOK, LeaseServiceTypeOK, Replies
  <1>1. ASSUME reply' = reply, issued' = issued PROVE Untold(l)
    BY <1>1 DEF Untold
  <1>2. ASSUME NEW k \in Lease, NEW op \in AddOps, NEW o, NEW T, NEW bad, Begins(k, op, o, T, bad)
        PROVE  Untold(l)
    <2>1. reply' = [reply EXCEPT ![k] = "none"]
      BY <1>2 DEF Begins, BeginAdd, Reopen
    <2> QED BY <1>2, <1>r, <2>1 DEF Begins, Untold
  <1>3. ASSUME NEW k \in Lease, DeleteKerberosLease(k) \/ DeleteMissingLease(k) PROVE Untold(l)
    <2>1. issued' = issued /\ (reply' = [reply EXCEPT ![k] = "deleting"]
                               \/ reply' = [reply EXCEPT ![k] = "deleted"])
      BY <1>3 DEF DeleteKerberosLease, DeleteMissingLease, Reopen
    <2> QED BY <1>r, <2>1 DEF Untold
  <1>4. CASE ReplyFailed
    <2>1. issued' = issued /\ reply' = [reply EXCEPT ![glease] = "failed"] /\ reply[glease] = "none"
          /\ glease \in Lease
      BY <1>4, <1>r DEF ReplyFailed, LeaseInv, CreateFrame
    <2> QED BY <1>r, <2>1 DEF Untold
  <1>5. CASE OpenMetadataFails \/ ReplyGranted \/ RemoveTicketDirThrows \/ ReplyDeleted
    <2>1. glease \in Lease /\ issued' = issued
          /\ \E r \in {"granted", "partly", "deleted"} : reply' = [reply EXCEPT ![glease] = r]
      BY <1>5, <1>r DEF OpenMetadataFails, ReplyGranted, RemoveTicketDirThrows, ReplyDeleted
    <2> QED BY <1>r, <2>1 DEF Untold
  <1>6. CASE GrpcStep
    BY <1>6, <1>1, <1>2, <1>3, <1>4, <1>5, QuietReplies, GrpcCases
  <1>7. CASE ~GrpcStep
    <2>1. reply' = reply /\ issued' = issued
      BY <1>7 DEF Next, RenewalStep, TicketAges, HostTgtExpires, StartThreads, ProcessDies, vars,
         grpcVars
    <2> QED BY <1>1, <2>1
  <1> QED BY <1>6, <1>7

\* The metadata of an untold lease stays empty, and an undrawn id without a directory.
LEMMA UnseenStays ==
    ASSUME LeaseInv, FreshInv, [Next]_vars
    PROVE  UntoldIsUnseen'
  <1> SUFFICES ASSUME NEW l \in RandomId
               PROVE  (Untold(l)' => meta'[l] = {}) /\ (l \notin issued' => l \notin leaseDir')
    BY DEF UntoldIsUnseen
  <1>r. /\ l \in Lease
        /\ leaseDir \subseteq Lease /\ meta \in [Lease -> SUBSET Entry]
        /\ gpc \in AddSteps \cup DeleteSteps => glease \in Lease
    BY DEF Lease, LeaseInv, TypeOK, KrbDirTypeOK, LeaseServiceTypeOK
  <1>u. /\ Untold(l)' => meta[l] = {}
        /\ l \notin issued => l \notin leaseDir
    BY ToldStays DEF FreshInv, UntoldIsUnseen
  <1>i. issued \subseteq issued'
    <2>1. CASE GrpcStep
      BY <2>1, GrpcCases, QuietReplies DEF Begins, DeleteKerberosLease, DeleteMissingLease,
         ReplyFailed, OpenMetadataFails, ReplyGranted, RemoveTicketDirThrows, ReplyDeleted
    <2>2. CASE ~GrpcStep
      BY <2>2 DEF Next, RenewalStep, TicketAges, HostTgtExpires, StartThreads, ProcessDies, vars,
         grpcVars
    <2> QED BY <2>1, <2>2
  <1>1. ASSUME meta'[l] \in {meta[l], {}}, l \in leaseDir' => l \in leaseDir \/ l \in issued
        PROVE  (Untold(l)' => meta'[l] = {}) /\ (l \notin issued' => l \notin leaseDir')
    BY <1>1, <1>u, <1>i
  <1>g. gpc \in AddSteps /\ l = glease => l \in issued
    BY DEF FreshInv, FreshCreate
  <1>2. ASSUME NEW t \in Ticket, MakeTicketDir(t)
        PROVE  meta'[l] = meta[l] /\ (l \in leaseDir' => l \in leaseDir \/ l \in issued)
    <2>1. gpc = "mkdir" /\ leaseDir' = leaseDir \cup {t[1]} /\ meta' = meta /\ t[1] = glease
      BY <1>2 DEF MakeTicketDir, LeaseInv, CreateFrame, TicketsOf
    <2> QED BY <2>1, <1>g
  <1>3. CASE OpenMetadataFile
    <2>1. gpc = "open" /\ leaseDir' = leaseDir \cup {glease} /\ meta' = [meta EXCEPT ![glease] = {}]
      BY <1>3 DEF OpenMetadataFile, OpenMetadata
    <2> QED BY <1>1, <1>g, <1>r, <2>1
  <1>4. CASE OpenMetadataFails
    <2>1. gpc = "open" /\ leaseDir' = leaseDir \cup {glease} /\ meta' = meta
      BY <1>4 DEF OpenMetadataFails
    <2> QED BY <1>1, <1>g, <1>r, <2>1
  <1>5. CASE ReplyGranted
    <2>1. /\ gpc = "fill" /\ leaseDir' = leaseDir /\ issued' = issued
          /\ \A k \in Lease : k # glease => meta'[k] = meta[k]
          /\ reply'[glease] = "granted"
      BY <1>5, <1>r DEF ReplyGranted, FillMetadata, LeaseInv, TypeOK, LeaseServiceTypeOK, KrbDirTypeOK
    <2>2. l = glease => ~Untold(l)'
      BY <2>1, <1>g DEF Untold
    <2> QED BY <1>u, <1>r, <2>1, <2>2
  <1>6. CASE RemoveMetadata
    <2>1. leaseDir' = leaseDir /\ meta' = [meta EXCEPT ![glease] = {}] /\ glease \in Lease
      BY <1>6, <1>r DEF RemoveMetadata
    <2> QED BY <1>1, <1>r, <2>1
  <1>7. CASE ReplyDeleted
    <2>1. leaseDir' \subseteq leaseDir /\ meta' = meta
      BY <1>7 DEF ReplyDeleted
    <2> QED BY <1>1, <2>1
  <1>8. ASSUME meta' = meta, leaseDir' = leaseDir
        PROVE  (Untold(l)' => meta'[l] = {}) /\ (l \notin issued' => l \notin leaseDir')
    BY <1>1, <1>8
  <1>9. CASE Request \/ Startup
    <2>1. meta' = meta /\ leaseDir' = leaseDir
      BY <1>9, CreateBegins DEF Begins, BeginAdd, StartWithoutFile,
         RenewNonDomainJoinedKerberosLease, RenewKerberosArnLease, BeginRenew, DeleteKerberosLease,
         DeleteMissingLease, krbDirVars
    <2> QED BY <1>8, <2>1
  <1>10. CASE \/ HostKinit \/ HostKinitError \/ FetchTicket \/ FetchTicketError \/ ReplyFailed
              \/ RenewUserKinit \/ ReplyRenewed
              \/ BeginRemoveAll \/ RemoveTicketDir \/ RemoveTicketDirThrows
              \/ \E t \in Ticket : RemoveOnFailure(t) \/ RemoveCache(t)
              \/ \E e \in Entry : RenewTicket(e) \/ RenewTicketFails(e) \/ Kdestroy(e)
                                  \/ RenewArnSkipsFile(e) \/ RenewArnOtherUser(e)
    <2>1. meta' = meta /\ leaseDir' = leaseDir
      BY <1>10 DEF HostKinit, HostKinitError, FetchTicket, FetchTicketError, ToCleanup, ReplyFailed,
         RenewUserKinit, ReplyRenewed, BeginRemoveAll, RemoveTicketDir, RemoveTicketDirThrows,
         RemoveOnFailure, RemoveCache, RenewTicket, RenewTicketFails, Kdestroy, RenewArnSkipsFile,
         RenewArnOtherUser, krbDirVars
    <2> QED BY <1>8, <2>1
  <1>11. CASE GrpcStep
    BY <1>11, <1>1, <1>2, <1>3, <1>4, <1>5, <1>6, <1>7, <1>9, <1>10 DEF GrpcStep, Progress
  <1>12. CASE RenewalStep \/ UNCHANGED vars \/ HostTgtExpires \/ StartThreads \/ ProcessDies
              \/ \E t \in Ticket : TicketAges(t)
    <2>1. meta' = meta /\ leaseDir' = leaseDir
      BY <1>12 DEF RenewalStep, RenewalNext, RenewalStarts, ScanLease, ScanTicketDir, ScanThrows,
           ScanEnds, ReadMetadata, RoundEnds, CheckTicket, RenewalFetch, RenewalFetchFails,
           RenewalHostKinit, RenewalHostKinitError, TicketAges, HostTgtExpires, StartThreads,
           ProcessDies, vars, krbDirVars
    <2> QED BY <1>8, <2>1
  <1> QED BY <1>11, <1>12 DEF Next

\* An entry read from a metadata file is told of.
LEMMA ReadIsTold ==
    ASSUME LeaseInv, FreshInv, NEW l \in Lease, NEW e \in read_meta_data_json(l), e.tkt[1] \in RandomId
    PROVE  ~Untold(e.tkt[1])
  <1>1. e \in meta[l]
    BY DEF read_meta_data_json
  <1>2. e.tkt[1] = l
    BY <1>1 DEF LeaseInv, OwnEntries
  <1> QED BY <1>1, <1>2 DEF FreshInv, UntoldIsUnseen

\* The threads work on entries of told leases only.
LEMMA ToldEntries ==
    ASSUME LeaseInv, FreshInv, [Next]_vars
    PROVE  EntriesAreTold'
  <1> SUFFICES ASSUME NEW e \in EntriesInHand', e.tkt[1] \in RandomId
               PROVE  ~Untold(e.tkt[1])
    BY ToldStays DEF EntriesAreTold
  <1> DEFINE Read == \E l \in Lease : e \in read_meta_data_json(l)
  <1> SUFFICES e \in EntriesInHand \/ Read
    BY ReadIsTold DEF FreshInv, EntriesAreTold
  <1>1. CASE UNCHANGED renewalVars /\ gpc' \notin RenewSteps
    BY <1>1 DEF EntriesInHand, renewalVars
  <1>2. CASE UNCHANGED <<grpcVars, renewalVars>>
    BY <1>2 DEF EntriesInHand, renewalVars, grpcVars
  <1>3. CASE RenewalClear /\ gpc' \notin RenewSteps
    BY <1>3 DEF EntriesInHand, RenewalClear
  <1>4. CASE RenewalStep
    <2>0. gpc' = gpc /\ gents' = gents /\ gcur' = gcur
      BY <1>4 DEF RenewalStep, grpcVars
    <2>1. ASSUME rents' \subseteq rents, rcur' \in {rcur, NoEntry} \cup rents PROVE e \in EntriesInHand
      BY <2>0, <2>1 DEF EntriesInHand
    <2>2. ASSUME NEW l \in Lease, ReadMetadata(l) PROVE e \in EntriesInHand \/ Read
      BY <2>0, <2>2 DEF ReadMetadata, EntriesInHand
    <2>3. ASSUME NEW x \in Entry, CheckTicket(x) PROVE e \in EntriesInHand
      BY <2>1, <2>3 DEF CheckTicket
    <2>4. CASE \/ RenewalStarts \/ ScanThrows \/ ScanEnds \/ RoundEnds \/ RenewalFetch
               \/ RenewalFetchFails \/ RenewalHostKinit \/ RenewalHostKinitError
               \/ \E l \in Lease : ScanLease(l)
               \/ \E t \in Ticket : ScanTicketDir(t)
      <3>1. rents' \subseteq rents /\ rcur' \in {rcur, NoEntry}
        BY <2>4 DEF RenewalStarts, ScanLease, ScanTicketDir, ScanThrows, ScanEnds, RoundEnds,
           RenewalFetch, RenewalFetchFails, RenewalHostKinit, RenewalHostKinitError, RenewalClear,
           NextTry
      <3> QED BY <2>1, <3>1
    <2> QED BY <1>4, <2>2, <2>3, <2>4 DEF RenewalStep, RenewalNext
  <1>5. CASE GrpcStep
    <2>0. UNCHANGED renewalVars
      BY <1>5 DEF GrpcStep
    <2>1. ASSUME gpc \in RenewSteps, gents' \subseteq gents, gcur' \in {gcur, NoEntry} \cup gents
          PROVE  e \in EntriesInHand
      BY <2>0, <2>1 DEF EntriesInHand, renewalVars
    <2>2. CASE Request \/ Startup
      <3>1. CASE gpc' \notin RenewSteps
        BY <1>1, <2>0, <3>1
      <3>2. CASE gpc' \in RenewSteps
        <4>1. gpc \in RestSteps /\ gcur' = gcur /\ gents' \subseteq AllEntries
          BY <2>2, <3>2, CreateBegins DEF Begins, BeginAdd, StartWithoutFile,
             RenewNonDomainJoinedKerberosLease, RenewKerberosArnLease, BeginRenew,
             DeleteKerberosLease, DeleteMissingLease
        <4>2. gcur = NoEntry
          BY <4>1 DEF FreshInv, FreshFrame
        <4>3. e \in EntriesInHand \/ e \in AllEntries
          BY <2>0, <4>1, <4>2 DEF EntriesInHand, renewalVars
        <4> QED BY <4>3 DEF AllEntries, get_meta_data_file_paths
      <3> QED BY <3>1, <3>2
    <2>3. CASE \/ RenewUserKinit \/ ReplyRenewed
               \/ \E x \in Entry : RenewTicket(x) \/ RenewTicketFails(x)
                                   \/ RenewArnSkipsFile(x) \/ RenewArnOtherUser(x)
      <3>1. CASE ReplyRenewed
        BY <1>1, <2>0, <3>1 DEF ReplyRenewed, Rest
      <3>2. CASE ~ReplyRenewed
        <4>1. gpc \in RenewSteps /\ gents' \subseteq gents /\ gcur' \in {gcur, NoEntry} \cup gents
          BY <2>3, <3>2 DEF RenewUserKinit, RenewTicket, RenewTicketFails, RenewArnSkipsFile,
             RenewArnOtherUser
        <4> QED BY <2>1, <4>1
      <3> QED BY <3>1, <3>2
    <2>4. CASE \/ HostKinit \/ HostKinitError \/ FetchTicket \/ FetchTicketError \/ ReplyFailed
               \/ OpenMetadataFile \/ OpenMetadataFails \/ ReplyGranted
               \/ BeginRemoveAll \/ RemoveTicketDir \/ RemoveTicketDirThrows \/ RemoveMetadata
               \/ ReplyDeleted
               \/ \E t \in Ticket : MakeTicketDir(t) \/ RemoveOnFailure(t) \/ RemoveCache(t)
               \/ \E x \in Entry : Kdestroy(x)
      <3>1. gpc' \notin RenewSteps
        BY <2>4 DEF HostKinit, HostKinitError, FetchTicket, FetchTicketError, ToCleanup, ReplyFailed,
           OpenMetadataFile, OpenMetadataFails, ReplyGranted, BeginRemoveAll, RemoveTicketDir,
           RemoveTicketDirThrows, RemoveMetadata, ReplyDeleted, MakeTicketDir, RemoveOnFailure,
           RemoveCache, Kdestroy, Rest, EndPc
      <3> QED BY <1>1, <2>0, <3>1
    <2> QED BY <1>5, <2>2, <2>3, <2>4 DEF GrpcStep, Progress
  <1>6. CASE HostTgtExpires \/ UNCHANGED vars \/ \E t \in Ticket : TicketAges(t)
    BY <1>2, <1>6 DEF HostTgtExpires, TicketAges, vars
  <1>7. CASE StartThreads \/ ProcessDies
    BY <1>3, <1>7 DEF StartThreads, ProcessDies, Rest
  <1> QED BY <1>4, <1>5, <1>6, <1>7 DEF Next

\* The thread leaves its entry behind when it goes to rest.
LEMMA FrameStays ==
    ASSUME FreshFrame, [Next]_vars
    PROVE  FreshFrame'
  <1>1. CASE Request \/ Startup
    BY <1>1, CreateBegins DEF FreshFrame, Begins, BeginAdd, StartWithoutFile,
       RenewNonDomainJoinedKerberosLease, RenewKerberosArnLease, BeginRenew,
       DeleteKerberosLease, DeleteMissingLease
  <1>2. CASE Progress
    <2>1. CASE gpc' \notin RestSteps
      BY <2>1 DEF FreshFrame
    <2>2. CASE gpc' \in RestSteps
      <3>1. gcur' = NoEntry
        BY <1>2, <2>2 DEF Progress, HostKinit, HostKinitError, FetchTicket, FetchTicketError,
           ToCleanup, ReplyFailed, OpenMetadataFile, OpenMetadataFails, ReplyGranted,
           BeginRemoveAll, RemoveTicketDir, RemoveTicketDirThrows, RemoveMetadata, ReplyDeleted,
           MakeTicketDir, RemoveOnFailure, RemoveCache, Kdestroy, RenewUserKinit, ReplyRenewed,
           RenewTicket, RenewTicketFails, RenewArnSkipsFile, RenewArnOtherUser, Rest
      <3> QED BY <3>1 DEF FreshFrame
    <2> QED BY <2>1, <2>2
  <1>3. CASE ~GrpcStep
    BY <1>3 DEF FreshFrame, Next, RenewalStep, TicketAges, HostTgtExpires, StartThreads,
       ProcessDies, Rest, vars, grpcVars
  <1> QED BY <1>1, <1>2, <1>3 DEF GrpcStep

-----------------------------------------------------------------------------
\* A fetch for an entry in hand touches no ticket of an untold lease.
LEMMA FetchOfTold ==
    ASSUME LeaseInv, FreshInv, NEW e \in EntriesInHand, e \in Entry, fetch_ok(e),
           NEW l \in RandomId, Untold(l), NEW t \in TicketsOf(l)
    PROVE  cc'[t] = cc[t]
  <1>1. t \in Ticket /\ t[1] = l
    BY DEF TicketsOf
  <1>2. e.tkt # t
    BY <1>1 DEF FreshInv, EntriesAreTold
  <1> QED BY <1>1, <1>2 DEF fetch_ok, LeaseInv, TypeOK, KrbDirTypeOK

\* What a step that works on no create operation does to the caches.
LEMMA CachesOfOthers ==
    ASSUME LeaseInv, FreshInv, NEW l \in RandomId, Untold(l), NEW t \in TicketsOf(l),
           \/ RenewalStep \/ (\E s \in Ticket : TicketAges(s))
           \/ \E e \in Entry : RenewTicket(e)
    PROVE  cc[t] = "absent" => cc'[t] = "absent"
  <1>t. t \in Ticket /\ cc \in [Ticket -> Cache]
    BY DEF TicketsOf, LeaseInv, TypeOK, KrbDirTypeOK
  <1>1. CASE RenewalStep
    <2>1. cc' = cc \/ (rcur \in Entry /\ fetch_ok(rcur))
      BY <1>1, RenewalCaches DEF RenewalStep, LeaseInv
    <2>2. rcur \in Entry => rcur \in EntriesInHand
      BY DEF EntriesInHand
    <2> QED BY <2>1, <2>2, FetchOfTold
  <1>2. ASSUME NEW s \in Ticket, TicketAges(s) PROVE cc[t] = "absent" => cc'[t] = "absent"
    BY <1>2, <1>t DEF TicketAges
  <1>3. ASSUME NEW e \in Entry, RenewTicket(e) PROVE cc'[t] = cc[t]
    <2>1. e \in EntriesInHand /\ fetch_ok(e)
      BY <1>3 DEF RenewTicket, EntriesInHand
    <2> QED BY <2>1, FetchOfTold
  <1> QED BY <1>1, <1>2, <1>3

\* A step that leaves the frame of the gRPC thread, the directories and the metadata
\* of its lease alone and makes no ticket of an untold lease.
LEMMA CreateKept ==
    ASSUME LeaseInv, FreshInv, UNCHANGED <<gpc, gop, glease, glist, gtodo, gcur, acctDir, metaFile>>,
           issued' = issued, reply' = reply,
           \A l \in RandomId : Untold(l) =>
               \A t \in TicketsOf(l) : cc[t] = "absent" => cc'[t] = "absent"
    PROVE  FreshCreate' /\ FailedLeavesNoTicket'
  <1>1. FreshCreate'
    <2> SUFFICES ASSUME gpc \in AddSteps PROVE FreshCreate'
      BY DEF FreshCreate
    <2>1. reply[glease] = "none"
      BY DEF LeaseInv, CreateFrame
    <2>2. glease \in RandomId => \A t \in TicketsOf(glease) : cc'[t] # "absent" => cc[t] # "absent"
      BY <2>1 DEF Untold
    <2> QED BY <2>2 DEF FreshInv, FreshCreate, TicketsOf
  <1>2. FailedLeavesNoTicket'
    BY DEF FreshInv, FailedLeavesNoTicket, Untold, TicketsOf
  <1> QED BY <1>1, <1>2

\* The failed leases of a step that touches the caches and the metadata of glease only,
\* of which the client has heard nothing yet or which is being deleted.
LEMMA FailedKept ==
    ASSUME LeaseInv, FreshInv, gpc \in AddSteps \cup DeleteSteps,
           \A l \in Lease : reply'[l] = "failed" =>
               /\ l # glease
               /\ reply[l] = "failed",
           \A l \in Lease \ {glease} : metaFile'[l] = metaFile[l],
           \A t \in Ticket : t[1] # glease => cc'[t] = cc[t]
    PROVE  FailedLeavesNoTicket'
  <1> SUFFICES ASSUME NEW l \in RandomId, reply'[l] = "failed"
               PROVE  metaFile'[l] = "absent" /\ \A t \in TicketsOf(l) : cc'[t] = "absent"
    BY DEF FailedLeavesNoTicket, TicketsOf
  <1>1. l \in Lease /\ l # glease /\ reply[l] = "failed"
    BY DEF Lease
  <1> QED BY <1>1 DEF FreshInv, FailedLeavesNoTicket, TicketsOf

\* A create operation begins: its tickets are not there when its id is fresh.
LEMMA CreateBegin ==
    ASSUME LeaseInv, FreshInv, NEW l \in Lease, NEW op \in AddOps, NEW o, NEW T, NEW bad,
           Begins(l, op, o, T, bad)
    PROVE  FreshCreate' /\ FailedLeavesNoTicket'
  <1>1. /\ UNCHANGED <<leaseDir, acctDir, cc, metaFile>>
        /\ reply' = [reply EXCEPT ![l] = "none"]
        /\ gpc' \in {"cleanup", "open", "host"} /\ (gpc' = "open" => T = {})
        /\ glease' = l /\ glist' = T /\ gtodo' = T /\ gop' = op
    BY DEF Begins, BeginAdd, Reopen, krbDirVars
  <1>2. reply \in [Lease -> Replies] /\ T \subseteq Ticket
    BY DEF LeaseInv, TypeOK, LeaseServiceTypeOK, Replies, Begins, TicketsOf
  <1>3. ASSUME l \in RandomId
        PROVE  /\ metaFile[l] = "absent"
               /\ \A t \in TicketsOf(l) : t \notin acctDir /\ cc[t] = "absent"
    <2>1. l \notin leaseDir
      BY <1>3 DEF Begins, FreshInv, UntoldIsUnseen
    <2> QED BY <2>1 DEF LeaseInv, DirectoryTree, TicketsOf
  <1>4. FreshCreate'
    <2>1. op \in FreshOps => T \cap acctDir = {}
      BY <1>3 DEF Begins
    <2>2. l \in RandomId => l \in issued' /\ op # "ProcessCredSpecFile"
      BY DEF Begins
    <2>3. l \in RandomId => \A t \in TicketsOf(l)' : cc'[t] = "absent"
      BY <1>1, <1>3 DEF TicketsOf
    <2> QED BY <1>1, <1>3, <2>1, <2>2, <2>3 DEF FreshCreate
  <1>5. FailedLeavesNoTicket'
    BY <1>1, <1>2 DEF FreshInv, FailedLeavesNoTicket, TicketsOf, Lease
  <1> QED BY <1>4, <1>5

\* The steps of a create operation.
LEMMA CreateSteps ==
    ASSUME LeaseInv, FreshInv,
           \/ HostKinit \/ HostKinitError \/ FetchTicket \/ FetchTicketError \/ ReplyFailed
           \/ OpenMetadataFile \/ OpenMetadataFails \/ ReplyGranted
           \/ \E t \in Ticket : MakeTicketDir(t) \/ RemoveOnFailure(t)
    PROVE  FreshCreate' /\ FailedLeavesNoTicket'
  <1>t. /\ reply \in [Lease -> Replies] /\ cc \in [Ticket -> Cache]
        /\ metaFile \in [Lease -> {"absent", "torn", "ok"}]
    BY DEF LeaseInv, TypeOK, LeaseServiceTypeOK, KrbDirTypeOK, Replies
  <1>g. gpc \in AddSteps
    BY DEF HostKinit, HostKinitError, FetchTicket, FetchTicketError, ReplyFailed, OpenMetadataFile,
       OpenMetadataFails, ReplyGranted, MakeTicketDir, RemoveOnFailure
  <1>f. /\ glease \in Lease /\ reply[glease] = "none"
        /\ glist \subseteq TicketsOf(glease) /\ gtodo \subseteq TicketsOf(glease)
    BY <1>g DEF LeaseInv, CreateFrame, TypeOK, LeaseServiceTypeOK
  <1>r. ASSUME gpc' \in RestSteps PROVE FreshCreate'
    BY <1>r DEF FreshCreate
  <1>k. ASSUME \/ reply' = reply \/ reply' = [reply EXCEPT ![glease] = "granted"],
               \A l \in Lease \ {glease} : metaFile'[l] = metaFile[l],
               \A t \in Ticket : t[1] # glease => cc'[t] = cc[t]
        PROVE  FailedLeavesNoTicket'
    BY <1>k, <1>t, <1>g, <1>f, FailedKept
  <1>1. CASE HostKinit
    <2>1. /\ gpc = "host" /\ gpc' = "mkdir"
          /\ UNCHANGED <<acctDir, cc, metaFile, gop, glease, glist, gtodo, issued, reply>>
      BY <1>1 DEF HostKinit
    <2>2. FreshCreate'
      BY <2>1 DEF FreshInv, FreshCreate, TicketsOf
    <2> QED BY <1>k, <2>1, <2>2
  <1>2. CASE HostKinitError \/ FetchTicketError
    <2>1. /\ gpc \in {"host", "fetch"} /\ gpc' = "cleanup"
          /\ UNCHANGED <<acctDir, cc, metaFile, gop, glease, glist, issued, reply>>
          /\ gop # "ProcessCredSpecFile" => gtodo' = glist
      BY <1>2 DEF HostKinitError, FetchTicketError, ToCleanup, krbDirVars
    <2>2. FreshCreate'
      BY <2>1 DEF FreshInv, FreshCreate, TicketsOf
    <2> QED BY <1>k, <2>1, <2>2
  <1>3. CASE FetchTicket
    <2>1. /\ gpc = "fetch" /\ gpc' \in {"open", "host"} /\ gcur \in Entry
          /\ UNCHANGED <<acctDir, metaFile, gop, glease, glist, gtodo, issued, reply>>
          /\ cc' = [cc EXCEPT ![gcur.tkt] = "fresh"]
      BY <1>3 DEF FetchTicket, fetch_ok, LeaseInv, TypeOK, LeaseServiceTypeOK
    <2>2. gcur.tkt \in glist /\ gcur.tkt \in Ticket /\ gcur.tkt[1] = glease
      BY <2>1, <1>f DEF FreshInv, FreshCreate, TicketsOf
    <2>3. FreshCreate'
      <3>1. \A t \in TicketsOf(glease) : cc'[t] # "absent" => cc[t] # "absent" \/ t \in glist
        BY <2>1, <2>2, <1>t DEF TicketsOf
      <3> QED BY <2>1, <3>1 DEF FreshInv, FreshCreate, TicketsOf
    <2>4. \A t \in Ticket : t[1] # glease => cc'[t] = cc[t]
      BY <2>1, <2>2, <1>t
    <2> QED BY <1>k, <2>1, <2>3, <2>4
  <1>4. CASE ReplyFailed
    <2>1. /\ gpc = "cleanup" /\ gtodo = {} /\ UNCHANGED <<cc, metaFile>>
          /\ reply' = [reply EXCEPT ![glease] = "failed"] /\ gpc' \in RestSteps
      BY <1>4 DEF ReplyFailed, Rest, EndPc, krbDirVars
    <2>2. glease \in RandomId => /\ metaFile[glease] = "absent"
                                 /\ \A t \in TicketsOf(glease) : cc[t] = "absent"
      BY <2>1 DEF FreshInv, FreshCreate
    <2>3. FailedLeavesNoTicket'
      <3> SUFFICES ASSUME NEW l \in RandomId, reply'[l] = "failed"
                   PROVE  metaFile'[l] = "absent" /\ \A t \in TicketsOf(l) : cc'[t] = "absent"
        BY DEF FailedLeavesNoTicket, TicketsOf
      <3>1. l \in Lease
        BY DEF Lease
      <3>2. CASE l = glease
        BY <2>1, <2>2, <3>2
      <3>3. CASE l # glease
        BY <1>t, <2>1, <3>1, <3>3 DEF FreshInv, FailedLeavesNoTicket
      <3> QED BY <3>2, <3>3
    <2> QED BY <1>r, <2>1, <2>3
  <1>5. CASE OpenMetadataFile
    <2>1. /\ gpc = "open" /\ gpc' = "fill"
          /\ UNCHANGED <<cc, gop, glease, glist, issued, reply>>
          /\ metaFile' = [metaFile EXCEPT ![glease] = "torn"]
      BY <1>5 DEF OpenMetadataFile, OpenMetadata
    <2>2. FreshCreate'
      BY <2>1 DEF FreshInv, FreshCreate, TicketsOf
    <2> QED BY <1>k, <1>t, <2>1, <2>2
  <1>6. CASE OpenMetadataFails \/ ReplyGranted
    <2>1. /\ gpc' \in RestSteps /\ reply' = [reply EXCEPT ![glease] = "granted"] /\ cc' = cc
          /\ \A l \in Lease \ {glease} : metaFile'[l] = metaFile[l]
      BY <1>6, <1>t DEF OpenMetadataFails, ReplyGranted, FillMetadata, Rest, EndPc
    <2> QED BY <1>k, <1>r, <2>1
  <1>7. ASSUME NEW t \in Ticket, MakeTicketDir(t)
        PROVE  FreshCreate' /\ FailedLeavesNoTicket'
    <2>1. /\ gpc = "mkdir" /\ t \in gtodo /\ gpc' = "fetch" /\ gcur' = CacheEntry(t)
          /\ UNCHANGED <<metaFile, gop, glease, glist, issued, reply>>
          /\ acctDir' = acctDir \cup {t} /\ gtodo' = gtodo \ {t}
          /\ cc' = cc \/ cc' = [cc EXCEPT ![t] = "empty"]
      BY <1>7 DEF MakeTicketDir
    <2>2. t \in glist /\ t[1] = glease /\ gcur'.tkt = t
      BY <2>1, <1>f DEF FreshInv, FreshCreate, TicketsOf, CacheEntry
    <2>3. \A s \in Ticket : s # t => cc'[s] = cc[s]
      BY <2>1, <1>t
    <2>4. FreshCreate'
      <3>1. gop \in FreshOps => gtodo' \cap acctDir' = {}
        BY <2>1 DEF FreshInv, FreshCreate
      <3>2. gtodo' \subseteq glist
        BY <2>1 DEF FreshInv, FreshCreate
      <3>3. glease \in RandomId =>
              /\ glease \in issued /\ gop # "ProcessCredSpecFile" /\ metaFile[glease] = "absent"
              /\ \A s \in TicketsOf(glease) : cc'[s] # "absent" => s \in glist
        BY <2>1, <2>2, <2>3 DEF FreshInv, FreshCreate, TicketsOf
      <3>4. \A s \in TicketsOf(glease)' : s \in TicketsOf(glease)
        BY <2>1 DEF TicketsOf
      <3> QED BY <2>1, <2>2, <3>1, <3>2, <3>3, <3>4 DEF FreshCreate
    <2> QED BY <1>k, <2>1, <2>2, <2>3, <2>4
  <1>8. ASSUME NEW t \in Ticket, RemoveOnFailure(t)
        PROVE  FreshCreate' /\ FailedLeavesNoTicket'
    <2>1. /\ gpc = "cleanup" /\ t \in gtodo /\ gtodo' = gtodo \ {t}
          /\ UNCHANGED <<metaFile, gpc, gop, glease, glist, issued, reply>>
          /\ cc' = [cc EXCEPT ![t] = "absent"]
      BY <1>8 DEF RemoveOnFailure
    <2>2. t[1] = glease
      BY <2>1, <1>f DEF TicketsOf
    <2>3. FreshCreate'
      <3>1. \A s \in TicketsOf(glease) : cc'[s] # "absent" => cc[s] # "absent" /\ s # t
        BY <2>1, <1>t DEF TicketsOf
      <3> QED BY <2>1, <3>1 DEF FreshInv, FreshCreate, TicketsOf
    <2>4. \A s \in Ticket : s[1] # glease => cc'[s] = cc[s]
      BY <2>1, <2>2, <1>t
    <2> QED BY <1>k, <2>1, <2>3, <2>4
  <1> QED BY <1>1, <1>2, <1>3, <1>4, <1>5, <1>6, <1>7, <1>8

\* The steps of a delete or a renew operation and of the rest of the daemon.
LEMMA OtherSteps ==
    ASSUME LeaseInv, FreshInv, [Next]_vars,
           ~ \/ \E l \in Lease, op \in AddOps : \E o, T, bad : Begins(l, op, o, T, bad)
             \/ HostKinit \/ HostKinitError \/ FetchTicket \/ FetchTicketError \/ ReplyFailed
             \/ OpenMetadataFile \/ OpenMetadataFails \/ ReplyGranted
             \/ \E t \in Ticket : MakeTicketDir(t) \/ RemoveOnFailure(t)
    PROVE  FreshCreate' /\ FailedLeavesNoTicket'
  <1>t. /\ reply \in [Lease -> Replies] /\ cc \in [Ticket -> Cache]
        /\ metaFile \in [Lease -> {"absent", "torn", "ok"}]
    BY DEF LeaseInv, TypeOK, LeaseServiceTypeOK, KrbDirTypeOK, Replies
  \* The disk is as it was or poorer, and no lease becomes a failed one.
  <1>f. ASSUME \A l \in Lease : /\ reply'[l] = "failed" => reply[l] = "failed"
                                /\ metaFile'[l] \in {metaFile[l], "absent"},
               \A t \in Ticket : cc'[t] \in {cc[t], "absent"},
               gpc' \notin AddSteps
        PROVE  FreshCreate' /\ FailedLeavesNoTicket'
    <2>1. FreshCreate'
      BY <1>f DEF FreshCreate
    <2>2. FailedLeavesNoTicket'
      BY <1>f DEF FreshInv, FailedLeavesNoTicket, TicketsOf, Lease
    <2> QED BY <2>1, <2>2
  <1>1. CASE RenewalStep \/ HostTgtExpires \/ UNCHANGED vars \/ \E t \in Ticket : TicketAges(t)
    <2>1. UNCHANGED <<gpc, gop, glease, glist, gtodo, gcur, acctDir, metaFile, issued, reply>>
      BY <1>1 DEF RenewalStep, RenewalNext, RenewalStarts, ScanLease, ScanTicketDir, ScanThrows,
           ScanEnds, ReadMetadata, RoundEnds, CheckTicket, RenewalFetch, RenewalFetchFails,
           RenewalHostKinit, RenewalHostKinitError, TicketAges, HostTgtExpires, vars, krbDirVars,
           grpcVars
    <2>2. CASE HostTgtExpires \/ UNCHANGED vars
      <3>1. cc' = cc
        BY <2>2 DEF HostTgtExpires, vars, krbDirVars
      <3> QED BY <2>1, <3>1, CreateKept
    <2>3. CASE RenewalStep \/ \E t \in Ticket : TicketAges(t)
      BY <2>1, <2>3, CreateKept, CachesOfOthers
    <2> QED BY <1>1, <2>2, <2>3
  <1>2. CASE StartThreads \/ ProcessDies
    <2>1. UNCHANGED <<cc, metaFile, reply>> /\ gpc' \notin AddSteps
      BY <1>2 DEF StartThreads, ProcessDies, Rest, krbDirVars
    <2> QED BY <1>f, <2>1
  <1>3. CASE Request \/ Startup
    <2>1. UNCHANGED <<cc, metaFile>> /\ gpc' \notin AddSteps
          /\ \A l \in Lease : reply'[l] = "failed" => reply[l] = "failed"
      BY <1>3, <1>t, CreateBegins DEF StartWithoutFile, RenewNonDomainJoinedKerberosLease,
         RenewKerberosArnLease, BeginRenew, DeleteKerberosLease, DeleteMissingLease, Reopen,
         krbDirVars
    <2> QED BY <1>f, <2>1
  <1>4. ASSUME NEW e \in Entry, RenewTicket(e) PROVE FreshCreate' /\ FailedLeavesNoTicket'
    <2>1. gpc' = "renew" /\ UNCHANGED <<metaFile, reply>>
      BY <1>4 DEF RenewTicket
    <2>2. FailedLeavesNoTicket'
      BY <1>4, <2>1, CachesOfOthers DEF FreshInv, FailedLeavesNoTicket, TicketsOf, Untold
    <2>3. FreshCreate'
      BY <2>1 DEF FreshCreate
    <2> QED BY <2>2, <2>3
  <1>5. CASE \/ RenewUserKinit \/ ReplyRenewed \/ BeginRemoveAll \/ RemoveTicketDir
             \/ RemoveTicketDirThrows \/ RemoveMetadata \/ ReplyDeleted
             \/ \E t \in Ticket : RemoveCache(t)
             \/ \E e \in Entry : RenewTicketFails(e) \/ Kdestroy(e)
                                 \/ RenewArnSkipsFile(e) \/ RenewArnOtherUser(e)
    <2>1. gpc' \notin AddSteps
      BY <1>5 DEF RenewUserKinit, ReplyRenewed, BeginRemoveAll, RemoveTicketDir,
         RemoveTicketDirThrows, RemoveMetadata, ReplyDeleted, RemoveCache, RenewTicketFails,
         Kdestroy, RenewArnSkipsFile, RenewArnOtherUser, Rest
    <2>2. \A t \in Ticket : cc'[t] \in {cc[t], "absent"}
      BY <1>5, <1>t DEF RenewUserKinit, ReplyRenewed, BeginRemoveAll, RemoveTicketDir,
         RemoveTicketDirThrows, RemoveMetadata, ReplyDeleted, RemoveCache, RenewTicketFails,
         Kdestroy, RenewArnSkipsFile, RenewArnOtherUser, krbDirVars
    <2>3. \A l \in Lease : metaFile'[l] \in {metaFile[l], "absent"}
      BY <1>5, <1>t DEF RenewUserKinit, ReplyRenewed, BeginRemoveAll, RemoveTicketDir,
         RemoveTicketDirThrows, RemoveMetadata, ReplyDeleted, RemoveCache, RenewTicketFails,
         Kdestroy, RenewArnSkipsFile, RenewArnOtherUser, krbDirVars
    <2>4. \A l \in Lease : reply'[l] = "failed" => reply[l] = "failed"
      BY <1>5, <1>t DEF RenewUserKinit, ReplyRenewed, BeginRemoveAll, RemoveTicketDir,
         RemoveTicketDirThrows, RemoveMetadata, ReplyDeleted, RemoveCache, RenewTicketFails,
         Kdestroy, RenewArnSkipsFile, RenewArnOtherUser
    <2> QED BY <1>f, <2>1, <2>2, <2>3, <2>4
  <1>6. CASE GrpcStep
    BY <1>6, <1>3, <1>4, <1>5 DEF GrpcStep, Progress
  <1> QED BY <1>1, <1>2, <1>6 DEF Next

\* FreshInv is an invariant of the daemon.
LEMMA FreshInvariant == Spec => []FreshInv
  <1>1. Init => FreshInv
    <2> SUFFICES ASSUME Init PROVE FreshInv
      OBVIOUS
    <2>1. /\ gpc = "down" /\ gcur = NoEntry /\ rents = {} /\ rcur = NoEntry /\ leaseDir = {}
          /\ reply = [l \in Lease |-> "none"] /\ meta = [l \in Lease |-> {}]
      BY DEF Init, KrbDirInit, LeaseServiceInit, RenewalInit
    <2> QED BY <2>1 DEF FreshInv, FreshFrame, UntoldIsUnseen, EntriesAreTold, EntriesInHand,
            FreshCreate, FailedLeavesNoTicket, Lease
  <1>2. LeaseInv /\ FreshInv /\ [Next]_vars => FreshInv'
    <2> SUFFICES ASSUME LeaseInv, FreshInv, [Next]_vars PROVE FreshInv'
      OBVIOUS
    <2>1. FreshFrame' /\ UntoldIsUnseen' /\ EntriesAreTold'
      BY FrameStays, UnseenStays, ToldEntries DEF FreshInv
    <2>2. FreshCreate' /\ FailedLeavesNoTicket'
      BY CreateBegin, CreateSteps, OtherSteps
    <2> QED BY <2>1, <2>2 DEF FreshInv
  <1> QED BY <1>1, <1>2, LeaseInvariant, PTL DEF Spec

\* A create operation that answered INTERNAL left no ticket and no metadata
\* behind, at whichever step it failed and whatever the renewal thread did.
THEOREM FailedCreateLeavesNothing == Spec => []FailedLeavesNoTicket
  <1>1. FreshInv => FailedLeavesNoTicket
    BY DEF FreshInv
  <1> QED BY <1>1, FreshInvariant, PTL

\* The renewal thread works on no lease whose client was not told OK.
THEOREM RenewalOfGranted == Spec => []RenewsOnlyGranted
  <1>1. FreshInv => RenewsOnlyGranted
    BY DEF FreshInv, EntriesAreTold, EntriesInHand, Untold, RenewsOnlyGranted
  <1> QED BY <1>1, FreshInvariant, PTL

\* The exit "Directory already exists" of the create handlers is never taken.
THEOREM FreshDirectories == Spec => []FreshDirectory
  <1>1. FreshInv => FreshDirectory
    BY DEF FreshInv, FreshCreate, FreshDirectory, FreshOps
  <1> QED BY <1>1, FreshInvariant, PTL

-----------------------------------------------------------------------------
(* The refinement. *)

\* A thread that rests or renews has no lease in hand.
RestFrame == gpc \in RestSteps \cup RenewSteps => glease = NoLease

\* Every step of the gRPC thread keeps its frame.
LEMMA RestFrameGrpc ==
    ASSUME RestFrame, GrpcStep
    PROVE  RestFrame'
  <1>1. CASE Request
    BY <1>1 DEF RestFrame, Request, AddKerberosLease, AddNonDomainJoinedKerberosLease,
       AddKerberosArnLease, BeginAdd, BeginRenew, RenewNonDomainJoinedKerberosLease,
       RenewKerberosArnLease, DeleteKerberosLease, DeleteMissingLease
  <1>2. CASE Startup
    BY <1>2 DEF RestFrame, Startup, StartWithoutFile, ProcessCredSpecFile, BeginAdd
  <1>3. CASE Progress
    <2>1. CASE HostKinit \/ HostKinitError \/ FetchTicket \/ FetchTicketError \/ OpenMetadataFile
               \/ BeginRemoveAll \/ RemoveTicketDir \/ RemoveMetadata
               \/ \E t \in Ticket : MakeTicketDir(t) \/ RemoveOnFailure(t) \/ RemoveCache(t)
      BY <2>1 DEF RestFrame, HostKinit, HostKinitError, FetchTicket, FetchTicketError, ToCleanup,
         OpenMetadataFile, BeginRemoveAll, RemoveTicketDir, RemoveMetadata, MakeTicketDir,
         RemoveOnFailure, RemoveCache
    <2>2. CASE ReplyFailed \/ OpenMetadataFails \/ ReplyGranted \/ ReplyRenewed
               \/ RemoveTicketDirThrows \/ ReplyDeleted
      BY <2>2 DEF RestFrame, ReplyFailed, OpenMetadataFails, ReplyGranted, ReplyRenewed,
         RemoveTicketDirThrows, ReplyDeleted, Rest
    <2>3. CASE RenewUserKinit \/ \E e \in Entry : RenewTicket(e) \/ RenewTicketFails(e)
                  \/ Kdestroy(e) \/ RenewArnSkipsFile(e) \/ RenewArnOtherUser(e)
      BY <2>3 DEF RestFrame, RenewUserKinit, RenewTicket, RenewTicketFails, Kdestroy,
         RenewArnSkipsFile, RenewArnOtherUser
    <2> QED BY <1>3, <2>1, <2>2, <2>3 DEF Progress
  <1> QED BY <1>1, <1>2, <1>3 DEF GrpcStep

\* RestFrame holds throughout.
LEMMA RestFrameInvariant == Spec => []RestFrame
  <1>1. Init => RestFrame
    BY DEF Init, LeaseServiceInit, RestFrame
  <1>2. RestFrame /\ [Next]_vars => RestFrame'
    <2> SUFFICES ASSUME RestFrame, [Next]_vars PROVE RestFrame'
      OBVIOUS
    <2>1. CASE UNCHANGED grpcVars
      BY <2>1 DEF grpcVars, RestFrame
    <2>2. CASE StartThreads \/ ProcessDies
      BY <2>2 DEF StartThreads, ProcessDies, Rest, RestFrame
    <2> QED BY <2>1, <2>2, RestFrameGrpc
        DEF Next, RenewalStep, TicketAges, HostTgtExpires, vars
  <1> QED BY <1>1, <1>2, PTL DEF Spec

-----------------------------------------------------------------------------
\* Caches that keep or lose the same tickets give the same usable tickets.
LEMMA SameUsable ==
    ASSUME \A t \in Ticket : HasTicket(cc'[t]) <=> HasTicket(cc[t])
    PROVE  UsableTickets' = UsableTickets
  BY DEF UsableTickets

\* A change of one cache changes the usable tickets of its lease only.
LEMMA OneCache ==
    ASSUME NEW t \in Ticket, \A s \in Ticket : s # t => cc'[s] = cc[s]
    PROVE  UsableTickets' \ Promise!Of(t[1]) = UsableTickets \ Promise!Of(t[1])
  <1>1. t \in Promise!Of(t[1])
    BY DEF Promise!Of, Ticket
  <1> QED BY <1>1 DEF UsableTickets

\* Replies and metadata as they were, except the metadata of a lease that is not
\* granted: what is promised stays.
LEMMA SamePromised ==
    ASSUME reply' = reply, \A l \in Lease : reply[l] = "granted" => meta'[l] = meta[l]
    PROVE  PromisedTickets' = PromisedTickets
  BY TicketLease DEF PromisedTickets

\* A lease of which the client knows nothing promises nothing.
LEMMA Unpromised ==
    ASSUME NEW l \in Lease, reply \in [Lease -> Replies], meta' = meta,
           NEW r, r # "granted", reply' = [reply EXCEPT ![l] = r]
    PROVE  PromisedTickets' = PromisedTickets \ Promise!Of(l)
  <1>1. \A t \in Ticket : t \in Promise!Of(l) <=> t[1] = l
    BY DEF Promise!Of, Ticket
  <1> QED BY <1>1, TicketLease DEF PromisedTickets

\* A step that changes neither of them, nor the reply and the lease in hand.
LEMMA Stutter ==
    ASSUME reply' = reply, glease' = glease, cc' = cc,
           \A l \in Lease : reply[l] = "granted" => meta'[l] = meta[l]
    PROVE  UNCHANGED Promise!promiseVars
  <1>1. UsableTickets' = UsableTickets
    BY SameUsable
  <1>2. PromisedTickets' = PromisedTickets
    BY SamePromised
  <1> QED BY <1>1, <1>2 DEF Promise!promiseVars

\* A step that promises nothing new is CutOff when it leaves no lease in hand.
LEMMA CutOffStep ==
    ASSUME reply' = reply, glease' = NoLease, cc' = cc, meta' = meta
    PROVE  Promise!CutOff
  <1>1. UsableTickets' = UsableTickets
    BY SameUsable
  <1>2. PromisedTickets' = PromisedTickets
    BY SamePromised
  <1> QED BY <1>1, <1>2 DEF Promise!CutOff

\* An operation changes a cache of its own lease.
LEMMA WorkStep ==
    ASSUME NEW t \in Ticket, t[1] = glease, reply' = reply, glease' = glease, meta' = meta,
           \A s \in Ticket : s # t => cc'[s] = cc[s]
    PROVE  Promise!Work(glease)
  <1>1. PromisedTickets' = PromisedTickets
    BY SamePromised
  <1> QED BY <1>1, OneCache DEF Promise!Work

\* A fetch outside of an operation on the lease.
LEMMA RenewStepOfPromise ==
    ASSUME LeaseInv, NEW e \in Entry, fetch_ok(e), reply' = reply, glease' = glease, meta' = meta
    PROVE  Promise!Renew(e.tkt[1])
  <1>0. e.tkt \in Ticket /\ e.tkt[1] \in Lease /\ e.tkt \in acctDir
    BY EntryTicket DEF fetch_ok, CanFetch
  <1>1. reply[e.tkt[1]] # "deleted"
    BY <1>0 DEF LeaseInv, DeletedStaysGone, TicketsOf
  <1>2. \A t \in Ticket : HasTicket(cc[t]) => HasTicket(cc'[t])
    BY FetchKeeps DEF LeaseInv
  <1>3. UsableTickets \subseteq UsableTickets'
    BY <1>2 DEF UsableTickets
  <1>4. \A s \in Ticket : s # e.tkt => cc'[s] = cc[s]
    BY <1>0 DEF fetch_ok, LeaseInv, TypeOK, KrbDirTypeOK
  <1>5. PromisedTickets' = PromisedTickets
    BY SamePromised
  <1> QED BY <1>0, <1>1, <1>3, <1>4, <1>5, OneCache DEF Promise!Renew

-----------------------------------------------------------------------------
\* The replies have their type.
LEMMA ReplyType ==
    ASSUME LeaseInv
    PROVE  reply \in [Lease -> Replies]
  BY DEF LeaseInv, TypeOK, LeaseServiceTypeOK, Replies

\* A create operation begins.
LEMMA BeginAddPromise ==
    ASSUME LeaseInv, glease = NoLease, NEW l \in Lease, NEW op, NEW o, NEW T, NEW bad,
           BeginAdd(op, l, o, T, bad)
    PROVE  Promise!Begin(l)
  <1>1. glease' = l /\ reply' = [reply EXCEPT ![l] = "none"] /\ cc' = cc /\ meta' = meta
    BY DEF BeginAdd, Reopen, krbDirVars
  <1>2. UsableTickets' = UsableTickets
    BY <1>1, SameUsable
  <1>3. PromisedTickets' = PromisedTickets \ Promise!Of(l)
    BY <1>1, ReplyType, Unpromised
  <1> QED BY <1>1, <1>2, <1>3 DEF Promise!Begin

\* Every request begins an operation, deletes nothing or leaves the promise alone.
LEMMA RequestPromise ==
    ASSUME LeaseInv, RestFrame, Request \/ Startup
    PROVE  \/ \E l \in Lease : Promise!Begin(l) \/ Promise!DeleteNothing(l)
           \/ UNCHANGED Promise!promiseVars
  <1>l. RandomId \subseteq Lease /\ TaskId \subseteq Lease /\ FileId \subseteq Lease
    BY DEF Lease
  <1>1. ASSUME NEW l \in RandomId, NEW A \in SUBSET Account, NEW bad \in BOOLEAN,
               \/ AddKerberosLease(l, A, bad)
               \/ \E u \in User : AddNonDomainJoinedKerberosLease(l, u, A, bad)
        PROVE  Promise!Begin(l)
    <2>1. glease = NoLease
      BY <1>1 DEF AddKerberosLease, AddNonDomainJoinedKerberosLease, RestFrame
    <2> QED BY <1>1, <1>l, <2>1, BeginAddPromise
        DEF AddKerberosLease, AddNonDomainJoinedKerberosLease
  <1>2. ASSUME NEW l \in TaskId, NEW u \in User, NEW A \in SUBSET Account, NEW bad \in BOOLEAN,
               AddKerberosArnLease(l, u, A, bad)
        PROVE  Promise!Begin(l)
    <2>1. glease = NoLease
      BY <1>2 DEF AddKerberosArnLease, RestFrame
    <2> QED BY <1>2, <1>l, <2>1, BeginAddPromise DEF AddKerberosArnLease
  <1>3. ASSUME NEW l \in FileId, NEW a \in Account, NEW bad \in BOOLEAN,
               ProcessCredSpecFile(l, a, bad)
        PROVE  Promise!Begin(l)
    <2>1. glease = NoLease
      BY <1>3 DEF ProcessCredSpecFile, RestFrame
    <2> QED BY <1>3, <1>l, <2>1, BeginAddPromise DEF ProcessCredSpecFile
  <1>4. ASSUME NEW l \in Lease, DeleteKerberosLease(l) PROVE Promise!Begin(l)
    <2>1. /\ glease = NoLease /\ glease' = l /\ cc' = cc /\ meta' = meta
          /\ reply' = [reply EXCEPT ![l] = "deleting"]
      BY <1>4 DEF DeleteKerberosLease, Reopen, RestFrame, krbDirVars
    <2>2. UsableTickets' = UsableTickets
      BY <2>1, SameUsable
    <2>3. PromisedTickets' = PromisedTickets \ Promise!Of(l)
      BY <2>1, ReplyType, Unpromised
    <2> QED BY <2>1, <2>2, <2>3 DEF Promise!Begin
  <1>5. ASSUME NEW l \in Lease, DeleteMissingLease(l) PROVE Promise!DeleteNothing(l)
    <2>1. /\ glease = NoLease /\ glease' = glease /\ cc' = cc /\ meta' = meta /\ l \notin leaseDir
          /\ reply' = [reply EXCEPT ![l] = "deleted"]
      BY <1>5 DEF DeleteMissingLease, Reopen, RestFrame, krbDirVars
    <2>2. UsableTickets' = UsableTickets
      BY <2>1, SameUsable
    <2>3. PromisedTickets' = PromisedTickets \ Promise!Of(l)
      BY <2>1, ReplyType, Unpromised
    <2>4. \A t \in Ticket : t[1] = l => cc[t] = "absent"
      BY <2>1 DEF LeaseInv, DirectoryTree, TypeOK, KrbDirTypeOK
    <2>5. UsableTickets \cap Promise!Of(l) = {}
      BY <2>4 DEF UsableTickets, HasTicket, Promise!Of, Ticket
    <2> QED BY <2>1, <2>2, <2>3, <2>5 DEF Promise!DeleteNothing
  <1>6. ASSUME \/ \E u \in User : RenewNonDomainJoinedKerberosLease(u)
               \/ RenewKerberosArnLease \/ StartWithoutFile
        PROVE  UNCHANGED Promise!promiseVars
    <2>1. reply' = reply /\ glease' = glease /\ cc' = cc /\ meta' = meta
      BY <1>6 DEF RenewNonDomainJoinedKerberosLease, RenewKerberosArnLease, BeginRenew,
         StartWithoutFile, krbDirVars
    <2> QED BY <2>1, Stutter
  <1> QED BY <1>l, <1>1, <1>2, <1>3, <1>4, <1>5, <1>6 DEF Request, Startup

\* The replies that end an operation.
LEMMA EndPromise ==
    ASSUME LeaseInv, ReplyFailed \/ ReplyGranted \/ ReplyDeleted \/ RemoveTicketDirThrows
    PROVE  \E l \in Lease : Promise!Grant(l) \/ Promise!Fail(l) \/ Promise!Delete(l)
  <1>0. glease \in Lease /\ glease' = NoLease /\ reply \in [Lease -> Replies]
    BY ReplyType DEF ReplyFailed, ReplyGranted, ReplyDeleted, RemoveTicketDirThrows, Rest,
       LeaseInv, TypeOK, LeaseServiceTypeOK
  <1>u. UsableTickets' = UsableTickets
    <2>1. cc' = cc
      BY DEF ReplyFailed, ReplyGranted, ReplyDeleted, RemoveTicketDirThrows, krbDirVars
    <2> QED BY <2>1, SameUsable
  <1>o. \A t \in Ticket : t \in Promise!Of(glease) <=> t[1] = glease
    BY DEF Promise!Of, Ticket
  <1>p. ASSUME NEW r, r # "granted", reply[glease] # "granted", meta' = meta,
               reply' = [reply EXCEPT ![glease] = r]
        PROVE  PromisedTickets' = PromisedTickets
    BY <1>0, <1>p, TicketLease DEF PromisedTickets
  <1>1. CASE ReplyFailed
    <2>1. reply[glease] = "none" /\ reply' = [reply EXCEPT ![glease] = "failed"] /\ meta' = meta
      BY <1>1 DEF ReplyFailed, LeaseInv, CreateFrame, krbDirVars
    <2>2. PromisedTickets' = PromisedTickets
      BY <2>1, <1>p
    <2> QED BY <1>0, <1>u, <2>1, <2>2 DEF Promise!Fail
  <1>2. CASE ReplyGranted
    <2>1. /\ reply[glease] = "none" /\ reply' = [reply EXCEPT ![glease] = "granted"]
          /\ \A l \in Lease : l # glease => meta'[l] = meta[l]
          /\ meta'[glease] = {[tkt |-> t, owner |-> gowner, isFile |-> t \in gfile] : t \in glist}
      BY <1>0, <1>2 DEF ReplyGranted, FillMetadata, LeaseInv, CreateFrame, TypeOK, KrbDirTypeOK
    <2>2. /\ glist \subseteq Ticket
          /\ \A t \in glist : t[1] = glease /\ HasTicket(cc[t])
      BY <1>2 DEF ReplyGranted, LeaseInv, CreateFrame, TicketsMade, TicketsOf, TypeOK,
         LeaseServiceTypeOK
    <2>3. glist \in SUBSET (UsableTickets \cap Promise!Of(glease))
      BY <1>o, <2>2 DEF UsableTickets
    <2>4. \A t \in Ticket : (\E e \in meta'[glease] : e.tkt = t) <=> t \in glist
      <3> DEFINE E(t) == [tkt |-> t, owner |-> gowner, isFile |-> t \in gfile]
      <3>1. \A t : E(t).tkt = t
        OBVIOUS
      <3>2. meta'[glease] = {E(t) : t \in glist}
        BY <2>1
      <3> HIDE DEF E
      <3> QED BY <3>1, <3>2
    <2>5. PromisedTickets' = PromisedTickets \cup glist
      <3>1. ASSUME NEW t \in Ticket, t[1] = glease
            PROVE  (t \in PromisedTickets' <=> t \in glist) /\ t \notin PromisedTickets
        BY <1>0, <2>1, <2>4, <3>1 DEF PromisedTickets
      <3>2. ASSUME NEW t \in Ticket, t[1] # glease
            PROVE  (t \in PromisedTickets' <=> t \in PromisedTickets) /\ t \notin glist
        BY <1>0, <2>1, <2>2, <3>2, TicketLease DEF PromisedTickets
      <3>3. PromisedTickets \subseteq Ticket /\ PromisedTickets' \subseteq Ticket
        BY DEF PromisedTickets
      <3> QED BY <3>1, <3>2, <3>3, <2>2
    <2>6. Promise!Grant(glease)
      BY <1>0, <1>u, <2>1, <2>3, <2>5 DEF Promise!Grant
    <2> QED BY <1>0, <2>6
  <1>3. CASE ReplyDeleted
    <2>1. /\ reply[glease] = "deleting" /\ reply' = [reply EXCEPT ![glease] = "deleted"]
          /\ meta' = meta /\ acctDir \cap TicketsOf(glease) = {}
      BY <1>3 DEF ReplyDeleted, LeaseInv, DeleteFrame
    <2>2. PromisedTickets' = PromisedTickets
      BY <2>1, <1>p
    <2>3. UsableTickets \cap Promise!Of(glease) = {}
      BY <1>o, <2>1 DEF UsableTickets, HasTicket, LeaseInv, DirectoryTree, TicketsOf
    <2>4. Promise!Delete(glease)
      BY <1>0, <1>u, <2>1, <2>2, <2>3 DEF Promise!Delete
    <2> QED BY <1>0, <2>4
  <1>4. CASE RemoveTicketDirThrows
    <2>1. /\ reply[glease] = "deleting" /\ reply' = [reply EXCEPT ![glease] = "partly"]
          /\ meta' = meta
      BY <1>4 DEF RemoveTicketDirThrows, LeaseInv, DeleteFrame, krbDirVars
    <2>2. PromisedTickets' = PromisedTickets
      BY <2>1, <1>p
    <2>3. Promise!Delete(glease)
      BY <1>0, <1>u, <2>1, <2>2 DEF Promise!Delete
    <2> QED BY <1>0, <2>3
  <1> QED BY <1>1, <1>2, <1>3, <1>4

\* The steps between.
LEMMA ProgressPromise ==
    ASSUME LeaseInv, "metadata_open" \notin Faults, Progress
    PROVE  Promise!PromiseNext \/ UNCHANGED Promise!promiseVars
  <1>c. cc \in [Ticket -> Cache]
    BY DEF LeaseInv, TypeOK, KrbDirTypeOK
  <1>1. CASE ReplyFailed \/ ReplyGranted \/ ReplyDeleted \/ RemoveTicketDirThrows
    BY <1>1, EndPromise DEF Promise!PromiseNext
  <1>2. CASE OpenMetadataFails
    BY <1>2 DEF OpenMetadataFails
  <1>3. ASSUME NEW t \in Ticket, MakeTicketDir(t) \/ RemoveOnFailure(t) \/ RemoveCache(t)
        PROVE  Promise!PromiseNext
    <2>1. t[1] = glease /\ glease \in Lease
      BY <1>3, TicketLease DEF MakeTicketDir, RemoveOnFailure, RemoveCache, LeaseInv, CreateFrame,
         DeleteFrame, TicketsOf
    <2>2. reply' = reply /\ glease' = glease /\ meta' = meta
      BY <1>3 DEF MakeTicketDir, RemoveOnFailure, RemoveCache
    <2>3. \A s \in Ticket : s # t => cc'[s] = cc[s]
      BY <1>3, <1>c DEF MakeTicketDir, RemoveOnFailure, RemoveCache
    <2>4. Promise!Work(glease)
      BY <2>1, <2>2, <2>3, WorkStep
    <2> QED BY <2>1, <2>4 DEF Promise!PromiseNext
  <1>4. ASSUME NEW e \in Entry, Kdestroy(e)
        PROVE  Promise!PromiseNext
    <2>1. e.tkt \in Ticket /\ e.tkt[1] = glease /\ glease \in Lease
      BY <1>4, EntryTicket DEF Kdestroy, LeaseInv, DeleteFrame
    <2>2. reply' = reply /\ glease' = glease /\ meta' = meta
      BY <1>4 DEF Kdestroy
    <2>3. \A s \in Ticket : s # e.tkt => cc'[s] = cc[s]
      BY <1>4, <1>c DEF Kdestroy
    <2>4. Promise!Work(glease)
      BY <2>1, <2>2, <2>3, WorkStep
    <2> QED BY <2>1, <2>4 DEF Promise!PromiseNext
  <1>5. ASSUME NEW e \in Entry, RenewTicket(e) \/ (FetchTicket /\ e = gcur)
        PROVE  Promise!PromiseNext
    <2>1. fetch_ok(e) /\ reply' = reply /\ glease' = glease /\ meta' = meta
      BY <1>5 DEF RenewTicket, FetchTicket
    <2>2. Promise!Renew(e.tkt[1])
      BY <2>1, RenewStepOfPromise
    <2> QED BY <2>2, EntryTicket DEF Promise!PromiseNext
  <1>6. CASE ReplyRenewed
    <2>1. Promise!CutOff
      BY <1>6, CutOffStep DEF ReplyRenewed, Rest, krbDirVars
    <2> QED BY <2>1 DEF Promise!PromiseNext
  <1>7. ASSUME \/ HostKinit \/ HostKinitError \/ FetchTicketError \/ RenewUserKinit
               \/ BeginRemoveAll \/ RemoveTicketDir
               \/ \E e \in Entry : RenewTicketFails(e) \/ RenewArnSkipsFile(e) \/ RenewArnOtherUser(e)
        PROVE  UNCHANGED Promise!promiseVars
    <2>1. reply' = reply /\ glease' = glease /\ cc' = cc /\ meta' = meta
      BY <1>7 DEF HostKinit, HostKinitError, FetchTicketError, ToCleanup, RenewUserKinit,
         BeginRemoveAll, RemoveTicketDir, RenewTicketFails, RenewArnSkipsFile, RenewArnOtherUser,
         krbDirVars
    <2> QED BY <2>1, Stutter
  <1>8. CASE OpenMetadataFile \/ RemoveMetadata
    <2>1. reply[glease] # "granted" /\ reply' = reply /\ glease' = glease /\ cc' = cc
      BY <1>8 DEF OpenMetadataFile, RemoveMetadata, LeaseInv, CreateFrame, DeleteFrame
    <2>2. \A l \in Lease : l # glease => meta'[l] = meta[l]
      BY <1>8 DEF OpenMetadataFile, OpenMetadata, RemoveMetadata, LeaseInv, TypeOK, KrbDirTypeOK
    <2> QED BY <2>1, <2>2, Stutter
  <1>9. FetchTicket => gcur \in Entry
    BY DEF FetchTicket, LeaseInv, TypeOK, LeaseServiceTypeOK
  <1> QED BY <1>1, <1>2, <1>3, <1>4, <1>5, <1>6, <1>7, <1>8, <1>9 DEF Progress

\* The renewal thread, time and the end of the process.
LEMMA OtherPromise ==
    ASSUME LeaseInv,
           \/ RenewalStep \/ HostTgtExpires \/ StartThreads \/ ProcessDies \/ UNCHANGED vars
           \/ \E t \in Ticket : TicketAges(t)
    PROVE  Promise!PromiseNext \/ UNCHANGED Promise!promiseVars
  <1>1. CASE RenewalStep
    <2>1. cc' = cc \/ (rcur \in Entry /\ fetch_ok(rcur))
      BY <1>1, RenewalCaches DEF RenewalStep, LeaseInv
    <2>2. reply' = reply /\ glease' = glease /\ meta' = meta
      BY <1>1 DEF RenewalStep, RenewalNext, RenewalStarts, ScanLease, ScanTicketDir, ScanThrows,
           ScanEnds, ReadMetadata, RoundEnds, CheckTicket, RenewalFetch, RenewalFetchFails,
           RenewalHostKinit, RenewalHostKinitError, krbDirVars, grpcVars
    <2>3. CASE cc' = cc
      BY <2>2, <2>3, Stutter
    <2>4. CASE rcur \in Entry /\ fetch_ok(rcur)
      BY <2>2, <2>4, RenewStepOfPromise, EntryTicket DEF Promise!PromiseNext
    <2> QED BY <2>1, <2>3, <2>4
  <1>2. ASSUME NEW t \in Ticket, TicketAges(t) PROVE UNCHANGED Promise!promiseVars
    <2>1. reply' = reply /\ glease' = glease /\ meta' = meta
      BY <1>2 DEF TicketAges, grpcVars
    <2>2. \A s \in Ticket : HasTicket(cc'[s]) <=> HasTicket(cc[s])
      BY <1>2 DEF TicketAges, HasTicket, LeaseInv, TypeOK, KrbDirTypeOK
    <2> QED BY <2>1, <2>2, SameUsable, SamePromised DEF Promise!promiseVars
  <1>3. CASE HostTgtExpires \/ UNCHANGED vars
    <2>1. reply' = reply /\ glease' = glease /\ meta' = meta /\ cc' = cc
      BY <1>3 DEF HostTgtExpires, vars, krbDirVars, grpcVars
    <2> QED BY <2>1, Stutter
  <1>4. CASE StartThreads \/ ProcessDies
    <2>1. Promise!CutOff
      BY <1>4, CutOffStep DEF StartThreads, ProcessDies, Rest, krbDirVars
    <2> QED BY <2>1 DEF Promise!PromiseNext
  <1> QED BY <1>1, <1>2, <1>3, <1>4

\* The daemon keeps its promise (KeepsPromise): with both threads interleaved at
\* the grain of their file operations and crashes between any two of them it
\* implements LeasePromise, provided metadata files can be opened for writing.
THEOREM PromiseKept ==
    ASSUME "metadata_open" \notin Faults
    PROVE  Spec => KeepsPromise
  <1>1. Init => Promise!PromiseInit
    <2> SUFFICES ASSUME Init PROVE Promise!PromiseInit
      OBVIOUS
    <2>1. /\ reply = [l \in Lease |-> "none"] /\ glease = NoLease
          /\ cc = [t \in Ticket |-> "absent"]
      BY DEF Init, KrbDirInit, LeaseServiceInit
    <2>2. PromisedTickets = {}
      BY <2>1, TicketLease DEF PromisedTickets
    <2>3. UsableTickets = {}
      BY <2>1 DEF UsableTickets, HasTicket
    <2> QED BY <2>1, <2>2, <2>3 DEF Promise!PromiseInit
  <1>2. LeaseInv /\ RestFrame /\ [Next]_vars => [Promise!PromiseNext]_(Promise!promiseVars)
    <2> SUFFICES ASSUME LeaseInv, RestFrame, [Next]_vars
                 PROVE  Promise!PromiseNext \/ UNCHANGED Promise!promiseVars
      OBVIOUS
    <2>1. CASE GrpcStep
      BY <2>1, RequestPromise, ProgressPromise DEF GrpcStep, Promise!PromiseNext
    <2> QED BY <2>1, OtherPromise DEF Next
  <1> QED BY <1>1, <1>2, LeaseInvariant, RestFrameInvariant, PTL
      DEF Spec, KeepsPromise, Promise!PromiseSpec

-----------------------------------------------------------------------------
(* The causes of the two races between a deletion and the renewal thread. *)

\* While no fetch meets a deletion, rmdir finds the directory that was emptied
\* and remove_all has thrown at no lease.
RemovesCleanly ==
    /\ gpc = "rmdir" => cc[gcur.tkt] = "absent"
    /\ \A l \in Lease : reply[l] # "partly"

\* A step of the renewal thread of which the lease being deleted is not fetched
\* leaves its caches alone.
LEMMA FetchElsewhere ==
    ASSUME LeaseInv, RenewalNext, gpc \in DeleteSteps, ~FetchDuringDeletion,
           NEW t \in TicketsOf(glease)
    PROVE  cc'[t] = cc[t]
  <1>1. CASE RenewalFetch
    <2>1. rcur \in Entry /\ rcur.tkt[1] # glease
      BY <1>1 DEF RenewalFetch, LeaseInv, TypeOK, RenewalTypeOK, FetchDuringDeletion
    <2> QED BY <1>1, <2>1, EntryTicket DEF RenewalFetch, fetch_ok, LeaseInv, TypeOK, KrbDirTypeOK,
            TicketsOf
  <1>2. CASE ~RenewalFetch
    BY <1>2 DEF RenewalNext, RenewalStarts, ScanLease, ScanTicketDir, ScanThrows, ScanEnds,
       ReadMetadata, RoundEnds, CheckTicket, RenewalFetchFails, RenewalHostKinit,
       RenewalHostKinitError, krbDirVars
  <1> QED BY <1>1, <1>2

\* The gRPC thread comes to rmdir with an empty directory, and alone it leaves it so.
LEMMA GrpcRemovesCleanly ==
    ASSUME LeaseInv, RemovesCleanly, GrpcStep
    PROVE  RemovesCleanly'
  <1>r. /\ reply \in [Lease -> Replies] /\ cc \in [Ticket -> Cache]
        /\ gpc \in AddSteps \cup DeleteSteps => glease \in Lease
    BY DEF LeaseInv, TypeOK, KrbDirTypeOK, LeaseServiceTypeOK, Replies
  <1>1. ASSUME gpc' # "rmdir", NEW l \in Lease, NEW r, r # "partly",
               reply' = [reply EXCEPT ![l] = r]
        PROVE  RemovesCleanly'
    BY <1>1, <1>r DEF RemovesCleanly
  <1>2. ASSUME NEW l \in Lease, NEW op \in AddOps, NEW o, NEW T, NEW bad, Begins(l, op, o, T, bad)
        PROVE  RemovesCleanly'
    <2>1. gpc' # "rmdir" /\ reply' = [reply EXCEPT ![l] = "none"]
      BY <1>2 DEF Begins, BeginAdd, Reopen
    <2> QED BY <1>1, <2>1
  <1>3. ASSUME NEW l \in Lease, DeleteKerberosLease(l) \/ DeleteMissingLease(l)
        PROVE  RemovesCleanly'
    <2>1. gpc' # "rmdir" /\ (reply' = [reply EXCEPT ![l] = "deleting"]
                             \/ reply' = [reply EXCEPT ![l] = "deleted"])
      BY <1>3 DEF DeleteKerberosLease, DeleteMissingLease, Reopen
    <2> QED BY <1>1, <2>1
  <1>4. CASE ReplyFailed \/ OpenMetadataFails \/ ReplyGranted \/ ReplyDeleted
    <2>1. glease \in Lease
      BY <1>4, <1>r DEF ReplyFailed, OpenMetadataFails, ReplyGranted, ReplyDeleted
    <2>2. gpc' # "rmdir" /\ \E r \in {"failed", "granted", "deleted"} :
                               reply' = [reply EXCEPT ![glease] = r]
      BY <1>4 DEF ReplyFailed, OpenMetadataFails, ReplyGranted, ReplyDeleted, Rest, EndPc
    <2> QED BY <1>1, <2>1, <2>2
  <1>5. CASE RemoveTicketDirThrows
    BY <1>5 DEF RemoveTicketDirThrows, RemovesCleanly
  <1>6. ASSUME NEW t \in Ticket, RemoveCache(t) PROVE RemovesCleanly'
    BY <1>6, <1>r DEF RemoveCache, CacheEntry, RemovesCleanly
  <1>7. ASSUME QuietStep, \A t \in Ticket : ~RemoveCache(t) PROVE RemovesCleanly'
    <2>1. gpc' # "rmdir"
      BY <1>7 DEF QuietStep, StartWithoutFile, RenewKerberosArnLease,
         RenewNonDomainJoinedKerberosLease, BeginRenew, HostKinit, HostKinitError, FetchTicket,
         FetchTicketError, ToCleanup, OpenMetadataFile, RenewUserKinit, ReplyRenewed, Rest,
         BeginRemoveAll, RemoveTicketDir, RemoveMetadata, MakeTicketDir, RemoveOnFailure,
         RenewTicket, RenewTicketFails, Kdestroy, RenewArnSkipsFile, RenewArnOtherUser
    <2> QED BY <1>7, <2>1, QuietReplies DEF RemovesCleanly
  <1> QED BY GrpcCases, <1>2, <1>3, <1>4, <1>5, <1>6, <1>7

\* Only a fetch for the lease being deleted makes remove_all throw or leaves a file
\* that the reply lists as deleted (UndisturbedDeletion): the race between
\* renewal.cpp and delete_krb_tickets is the one cause of both.
THEOREM OnlyFetchDisturbsDeletion == Spec => UndisturbedDeletion
  <1>1. Init => RemovesCleanly
    BY DEF Init, LeaseServiceInit, RemovesCleanly
  <1>2. LeaseInv /\ RemovesCleanly /\ ~FetchDuringDeletion /\ [Next]_vars => RemovesCleanly'
    <2> SUFFICES ASSUME LeaseInv, RemovesCleanly, ~FetchDuringDeletion, [Next]_vars
                 PROVE  RemovesCleanly'
      OBVIOUS
    <2>1. CASE GrpcStep
      BY <2>1, GrpcRemovesCleanly
    <2>2. CASE RenewalStep
      <3>1. UNCHANGED <<gpc, gcur, reply>> /\ RenewalNext
        BY <2>2 DEF RenewalStep, grpcVars
      <3>2. gpc = "rmdir" => gcur.tkt \in TicketsOf(glease)
        BY DEF LeaseInv, DeleteFrame
      <3> QED BY <3>1, <3>2, FetchElsewhere DEF RemovesCleanly
    <2>3. ASSUME NEW t \in Ticket, TicketAges(t) PROVE RemovesCleanly'
      BY <2>3 DEF TicketAges, grpcVars, RemovesCleanly, LeaseInv, TypeOK, KrbDirTypeOK
    <2>4. CASE HostTgtExpires \/ UNCHANGED vars
      BY <2>4 DEF HostTgtExpires, vars, krbDirVars, grpcVars, RemovesCleanly
    <2>5. CASE StartThreads \/ ProcessDies
      BY <2>5 DEF StartThreads, ProcessDies, Rest, RemovesCleanly
    <2> QED BY <2>1, <2>2, <2>3, <2>4, <2>5 DEF Next
  <1>3. LeaseInv /\ RemovesCleanly =>
          DeletedPathsDoNotExist /\ \A l \in Lease : reply[l] # "partly"
    BY TicketLease DEF RemovesCleanly, LeaseInv, DeletedStaysGone, DeletedPathsDoNotExist,
       TicketsOf, TypeOK, LeaseServiceTypeOK
  <1> QED BY <1>1, <1>2, <1>3, LeaseInvariant, PTL DEF Spec, UndisturbedDeletion

\* The renewal thread runs neither before the daemon has started nor while the
\* credential spec file is worked on.
StartupAlone == (gpc \in {"down", "ready"} \/ gop = "ProcessCredSpecFile") => rpc = "off"

\* Every ticket directory a request under a random id has made is one whose
\* krb_file_path it has set to the krb5cc file, and it cleans up after those only.
OwnDirectories ==
    gpc \in AddSteps /\ gop \in FreshOps =>
        /\ glist \cap acctDir \subseteq gfile
        /\ gpc = "cleanup" => gtodo \subseteq glist

\* What the scan has listed is there.
ScanSafe ==
    /\ rpc # "dead"
    /\ rleases \subseteq leaseDir
    /\ raccts \subseteq acctDir
    /\ rpc # "scan" => rleases = {} /\ raccts = {}

\* The frame of the gRPC thread and its place at startup.
LEMMA StartupGrpc ==
    ASSUME LeaseInv, StartupAlone, GrpcStep
    PROVE  StartupAlone'
  <1>r. rpc' = rpc
    BY DEF GrpcStep, renewalVars
  <1>1. CASE Request
    <2>1. gpc = "idle" /\ gpc' \notin {"down", "ready"}
          /\ (gop' # "ProcessCredSpecFile" \/ gop' = gop)
      BY <1>1 DEF Request, AddKerberosLease, AddNonDomainJoinedKerberosLease,
         AddKerberosArnLease, BeginAdd, BeginRenew, RenewNonDomainJoinedKerberosLease,
         RenewKerberosArnLease, DeleteKerberosLease, DeleteMissingLease
    <2> QED BY <2>1, <1>r DEF StartupAlone
  <1>2. CASE Startup
    BY <1>2, <1>r DEF StartupAlone, Startup, StartWithoutFile, ProcessCredSpecFile
  <1>3. CASE ReplyFailed \/ OpenMetadataFails \/ ReplyGranted
    BY <1>3, <1>r DEF StartupAlone, ReplyFailed, OpenMetadataFails, ReplyGranted, Rest, EndPc
  <1>4. CASE ReplyRenewed \/ RemoveTicketDirThrows \/ ReplyDeleted
    BY <1>4, <1>r DEF StartupAlone, ReplyRenewed, RemoveTicketDirThrows, ReplyDeleted, Rest
  <1>5. CASE \/ HostKinit \/ HostKinitError \/ FetchTicket \/ FetchTicketError \/ OpenMetadataFile
             \/ BeginRemoveAll \/ RemoveTicketDir \/ RemoveMetadata \/ RenewUserKinit
             \/ \E t \in Ticket : MakeTicketDir(t) \/ RemoveOnFailure(t) \/ RemoveCache(t)
             \/ \E e \in Entry : RenewTicket(e) \/ RenewTicketFails(e) \/ Kdestroy(e)
                                 \/ RenewArnSkipsFile(e) \/ RenewArnOtherUser(e)
    <2>1. gop' = gop /\ gpc' \notin {"down", "ready"}
      BY <1>5 DEF HostKinit, HostKinitError, FetchTicket, FetchTicketError, ToCleanup,
         OpenMetadataFile, BeginRemoveAll, RemoveTicketDir, RemoveMetadata, RenewUserKinit,
         MakeTicketDir, RemoveOnFailure, RemoveCache, RenewTicket, RenewTicketFails, Kdestroy,
         RenewArnSkipsFile, RenewArnOtherUser
    <2> QED BY <2>1, <1>r DEF StartupAlone
  <1> QED BY <1>1, <1>2, <1>3, <1>4, <1>5 DEF GrpcStep, Progress

\* StartupAlone holds throughout.
LEMMA StartupInvariant == Spec => []StartupAlone
  <1>1. Init => StartupAlone
    BY DEF Init, RenewalInit, StartupAlone
  <1>2. LeaseInv /\ StartupAlone /\ [Next]_vars => StartupAlone'
    <2> SUFFICES ASSUME LeaseInv, StartupAlone, [Next]_vars PROVE StartupAlone'
      OBVIOUS
    <2>1. CASE RenewalStep
      <3>1. UNCHANGED <<gpc, gop>> /\ rpc # "off"
        BY <2>1 DEF RenewalStep, RenewalNext, RenewalStarts, ScanLease, ScanTicketDir, ScanThrows,
           ScanEnds, ReadMetadata, RoundEnds, CheckTicket, RenewalFetch, RenewalFetchFails,
           RenewalHostKinit, RenewalHostKinitError, grpcVars
      <3> QED BY <3>1 DEF StartupAlone
    <2>2. CASE HostTgtExpires \/ UNCHANGED vars \/ \E t \in Ticket : TicketAges(t)
      BY <2>2 DEF HostTgtExpires, TicketAges, vars, grpcVars, renewalVars, StartupAlone
    <2>3. CASE StartThreads \/ ProcessDies
      BY <2>3 DEF StartThreads, ProcessDies, Rest, StartupAlone
    <2> QED BY <2>1, <2>2, <2>3, StartupGrpc DEF Next
  <1> QED BY <1>1, <1>2, LeaseInvariant, PTL DEF Spec

\* The gRPC thread keeps account of the directories it has made.
LEMMA OwnDirectoriesGrpc ==
    ASSUME LeaseInv, FreshInv, OwnDirectories, GrpcStep
    PROVE  OwnDirectories'
  <1>1. ASSUME NEW l \in Lease, NEW op \in AddOps, NEW o, NEW T, NEW bad, Begins(l, op, o, T, bad)
        PROVE  OwnDirectories'
    <2>1. /\ glist' = T /\ gtodo' = T /\ gop' = op /\ acctDir' = acctDir /\ T \subseteq TicketsOf(l)
      BY <1>1 DEF Begins, BeginAdd, krbDirVars
    <2>2. op \in FreshOps => l \in RandomId /\ l \notin issued
      BY <1>1 DEF Begins
    <2>3. op \in FreshOps => T \cap acctDir = {}
      BY <2>1, <2>2 DEF FreshInv, UntoldIsUnseen, LeaseInv, DirectoryTree, TicketsOf
    <2> QED BY <2>1, <2>3 DEF OwnDirectories
  <1>2. ASSUME NEW t \in Ticket, MakeTicketDir(t) PROVE OwnDirectories'
    <2>1. gop \in FreshOps => cc[t] = "absent"
      BY <1>2 DEF MakeTicketDir, FreshInv, FreshCreate, LeaseInv, DirectoryTree
    <2> QED BY <1>2, <2>1 DEF MakeTicketDir, OwnDirectories
  <1>3. ASSUME NEW t \in Ticket, RemoveOnFailure(t) PROVE OwnDirectories'
    BY <1>3 DEF RemoveOnFailure, OwnDirectories
  <1>4. CASE HostKinitError \/ FetchTicketError
    <2>1. /\ UNCHANGED <<gop, glist, gfile, acctDir>> /\ gpc \in AddSteps
          /\ gop # "ProcessCredSpecFile" => gtodo' = glist
      BY <1>4 DEF HostKinitError, FetchTicketError, ToCleanup, krbDirVars
    <2> QED BY <2>1 DEF OwnDirectories, FreshOps
  <1>5. CASE HostKinit \/ FetchTicket \/ OpenMetadataFile
    BY <1>5 DEF HostKinit, FetchTicket, OpenMetadataFile, OwnDirectories
  <1>6. CASE gpc' \notin AddSteps
    BY <1>6 DEF OwnDirectories
  <1>7. ASSUME NEW l \in Lease, DeleteKerberosLease(l) \/ DeleteMissingLease(l)
        PROVE  gpc' \notin AddSteps
    BY <1>7 DEF DeleteKerberosLease, DeleteMissingLease
  <1>8. ASSUME \/ StartWithoutFile \/ RenewKerberosArnLease
               \/ \E u \in User : RenewNonDomainJoinedKerberosLease(u)
               \/ RenewUserKinit \/ ReplyRenewed \/ BeginRemoveAll \/ RemoveTicketDir \/ RemoveMetadata
               \/ \E t \in Ticket : RemoveCache(t)
               \/ \E e \in Entry : RenewTicket(e) \/ RenewTicketFails(e) \/ Kdestroy(e)
                                   \/ RenewArnSkipsFile(e) \/ RenewArnOtherUser(e)
        PROVE  gpc' \notin AddSteps
    BY <1>8 DEF StartWithoutFile, RenewKerberosArnLease, RenewNonDomainJoinedKerberosLease,
       BeginRenew, RenewUserKinit, ReplyRenewed, Rest, BeginRemoveAll, RemoveTicketDir,
       RemoveMetadata, RemoveCache, RenewTicket, RenewTicketFails, Kdestroy, RenewArnSkipsFile,
       RenewArnOtherUser
  <1>9. ASSUME ReplyFailed \/ OpenMetadataFails \/ ReplyGranted \/ RemoveTicketDirThrows
               \/ ReplyDeleted
        PROVE  gpc' \notin AddSteps
    BY <1>9 DEF ReplyFailed, OpenMetadataFails, ReplyGranted, RemoveTicketDirThrows,
       ReplyDeleted, Rest, EndPc
  <1> QED BY GrpcCases, <1>1, <1>2, <1>3, <1>4, <1>5, <1>6, <1>7, <1>8, <1>9 DEF QuietStep

\* OwnDirectories holds throughout.
LEMMA OwnDirectoriesInvariant == Spec => []OwnDirectories
  <1>1. Init => OwnDirectories
    BY DEF Init, LeaseServiceInit, OwnDirectories
  <1>2. LeaseInv /\ FreshInv /\ OwnDirectories /\ [Next]_vars => OwnDirectories'
    <2> SUFFICES ASSUME LeaseInv, FreshInv, OwnDirectories, [Next]_vars PROVE OwnDirectories'
      OBVIOUS
    <2>1. CASE RenewalStep \/ HostTgtExpires \/ UNCHANGED vars \/ \E t \in Ticket : TicketAges(t)
      <3>1. UNCHANGED <<gpc, gop, glist, gtodo, gfile, acctDir>>
        BY <2>1 DEF RenewalStep, RenewalNext, RenewalStarts, ScanLease, ScanTicketDir, ScanThrows,
           ScanEnds, ReadMetadata, RoundEnds, CheckTicket, RenewalFetch, RenewalFetchFails,
           RenewalHostKinit, RenewalHostKinitError, HostTgtExpires, TicketAges, vars, krbDirVars,
           grpcVars
      <3> QED BY <3>1 DEF OwnDirectories
    <2>2. CASE StartThreads \/ ProcessDies
      BY <2>2 DEF StartThreads, ProcessDies, Rest, OwnDirectories
    <2> QED BY <2>1, <2>2, OwnDirectoriesGrpc DEF Next
  <1> QED BY <1>1, <1>2, LeaseInvariant, FreshInvariant, PTL DEF Spec

\* While the renewal thread runs, only the operations of TakesDirectories take a
\* directory away.
LEMMA DirectoriesStay ==
    ASSUME LeaseInv, StartupAlone, OwnDirectories, ~TakesDirectories, GrpcStep, rpc # "off"
    PROVE  leaseDir \subseteq leaseDir' /\ acctDir \subseteq acctDir'
  <1>1. ASSUME NEW t \in Ticket, RemoveOnFailure(t) PROVE acctDir' = acctDir
    <2>1. gop \in FreshOps
      BY <1>1 DEF RemoveOnFailure, LeaseInv, CreateFrame, AddOps, FreshOps, StartupAlone,
         TakesDirectories
    <2>2. t \in acctDir => t \in gfile
      BY <1>1, <2>1 DEF RemoveOnFailure, OwnDirectories
    <2> QED BY <1>1, <2>2 DEF RemoveOnFailure
  <1>2. ASSUME NEW t \in Ticket, MakeTicketDir(t) \/ RemoveOnFailure(t) \/ RemoveCache(t)
        PROVE  leaseDir \subseteq leaseDir' /\ acctDir \subseteq acctDir'
    BY <1>1, <1>2 DEF MakeTicketDir, RemoveOnFailure, RemoveCache
  <1>3. ASSUME RemoveTicketDir \/ ReplyDeleted PROVE FALSE
    BY <1>3 DEF RemoveTicketDir, ReplyDeleted, TakesDirectories
  <1>4. CASE Request \/ Startup
    BY <1>4, CreateBegins DEF Begins, BeginAdd, StartWithoutFile,
       RenewNonDomainJoinedKerberosLease, RenewKerberosArnLease, BeginRenew, DeleteKerberosLease,
       DeleteMissingLease, krbDirVars
  <1>5. CASE \/ HostKinit \/ HostKinitError \/ FetchTicket \/ FetchTicketError
             \/ ReplyFailed \/ OpenMetadataFile \/ OpenMetadataFails \/ ReplyGranted
             \/ RenewUserKinit \/ ReplyRenewed
             \/ BeginRemoveAll \/ RemoveTicketDirThrows \/ RemoveMetadata
             \/ \E e \in Entry : RenewTicket(e) \/ RenewTicketFails(e) \/ Kdestroy(e)
                                 \/ RenewArnSkipsFile(e) \/ RenewArnOtherUser(e)
    BY <1>5 DEF HostKinit, HostKinitError, FetchTicket, FetchTicketError, ToCleanup, ReplyFailed,
       OpenMetadataFile, OpenMetadata, OpenMetadataFails, ReplyGranted, RenewUserKinit,
       ReplyRenewed, BeginRemoveAll, RemoveTicketDirThrows, RemoveMetadata, RenewTicket,
       RenewTicketFails, Kdestroy, RenewArnSkipsFile, RenewArnOtherUser, krbDirVars
  <1> QED BY <1>2, <1>3, <1>4, <1>5 DEF GrpcStep, Progress

\* A scan over directories that stay meets none that is gone.
LEMMA ScanOfStaying ==
    ASSUME LeaseInv, ScanSafe, RenewalNext
    PROVE  ScanSafe'
  <1>1. UNCHANGED <<leaseDir, acctDir>>
    BY DEF RenewalNext, RenewalStarts, ScanLease, ScanTicketDir, ScanThrows, ScanEnds,
       ReadMetadata, RoundEnds, CheckTicket, RenewalFetch, RenewalFetchFails, RenewalHostKinit,
       RenewalHostKinitError, krbDirVars
  <1>2. CASE RenewalStarts
    BY <1>1, <1>2 DEF RenewalStarts, ScanSafe
  <1>3. ASSUME NEW l \in Lease, ScanLease(l) PROVE ScanSafe'
    BY <1>1, <1>3 DEF ScanLease, ScanSafe
  <1>4. ASSUME NEW t \in Ticket, ScanTicketDir(t) PROVE ScanSafe'
    BY <1>1, <1>4 DEF ScanTicketDir, ScanSafe
  <1>5. ASSUME ScanThrows PROVE FALSE
    BY <1>5 DEF ScanThrows, ScanSafe
  <1>6. CASE ScanEnds
    BY <1>1, <1>6 DEF ScanEnds, ScanSafe
  <1>7. CASE \/ RoundEnds \/ RenewalFetch \/ RenewalFetchFails
             \/ RenewalHostKinit \/ RenewalHostKinitError
             \/ \E l \in Lease : ReadMetadata(l)
             \/ \E e \in Entry : CheckTicket(e)
    <2>1. UNCHANGED <<rleases, raccts>> /\ rpc # "scan" /\ rpc' \notin {"scan", "dead"}
      BY <1>7 DEF RoundEnds, RenewalFetch, RenewalFetchFails, RenewalHostKinit, NextTry,
         RenewalHostKinitError, ReadMetadata, CheckTicket
    <2> QED BY <1>1, <2>1 DEF ScanSafe
  <1> QED BY <1>2, <1>3, <1>4, <1>5, <1>6, <1>7 DEF RenewalNext

\* The renewal thread ends only when a deletion, or the cleanup of an ARN request
\* over a lease that was there, takes directories away (OnlyRemovalStopsRenewal):
\* no other request, failure, fault or crash makes its scan throw.
THEOREM RenewalStoppedByRemoval == Spec => OnlyRemovalStopsRenewal
  <1>1. Init => ScanSafe
    BY DEF Init, RenewalInit, ScanSafe
  <1>2. LeaseInv /\ StartupAlone /\ OwnDirectories /\ ScanSafe /\ ~TakesDirectories /\ [Next]_vars
          => ScanSafe'
    <2> SUFFICES ASSUME LeaseInv, StartupAlone, OwnDirectories, ScanSafe, ~TakesDirectories,
                        [Next]_vars
                 PROVE  ScanSafe'
      OBVIOUS
    <2>1. CASE GrpcStep
      <3>1. UNCHANGED <<rpc, rleases, raccts>>
        BY <2>1 DEF GrpcStep, renewalVars
      <3>2. CASE rpc = "off"
        BY <3>1, <3>2 DEF ScanSafe
      <3>3. CASE rpc # "off"
        BY <2>1, <3>1, <3>3, DirectoriesStay DEF ScanSafe
      <3> QED BY <3>2, <3>3
    <2>2. CASE RenewalStep
      BY <2>2, ScanOfStaying DEF RenewalStep
    <2>3. CASE HostTgtExpires \/ UNCHANGED vars \/ \E t \in Ticket : TicketAges(t)
      BY <2>3 DEF HostTgtExpires, TicketAges, vars, krbDirVars, renewalVars, ScanSafe
    <2>4. CASE StartThreads \/ ProcessDies
      BY <2>4 DEF StartThreads, ProcessDies, RenewalClear, krbDirVars, ScanSafe
    <2> QED BY <2>1, <2>2, <2>3, <2>4 DEF Next
  <1>3. ScanSafe => rpc # "dead"
    BY DEF ScanSafe
  <1> QED BY <1>1, <1>2, <1>3, LeaseInvariant, StartupInvariant, OwnDirectoriesInvariant, PTL
      DEF Spec, OnlyRemovalStopsRenewal

=============================================================================
