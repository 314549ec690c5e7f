---------------------------- MODULE LeaseProofs ----------------------------
(***************************************************************************)
(* What holds of the daemon for every set of leases, accounts and users:   *)
(* its types (TypeOK), and that what an OK answer and a deletion promise   *)
(* is kept by every step of both threads and through crashes (LeaseInv).   *)
(* And for finite ones, that no operation and no round of the renewal      *)
(* thread goes on for ever: each of their steps takes from what is left.   *)
(***************************************************************************)
EXTENDS CredentialsFetcher, FiniteSetTheorems, TLAPS

\* What a client may have been told.
Replies == {"none", "granted", "failed", "deleting", "deleted", "partly"}

\* The values of a thread that works on nothing are no lease and no entry.
LEMMA Nothing == NoLease \notin Lease /\ NoEntry \notin Entry
  BY KrbDirAssumption

USE Nothing DEF AddSteps, RenewSteps, DeleteSteps, RestSteps, EntrySteps

\* The initial state has the types.
LEMMA TypeInit == Init => TypeOK
  <1> SUFFICES ASSUME Init PROVE TypeOK
    OBVIOUS
  <1>1. KrbDirTypeOK
    BY DEF Init, KrbDirInit, KrbDirTypeOK, Cache
  <1>2. LeaseServiceTypeOK
    BY DEF Init, LeaseServiceInit, LeaseServiceTypeOK, Owner
  <1>3. RenewalTypeOK
    BY DEF Init, RenewalInit, RenewalTypeOK, num_retries
  <1> QED BY <1>1, <1>2, <1>3 DEF TypeOK

\* A thread at rest has a typed stack frame.
LEMMA TypeRest ==
    ASSUME TypeOK, NEW pc \in RestSteps, Rest(pc), issued' = issued,
           reply' \in [Lease -> Replies], listed' \subseteq Ticket
    PROVE  LeaseServiceTypeOK'
  BY DEF Rest, TypeOK, LeaseServiceTypeOK, Owner, Replies

\* Every ticket is one of a lease, and an entry can be made for it.
LEMMA TicketParts ==
    ASSUME TypeOK, NEW t \in Ticket
    PROVE  t[1] \in Lease /\ CacheEntry(t) \in Entry
  BY DEF Ticket, CacheEntry, Entry, TypeOK, LeaseServiceTypeOK

\* What an operation of the gRPC thread begins with.
LEMMA TypeBeginAdd ==
    ASSUME TypeOK,
           NEW l \in Lease, NEW op \in AddOps, NEW o \in Owner, NEW T \in SUBSET Ticket,
           NEW bad \in BOOLEAN, BeginAdd(op, l, o, T, bad), issued' \subseteq RandomId
    PROVE  KrbDirTypeOK' /\ LeaseServiceTypeOK'
  <1>1. KrbDirTypeOK'
    BY DEF BeginAdd, krbDirVars, TypeOK, KrbDirTypeOK
  <1>2. LeaseServiceTypeOK'
    BY DEF BeginAdd, Reopen, TypeOK, LeaseServiceTypeOK, Ops
  <1> QED BY <1>1, <1>2

\* The entries a renew or delete reads are entries.
LEMMA TypeRead ==
    ASSUME TypeOK, NEW l \in Lease
    PROVE  read_meta_data_json(l) \subseteq Entry
  BY DEF TypeOK, KrbDirTypeOK, read_meta_data_json

\* All entries a renew request reads are entries.
LEMMA TypeAllEntries ==
    ASSUME TypeOK
    PROVE  AllEntries \subseteq Entry
  BY TypeRead DEF AllEntries, get_meta_data_file_paths

\* A request or a start of the process preserves the types.
LEMMA TypeBegin ==
    ASSUME TypeOK, Request \/ Startup
    PROVE  KrbDirTypeOK' /\ LeaseServiceTypeOK'
  <1> USE DEF AddOps, Owner
  <1>i. issued \subseteq RandomId /\ RandomId \subseteq Lease /\ TaskId \subseteq Lease
        /\ FileId \subseteq Lease
    BY DEF TypeOK, LeaseServiceTypeOK, Lease
  <1>p. \A l \in Lease, A \in SUBSET Account : {l} \X A \in SUBSET Ticket
    BY DEF Ticket
  <1>1. ASSUME NEW l \in RandomId, NEW A \in SUBSET Account, NEW bad \in BOOLEAN,
               AddKerberosLease(l, A, bad)
        PROVE  KrbDirTypeOK' /\ LeaseServiceTypeOK'
    <2>1. BeginAdd("AddKerberosLease", l, Host, {l} \X A, bad) /\ issued' \subseteq RandomId
      BY <1>1, <1>i DEF AddKerberosLease
    <2> QED BY <2>1, <1>i, <1>p, TypeBeginAdd
  <1>2. ASSUME NEW l \in RandomId, NEW u \in User, NEW A \in SUBSET Account, NEW bad \in BOOLEAN,
               AddNonDomainJoinedKerberosLease(l, u, A, bad)
        PROVE  KrbDirTypeOK' /\ LeaseServiceTypeOK'
    <2>1. BeginAdd("AddNonDomainJoinedKerberosLease", l, u, {l} \X A, bad)
          /\ issued' \subseteq RandomId
      BY <1>2, <1>i DEF AddNonDomainJoinedKerberosLease
    <2> QED BY <2>1, <1>i, <1>p, TypeBeginAdd
  <1>3. ASSUME NEW l \in TaskId, NEW u \in User, NEW A \in SUBSET Account, NEW bad \in BOOLEAN,
               AddKerberosArnLease(l, u, A, bad)
        PROVE  KrbDirTypeOK' /\ LeaseServiceTypeOK'
    <2>1. BeginAdd("AddKerberosArnLease", l, u, {l} \X A, bad) /\ issued' \subseteq RandomId
      BY <1>3, <1>i DEF AddKerberosArnLease
    <2> QED BY <2>1, <1>i, <1>p, TypeBeginAdd
  <1>4. ASSUME NEW l \in FileId, NEW a \in Account, NEW bad \in BOOLEAN,
               ProcessCredSpecFile(l, a, bad)
        PROVE  KrbDirTypeOK' /\ LeaseServiceTypeOK'
    <2> DEFINE T == IF bad THEN {} ELSE {<<l, a>>}
    <2>1. BeginAdd("ProcessCredSpecFile", l, Host, T, bad) /\ issued' \subseteq RandomId
      BY <1>4, <1>i DEF ProcessCredSpecFile
    <2>2. T \in SUBSET Ticket
      BY <1>i DEF Ticket
    <2> HIDE DEF T
    <2> QED BY <2>1, <2>2, <1>i, TypeBeginAdd
  <1>5. ASSUME NEW op \in RenewOps, NEW es \in SUBSET Entry, BeginRenew(op, es)
        PROVE  KrbDirTypeOK' /\ LeaseServiceTypeOK'
    BY <1>5 DEF BeginRenew, krbDirVars, TypeOK, KrbDirTypeOK, LeaseServiceTypeOK, Ops
  <1>6. ASSUME NEW u \in User, RenewNonDomainJoinedKerberosLease(u)
        PROVE  KrbDirTypeOK' /\ LeaseServiceTypeOK'
    BY <1>5, <1>6, TypeAllEntries DEF RenewNonDomainJoinedKerberosLease, RenewOps
  <1>7. ASSUME RenewKerberosArnLease PROVE KrbDirTypeOK' /\ LeaseServiceTypeOK'
    BY <1>5, <1>7, TypeAllEntries DEF RenewKerberosArnLease, RenewOps
  <1>8. ASSUME NEW l \in Lease, DeleteKerberosLease(l) PROVE KrbDirTypeOK' /\ LeaseServiceTypeOK'
    <2>1. KrbDirTypeOK'
      BY <1>8 DEF DeleteKerberosLease, krbDirVars, TypeOK, KrbDirTypeOK
    <2>2. LeaseServiceTypeOK'
      BY <1>8, TypeRead DEF DeleteKerberosLease, Reopen, TypeOK, LeaseServiceTypeOK, Ops
    <2> QED BY <2>1, <2>2
  <1>9. ASSUME NEW l \in Lease, DeleteMissingLease(l) PROVE KrbDirTypeOK' /\ LeaseServiceTypeOK'
    <2>1. KrbDirTypeOK'
      BY <1>9 DEF DeleteMissingLease, krbDirVars, TypeOK, KrbDirTypeOK
    <2>2. LeaseServiceTypeOK'
      BY <1>9 DEF DeleteMissingLease, Reopen, TypeOK, LeaseServiceTypeOK
    <2> QED BY <2>1, <2>2
  <1>10. ASSUME StartWithoutFile PROVE KrbDirTypeOK' /\ LeaseServiceTypeOK'
    <2>1. KrbDirTypeOK'
      BY <1>10 DEF StartWithoutFile, krbDirVars, TypeOK, KrbDirTypeOK
    <2>2. LeaseServiceTypeOK'
      BY <1>10 DEF StartWithoutFile, TypeOK, LeaseServiceTypeOK
    <2> QED BY <2>1, <2>2
  <1> QED BY <1>1, <1>2, <1>3, <1>4, <1>6, <1>7, <1>8, <1>9, <1>10 DEF Request, Startup

\* A fetch changes the cache of an entry and nothing else of the directory.
LEMMA TypeFetch ==
    ASSUME TypeOK, NEW e \in Entry, fetch_ok(e)
    PROVE  cc' \in [Ticket -> Cache]
  BY DEF TypeOK, KrbDirTypeOK, fetch_ok, Cache, Entry

\* A step of the create operations preserves the types.
LEMMA TypeAddProgress ==
    ASSUME TypeOK,
           \/ HostKinit \/ HostKinitError \/ FetchTicket \/ FetchTicketError \/ ReplyFailed
           \/ OpenMetadataFile \/ OpenMetadataFails \/ ReplyGranted
           \/ \E t \in Ticket : MakeTicketDir(t) \/ RemoveOnFailure(t)
    PROVE  KrbDirTypeOK' /\ LeaseServiceTypeOK'
  <1>1. CASE HostKinit
    <2>1. KrbDirTypeOK'
      BY <1>1 DEF HostKinit, TypeOK, KrbDirTypeOK
    <2>2. LeaseServiceTypeOK'
      BY <1>1 DEF HostKinit, TypeOK, LeaseServiceTypeOK
    <2> QED BY <2>1, <2>2
  <1>2. ASSUME gpc \in AddSteps, NEW T \in SUBSET Ticket, ToCleanup(T)
        PROVE  KrbDirTypeOK' /\ LeaseServiceTypeOK'
    <2>1. KrbDirTypeOK'
      BY <1>2 DEF ToCleanup, krbDirVars, TypeOK, KrbDirTypeOK
    <2>2. LeaseServiceTypeOK'
      BY <1>2 DEF ToCleanup, TypeOK, LeaseServiceTypeOK
    <2> QED BY <2>1, <2>2
  <1>3. CASE HostKinitError \/ FetchTicketError
    BY <1>2, <1>3 DEF HostKinitError, FetchTicketError, TypeOK, LeaseServiceTypeOK
  <1>4. ASSUME NEW t \in Ticket, MakeTicketDir(t) PROVE KrbDirTypeOK' /\ LeaseServiceTypeOK'
    <2>1. KrbDirTypeOK'
      BY <1>4, TicketParts DEF MakeTicketDir, TypeOK, KrbDirTypeOK, Cache
    <2>2. LeaseServiceTypeOK'
      BY <1>4, TicketParts DEF MakeTicketDir, TypeOK, LeaseServiceTypeOK
    <2> QED BY <2>1, <2>2
  <1>5. CASE FetchTicket
    <2>1. KrbDirTypeOK'
      BY <1>5, TypeFetch DEF FetchTicket, TypeOK, KrbDirTypeOK, LeaseServiceTypeOK
    <2>2. LeaseServiceTypeOK'
      BY <1>5 DEF FetchTicket, TypeOK, LeaseServiceTypeOK
    <2> QED BY <2>1, <2>2
  <1>6. ASSUME NEW t \in Ticket, RemoveOnFailure(t) PROVE KrbDirTypeOK' /\ LeaseServiceTypeOK'
    <2>1. KrbDirTypeOK'
      BY <1>6 DEF RemoveOnFailure, TypeOK, KrbDirTypeOK, Cache
    <2>2. LeaseServiceTypeOK'
      BY <1>6 DEF RemoveOnFailure, TypeOK, LeaseServiceTypeOK
    <2> QED BY <2>1, <2>2
  <1>r. \A ok \in BOOLEAN : EndPc(ok) \in RestSteps
    BY DEF EndPc
  <1>l. \A r \in Replies : [reply EXCEPT ![glease] = r] \in [Lease -> Replies]
    BY DEF TypeOK, LeaseServiceTypeOK, Replies
  <1>t. listed \subseteq Ticket
    BY DEF TypeOK, LeaseServiceTypeOK
  <1>7. CASE ReplyFailed
    <2>1. KrbDirTypeOK'
      BY <1>7 DEF ReplyFailed, krbDirVars, TypeOK, KrbDirTypeOK
    <2>2. LeaseServiceTypeOK'
      BY <1>7, <1>r, <1>l, <1>t, TypeRest DEF ReplyFailed, Replies
    <2> QED BY <2>1, <2>2
  <1>8. CASE OpenMetadataFile
    <2> glease \in Lease
      BY <1>8 DEF OpenMetadataFile, TypeOK, LeaseServiceTypeOK
    <2>1. KrbDirTypeOK'
      BY <1>8 DEF OpenMetadataFile, OpenMetadata, TypeOK, KrbDirTypeOK
    <2>2. LeaseServiceTypeOK'
      BY <1>8 DEF OpenMetadataFile, TypeOK, LeaseServiceTypeOK
    <2> QED BY <2>1, <2>2
  <1>9. CASE OpenMetadataFails
    <2> glease \in Lease
      BY <1>9 DEF OpenMetadataFails, TypeOK, LeaseServiceTypeOK
    <2>1. KrbDirTypeOK'
      BY <1>9 DEF OpenMetadataFails, TypeOK, KrbDirTypeOK
    <2>2. LeaseServiceTypeOK'
      BY <1>9, <1>r, <1>l, <1>t, TypeRest DEF OpenMetadataFails, Replies
    <2> QED BY <2>1, <2>2
  <1>10. CASE ReplyGranted
    <2>1. {[tkt |-> t, owner |-> gowner, isFile |-> t \in gfile] : t \in glist} \subseteq Entry
      <3>1. \A t \in glist : t \in Ticket /\ gowner \in Owner /\ (t \in gfile) \in BOOLEAN
        BY DEF TypeOK, LeaseServiceTypeOK
      <3>2. \A t \in glist : [tkt |-> t, owner |-> gowner, isFile |-> t \in gfile] \in Entry
        BY <3>1 DEF Entry
      <3> QED BY <3>2
    <2>2. KrbDirTypeOK'
      BY <1>10, <2>1 DEF ReplyGranted, FillMetadata, TypeOK, KrbDirTypeOK
    <2>3. LeaseServiceTypeOK'
      BY <1>10, <1>r, <1>l, <1>t, TypeRest DEF ReplyGranted, Replies
    <2> QED BY <2>2, <2>3
  <1> QED BY <1>1, <1>3, <1>4, <1>5, <1>6, <1>7, <1>8, <1>9, <1>10

\* A step of the renew and delete operations preserves the types.
LEMMA TypeRenewDelete ==
    ASSUME TypeOK,
           \/ RenewUserKinit \/ ReplyRenewed \/ BeginRemoveAll
           \/ RemoveTicketDir \/ RemoveTicketDirThrows \/ RemoveMetadata \/ ReplyDeleted
           \/ \E t \in Ticket : RemoveCache(t)
           \/ \E e \in Entry : \/ RenewTicket(e) \/ RenewTicketFails(e) \/ Kdestroy(e)
                               \/ RenewArnSkipsFile(e) \/ RenewArnOtherUser(e)
    PROVE  KrbDirTypeOK' /\ LeaseServiceTypeOK'
  <1>l. \A r \in Replies : [reply EXCEPT ![glease] = r] \in [Lease -> Replies]
    BY DEF TypeOK, LeaseServiceTypeOK, Replies
  <1>t. reply \in [Lease -> Replies] /\ listed \subseteq Ticket
    BY DEF TypeOK, LeaseServiceTypeOK, Replies
  <1>1. ASSUME NEW e \in Entry, RenewTicket(e) PROVE KrbDirTypeOK' /\ LeaseServiceTypeOK'
    <2>1. KrbDirTypeOK'
      BY <1>1, TypeFetch DEF RenewTicket, TypeOK, KrbDirTypeOK
    <2>2. LeaseServiceTypeOK'
      BY <1>1 DEF RenewTicket, TypeOK, LeaseServiceTypeOK
    <2> QED BY <2>1, <2>2
  <1>2. ASSUME NEW e \in Entry, RenewTicketFails(e) PROVE KrbDirTypeOK' /\ LeaseServiceTypeOK'
    <2>1. KrbDirTypeOK'
      BY <1>2 DEF RenewTicketFails, krbDirVars, TypeOK, KrbDirTypeOK
    <2>2. LeaseServiceTypeOK'
      BY <1>2 DEF RenewTicketFails, TypeOK, LeaseServiceTypeOK
    <2> QED BY <2>1, <2>2
  <1>3. CASE RenewUserKinit
    <2>1. KrbDirTypeOK'
      BY <1>3 DEF RenewUserKinit, TypeOK, KrbDirTypeOK
    <2>2. LeaseServiceTypeOK'
      BY <1>3 DEF RenewUserKinit, TypeOK, LeaseServiceTypeOK
    <2> QED BY <2>1, <2>2
  <1>4. ASSUME NEW e \in Entry, RenewArnSkipsFile(e) \/ RenewArnOtherUser(e)
        PROVE  KrbDirTypeOK' /\ LeaseServiceTypeOK'
    <2>1. KrbDirTypeOK'
      BY <1>4 DEF RenewArnSkipsFile, RenewArnOtherUser, krbDirVars, TypeOK, KrbDirTypeOK
    <2>2. LeaseServiceTypeOK'
      BY <1>4 DEF RenewArnSkipsFile, RenewArnOtherUser, TypeOK, LeaseServiceTypeOK
    <2> QED BY <2>1, <2>2
  <1>5. CASE ReplyRenewed
    <2>1. KrbDirTypeOK'
      BY <1>5 DEF ReplyRenewed, krbDirVars, TypeOK, KrbDirTypeOK
    <2>2. LeaseServiceTypeOK'
      BY <1>5, <1>t, TypeRest DEF ReplyRenewed
    <2> QED BY <2>1, <2>2
  <1>6. ASSUME NEW e \in Entry, Kdestroy(e) PROVE KrbDirTypeOK' /\ LeaseServiceTypeOK'
    <2>0. e.tkt \in Ticket
      BY DEF Entry
    <2>1. KrbDirTypeOK'
      BY <1>6, <2>0 DEF Kdestroy, TypeOK, KrbDirTypeOK, Cache
    <2>2. LeaseServiceTypeOK'
      BY <1>6, <2>0 DEF Kdestroy, TypeOK, LeaseServiceTypeOK
    <2> QED BY <2>1, <2>2
  <1>7. CASE BeginRemoveAll
    <2>1. KrbDirTypeOK'
      BY <1>7 DEF BeginRemoveAll, krbDirVars, TypeOK, KrbDirTypeOK
    <2>2. LeaseServiceTypeOK'
      BY <1>7 DEF BeginRemoveAll, TypeOK, KrbDirTypeOK, LeaseServiceTypeOK
    <2> QED BY <2>1, <2>2
  <1>8. ASSUME NEW t \in Ticket, RemoveCache(t) PROVE KrbDirTypeOK' /\ LeaseServiceTypeOK'
    <2>1. KrbDirTypeOK'
      BY <1>8 DEF RemoveCache, TypeOK, KrbDirTypeOK, Cache
    <2>2. LeaseServiceTypeOK'
      BY <1>8, TicketParts DEF RemoveCache, TypeOK, LeaseServiceTypeOK
    <2> QED BY <2>1, <2>2
  <1>9. CASE RemoveTicketDir
    <2>1. KrbDirTypeOK'
      BY <1>9 DEF RemoveTicketDir, TypeOK, KrbDirTypeOK
    <2>2. LeaseServiceTypeOK'
      BY <1>9 DEF RemoveTicketDir, TypeOK, LeaseServiceTypeOK
    <2> QED BY <2>1, <2>2
  <1>10. CASE RemoveTicketDirThrows
    <2>1. KrbDirTypeOK'
      BY <1>10 DEF RemoveTicketDirThrows, krbDirVars, TypeOK, KrbDirTypeOK
    <2>2. LeaseServiceTypeOK'
      BY <1>10, <1>l, <1>t, TypeRest DEF RemoveTicketDirThrows, Replies
    <2> QED BY <2>1, <2>2
  <1>11. CASE RemoveMetadata
    <2>1. KrbDirTypeOK'
      BY <1>11 DEF RemoveMetadata, TypeOK, KrbDirTypeOK
    <2>2. LeaseServiceTypeOK'
      BY <1>11 DEF RemoveMetadata, TypeOK, LeaseServiceTypeOK
    <2> QED BY <2>1, <2>2
  <1>12. CASE ReplyDeleted
    <2>1. KrbDirTypeOK'
      BY <1>12 DEF ReplyDeleted, TypeOK, KrbDirTypeOK
    <2>2. LeaseServiceTypeOK'
      BY <1>12, <1>l, <1>t, TypeRest DEF ReplyDeleted, Replies
    <2> QED BY <2>1, <2>2
  <1> QED BY <1>1, <1>2, <1>3, <1>4, <1>5, <1>6, <1>7, <1>8, <1>9, <1>10, <1>11, <1>12

\* A step of the renewal thread preserves the types.
LEMMA TypeRenewal ==
    ASSUME TypeOK, RenewalNext
    PROVE  KrbDirTypeOK' /\ RenewalTypeOK'
  <1> USE DEF num_retries
  <1>1. ASSUME RenewalStarts \/ ScanEnds \/ RoundEnds \/ ScanThrows \/ RenewalFetchFails
        PROVE  KrbDirTypeOK' /\ RenewalTypeOK'
    <2>1. KrbDirTypeOK'
      BY <1>1 DEF RenewalStarts, ScanEnds, RoundEnds, ScanThrows, RenewalFetchFails, krbDirVars,
                  TypeOK, KrbDirTypeOK
    <2>2. RenewalTypeOK'
      BY <1>1 DEF RenewalStarts, ScanEnds, RoundEnds, ScanThrows, RenewalFetchFails,
                  RenewalClear, TypeOK, KrbDirTypeOK, RenewalTypeOK
    <2> QED BY <2>1, <2>2
  <1>2. ASSUME NEW l \in Lease, ScanLease(l) \/ ReadMetadata(l)
        PROVE  KrbDirTypeOK' /\ RenewalTypeOK'
    <2>1. KrbDirTypeOK'
      BY <1>2 DEF ScanLease, ReadMetadata, krbDirVars, TypeOK, KrbDirTypeOK
    <2>2. RenewalTypeOK'
      BY <1>2, TypeRead DEF ScanLease, ReadMetadata, TypeOK, KrbDirTypeOK, RenewalTypeOK
    <2> QED BY <2>1, <2>2
  <1>3. ASSUME NEW t \in Ticket, ScanTicketDir(t) PROVE KrbDirTypeOK' /\ RenewalTypeOK'
    <2>1. KrbDirTypeOK'
      BY <1>3 DEF ScanTicketDir, krbDirVars, TypeOK, KrbDirTypeOK
    <2>2. RenewalTypeOK'
      BY <1>3 DEF ScanTicketDir, TypeOK, RenewalTypeOK
    <2> QED BY <2>1, <2>2
  <1>4. ASSUME NEW e \in Entry, CheckTicket(e) PROVE KrbDirTypeOK' /\ RenewalTypeOK'
    <2>1. KrbDirTypeOK'
      BY <1>4 DEF CheckTicket, krbDirVars, TypeOK, KrbDirTypeOK
    <2>2. RenewalTypeOK'
      BY <1>4 DEF CheckTicket, TypeOK, RenewalTypeOK
    <2> QED BY <2>1, <2>2
  <1>5. CASE RenewalFetch
    <2>1. rcur \in Entry /\ rtry \in 0 .. 1
      BY <1>5 DEF RenewalFetch, TypeOK, RenewalTypeOK
    <2>2. KrbDirTypeOK'
      BY <1>5, <2>1, TypeFetch DEF RenewalFetch, TypeOK, KrbDirTypeOK
    <2>3. RenewalTypeOK'
      BY <1>5, <2>1 DEF RenewalFetch, NextTry, TypeOK, RenewalTypeOK
    <2> QED BY <2>2, <2>3
  <1>6. CASE RenewalHostKinit
    <2>1. KrbDirTypeOK'
      BY <1>6 DEF RenewalHostKinit, TypeOK, KrbDirTypeOK
    <2>2. RenewalTypeOK'
      BY <1>6 DEF RenewalHostKinit, TypeOK, RenewalTypeOK
    <2> QED BY <2>1, <2>2
  <1>7. CASE RenewalHostKinitError
    <2>1. KrbDirTypeOK'
      BY <1>7 DEF RenewalHostKinitError, krbDirVars, TypeOK, KrbDirTypeOK
    <2>2. RenewalTypeOK'
      BY <1>7 DEF RenewalHostKinitError, NextTry, TypeOK, RenewalTypeOK
    <2> QED BY <2>1, <2>2
  <1> QED BY <1>1, <1>2, <1>3, <1>4, <1>5, <1>6, <1>7 DEF RenewalNext

\* Whatever the operations, the renewal thread and the crashes do, the directory
\* and both stack frames stay well formed; in particular every step that works
\* on a lease or an entry has one in hand (TypeOK).
THEOREM TypeCorrect == Spec => []TypeOK
  <1>1. TypeOK /\ [Next]_vars => TypeOK'
    <2> SUFFICES ASSUME TypeOK, [Next]_vars PROVE TypeOK'
      OBVIOUS
    <2>k. ASSUME UNCHANGED krbDirVars PROVE KrbDirTypeOK'
      BY <2>k DEF krbDirVars, TypeOK, KrbDirTypeOK
    <2>g. ASSUME UNCHANGED grpcVars PROVE LeaseServiceTypeOK'
      BY <2>g DEF grpcVars, TypeOK, LeaseServiceTypeOK
    <2>r. ASSUME UNCHANGED renewalVars PROVE RenewalTypeOK'
      BY <2>r DEF renewalVars, TypeOK, RenewalTypeOK
    <2>1. CASE GrpcStep
      <3>1. KrbDirTypeOK' /\ LeaseServiceTypeOK'
        BY <2>1, TypeBegin, TypeAddProgress, TypeRenewDelete DEF GrpcStep, Progress
      <3> QED BY <2>1, <3>1, <2>r DEF GrpcStep, TypeOK
    <2>2. CASE RenewalStep
      BY <2>2, <2>g, TypeRenewal DEF RenewalStep, TypeOK
    <2>3. ASSUME NEW t \in Ticket, TicketAges(t) PROVE TypeOK'
      <3>1. KrbDirTypeOK'
        BY <2>3 DEF TicketAges, TypeOK, KrbDirTypeOK, Cache
      <3> QED BY <2>3, <3>1, <2>g, <2>r DEF TicketAges, TypeOK
    <2>4. CASE HostTgtExpires
      <3>1. KrbDirTypeOK'
        BY <2>4 DEF HostTgtExpires, TypeOK, KrbDirTypeOK
      <3> QED BY <2>4, <3>1, <2>g, <2>r DEF HostTgtExpires, TypeOK
    <2>5. CASE StartThreads \/ ProcessDies
      <3>1. LeaseServiceTypeOK'
        BY <2>5, TypeRest DEF StartThreads, ProcessDies, TypeOK, LeaseServiceTypeOK, Replies
      <3>2. RenewalTypeOK'
        BY <2>5 DEF StartThreads, ProcessDies, RenewalClear, RenewalTypeOK, num_retries
      <3> QED BY <2>5, <3>1, <3>2, <2>k DEF StartThreads, ProcessDies, TypeOK
    <2>6. CASE UNCHANGED vars
      BY <2>6, <2>k, <2>g, <2>r DEF vars, TypeOK
    <2> QED BY <2>1, <2>2, <2>3, <2>4, <2>5, <2>6 DEF Next
  <1> QED BY TypeInit, <1>1, PTL DEF Spec

-----------------------------------------------------------------------------
(* The lease invariant. *)

\* The variables LeaseInv looks at, without the caches.
leaseVars == <<leaseDir, acctDir, metaFile, meta, gpc, gop, glease, glist, gtodo, gents, gcur, reply>>

\* The same without the stack frame of the gRPC thread.
diskVars == <<leaseDir, acctDir, cc, metaFile, meta>>

\* The tickets of a lease are tickets, and no ticket belongs to two leases.
LEMMA TicketLease == \A t \in Ticket : t[1] \in Lease
  BY DEF Ticket

\* An entry names a ticket of a lease.
LEMMA EntryTicket == \A e \in Entry : e.tkt \in Ticket /\ e.tkt[1] \in Lease
  BY TicketLease DEF Entry

\* A step that only writes caches, takes no ticket away and makes none outside
\* a ticket directory, preserves the invariant.
LEMMA CacheStep ==
    ASSUME LeaseInv, TypeOK', UNCHANGED leaseVars,
           \A t \in Ticket : /\ HasTicket(cc[t]) => HasTicket(cc'[t])
                             /\ t \notin acctDir => cc'[t] = "absent"
    PROVE  LeaseInv'
  <1> USE DEF leaseVars, LeaseInv
  <1>1. DirectoryTree'
    BY DEF DirectoryTree
  <1>2. OwnEntries'
    BY DEF OwnEntries
  <1>3. CreateFrame'
    BY DEF CreateFrame, TicketsOf
  <1>4. TicketsMade'
    BY DEF TicketsMade, TypeOK, LeaseServiceTypeOK
  <1>5. DeleteFrame'
    BY DEF DeleteFrame, TicketsOf
  <1>6. DeletedStaysGone'
    BY DEF DeletedStaysGone, TicketsOf
  <1>7. "metadata_open" \notin Faults => GrantedIsComplete'
    BY EntryTicket DEF GrantedIsComplete, TypeOK, KrbDirTypeOK
  <1> QED BY <1>1, <1>2, <1>3, <1>4, <1>5, <1>6, <1>7

\* A fetch takes no ticket away and makes none outside a ticket directory.
LEMMA FetchKeeps ==
    ASSUME TypeOK, DirectoryTree, NEW e \in Entry, fetch_ok(e)
    PROVE  \A t \in Ticket : /\ HasTicket(cc[t]) => HasTicket(cc'[t])
                             /\ t \notin acctDir => cc'[t] = "absent"
  BY EntryTicket DEF fetch_ok, CanFetch, TypeOK, KrbDirTypeOK, DirectoryTree, HasTicket

\* The thread goes to rest: what remains to show is about the disk and the reply.
LEMMA RestStep ==
    ASSUME LeaseInv, TypeOK', NEW pc \in RestSteps, Rest(pc),
           DirectoryTree', OwnEntries', DeletedStaysGone',
           "metadata_open" \notin Faults => GrantedIsComplete'
    PROVE  LeaseInv'
  <1>1. gpc' \notin AddSteps \cup DeleteSteps
    BY DEF Rest
  <1>2. CreateFrame'
    BY <1>1 DEF CreateFrame
  <1>3. TicketsMade'
    BY <1>1 DEF TicketsMade
  <1>4. DeleteFrame'
    BY <1>1 DEF DeleteFrame
  <1> QED BY <1>2, <1>3, <1>4 DEF LeaseInv

\* The disk is as it was, and so are its parts of the invariant.
LEMMA DiskKept ==
    ASSUME LeaseInv, UNCHANGED diskVars
    PROVE  DirectoryTree' /\ OwnEntries'
  BY DEF LeaseInv, diskVars, DirectoryTree, OwnEntries

\* Nothing of the disk changes and no reply becomes "granted" or "deleted".
LEMMA PromisesKept ==
    ASSUME LeaseInv, UNCHANGED diskVars,
           \A l \in Lease : reply'[l] \in {"granted", "deleted"} => reply'[l] = reply[l]
    PROVE  DeletedStaysGone' /\ ("metadata_open" \notin Faults => GrantedIsComplete')
  <1>1. DeletedStaysGone'
    BY DEF LeaseInv, diskVars, DeletedStaysGone, TicketsOf
  <1>2. "metadata_open" \notin Faults => GrantedIsComplete'
    BY DEF LeaseInv, diskVars, GrantedIsComplete
  <1> QED BY <1>1, <1>2

\* A create operation begins.
LEMMA BeginAddStep ==
    ASSUME LeaseInv, TypeOK',
           NEW l \in Lease, NEW op \in AddOps, NEW o, NEW T \in SUBSET Ticket,
           NEW bad \in BOOLEAN, T \subseteq TicketsOf(l), BeginAdd(op, l, o, T, bad)
    PROVE  LeaseInv'
  <1>0. UNCHANGED diskVars /\ reply' = [reply EXCEPT ![l] = "none"]
        /\ reply \in [Lease -> Replies]
    BY DEF BeginAdd, Reopen, diskVars, krbDirVars, LeaseInv, TypeOK, LeaseServiceTypeOK, Replies
  <1>1. DirectoryTree' /\ OwnEntries' /\ DeletedStaysGone'
        /\ ("metadata_open" \notin Faults => GrantedIsComplete')
    BY <1>0, DiskKept, PromisesKept
  <1>2. CreateFrame'
    BY <1>0 DEF BeginAdd, CreateFrame, TicketsOf
  <1>3. TicketsMade'
    BY DEF BeginAdd, TicketsMade
  <1>4. DeleteFrame'
    <2>1. gpc' \notin DeleteSteps
      BY DEF BeginAdd
    <2> QED BY <2>1 DEF DeleteFrame
  <1> QED BY <1>1, <1>2, <1>3, <1>4 DEF LeaseInv

\* A step of a create operation that leaves the disk alone.
LEMMA CreateStepOffDisk ==
    ASSUME LeaseInv, TypeOK', gpc \in AddSteps, gpc' \in AddSteps,
           UNCHANGED diskVars, UNCHANGED <<gop, glease, glist, reply>>,
           gtodo' \subseteq gtodo \cup glist, gpc' # "fill", TicketsMade'
    PROVE  LeaseInv'
  <1>1. DirectoryTree' /\ OwnEntries' /\ DeletedStaysGone'
        /\ ("metadata_open" \notin Faults => GrantedIsComplete')
    BY DiskKept, PromisesKept
  <1>2. CreateFrame'
    BY DEF LeaseInv, CreateFrame, TicketsOf
  <1>3. DeleteFrame'
    BY DEF DeleteFrame
  <1> QED BY <1>1, <1>2, <1>3 DEF LeaseInv

\* The kinit into the default cache before a ticket is made.
LEMMA HostKinitStep ==
    ASSUME LeaseInv, TypeOK', HostKinit
    PROVE  LeaseInv'
  <1>1. TicketsMade'
    BY DEF HostKinit, LeaseInv, TicketsMade
  <1> QED BY <1>1, CreateStepOffDisk DEF HostKinit, diskVars

\* A create operation gives up and turns to its cleanup.
LEMMA ToCleanupStep ==
    ASSUME LeaseInv, TypeOK', HostKinitError \/ FetchTicketError
    PROVE  LeaseInv'
  <1>1. TicketsMade'
    BY DEF HostKinitError, FetchTicketError, ToCleanup, TicketsMade
  <1> QED BY <1>1, CreateStepOffDisk
      DEF HostKinitError, FetchTicketError, ToCleanup, diskVars, krbDirVars

\* The ticket directory is made: it belongs to the lease in hand, which has been
\* neither granted nor deleted since the operation began.
LEMMA MakeTicketDirStep ==
    ASSUME LeaseInv, TypeOK', NEW t \in Ticket, MakeTicketDir(t)
    PROVE  LeaseInv'
  <1>0. /\ t[1] = glease /\ glease \in Lease /\ reply[glease] = "none"
        /\ reply' = reply /\ glease' = glease /\ metaFile' = metaFile /\ meta' = meta
        /\ leaseDir' = leaseDir \cup {glease} /\ acctDir' = acctDir \cup {t}
        /\ \A s \in Ticket : s # t => cc'[s] = cc[s]
    BY TicketLease DEF MakeTicketDir, LeaseInv, CreateFrame, TicketsOf, TypeOK, KrbDirTypeOK
  <1>1. DirectoryTree'
    BY <1>0 DEF LeaseInv, DirectoryTree
  <1>2. OwnEntries'
    BY <1>0 DEF LeaseInv, OwnEntries
  <1>3. CreateFrame'
    BY <1>0 DEF MakeTicketDir, LeaseInv, CreateFrame, TicketsOf
  <1>4. TicketsMade'
    <2>1. gcur'.tkt = t /\ gpc' = "fetch" /\ gtodo' = gtodo \ {t} /\ glist' = glist
          /\ glist \subseteq Ticket
      BY DEF MakeTicketDir, CacheEntry, LeaseInv, TypeOK, LeaseServiceTypeOK
    <2>2. \A s \in glist \ gtodo : s \in acctDir /\ HasTicket(cc[s])
      BY DEF MakeTicketDir, LeaseInv, TicketsMade
    <2> QED BY <1>0, <2>1, <2>2 DEF TicketsMade
  <1>5. DeleteFrame'
    BY DEF MakeTicketDir, DeleteFrame
  <1>6. DeletedStaysGone'
    BY <1>0 DEF LeaseInv, DeletedStaysGone, TicketsOf
  <1>7. "metadata_open" \notin Faults => GrantedIsComplete'
    BY <1>0, EntryTicket DEF LeaseInv, GrantedIsComplete, OwnEntries, TypeOK, KrbDirTypeOK
  <1> QED BY <1>1, <1>2, <1>3, <1>4, <1>5, <1>6, <1>7 DEF LeaseInv

\* The ticket in hand is fetched.
LEMMA FetchTicketStep ==
    ASSUME LeaseInv, TypeOK', FetchTicket
    PROVE  LeaseInv'
  <1>0. gcur \in Entry
    BY DEF FetchTicket, LeaseInv, TypeOK, LeaseServiceTypeOK
  <1>1. /\ gcur.tkt \in acctDir /\ HasTicket(cc'[gcur.tkt])
        /\ UNCHANGED <<leaseDir, acctDir, metaFile, meta, gop, glease, glist, gtodo, reply>>
    BY <1>0, EntryTicket DEF FetchTicket, fetch_ok, CanFetch, HasTicket, LeaseInv, TypeOK, KrbDirTypeOK
  <1>2. \A t \in Ticket : /\ HasTicket(cc[t]) => HasTicket(cc'[t])
                          /\ t \notin acctDir => cc'[t] = "absent"
    BY <1>0, FetchKeeps DEF FetchTicket, LeaseInv
  <1>3. DirectoryTree'
    BY <1>1, <1>2 DEF LeaseInv, DirectoryTree
  <1>4. OwnEntries'
    BY <1>1 DEF LeaseInv, OwnEntries
  <1>5. CreateFrame'
    BY <1>1 DEF FetchTicket, LeaseInv, CreateFrame, TicketsOf
  <1>6. TicketsMade'
    BY <1>1, <1>2 DEF FetchTicket, LeaseInv, TicketsMade, TypeOK, LeaseServiceTypeOK
  <1>7. DeleteFrame'
    BY DEF FetchTicket, DeleteFrame
  <1>8. DeletedStaysGone'
    BY <1>1, <1>2 DEF LeaseInv, DeletedStaysGone, TicketsOf
  <1>9. "metadata_open" \notin Faults => GrantedIsComplete'
    BY <1>1, <1>2, EntryTicket DEF LeaseInv, GrantedIsComplete, TypeOK, KrbDirTypeOK
  <1> QED BY <1>3, <1>4, <1>5, <1>6, <1>7, <1>8, <1>9 DEF LeaseInv

\* The cleanup of a failed create removes a cache of its own lease.
LEMMA RemoveOnFailureStep ==
    ASSUME LeaseInv, TypeOK', NEW t \in Ticket, RemoveOnFailure(t)
    PROVE  LeaseInv'
  <1>0. /\ t[1] = glease /\ glease \in Lease /\ reply[glease] = "none" /\ cc'[t] = "absent"
        /\ UNCHANGED <<leaseDir, metaFile, meta, gpc, gop, glease, glist, reply>>
        /\ \A s \in Ticket : s # t => cc'[s] = cc[s] /\ (s \in acctDir <=> s \in acctDir')
        /\ acctDir' \subseteq acctDir
        /\ gtodo' \subseteq gtodo /\ gpc = "cleanup"
    BY TicketLease DEF RemoveOnFailure, LeaseInv, CreateFrame, TicketsOf, TypeOK, KrbDirTypeOK
  <1>1. DirectoryTree'
    BY <1>0 DEF LeaseInv, DirectoryTree
  <1>2. OwnEntries'
    BY <1>0 DEF LeaseInv, OwnEntries
  <1>3. CreateFrame'
    BY <1>0 DEF LeaseInv, CreateFrame, TicketsOf
  <1>4. TicketsMade' /\ DeleteFrame'
    BY <1>0 DEF TicketsMade, DeleteFrame
  <1>5. DeletedStaysGone'
    BY <1>0 DEF LeaseInv, DeletedStaysGone, TicketsOf
  <1>6. "metadata_open" \notin Faults => GrantedIsComplete'
    BY <1>0, EntryTicket DEF LeaseInv, GrantedIsComplete, OwnEntries, TypeOK, KrbDirTypeOK
  <1> QED BY <1>1, <1>2, <1>3, <1>4, <1>5, <1>6 DEF LeaseInv

\* The reply of a failed create promises nothing.
LEMMA ReplyFailedStep ==
    ASSUME LeaseInv, TypeOK', ReplyFailed
    PROVE  LeaseInv'
  <1>1. UNCHANGED diskVars /\ EndPc(FALSE) \in RestSteps /\ Rest(EndPc(FALSE))
    BY DEF ReplyFailed, EndPc, diskVars, krbDirVars
  <1>2. \A l \in Lease : reply'[l] \in {"granted", "deleted"} => reply'[l] = reply[l]
    BY DEF ReplyFailed, LeaseInv, TypeOK, LeaseServiceTypeOK
  <1> QED BY <1>1, <1>2, DiskKept, PromisesKept, RestStep

\* The metadata file is truncated: the lease is not yet granted.
LEMMA OpenMetadataFileStep ==
    ASSUME LeaseInv, TypeOK', OpenMetadataFile
    PROVE  LeaseInv'
  <1>0. /\ glease \in Lease /\ reply[glease] = "none"
        /\ leaseDir' = leaseDir \cup {glease} /\ meta'[glease] = {}
        /\ \A l \in Lease : l # glease => meta'[l] = meta[l] /\ metaFile'[l] = metaFile[l]
        /\ UNCHANGED <<acctDir, cc, gop, glease, glist, gtodo, reply>>
        /\ gpc = "open" /\ gpc' = "fill"
    BY DEF OpenMetadataFile, OpenMetadata, LeaseInv, CreateFrame, TypeOK, KrbDirTypeOK,
           LeaseServiceTypeOK
  <1>1. DirectoryTree'
    BY <1>0 DEF LeaseInv, DirectoryTree
  <1>2. OwnEntries'
    BY <1>0 DEF LeaseInv, OwnEntries
  <1>3. CreateFrame'
    BY <1>0 DEF LeaseInv, CreateFrame, TicketsOf
  <1>4. TicketsMade'
    BY <1>0 DEF LeaseInv, TicketsMade
  <1>5. DeleteFrame'
    BY <1>0 DEF DeleteFrame
  <1>6. DeletedStaysGone'
    BY <1>0 DEF LeaseInv, DeletedStaysGone, TicketsOf
  <1>7. "metadata_open" \notin Faults => GrantedIsComplete'
    BY <1>0 DEF LeaseInv, GrantedIsComplete
  <1> QED BY <1>1, <1>2, <1>3, <1>4, <1>5, <1>6, <1>7 DEF LeaseInv

\* A metadata file that cannot be opened is where an OK answer breaks its promise.
LEMMA OpenMetadataFailsStep ==
    ASSUME LeaseInv, TypeOK', OpenMetadataFails
    PROVE  LeaseInv'
  <1>0. /\ glease \in Lease /\ leaseDir' = leaseDir \cup {glease}
        /\ UNCHANGED <<acctDir, cc, metaFile, meta>>
        /\ "metadata_open" \in Faults /\ reply[glease] = "none"
        /\ reply'[glease] = "granted" /\ \A l \in Lease : l # glease => reply'[l] = reply[l]
    BY DEF OpenMetadataFails, LeaseInv, CreateFrame, TypeOK, LeaseServiceTypeOK
  <1>1. DirectoryTree'
    BY <1>0 DEF LeaseInv, DirectoryTree
  <1>2. OwnEntries'
    BY <1>0 DEF LeaseInv, OwnEntries
  <1>3. DeletedStaysGone'
    BY <1>0 DEF LeaseInv, DeletedStaysGone, TicketsOf
  <1>4. EndPc(TRUE) \in RestSteps /\ Rest(EndPc(TRUE))
    BY DEF OpenMetadataFails, EndPc
  <1> QED BY <1>0, <1>1, <1>2, <1>3, <1>4, RestStep

\* The metadata is written: it lists the tickets that were made, and no others.
LEMMA ReplyGrantedStep ==
    ASSUME LeaseInv, TypeOK', ReplyGranted
    PROVE  LeaseInv'
  <1>0. /\ glease \in Lease /\ glease \in leaseDir
        /\ UNCHANGED <<leaseDir, acctDir, cc>>
        /\ metaFile'[glease] = "ok"
        /\ meta'[glease] = {[tkt |-> t, owner |-> gowner, isFile |-> t \in gfile] : t \in glist}
        /\ \A l \in Lease : l # glease =>
              meta'[l] = meta[l] /\ metaFile'[l] = metaFile[l] /\ reply'[l] = reply[l]
        /\ reply'[glease] = "granted"
    BY DEF ReplyGranted, FillMetadata, LeaseInv, CreateFrame, TypeOK, KrbDirTypeOK,
           LeaseServiceTypeOK
  <1>g. \A t \in glist : t[1] = glease /\ t \in acctDir /\ HasTicket(cc[t])
    BY DEF ReplyGranted, LeaseInv, CreateFrame, TicketsMade, TicketsOf
  <1>e. \A e \in meta'[glease] : e.tkt \in glist
    BY <1>0
  <1>1. DirectoryTree'
    BY <1>0 DEF LeaseInv, DirectoryTree
  <1>2. OwnEntries'
    BY <1>0, <1>g, <1>e DEF LeaseInv, OwnEntries
  <1>3. DeletedStaysGone'
    BY <1>0 DEF LeaseInv, DeletedStaysGone, TicketsOf
  <1>4. "metadata_open" \notin Faults => GrantedIsComplete'
    BY <1>0, <1>g, <1>e DEF LeaseInv, GrantedIsComplete
  <1>5. EndPc(TRUE) \in RestSteps /\ Rest(EndPc(TRUE))
    BY DEF ReplyGranted, EndPc
  <1> QED BY <1>1, <1>2, <1>3, <1>4, <1>5, RestStep

-----------------------------------------------------------------------------
\* While the thread renews tickets or rests, its frame says nothing of a lease.
LEMMA RenewStepOffDisk ==
    ASSUME LeaseInv, TypeOK', gpc' \in RenewSteps \cup RestSteps, UNCHANGED diskVars,
           UNCHANGED reply
    PROVE  LeaseInv'
  <1>1. DirectoryTree' /\ OwnEntries' /\ DeletedStaysGone'
        /\ ("metadata_open" \notin Faults => GrantedIsComplete')
    BY DiskKept, PromisesKept
  <1>2. CreateFrame'
    BY DEF CreateFrame
  <1>3. TicketsMade'
    BY DEF TicketsMade
  <1>4. DeleteFrame'
    BY DEF DeleteFrame
  <1> QED BY <1>1, <1>2, <1>3, <1>4 DEF LeaseInv

\* A renew request fetches into ticket directories that exist, and nowhere else.
LEMMA RenewStep ==
    ASSUME LeaseInv, TypeOK',
           \/ \E op \in RenewOps, es \in SUBSET Entry : BeginRenew(op, es)
           \/ StartWithoutFile \/ RenewUserKinit \/ ReplyRenewed
           \/ \E e \in Entry : \/ RenewTicket(e) \/ RenewTicketFails(e)
                               \/ RenewArnSkipsFile(e) \/ RenewArnOtherUser(e)
    PROVE  LeaseInv'
  <1>1. ASSUME NEW e \in Entry, RenewTicket(e) PROVE LeaseInv'
    <2>1. \A t \in Ticket : /\ HasTicket(cc[t]) => HasTicket(cc'[t])
                            /\ t \notin acctDir => cc'[t] = "absent"
      BY <1>1, FetchKeeps DEF RenewTicket, LeaseInv
    <2>2. UNCHANGED <<leaseDir, acctDir, metaFile, meta, reply>> /\ gpc' = "renew"
      BY <1>1 DEF RenewTicket
    <2>3. DirectoryTree'
      BY <2>1, <2>2 DEF LeaseInv, DirectoryTree
    <2>4. OwnEntries'
      BY <2>2 DEF LeaseInv, OwnEntries
    <2>5. CreateFrame' /\ TicketsMade' /\ DeleteFrame'
      BY <2>2 DEF CreateFrame, TicketsMade, DeleteFrame
    <2>6. DeletedStaysGone'
      BY <2>1, <2>2 DEF LeaseInv, DeletedStaysGone, TicketsOf
    <2>7. "metadata_open" \notin Faults => GrantedIsComplete'
      BY <2>1, <2>2, EntryTicket DEF LeaseInv, GrantedIsComplete, TypeOK, KrbDirTypeOK
    <2> QED BY <2>3, <2>4, <2>5, <2>6, <2>7 DEF LeaseInv
  <1>2. ASSUME NEW e \in Entry, RenewTicketFails(e) \/ RenewArnSkipsFile(e) \/ RenewArnOtherUser(e)
        PROVE  LeaseInv'
    <2>1. gpc' \in RenewSteps /\ UNCHANGED diskVars /\ UNCHANGED reply
      BY <1>2 DEF RenewTicketFails, RenewArnSkipsFile, RenewArnOtherUser, diskVars, krbDirVars
    <2> QED BY <2>1, RenewStepOffDisk
  <1>3. CASE RenewUserKinit \/ ReplyRenewed \/ StartWithoutFile
    <2>1. gpc' \in RenewSteps \cup RestSteps /\ UNCHANGED diskVars /\ UNCHANGED reply
      BY <1>3 DEF RenewUserKinit, ReplyRenewed, StartWithoutFile, Rest, diskVars, krbDirVars
    <2> QED BY <2>1, RenewStepOffDisk
  <1>4. ASSUME NEW op \in RenewOps, NEW es \in SUBSET Entry, BeginRenew(op, es) PROVE LeaseInv'
    <2>1. gpc' \in RenewSteps /\ UNCHANGED diskVars /\ UNCHANGED reply
      BY <1>4 DEF BeginRenew, diskVars, krbDirVars
    <2> QED BY <2>1, RenewStepOffDisk
  <1> QED BY <1>1, <1>2, <1>3, <1>4

-----------------------------------------------------------------------------
\* A deletion begins: its entries are those of the lease's own metadata.
LEMMA DeleteKerberosLeaseStep ==
    ASSUME LeaseInv, TypeOK', NEW l \in Lease, DeleteKerberosLease(l)
    PROVE  LeaseInv'
  <1>0. /\ UNCHANGED diskVars /\ gpc' = "kdestroy" /\ glease' = l
        /\ gop' = "DeleteKerberosLease" /\ reply'[l] = "deleting"
        /\ \A k \in Lease : k # l => reply'[k] = reply[k]
        /\ gents' \subseteq meta[l]
    BY DEF DeleteKerberosLease, Reopen, read_meta_data_json, diskVars, krbDirVars, LeaseInv,
           TypeOK, LeaseServiceTypeOK
  <1>1. DirectoryTree' /\ OwnEntries' /\ DeletedStaysGone'
        /\ ("metadata_open" \notin Faults => GrantedIsComplete')
    BY <1>0, DiskKept, PromisesKept
  <1>2. CreateFrame' /\ TicketsMade'
    BY <1>0 DEF CreateFrame, TicketsMade
  <1>3. DeleteFrame'
    BY <1>0 DEF DeleteFrame, LeaseInv, OwnEntries
  <1> QED BY <1>1, <1>2, <1>3 DEF LeaseInv

\* There is no lease directory, and so nothing below it.
LEMMA DeleteMissingLeaseStep ==
    ASSUME LeaseInv, TypeOK', NEW l \in Lease, DeleteMissingLease(l)
    PROVE  LeaseInv'
  <1>0. /\ UNCHANGED diskVars /\ gpc' = "idle" /\ l \notin leaseDir /\ reply'[l] = "deleted"
        /\ \A k \in Lease : k # l => reply'[k] = reply[k]
    BY DEF DeleteMissingLease, Reopen, diskVars, krbDirVars, LeaseInv, TypeOK, LeaseServiceTypeOK
  <1>1. DirectoryTree' /\ OwnEntries'
    BY <1>0, DiskKept
  <1>2. CreateFrame' /\ TicketsMade' /\ DeleteFrame'
    BY <1>0 DEF CreateFrame, TicketsMade, DeleteFrame
  <1>3. DeletedStaysGone'
    BY <1>0 DEF LeaseInv, DirectoryTree, DeletedStaysGone, TicketsOf, diskVars
  <1>4. "metadata_open" \notin Faults => GrantedIsComplete'
    BY <1>0 DEF LeaseInv, GrantedIsComplete, diskVars
  <1> QED BY <1>1, <1>2, <1>3, <1>4 DEF LeaseInv

\* A cache of the lease in hand is removed; the lease is being deleted.
LEMMA DeleteCacheStep ==
    ASSUME LeaseInv, TypeOK', NEW t \in Ticket, t[1] = glease, gpc \in DeleteSteps,
           cc' = cc \/ cc' = [cc EXCEPT ![t] = "absent"],
           UNCHANGED <<leaseDir, acctDir, metaFile, meta, gop, glease, gtodo, reply>>,
           gents' \subseteq gents, gpc' \in DeleteSteps, DeleteFrame'
    PROVE  LeaseInv'
  <1>0. /\ reply[glease] = "deleting"
        /\ \A s \in Ticket : s # t => cc'[s] = cc[s]
        /\ cc'[t] = cc[t] \/ cc'[t] = "absent"
    BY DEF LeaseInv, DeleteFrame, TypeOK, KrbDirTypeOK
  <1>1. DirectoryTree'
    BY <1>0 DEF LeaseInv, DirectoryTree
  <1>2. OwnEntries'
    BY DEF LeaseInv, OwnEntries
  <1>3. CreateFrame' /\ TicketsMade'
    BY DEF CreateFrame, TicketsMade
  <1>4. DeletedStaysGone'
    BY <1>0 DEF LeaseInv, DeletedStaysGone, TicketsOf
  <1>5. "metadata_open" \notin Faults => GrantedIsComplete'
    BY <1>0, EntryTicket DEF LeaseInv, GrantedIsComplete, OwnEntries, TypeOK, KrbDirTypeOK
  <1> QED BY <1>1, <1>2, <1>3, <1>4, <1>5 DEF LeaseInv

\* kdestroy on an entry of the lease's metadata.
LEMMA KdestroyStep ==
    ASSUME LeaseInv, TypeOK', NEW e \in Entry, Kdestroy(e)
    PROVE  LeaseInv'
  <1>1. e.tkt \in Ticket /\ e.tkt[1] = glease
    BY EntryTicket DEF Kdestroy, LeaseInv, DeleteFrame
  <1>2. cc' = cc \/ cc' = [cc EXCEPT ![e.tkt] = "absent"]
    BY DEF Kdestroy
  <1>3. DeleteFrame'
    BY DEF Kdestroy, LeaseInv, DeleteFrame
  <1> QED BY <1>1, <1>2, <1>3, DeleteCacheStep DEF Kdestroy

\* remove_all empties a ticket directory.
LEMMA RemoveCacheStep ==
    ASSUME LeaseInv, TypeOK', NEW t \in Ticket, RemoveCache(t)
    PROVE  LeaseInv'
  <1>1. t[1] = glease
    BY DEF RemoveCache, LeaseInv, DeleteFrame, TicketsOf
  <1>2. DeleteFrame'
    BY DEF RemoveCache, CacheEntry, LeaseInv, DeleteFrame, TicketsOf
  <1> QED BY <1>1, <1>2, DeleteCacheStep DEF RemoveCache

\* remove_all lists every ticket directory of the lease.
LEMMA BeginRemoveAllStep ==
    ASSUME LeaseInv, TypeOK', BeginRemoveAll
    PROVE  LeaseInv'
  <1>0. UNCHANGED diskVars /\ gpc' = "unlink"
        /\ UNCHANGED <<gop, glease, gents, reply>>
        /\ gtodo' = {t \in acctDir : t[1] = glease} /\ acctDir \subseteq Ticket
    BY DEF BeginRemoveAll, diskVars, krbDirVars, LeaseInv, TypeOK, KrbDirTypeOK
  <1>1. DirectoryTree' /\ OwnEntries' /\ DeletedStaysGone'
        /\ ("metadata_open" \notin Faults => GrantedIsComplete')
    BY <1>0, DiskKept, PromisesKept
  <1>2. CreateFrame' /\ TicketsMade'
    BY <1>0 DEF CreateFrame, TicketsMade
  <1>3. DeleteFrame'
    BY <1>0 DEF BeginRemoveAll, LeaseInv, DeleteFrame, TicketsOf, diskVars
  <1> QED BY <1>1, <1>2, <1>3 DEF LeaseInv

\* rmdir succeeds on an empty directory only.
LEMMA RemoveTicketDirStep ==
    ASSUME LeaseInv, TypeOK', RemoveTicketDir
    PROVE  LeaseInv'
  <1>0. /\ gcur.tkt \in Ticket /\ gcur.tkt[1] = glease /\ reply[glease] = "deleting"
        /\ cc[gcur.tkt] = "absent" /\ acctDir' = acctDir \ {gcur.tkt}
        /\ gtodo' = gtodo \ {gcur.tkt} /\ gpc' = "unlink"
        /\ UNCHANGED <<leaseDir, cc, metaFile, meta, gop, glease, gents, reply>>
    BY DEF RemoveTicketDir, LeaseInv, DeleteFrame, TicketsOf
  <1>1. DirectoryTree'
    BY <1>0 DEF LeaseInv, DirectoryTree
  <1>2. OwnEntries'
    BY <1>0 DEF LeaseInv, OwnEntries
  <1>3. CreateFrame' /\ TicketsMade'
    BY <1>0 DEF CreateFrame, TicketsMade
  <1>4. DeleteFrame'
    BY <1>0 DEF RemoveTicketDir, LeaseInv, DeleteFrame, TicketsOf
  <1>5. DeletedStaysGone'
    BY <1>0 DEF LeaseInv, DeletedStaysGone, TicketsOf
  <1>6. "metadata_open" \notin Faults => GrantedIsComplete'
    BY <1>0, EntryTicket DEF LeaseInv, GrantedIsComplete, OwnEntries, TypeOK, KrbDirTypeOK
  <1> QED BY <1>1, <1>2, <1>3, <1>4, <1>5, <1>6 DEF LeaseInv

\* remove_all gives up: the reply promises nothing about the lease.
LEMMA RemoveTicketDirThrowsStep ==
    ASSUME LeaseInv, TypeOK', RemoveTicketDirThrows
    PROVE  LeaseInv'
  <1>1. PICK pc \in RestSteps : Rest(pc)
    BY DEF RemoveTicketDirThrows
  <1>2. UNCHANGED diskVars
        /\ \A l \in Lease : reply'[l] \in {"granted", "deleted"} => reply'[l] = reply[l]
    BY DEF RemoveTicketDirThrows, diskVars, krbDirVars, LeaseInv, TypeOK, LeaseServiceTypeOK
  <1> QED BY <1>1, <1>2, DiskKept, PromisesKept, RestStep

\* remove_all removes the metadata file of the lease being deleted.
LEMMA RemoveMetadataStep ==
    ASSUME LeaseInv, TypeOK', RemoveMetadata
    PROVE  LeaseInv'
  <1>0. /\ glease \in Lease /\ reply[glease] = "deleting"
        /\ metaFile'[glease] = "absent" /\ meta'[glease] = {}
        /\ \A l \in Lease : l # glease => metaFile'[l] = metaFile[l] /\ meta'[l] = meta[l]
        /\ UNCHANGED <<leaseDir, acctDir, cc, gpc, gop, glease, gtodo, gents, gcur, reply>>
        /\ gpc = "unlink"
    BY DEF RemoveMetadata, LeaseInv, DeleteFrame, TypeOK, KrbDirTypeOK, LeaseServiceTypeOK
  <1>1. DirectoryTree'
    BY <1>0 DEF LeaseInv, DirectoryTree
  <1>2. OwnEntries'
    BY <1>0 DEF LeaseInv, OwnEntries
  <1>3. CreateFrame' /\ TicketsMade'
    BY <1>0 DEF CreateFrame, TicketsMade
  <1>4. DeleteFrame'
    BY <1>0 DEF LeaseInv, DeleteFrame, TicketsOf
  <1>5. DeletedStaysGone'
    BY <1>0 DEF LeaseInv, DeletedStaysGone, TicketsOf
  <1>6. "metadata_open" \notin Faults => GrantedIsComplete'
    BY <1>0 DEF LeaseInv, GrantedIsComplete
  <1> QED BY <1>1, <1>2, <1>3, <1>4, <1>5, <1>6 DEF LeaseInv

\* The lease directory goes when nothing is left in it, of the tickets that were
\* there when remove_all began or of later ones.
LEMMA ReplyDeletedStep ==
    ASSUME LeaseInv, TypeOK', ReplyDeleted
    PROVE  LeaseInv'
  <1>0. /\ glease \in Lease /\ leaseDir' = leaseDir \ {glease}
        /\ UNCHANGED <<acctDir, cc, metaFile, meta>>
        /\ metaFile[glease] = "absent" /\ reply'[glease] = "deleted"
        /\ \A l \in Lease : l # glease => reply'[l] = reply[l]
        /\ acctDir \cap TicketsOf(glease) = {} /\ acctDir \subseteq Ticket
    BY DEF ReplyDeleted, LeaseInv, DeleteFrame, TypeOK, KrbDirTypeOK, LeaseServiceTypeOK
  <1>1. DirectoryTree'
    BY <1>0 DEF LeaseInv, DirectoryTree, TicketsOf
  <1>2. OwnEntries'
    BY <1>0 DEF LeaseInv, OwnEntries
  <1>3. DeletedStaysGone'
    BY <1>0 DEF LeaseInv, DirectoryTree, DeletedStaysGone, TicketsOf
  <1>4. "metadata_open" \notin Faults => GrantedIsComplete'
    BY <1>0 DEF LeaseInv, GrantedIsComplete
  <1> QED BY <1>1, <1>2, <1>3, <1>4, RestStep DEF ReplyDeleted

-----------------------------------------------------------------------------
\* Every step of a request or of the operation in progress.
LEMMA GrpcSteps ==
    ASSUME LeaseInv, TypeOK', GrpcStep
    PROVE  LeaseInv'
  <1> USE DEF AddOps
  <1>l. RandomId \subseteq Lease /\ TaskId \subseteq Lease /\ FileId \subseteq Lease
    BY DEF Lease
  <1>p. \A l \in Lease, A \in SUBSET Account :
           {l} \X A \in SUBSET Ticket /\ {l} \X A \subseteq TicketsOf(l)
    BY DEF Ticket, TicketsOf
  <1>1. ASSUME NEW l \in RandomId, NEW A \in SUBSET Account, NEW bad \in BOOLEAN,
               AddKerberosLease(l, A, bad)
        PROVE  LeaseInv'
    <2>1. BeginAdd("AddKerberosLease", l, Host, {l} \X A, bad)
      BY <1>1 DEF AddKerberosLease
    <2> QED BY <2>1, <1>l, <1>p, BeginAddStep
  <1>2. ASSUME NEW l \in RandomId, NEW u \in User, NEW A \in SUBSET Account, NEW bad \in BOOLEAN,
               AddNonDomainJoinedKerberosLease(l, u, A, bad)
        PROVE  LeaseInv'
    <2>1. BeginAdd("AddNonDomainJoinedKerberosLease", l, u, {l} \X A, bad)
      BY <1>2 DEF AddNonDomainJoinedKerberosLease
    <2> QED BY <2>1, <1>l, <1>p, BeginAddStep
  <1>3. ASSUME NEW l \in TaskId, NEW u \in User, NEW A \in SUBSET Account, NEW bad \in BOOLEAN,
               AddKerberosArnLease(l, u, A, bad)
        PROVE  LeaseInv'
    <2>1. BeginAdd("AddKerberosArnLease", l, u, {l} \X A, bad)
      BY <1>3 DEF AddKerberosArnLease
    <2> QED BY <2>1, <1>l, <1>p, BeginAddStep
  <1>4. ASSUME NEW l \in FileId, NEW a \in Account, NEW bad \in BOOLEAN,
               ProcessCredSpecFile(l, a, bad)
        PROVE  LeaseInv'
    <2> DEFINE T == IF bad THEN {} ELSE {<<l, a>>}
    <2>1. BeginAdd("ProcessCredSpecFile", l, Host, T, bad)
      BY <1>4 DEF ProcessCredSpecFile
    <2>2. T \in SUBSET Ticket /\ T \subseteq TicketsOf(l)
      BY <1>l DEF Ticket, TicketsOf
    <2> HIDE DEF T
    <2> QED BY <2>1, <2>2, <1>l, BeginAddStep
  <1>5. ASSUME NEW u \in User, RenewNonDomainJoinedKerberosLease(u) PROVE LeaseInv'
    BY <1>5, TypeAllEntries, RenewStep DEF RenewNonDomainJoinedKerberosLease, RenewOps, LeaseInv
  <1>6. CASE RenewKerberosArnLease
    BY <1>6, TypeAllEntries, RenewStep DEF RenewKerberosArnLease, RenewOps, LeaseInv
  <1>7. CASE Startup
    BY <1>7, <1>4, RenewStep DEF Startup
  <1>8. CASE Request
    BY <1>8, <1>1, <1>2, <1>3, <1>5, <1>6, DeleteKerberosLeaseStep, DeleteMissingLeaseStep
       DEF Request
  <1>9. CASE Progress
    BY <1>9, HostKinitStep, ToCleanupStep, MakeTicketDirStep, FetchTicketStep,
       RemoveOnFailureStep, ReplyFailedStep, OpenMetadataFileStep, OpenMetadataFailsStep,
       ReplyGrantedStep, RenewStep, KdestroyStep, BeginRemoveAllStep, RemoveCacheStep,
       RemoveTicketDirStep, RemoveTicketDirThrowsStep, RemoveMetadataStep, ReplyDeletedStep
       DEF Progress
  <1> QED BY <1>7, <1>8, <1>9 DEF GrpcStep

\* The renewal thread leaves the caches alone or fetches the ticket in its hand.
LEMMA RenewalCaches ==
    ASSUME TypeOK, RenewalNext
    PROVE  cc' = cc \/ (rcur \in Entry /\ fetch_ok(rcur))
  <1>1. CASE RenewalFetch
    BY <1>1 DEF RenewalFetch, TypeOK, RenewalTypeOK
  <1>2. CASE \/ RenewalStarts \/ ScanThrows \/ ScanEnds \/ RoundEnds \/ RenewalFetchFails
             \/ RenewalHostKinit \/ RenewalHostKinitError
             \/ \E l \in Lease : ScanLease(l) \/ ReadMetadata(l)
             \/ \E t \in Ticket : ScanTicketDir(t)
             \/ \E e \in Entry : CheckTicket(e)
    BY <1>2 DEF RenewalStarts, ScanLease, ScanTicketDir, ScanThrows, ScanEnds, ReadMetadata,
                RoundEnds, CheckTicket, RenewalFetchFails, RenewalHostKinit,
                RenewalHostKinitError, krbDirVars
  <1> QED BY <1>1, <1>2 DEF RenewalNext

\* Every step of the renewal thread: it fetches into existing ticket directories
\* and changes nothing else the invariant looks at.
LEMMA RenewalSteps ==
    ASSUME LeaseInv, TypeOK', RenewalStep
    PROVE  LeaseInv'
  <1>1. UNCHANGED leaseVars
    BY DEF RenewalStep, RenewalNext, RenewalStarts, ScanLease, ScanTicketDir, ScanThrows,
           ScanEnds, ReadMetadata, RoundEnds, CheckTicket, RenewalFetch, RenewalFetchFails,
           RenewalHostKinit, RenewalHostKinitError, krbDirVars, grpcVars, leaseVars
  <1>2. cc' = cc \/ (rcur \in Entry /\ fetch_ok(rcur))
    BY RenewalCaches DEF RenewalStep, LeaseInv
  <1>3. \A t \in Ticket : /\ HasTicket(cc[t]) => HasTicket(cc'[t])
                          /\ t \notin acctDir => cc'[t] = "absent"
    <2>1. CASE cc' = cc
      BY <2>1 DEF LeaseInv, DirectoryTree
    <2>2. CASE rcur \in Entry /\ fetch_ok(rcur)
      BY <2>2, FetchKeeps DEF LeaseInv
    <2> QED BY <1>2, <2>1, <2>2
  <1> QED BY <1>1, <1>3, CacheStep

\* LeaseInv is an invariant of the daemon: the directory tree, the frames of the
\* operations in progress and the promises of the replies, for every set of
\* leases, accounts and users and with crashes at every step.
THEOREM LeaseInvariant == Spec => []LeaseInv
  <1>1. Init => LeaseInv
    <2> SUFFICES ASSUME Init PROVE LeaseInv
      OBVIOUS
    <2>1. TypeOK
      BY TypeInit
    <2>2. /\ acctDir = {} /\ cc = [t \in Ticket |-> "absent"]
          /\ metaFile = [l \in Lease |-> "absent"] /\ meta = [l \in Lease |-> {}]
          /\ gpc = "down" /\ reply = [l \in Lease |-> "none"]
      BY DEF Init, KrbDirInit, LeaseServiceInit
    <2>3. DirectoryTree /\ OwnEntries
      BY <2>2 DEF DirectoryTree, OwnEntries
    <2>4. CreateFrame /\ TicketsMade /\ DeleteFrame
      BY <2>2 DEF CreateFrame, TicketsMade, DeleteFrame
    <2>5. DeletedStaysGone /\ GrantedIsComplete
      BY <2>2 DEF DeletedStaysGone, GrantedIsComplete
    <2> QED BY <2>1, <2>3, <2>4, <2>5 DEF LeaseInv
  <1>2. LeaseInv /\ TypeOK' /\ [Next]_vars => LeaseInv'
    <2> SUFFICES ASSUME LeaseInv, TypeOK', [Next]_vars PROVE LeaseInv'
      OBVIOUS
    <2>k. ASSUME UNCHANGED leaseVars, cc' = cc PROVE LeaseInv'
      BY <2>k, CacheStep DEF LeaseInv, DirectoryTree
    <2>1. CASE GrpcStep
      BY <2>1, GrpcSteps
    <2>2. CASE RenewalStep
      BY <2>2, RenewalSteps
    <2>3. ASSUME NEW t \in Ticket, TicketAges(t) PROVE LeaseInv'
      <3>1. UNCHANGED leaseVars
        BY <2>3 DEF TicketAges, grpcVars, leaseVars
      <3>2. \A s \in Ticket : /\ HasTicket(cc[s]) => HasTicket(cc'[s])
                              /\ s \notin acctDir => cc'[s] = "absent"
        BY <2>3 DEF TicketAges, HasTicket, LeaseInv, DirectoryTree, TypeOK, KrbDirTypeOK
      <3> QED BY <3>1, <3>2, CacheStep
    <2>4. CASE HostTgtExpires
      BY <2>4, <2>k DEF HostTgtExpires, grpcVars, leaseVars
    <2>5. CASE StartThreads \/ ProcessDies
      <3>1. gpc' \in RestSteps /\ UNCHANGED diskVars /\ UNCHANGED reply
        BY <2>5 DEF StartThreads, ProcessDies, Rest, diskVars, krbDirVars
      <3> QED BY <3>1, RenewStepOffDisk
    <2>6. CASE UNCHANGED vars
      BY <2>6, <2>k DEF vars, krbDirVars, grpcVars, leaseVars
    <2> QED BY <2>1, <2>2, <2>3, <2>4, <2>5, <2>6 DEF Next
  <1>3. Spec => []TypeOK
    BY TypeCorrect
  <1> QED BY <1>1, <1>2, <1>3, PTL DEF Spec

\* Nothing of a deleted lease comes back (DeletedStaysGone): kinit of the renewal
\* thread cannot make the directory that remove_all has taken away.
THEOREM DeletedLeaseStaysGone == Spec => []DeletedStaysGone
  <1>1. LeaseInv => DeletedStaysGone
    BY DEF LeaseInv
  <1> QED BY <1>1, LeaseInvariant, PTL

\* A granted lease stays complete (GrantedIsComplete), provided the metadata file
\* can be opened for writing: write_meta_data_json hides that failure.
THEOREM GrantedLeaseIsComplete ==
    ASSUME "metadata_open" \notin Faults
    PROVE  Spec => []GrantedIsComplete
  <1>1. LeaseInv => GrantedIsComplete
    BY DEF LeaseInv
  <1> QED BY <1>1, LeaseInvariant, PTL

\* What a step that loses a ticket must be.
LosesOwn ==
    \A t \in Ticket : HasTicket(cc[t]) /\ ~HasTicket(cc'[t]) =>
        glease = t[1] /\ gop \in AddOps \cup {"DeleteKerberosLease"}

\* The steps that leave the caches alone, or only make tickets, lose none.
LEMMA KeepsTickets ==
    ASSUME LeaseInv,
           cc' = cc \/ \E e \in Entry : fetch_ok(e)
    PROVE  LosesOwn
  <1>1. CASE cc' = cc
    BY <1>1 DEF LosesOwn
  <1>2. ASSUME NEW e \in Entry, fetch_ok(e) PROVE LosesOwn
    BY <1>2, FetchKeeps DEF LosesOwn, LeaseInv
  <1> QED BY <1>1, <1>2

\* A ticket is lost only to an operation on its own lease (TicketLostByOwnLease):
\* to the cleanup of a failed create, to the removal of the directory at startup
\* or to a deletion; never to the renewal thread, a renew request or a crash.
THEOREM TicketsLostByOwnLease == Spec => TicketLostByOwnLease
  <1>1. LeaseInv /\ [Next]_vars => [LosesOwn]_vars
    <2> SUFFICES ASSUME LeaseInv, Next PROVE LosesOwn
      OBVIOUS
    <2>c. cc \in [Ticket -> Cache]
      BY DEF LeaseInv, TypeOK, KrbDirTypeOK
    <2>1. CASE GrpcStep
      <3>1. CASE Request \/ Startup
        <4>1. cc' = cc
          BY <3>1 DEF Request, Startup, AddKerberosLease, AddNonDomainJoinedKerberosLease,
             AddKerberosArnLease, BeginAdd, ProcessCredSpecFile, StartWithoutFile, BeginRenew,
             RenewNonDomainJoinedKerberosLease, RenewKerberosArnLease, DeleteKerberosLease,
             DeleteMissingLease, krbDirVars
        <4> QED BY <4>1, KeepsTickets
      <3>2. ASSUME NEW t \in Ticket, MakeTicketDir(t) \/ RemoveOnFailure(t) PROVE LosesOwn
        <4>1. t[1] = glease /\ gop \in AddOps
          BY <3>2 DEF MakeTicketDir, RemoveOnFailure, LeaseInv, CreateFrame, TicketsOf
        <4>2. \A s \in Ticket : s # t => cc'[s] = cc[s]
          BY <3>2, <2>c DEF MakeTicketDir, RemoveOnFailure
        <4> QED BY <4>1, <4>2 DEF LosesOwn
      <3>3. ASSUME NEW t \in Ticket, RemoveCache(t) PROVE LosesOwn
        <4>1. t[1] = glease /\ gop = "DeleteKerberosLease"
          BY <3>3 DEF RemoveCache, LeaseInv, DeleteFrame, TicketsOf
        <4>2. \A s \in Ticket : s # t => cc'[s] = cc[s]
          BY <3>3, <2>c DEF RemoveCache
        <4> QED BY <4>1, <4>2 DEF LosesOwn
      <3>4. ASSUME NEW e \in Entry, Kdestroy(e) PROVE LosesOwn
        <4>1. e.tkt[1] = glease /\ gop = "DeleteKerberosLease"
          BY <3>4 DEF Kdestroy, LeaseInv, DeleteFrame
        <4>2. \A s \in Ticket : s # e.tkt => cc'[s] = cc[s]
          BY <3>4, <2>c DEF Kdestroy
        <4> QED BY <4>1, <4>2 DEF LosesOwn
      <3>5. CASE FetchTicket
        BY <3>5, KeepsTickets DEF FetchTicket, LeaseInv, TypeOK, LeaseServiceTypeOK
      <3>6. ASSUME NEW e \in Entry, RenewTicket(e) PROVE LosesOwn
        BY <3>6, KeepsTickets DEF RenewTicket
      <3>7. ASSUME \/ HostKinit \/ HostKinitError \/ FetchTicketError \/ ReplyFailed
                   \/ OpenMetadataFile \/ OpenMetadataFails \/ ReplyGranted
                   \/ \E e \in Entry : \/ RenewTicketFails(e) \/ RenewArnSkipsFile(e)
                                       \/ RenewArnOtherUser(e)
                   \/ RenewUserKinit \/ ReplyRenewed
                   \/ BeginRemoveAll \/ RemoveTicketDir \/ RemoveTicketDirThrows
                   \/ RemoveMetadata \/ ReplyDeleted
            PROVE  LosesOwn
        <4>1. cc' = cc
          BY <3>7 DEF HostKinit, HostKinitError, FetchTicketError, ToCleanup, ReplyFailed,
             OpenMetadataFile, OpenMetadataFails, ReplyGranted, RenewTicketFails,
             RenewArnSkipsFile, RenewArnOtherUser, RenewUserKinit, ReplyRenewed,
             BeginRemoveAll, RemoveTicketDir, RemoveTicketDirThrows, RemoveMetadata,
             ReplyDeleted, krbDirVars
        <4> QED BY <4>1, KeepsTickets
      <3> QED BY <2>1, <3>1, <3>2, <3>3, <3>4, <3>5, <3>6, <3>7 DEF GrpcStep, Progress
    <2>2. CASE RenewalStep
      <3>1. cc' = cc \/ (rcur \in Entry /\ fetch_ok(rcur))
        BY <2>2, RenewalCaches DEF RenewalStep, LeaseInv
      <3> QED BY <3>1, KeepsTickets
    <2>3. ASSUME NEW t \in Ticket, TicketAges(t) PROVE LosesOwn
      BY <2>3, <2>c DEF TicketAges, HasTicket, LosesOwn
    <2>4. CASE HostTgtExpires \/ StartThreads \/ ProcessDies
      <3>1. cc' = cc
        BY <2>4 DEF HostTgtExpires, StartThreads, ProcessDies, krbDirVars
      <3> QED BY <3>1, KeepsTickets
    <2> QED BY <2>1, <2>2, <2>3, <2>4 DEF Next
  <1>2. Spec => [][LosesOwn]_vars
    BY <1>1, LeaseInvariant, PTL DEF Spec
  <1> QED BY <1>2 DEF TicketLostByOwnLease, LosesOwn

-----------------------------------------------------------------------------
(* Bounded work: how far an operation and a round are from their end. *)

\* There are finitely many tickets and entries to name.
LEMMA FiniteNames ==
    ASSUME IsFiniteSet(Lease), IsFiniteSet(Account), IsFiniteSet(User)
    PROVE  IsFiniteSet(Ticket) /\ IsFiniteSet(Entry)
  <1>1. IsFiniteSet(Ticket)
    BY FS_Product DEF Ticket
  <1>2. IsFiniteSet(Owner)
    BY FS_AddElement DEF Owner
  <1>3. IsFiniteSet(BOOLEAN)
    <2>1. BOOLEAN = {TRUE} \cup {FALSE}
      OBVIOUS
    <2>2. IsFiniteSet({TRUE}) /\ IsFiniteSet({FALSE})
      BY FS_Singleton, Zenon
    <2>3. IsFiniteSet({TRUE} \cup {FALSE})
      BY <2>2, FS_Union, Zenon
    <2> QED BY <2>1, <2>3, Zenon
  <1> DEFINE Triple == Ticket \X (Owner \X BOOLEAN)
             make == [p \in Triple |-> [tkt |-> p[1], owner |-> p[2][1], isFile |-> p[2][2]]]
  <1>4. IsFiniteSet(Triple)
    BY <1>1, <1>2, <1>3, FS_Product
  <1>5. make \in Surjection(Triple, Entry)
    <2>1. make \in [Triple -> Entry]
      BY DEF Entry
    <2>2. ASSUME NEW e \in Entry PROVE \E p \in Triple : make[p] = e
      <3>1. <<e.tkt, <<e.owner, e.isFile>>>> \in Triple
            /\ make[<<e.tkt, <<e.owner, e.isFile>>>>] = e
        BY DEF Entry
      <3> QED BY <3>1
    <2> QED BY <2>1, <2>2 DEF Surjection
  <1> QED BY <1>1, <1>4, <1>5, FS_Surjection

\* Counting in a finite set: what is taken away makes it smaller.
LEMMA Count ==
    ASSUME NEW U, IsFiniteSet(U), NEW S \in SUBSET U
    PROVE  /\ Cardinality(S) \in Nat
           /\ \A x \in S : Cardinality(S \ {x}) = Cardinality(S) - 1 /\ Cardinality(S) > 0
           /\ \A R \in SUBSET S : Cardinality(R) \in Nat /\ Cardinality(R) <= Cardinality(S)
           /\ S = {} => Cardinality(S) = 0
  <1>1. IsFiniteSet(S)
    BY FS_Subset
  <1>2. Cardinality(S) \in Nat
    BY <1>1, FS_CardinalityType
  <1>3. ASSUME NEW x \in S PROVE Cardinality(S \ {x}) = Cardinality(S) - 1 /\ Cardinality(S) > 0
    <2>1. IsFiniteSet(S \ {x}) /\ Cardinality(S \ {x}) = Cardinality(S) - 1
      BY <1>1, FS_RemoveElement
    <2>2. Cardinality(S \ {x}) \in Nat
      BY <2>1, FS_CardinalityType
    <2> QED BY <1>2, <2>1, <2>2
  <1>4. ASSUME NEW R \in SUBSET S
        PROVE  Cardinality(R) \in Nat /\ Cardinality(R) <= Cardinality(S)
    BY <1>1, FS_Subset, FS_CardinalityType
  <1>5. S = {} => Cardinality(S) = 0
    BY FS_EmptySet
  <1> QED BY <1>2, <1>3, <1>4, <1>5

\* The metadata file that remove_all has still to remove.
FileLeft == IF metaFile[glease] = "absent" THEN 0 ELSE 1

\* The ticket directories that remove_all will find.
DirsLeft == acctDir \cap TicketsOf(glease)

\* StepsLeft, one place of the handlers at a time.
StepTable ==
    /\ gpc = "host" => StepsLeft = 3 * Cardinality(gtodo) + Cardinality(glist) + 3
    /\ gpc = "mkdir" => StepsLeft = 3 * Cardinality(gtodo) + Cardinality(glist) + 2
    /\ gpc = "fetch" => StepsLeft = 3 * Cardinality(gtodo) + Cardinality(glist) + 4
    /\ gpc = "open" => StepsLeft = 2
    /\ gpc = "fill" => StepsLeft = 1
    /\ gpc = "cleanup" => StepsLeft = Cardinality(gtodo) + 1
    /\ gpc = "renew" => StepsLeft = 4 * Cardinality(gents) + 1
    /\ gpc = "rekinit1" => StepsLeft = 4 * Cardinality(gents) + 4
    /\ gpc = "retry" => StepsLeft = 4 * Cardinality(gents) + 3
    /\ gpc = "rekinit2" => StepsLeft = 4 * Cardinality(gents) + 2
    /\ gpc = "kdestroy" => StepsLeft = Cardinality(gents) + 2 * Cardinality(DirsLeft) + 3
    /\ gpc = "unlink" => StepsLeft = 2 * Cardinality(gtodo) + FileLeft + 1
    /\ gpc = "rmdir" => StepsLeft = 2 * Cardinality(gtodo) + FileLeft
    /\ gpc \in RestSteps => StepsLeft = 0

\* Before and after a step.
LEMMA StepValues == StepTable /\ StepTable'
  BY DEF StepsLeft, StepTable, DirsLeft, FileLeft

\* The sizes StepsLeft is made of, and that it is a number.
LEMMA StepSizes ==
    ASSUME IsFiniteSet(Ticket), IsFiniteSet(Entry)
    PROVE  TypeOK => /\ Cardinality(gtodo) \in Nat /\ Cardinality(glist) \in Nat
                     /\ Cardinality(gents) \in Nat /\ Cardinality(DirsLeft) \in Nat
                     /\ FileLeft \in {0, 1} /\ StepsLeft \in Nat
  <1> SUFFICES ASSUME TypeOK PROVE /\ Cardinality(gtodo) \in Nat /\ Cardinality(glist) \in Nat
                     /\ Cardinality(gents) \in Nat /\ Cardinality(DirsLeft) \in Nat
                     /\ FileLeft \in {0, 1} /\ StepsLeft \in Nat
    OBVIOUS
  <1>1. Cardinality(gtodo) \in Nat /\ Cardinality(glist) \in Nat /\ Cardinality(DirsLeft) \in Nat
    <2>1. gtodo \in SUBSET Ticket /\ glist \in SUBSET Ticket /\ DirsLeft \in SUBSET Ticket
      BY DEF TypeOK, KrbDirTypeOK, LeaseServiceTypeOK, DirsLeft
    <2> QED BY <2>1, Count
  <1>2. Cardinality(gents) \in Nat
    BY Count DEF TypeOK, LeaseServiceTypeOK
  <1>3. FileLeft \in {0, 1}
    BY DEF FileLeft
  <1>4. gpc \in AddSteps \cup RenewSteps \cup DeleteSteps \cup RestSteps
    BY DEF TypeOK, LeaseServiceTypeOK
  <1>5. StepsLeft \in Nat
    <2>1. CASE gpc \in AddSteps
      BY <1>1, <2>1, StepValues DEF StepTable
    <2>2. CASE gpc \in RenewSteps
      BY <1>2, <2>2, StepValues DEF StepTable
    <2>3. CASE gpc \in DeleteSteps
      BY <1>1, <1>2, <1>3, <2>3, StepValues DEF StepTable
    <2>4. CASE gpc \in RestSteps
      BY <2>4, StepValues DEF StepTable
    <2> QED BY <1>4, <2>1, <2>2, <2>3, <2>4
  <1> QED BY <1>1, <1>2, <1>3, <1>5

\* What a step of the operation in progress does: it is one step nearer to its reply.
Advances == StepsLeft' < StepsLeft /\ ~UNCHANGED <<grpcVars, metaFile>>

\* An operation that ends had at least a step to go.
LEMMA EndAdvances ==
    ASSUME TypeOK, IsFiniteSet(Ticket), IsFiniteSet(Entry), gpc \notin RestSteps,
           gpc = "rmdir" => gtodo # {}, NEW pc \in RestSteps, Rest(pc)
    PROVE  Advances
  <1>1. gpc' \in RestSteps /\ gpc' # gpc
    BY DEF Rest
  <1>2. StepsLeft' = 0
    BY <1>1, StepValues DEF StepTable
  <1>3. gpc = "rmdir" => Cardinality(gtodo) > 0
    <2>1. gtodo \in SUBSET Ticket
      BY DEF TypeOK, LeaseServiceTypeOK
    <2> QED BY <2>1, Count
  <1>4. StepsLeft > 0
    BY <1>3, StepValues, StepSizes DEF StepTable, TypeOK, LeaseServiceTypeOK
  <1> QED BY <1>1, <1>2, <1>4 DEF Advances, grpcVars

\* A step of a create operation brings its reply nearer.
LEMMA AddAdvances ==
    ASSUME LeaseInv, IsFiniteSet(Ticket), IsFiniteSet(Entry),
           \/ HostKinit \/ HostKinitError \/ FetchTicket \/ FetchTicketError \/ ReplyFailed
           \/ OpenMetadataFile \/ OpenMetadataFails \/ ReplyGranted
           \/ \E t \in Ticket : MakeTicketDir(t) \/ RemoveOnFailure(t)
    PROVE  Advances
  <1>s. Cardinality(gtodo) \in Nat /\ Cardinality(glist) \in Nat /\ Cardinality({}) = 0
    BY StepSizes, FS_EmptySet DEF LeaseInv
  <1>t. \A t \in gtodo : Cardinality(gtodo \ {t}) = Cardinality(gtodo) - 1
    <2>1. gtodo \in SUBSET Ticket
      BY DEF LeaseInv, TypeOK, LeaseServiceTypeOK
    <2> QED BY <2>1, Count
  <1>0. ASSUME gpc' # gpc, StepsLeft' < StepsLeft PROVE Advances
    BY <1>0 DEF Advances, grpcVars
  <1>1. CASE HostKinit
    <2>1. gpc = "host" /\ gpc' = "mkdir" /\ gtodo' = gtodo /\ glist' = glist
      BY <1>1 DEF HostKinit
    <2>2. StepsLeft' < StepsLeft
      BY <1>s, <2>1, StepValues DEF StepTable
    <2> QED BY <1>0, <2>1, <2>2
  <1>2. CASE HostKinitError \/ FetchTicketError
    <2>1. gpc \in {"host", "fetch"} /\ gpc' = "cleanup" /\ gtodo' \in {glist, {}}
      BY <1>2 DEF HostKinitError, FetchTicketError, ToCleanup
    <2>2. Cardinality(gtodo') \in Nat /\ Cardinality(gtodo') <= Cardinality(glist)
      BY <1>s, <2>1
    <2>3. StepsLeft' < StepsLeft
      BY <1>s, <2>1, <2>2, StepValues DEF StepTable
    <2> QED BY <1>0, <2>1, <2>3
  <1>3. CASE FetchTicket
    <2>1. gpc = "fetch" /\ gpc' \in {"open", "host"} /\ gtodo' = gtodo /\ glist' = glist
      BY <1>3 DEF FetchTicket
    <2>2. StepsLeft' < StepsLeft
      BY <1>s, <2>1, StepValues DEF StepTable
    <2> QED BY <1>0, <2>1, <2>2
  <1>4. CASE OpenMetadataFile
    <2>1. gpc = "open" /\ gpc' = "fill"
      BY <1>4 DEF OpenMetadataFile
    <2>2. StepsLeft' < StepsLeft
      BY <2>1, StepValues DEF StepTable
    <2> QED BY <1>0, <2>1, <2>2
  <1>5. CASE ReplyFailed \/ OpenMetadataFails \/ ReplyGranted
    <2>1. gpc \in {"cleanup", "open", "fill"} /\ \E pc \in RestSteps : Rest(pc)
      BY <1>5 DEF ReplyFailed, OpenMetadataFails, ReplyGranted, EndPc
    <2> QED BY <2>1, EndAdvances DEF LeaseInv
  <1>6. ASSUME NEW t \in Ticket, MakeTicketDir(t) PROVE Advances
    <2>1. gpc = "mkdir" /\ gpc' = "fetch" /\ t \in gtodo /\ gtodo' = gtodo \ {t} /\ glist' = glist
      BY <1>6 DEF MakeTicketDir
    <2>2. Cardinality(gtodo') = Cardinality(gtodo) - 1
      BY <1>t, <2>1
    <2>3. StepsLeft' < StepsLeft
      BY <1>s, <2>1, <2>2, StepValues DEF StepTable
    <2> QED BY <1>0, <2>1, <2>3
  <1>7. ASSUME NEW t \in Ticket, RemoveOnFailure(t) PROVE Advances
    <2>1. gpc = "cleanup" /\ gpc' = "cleanup" /\ t \in gtodo /\ gtodo' = gtodo \ {t}
      BY <1>7 DEF RemoveOnFailure
    <2>2. Cardinality(gtodo') = Cardinality(gtodo) - 1 /\ gtodo' # gtodo
      BY <1>t, <2>1
    <2>3. StepsLeft' < StepsLeft
      BY <1>s, <2>1, <2>2, StepValues DEF StepTable
    <2> QED BY <2>2, <2>3 DEF Advances, grpcVars
  <1> QED BY <1>1, <1>2, <1>3, <1>4, <1>5, <1>6, <1>7

\* A step of a renew request brings its reply nearer: a second try is the last one.
LEMMA RenewAdvances ==
    ASSUME LeaseInv, IsFiniteSet(Ticket), IsFiniteSet(Entry),
           \/ RenewUserKinit \/ ReplyRenewed
           \/ \E e \in Entry : \/ RenewTicket(e) \/ RenewTicketFails(e)
                               \/ RenewArnSkipsFile(e) \/ RenewArnOtherUser(e)
    PROVE  Advances
  <1>s. Cardinality(gents) \in Nat
    BY StepSizes DEF LeaseInv
  <1>e. gents \in SUBSET Entry
    BY DEF LeaseInv, TypeOK, LeaseServiceTypeOK
  <1>t. ASSUME NEW e, NEW S, S \subseteq gents \ {e}
        PROVE  /\ Cardinality(S) \in Nat /\ Cardinality(S) <= Cardinality(gents)
               /\ e \in gents => Cardinality(S) <= Cardinality(gents) - 1
    <2>1. S \in SUBSET gents /\ gents \ {e} \in SUBSET Entry /\ S \in SUBSET (gents \ {e})
      BY <1>t, <1>e
    <2>2. Cardinality(S) \in Nat /\ Cardinality(S) <= Cardinality(gents)
          /\ Cardinality(S) <= Cardinality(gents \ {e})
      BY <1>e, <2>1, Count
    <2>3. e \in gents => Cardinality(gents \ {e}) = Cardinality(gents) - 1
      BY <1>e, Count
    <2> QED BY <2>2, <2>3
  <1>0. ASSUME gpc' # gpc \/ gents' # gents, StepsLeft' < StepsLeft PROVE Advances
    BY <1>0 DEF Advances, grpcVars
  <1>1. CASE RenewUserKinit
    <2>1. /\ gents' = gents
          /\ \/ gpc = "rekinit1" /\ gpc' = "retry"
             \/ gpc = "rekinit2" /\ gpc' = "renew"
      BY <1>1 DEF RenewUserKinit
    <2>2. StepsLeft' < StepsLeft
      BY <1>s, <2>1, StepValues DEF StepTable
    <2> QED BY <1>0, <2>1, <2>2
  <1>2. CASE ReplyRenewed
    <2>1. gpc = "renew" /\ Rest("idle")
      BY <1>2 DEF ReplyRenewed
    <2> QED BY <2>1, EndAdvances DEF LeaseInv
  <1>3. ASSUME NEW e \in Entry, RenewTicket(e) \/ RenewTicketFails(e) PROVE Advances
    <2>1. /\ gents' = gents \ {e}
          /\ \/ gpc = "renew" /\ gpc' \in {"renew", "rekinit1"} /\ e \in gents
             \/ gpc = "retry" /\ gpc' \in {"renew", "rekinit2"}
      BY <1>3 DEF RenewTicket, RenewTicketFails
    <2>2. /\ Cardinality(gents') \in Nat /\ Cardinality(gents') <= Cardinality(gents)
          /\ e \in gents => Cardinality(gents') <= Cardinality(gents) - 1
      BY <1>t, <2>1
    <2>3. StepsLeft' < StepsLeft
      BY <1>s, <2>1, <2>2, StepValues DEF StepTable
    <2> QED BY <1>0, <2>1, <2>3
  <1>4. ASSUME NEW e \in Entry, RenewArnSkipsFile(e) \/ RenewArnOtherUser(e) PROVE Advances
    <2>1. gents' \subseteq gents \ {e} /\ gpc = "renew" /\ gpc' = "renew" /\ e \in gents
      BY <1>4 DEF RenewArnSkipsFile, RenewArnOtherUser
    <2>2. Cardinality(gents') \in Nat /\ Cardinality(gents') <= Cardinality(gents) - 1
      BY <1>t, <2>1
    <2>3. StepsLeft' < StepsLeft
      BY <1>s, <2>1, <2>2, StepValues DEF StepTable
    <2> QED BY <1>0, <2>1, <2>3
  <1> QED BY <1>1, <1>2, <1>3, <1>4

\* A step of a deletion brings its reply nearer, whatever the renewal thread puts
\* into the directories: remove_all throws rather than start again.
LEMMA DeleteAdvances ==
    ASSUME LeaseInv, IsFiniteSet(Ticket), IsFiniteSet(Entry),
           \/ BeginRemoveAll \/ RemoveTicketDir \/ RemoveTicketDirThrows \/ RemoveMetadata
           \/ ReplyDeleted
           \/ \E t \in Ticket : RemoveCache(t)
           \/ \E e \in Entry : Kdestroy(e)
    PROVE  Advances
  <1>s. /\ Cardinality(gtodo) \in Nat /\ Cardinality(gents) \in Nat
        /\ Cardinality(DirsLeft) \in Nat /\ FileLeft \in {0, 1} /\ Cardinality({}) = 0
    BY StepSizes, FS_EmptySet DEF LeaseInv
  <1>t. \A t \in gtodo : Cardinality(gtodo \ {t}) = Cardinality(gtodo) - 1
    <2>1. gtodo \in SUBSET Ticket
      BY DEF LeaseInv, TypeOK, LeaseServiceTypeOK
    <2> QED BY <2>1, Count
  <1>e. \A e \in gents : Cardinality(gents \ {e}) = Cardinality(gents) - 1
    <2>1. gents \in SUBSET Entry
      BY DEF LeaseInv, TypeOK, LeaseServiceTypeOK
    <2> QED BY <2>1, Count
  <1>l. /\ gpc \in DeleteSteps => glease \in Lease
        /\ gpc = "rmdir" => gcur.tkt \in gtodo
        /\ metaFile \in [Lease -> {"absent", "torn", "ok"}] /\ acctDir \subseteq Ticket
    BY DEF LeaseInv, DeleteFrame, TypeOK, KrbDirTypeOK, LeaseServiceTypeOK
  <1>0. ASSUME gpc' # gpc \/ gents' # gents \/ metaFile' # metaFile, StepsLeft' < StepsLeft
        PROVE  Advances
    BY <1>0 DEF Advances, grpcVars
  <1>f. metaFile' = metaFile /\ glease' = glease => FileLeft' = FileLeft
    BY DEF FileLeft
  <1>1. CASE BeginRemoveAll
    <2>1. gpc = "kdestroy" /\ gpc' = "unlink" /\ gtodo' = DirsLeft /\ FileLeft' = FileLeft
      BY <1>1, <1>l, <1>f DEF BeginRemoveAll, krbDirVars, DirsLeft, TicketsOf
    <2>2. StepsLeft' < StepsLeft
      BY <1>s, <2>1, StepValues DEF StepTable
    <2> QED BY <1>0, <2>1, <2>2
  <1>2. CASE RemoveTicketDir
    <2>1. gpc = "rmdir" /\ gpc' = "unlink" /\ gtodo' = gtodo \ {gcur.tkt} /\ FileLeft' = FileLeft
      BY <1>2, <1>f DEF RemoveTicketDir
    <2>2. Cardinality(gtodo') = Cardinality(gtodo) - 1
      BY <1>t, <1>l, <2>1
    <2>3. StepsLeft' < StepsLeft
      BY <1>s, <2>1, <2>2, StepValues DEF StepTable
    <2> QED BY <1>0, <2>1, <2>3
  <1>3. CASE RemoveTicketDirThrows \/ ReplyDeleted
    <2>1. gpc \in {"rmdir", "unlink"} /\ (gpc = "rmdir" => gtodo # {})
          /\ \E pc \in RestSteps : Rest(pc)
      BY <1>3, <1>l DEF RemoveTicketDirThrows, ReplyDeleted
    <2> QED BY <2>1, EndAdvances DEF LeaseInv
  <1>4. CASE RemoveMetadata
    <2>1. gpc = "unlink" /\ gpc' = "unlink" /\ gtodo' = gtodo /\ metaFile' # metaFile
          /\ FileLeft = 1 /\ FileLeft' = 0
      BY <1>4, <1>l DEF RemoveMetadata, FileLeft
    <2>2. StepsLeft' < StepsLeft
      BY <1>s, <2>1, StepValues DEF StepTable
    <2> QED BY <1>0, <2>1, <2>2
  <1>5. ASSUME NEW t \in Ticket, RemoveCache(t) PROVE Advances
    <2>1. gpc = "unlink" /\ gpc' = "rmdir" /\ gtodo' = gtodo /\ FileLeft' = FileLeft
      BY <1>5, <1>f DEF RemoveCache
    <2>2. StepsLeft' < StepsLeft
      BY <1>s, <2>1, StepValues DEF StepTable
    <2> QED BY <1>0, <2>1, <2>2
  <1>6. ASSUME NEW e \in Entry, Kdestroy(e) PROVE Advances
    <2>1. gpc = "kdestroy" /\ gpc' = "kdestroy" /\ e \in gents /\ gents' = gents \ {e}
          /\ DirsLeft' = DirsLeft
      BY <1>6 DEF Kdestroy, DirsLeft, TicketsOf
    <2>2. Cardinality(gents') = Cardinality(gents) - 1
      BY <1>e, <2>1
    <2>3. StepsLeft' < StepsLeft
      BY <1>s, <2>1, <2>2, StepValues DEF StepTable
    <2> QED BY <1>0, <2>1, <2>3
  <1> QED BY <1>1, <1>2, <1>3, <1>4, <1>5, <1>6

\* Every step of an operation brings its reply nearer and nothing else puts it off
\* (RequestAdvances): an operation of the gRPC thread takes at most StepsLeft steps,
\* whatever fails and whatever the renewal thread does meanwhile, for all finite
\* sets of leases, accounts and users.
THEOREM RequestsAdvance ==
    ASSUME IsFiniteSet(Lease), IsFiniteSet(Account), IsFiniteSet(User)
    PROVE  Spec => RequestAdvances
  <1> DEFINE Advance == gpc \notin RestSteps =>
                          IF UNCHANGED <<grpcVars, metaFile>> THEN StepsLeft' = StepsLeft
                                                              ELSE StepsLeft' < StepsLeft
  <1>f. IsFiniteSet(Ticket) /\ IsFiniteSet(Entry)
    BY FiniteNames
  <1>1. TypeOK => StepsLeft \in Nat
    BY <1>f, StepSizes
  <1>2. LeaseInv /\ [Next]_vars => [Advance]_vars
    <2> SUFFICES ASSUME LeaseInv, Next, gpc \notin RestSteps
                 PROVE  IF UNCHANGED <<grpcVars, metaFile>> THEN StepsLeft' = StepsLeft
                                                            ELSE StepsLeft' < StepsLeft
      OBVIOUS
    <2>0. ASSUME Advances
          PROVE  IF UNCHANGED <<grpcVars, metaFile>> THEN StepsLeft' = StepsLeft
                                                     ELSE StepsLeft' < StepsLeft
      BY <2>0 DEF Advances
    <2>1. CASE GrpcStep
      <3>1. ~(Request \/ Startup)
        BY DEF Request, Startup, AddKerberosLease, AddNonDomainJoinedKerberosLease,
           AddKerberosArnLease, BeginRenew, RenewNonDomainJoinedKerberosLease,
           RenewKerberosArnLease, DeleteKerberosLease, DeleteMissingLease, StartWithoutFile,
           ProcessCredSpecFile
      <3>2. Advances
        BY <1>f, <2>1, <3>1, AddAdvances, RenewAdvances, DeleteAdvances DEF GrpcStep, Progress
      <3> QED BY <2>0, <3>2
    <2>2. CASE RenewalStep \/ HostTgtExpires \/ \E t \in Ticket : TicketAges(t)
      <3>1. UNCHANGED <<grpcVars, metaFile, acctDir>>
        BY <2>2 DEF RenewalStep, RenewalNext, RenewalStarts, ScanLease, ScanTicketDir, ScanThrows,
           ScanEnds, ReadMetadata, RoundEnds, CheckTicket, RenewalFetch, RenewalFetchFails,
           RenewalHostKinit, RenewalHostKinitError, HostTgtExpires, TicketAges, krbDirVars
      <3>2. StepsLeft' = StepsLeft
        BY <3>1 DEF StepsLeft, grpcVars, TicketsOf
      <3> QED BY <3>1, <3>2
    <2>3. CASE StartThreads \/ ProcessDies
      <3>1. \E pc \in RestSteps : Rest(pc)
        BY <2>3 DEF StartThreads, ProcessDies
      <3>2. gpc = "rmdir" => gtodo # {}
        BY DEF LeaseInv, DeleteFrame
      <3>3. Advances
        BY <1>f, <3>1, <3>2, EndAdvances DEF LeaseInv
      <3> QED BY <2>0, <3>3
    <2> QED BY <2>1, <2>2, <2>3 DEF Next
  <1>3. Spec => [](StepsLeft \in Nat) /\ [][Advance]_vars
    BY <1>1, <1>2, TypeCorrect, LeaseInvariant, PTL DEF Spec
  <1> QED BY <1>3 DEF RequestAdvances

\* What a round still owes to the leases it has listed and the files it has found.
LeasesLeft == LeaseSteps * Cardinality(rleases)
FilesLeft == FileSteps * Cardinality(rfiles)

\* RoundLeft, one place of the loop at a time.
RoundTable ==
    /\ rpc = "scan" => RoundLeft = LeasesLeft + Cardinality(raccts) + FilesLeft + 2
    /\ rpc = "files" => RoundLeft = FilesLeft + 6 * Cardinality(rents) + 1
    /\ rpc = "fetch" => RoundLeft = FilesLeft + 6 * Cardinality(rents) + 6 - 2 * rtry
    /\ rpc = "kinit" => RoundLeft = FilesLeft + 6 * Cardinality(rents) + 5 - 2 * rtry
    /\ rpc \in {"off", "sleep", "dead"} => RoundLeft = 0

\* Before and after a step.
LEMMA RoundValues == RoundTable /\ RoundTable'
  BY DEF RoundLeft, RoundTable, LeasesLeft, FilesLeft

\* Entries are in hand between the reading of a file and the end of its loop only.
RoundFrame ==
    /\ rpc \notin {"files", "fetch", "kinit"} => rents = {}
    /\ rpc \notin {"fetch", "kinit"} => rtry = 0

\* Multiplication by a number of steps.
LEMMA Times ==
    ASSUME NEW k \in Nat, NEW c \in Nat
    PROVE  k * c \in Nat /\ k * (c + 1) = k * c + k /\ (c > 0 => k * (c - 1) = k * c - k)
  OBVIOUS

\* The sizes RoundLeft is made of, and that it is a number.
LEMMA RoundSizes ==
    ASSUME IsFiniteSet(Lease), IsFiniteSet(Ticket), IsFiniteSet(Entry), TypeOK
    PROVE  /\ Cardinality(raccts) \in Nat /\ Cardinality(rents) \in Nat
           /\ Cardinality(rleases) \in Nat /\ Cardinality(rfiles) \in Nat
           /\ LeasesLeft \in Nat /\ FilesLeft \in Nat /\ rtry \in {0, 1} /\ RoundLeft \in Nat
           /\ FileSteps \in Nat /\ LeaseSteps \in Nat
           /\ FileSteps = 6 * Cardinality(Entry) + 1
           /\ LeaseSteps = Cardinality(Ticket) + FileSteps + 1
           /\ Cardinality(Entry) \in Nat /\ Cardinality(Ticket) \in Nat
  <1>0. /\ rleases \in SUBSET Lease /\ rfiles \in SUBSET Lease /\ raccts \in SUBSET Ticket
        /\ rents \in SUBSET Entry
        /\ rpc \in {"off", "sleep", "scan", "files", "fetch", "kinit", "dead"}
    BY DEF TypeOK, RenewalTypeOK
  <1>1. /\ Cardinality(raccts) \in Nat /\ Cardinality(rents) \in Nat
        /\ Cardinality(rleases) \in Nat /\ Cardinality(rfiles) \in Nat
    BY <1>0, Count
  <1>2. Cardinality(Entry) \in Nat /\ Cardinality(Ticket) \in Nat
    BY FS_CardinalityType
  <1>3. /\ FileSteps \in Nat /\ LeaseSteps \in Nat
        /\ FileSteps = 6 * Cardinality(Entry) + 1
        /\ LeaseSteps = Cardinality(Ticket) + FileSteps + 1
    BY <1>2 DEF FileSteps, LeaseSteps
  <1>4. LeasesLeft \in Nat /\ FilesLeft \in Nat
    BY <1>1, <1>3, Times DEF LeasesLeft, FilesLeft
  <1>5. rtry \in {0, 1}
    BY DEF TypeOK, RenewalTypeOK, num_retries
  <1>6. RoundLeft \in Nat
    BY <1>0, <1>1, <1>4, <1>5, RoundValues DEF RoundTable
  <1> QED BY <1>1, <1>2, <1>3, <1>4, <1>5, <1>6

\* Every step of the renewal thread in a round brings the end of the round nearer.
LEMMA RoundSteps ==
    ASSUME LeaseInv, RoundFrame, IsFiniteSet(Lease), IsFiniteSet(Ticket), IsFiniteSet(Entry),
           rpc \notin {"off", "sleep", "dead"}, RenewalNext
    PROVE  RoundLeft' < RoundLeft
  <1> DEFINE F == FileSteps
             L == LeaseSteps
  <1>s. /\ Cardinality(raccts) \in Nat /\ Cardinality(rents) \in Nat
        /\ LeasesLeft \in Nat /\ FilesLeft \in Nat /\ rtry \in {0, 1}
        /\ Cardinality(Entry) \in Nat /\ Cardinality(Ticket) \in Nat /\ Cardinality({}) = 0
        /\ F \in Nat /\ L \in Nat /\ F = 6 * Cardinality(Entry) + 1 /\ L = Cardinality(Ticket) + F + 1
    BY RoundSizes, FS_EmptySet DEF LeaseInv
  <1> HIDE DEF F, L
  <1>t. /\ rleases \in SUBSET Lease /\ rfiles \in SUBSET Lease /\ raccts \in SUBSET Ticket
        /\ rents \in SUBSET Entry /\ acctDir \subseteq Ticket
    BY DEF LeaseInv, TypeOK, KrbDirTypeOK, RenewalTypeOK
  <1>l. ASSUME NEW l \in rleases, rleases' = rleases \ {l} PROVE LeasesLeft' = LeasesLeft - L
    <2>1. Cardinality(rleases') = Cardinality(rleases) - 1 /\ Cardinality(rleases) > 0
          /\ Cardinality(rleases) \in Nat
      BY <1>l, <1>t, Count
    <2> QED BY <2>1, <1>s, Times DEF LeasesLeft, L
  <1>f. ASSUME NEW l \in rfiles, rfiles' = rfiles \ {l} PROVE FilesLeft' = FilesLeft - F
    <2>1. Cardinality(rfiles') = Cardinality(rfiles) - 1 /\ Cardinality(rfiles) > 0
          /\ Cardinality(rfiles) \in Nat
      BY <1>f, <1>t, Count
    <2> QED BY <2>1, <1>s, Times DEF FilesLeft, F
  <1>a. ASSUME NEW l, rfiles' \in {rfiles, rfiles \cup {l}}
        PROVE  FilesLeft' \in Nat /\ FilesLeft' <= FilesLeft + F
    <2>1. IsFiniteSet(rfiles) /\ Cardinality(rfiles) \in Nat
      BY <1>t, FS_Subset, Count
    <2>2. Cardinality(rfiles') \in {Cardinality(rfiles), Cardinality(rfiles) + 1}
      BY <1>a, <2>1, FS_AddElement
    <2> QED BY <2>1, <2>2, <1>s, Times DEF FilesLeft, F
  <1>k. rfiles' = rfiles => FilesLeft' = FilesLeft
    BY DEF FilesLeft
  <1>1. ASSUME NEW l \in Lease, ScanLease(l) PROVE RoundLeft' < RoundLeft
    <2>1. /\ rpc = "scan" /\ rpc' = "scan" /\ l \in rleases /\ rleases' = rleases \ {l}
          /\ raccts = {} /\ raccts' \in SUBSET Ticket /\ rfiles' \in {rfiles, rfiles \cup {l}}
      BY <1>1, <1>t DEF ScanLease
    <2>2. Cardinality(raccts') \in Nat /\ Cardinality(raccts') <= Cardinality(Ticket)
      BY <2>1, Count
    <2>3. LeasesLeft' = LeasesLeft - L /\ FilesLeft' \in Nat /\ FilesLeft' <= FilesLeft + F
      BY <1>l, <1>a, <2>1
    <2> QED BY <1>s, <2>1, <2>2, <2>3, RoundValues DEF RoundTable
  <1>2. ASSUME NEW t \in Ticket, ScanTicketDir(t) PROVE RoundLeft' < RoundLeft
    <2>1. /\ rpc = "scan" /\ rpc' = "scan" /\ t \in raccts /\ raccts' = raccts \ {t}
          /\ LeasesLeft' = LeasesLeft /\ FilesLeft' = FilesLeft
      BY <1>2, <1>k DEF ScanTicketDir, LeasesLeft
    <2>2. Cardinality(raccts') = Cardinality(raccts) - 1
      BY <1>t, <2>1, Count
    <2> QED BY <1>s, <2>1, <2>2, RoundValues DEF RoundTable
  <1>3. CASE ScanThrows
    BY <1>3, <1>s, RoundValues DEF ScanThrows, RoundTable
  <1>4. CASE ScanEnds
    <2>1. rpc = "scan" /\ rpc' = "files" /\ rents' = {} /\ FilesLeft' = FilesLeft
      BY <1>4, <1>k DEF ScanEnds, RoundFrame
    <2> QED BY <1>s, <2>1, RoundValues DEF RoundTable
  <1>5. ASSUME NEW l \in Lease, ReadMetadata(l) PROVE RoundLeft' < RoundLeft
    <2>1. /\ rpc = "files" /\ rpc' = "files" /\ l \in rfiles /\ rfiles' = rfiles \ {l}
          /\ rents' \in SUBSET Entry
      BY <1>5, TypeRead DEF ReadMetadata, LeaseInv
    <2>2. Cardinality(rents') \in Nat /\ Cardinality(rents') <= Cardinality(Entry)
      BY <2>1, Count
    <2>3. FilesLeft' = FilesLeft - F
      BY <1>f, <2>1
    <2> QED BY <1>s, <2>1, <2>2, <2>3, RoundValues DEF RoundTable
  <1>6. CASE RoundEnds
    BY <1>6, <1>s, RoundValues DEF RoundEnds, RoundTable
  <1>7. ASSUME NEW e \in Entry, CheckTicket(e) PROVE RoundLeft' < RoundLeft
    <2>1. /\ rpc = "files" /\ rpc' \in {"files", "fetch"} /\ e \in rents /\ rents' = rents \ {e}
          /\ FilesLeft' = FilesLeft /\ rtry' = 0
      BY <1>7, <1>k DEF CheckTicket, RoundFrame
    <2>2. Cardinality(rents') = Cardinality(rents) - 1
      BY <1>t, <2>1, Count
    <2> QED BY <1>s, <2>1, <2>2, RoundValues DEF RoundTable
  <1>8. CASE RenewalFetch \/ RenewalHostKinitError
    <2>1. /\ rpc \in {"fetch", "kinit"} /\ rents' = rents /\ FilesLeft' = FilesLeft
          /\ \/ rtry = 0 /\ rtry' = 1 /\ rpc' = "fetch"
             \/ rtry' = 0 /\ rpc' = "files"
      BY <1>8, <1>s, <1>k DEF RenewalFetch, RenewalHostKinitError, NextTry, num_retries
    <2> QED BY <1>s, <2>1, RoundValues DEF RoundTable
  <1>9. CASE RenewalFetchFails \/ RenewalHostKinit
    <2>1. /\ rents' = rents /\ FilesLeft' = FilesLeft
          /\ \/ rpc = "fetch" /\ rpc' = "kinit" /\ rtry' = rtry
             \/ rpc = "kinit" /\ rpc' = "files"
      BY <1>9, <1>k DEF RenewalFetchFails, RenewalHostKinit
    <2> QED BY <1>s, <2>1, RoundValues DEF RoundTable
  <1>10. ~RenewalStarts
    BY DEF RenewalStarts
  <1> QED BY <1>1, <1>2, <1>3, <1>4, <1>5, <1>6, <1>7, <1>8, <1>9, <1>10 DEF RenewalNext

\* RoundFrame holds throughout.
LEMMA RoundFrameInvariant == Spec => []RoundFrame
  <1>1. Init => RoundFrame
    BY DEF Init, RenewalInit, RoundFrame
  <1>2. RoundFrame /\ [Next]_vars => RoundFrame'
    <2> SUFFICES ASSUME RoundFrame, [Next]_vars PROVE RoundFrame'
      OBVIOUS
    <2>1. CASE RenewalStep
      BY <2>1 DEF RenewalStep, RenewalNext, RenewalStarts, ScanLease, ScanTicketDir, ScanThrows,
         ScanEnds, ReadMetadata, RoundEnds, CheckTicket, RenewalFetch, RenewalFetchFails,
         RenewalHostKinit, RenewalHostKinitError, NextTry, RenewalClear, RoundFrame
    <2>2. CASE StartThreads \/ ProcessDies
      BY <2>2 DEF StartThreads, ProcessDies, RenewalClear, RoundFrame
    <2>3. CASE UNCHANGED renewalVars
      BY <2>3 DEF renewalVars, RoundFrame
    <2> QED BY <2>1, <2>2, <2>3 DEF Next, GrpcStep, HostTgtExpires, TicketAges, vars
  <1> QED BY <1>1, <1>2, PTL DEF Spec

\* Every step of the renewal thread brings the end of its round nearer and nothing
\* the gRPC thread does meanwhile puts it off (RoundAdvances): a round takes at most
\* RoundLeft steps, for all finite sets of leases, accounts and users.
THEOREM RoundsAdvance ==
    ASSUME IsFiniteSet(Lease), IsFiniteSet(Account), IsFiniteSet(User)
    PROVE  Spec => RoundAdvances
  <1> DEFINE Advance == rpc \notin {"off", "sleep", "dead"} =>
                          IF UNCHANGED renewalVars THEN RoundLeft' = RoundLeft
                                                   ELSE RoundLeft' < RoundLeft
  <1>f. IsFiniteSet(Ticket) /\ IsFiniteSet(Entry)
    BY FiniteNames
  <1>1. TypeOK => RoundLeft \in Nat
    BY <1>f, RoundSizes
  <1>2. LeaseInv /\ RoundFrame /\ [Next]_vars => [Advance]_vars
    <2> SUFFICES ASSUME LeaseInv, RoundFrame, Next, rpc \notin {"off", "sleep", "dead"}
                 PROVE  IF UNCHANGED renewalVars THEN RoundLeft' = RoundLeft
                                                 ELSE RoundLeft' < RoundLeft
      OBVIOUS
    <2>u. UNCHANGED renewalVars => RoundLeft' = RoundLeft
      BY DEF RoundLeft, renewalVars
    <2>1. CASE RenewalStep
      <3>1. RoundLeft' < RoundLeft
        BY <1>f, <2>1, RoundSteps DEF RenewalStep
      <3> QED BY <2>u, <3>1
    <2>2. CASE StartThreads \/ ProcessDies
      <3>1. rpc' \in {"off", "sleep"}
        BY <2>2 DEF StartThreads, ProcessDies
      <3>2. RoundLeft' = 0
        BY <3>1, RoundValues DEF RoundTable
      <3>3. RoundLeft > 0
        BY <1>f, RoundSizes, RoundValues DEF RoundTable, LeaseInv, TypeOK, RenewalTypeOK
      <3> QED BY <2>u, <3>2, <3>3
    <2>3. CASE UNCHANGED renewalVars
      BY <2>3, <2>u
    <2> QED BY <2>1, <2>2, <2>3 DEF Next, GrpcStep, HostTgtExpires, TicketAges
  <1>3. Spec => [](RoundLeft \in Nat) /\ [][Advance]_vars
    BY <1>1, <1>2, TypeCorrect, LeaseInvariant, RoundFrameInvariant, PTL DEF Spec
  <1> QED BY <1>3 DEF RoundAdvances

=============================================================================
