------------------------------- MODULE KrbDir -------------------------------
(***************************************************************************)
(* The state the threads of the daemon share: the Kerberos directory       *)
(* krb_files_dir on disk and the default credential cache of the process.  *)
(*                                                                         *)
(*   krb_files_dir/<lease>/<account>/krb5cc        one ticket cache        *)
(*   krb_files_dir/<lease>/<lease>_metadata.json   what the lease lists    *)
(*                                                                         *)
(* Both the gRPC thread (LeaseService) and the renewal thread              *)
(* (RenewalThread) work on it, without any lock.                           *)
(***************************************************************************)
EXTENDS Naturals, FiniteSets

CONSTANTS
    RandomId,   \* lease ids that generate_lease_id can still draw
    TaskId,     \* lease ids chosen by the client: the first part of an ARN mount path
    FileId,     \* the fixed lease id of the credential spec file: {} or a singleton
    Account,    \* service account names (or second part of an ARN mount path)
    User,       \* domainless AD users
    Host,       \* owner of the tickets made with the machine keytab or the vault secret
    Faults,     \* which environment faults a run admits, see Fault below
    NoLease,    \* the lease and the entry of a thread that works on none
    NoEntry

\* The faults a model may switch on: the process dies; the default cache runs
\* out; the metadata file cannot be opened for writing.
Fault == {"crash", "tgt_expiry", "metadata_open"}

Lease == RandomId \cup TaskId \cup FileId

Owner == User \cup {Host}

\* A ticket directory is named by its lease and its account.
Ticket == Lease \X Account

\* What krb5cc holds. "empty" is the file the create handlers touch before
\* kinit fills it; "stale" is a ticket that expires within RENEW_TICKET_HOURS.
Cache == {"absent", "empty", "fresh", "stale"}

HasTicket(c) == c \in {"fresh", "stale"}

\* One element of "krb_ticket_info". krb_file_path is the krb5cc file of the
\* ticket directory when isFile, and the directory itself otherwise.
Entry == [tkt : Ticket, owner : Owner, isFile : BOOLEAN]

ASSUME KrbDirAssumption ==
    /\ Host \notin User
    /\ RandomId \cap TaskId = {}
    /\ RandomId \cap FileId = {}
    /\ TaskId \cap FileId = {}
    /\ Faults \subseteq Fault
    /\ NoLease \notin Lease
    /\ NoEntry \notin Entry

VARIABLES
    leaseDir,   \* the lease directories that exist
    acctDir,    \* the ticket directories that exist
    cc,         \* cc[t]: content of krb5cc in ticket directory t
    metaFile,   \* metaFile[l]: "absent", "torn" (truncated, not yet written) or "ok"
    meta,       \* meta[l]: the entries of a metadata file that is "ok"
    hostTgt     \* the default credential cache holds an unexpired ticket

krbDirVars == <<leaseDir, acctDir, cc, metaFile, meta, hostTgt>>

KrbDirTypeOK ==
    /\ leaseDir \subseteq Lease
    /\ acctDir \subseteq Ticket
    /\ cc \in [Ticket -> Cache]
    /\ metaFile \in [Lease -> {"absent", "torn", "ok"}]
    /\ meta \in [Lease -> SUBSET Entry]
    /\ hostTgt \in BOOLEAN

KrbDirInit ==
    /\ leaseDir = {}
    /\ acctDir = {}
    /\ cc = [t \in Ticket |-> "absent"]
    /\ metaFile = [l \in Lease |-> "absent"]
    /\ meta = [l \in Lease |-> {}]
    /\ hostTgt = FALSE

-----------------------------------------------------------------------------
(* metadata.cpp *)

\* std::filesystem::exists( krb_file_path )
PathExists(e) ==
    IF e.isFile THEN cc[e.tkt] # "absent" ELSE e.tkt \in acctDir

\* The entries whose path exists; a missing or malformed file reads as no entry.
read_meta_data_json(l) ==
    IF metaFile[l] = "ok" THEN {e \in meta[l] : PathExists(e)} ELSE {}

\* The metadata files below the directory. The gRPC thread is the only one that
\* makes or removes them, so its own scan is one step.
get_meta_data_file_paths == {l \in Lease : metaFile[l] # "absent"}

\* First half of write_meta_data_json: the lease directory is made and ofstream
\* truncates the file.
OpenMetadata(l) ==
    /\ leaseDir' = leaseDir \cup {l}
    /\ metaFile' = [metaFile EXCEPT ![l] = "torn"]
    /\ meta' = [meta EXCEPT ![l] = {}]

\* Second half: the JSON text reaches the file.
FillMetadata(l, es) ==
    /\ metaFile' = [metaFile EXCEPT ![l] = "ok"]
    /\ meta' = [meta EXCEPT ![l] = es]

-----------------------------------------------------------------------------
(* Ticket operations both threads use. *)

\* Mutant: kinit -c makes the missing directory.
CanFetchAnywhere(e) == hostTgt /\ e.isFile

\* kinit -c writes the cache file, creating it when its directory exists; on
\* failure the cache is left as it was. A path that is a directory cannot be
\* opened as a cache.
CanFetch(e) == hostTgt /\ e.isFile /\ e.tkt \in acctDir

fetch_ok(e) ==
    /\ CanFetch(e)
    /\ cc' = [cc EXCEPT ![e.tkt] = "fresh"]

\* klist succeeds on the path and the ticket expires within RENEW_TICKET_HOURS.
is_ticket_ready_for_renewal(e) == e.isFile /\ cc[e.tkt] = "stale"

=============================================================================
