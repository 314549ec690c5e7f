--------------------------- MODULE RenewalThread ---------------------------
(***************************************************************************)
(* The thread of renewal.cpp: krb_ticket_renew_handler sleeps, scans the   *)
(* Kerberos directory for metadata files, reads each of them and fetches   *)
(* the tickets that expire within the hour. It takes no lock: the gRPC     *)
(* thread can remove a directory while the scan walks through it, and a    *)
(* lease whose metadata has just been read.                                *)
(***************************************************************************)
EXTENDS KrbDir

VARIABLES
    rpc,      \* what the thread does next
    rleases,  \* lease directories listed and not yet opened
    raccts,   \* ticket directories of the opened ones, listed and not yet opened
    rfiles,   \* metadatafiles: the files found and not yet read
    rents,    \* krb_ticket_info_list: the entries of the file being processed
    rcur,     \* the entry being fetched
    rtry      \* the loop counter of its retry loop

renewalVars == <<rpc, rleases, raccts, rfiles, rents, rcur, rtry>>

\* num_retries of renewal.cpp: the loop runs for 0 .. num_retries.
num_retries == 1

RenewalTypeOK ==
    /\ rpc \in {"off", "sleep", "scan", "files", "fetch", "kinit", "dead"}
    /\ rleases \subseteq Lease
    /\ raccts \subseteq Ticket
    /\ rfiles \subseteq Lease
    /\ rents \subseteq Entry
    /\ rcur \in Entry \cup {NoEntry}
    /\ rtry \in 0 .. num_retries
    /\ rpc \in {"fetch", "kinit"} => rcur # NoEntry

RenewalClear ==
    /\ rleases' = {}
    /\ raccts' = {}
    /\ rfiles' = {}
    /\ rents' = {}
    /\ rcur' = NoEntry
    /\ rtry' = 0

RenewalInit ==
    /\ rpc = "off"
    /\ rleases = {}
    /\ raccts = {}
    /\ rfiles = {}
    /\ rents = {}
    /\ rcur = NoEntry
    /\ rtry = 0

-----------------------------------------------------------------------------
\* The sleep is over; the iterator lists krb_files_dir.
RenewalStarts ==
    /\ rpc = "sleep"
    /\ rpc' = "scan"
    /\ rleases' = leaseDir
    /\ UNCHANGED <<krbDirVars, raccts, rfiles, rents, rcur, rtry>>

\* The iterator descends into a lease directory and lists it.
ScanLease(l) ==
    /\ rpc = "scan"
    /\ raccts = {}
    /\ l \in rleases
    /\ l \in leaseDir
    /\ rleases' = rleases \ {l}
    /\ raccts' = {t \in acctDir : t[1] = l}
    /\ rfiles' = IF metaFile[l] = "absent" THEN rfiles ELSE rfiles \cup {l}
    /\ UNCHANGED <<krbDirVars, rpc, rents, rcur, rtry>>

\* The iterator descends into a ticket directory, which has no metadata file.
ScanTicketDir(t) ==
    /\ rpc = "scan"
    /\ t \in raccts
    /\ t \in acctDir
    /\ raccts' = raccts \ {t}
    /\ UNCHANGED <<krbDirVars, rpc, rleases, rfiles, rents, rcur, rtry>>

\* A directory that was listed is gone when the iterator opens it: the iterator
\* throws, the catch block leaves the while loop and the thread returns.
ScanThrows ==
    /\ rpc = "scan"
    /\ \/ raccts \ acctDir # {}
       \/ raccts = {} /\ rleases \ leaseDir # {}
    /\ rpc' = "dead"
    /\ RenewalClear
    /\ UNCHANGED krbDirVars

ScanEnds ==
    /\ rpc = "scan"
    /\ rleases = {}
    /\ raccts = {}
    /\ rpc' = "files"
    /\ UNCHANGED <<krbDirVars, rleases, raccts, rfiles, rents, rcur, rtry>>

ReadMetadata(l) ==
    /\ rpc = "files"
    /\ rents = {}
    /\ l \in rfiles
    /\ rfiles' = rfiles \ {l}
    /\ rents' = read_meta_data_json(l)
    /\ UNCHANGED <<krbDirVars, rpc, rleases, raccts, rcur, rtry>>

RoundEnds ==
    /\ rpc = "files"
    /\ rents = {}
    /\ rfiles = {}
    /\ rpc' = "sleep"
    /\ UNCHANGED <<krbDirVars, rleases, raccts, rfiles, rents, rcur, rtry>>

\* Tickets of a domainless user are left to the renew RPCs, which have the
\* password; a ticket of the machine or of the vault secret is renewed when due.
IsDue(e) == e.owner = Host /\ is_ticket_ready_for_renewal(e)

\* Mutant: the first ticket that is not due ends the loop.
CheckTicketBreaks(e) ==
    /\ rpc = "files"
    /\ e \in rents
    /\ IF IsDue(e) THEN rpc' = "fetch" /\ rcur' = e /\ rents' = rents \ {e}
                   ELSE rents' = {} /\ UNCHANGED <<rpc, rcur>>
    /\ UNCHANGED <<krbDirVars, rleases, raccts, rfiles, rtry>>

CheckTicket(e) ==
    /\ rpc = "files"
    /\ e \in rents
    /\ rents' = rents \ {e}
    /\ IF IsDue(e) THEN rpc' = "fetch" /\ rcur' = e
                   ELSE UNCHANGED <<rpc, rcur>>
    /\ UNCHANGED <<krbDirVars, rleases, raccts, rfiles, rtry>>

\* Mutant: the loop runs once too often.
NextTryOnceMore ==
    IF rtry <= num_retries
    THEN rpc' = "fetch" /\ rtry' = rtry + 1 /\ rcur' = rcur
    ELSE rpc' = "files" /\ rtry' = 0 /\ rcur' = NoEntry

\* The next iteration of the retry loop, if there is one.
NextTry ==
    IF rtry < num_retries
    THEN rpc' = "fetch" /\ rtry' = rtry + 1 /\ rcur' = rcur
    ELSE rpc' = "files" /\ rtry' = 0 /\ rcur' = NoEntry

\* A ticket that was fetched is fetched once more: nothing leaves the loop.
RenewalFetch ==
    /\ rpc = "fetch"
    /\ fetch_ok(rcur)
    /\ NextTry
    /\ UNCHANGED <<leaseDir, acctDir, metaFile, meta, hostTgt, rleases, raccts, rfiles, rents>>

RenewalFetchFails ==
    /\ rpc = "fetch"
    /\ rpc' = "kinit"
    /\ UNCHANGED <<krbDirVars, rleases, raccts, rfiles, rents, rcur, rtry>>

\* A host ticket, or a positive code taken for one, ends the loop: the ticket
\* is fetched in the next round, if it is still due.
RenewalHostKinit ==
    /\ rpc = "kinit"
    /\ hostTgt' \in {hostTgt, TRUE}
    /\ rpc' = "files"
    /\ rtry' = 0
    /\ rcur' = NoEntry
    /\ UNCHANGED <<leaseDir, acctDir, cc, metaFile, meta, rleases, raccts, rfiles, rents>>

\* A negative status: the loop goes on without a host ticket.
RenewalHostKinitError ==
    /\ rpc = "kinit"
    /\ NextTry
    /\ UNCHANGED <<krbDirVars, rleases, raccts, rfiles, rents>>

RenewalNext ==
    \/ RenewalStarts
    \/ \E l \in Lease : ScanLease(l) \/ ReadMetadata(l)
    \/ \E t \in Ticket : ScanTicketDir(t)
    \/ ScanThrows \/ ScanEnds \/ RoundEnds
    \/ \E e \in Entry : CheckTicket(e)
    \/ RenewalFetch \/ RenewalFetchFails
    \/ RenewalHostKinit \/ RenewalHostKinitError

=============================================================================
