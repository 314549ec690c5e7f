# A TLA+ model of credentials-fetcher

credentials-fetcher is a Linux daemon that gives containers Kerberos tickets of
group Managed Service Accounts (gMSA). A container agent asks it over gRPC for a
*lease*; the daemon fetches the gMSA password from Active Directory, makes one
ticket cache per account below its Kerberos directory, and keeps the tickets
alive until the lease is deleted.

This directory holds TLA+ specifications of the daemon, the TLC configurations
that check them on small instances, and TLAPS proofs of the main results for
every instance. Paths below are relative to the repository (`src/...`).

Run one configuration with `tlc -config Leases.cfg MCCredentialsFetcher`, one
proof with `tlapm LeaseProofs.tla`. `PROJECT.json` lists runs, mutants, the map
from definitions to source lines, hazards, findings and theorems.

## 1. Inventory

### Components

| Component | Source | State | Operations |
|---|---|---|---|
| Kerberos directory, metadata files | `metadata/src/metadata.cpp`, `auth/kerberos/src/krb.cpp` | `<dir>/<lease>/<account>/krb5cc`, `<lease>_metadata.json`, the default credential cache | read, write, scan, remove |
| Lease operations | `api/src/gmsa_service.cpp` | one stack frame: lease id, `krb_ticket_info_list`, `err_msg` | `AddKerberosLease`, `AddNonDomainJoinedKerberosLease`, `AddKerberosArnLease`, `RenewNonDomainJoinedKerberosLease`, `RenewKerberosArnLease`, `DeleteKerberosLease`, `HealthCheck`, `ProcessCredSpecFile` |
| Asynchronous RPC server | `api/src/gmsa_service.cpp` (`RunServer`, `HandleRpcs`, the `CallData` classes) | `CallData` objects, completion queue | register, `Proceed`, `Finish`, delete |
| Renewal thread | `renewal/src/renewal.cpp` | list of metadata files, list of entries, retry counter | sleep, scan, read, check, fetch, host kinit |
| Ticket expiry arithmetic | `auth/kerberos/src/krb.cpp` (`is_ticket_ready_for_renewal`), `common/daemon.h` | expiration time, round interval | is a ticket due |
| gMSA password fetch | `auth/kerberos/src/krb.cpp`, `common/util.hpp` | list of domain controllers, retry counter | `get_FQDN_list`, `find_dn`, `execute_ldapsearch`, `find_password`, kinit |
| Host and user kinit | `krb.cpp`, `util.hpp` | default credential cache | kinit of machine, vault secret or user |
| In-process kinit client | `auth/kinit_client/kinit.c` | globals `udata` and `errctx`, the credential cache collection | `my_kinit_main`: `k5_begin`, `k5_kinit`, `k5_end` |
| Daemon main thread | `daemon/src/daemon.cpp`, `scripts/systemd/credentials-fetcher.service` | threads, signal flag, socket, unit state | start, notify, watchdog, stop, restart |
| Request checks, parsing, replies, AWS helpers | `gmsa_service.cpp`, `util.hpp` | locals of a handler: user, password, access credentials, `err_msg`, `isTest` | credential specs, ARNs, S3 objects, secrets |
| Logger | `common/daemon.h` | level, log file, ring buffer | `set_log_level`, `logger`, `write_log` |
| Configuration, utf16 decoder, deployment scripts | `configuration/`, `auth/kerberos/src/utf16_decode/`, `cdk/` | none | |

### How they interact

`main` runs `ProcessCredSpecFile` to its end and then starts two threads. The
**gRPC thread** serves one request at a time: `HandleRpcs` takes one event from
the completion queue and runs the whole handler. The **renewal thread** wakes
every ten minutes, walks the same directory and fetches the tickets that are due.
There is no lock between them: they share the directory, the default credential
cache, the in-process kinit client with its globals, and the log file. `main` itself only feeds the watchdog. On
SIGTERM or SIGINT it returns, which ends the process under the other two; systemd starts
a process that failed again, on the directory the last one left.

### What is hard here

* *Two threads on one directory.* `remove_all` against `recursive_directory_iterator`,
  `kinit -c` against `kdestroy` and `rmdir`, a metadata file read while it is truncated.
* *Partial failure.* A request makes several tickets; the third may fail. Most exit
  codes are positive and most tests are for negative ones.
* *Crash and restart.* Any signal, a failed `GPR_ASSERT` or the watchdog may end the process
  between any two file operations. Nothing repairs the directory at start.
* *Time.* The rounds, the one-hour threshold and the reading of klist's text decide
  whether a ticket is replaced before it expires.
* *Object lifetimes.* `CallData` objects delete themselves and their addresses are tags; their seven
  classes are copies of each other.
* *Globals of the kinit client.* Written as a command, `kinit.c` keeps the password and the error context in globals;
  here two threads call it.
* *Long handlers.* The ARN handler has some twenty exits with locals that outlive an item.

### What makes each component correct

* Lease operations: an OK answer means all tickets and the metadata are there and stay;
  a failed create leaves no ticket; a finished deletion is final; work on one
  lease never touches another; every request is answered.
* Renewal thread: it renews what is due, only leases that were granted, and
  brings nothing deleted back.
* Expiry arithmetic: no ticket expires while fewer than a given number of rounds fail (with a clock that is an hour late one does, see 3),
  and none is expired for longer than the errors of the clock and the failed rounds account for.
* RPC server: one listener per method, one outstanding operation per object, no call ignored, no reply of
  another handler.
* Request checks: OK only for a request whose items were all good; no ticket made with credentials that were not checked.
* Kinit client: no password left in memory, no error context left dangling; a call that is alone is served
  and leaves the default cache to its user.
* Logger: the ring index stays in its array and the file near its limit; errors are logged (they are not, see 3).
* Main thread: no worker beside `ProcessCredSpecFile`; a signal ends the process; a service
  that announces itself comes to serve.
* Password fetch: 0 is returned only with a new ticket; a failure leaves the old one; each
  controller is asked, twice, before the search gives up.

## 2. Modules

    KrbDir                    shared state: directory, metadata, default cache
      |-- LeaseService        the gRPC thread
      |-- RenewalThread       the renewal thread
            \-- CredentialsFetcher      both, with ageing tickets, crashes, restarts;
                  |                       implements LeasePromise (INSTANCE ... WITH)
                  |-- MCCredentialsFetcher      instances for TLC
                  \-- LeaseProofs               types, the lease invariant, what follows
                        \-- PromiseProofs       leases under a random id; the refinement
    TicketClock  -- MCTicketClock, TicketClockProofs
    Requests     -- MCRequests, RequestsProofs  the checks and replies of the handlers
    RpcServer    -- RpcProofs                   CallData objects and completion queue;
                                                implements RpcPromise (INSTANCE ... WITH)
    KinitClient  -- HostKinit  -- KinitProofs   my_kinit_main; its callers
    DaemonMain, Logger -- LoggingDaemon -- DaemonProofs   main under systemd; logging
    GmsaFetch    -- FetchProofs                 the search over the controllers

**KrbDir** has the directories as sets (`leaseDir`, `acctDir`), each `krb5cc` as
`absent`, `empty` (touched by a create handler), `fresh` or `stale` (within
`RENEW_TICKET_HOURS` of its end), each metadata file as `absent`, `torn` (truncated,
not yet written) or `ok`, and `hostTgt`: the default cache holds an unexpired
ticket. A metadata entry keeps what some property tells apart: the ticket, its
owner (`Host` for the machine or the vault secret, or a domainless user) and whether
`krb_file_path` is the cache file or its directory. `CanFetch` says when
`kinit -c` can succeed: there is a host ticket, the path is a file and its directory exists.

**LeaseService** is the gRPC thread: `gpc` is the point in the handler, the other
variables its stack frame. Each action is one stretch of code between two points where the
renewal thread can run or the process can die: a kinit, the creation of a
ticket directory, a fetch, one `remove_all`, the opening and the writing
of the metadata, one `kdestroy`, one `unlink`, one `rmdir`. The four create operations share
these steps, as the handlers share the code by copy, and differ where the handlers do (who
chooses the lease id, what an empty list means, an existing `krb5cc`, what a
failed kinit cleans up). `reply[l]` remembers what the last operation on the
lease told its client, and `listed` which paths the reply to a deletion names.

**RenewalThread** is `krb_ticket_renew_handler`. The scan is not atomic: the iterator
lists a directory and opens what it listed later, and throws if that is gone, which
ends the thread (`dead`). A ticket that was fetched is fetched a second
time, because nothing leaves the retry loop on success; a failed fetch followed by a
host kinit leaves the loop.

**CredentialsFetcher** composes the two, lets tickets age and the host ticket run out, and
adds `ProcessDies` at every step: both frames are lost, the directory stays.

**TicketClock** is the arithmetic alone: a clock, rounds `Interval` to `Interval + Slack`
apart, `MaxFails` rounds that may fail in a row, the offsets `Skews` that
`mktime` may add because `tm_isdst` is not initialised (none, an hour early, an hour late), and the forms
`Klist` in which the end of the ticket may be printed: with a year of four digits, of two, or not at all.

**LeasePromise** is what a client may rely on, without files and threads: `told`, the tickets `promised` and
`usable`, and the one operation in progress. `CredentialsFetcher` implements it under the mapping
`told <- reply`, `promised <-` the tickets that the metadata of granted leases lists, `usable <-` the caches that hold a ticket,
`op <- glease` (`KeepsPromise`). Most steps of the threads are stutters or `Work` there; a crash is `CutOff`.

**Requests** is the part of the seven handlers around the work on tickets: their arguments, the loop over the
items, the helpers on texts, S3 and secrets, the list of tickets, the locals that hold
secrets, and the reply. Each handler ends with actions of its own, one for each path that clears, cleans up and replies
differently (`AddKerberosArnLeaseFails`, `...Granted`, `...Tested`, and so on). Items are drawn when the loop reaches them. Texts are sequences
of tokens where `split_string` and the character checks tell them apart; of a name, password or domain the model knows whether it is
missing, bad, too long or good.

**RpcServer** has the seven `CallData` classes as a table (cookie, RPC, class of the successor, replies), one object per address with its `status_`, and the operation gRPC
holds for it. The cookie of an object, not its class, decides whose `Proceed` runs on it, as the chain of casts in `HandleRpcs` does
(`Proceeds`). Each class has a second `Proceed`, without arguments, of which only the branch for `CREATE` can run. A handler is one step. `AssertOkFails` is `GPR_ASSERT( ok )` on
an event that completed without success.

**RpcPromise** is what the clients of that server may rely on, without objects, addresses and events: `waiting[m]` calls of
each RPC, the `replies` under way, and whether the server is `serving`. `RpcServer` implements it (`AnswersEachCall`) with
`waiting <-` the calls gRPC holds and the one the listening object has and the loop has not seen, `replies <-` the objects in `sending`, each
with the RPC of the class whose `Proceed` the casts found for it: the promise, by which a reply takes the place of a waiting call of its own
RPC, therefore fails if that is another than the one it registered for. Registration, the hand-over of a call to an object, `delete this` and the reuse of an address are stutters there.

**KinitClient** is `kinit.c` as called here (`INIT_PW`, a named principal, no cache option): copy of the password into `udata`
in two halves, choice of the output cache, the prompter that reads `udata` back, `krb5_cc_switch`, `k5_end`, the wipe.
**HostKinit** adds the three functions that call it or the kinit command, with their checks of installed programs and
their error codes, and remembers which calls overlapped.

**Logger** is `CF_logger`: two loggers (the daemon's, shared by the main and the gRPC thread, and the copy the renewal
thread takes), one log file. The array index is `(n + 1) % 80 * 1024` because the macro has no parentheses.
**LoggingDaemon** composes it with `DaemonMain`: which thread logs when, `set_log_level` after the threads are
created, the copy at the start of the renewal thread.

**DaemonMain** is `main` step by step with the systemd unit around it (`ExecStartPost`,
`Restart=on-failure`, stop).

**GmsaFetch** is `fetch_gmsa_password_and_create_krb_ticket` with the loops of
`execute_ldapsearch`; each command succeeds or fails.

### Abstractions and assumptions

* `generate_lease_id` never returns an id twice (ten random bytes); that it does not is what
  `FreshDirectory` rests on, and its mutant shows what follows if it did.
* The accounts of a request are a set. The handlers drop or reject duplicates; the order is
  the client's choice.
* In `LeaseService` the ARNs of one request name one task id and one user, and parsing gives "accepted tickets, then
  perhaps a bad one". `Requests` has the lists with several tasks and users, the test ARNs, and the checks.
* In `Requests` a mount path of more than one slash is rejected, and one that starts or ends with a slash gets by `split_string`
  as the code has it. `split_string` on '=' splits what follows the first '=' into lines. Renewal of tickets (`krb_ticket_info` per file) is one item per metadata entry; a fault skips the rest of
  its file.
* `MakeTicket` of `Requests` has two exits less than the code: 'Directory already exists' is never taken (`FreshDirectory`), and
  'Invalid credentials for domainless user' would need an empty name or password, which `OnlyCheckedCredentials` excludes.
* A klist output in which no end of the ticket is found (klist fails, or prints no line "renew until": a ticket that cannot be renewed has none)
  makes every round pass the ticket over, and it expires; so the results on `TicketClock` are for the other forms. A "renew until" line
  without the two dates leaves two buffers uninitialised that are then parsed; that is taken as no date.
* `GrantedIsComplete` speaks of the tickets the metadata lists. That the metadata of a granted lease lists all tickets of the request is in
  `ReplyGranted`, which writes `glist`, and on the side of the requests in `OkIsComplete`.
* The strings in the log's ring buffer are not modelled, only its index: `RingInBounds` does not speak of the data race on the strings.
* `udata.pass` is two halves, so that two copies can mix. The buffer after the wipe is 256 bytes of 0xff without an end; it is
  taken as a wrong password. `udata.name` is written and wiped with it and never read.
* The kinit command of the machine chooses and switches caches as `k5_begin` and `k5_kinit` do: it is the same program.
* `MakeTicketDir` is one step: between `create_directories` and the `ofstream` that touches `krb5cc`
  neither thread can tell the difference, because no metadata names the directory yet, or
  (an ARN lease made again) the directory exists already.
  A crash in between leaves an empty ticket directory of a lease that was never answered, which a crash
  during the cleanup or after a `kdestroy` leaves too.
* The exit "Directory already exists" of two create handlers is not an action: `FreshDirectory` shows that it is
  never taken. Requests that are refused before they touch anything (an empty lease id, an
  empty ARN list) are left out, and `HealthCheck` has no state.
* `remove_all` throws on a directory that is not empty; the catch block then calls `closedir`
  a second time on the same stream. That is undefined: either nothing happens or the process
  aborts (`RemoveTicketDirThrows`).
* `HandleRpcs` reads the cookie of an object that `Proceed` may have just deleted; it compares
  it with the next class's cookie and is taken to find no match.
* A recursive directory iterator throws when a directory it is about to open is gone.
* `hostTgt` in `KrbDir` says that the default cache has a ticket, not whose; whose it is is the subject of `HostKinit`.
* Log lengths are counted in messages, and the limit is `MaxLogLen`. A log file that cannot be made is left out: `write_log` then
  passes NULL to `fclose`.

## 3. Runs

Passing runs:

| Run | Instance | Shows |
|---|---|---|
| `leases` | a random lease and the credential spec lease, one account, one user, crashes, expiring host ticket | `GrantedIsComplete`, `RenewsOnlyGranted`, `LeaseInv` (with `TypeOK`), `TicketLostByOwnLease`, `RoundAdvances`, and the refinement `KeepsPromise` |
| `arn` | one client-named lease, two accounts, crashes | `DeletedStaysGone`, `RequestsAnswered`, for a lease made again over its own directories (that the promise is kept there too is `PromiseKept`, section 4) |
| `due` | one random lease, two accounts, crashes, expiring host ticket, unwritable metadata | `FailedLeavesNoTicket`, `FreshDirectory`, `DueTicketRenewed`, `RequestAdvances`, `UndisturbedDeletion`, `OnlyRemovalStopsRenewal` |
| `clock` | units of 5 minutes, threshold 1 h, three failed rounds, offsets of 0, -1 h and +1 h, years of two and four digits | `ExpiredBriefly`, `ClockInv` |
| `rpc` | two of the seven classes, with different replies, four addresses, one waiting call per method | `OneListener`, `OneOperationPerObject`, `RepliesAreReal`, `CallsTaken`, and the refinement `AnswersEachCall` |
| `daemon` | failing `pthread_create`, crashes, a log of one message, three threads that log | `ThreadsAfterCredSpec`, `RingInBounds`, `LogFileBounded`, `SignalEndsProcess`, `ReadyIsServed` |
| `fetch` | up to three controllers | `OkMeansTicket`, `EveryControllerAsked`, `FetchEnds`, `FetchAdvances` |
| `kinit` | both threads, two principals, four caches, missing programs, failing library calls | `PasswordWiped`, `ErrctxIsOpen`, `AloneIsServed`, `InitializedCacheKept` |
| `requests` | up to three items, two accounts, two users, every mount path of up to four tokens, texts with '=' and line ends | `ReqTypeOK`, `OnlyCheckedCredentials`, `OkIsComplete`, `SplitIsLossless` |

Why these bounds: two leases are what is needed for one to disturb the other, and the proofs cover the
rest; two accounts are what is needed for a request to fail half way and for an old account's directory
to be left behind; one user and `Host` are the two cases of ownership that the renewal
thread tells apart. Three controllers give a first, a middle and a last one. Two
methods and four addresses let every method have a listener and a reply on its way, and
an address be used again; with fewer, `new` would have no address to return. The rows of the class table that `rpc` leaves
out are covered by the proofs, which take any set of the seven. Two principals, one of them the machine, are
what two threads need to take each other's cache; four caches are one more than two calls and the
default can use. Three items give a first, a middle and a last one, and two of them equal.

Runs that show where the code does something else than a comment or a test says:

| Run | Property | What happens |
|---|---|---|
| `renewal_stops` | `RenewalKeepsRunning` | `DeleteKerberosLease` removes a directory the renewal thread's iterator has listed; the exception ends the thread's loop (`break` in the catch block), and no ticket is renewed until a restart |
| `delete_race` | `DeletedPathsDoNotExist` | the renewal thread, in the middle of its fetch, writes the cache again after `kdestroy` or between `unlink` and `rmdir`; the reply is OK and lists a path that exists |
| `log_errors` | `ErrorsLogged` | `CF_logger::logger` logs when `level >= log_level`, and syslog levels fall with severity: after `set_log_level( LOG_NOTICE )` the errors of handlers are dropped and only informational messages logged |

How far the first two go is settled by two properties that hold, and are proved (section 4):

* `UndisturbedDeletion`: as long as the renewal thread has never stood between the check and the end of a fetch for the very lease being
  deleted, no listed path exists at the reply and no deletion is left half done. A deletion is not disturbed by rounds over other
  leases, by a scan, by a crash before it or by what earlier requests left behind.
* `OnlyRemovalStopsRenewal`: as long as no deletion and no cleanup of an ARN request has run, the renewal thread never ends. In
  particular a failed request under a random id does not end it, because its cleanup removes only files. The mutant of this property makes that cleanup
  do what its comment says ("remove the directories on failure"), and TLC then finds the thread ended by it.

### Other disagreements met while modelling

These follow from the models but have no run of their own:

* After a failed create the cleanup removes `krb5cc`, not the directory that holds it: by
  then `krb_file_path` names the file ("remove the directories on failure",
  `gmsa_service.cpp:1260`). `RemoveOnFailure` models it; `FailedLeavesNoTicket` holds all the same.
* `write_meta_data_json` returns 0 when the file cannot be opened ("@return 0 or 1 for successful or
  failed writes", `metadata.cpp:141`), so the lease is granted without metadata
  (`OpenMetadataFails`). `GrantedIsComplete` is claimed without this fault only.
* With `tm_isdst` left at 0 in summer, `mktime` is an hour late, which is the whole of the threshold: a ticket is due when 0 is left of it, and
  may have expired by up to one gap between rounds when the next round replaces it, although none failed ("renew the ticket 1 hrs before the
  expiration", `constants.h:3`). `NeverExpires` is therefore not a property of the run `clock`, whose offsets include this one: with it as
  an invariant TLC reaches `left = 0` through rounds that read the clock late. `ExpiredBriefly` says how far this goes, for every offset.
* Two digit years, which `get_ticket_expiration` accepts, are read with `%Y`; every
  ticket is then due in every round (`Ready`), and fetched in every round, to no harm of the ticket.
* `AddKerberosArnLease` on a task id that has its tickets already leaves `krb_file_path` on the directory, which the metadata
  then records ("krb_file_path" is a cache in the example at `metadata.cpp:112`): such a ticket is never renewed by request.
* `create_pthread` returns 1 on failure and `main` tests for `< 0`, so a daemon without one of its threads announces itself
  ("We need to run three parallel processes", `daemon.cpp:261`).
* `my_kinit_main` returns 1 on failure; its callers stop on negative codes only. After a wrong password they search the
  directory with the ticket the default cache happens to hold. So they do when two calls overlap: `AloneIsServed` fails without
  its `alone`, as both the password and the default cache are then the other call's.
* In an ARN request every ARN overwrites `username`, `password` and `domain` too: the tickets of all are made with the user of the last,
  whatever user their entry records. `OnlyCheckedCredentials` says that this user has passed the checks.
* So it does with `lease_id`: a request for two tasks is granted as a lease of the last one. The metadata lies in that directory and the ticket of the
  other task outside it ("lease_id associated to the kerberos tickets created", `metadata.cpp:139`), in a directory that a deletion under the lease id does
  not remove ("finally delete lease file and directory", `krb.cpp:620`); only the cache in it is destroyed.
* A test ARN ("functionaltestcfspec") at the end of a list turns an error of an earlier ARN into OK and keeps the secrets
  from being cleared (`AddKerberosArnLeaseTested`); `OkIsComplete` leaves lists with a test ARN out.
* The renewal thread's logger is a copy made when the thread starts, with `LOG_EMERG` or `LOG_NOTICE` as the race with `set_log_level` has it:
  under the first everything is logged.
* `write_log` closes its descriptor twice (`fclose`, then `close`); the second may hit a descriptor another thread has just been given.
* `READY=1` is sent when the gRPC thread has been created, not when it listens; `ExecStartPost` may find
  no socket, and the unit then starts over. `ReadyIsServed` is what does hold.

### Fairness

* Each thread runs when it can (`WF` on the steps of the gRPC thread once a request is in progress, on
  the renewal thread, on startup): they are pthreads under a fair scheduler and
  wait for no lock. Clients need not send requests and the process need not crash, so these have none.
* `DueTicketRenewed` needs more, in `FetchFairness`: a fetch tried again and again succeeds in the end
  (`SF` for each ticket), so does the host kinit, and if host kinits succeed again and again and a fetch of a ticket is
  tried again and again, then the host ticket has not run out at all of these fetches. It may expire for ever, between
  rounds and within them; what is excluded is that it does so each time between the kinit that ends one round and the fetch of the next. Without the
  first two Active Directory is simply unreachable; the last is the lifetime of a ticket, hours
  against ten minutes.
* `RpcServer`: the queue serves every tag (`SF` on its event), gRPC matches calls and completes replies.
* `LoggingDaemon`: `SF` on the steps of `main`, which logs between them but not for ever, `WF` on the server thread and systemd.
* `HostKinit` and `Requests` state no liveness: each call and each handler is a bounded sequence of steps.
* `FetchAdvances`, `RequestAdvances` and `RoundAdvances` need no fairness: they are the half of liveness that is safety. Each names the number of
  steps left (`FetchLeft`, `StepsLeft`, `RoundLeft`), and says that every step of the thread makes it smaller and that no step of anybody
  else makes it larger. With the fairness above, which only says that a thread that can run does, the call, the request and the round end.

### Deadlock

It is checked in every run of `CredentialsFetcher`, `TicketClock`, `HostKinit` and `Requests`. It is not in `rpc`, `daemon`, `log_errors`
and `fetch`, where the loop, the unit and the function really end.

## 4. Proofs

| Theorem | States | Assumes |
|---|---|---|
| `TicketClockProofs!ClockInvariant`, `OutageIsBounded` | `ClockSpec => []ClockInv`, `=> []ExpiredBriefly` | `"noDate" \notin Klist` |
| `LeaseProofs!TypeCorrect` | `Spec => []TypeOK` | |
| `LeaseProofs!LeaseInvariant` | `Spec => []LeaseInv` | |
| `LeaseProofs!DeletedLeaseStaysGone` | `Spec => []DeletedStaysGone` | |
| `LeaseProofs!GrantedLeaseIsComplete` | `Spec => []GrantedIsComplete` | `"metadata_open" \notin Faults` |
| `LeaseProofs!TicketsLostByOwnLease` | `Spec => TicketLostByOwnLease` | |
| `LeaseProofs!RequestsAdvance`, `RoundsAdvance` | `Spec => RequestAdvances`, `=> RoundAdvances` | `Lease`, `Account` and `User` are finite |
| `PromiseProofs!FailedCreateLeavesNothing`, `RenewalOfGranted`, `FreshDirectories` | `Spec => []FailedLeavesNoTicket`, `[]RenewsOnlyGranted`, `[]FreshDirectory` | |
| `PromiseProofs!PromiseKept` | `Spec => KeepsPromise` | `"metadata_open" \notin Faults` |
| `PromiseProofs!OnlyFetchDisturbsDeletion`, `RenewalStoppedByRemoval` | `Spec => UndisturbedDeletion`, `=> OnlyRemovalStopsRenewal` | |
| `RpcProofs!NoObjectLeaks`, `ListenerPerMethod`, `RealReplies` | `RpcSpec => []OneOperationPerObject`, `[]OneListener`, `[]RepliesAreReal` | |
| `RpcProofs!CallsAnsweredOnce` | `RpcSpec => AnswersEachCall` | |
| `DaemonProofs!CredSpecFirst`, `RingSafe`, `LogFileLimit` | `ProcessSpec => []ThreadsAfterCredSpec`, `[]RingInBounds`, `[]LogFileBounded` | |
| `FetchProofs!TicketFromAnswer`, `ControllersAsked` | `FetchSpec => []OkMeansTicket`, `[]EveryControllerAsked` | |
| `FetchProofs!FetchBounded` | `FetchSpec => FetchAdvances` | |
| `KinitProofs!NoPasswordLeft`, `NoDeadErrctx`, `ServedAlone`, `CachesKept` | `HostSpec => []PasswordWiped`, `[]ErrctxIsOpen`, `[]AloneIsServed`, `InitializedCacheKept` | |
| `RequestsProofs!CheckedBeforeUse`, `CompleteWhenOk` | `ReqSpec => []OnlyCheckedCredentials`, `[]OkIsComplete` | |
| `RpcTypes`, `DaemonTypes`, `FetchTypes`, `HostTypes`, `HandlerTypes` | the type invariants of the modules above | |

They hold for every set of leases, accounts and users, finite or not (`RequestsAdvance` and `RoundsAdvance` count directories, files and entries, and
ask for finite sets), every combination of the faults, and rest on the named assumptions of the modules: `KrbDirAssumption` (the kinds of lease ids are disjoint, `NoLease` and `NoEntry` are not a
lease and an entry), `ClockAssumption`, `RpcAssumption`, `KinitAssumption`, `HostAssumption`, `DaemonAssumption`, `LoggerAssumption`,
`RequestsAssumption` and the one of `GmsaFetch`. The theorems of the other modules hold for every set of methods, addresses, threads, users
and caches, every set of ARNs and number of items, every number of controllers and every length of the log.

*The ticket clock.* `ExpiredBriefly` is not inductive: a tick at its bound breaks it. `ClockInv` adds what the
last look at the ticket established: more than the threshold was left then, by some reading
of the clock, less one gap between rounds for each round that has failed since. The two
facts about products that the SMT solver needs (`GapStep`, `GapBound`) are lemmas. The bound is below 0 for the offsets of an hour late, where
the ticket does expire (section 3). The corollary `TicketNeverExpires` says what the constants would
have to be for it not to: a threshold worth `MaxFails + 1` gaps for every offset (`WideMargin`), as it is for the other two offsets.

*Types.* `TypeOK` is inductive because it says which parts of a frame are set at which step: a
create or delete step has a lease, a step that fetches or removes has an entry.

*The lease invariant.* `GrantedIsComplete` fails to be inductive at `ReplyGranted`, which
promises tickets made many steps before, and `DeletedStaysGone` at `ReplyDeleted` and at every fetch. `LeaseInv`
adds:

* `DirectoryTree`: no cache outside a ticket directory, none of those and no metadata outside a lease
  directory. With `CanFetch` this is why the renewal thread cannot bring a deleted lease back, although it
  may hold its entries: `kinit` makes the cache file, never its directory.
* `CreateFrame` and `DeleteFrame`: the operation in progress works on tickets of its own lease, for which
  the client holds no promise (`none`, `deleting`).
* `TicketsMade`: the tickets already passed exist and hold a ticket; none is left to make when the metadata is written.
* `OwnEntries`: metadata lists only tickets of its own lease, so that `kdestroy` on its entries stays inside it.

There is one lemma per action. Steps that leave the disk alone share `CreateStepOffDisk` and `RenewStepOffDisk`, those that
end an operation `RestStep`, and every step of the renewal thread is a `CacheStep`: it takes no ticket away and
makes none outside a ticket directory. `TicketLostByOwnLease` follows from the same invariant.

*Leases under a random id.* `FailedLeavesNoTicket`, `RenewsOnlyGranted` and `FreshDirectory` rest on the same fact: what nobody
was told of, nobody can reach. `FreshInv` adds to `LeaseInv` that an id not yet drawn has no directory, that the metadata of a lease
whose client was not told OK lists nothing (`UntoldIsUnseen`), that no thread holds an entry of such a lease (`EntriesAreTold`),
and that a create operation has made tickets of its list only (`FreshCreate`).

*The refinement.* `PromiseKept` maps every action. The steps that matter are `ReplyGranted` (the tickets it promises are there: `TicketsMade`),
`ReplyDeleted` (nothing is left: `DeleteFrame`), and every fetch of the renewal thread, which must not bring a ticket of a deleted
lease back (`DirectoryTree`). `RestFrame` adds that a thread at rest has no lease in hand.

*The exact causes.* `UndisturbedDeletion` and `OnlyRemovalStopsRenewal` have the form `[]~Cause => []Good`, and are proved with the cause excluded at each step.
For the first, `RemovesCleanly` says that `rmdir` finds the directory that `unlink` has emptied, and that no deletion was left half done; what a fetch does between
the two steps stays outside the lease in hand (`FetchElsewhere`). For the second, the thread ends when a directory it has listed is gone.
`ScanSafe` says that everything listed is there; it needs `OwnDirectories`, by which a request under a random id has set `krb_file_path` to the file for every
directory it made, so that its cleanup takes files only, and `StartupAlone`, because `ProcessCredSpecFile` does take directories away, but before the thread exists.

*Bounded work.* The number of steps left is a sum of cardinalities, weighted by what each element can still cost: three steps for a ticket to make, four for one
to renew, two for a ticket directory to remove, six for an entry the renewal thread looks at. `StepSizes` and `RoundSizes` say that all of them are numbers,
`Count` what taking one element away does, `StepValues` and `RoundValues` what the sum is at each step, and then there is one lemma for each group of
actions (`AddAdvances`, `RenewAdvances`, `DeleteAdvances`, `EndAdvances`, `RoundSteps`). Two of the steps say something about the code. A deletion that has
not yet come to `remove_all` counts the ticket directories on disk, and no other thread can add one, so that `remove_all` comes to its end although caches are written
again under it. A round counts each listed lease with all that it could hold, so that nothing created meanwhile makes it longer; `RoundFrame` says which locals of the
round are in use where.

*The RPC server.* `OneListener` is not inductive: that the successor registers for the same RPC rests on the class table (`ClassTable`), and
that it takes the place of exactly one object on `Listeners` and `Outstanding`, one operation per object of the kind its status allows.

`CallsAnsweredOnce` maps every step of the server to one of `RpcPromise`. `RpcInv` gives the two facts it needs: the class of a live object
is the RPC it registered for (`View`), and at most one object listens for an RPC, so that the call an object holds is counted
once (`Listeners`). `ArrivesView` is the step where both parts of `waiting` change and their sum does not; `AnswerView` the one
where an object becomes a reply while its successor, perhaps at an address just freed, takes its place: the successor must have
no event left from its predecessor (`Outstanding`).

*The handlers.* `OkIsComplete` speaks of the reply alone, and what it claims was settled at some twenty exits before. `ReqInv` carries it there:
`NoItemLost` counts the entries of the list against the items passed for as long as no fault was met;
`ListOfPaths` says that no path is in the list twice, and with `MadeInOrder`, by which the tickets made are those of a prefix of the list, that as
many were made as the list has entries; `HandlerFrame` says which locals are in use where, among them that an ARN in hand passed its check;
`ReplyIsTrue` is what the reply was decided on. `OnlyCheckedCredentials` needs `CredentialsChecked`: the ARN handler overwrites its locals before it checks them, so
that they are good only when the loop goes on, and not before the first ARN or after a test ARN, from which the ticket loop is not reached.
`split_string` enters as an operator of which nothing is known, so that
these theorems do not rest on what it computes.

*The kinit client.* `PasswordWiped` speaks of the moment when all calls are over, so that `UdataHeld` follows each half: what is in it was wiped,
or some thread is between its copy and its wipe of that half. `AloneIsServed` needs the whole course of a call that nobody
overlaps (`Stands`): the password is its own, the output cache is empty or its user's, and after the switch it is the default.

*Process and log.* `ThreadsInOrder` says how far `main` must be for a thread to exist. `LogFileBounded` counts the threads that have looked at the
length and not yet written; the ring index is bounded together with the stale copies that threads hold of it.

*The fetch.* `AskedSoFar` says of each controller how often it was asked: those before the current one twice, those after it not
at all, the current one as often as the loop counter says. `FetchBounded` needs the types and `Position`, which bound both loop counters by their lists.

*Left to TLC.* Liveness (`RequestsAnswered`, `DueTicketRenewed`, `CallsTaken`, `SignalEndsProcess`, `ReadyIsServed`,
`FetchEnds`): fairness and `ENABLED` are beyond this prover. What is proved of `RequestsAnswered` and `FetchEnds` is that the steps run out. `SplitIsLossless`: it is about folds over
a sequence, and what they compute for every input needs induction over data. Every other invariant, action property and refinement
that a passing run checks is proved.

## 5. Mutants

Each property of each passing run has a mutant: an operator, marked `Mutant:` in its module, that changes one mapped
definition the way a plausible bug would (an ignored exit code, a loop that runs once too often, a cleanup
of only the tickets not yet reached, a missing new listener). With it TLC finds the property violated.

## 6. Not modelled

* The command line (`configuration/src/config.cpp`): parsed once before any thread exists; its outcome is a choice in `DaemonMain`.
* The text of LDAP answers, klist, metadata and credential specs beyond the fields that decide something.
* The second try of `execute_ldapsearch` runs the command with the first output appended to it; only its
  outcome is modelled.
* The list of paths in the reply of the renew operations: the list is only appended to when it is not empty, so
  it is always empty; no document says what it should be.
* File descriptors and the journal behind the logger.
* The branches of `kinit.c` for keytabs, renewal, validation and anonymous principals: `my_kinit_main` never takes them.
* The headers `k5-int.h`, `k5-platform.h`, `autoconf.h`, `k5-trace.h` and `k5-thread.h`: declarations copied from MIT Kerberos.
* AWS, the krb5 library, gRPC, systemd, the utf16 decoder, scripts and samples: external; what the code sees of them is modelled.

## 7. Plan

Done: the directory with both threads, crashes and restarts, and the promise it implements; the clock; the RPC server with its
seven classes; the checks and replies of the handlers; the main thread with its loggers; the password fetch; the kinit client
and its callers; the proofs above. What is left, in this order:

1. `HostKinit` composed with `GmsaFetch`: a fetch that runs with the ticket of another user, up to the answer of the directory.
2. `TicketLife`: `TicketClock` composed with the renewal thread's retry loop, replacing
   `fresh` and `stale` by a time for one ticket.
3. `Requests` composed with `LeaseService`, for ARN lists with several tasks and users.
