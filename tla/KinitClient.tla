---------------------------- MODULE KinitClient ----------------------------
(***************************************************************************)
(* The in-process kinit of kinit.c, called as my_kinit_main by the gRPC    *)
(* and the renewal thread. A call has its own options and k5_data, but the *)
(* password goes through the global udata to the prompter, the context     *)
(* used for error messages is the global errctx, and the tickets end up in *)
(* the credential cache collection of the process.                         *)
(*                                                                         *)
(* udata.pass is written without a lock: it is kept as its two halves,     *)
(* written one after the other, so that two writers can mix. A password is *)
(* named by the user it is right for; the wiped buffer, which has no end,  *)
(* is taken as a wrong one. The KDC and libkrb5 are external: every        *)
(* library call may fail.                                                  *)
(***************************************************************************)
EXTENDS Naturals, FiniteSets

CONSTANTS
    Thread,        \* the threads that call my_kinit_main
    User,          \* principals
    Wrong,         \* a password that is no user's
    NoPass,        \* udata.pass before the first call
    Wiped,         \* udata.pass after memset( 0xff )
    Cache,         \* credential caches that can exist
    DefaultCache,  \* the primary cache of a fresh collection
    NoUser,        \* principal of a cache that is not initialized
    NoCache,       \* k5->out_cc == NULL
    NoThread       \* errctx == NULL

ASSUME KinitAssumption ==
    /\ DefaultCache \in Cache
    /\ NoCache \notin Cache
    /\ NoUser \notin User
    /\ NoThread \notin Thread
    /\ {Wrong, NoPass, Wiped} \cap User = {}
    /\ Wrong \notin {NoPass, Wiped}

VARIABLES
    kpc,       \* kpc[t]: where thread t is
    user,      \* user[t]: argv[1], the principal of its call
    given,     \* given[t]: argv[2], the password of its call
    udata,     \* udata.pass, first and second half
    errctx,    \* the thread whose context errctx points to
    ctx,       \* ctx[t]: k5->ctx is initialized and not freed
    out,       \* out[t]: k5->out_cc
    switching, \* switching[t]: k5->switch_to_cache
    authed,    \* authed[t]: authed_k5
    cache,     \* cache[c]: the principal whose ticket cache c holds
    primary,   \* the cache the collection names as the default
    deftype    \* type of the default cache

kinitVars == <<kpc, user, given, udata, errctx, ctx, out, switching,
               authed, cache, primary, deftype>>

Half == {1, 2}
Password == User \cup {Wrong}
Memory == Password \cup {NoPass, Wiped}

\* kpc between the first write of udata and the last.
InCall == {"copying", "begin", "kdc", "switch", "free",
           "unset", "wipe", "wiping"}

KinitTypeOK ==
    /\ kpc \in [Thread -> InCall \cup {"idle", "copy", "keytab", "returned"}]
    /\ user \in [Thread -> User \cup {NoUser}]
    /\ given \in [Thread -> Password \cup {NoPass}]
    /\ udata \in [Half -> Memory]
    /\ errctx \in Thread \cup {NoThread}
    /\ ctx \in [Thread -> BOOLEAN]
    /\ out \in [Thread -> Cache \cup {NoCache}]
    /\ switching \in [Thread -> BOOLEAN]
    /\ authed \in [Thread -> BOOLEAN]
    /\ cache \in [Cache -> User \cup {NoUser}]
    /\ primary \in Cache
    /\ deftype \in {"FILE", "KCM"}

\* A FILE cache has no collection: the primary cache is the only one used.
KinitInit ==
    /\ kpc = [t \in Thread |-> "idle"]
    /\ user = [t \in Thread |-> NoUser]
    /\ given = [t \in Thread |-> NoPass]
    /\ udata = [h \in Half |-> NoPass]
    /\ errctx = NoThread
    /\ ctx = [t \in Thread |-> FALSE]
    /\ out = [t \in Thread |-> NoCache]
    /\ switching = [t \in Thread |-> FALSE]
    /\ authed = [t \in Thread |-> FALSE]
    /\ cache = [c \in Cache |-> NoUser]
    /\ primary = DefaultCache
    /\ deftype \in {"FILE", "KCM"}

At(t, here, next) == kpc[t] = here /\ kpc' = [kpc EXCEPT ![t] = next]

-----------------------------------------------------------------------------
(* my_kinit_main. *)

\* strncpy( udata.pass, argv[2] ), first half.
CopyPassword(t) ==
    /\ At(t, "copy", "copying")
    /\ udata' = [udata EXCEPT ![1] = given[t]]
    /\ UNCHANGED <<user, given, errctx, ctx, out, switching, authed, cache,
                   primary, deftype>>

CopyPasswordEnds(t) ==
    /\ At(t, "copying", "begin")
    /\ udata' = [udata EXCEPT ![2] = given[t]]
    /\ UNCHANGED <<user, given, errctx, ctx, out, switching, authed, cache,
                   primary, deftype>>

\* memset( udata.pass, 0xff ), whether the call succeeded or not.
WipePassword(t) ==
    /\ At(t, "wipe", "wiping")
    /\ udata' = [udata EXCEPT ![1] = Wiped]
    /\ UNCHANGED <<user, given, errctx, ctx, out, switching, authed, cache,
                   primary, deftype>>

\* Mutant: the password is only wiped when the call succeeded.
WipePasswordOnSuccess(t) ==
    /\ At(t, "wiping", "returned")
    /\ udata' = IF authed[t] THEN [udata EXCEPT ![2] = Wiped] ELSE udata
    /\ UNCHANGED <<user, given, errctx, ctx, out, switching, authed, cache,
                   primary, deftype>>

WipePasswordEnds(t) ==
    /\ At(t, "wiping", "returned")
    /\ udata' = [udata EXCEPT ![2] = Wiped]
    /\ UNCHANGED <<user, given, errctx, ctx, out, switching, authed, cache,
                   primary, deftype>>

-----------------------------------------------------------------------------
(* k5_begin. *)

\* The principal is argv[1], so the branches for a keytab, an anonymous or an
\* unnamed principal are not taken; the caches for it are, in this order: one
\* that holds its ticket already, a new one when the default cache is in use,
\* the default cache. A type without a collection always gives the default.
Match(t) == {c \in Cache : cache[c] = user[t]}

\* krb5_cc_new_unique: one that nobody uses.
Unused == {c \in Cache : cache[c] = NoUser /\ \A t \in Thread : out[t] # c}
NewUnique == {c \in Unused : c = CHOOSE d \in Unused : TRUE}

\* Mutant: the default cache is used although it is initialized.
OutCacheDefault(t) ==
    IF deftype = "FILE" THEN {primary}
    ELSE IF Match(t) # {} THEN Match(t)
    ELSE {primary}

OutCache(t) ==
    IF deftype = "FILE" THEN {primary}
    ELSE IF Match(t) # {} THEN Match(t)
    ELSE IF cache[primary] # NoUser THEN NewUnique
    ELSE {primary}

\* The context of the call becomes the one of error messages; switch_to_cache is
\* set when the output cache was matched or made.
k5_begin(t) ==
    /\ At(t, "begin", "kdc")
    /\ ctx' = [ctx EXCEPT ![t] = TRUE]
    /\ errctx' = t
    /\ \E c \in OutCache(t) : out' = [out EXCEPT ![t] = c]
    /\ switching' = [switching EXCEPT ![t] =
                       deftype # "FILE" /\ (Match(t) # {} \/ cache[primary] # NoUser)]
    /\ UNCHANGED <<user, given, udata, authed, cache, primary, deftype>>

\* A library call of k5_begin fails: the first, or one after errctx was set.
k5_begin_fails(t) ==
    /\ At(t, "begin", "free")
    /\ \/ ctx' = [ctx EXCEPT ![t] = TRUE] /\ errctx' = t
       \/ UNCHANGED <<ctx, errctx>>
    /\ UNCHANGED <<user, given, udata, out, switching, authed, cache, primary, deftype>>

-----------------------------------------------------------------------------
(* k5_kinit, action INIT_PW. *)

\* krb5_get_init_creds_password asks for the password: the answer is whatever
\* udata.pass holds at that moment.
kinit_prompter == udata

Accepted(t) == kinit_prompter = [h \in Half |-> user[t]]

\* The KDC accepts the password: the ticket is stored in the output cache, and
\* notix = 0 from here on.
GetInitCreds(t) ==
    /\ Accepted(t)
    /\ At(t, "kdc", "switch")
    /\ cache' = [cache EXCEPT ![out[t]] = user[t]]
    /\ authed' = [authed EXCEPT ![t] = TRUE]
    /\ UNCHANGED <<user, given, udata, errctx, ctx, out, switching, primary,
                   deftype>>

\* "Password incorrect while getting initial credentials".
PasswordIncorrect(t) ==
    /\ ~Accepted(t)
    /\ At(t, "kdc", "free")
    /\ UNCHANGED <<user, given, udata, errctx, ctx, out, switching, authed,
                   cache, primary, deftype>>

\* Mutant: the default stays as it is.
StayOnCache(t) ==
    /\ At(t, "switch", "free")
    /\ UNCHANGED <<user, given, udata, errctx, ctx, out, switching, authed, cache,
                   primary, deftype>>

\* The cache of the call becomes the default, and the cleanup of k5_kinit.
SwitchCache(t) ==
    /\ At(t, "switch", "free")
    /\ primary' = IF switching[t] THEN out[t] ELSE primary
    /\ UNCHANGED <<user, given, udata, errctx, ctx, out, switching, authed,
                   cache, deftype>>

\* A library call of k5_kinit fails: com_err and goto cleanup, with notix as it is.
k5_kinit_fails(t) ==
    /\ kpc[t] \in {"kdc", "switch"}
    /\ kpc' = [kpc EXCEPT ![t] = "free"]
    /\ UNCHANGED <<user, given, udata, errctx, ctx, out, switching, authed,
                   cache, primary, deftype>>

-----------------------------------------------------------------------------
(* k5_end. *)

FreeContext(t) ==
    /\ At(t, "free", "unset")
    /\ ctx' = [ctx EXCEPT ![t] = FALSE]
    /\ UNCHANGED <<user, given, udata, errctx, out, switching, authed, cache,
                   primary, deftype>>

\* Mutant: errctx is left as it is.
KeepErrctx(t) ==
    /\ At(t, "unset", "wipe")
    /\ UNCHANGED <<user, given, udata, errctx, ctx, out, switching, authed,
                   cache, primary, deftype>>

\* errctx = NULL and memset( k5 ).
UnsetErrctx(t) ==
    /\ At(t, "unset", "wipe")
    /\ errctx' = NoThread
    /\ out' = [out EXCEPT ![t] = NoCache]
    /\ switching' = [switching EXCEPT ![t] = FALSE]
    /\ UNCHANGED <<user, given, udata, ctx, authed, cache, primary, deftype>>

\* The steps of thread t in kinit.c when no library call fails.
my_kinit_main(t) ==
    \/ CopyPassword(t) \/ CopyPasswordEnds(t)
    \/ k5_begin(t)
    \/ GetInitCreds(t) \/ PasswordIncorrect(t) \/ SwitchCache(t)
    \/ FreeContext(t) \/ UnsetErrctx(t)
    \/ WipePassword(t) \/ WipePasswordEnds(t)

=============================================================================
