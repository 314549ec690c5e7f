----------------------------- MODULE HostKinit -----------------------------
(***************************************************************************)
(* How the gRPC and the renewal thread get the ticket they search the      *)
(* directory with: the user of a secret or of a request through            *)
(* my_kinit_main (KinitClient), or the machine with the kinit command and  *)
(* its keytab; after that ldapsearch binds with the ticket of the default  *)
(* cache (the LdapTry of GmsaFetch, one step here).                        *)
(*                                                                         *)
(* The error code is -1 when the function gives up before it calls kinit,  *)
(* 1 when kinit fails and 0 otherwise, and the callers stop on a negative  *)
(* code only.                                                              *)
(***************************************************************************)
EXTENDS KinitClient, Integers

CONSTANTS
    Machine,     \* the machine's principal
    SecretUser,  \* the user of the secret the daemon was started with
    Faults       \* any of "tool" and "library"

ASSUME HostAssumption == {Machine, SecretUser} \subseteq User

VARIABLES
    status,  \* status[t]: the error code of the function thread t called
    alone,   \* alone[t]: no other call overlapped the one of t
    failed   \* failed[t]: a library call failed in it

hostVars == <<status, alone, failed>>
hostKinitVars == <<kinitVars, hostVars>>

HostTypeOK ==
    /\ KinitTypeOK
    /\ status \in [Thread -> {-1, 0, 1}]
    /\ alone \in [Thread -> BOOLEAN]
    /\ failed \in [Thread -> BOOLEAN]

HostInit ==
    /\ KinitInit
    /\ status = [t \in Thread |-> 0]
    /\ alone = [t \in Thread |-> TRUE]
    /\ failed = [t \in Thread |-> FALSE]

-----------------------------------------------------------------------------
(* The checks before the kinit, on the programs that are installed, belong to  *)
(* root and cannot be written by others.                                       *)

Tool == {"hostname", "realm", "kinit", "ldapsearch", "decode", "aws"}

\* One program is missing at most: each check stops at the first that is.
Installed == {Tool} \cup (IF "tool" \in Faults THEN {Tool \ {x} : x \in Tool} ELSE {})

\* "which", rtrim and lstat.
check_file_permissions(installed, x) == x \in installed

is_hostname_cmd_present(installed) == check_file_permissions(installed, "hostname")
is_realm_cmd_present(installed) == check_file_permissions(installed, "realm")
is_kinit_cmd_present(installed) == check_file_permissions(installed, "kinit")
is_ldapsearch_cmd_present(installed) == check_file_permissions(installed, "ldapsearch")
is_decode_exe_present(installed) == check_file_permissions(installed, "decode")

check_util_binaries_permissions(installed) ==
    \A x \in {"kinit", "ldapsearch", "decode", "aws"} : check_file_permissions(installed, x)

\* A call begins; it overlaps every call that is not over.
Begin(t, u, p, code, next) ==
    /\ At(t, "idle", next)
    /\ user' = [user EXCEPT ![t] = u]
    /\ given' = [given EXCEPT ![t] = p]
    /\ status' = [status EXCEPT ![t] = code]
    /\ alone' = [s \in Thread |->
                   IF s = t THEN \A r \in Thread \ {t} : kpc[r] = "idle"
                   ELSE kpc[s] = "idle"]
    /\ UNCHANGED <<udata, errctx, ctx, out, switching, authed, cache, primary,
                   deftype, failed>>

\* A program is missing or the secret cannot be read: error code -1.
GiveUp(t, u) == Begin(t, u, NoPass, -1, "returned")

\* The secret, whose password may be out of date. get_secret_from_secrets_manager
\* runs the AWS command and may fail.
generate_krb_ticket_using_secret_vault(t, p, installed) ==
    \/ check_util_binaries_permissions(installed) /\ Begin(t, SecretUser, p, 0, "copy")
    \/ /\ "library" \in Faults \/ ~check_util_binaries_permissions(installed)
       /\ GiveUp(t, SecretUser)

\* The user of a request: only the handlers of the gRPC thread have one.
generate_krb_ticket_using_username_and_password(t, u, p, installed) ==
    /\ t = "grpc"
    /\ IF is_kinit_cmd_present(installed) /\ is_ldapsearch_cmd_present(installed)
       THEN Begin(t, u, p, 0, "copy")
       ELSE GiveUp(t, u)

generate_krb_ticket_from_machine_keytab(t, installed) ==
    IF /\ is_hostname_cmd_present(installed) /\ is_realm_cmd_present(installed)
       /\ is_kinit_cmd_present(installed) /\ is_ldapsearch_cmd_present(installed)
       /\ is_decode_exe_present(installed)
    THEN Begin(t, Machine, Machine, 0, "keytab")
    ELSE GiveUp(t, Machine)

-----------------------------------------------------------------------------
(* The kinit command. Its argument is the name get_machine_principal returned, *)
(* whose error code is not looked at: without a host name, a realm and a       *)
(* matching domain the command gets a name it cannot use.                      *)

\* The command picks and switches caches as k5_begin and k5_kinit do.
execute_kinit_in_domain_joined_case(t) ==
    /\ At(t, "keytab", "returned")
    /\ \E c \in OutCache(t) :
         /\ cache' = [cache EXCEPT ![c] = Machine]
         /\ primary' = IF deftype = "FILE" THEN primary ELSE c
    /\ status' = [status EXCEPT ![t] = 0]
    /\ UNCHANGED <<user, given, udata, errctx, ctx, out, switching, authed,
                   deftype, alone, failed>>

get_machine_principal_fails(t) ==
    /\ "library" \in Faults
    /\ At(t, "keytab", "returned")
    /\ status' = [status EXCEPT ![t] = 1]
    /\ failed' = [failed EXCEPT ![t] = TRUE]
    /\ UNCHANGED <<user, given, udata, errctx, ctx, out, switching, authed,
                   cache, primary, deftype, alone>>

-----------------------------------------------------------------------------
\* A step of my_kinit_main, which returns 1 unless authed_k5.
KinitStep(t) ==
    /\ my_kinit_main(t)
    /\ status' = [status EXCEPT ![t] = IF kpc'[t] = "returned" /\ ~authed[t] THEN 1 ELSE 0]
    /\ UNCHANGED <<alone, failed>>

LibraryFails(t) ==
    /\ "library" \in Faults
    /\ k5_begin_fails(t) \/ k5_kinit_fails(t)
    /\ failed' = [failed EXCEPT ![t] = TRUE]
    /\ UNCHANGED <<status, alone>>

\* The call is over for its caller: it stops if status.first < 0, and otherwise
\* runs ldapsearch -Y GSSAPI with the ticket of the primary cache.
Return(t) ==
    /\ At(t, "returned", "idle")
    /\ user' = [user EXCEPT ![t] = NoUser]
    /\ given' = [given EXCEPT ![t] = NoPass]
    /\ authed' = [authed EXCEPT ![t] = FALSE]
    /\ status' = [status EXCEPT ![t] = 0]
    /\ alone' = [alone EXCEPT ![t] = TRUE]
    /\ failed' = [failed EXCEPT ![t] = FALSE]
    /\ UNCHANGED <<udata, errctx, ctx, out, switching, cache, primary, deftype>>

HostStep(t) ==
    \/ KinitStep(t) \/ LibraryFails(t)
    \/ execute_kinit_in_domain_joined_case(t) \/ get_machine_principal_fails(t)
    \/ Return(t)

HostNext ==
    \E t \in Thread :
        \/ HostStep(t)
        \/ \E installed \in Installed :
             \/ generate_krb_ticket_from_machine_keytab(t, installed)
             \/ \E p \in {SecretUser, Wrong} :
                  generate_krb_ticket_using_secret_vault(t, p, installed)
             \/ \E u \in User : \E p \in {u, Wrong} :
                  generate_krb_ticket_using_username_and_password(t, u, p, installed)

HostSpec == HostInit /\ [][HostNext]_hostKinitVars

-----------------------------------------------------------------------------
\* When no thread is in my_kinit_main no half of a password is left in udata,
\* however the copies and the wipes of the two threads interleaved.
PasswordWiped ==
    (\A t \in Thread : kpc[t] \notin InCall) => \A h \in Half : udata[h] \in {NoPass, Wiped}

\* errctx points to a context that is not freed, or to the one whose k5_end is
\* about to unset it: no error message of a later call uses a dead context.
ErrctxIsOpen ==
    errctx # NoThread => ctx[errctx] \/ kpc[errctx] = "unset"

\* A call that no other call overlapped and no library call failed in succeeds
\* exactly when its password is right, and ldapsearch then binds as its user,
\* whatever caches the calls before it left behind.
AloneIsServed ==
    \A t \in Thread :
        alone[t] /\ ~failed[t] /\ kpc[t] = "returned" /\ status[t] >= 0 =>
            /\ (status[t] = 0 <=> given[t] = user[t])
            /\ (status[t] = 0 => cache[primary] = user[t])

\* In a collection a ticket of one principal is replaced by that of another only
\* by calls that overlapped: "Create a new cache to avoid overwriting the
\* initialized default cache".
InitializedCacheKept ==
    [][ \A c \in Cache :
          deftype # "FILE" /\ cache[c] # NoUser /\ cache'[c] # cache[c]
            => \E t \in Thread : kpc[t] = "kdc" /\ kpc'[t] = "switch" /\ ~alone[t] ]_hostKinitVars

=============================================================================
