----------------------------- MODULE GmsaFetch -----------------------------
(***************************************************************************)
(* fetch_gmsa_password_and_create_krb_ticket (krb.cpp) and the ldapsearch  *)
(* helpers of util.hpp: the domain controllers are asked in turn, first    *)
(* for the distinguished name of the account if it is not known, then for  *)
(* its password; the first one that answers ends the search, and its       *)
(* password goes to kinit. Each ldapsearch is tried twice. The shell       *)
(* commands succeed or fail as they like.                                  *)
(***************************************************************************)
EXTENDS Naturals, FiniteSets

CONSTANT MaxControllers   \* the longest list of domain controllers considered

ASSUME FetchAssumption == MaxControllers \in Nat

Tries == 2   \* the loop of execute_ldapsearch

VARIABLES
    pc,      \* what the function does next
    n,       \* length of fqdn_list_result
    at,      \* the controller being asked, 1 .. n
    try,     \* the loop counter of execute_ldapsearch
    dn,      \* distinguished_name is known
    asked,   \* asked[c]: password searches sent to controller c
    ldap,    \* ldap_search_result.first: 0 ("ok") before the first search
    blob,    \* a password was found in the output
    cache,   \* krb_cc_name was written by kinit
    result   \* what the function returned

fetchVars == <<pc, n, at, try, dn, asked, ldap, blob, cache, result>>

Controllers == 1 .. MaxControllers

FetchTypeOK ==
    /\ pc \in {"list", "next", "dn", "password", "blob", "kinit", "done"}
    /\ n \in 0 .. MaxControllers
    /\ at \in 0 .. MaxControllers
    /\ try \in 0 .. Tries - 1
    /\ dn \in BOOLEAN
    /\ asked \in [Controllers -> 0 .. Tries]
    /\ ldap \in {"ok", "failed"}
    /\ blob \in BOOLEAN
    /\ cache \in BOOLEAN
    /\ result \in {"none", "ok", "error"}

\* dn: from the metadata or the secret, or from CF_GMSA_OU, or not known.
FetchInit ==
    /\ pc = "list"
    /\ n = 0
    /\ at = 0
    /\ try = 0
    /\ dn \in BOOLEAN
    /\ asked = [c \in Controllers |-> 0]
    /\ ldap = "ok"
    /\ blob = FALSE
    /\ cache = FALSE
    /\ result = "none"

Return(r) == pc' = "done" /\ result' = r

-----------------------------------------------------------------------------
\* The domain or the account name is empty.
NullArgs ==
    /\ pc = "list"
    /\ Return("error")
    /\ UNCHANGED <<n, at, try, dn, asked, ldap, blob, cache>>

\* get_FQDN_list: the controller of ecs.config, or those nslookup or dig report,
\* which may be none.
get_FQDN_list ==
    /\ pc = "list"
    /\ n' \in 0 .. MaxControllers
    /\ pc' = "next"
    /\ UNCHANGED <<at, try, dn, asked, ldap, blob, cache, result>>

\* The loop over the controllers goes on, with a lookup of the name if needed.
NextController ==
    /\ pc = "next"
    /\ at < n
    /\ at' = at + 1
    /\ pc' = IF dn THEN "password" ELSE "dn"
    /\ UNCHANGED <<n, try, dn, asked, ldap, blob, cache, result>>

\* Mutant: the loop runs once too often.
LdapTryOnceMore(ok) ==
    try' = IF ok \/ try = Tries THEN 0 ELSE try + 1

\* Mutant: a search that fails is not tried again.
LdapTryOnce(ok) == try' = 0

\* One try of execute_ldapsearch: success or the last failure leave its loop.
LdapTry(ok) ==
    try' = IF ok \/ try = Tries - 1 THEN 0 ELSE try + 1

\* Mutant: the name is searched for until it is found.
find_dn_loops(ok, found) ==
    /\ pc = "dn"
    /\ LdapTry(ok)
    /\ dn' = (ok /\ found)
    /\ pc' = IF ok /\ found THEN "password" ELSE "dn"
    /\ UNCHANGED <<n, at, asked, ldap, blob, cache, result>>

\* find_dn: a search that fails or finds nothing leaves the name empty, and the
\* password is searched for all the same.
find_dn(ok, found) ==
    /\ pc = "dn"
    /\ LdapTry(ok)
    /\ dn' = (ok /\ found)
    /\ pc' = IF try' = 0 THEN "password" ELSE "dn"
    /\ UNCHANGED <<n, at, asked, ldap, blob, cache, result>>

\* The search for msDS-ManagedPassword: the first controller that answers ends
\* the loop, whether a password is in the answer or not.
execute_ldapsearch(ok) ==
    /\ pc = "password"
    /\ LdapTry(ok)
    /\ asked' = [asked EXCEPT ![at] = @ + 1]
    /\ ldap' = IF ok THEN "ok" ELSE "failed"
    /\ pc' = IF ok THEN "blob" ELSE IF try' = 0 THEN "next" ELSE "password"
    /\ UNCHANGED <<n, at, dn, blob, cache, result>>

\* The list is at its end: without an answer the function fails. An empty list
\* never set ldap_search_result, and the search goes on to find no password.
SearchEnds ==
    /\ pc = "next"
    /\ at = n
    /\ IF ldap = "failed" THEN Return("error")
                          ELSE pc' = "blob" /\ UNCHANGED result
    /\ UNCHANGED <<n, at, try, dn, asked, ldap, blob, cache>>

\* find_password and base64_decode.
find_password(found) ==
    /\ pc = "blob"
    /\ found => n > 0
    /\ blob' = found
    /\ IF found THEN pc' = "kinit" /\ UNCHANGED result ELSE Return("error")
    /\ UNCHANGED <<n, at, try, dn, asked, ldap, cache>>

\* Mutant: the exit code of kinit is not looked at.
KinitIgnored(ok) ==
    /\ pc = "kinit"
    /\ cache' = ok
    /\ Return("ok")
    /\ UNCHANGED <<n, at, try, dn, asked, ldap, blob>>

\* popen( "dotnet ... | kinit -c krb_cc_name" ): the cache is written when the
\* exit code is 0 and left as it was otherwise.
Kinit(ok) ==
    /\ pc = "kinit"
    /\ cache' = ok
    /\ Return(IF ok THEN "ok" ELSE "error")
    /\ UNCHANGED <<n, at, try, dn, asked, ldap, blob>>

FetchNext ==
    \/ NullArgs \/ get_FQDN_list \/ NextController \/ SearchEnds
    \/ \E ok, found \in BOOLEAN : find_dn(ok, found)
    \/ \E ok \in BOOLEAN : execute_ldapsearch(ok) \/ find_password(ok) \/ Kinit(ok)

FetchSpec == FetchInit /\ [][FetchNext]_fetchVars /\ WF_fetchVars(FetchNext)

-----------------------------------------------------------------------------
\* 0 is returned only for a cache written with a password that a controller
\* gave in this call; every failure leaves the ticket cache untouched, so the
\* ticket a container uses survives a failed renewal.
OkMeansTicket ==
    /\ result = "ok" => cache /\ blob /\ ldap = "ok" /\ asked[at] > 0
    /\ result = "error" => ~cache

\* The function gives up for want of an answer only after it has asked every
\* controller of the list twice; and none after the one that answered is asked.
EveryControllerAsked ==
    /\ result = "error" /\ ldap = "failed" => \A c \in 1 .. n : asked[c] = Tries
    /\ pc \in {"blob", "kinit", "done"} => \A c \in at + 1 .. n : asked[c] = 0

\* How many steps the call can still take: a controller costs five, one for the
\* loop and two for each of its searches.
FetchLeft ==
    CASE pc = "list"     -> 5 * MaxControllers + 4
      [] pc = "next"     -> 5 * (n - at) + 3
      [] pc = "dn"       -> 5 * (n - at) + 7 - try
      [] pc = "password" -> 5 * (n - at) + 5 - try
      [] pc = "blob"     -> 2
      [] pc = "kinit"    -> 1
      [] pc = "done"     -> 0

\* Each command that is run brings the call nearer to its end: with n controllers
\* it is over after 5 n + 4 steps, whatever fails and however often the search
\* moves between the loop over the controllers and the loop of execute_ldapsearch.
FetchAdvances ==
    /\ [](FetchLeft \in Nat)
    /\ [][FetchLeft' < FetchLeft]_fetchVars

\* The call comes to an end, whatever the commands answer.
FetchEnds == <>(pc = "done")

=============================================================================
