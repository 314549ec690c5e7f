---------------------------- MODULE FetchProofs ----------------------------
(***************************************************************************)
(* The invariants of GmsaFetch for domain controller lists of any length.  *)
(* The inductive invariant says what every controller has been asked at    *)
(* each step of the search: those before the current one twice, those      *)
(* after it not at all, the current one as often as the loop counter says. *)
(***************************************************************************)
EXTENDS GmsaFetch, TLAPS

\* The loop counter and the position in the list, step by step.
Position ==
    /\ at <= n
    /\ pc = "list" => at = 0
    /\ pc \in {"dn", "password"} => at > 0
    /\ pc \notin {"dn", "password"} => try = 0

\* What each controller has been asked.
AskedSoFar ==
    /\ \A c \in Controllers : c > at => asked[c] = 0
    /\ pc \in {"next", "dn", "password"} =>
         \A c \in Controllers : c < at => asked[c] = Tries
    /\ pc = "next" => \A c \in Controllers : c <= at => asked[c] = Tries
    /\ pc = "dn" => asked[at] = 0
    /\ pc = "password" => asked[at] = try

\* The last answer: it is a failure wherever the list is gone through further,
\* and no failure where a password is looked for.
LastAnswer ==
    /\ pc = "next" /\ at > 0 => ldap = "failed"
    /\ pc \in {"list", "blob", "kinit"} => ldap = "ok"
    /\ pc \in {"blob", "kinit"} /\ n > 0 => at > 0 /\ asked[at] > 0
    /\ pc = "kinit" => n > 0 /\ blob
    /\ pc # "done" => ~cache /\ result = "none"

FetchInv ==
    /\ FetchTypeOK
    /\ Position
    /\ AskedSoFar
    /\ LastAnswer
    /\ OkMeansTicket
    /\ EveryControllerAsked

-----------------------------------------------------------------------------
\* The call starts with nothing asked.
LEMMA FetchInit_Inv == FetchInit => FetchInv
<1> SUFFICES ASSUME FetchInit
             PROVE  FetchInv
  OBVIOUS
<1> USE FetchAssumption DEF FetchInit, Controllers, Tries
<1>1. FetchTypeOK
  <2>1. dn \in BOOLEAN /\ blob \in BOOLEAN /\ cache \in BOOLEAN
    OBVIOUS
  <2>2. asked \in [Controllers -> 0 .. Tries]
    OBVIOUS
  <2>3. n \in 0 .. MaxControllers /\ at \in 0 .. MaxControllers /\ try \in 0 .. Tries - 1
    OBVIOUS
  <2> QED
    BY <2>1, <2>2, <2>3 DEF FetchTypeOK
<1>2. Position /\ AskedSoFar /\ LastAnswer
  BY DEF Position, AskedSoFar, LastAnswer
<1>3. OkMeansTicket /\ EveryControllerAsked
  BY DEF OkMeansTicket, EveryControllerAsked
<1> QED
  BY <1>1, <1>2, <1>3 DEF FetchInv

\* A step of the function keeps the types.
LEMMA FetchStep_Type == FetchInv /\ FetchNext => FetchTypeOK'
<1> SUFFICES ASSUME FetchInv, FetchNext
             PROVE  FetchTypeOK'
  OBVIOUS
<1> USE FetchAssumption DEF FetchInv, FetchTypeOK, Position, Controllers, Tries
<1>1. CASE NullArgs
  BY <1>1 DEF NullArgs, Return
<1>2. CASE get_FQDN_list
  BY <1>2 DEF get_FQDN_list
<1>3. CASE NextController
  BY <1>3 DEF NextController
<1>4. CASE SearchEnds
  BY <1>4 DEF SearchEnds, Return
<1>5. ASSUME NEW ok \in BOOLEAN, NEW found \in BOOLEAN, find_dn(ok, found)
      PROVE  FetchTypeOK'
  BY <1>5 DEF find_dn, LdapTry
<1>6. ASSUME NEW ok \in BOOLEAN, execute_ldapsearch(ok)
      PROVE  FetchTypeOK'
  <2>1. at \in Controllers /\ asked[at] \in 0 .. 1
    BY <1>6 DEF execute_ldapsearch, AskedSoFar
  <2>2. asked' \in [Controllers -> 0 .. Tries]
    BY <1>6, <2>1 DEF execute_ldapsearch
  <2> QED
    BY <1>6, <2>2 DEF execute_ldapsearch, LdapTry
<1>7. ASSUME NEW ok \in BOOLEAN, find_password(ok)
      PROVE  FetchTypeOK'
  BY <1>7 DEF find_password, Return
<1>8. ASSUME NEW ok \in BOOLEAN, Kinit(ok)
      PROVE  FetchTypeOK'
  BY <1>8 DEF Kinit, Return
<1> QED
  BY <1>1, <1>2, <1>3, <1>4, <1>5, <1>6, <1>7, <1>8 DEF FetchNext

\* A step of the function keeps the account of what was asked of whom.
LEMMA FetchStep_Inv == FetchInv /\ FetchNext => FetchInv'
<1> SUFFICES ASSUME FetchInv, FetchNext
             PROVE  FetchInv'
  OBVIOUS
<1> USE FetchAssumption DEF FetchInv, FetchTypeOK, Position, Controllers, Tries
<1>0. FetchTypeOK'
  BY FetchStep_Type
<1>1. CASE NullArgs
  BY <1>0, <1>1 DEF NullArgs, Return, AskedSoFar, LastAnswer, OkMeansTicket, EveryControllerAsked
<1>2. CASE get_FQDN_list
  BY <1>0, <1>2 DEF get_FQDN_list, AskedSoFar, LastAnswer, OkMeansTicket, EveryControllerAsked
<1>3. CASE NextController
  BY <1>0, <1>3 DEF NextController, AskedSoFar, LastAnswer, OkMeansTicket, EveryControllerAsked
<1>4. CASE SearchEnds
  BY <1>0, <1>4 DEF SearchEnds, Return, AskedSoFar, LastAnswer, OkMeansTicket, EveryControllerAsked
<1>5. ASSUME NEW ok \in BOOLEAN, NEW found \in BOOLEAN, find_dn(ok, found)
      PROVE  FetchInv'
  BY <1>0, <1>5 DEF find_dn, LdapTry, AskedSoFar, LastAnswer, OkMeansTicket, EveryControllerAsked
<1>6. ASSUME NEW ok \in BOOLEAN, execute_ldapsearch(ok)
      PROVE  FetchInv'
  <2>1. /\ at \in Controllers /\ asked[at] = try
        /\ asked'[at] = try + 1
        /\ \A c \in Controllers : c # at => asked'[c] = asked[c]
    BY <1>6 DEF execute_ldapsearch, AskedSoFar
  <2>2. UNCHANGED <<n, at, dn, blob, cache, result>> /\ pc = "password"
    BY <1>6 DEF execute_ldapsearch
  <2>3. \/ ok /\ try' = 0 /\ pc' = "blob" /\ ldap' = "ok"
        \/ ~ok /\ try = 1 /\ try' = 0 /\ pc' = "next" /\ ldap' = "failed"
        \/ ~ok /\ try = 0 /\ try' = 1 /\ pc' = "password" /\ ldap' = "failed"
    BY <1>6 DEF execute_ldapsearch, LdapTry
  <2>4. Position'
    BY <1>0, <2>1, <2>2, <2>3
  <2>5. AskedSoFar'
    BY <1>0, <2>1, <2>2, <2>3 DEF AskedSoFar
  <2>6. LastAnswer'
    BY <1>0, <2>1, <2>2, <2>3 DEF LastAnswer
  <2>7. OkMeansTicket' /\ EveryControllerAsked'
    BY <1>0, <2>1, <2>2, <2>3 DEF LastAnswer, AskedSoFar, OkMeansTicket, EveryControllerAsked
  <2> QED
    BY <1>0, <2>4, <2>5, <2>6, <2>7
<1>7. ASSUME NEW ok \in BOOLEAN, find_password(ok)
      PROVE  FetchInv'
  BY <1>0, <1>7 DEF find_password, Return, AskedSoFar, LastAnswer, OkMeansTicket, EveryControllerAsked
<1>8. ASSUME NEW ok \in BOOLEAN, Kinit(ok)
      PROVE  FetchInv'
  BY <1>0, <1>8 DEF Kinit, Return, AskedSoFar, LastAnswer, OkMeansTicket, EveryControllerAsked
<1> QED
  BY <1>1, <1>2, <1>3, <1>4, <1>5, <1>6, <1>7, <1>8 DEF FetchNext

\* Nothing changes in a stuttering step.
LEMMA FetchStutter_Inv == FetchInv /\ UNCHANGED fetchVars => FetchInv'
  BY DEF FetchInv, FetchTypeOK, Position, AskedSoFar, LastAnswer, OkMeansTicket,
         EveryControllerAsked, fetchVars, Controllers, Tries

\* The account holds in every state of fetch_gmsa_password_and_create_krb_ticket.
THEOREM FetchInvariant == FetchSpec => []FetchInv
<1>1. FetchInv /\ [FetchNext]_fetchVars => FetchInv'
  BY FetchStep_Inv, FetchStutter_Inv
<1> QED
  BY FetchInit_Inv, <1>1, PTL DEF FetchSpec

\* fetch_gmsa_password_and_create_krb_ticket returns 0 only with a ticket made
\* from a password that a controller gave in this call, and leaves the cache as
\* it was when it fails.
THEOREM TicketFromAnswer == FetchSpec => []OkMeansTicket
<1>1. FetchInv => OkMeansTicket
  BY DEF FetchInv
<1> QED
  BY FetchInvariant, <1>1, PTL

\* The loop counters stay in their ranges: execute_ldapsearch sends no more than
\* two searches to a controller, and the loop never leaves the list (FetchTypeOK).
THEOREM FetchTypes == FetchSpec => []FetchTypeOK
<1>1. FetchInv => FetchTypeOK
  BY DEF FetchInv
<1> QED
  BY FetchInvariant, <1>1, PTL

\* It gives up for want of an answer only after it asked all of them twice, and
\* asks none beyond the one that answered, however long the list is
\* (EveryControllerAsked).
THEOREM ControllersAsked == FetchSpec => []EveryControllerAsked
<1>1. FetchInv => EveryControllerAsked
  BY DEF FetchInv
<1> QED
  BY FetchInvariant, <1>1, PTL

\* The number of steps left is a natural number at each of them.
LEMMA LeftIsNat == FetchInv => FetchLeft \in Nat
<1> SUFFICES ASSUME FetchInv
             PROVE  FetchLeft \in Nat
  OBVIOUS
<1>1. /\ MaxControllers \in Nat /\ n \in Nat /\ at \in Nat /\ at <= n
      /\ try \in 0 .. 1
      /\ pc \in {"list", "next", "dn", "password", "blob", "kinit", "done"}
  BY FetchAssumption DEF FetchInv, FetchTypeOK, Position, Tries
<1> QED
  BY <1>1 DEF FetchLeft

\* Each step of the function is one less to take.
LEMMA StepAdvances == FetchInv /\ FetchNext => FetchLeft' < FetchLeft
<1> SUFFICES ASSUME FetchInv, FetchNext
             PROVE  FetchLeft' < FetchLeft
  OBVIOUS
<1>0. /\ MaxControllers \in Nat /\ n \in Nat /\ at \in Nat /\ at <= n
      /\ try \in 0 .. 1
  BY FetchAssumption DEF FetchInv, FetchTypeOK, Position, Tries
<1>1. CASE NullArgs
  BY <1>0, <1>1 DEF NullArgs, Return, FetchLeft
<1>2. CASE get_FQDN_list
  <2>1. at = 0 /\ at' = 0 /\ n' \in 0 .. MaxControllers /\ pc = "list" /\ pc' = "next"
    BY <1>2 DEF get_FQDN_list, FetchInv, Position
  <2> QED
    BY <1>0, <2>1 DEF FetchLeft
<1>3. CASE NextController
  <2>1. /\ at < n /\ at' = at + 1 /\ n' = n /\ try' = try /\ try = 0
        /\ pc = "next" /\ pc' \in {"dn", "password"}
    BY <1>3 DEF NextController, FetchInv, Position
  <2> QED
    BY <1>0, <2>1 DEF FetchLeft
<1>4. CASE SearchEnds
  BY <1>0, <1>4 DEF SearchEnds, Return, FetchLeft
<1>5. ASSUME NEW ok \in BOOLEAN, NEW found \in BOOLEAN, find_dn(ok, found)
      PROVE  FetchLeft' < FetchLeft
  <2>1. /\ pc = "dn" /\ UNCHANGED <<n, at>>
        /\ \/ try' = 0 /\ pc' = "password"
           \/ try = 0 /\ try' = 1 /\ pc' = "dn"
    BY <1>0, <1>5 DEF find_dn, LdapTry, Tries
  <2> QED
    BY <1>0, <2>1 DEF FetchLeft
<1>6. ASSUME NEW ok \in BOOLEAN, execute_ldapsearch(ok)
      PROVE  FetchLeft' < FetchLeft
  <2>1. /\ pc = "password" /\ UNCHANGED <<n, at>>
        /\ \/ pc' = "blob"
           \/ try' = 0 /\ pc' = "next"
           \/ try = 0 /\ try' = 1 /\ pc' = "password"
    BY <1>0, <1>6 DEF execute_ldapsearch, LdapTry, Tries
  <2> QED
    BY <1>0, <2>1 DEF FetchLeft
<1>7. ASSUME NEW ok \in BOOLEAN, find_password(ok)
      PROVE  FetchLeft' < FetchLeft
  BY <1>7 DEF find_password, Return, FetchLeft
<1>8. ASSUME NEW ok \in BOOLEAN, Kinit(ok)
      PROVE  FetchLeft' < FetchLeft
  BY <1>8 DEF Kinit, Return, FetchLeft
<1> QED
  BY <1>1, <1>2, <1>3, <1>4, <1>5, <1>6, <1>7, <1>8 DEF FetchNext

\* fetch_gmsa_password_and_create_krb_ticket is over after 5 n + 4 steps at most, for
\* lists of any length (FetchAdvances): the part of FetchEnds that needs no fairness.
THEOREM FetchBounded == FetchSpec => FetchAdvances
<1>1. FetchInv /\ [FetchNext]_fetchVars => [FetchLeft' < FetchLeft]_fetchVars
  BY StepAdvances
<1> QED
  BY FetchInvariant, LeftIsNat, <1>1, PTL DEF FetchSpec, FetchAdvances

=============================================================================
