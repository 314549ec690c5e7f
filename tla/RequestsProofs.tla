--------------------------- MODULE RequestsProofs ---------------------------
(***************************************************************************)
(* The handlers of CredentialsFetcherService for every set of ARNs,        *)
(* accounts and users and every number of items: what an OK answer says of *)
(* the request, and which credentials reach kinit.                         *)
(* split_string enters as an operator of which nothing is known.           *)
(***************************************************************************)
EXTENDS Requests, FiniteSetTheorems, TLAPS

\* Where an ARN is in hand.
ArnSteps == {"object", "contents", "secret"}

\* Where a handler has left its loop over the items.
EndSteps == {"tickets", "finish", "answered"}

\* The paths of tickets, and the entries of krb_ticket_info_list.
TicketPath ==
    {<<"id", "/", service_account_name(spec)>> : spec \in CredSpec \cup {Nothing}}
    \cup {MountPath(s) : s \in {a \in Arn : GoodArn(a)}}
TicketInfo == [path : TicketPath, user : User \cup {"host"}]

\* The list is one of tickets, and no path is in it twice.
ListOfPaths ==
    /\ info \in Seq(TicketInfo)
    /\ \A j, k \in 1 .. Len(info) : info[j].path = info[k].path => j = k

\* Tickets are made in the order of the list, and only once it is complete.
MadeInOrder ==
    /\ IsFiniteSet(made)
    /\ Cardinality(made) <= Len(info)
    /\ made = {info[k].path : k \in 1 .. Cardinality(made)}
    /\ at \notin EndSteps => made = {}

\* Where the handler is says which of its locals are in use.
HandlerFrame ==
    /\ answer = "none" <=> at # "answered"
    /\ isTest => tested
    /\ at = "idle" => info = <<>> /\ left = 0 /\ ~err /\ ~tested /\ ~isTest
    /\ at \in ArnSteps =>
         rpc \in {"AddKerberosArnLease", "RenewKerberosArnLease"} /\ Len(info) + left < size
    /\ at \in ArnSteps /\ rpc = "AddKerberosArnLease" => arn \in Arn /\ GoodArn(arn) /\ ~isTest
    /\ at = "items" /\ rpc = "AddNonDomainJoinedKerberosLease" => username \in User
    /\ rpc = "HealthCheck" => at \in {"finish", "answered"} /\ ~err

\* A handler that has found no fault has dealt with all items it has passed: of an
\* ARN request each has its own entry in the list.
NoItemLost ==
    ~err /\ ~tested =>
        /\ at \in EndSteps => left = 0
        /\ at \in {"finish", "answered"} /\ rpc \in Creating => Cardinality(made) = Len(info)
        /\ rpc = "AddKerberosArnLease" =>
             /\ size > 0
             /\ Len(info) = size - left - (IF at \in ArnSteps THEN 1 ELSE 0)

\* What the reply was decided on.
ReplyIsTrue ==
    at = "answered" /\ ~isTest /\ answer = "OK" => ~err

\* The locals hold credentials that have passed the checks.
Checked == username \in User /\ password = "pw" /\ domain = "ok"

\* From the first check on they do in one domainless handler. In that of ARNs they do
\* whenever the loop is about to go on or to end, unless no ARN has been reached or
\* the last one was a test.
CredentialsChecked ==
    /\ rpc = "AddNonDomainJoinedKerberosLease" /\ at \in {"items", "tickets"} => Checked
    /\ rpc = "AddKerberosArnLease" /\ at = "items" =>
         isTest \/ Checked \/ (left = size /\ size > 0)
    /\ at = "tickets" => rpc \in Creating
    /\ rpc = "AddKerberosArnLease" /\ at = "tickets" => Checked

\* The inductive invariant.
ReqInv ==
    /\ ReqTypeOK
    /\ ListOfPaths
    /\ MadeInOrder
    /\ HandlerFrame
    /\ NoItemLost
    /\ ReplyIsTrue
    /\ CredentialsChecked

-----------------------------------------------------------------------------
(* What the checks and the list give. *)

\* A request has at least room for one item.
LEMMA ItemBound == MaxItems \in Nat /\ MaxItems > 0
  <1>1. MaxItems \in Nat /\ MaxItems # 0
    BY RequestsAssumption
  <1> QED BY <1>1

\* The list is empty when a handler begins.
LEMMA EmptyList == Len(<<>>) = 0 /\ 1 .. 0 = {}
  OBVIOUS

\* Credentials that pass the checks name a user and are neither missing nor long.
LEMMA GoodUser ==
    ASSUME NEW u \in Secret, NEW p \in Password, NEW d \in Domain, GoodCredentials(u, p, d)
    PROVE  u \in User /\ p = "pw" /\ d = "ok"
  BY DEF GoodCredentials, Secret, Password, Domain, ShortEnough, isValidDomain,
         contains_invalid_characters_in_ad_account_name

\* The fields of a secret are a name, a password and a domain, whichever names they
\* have.
LEMMA SecretFields ==
    ASSUME NEW s \in SecretValue
    PROVE  LET c == retrieve_credspec_from_secrets_manager(s)
           IN  c[1] \in Secret /\ c[2] \in Password /\ c[3] \in Domain
  BY DEF SecretValue, retrieve_credspec_from_secrets_manager, Secret, Password, Domain

\* The users of a list of entries.
LEMMA ListUsers ==
    ASSUME NEW s \in Seq(TicketInfo)
    PROVE  \A k \in 1 .. Len(s) : s[k].user \in User \cup {"host"}
  <1>1. \A k \in 1 .. Len(s) : s[k] \in TicketInfo
    OBVIOUS
  <1> QED BY <1>1 DEF TicketInfo

\* An entry that joins the list leaves its paths distinct.
LEMMA PushNew ==
    ASSUME ListOfPaths, NEW p \in TicketPath, NEW u \in User \cup {"host"},
           p \notin Path, Push(p, u)
    PROVE  /\ ListOfPaths'
           /\ Len(info') = Len(info) + 1
           /\ \A k \in 1 .. Len(info) : info'[k] = info[k]
  <1> DEFINE e == [path |-> p, user |-> u]
  <1>1. info' = Append(info, e) /\ e \in TicketInfo /\ info \in Seq(TicketInfo)
    BY DEF Push, ListOfPaths, TicketInfo
  <1> HIDE DEF e
  <1>2. /\ info' \in Seq(TicketInfo)
        /\ Len(info') = Len(info) + 1
        /\ \A k \in 1 .. Len(info) : info'[k] = info[k]
        /\ info'[Len(info) + 1] = e
    BY <1>1
  <1>3. e.path = p /\ e.user = u
    BY DEF e
  <1>4. \A k \in 1 .. Len(info) : info[k].path # p
    BY <1>1 DEF Path, Range
  <1>5. \A j, k \in 1 .. Len(info') : info'[j].path = info'[k].path => j = k
    <2> SUFFICES ASSUME NEW j \in 1 .. Len(info'), NEW k \in 1 .. Len(info'),
                        info'[j].path = info'[k].path
                 PROVE  j = k
      OBVIOUS
    <2>1. Len(info) \in Nat
      BY <1>1
    <2>2. CASE j <= Len(info) /\ k <= Len(info)
      <3>1. j \in 1 .. Len(info) /\ k \in 1 .. Len(info)
        BY <2>1, <2>2, <1>2
      <3> QED BY <3>1, <1>2 DEF ListOfPaths
    <2>3. CASE j <= Len(info) /\ k > Len(info)
      <3>1. j \in 1 .. Len(info) /\ k = Len(info) + 1
        BY <2>1, <2>3, <1>2
      <3> QED BY <3>1, <1>2, <1>3, <1>4
    <2>4. CASE j > Len(info) /\ k <= Len(info)
      <3>1. k \in 1 .. Len(info) /\ j = Len(info) + 1
        BY <2>1, <2>4, <1>2
      <3> QED BY <3>1, <1>2, <1>3, <1>4
    <2>5. CASE j > Len(info) /\ k > Len(info)
      BY <2>1, <2>5, <1>2
    <2> QED BY <2>1, <2>2, <2>3, <2>4, <2>5, <1>2
  <1> QED BY <1>2, <1>5 DEF ListOfPaths

\* Steps that touch neither the list nor the tickets made.
LEMMA ListKept ==
    ASSUME ReqInv, info' = info, made' = made, at \in EndSteps => at' \in EndSteps
    PROVE  ListOfPaths' /\ MadeInOrder' /\ (made \subseteq Path)'
  BY DEF ReqInv, ReqTypeOK, ListOfPaths, MadeInOrder, Path

\* Nothing is made yet: the tickets made are the first ones of any list.
LEMMA NoneMade ==
    ASSUME made' = {}, info' \in Seq(TicketInfo)
    PROVE  MadeInOrder' /\ (made \subseteq Path)'
  <1>1. IsFiniteSet({}) /\ Cardinality({}) = 0
    BY FS_EmptySet
  <1>2. 1 .. 0 = {}
    BY SMT
  <1>3. Len(info') \in Nat
    OBVIOUS
  <1> QED BY <1>1, <1>2, <1>3 DEF MadeInOrder

-----------------------------------------------------------------------------
(* One lemma for each step of the handlers. *)

LEMMA InitialState == ReqInit => ReqInv
  <1> SUFFICES ASSUME ReqInit PROVE ReqInv
    OBVIOUS
  <1>1. info = <<>> /\ made = {} /\ at = "idle"
    BY DEF ReqInit
  <1>2. IsFiniteSet({}) /\ Cardinality({}) = 0
    BY FS_EmptySet
  <1>3. ListOfPaths /\ MadeInOrder /\ made \subseteq Path
    BY <1>1, <1>2 DEF ListOfPaths, MadeInOrder
  <1>4. ReqTypeOK
    <2>1. {access, isTest, err, tested} \subseteq BOOLEAN
      BY Zenon DEF ReqInit
    <2>2. size \in 0 .. MaxItems /\ left \in 0 .. size /\ Len(info) <= size - left
      <3>1. size = 0 /\ left = 0 /\ Len(info) = 0
        BY <1>1, EmptyList DEF ReqInit
      <3> QED BY <3>1, ItemBound
    <2>3. username \in Secret /\ password \in Password /\ domain \in Domain
      BY DEF ReqInit, Secret, Password, Domain
    <2>4. rpc \in Rpcs \cup {"none"} /\ arn \in Arn \cup {<<>>} /\ answer = "none"
      BY DEF ReqInit
    <2>5. \A k \in 1 .. Len(info) : info[k].user \in User \cup {"host"}
      BY <1>1, EmptyList
    <2> QED BY <1>1, <1>3, <2>1, <2>2, <2>3, <2>4, <2>5 DEF ReqTypeOK
  <1>5. HandlerFrame /\ NoItemLost /\ ReplyIsTrue /\ CredentialsChecked
    BY DEF ReqInit, HandlerFrame, NoItemLost, ReplyIsTrue, CredentialsChecked, ArnSteps, EndSteps,
           Creating
  <1> QED BY <1>3, <1>4, <1>5 DEF ReqInv

\* A handler begins: the checks of its arguments sent a faulty request to its end.
LEMMA BeginStep ==
    ASSUME ReqInv,
           NEW r \in Rpcs, NEW n \in 0 .. MaxItems, NEW next \in {"items", "finish"},
           NEW u \in Secret, NEW p \in Password, NEW d \in Domain,
           NEW a \in BOOLEAN, NEW bad \in BOOLEAN,
           Begin(r, n, next, u, p, d, a, bad),
           next = "finish" => n = 0 /\ r \notin Creating,
           ~bad /\ r = "AddNonDomainJoinedKerberosLease" => u \in User /\ p = "pw" /\ d = "ok",
           ~bad /\ r = "AddKerberosArnLease" => n > 0,
           r = "HealthCheck" => next = "finish" /\ ~bad
    PROVE  ReqInv'
  <1>0. /\ at = "idle" /\ rpc' = r /\ size' = n /\ left' = n /\ username' = u /\ password' = p
        /\ domain' = d /\ access' = a /\ err' = bad /\ at' = (IF bad THEN "finish" ELSE next)
        /\ UNCHANGED <<arn, info, lease, isTest, made, answer, tested>>
    BY DEF Begin
  <1>1. /\ info = <<>> /\ ~tested /\ ~isTest /\ made = {} /\ answer = "none"
        /\ arn \in Arn \cup {<<>>} /\ {isTest, tested} \subseteq BOOLEAN
    BY <1>0 DEF ReqInv, HandlerFrame, MadeInOrder, EndSteps, ReqTypeOK
  <1>2. info' = <<>> /\ made' = {}
    BY <1>0, <1>1
  <1>3. ListOfPaths' /\ MadeInOrder' /\ (made \subseteq Path)'
    BY <1>2, NoneMade DEF ListOfPaths
  <1>4. ReqTypeOK'
    BY <1>0, <1>1, <1>2, <1>3, ItemBound DEF ReqTypeOK, Rpcs
  <1>5. HandlerFrame'
    BY <1>0, <1>1 DEF HandlerFrame, ArnSteps
  <1>6. NoItemLost'
    <2> SUFFICES ASSUME ~bad PROVE NoItemLost'
      BY <1>0 DEF NoItemLost
    <2>1. at' = next /\ left' = n /\ size' = n /\ n \in Nat /\ rpc' = r
      BY <1>0, ItemBound
    <2>2. at' \in EndSteps => left' = 0 /\ r \notin Creating
      BY <2>1 DEF EndSteps
    <2>3. at' \notin ArnSteps
      BY <2>1 DEF ArnSteps
    <2>4. rpc' = "AddKerberosArnLease" =>
            size' > 0 /\ Len(info') = size' - left' - (IF at' \in ArnSteps THEN 1 ELSE 0)
      <3>1. Len(info') = 0
        BY <1>2, EmptyList
      <3>2. (IF at' \in ArnSteps THEN 1 ELSE 0) = 0
        BY <2>3
      <3>3. r = "AddKerberosArnLease" => n > 0
        OBVIOUS
      <3>4. n - n - 0 = 0
        BY <2>1
      <3> QED BY <2>1, <3>1, <3>2, <3>3, <3>4
    <2> QED BY <2>1, <2>2, <2>4, <1>2 DEF NoItemLost, EndSteps
  <1>7. ReplyIsTrue'
    BY <1>0 DEF ReplyIsTrue
  <1>8. CredentialsChecked'
    <2>1. at' # "tickets"
      BY <1>0
    <2>2. at' = "items" => ~bad
      BY <1>0
    <2> QED BY <1>0, <2>1, <2>2 DEF CredentialsChecked, Checked
  <1> QED BY <1>3, <1>4, <1>5, <1>6, <1>7, <1>8 DEF ReqInv

\* Every request begins so.
LEMMA RequestStep ==
    ASSUME ReqInv, Request
    PROVE  ReqInv'
  <1> USE ItemBound DEF Rpcs, Creating
  <1>1. "" \in Secret /\ "" \in Password /\ "" \in Domain /\ 0 \in 0 .. MaxItems
    BY DEF Secret, Password, Domain
  <1>2. ASSUME NEW n \in 0 .. MaxItems, AddKerberosLease(n) PROVE ReqInv'
    <2>1. Begin("AddKerberosLease", n, "items", "", "", "", FALSE, FALSE)
      BY <1>2 DEF AddKerberosLease
    <2> QED BY <1>1, <2>1, BeginStep
  <1>3. ASSUME NEW n \in 0 .. MaxItems, NEW a \in BOOLEAN, AddKerberosArnLease(n, a)
        PROVE  ReqInv'
    <2>1. (~a \/ n = 0) \in BOOLEAN
      OBVIOUS
    <2>2. ~(~a \/ n = 0) => n > 0
      OBVIOUS
    <2>3. PICK bad \in BOOLEAN : /\ bad = (~a \/ n = 0)
                                 /\ Begin("AddKerberosArnLease", n, "items", "", "", "", a, bad)
      BY <1>3, <2>1 DEF AddKerberosArnLease
    <2> QED BY <1>1, <2>2, <2>3, BeginStep
  <1>4. ASSUME NEW n \in 0 .. MaxItems, NEW a \in BOOLEAN, RenewKerberosArnLease(n, a)
        PROVE  ReqInv'
    BY <1>1, <1>4, BeginStep DEF RenewKerberosArnLease
  <1>5. ASSUME NEW n \in 0 .. MaxItems, NEW u \in Secret, NEW p \in Password, NEW d \in Domain,
               AddNonDomainJoinedKerberosLease(n, u, p, d)
        PROVE  ReqInv'
    <2>1. (~GoodCredentials(u, p, d) \/ n = 0) \in BOOLEAN
      OBVIOUS
    <2>2. ~(~GoodCredentials(u, p, d) \/ n = 0) => u \in User /\ p = "pw" /\ d = "ok"
      BY GoodUser
    <2> QED BY <1>5, <2>1, <2>2, BeginStep DEF AddNonDomainJoinedKerberosLease
  <1>6. ASSUME NEW u \in Secret, NEW p \in Password, NEW d \in Domain,
               RenewNonDomainJoinedKerberosLease(u, p, d)
        PROVE  ReqInv'
    <2>1. (~GoodCredentials(u, p, d)) \in BOOLEAN
      OBVIOUS
    <2> QED BY <1>1, <1>6, <2>1, BeginStep DEF RenewNonDomainJoinedKerberosLease
  <1>7. ASSUME NEW empty \in BOOLEAN, DeleteKerberosLease(empty) PROVE ReqInv'
    <2>1. PICK bad \in BOOLEAN :
            Begin("DeleteKerberosLease", 0, "finish", "", "", "", FALSE, bad)
      BY <1>7 DEF DeleteKerberosLease
    <2> HIDE DEF Rpcs, Creating
    <2>2. "DeleteKerberosLease" \in Rpcs /\ "DeleteKerberosLease" \notin Creating
      BY DEF Rpcs, Creating
    <2> QED BY <1>1, <2>1, <2>2, BeginStep
  <1>8. CASE HealthCheck
    <2>1. Begin("HealthCheck", 0, "finish", "", "", "", FALSE, FALSE)
      BY <1>8 DEF HealthCheck
    <2> QED BY <1>1, <2>1, BeginStep
  <1> QED BY <1>2, <1>3, <1>4, <1>5, <1>6, <1>7, <1>8 DEF Request

\* The numbers of a handler.
LEMMA Counts ==
    ASSUME ReqInv
    PROVE  /\ size \in Nat /\ left \in Nat /\ left <= size /\ size <= MaxItems
           /\ Len(info) \in Nat /\ Len(info) <= size - left
  <1>1. size \in 0 .. MaxItems /\ left \in 0 .. size /\ Len(info) <= size - left
    BY DEF ReqInv, ReqTypeOK
  <1>2. Len(info) \in Nat
    BY DEF ReqInv, ListOfPaths
  <1> QED BY <1>1, <1>2, ItemBound

\* The loop is left with err_msg set; no more can be claimed of the request.
LEMMA BreakStep ==
    ASSUME ReqInv, Break, at \in {"items"} \cup ArnSteps, left' \in 0 .. left,
           username' \in Secret, password' \in Password, domain' \in Domain,
           UNCHANGED <<isTest, tested>>
    PROVE  ReqInv'
  <1>0. /\ err' = TRUE /\ at' \in {"items", "finish"} /\ arn' = <<>>
        /\ at' = "items" => rpc = "RenewKerberosArnLease"
        /\ UNCHANGED <<rpc, size, info, access, lease, made, answer, isTest, tested>>
    BY DEF Break
  <1>1. ListOfPaths' /\ MadeInOrder' /\ (made \subseteq Path)'
    BY <1>0, ListKept DEF ArnSteps, EndSteps
  <1>2. ReqTypeOK'
    <2>1. left' \in 0 .. size' /\ Len(info') <= size' - left'
      BY <1>0, Counts
    <2>2. {access, isTest, err, tested}' \subseteq BOOLEAN
      BY <1>0, Zenon DEF ReqInv, ReqTypeOK
    <2> QED BY <1>0, <1>1, <2>1, <2>2 DEF ReqInv, ReqTypeOK
  <1>3. HandlerFrame'
    BY <1>0 DEF ReqInv, HandlerFrame, ArnSteps
  <1>4. NoItemLost' /\ ReplyIsTrue' /\ CredentialsChecked'
    BY <1>0 DEF NoItemLost, ReplyIsTrue, CredentialsChecked
  <1> QED BY <1>1, <1>2, <1>3, <1>4 DEF ReqInv

\* The loop ends with all items seen.
LEMMA ItemsEndStep ==
    ASSUME ReqInv, ItemsEnd
    PROVE  ReqInv'
  <1>0. /\ at = "items" /\ left = 0 /\ at' \in {"tickets", "finish"}
        /\ at' = "finish" => isTest \/ err \/ rpc \notin Creating
        /\ at' = "tickets" => rpc \in Creating /\ ~isTest
        /\ UNCHANGED <<rpc, size, left, arn, info, username, password, domain, access, lease, isTest, err,
                       made, answer, tested>>
    BY DEF ItemsEnd
  <1>1. ListOfPaths' /\ MadeInOrder' /\ (made \subseteq Path)'
    BY <1>0, ListKept DEF EndSteps
  <1>2. ReqTypeOK'
    BY <1>0, <1>1 DEF ReqInv, ReqTypeOK
  <1>3. HandlerFrame'
    BY <1>0 DEF ReqInv, HandlerFrame, ArnSteps
  <1>4. NoItemLost'
    BY <1>0 DEF ReqInv, HandlerFrame, NoItemLost, ArnSteps, EndSteps
  <1>5. ReplyIsTrue'
    BY <1>0 DEF ReplyIsTrue
  <1>6. CredentialsChecked'
    <2>1. ~(left = size /\ size > 0)
      BY <1>0
    <2> QED BY <1>0, <2>1 DEF ReqInv, CredentialsChecked, Checked
  <1> QED BY <1>1, <1>2, <1>3, <1>4, <1>5, <1>6 DEF ReqInv

\* A good credential spec joins the list or is dropped; a bad one ends the loop.
LEMMA CredSpecStep ==
    ASSUME ReqInv, NEW spec \in CredSpec \cup {Nothing}, CredSpecItem(spec)
    PROVE  ReqInv'
  <1> DEFINE path == <<"id", "/", service_account_name(spec)>>
             user == IF rpc = "AddKerberosLease" THEN "host" ELSE username
  <1>0. /\ at = "items" /\ left > 0 /\ left' = left - 1
        /\ rpc \in {"AddKerberosLease", "AddNonDomainJoinedKerberosLease"}
        /\ UNCHANGED <<username, password, domain, isTest, tested>>
    BY DEF CredSpecItem
  <1>1. CASE ~parse_cred_spec(spec)
    <2>1. Break
      BY <1>1 DEF CredSpecItem
    <2>2. left' \in 0 .. left
      BY <1>0, Counts
    <2>3. username' \in Secret /\ password' \in Password /\ domain' \in Domain
      BY <1>0 DEF ReqInv, ReqTypeOK
    <2> QED BY <1>0, <2>1, <2>2, <2>3, BreakStep
  <1>2. CASE parse_cred_spec(spec)
    <2>0. /\ Push(path, user)
          /\ UNCHANGED <<rpc, at, size, arn, access, lease, err, made, answer>>
      BY <1>2 DEF CredSpecItem
    <2>1. path \in TicketPath /\ user \in User \cup {"host"}
      BY <1>0 DEF TicketPath, ReqInv, HandlerFrame
    <2> HIDE DEF path, user
    <2>2. /\ ListOfPaths'
          /\ Len(info') \in {Len(info), Len(info) + 1}
          /\ \A k \in 1 .. Len(info') : info'[k].user \in User \cup {"host"}
      <3>1. CASE path \in Path
        BY <3>1, <2>0 DEF Push, ReqInv, ListOfPaths, ReqTypeOK
      <3>2. CASE path \notin Path
        <4>1. ListOfPaths' /\ Len(info') = Len(info) + 1
          BY <3>2, <2>0, <2>1, PushNew DEF ReqInv
        <4> QED BY <4>1, ListUsers DEF ListOfPaths
      <3> QED BY <3>1, <3>2
    <2>3. made' = {} /\ info' \in Seq(TicketInfo)
      BY <2>0, <2>2, <1>0 DEF ReqInv, MadeInOrder, EndSteps, ListOfPaths
    <2>4. MadeInOrder' /\ (made \subseteq Path)'
      BY <2>3, NoneMade
    <2>5. ReqTypeOK'
      <3>1. left' \in 0 .. size' /\ Len(info') <= size' - left'
        BY <1>0, <2>0, <2>2, Counts
      <3> QED BY <1>0, <2>0, <2>2, <2>4, <3>1 DEF ReqInv, ReqTypeOK
    <2>6. HandlerFrame'
      BY <1>0, <2>0 DEF ReqInv, HandlerFrame, ArnSteps
    <2>7. NoItemLost' /\ ReplyIsTrue' /\ CredentialsChecked'
      BY <1>0, <2>0 DEF ReqInv, NoItemLost, ReplyIsTrue, CredentialsChecked, Checked, EndSteps
    <2> QED BY <2>2, <2>4, <2>5, <2>6, <2>7 DEF ReqInv
  <1> QED BY <1>1, <1>2

\* The next ARN: a test leaves only its mark, another one is in hand.
LEMMA ArnStep ==
    ASSUME ReqInv, NEW s \in Arn, ArnItem(s)
    PROVE  ReqInv'
  <1>0. /\ at = "items" /\ left > 0 /\ left' = left - 1 /\ rpc = "AddKerberosArnLease"
        /\ UNCHANGED <<username, password, domain>>
    BY DEF ArnItem
  <1>1. left' \in 0 .. left /\ left' \in Nat /\ left = left' + 1
    BY <1>0, Counts
  <1>2. CASE ~GoodArn(s)
    <2>1. Break /\ UNCHANGED <<isTest, tested>>
      BY <1>2 DEF ArnItem
    <2>2. username' \in Secret /\ password' \in Password /\ domain' \in Domain
      BY <1>0 DEF ReqInv, ReqTypeOK
    <2> QED BY <1>0, <1>1, <2>1, <2>2, BreakStep
  <1>3. CASE GoodArn(s)
    <2> DEFINE test == IsTestInvocationForUnitTests(split_string(s, "#")[1])
    <2>0. /\ isTest' = test /\ tested' = (tested \/ test)
          /\ lease' = IF test THEN TaskOf(s) ELSE lease
          /\ arn' = IF test THEN <<>> ELSE s
          /\ at' = IF test THEN "items" ELSE "object"
          /\ UNCHANGED <<rpc, size, info, access, err, made, answer>>
      BY <1>3 DEF ArnItem
    <2>b. test \in BOOLEAN
      BY DEF IsTestInvocationForUnitTests
    <2> HIDE DEF test
    <2>1. ListOfPaths' /\ MadeInOrder' /\ (made \subseteq Path)'
      BY <1>0, <2>0, ListKept DEF EndSteps
    <2>2. ReqTypeOK'
      <3>1. left' \in 0 .. size' /\ Len(info') <= size' - left'
        BY <1>0, <1>1, <2>0, Counts
      <3>2. {access, isTest, err, tested}' \subseteq BOOLEAN
        <4>1. access' \in BOOLEAN /\ err' \in BOOLEAN /\ isTest' \in BOOLEAN
          BY <2>0, <2>b DEF ReqInv, ReqTypeOK
        <4>2. tested' \in BOOLEAN
          BY <2>0
        <4> QED BY <4>1, <4>2
      <3> QED BY <1>0, <2>0, <2>1, <3>1, <3>2 DEF ReqInv, ReqTypeOK
    <2>3. HandlerFrame'
      <3>1. Len(info') + left' < size'
        BY <1>0, <1>1, <2>0, Counts
      <3> QED BY <1>0, <1>3, <2>0, <2>b, <3>1 DEF ReqInv, HandlerFrame, ArnSteps
    <2>4. NoItemLost'
      <3> SUFFICES ASSUME ~err', ~tested' PROVE NoItemLost'
        BY DEF NoItemLost
      <3>1. ~err /\ ~tested /\ ~test /\ at' = "object"
        BY <2>0, <2>b
      <3>2. size > 0 /\ Len(info) = size - left
        <4>1. (IF at \in ArnSteps THEN 1 ELSE 0) = 0
          BY <1>0 DEF ArnSteps
        <4> QED BY <1>0, <3>1, <4>1, Counts DEF ReqInv, NoItemLost
      <3>3. (IF at' \in ArnSteps THEN 1 ELSE 0) = 1
        BY <3>1 DEF ArnSteps
      <3>4. size - left = size - left' - 1
        BY <1>1, Counts
      <3> QED BY <2>0, <3>1, <3>2, <3>3, <3>4 DEF NoItemLost, EndSteps
    <2>5. ReplyIsTrue' /\ CredentialsChecked'
      BY <1>0, <2>0, <2>b DEF ReplyIsTrue, CredentialsChecked
    <2> QED BY <2>1, <2>2, <2>3, <2>4, <2>5 DEF ReqInv
  <1> QED BY <1>2, <1>3

\* Steps from one place with an ARN in hand to the next.
LEMMA InHandStep ==
    ASSUME ReqInv, at \in ArnSteps, at' \in ArnSteps,
           UNCHANGED <<rpc, size, left, arn, info, username, password, domain, access, lease, isTest, err,
                       made, answer, tested>>
    PROVE  ReqInv'
  <1>1. ListOfPaths' /\ MadeInOrder' /\ (made \subseteq Path)'
    BY ListKept DEF ArnSteps, EndSteps
  <1>2. ReqTypeOK'
    BY <1>1 DEF ReqInv, ReqTypeOK, ArnSteps
  <1>3. HandlerFrame'
    BY DEF ReqInv, HandlerFrame, ArnSteps
  <1>4. NoItemLost'
    BY DEF ReqInv, NoItemLost, ArnSteps, EndSteps
  <1>5. ReplyIsTrue' /\ CredentialsChecked'
    BY DEF ReplyIsTrue, CredentialsChecked, ArnSteps
  <1> QED BY <1>1, <1>2, <1>3, <1>4, <1>5 DEF ReqInv

\* The object and its contents are good, or the loop is left.
LEMMA ObjectSteps ==
    ASSUME ReqInv, \/ \E length \in ObjectLength : CheckObject(length)
                   \/ \E spec \in retrieve_credspec_from_s3 : ReadObject(spec)
    PROVE  ReqInv'
  <1>0. username \in Secret /\ password \in Password /\ domain \in Domain /\ left \in Nat
    BY Counts DEF ReqInv, ReqTypeOK
  <1>1. left \in 0 .. left
    BY <1>0
  <1>2. ASSUME NEW length \in ObjectLength, CheckObject(length) PROVE ReqInv'
    <2>1. at = "object" /\ UNCHANGED <<left, username, password, domain, isTest, tested>>
      BY <1>2 DEF CheckObject
    <2>2. CASE check_file_size_s3(split_string(arn, "#")[1], length)
      <3>1. /\ at' = "contents"
            /\ UNCHANGED <<rpc, size, arn, info, access, lease, err, made, answer>>
        BY <1>2, <2>2 DEF CheckObject
      <3> QED BY <2>1, <3>1, InHandStep DEF ArnSteps
    <2>3. CASE ~check_file_size_s3(split_string(arn, "#")[1], length)
      <3>1. Break
        BY <1>2, <2>3 DEF CheckObject
      <3> QED BY <1>0, <1>1, <2>1, <3>1, BreakStep DEF ArnSteps
    <2> QED BY <2>2, <2>3
  <1>3. ASSUME NEW spec \in retrieve_credspec_from_s3, ReadObject(spec) PROVE ReqInv'
    <2>1. at = "contents" /\ UNCHANGED <<username, password, domain, isTest, tested>>
      BY <1>3 DEF ReadObject
    <2>2. CASE parse_cred_spec_domainless(spec)
      <3>1. /\ at' = "secret"
            /\ UNCHANGED <<rpc, size, left, arn, info, access, lease, err, made, answer>>
        BY <1>3, <2>2 DEF ReadObject
      <3> QED BY <2>1, <3>1, InHandStep DEF ArnSteps
    <2>3. CASE ~parse_cred_spec_domainless(spec)
      <3>1. Break /\ left' \in 0 .. left
        BY <1>1, <1>3, <2>3 DEF ReadObject, SkipRestOfFile
      <3> QED BY <1>0, <2>1, <3>1, BreakStep DEF ArnSteps
    <2> QED BY <2>2, <2>3
  <1> QED BY <1>2, <1>3

\* A metadata entry is taken up; it is no ARN of the request.
LEMMA RenewItemStep ==
    ASSUME ReqInv, RenewItem
    PROVE  ReqInv'
  <1>0. /\ at = "items" /\ left > 0 /\ left' = left - 1 /\ rpc = "RenewKerberosArnLease"
        /\ at' = "contents"
        /\ UNCHANGED <<rpc, size, arn, info, username, password, domain, access, lease, isTest, err, made,
                       answer, tested>>
    BY DEF RenewItem
  <1>1. ListOfPaths' /\ MadeInOrder' /\ (made \subseteq Path)'
    BY <1>0, ListKept DEF EndSteps
  <1>2. ReqTypeOK'
    <2>1. left' \in 0 .. size' /\ Len(info') <= size' - left'
      BY <1>0, Counts
    <2> QED BY <1>0, <1>1, <2>1 DEF ReqInv, ReqTypeOK
  <1>3. HandlerFrame'
    <2>1. Len(info') + left' < size'
      BY <1>0, Counts
    <2> QED BY <1>0, <2>1 DEF ReqInv, HandlerFrame
  <1>4. NoItemLost' /\ ReplyIsTrue' /\ CredentialsChecked'
    BY <1>0 DEF NoItemLost, ReplyIsTrue, CredentialsChecked, EndSteps
  <1> QED BY <1>1, <1>2, <1>3, <1>4 DEF ReqInv

\* The secret is good and its ticket joins the list; anything else ends the loop.
LEMMA SecretStep ==
    ASSUME ReqInv, NEW s \in SecretValue, ReadSecret(s)
    PROVE  ReqInv'
  <1> DEFINE c == retrieve_credspec_from_secrets_manager(s)
             path == MountPath(arn)
  <1>0. /\ at = "secret" /\ username' = c[1] /\ password' = c[2] /\ domain' = c[3]
        /\ UNCHANGED <<isTest, tested>>
    BY DEF ReadSecret
  <1>1. username' \in Secret /\ password' \in Password /\ domain' \in Domain
    BY <1>0, SecretFields
  <1>2. left \in 0 .. left
    BY Counts
  <1>3. CASE ~GoodCredentials(c[1], c[2], c[3])
    <2>1. Break /\ left' \in 0 .. left
      BY <1>2, <1>3 DEF ReadSecret, SkipRestOfFile
    <2> QED BY <1>0, <1>1, <2>1, BreakStep DEF ArnSteps
  <1>4. CASE GoodCredentials(c[1], c[2], c[3]) /\ rpc = "RenewKerberosArnLease"
    <2>0. /\ at' = "items"
          /\ UNCHANGED <<rpc, size, left, arn, info, access, lease, err, made, answer>>
      BY <1>4 DEF ReadSecret
    <2>1. ListOfPaths' /\ MadeInOrder' /\ (made \subseteq Path)'
      BY <1>0, <2>0, ListKept DEF EndSteps
    <2>2. ReqTypeOK'
      BY <1>0, <1>1, <2>0, <2>1 DEF ReqInv, ReqTypeOK
    <2>3. HandlerFrame'
      BY <1>0, <1>4, <2>0 DEF ReqInv, HandlerFrame, ArnSteps
    <2>4. NoItemLost' /\ ReplyIsTrue' /\ CredentialsChecked'
      BY <1>0, <1>4, <2>0 DEF NoItemLost, ReplyIsTrue, CredentialsChecked, EndSteps
    <2> QED BY <2>1, <2>2, <2>3, <2>4 DEF ReqInv
  <1>5. CASE GoodCredentials(c[1], c[2], c[3]) /\ rpc # "RenewKerberosArnLease" /\ path \in Path
    <2>0. /\ err' = TRUE /\ at' = "finish" /\ arn' = <<>>
          /\ UNCHANGED <<rpc, size, left, info, access, made, answer>>
      BY <1>5 DEF ReadSecret
    <2>1. ListOfPaths' /\ MadeInOrder' /\ (made \subseteq Path)'
      BY <1>0, <2>0, ListKept DEF EndSteps
    <2>2. ReqTypeOK'
      <3>1. {access, isTest, err, tested}' \subseteq BOOLEAN
        BY <1>0, <2>0, Zenon DEF ReqInv, ReqTypeOK
      <3> QED BY <1>1, <2>0, <2>1, <3>1 DEF ReqInv, ReqTypeOK
    <2>3. HandlerFrame' /\ NoItemLost' /\ ReplyIsTrue' /\ CredentialsChecked'
      BY <1>0, <2>0 DEF ReqInv, HandlerFrame, NoItemLost, ReplyIsTrue, CredentialsChecked,
                        ArnSteps
    <2> QED BY <2>1, <2>2, <2>3 DEF ReqInv
  <1>6. CASE /\ GoodCredentials(c[1], c[2], c[3]) /\ rpc # "RenewKerberosArnLease"
             /\ path \notin Path
    <2>0. /\ Push(path, c[1]) /\ lease' = TaskOf(arn) /\ arn' = <<>> /\ at' = "items"
          /\ UNCHANGED <<rpc, size, left, access, err, made, answer>>
      BY <1>6 DEF ReadSecret
    <2>r. rpc = "AddKerberosArnLease"
      BY <1>0, <1>6 DEF ReqInv, HandlerFrame, ArnSteps
    <2>1. path \in TicketPath /\ c[1] \in User \cup {"host"}
      <3>1. arn \in Arn /\ GoodArn(arn)
        BY <1>0, <2>r DEF ReqInv, HandlerFrame, ArnSteps
      <3>2. c[1] \in User
        BY <1>6, SecretFields, GoodUser
      <3> QED BY <3>1, <3>2 DEF TicketPath
    <2>2. ListOfPaths' /\ Len(info') = Len(info) + 1
      BY <1>6, <2>0, <2>1, PushNew DEF ReqInv
    <2>3. MadeInOrder' /\ (made \subseteq Path)'
      <3>1. made' = {} /\ info' \in Seq(TicketInfo)
        BY <1>0, <2>0, <2>2 DEF ReqInv, MadeInOrder, EndSteps, ListOfPaths
      <3> QED BY <3>1, NoneMade
    <2>n. ~err /\ ~tested => size > 0 /\ Len(info) = size - left - 1
      <3>1. (IF at \in ArnSteps THEN 1 ELSE 0) = 1
        BY <1>0 DEF ArnSteps
      <3> QED BY <2>r, <3>1 DEF ReqInv, NoItemLost
    <2>4. ReqTypeOK'
      <3>1. Len(info') <= size' - left'
        <4>1. Len(info) + left < size
          BY <1>0 DEF ReqInv, HandlerFrame, ArnSteps
        <4> QED BY <2>0, <2>2, <4>1, Counts
      <3>2. \A k \in 1 .. Len(info') : info'[k].user \in User \cup {"host"}
        BY <2>2, ListUsers DEF ListOfPaths
      <3> QED BY <1>0, <1>1, <2>0, <2>3, <3>1, <3>2 DEF ReqInv, ReqTypeOK
    <2>5. HandlerFrame'
      BY <1>0, <2>0, <2>r DEF ReqInv, HandlerFrame, ArnSteps
    <2>6. NoItemLost'
      <3> SUFFICES ASSUME ~err', ~tested' PROVE NoItemLost'
        BY DEF NoItemLost
      <3>1. size > 0 /\ Len(info') = size - left
        BY <1>0, <2>0, <2>2, <2>n, Counts
      <3>2. (IF at' \in ArnSteps THEN 1 ELSE 0) = 0
        BY <2>0 DEF ArnSteps
      <3>3. size - left = size - left - 0
        BY Counts
      <3> QED BY <2>0, <2>r, <3>1, <3>2, <3>3 DEF NoItemLost, EndSteps
    <2>7. ReplyIsTrue' /\ CredentialsChecked'
      <3>1. Checked'
        BY <1>0, <1>6, SecretFields, GoodUser DEF Checked
      <3> QED BY <2>0, <2>r, <3>1 DEF ReplyIsTrue, CredentialsChecked
    <2> QED BY <2>2, <2>3, <2>4, <2>5, <2>6, <2>7 DEF ReqInv
  <1> QED BY <1>3, <1>4, <1>5, <1>6

\* The next ticket of the list is made: one path more, and not one made before.
LEMMA MakeTicketStep ==
    ASSUME ReqInv, MakeTicket
    PROVE  ReqInv'
  <1> DEFINE m == Cardinality(made)
             p == info[m + 1].path
  <1>0. /\ at = "tickets" /\ m < Len(info) /\ made' = made \cup {p}
        /\ UNCHANGED <<rpc, at, size, left, arn, info, username, password, domain, access, lease, isTest,
                       err, answer, tested>>
    BY DEF MakeTicket
  <1>1. IsFiniteSet(made) /\ m \in Nat /\ made = {info[k].path : k \in 1 .. m}
    BY FS_CardinalityType DEF ReqInv, MadeInOrder
  <1> HIDE DEF m
  <1>2. m + 1 \in 1 .. Len(info)
    BY <1>0, <1>1, Counts
  <1>3. p \notin made
    <2> SUFFICES ASSUME NEW k \in 1 .. m, p = info[k].path PROVE FALSE
      BY <1>1
    <2>1. k \in 1 .. Len(info) /\ k # m + 1
      BY <1>0, <1>1, Counts
    <2> QED BY <1>2, <2>1 DEF ReqInv, ListOfPaths
  <1>4. IsFiniteSet(made') /\ Cardinality(made') = m + 1
    BY <1>0, <1>1, <1>3, FS_AddElement DEF m
  <1>5. made' = {info[k].path : k \in 1 .. m + 1}
    <2>1. 1 .. m + 1 = 1 .. m \cup {m + 1}
      BY <1>1
    <2> HIDE DEF p
    <2>2. p = info[m + 1].path
      BY DEF p
    <2> QED BY <1>0, <1>1, <2>1, <2>2
  <1>6. MadeInOrder'
    <2>1. Cardinality(made') <= Len(info') /\ at' \in EndSteps
      BY <1>0, <1>2, <1>4, Counts DEF EndSteps
    <2>2. made' = {info'[k].path : k \in 1 .. Cardinality(made')}
      BY <1>0, <1>4, <1>5
    <2> QED BY <1>4, <2>1, <2>2 DEF MadeInOrder
  <1>7. p \in Path
    BY <1>2 DEF Path, Range, ReqInv, ListOfPaths
  <1>8. ListOfPaths' /\ (made \subseteq Path)'
    BY <1>0, <1>7 DEF ReqInv, ListOfPaths, ReqTypeOK, Path
  <1>9. ReqTypeOK'
    BY <1>0, <1>8 DEF ReqInv, ReqTypeOK
  <1>10. HandlerFrame' /\ NoItemLost' /\ ReplyIsTrue'
    BY <1>0 DEF ReqInv, HandlerFrame, NoItemLost, ReplyIsTrue, EndSteps, ArnSteps
  <1>11. CredentialsChecked'
    BY <1>0 DEF ReqInv, CredentialsChecked, Checked
  <1> QED BY <1>6, <1>8, <1>9, <1>10, <1>11 DEF ReqInv

\* A ticket fails, or all are made.
LEMMA TicketsEndStep ==
    ASSUME ReqInv, TicketFails \/ TicketsEnd
    PROVE  ReqInv'
  <1>0. /\ at = "tickets" /\ at' = "finish"
        /\ err' = TRUE \/ (err' = err /\ Cardinality(made) = Len(info))
        /\ UNCHANGED <<rpc, size, left, arn, info, username, password, domain, access, lease, isTest,
                       made, answer, tested>>
    <2>1. CASE TicketFails
      <3>1. err' = TRUE
        BY <2>1 DEF TicketFails
      <3> QED BY <2>1, <3>1, Zenon DEF TicketFails
    <2>2. CASE TicketsEnd
      BY <2>2 DEF TicketsEnd
    <2> QED BY <2>1, <2>2
  <1>1. ListOfPaths' /\ MadeInOrder' /\ (made \subseteq Path)'
    BY <1>0, ListKept DEF EndSteps
  <1>2. ReqTypeOK'
    <2>1. {access, isTest, err, tested}' \subseteq BOOLEAN
      BY <1>0, Zenon DEF ReqInv, ReqTypeOK
    <2> QED BY <1>0, <1>1, <2>1 DEF ReqInv, ReqTypeOK
  <1>3. HandlerFrame' /\ ReplyIsTrue' /\ CredentialsChecked'
    BY <1>0 DEF ReqInv, HandlerFrame, ReplyIsTrue, CredentialsChecked, ArnSteps
  <1>4. NoItemLost'
    BY <1>0 DEF ReqInv, NoItemLost, ArnSteps, EndSteps
  <1> QED BY <1>1, <1>2, <1>3, <1>4 DEF ReqInv

\* The reply, on whichever path: OK without a fault or after a test, and what was
\* made is removed only after a fault.
LEMMA EndStep ==
    ASSUME ReqInv, Ends
    PROVE  ReqInv'
  <1>0. /\ at = "finish" /\ at' = "answered"
        /\ UNCHANGED <<rpc, size, left, arn, info, domain, lease, isTest, err, tested>>
    BY DEF Ends, Finish, AddKerberosLeaseFails, AddKerberosLeaseGranted,
           AddNonDomainJoinedKerberosLeaseFails, AddNonDomainJoinedKerberosLeaseGranted,
           AddKerberosArnLeaseFails, AddKerberosArnLeaseGranted, AddKerberosArnLeaseTested,
           RenewNonDomainJoinedKerberosLeaseEnds, RenewKerberosArnLeaseEnds,
           DeleteKerberosLeaseEnds, HealthCheckEnds
  <1>a. /\ answer' \in {"OK", "INTERNAL"}
        /\ answer' = "OK" => ~err \/ isTest \/ rpc = "HealthCheck"
        /\ made' = made \/ (made' = {} /\ err)
    BY DEF Ends, Finish, AddKerberosLeaseFails, AddKerberosLeaseGranted,
           AddNonDomainJoinedKerberosLeaseFails, AddNonDomainJoinedKerberosLeaseGranted,
           AddKerberosArnLeaseFails, AddKerberosArnLeaseGranted, AddKerberosArnLeaseTested,
           RenewNonDomainJoinedKerberosLeaseEnds, RenewKerberosArnLeaseEnds,
           DeleteKerberosLeaseEnds, HealthCheckEnds
  <1>b. /\ username' \in {"", username} /\ password' \in {"", password}
        /\ access' = FALSE \/ access' = access
    BY DEF Ends, Finish, ClearUser, ClearAccess, AddKerberosLeaseFails, AddKerberosLeaseGranted,
           AddNonDomainJoinedKerberosLeaseFails, AddNonDomainJoinedKerberosLeaseGranted,
           AddKerberosArnLeaseFails, AddKerberosArnLeaseGranted, AddKerberosArnLeaseTested,
           RenewNonDomainJoinedKerberosLeaseEnds, RenewKerberosArnLeaseEnds,
           DeleteKerberosLeaseEnds, HealthCheckEnds
  <1>1. ListOfPaths' /\ MadeInOrder' /\ (made \subseteq Path)'
    <2>1. CASE made' = {}
      <3>1. info' \in Seq(TicketInfo)
        BY <1>0 DEF ReqInv, ListOfPaths
      <3> QED BY <1>0, <2>1, <3>1, NoneMade DEF ReqInv, ListOfPaths
    <2>2. CASE made' = made
      BY <1>0, <2>2, ListKept DEF EndSteps
    <2> QED BY <1>a, <2>1, <2>2
  <1>2. ReqTypeOK'
    <2>1. {access, isTest, err, tested}' \subseteq BOOLEAN
      BY <1>0, <1>b, Zenon DEF ReqInv, ReqTypeOK
    <2>2. username' \in Secret /\ password' \in Password
      BY <1>b DEF ReqInv, ReqTypeOK, Secret, Password
    <2> QED BY <1>0, <1>a, <1>1, <2>1, <2>2 DEF ReqInv, ReqTypeOK
  <1>3. HandlerFrame'
    BY <1>0, <1>a DEF ReqInv, HandlerFrame, ArnSteps
  <1>4. NoItemLost'
    BY <1>0, <1>a DEF ReqInv, HandlerFrame, NoItemLost, ArnSteps, EndSteps
  <1>5. ReplyIsTrue' /\ CredentialsChecked'
    BY <1>0, <1>a DEF ReqInv, HandlerFrame, ReplyIsTrue, CredentialsChecked
  <1> QED BY <1>1, <1>2, <1>3, <1>4, <1>5 DEF ReqInv

\* The frame is gone: the state is the initial one.
LEMMA ReturnStep ==
    ASSUME ReqInv, Return
    PROVE  ReqInv'
  <1>1. ReqInit'
    BY DEF Return, ReqInit
  <1> QED BY <1>1, InitialState, PTL

-----------------------------------------------------------------------------
(* The theorems. *)

\* ReqInv holds of every handler, whatever the request, the object, the secret and
\* the domain controllers are like.
THEOREM HandlerInvariant == ReqSpec => []ReqInv
  <1>1. ReqInv /\ [ReqNext]_reqVars => ReqInv'
    <2> SUFFICES ASSUME ReqInv, [ReqNext]_reqVars PROVE ReqInv'
      OBVIOUS
    <2>1. ASSUME ReqNext PROVE ReqInv'
      BY <2>1, RequestStep, CredSpecStep, ArnStep, ObjectSteps, RenewItemStep, SecretStep,
         ItemsEndStep, MakeTicketStep, TicketsEndStep, EndStep, ReturnStep
         DEF ReqNext
    <2>2. CASE UNCHANGED reqVars
      <3>1. ListOfPaths' /\ MadeInOrder' /\ (made \subseteq Path)'
        BY <2>2, ListKept DEF reqVars
      <3>2. ReqTypeOK'
        BY <2>2, <3>1 DEF reqVars, ReqInv, ReqTypeOK
      <3>3. HandlerFrame' /\ NoItemLost' /\ ReplyIsTrue'
        BY <2>2 DEF reqVars, ReqInv, HandlerFrame, NoItemLost, ReplyIsTrue
      <3>4. CredentialsChecked'
        BY <2>2 DEF reqVars, ReqInv, CredentialsChecked, Checked
      <3> QED BY <3>1, <3>2, <3>3, <3>4 DEF ReqInv
    <2> QED BY <2>1, <2>2
  <1> QED BY <1>1, InitialState, PTL DEF ReqSpec

\* The locals of a handler stay well formed, and its list of tickets never grows
\* past the items it has reached (ReqTypeOK).
THEOREM HandlerTypes == ReqSpec => []ReqTypeOK
  <1>1. ReqInv => ReqTypeOK
    BY DEF ReqInv
  <1> QED BY <1>1, HandlerInvariant, PTL

\* What the domainless create handlers give to kinit has passed all the checks, for
\* every list of ARNs and whatever their secrets hold (OnlyCheckedCredentials).
THEOREM CheckedBeforeUse == ReqSpec => []OnlyCheckedCredentials
  <1>1. ReqInv => OnlyCheckedCredentials
    BY DEF ReqInv, CredentialsChecked, Checked, Creating, OnlyCheckedCredentials
  <1> QED BY <1>1, HandlerInvariant, PTL

\* A create request answered OK has a ticket at each path of its list, and of an
\* ARN request one for each ARN (OkIsComplete).
THEOREM CompleteWhenOk == ReqSpec => []OkIsComplete
  <1>1. ReqInv => OkIsComplete
    <2> SUFFICES ASSUME ReqInv, answer = "OK", ~tested
                 PROVE  /\ ~err /\ left = 0
                        /\ rpc \in Creating => made = Path /\ Cardinality(made) = Len(info)
                        /\ rpc = "AddKerberosArnLease" => Len(info) = size
      BY DEF OkIsComplete
    <2>1. at = "answered" /\ ~isTest /\ ~err
      BY DEF ReqInv, HandlerFrame, ReplyIsTrue
    <2>2. /\ left = 0
          /\ rpc \in Creating => Cardinality(made) = Len(info)
      BY <2>1 DEF ReqInv, NoItemLost, EndSteps
    <2>3. rpc = "AddKerberosArnLease" => Len(info) = size
      <3>1. (IF at \in ArnSteps THEN 1 ELSE 0) = 0
        BY <2>1 DEF ArnSteps
      <3>2. rpc = "AddKerberosArnLease" => Len(info) = size - left - 0
        BY <2>1, <3>1 DEF ReqInv, NoItemLost
      <3> QED BY <2>2, <3>2, Counts
    <2>4. rpc \in Creating => made = Path
      <3> SUFFICES ASSUME Cardinality(made) = Len(info) PROVE made = Path
        BY <2>2
      <3>1. made = {info[k].path : k \in 1 .. Len(info)}
        BY DEF ReqInv, MadeInOrder
      <3>2. DOMAIN info = 1 .. Len(info)
        BY DEF ReqInv, ListOfPaths
      <3> QED BY <3>1, <3>2 DEF Path, Range
    <2> QED BY <2>1, <2>2, <2>3, <2>4
  <1> QED BY <1>1, HandlerInvariant, PTL

=============================================================================
