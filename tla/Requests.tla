----------------------------- MODULE Requests ------------------------------
(***************************************************************************)
(* What the seven handlers of CredentialsFetcherService make of a request  *)
(* before and after the work on tickets that LeaseService models: the      *)
(* checks of its arguments, credential specs, ARNs and secrets, in their   *)
(* order, the list of tickets they end up with, what becomes of the        *)
(* secrets, and the reply.                                                 *)
(*                                                                         *)
(* The items of a request (credential specs or ARNs; metadata entries when *)
(* ARN leases are renewed) are drawn one by one, as the handler's loop     *)
(* reaches them. An ARN and a path are sequences of tokens, of which "/"   *)
(* "#" and "=" are themselves and "newline" is one, "!" stands for the     *)
(* invalid characters, "s3" for a text that the pattern of S3 ARNs finds   *)
(* and "test" for one with "functionaltestcfspec" in it. A name, password  *)
(* or domain is "" when it is missing, "bad" when it has an invalid        *)
(* character and "long" when it has the length INPUT_CREDENTIALS_LENGTH    *)
(* (of a domain: DOMAIN_LENGTH).                                           *)
(***************************************************************************)
EXTENDS Integers, FiniteSets, SequencesExt

CONSTANTS
    Arn,       \* the ARNs of requests
    Account,   \* names of service accounts
    User,      \* names of domainless users
    MaxItems   \* how many items a request has at most

ASSUME RequestsAssumption ==
    /\ MaxItems \in Nat \ {0}
    /\ Account \cap {"", "bad"} = {}
    /\ User \cap {"", "bad", "long"} = {}

VARIABLES
    rpc,       \* the handler that runs
    at,        \* where it is
    size,      \* the number of items of its request
    left,      \* how many of them it has not reached
    arn,       \* the item in hand, when it is an ARN
    info,      \* krb_ticket_info_list
    username,  \* the locals of the handler
    password,
    domain,
    access,    \* accessId, secretKey and sessionToken are held
    lease,     \* lease_id
    isTest,
    err,       \* err_msg is not empty
    made,      \* the paths this request has made a ticket at
    answer,    \* what was replied
    tested     \* some item was a test ARN

reqVars == <<rpc, at, size, left, arn, info, username, password, domain, access, lease,
             isTest, err, made, answer, tested>>

Creating == {"AddKerberosLease", "AddNonDomainJoinedKerberosLease", "AddKerberosArnLease"}
Rpcs == Creating \cup {"RenewNonDomainJoinedKerberosLease", "RenewKerberosArnLease",
                       "DeleteKerberosLease", "HealthCheck"}

Secret == {"", "bad", "long"} \cup User
Password == {"", "long", "pw"}
Domain == {"", "bad", "long", "ok"}

Path == {i.path : i \in Range(info)}

ReqTypeOK ==
    /\ rpc \in Rpcs \cup {"none"}
    /\ at \in {"idle", "items", "object", "contents", "secret", "tickets", "finish", "answered"}
    /\ size \in 0 .. MaxItems
    /\ left \in 0 .. size
    /\ arn \in Arn \cup {<<>>}
    /\ Len(info) <= size - left
    /\ \A k \in 1 .. Len(info) : info[k].user \in User \cup {"host"}
    /\ username \in Secret
    /\ password \in Password
    /\ domain \in Domain
    /\ {access, isTest, err, tested} \subseteq BOOLEAN
    /\ made \subseteq Path
    /\ answer \in {"none", "OK", "INTERNAL"}

ReqInit ==
    /\ rpc = "none"
    /\ at = "idle"
    /\ size = 0
    /\ left = 0
    /\ arn = <<>>
    /\ info = <<>>
    /\ username = ""
    /\ password = ""
    /\ domain = ""
    /\ access = FALSE
    /\ lease = <<>>
    /\ isTest = FALSE
    /\ err = FALSE
    /\ made = {}
    /\ answer = "none"
    /\ tested = FALSE

-----------------------------------------------------------------------------
(* Texts. *)

\* Mutant: an empty part is dropped wherever it is.
split_string_skips(s, d) ==
    SelectSeq(FoldLeft(LAMBDA parts, c : IF c = d THEN Append(parts, <<>>)
                                         ELSE [parts EXCEPT ![Len(parts)] = Append(@, c)],
                       << <<>> >>, s),
              LAMBDA part : part # <<>>)

\* What ends part k: with '=' only the first part ends there, and the others at the
\* end of their line.
Delimiter(d, k) == IF d = "=" /\ k > 1 THEN "newline" ELSE d

\* getline until it finds nothing more: what follows the last delimiter is a part
\* only if it is not empty.
split_string(s, d) ==
    LET Add(parts, c) ==
            IF c = Delimiter(d, Len(parts)) THEN Append(parts, <<>>)
            ELSE [parts EXCEPT ![Len(parts)] = Append(@, c)]
        parts == FoldLeft(Add, << <<>> >>, s)
    IN  IF Last(parts) = <<>> THEN Front(parts) ELSE parts

contains_invalid_characters_in_credentials(s) == "!" \in Range(s)

IsTestInvocationForUnitTests(s) == "test" \in Range(s)

isValidDomain(d) == d \notin {"", "bad"}

contains_invalid_characters_in_ad_account_name(name) == name = "bad"

\* The length of a name or password is less than INPUT_CREDENTIALS_LENGTH, that of a
\* domain less than DOMAIN_LENGTH.
ShortEnough(s) == s # "long"

\* Mutant: the lengths are not looked at.
GoodCredentialsAnyLength(u, p, d) ==
    /\ isValidDomain(d) /\ ~contains_invalid_characters_in_ad_account_name(u)
    /\ u # "" /\ p # "" /\ d # ""

\* Mutant: the length of the password is not looked at.
GoodCredentialsAnyPassword(u, p, d) ==
    /\ isValidDomain(d) /\ ~contains_invalid_characters_in_ad_account_name(u)
    /\ u # "" /\ p # "" /\ d # ""
    /\ ShortEnough(u) /\ ShortEnough(d)

\* The checks on user, password and domain that four handlers share.
GoodCredentials(u, p, d) ==
    /\ isValidDomain(d) /\ ~contains_invalid_characters_in_ad_account_name(u)
    /\ u # "" /\ p # "" /\ d # ""
    /\ ShortEnough(u) /\ ShortEnough(p) /\ ShortEnough(d)

-----------------------------------------------------------------------------
(* Credential specs, S3 objects and secrets. *)

\* What the parser finds in a credential spec; a text that is not JSON has none of
\* the fields.
CredSpec == [domain : Domain,
             names : SeqOf(Account \cup {"", "bad"}, 2),
             arn : {"", "secret"}]

\* The first account that has a name.
service_account_name(spec) ==
    LET k == SelectInSeq(spec.names, LAMBDA n : n # "")
    IN  IF k = 0 THEN "" ELSE spec.names[k]

parse_cred_spec(spec) ==
    /\ service_account_name(spec) # "" /\ spec.domain # ""
    /\ isValidDomain(spec.domain)
    /\ ~contains_invalid_characters_in_ad_account_name(service_account_name(spec))

\* The same, and the secret of the domainless user must be named.
parse_cred_spec_domainless(spec) == parse_cred_spec(spec) /\ spec.arn # ""

\* The length HeadObject reports is at most 4000; -1 when it fails.
MaxObjectLength == 4000
ObjectLength == {-1, MaxObjectLength, MaxObjectLength + 1}
check_file_size_s3(s, length) ==
    "s3" \in Range(s) /\ length >= 0 /\ length <= MaxObjectLength

\* GetObject, for its contents or for nothing.
Nothing == [domain |-> "", names |-> <<>>, arn |-> ""]
retrieve_credspec_from_s3 == CredSpec \cup {Nothing}

\* The fields of a secret, each with the name it has in secrets of the directory
\* service; a secret that cannot be read has none.
SecretValue == [username : Secret, usernameOfStandardUserAccount : User \cup {""},
                password : Password, passwordOfStandardUserAccount : {"", "pw"},
                domainName : Domain]

retrieve_credspec_from_secrets_manager(s) ==
    <<IF s.username = "" THEN s.usernameOfStandardUserAccount ELSE s.username,
      IF s.password = "" THEN s.passwordOfStandardUserAccount ELSE s.password,
      s.domainName>>

-----------------------------------------------------------------------------
(* The handlers begin. *)

Begin(r, n, next, u, p, d, a, bad) ==
    /\ at = "idle"
    /\ rpc' = r
    /\ at' = IF bad THEN "finish" ELSE next
    /\ size' = n
    /\ left' = n
    /\ username' = u
    /\ password' = p
    /\ domain' = d
    /\ access' = a
    /\ err' = bad
    /\ UNCHANGED <<arn, info, lease, isTest, made, answer, tested>>

\* A request without credential specs is granted as it is.
AddKerberosLease(n) == Begin("AddKerberosLease", n, "items", "", "", "", FALSE, FALSE)

AddNonDomainJoinedKerberosLease(n, u, p, d) ==
    Begin("AddNonDomainJoinedKerberosLease", n, "items", u, p, d, FALSE,
          ~GoodCredentials(u, p, d) \/ n = 0)

\* "access credentials should not be empty", nor the list of ARNs.
AddKerberosArnLease(n, a) ==
    Begin("AddKerberosArnLease", n, "items", "", "", "", a, ~a \/ n = 0)

RenewNonDomainJoinedKerberosLease(u, p, d) ==
    Begin("RenewNonDomainJoinedKerberosLease", 0, "finish", u, p, d, FALSE,
          ~GoodCredentials(u, p, d))

\* Its items are the metadata entries with credspec_info.
RenewKerberosArnLease(n, a) ==
    Begin("RenewKerberosArnLease", IF a THEN n ELSE 0, "items", "", "", "", a, ~a)

DeleteKerberosLease(empty) ==
    Begin("DeleteKerberosLease", 0, "finish", "", "", "", FALSE, empty)

HealthCheck == Begin("HealthCheck", 0, "finish", "", "", "", FALSE, FALSE)

-----------------------------------------------------------------------------
(* Their loops over the items. *)

\* Mutant: the failed check is logged and err_msg not set.
BreakSilently ==
    /\ at' = IF rpc = "RenewKerberosArnLease" THEN "items" ELSE "finish"
    /\ arn' = <<>>
    /\ UNCHANGED <<rpc, size, info, access, lease, err, made, answer>>

\* err_msg is set and the loop left; the outer loop over metadata files goes on.
Break ==
    /\ err' = TRUE
    /\ at' = IF rpc = "RenewKerberosArnLease" THEN "items" ELSE "finish"
    /\ arn' = <<>>
    /\ UNCHANGED <<rpc, size, info, access, lease, made, answer>>

\* The loop over the items is over.
ItemsEnd ==
    /\ at = "items"
    /\ left = 0
    /\ at' = IF rpc \in Creating /\ ~err /\ ~isTest THEN "tickets" ELSE "finish"
    /\ UNCHANGED <<rpc, size, left, arn, info, username, password, domain, access, lease, isTest, err,
                   made, answer, tested>>

\* A ticket joins the list unless its path is there already.
Push(path, user) ==
    info' = IF path \in Path THEN info ELSE Append(info, [path |-> path, user |-> user])

\* One credential spec of AddKerberosLease or AddNonDomainJoinedKerberosLease: a
\* second one for the same account is dropped.
CredSpecItem(spec) ==
    /\ at = "items"
    /\ left > 0
    /\ rpc \in {"AddKerberosLease", "AddNonDomainJoinedKerberosLease"}
    /\ left' = left - 1
    /\ IF parse_cred_spec(spec)
       THEN /\ Push(<<"id", "/", service_account_name(spec)>>,
                    IF rpc = "AddKerberosLease" THEN "host" ELSE username)
            /\ UNCHANGED <<rpc, at, size, arn, access, lease, err, made, answer>>
       ELSE Break
    /\ UNCHANGED <<username, password, domain, isTest, tested>>

MountPath(s) == split_string(s, "#")[2]

GoodArn(s) ==
    /\ Len(split_string(s, "#")) = 2
    /\ Len(split_string(MountPath(s), "/")) = 2
    /\ ~contains_invalid_characters_in_credentials(MountPath(s))

TaskOf(s) == split_string(MountPath(s), "/")[1]

\* The next ARN: its form, and whether it is one of the functional tests, for which
\* a directory with an empty file is made and nothing else.
ArnItem(s) ==
    /\ at = "items"
    /\ left > 0
    /\ rpc = "AddKerberosArnLease"
    /\ left' = left - 1
    /\ IF ~GoodArn(s) THEN Break /\ UNCHANGED <<isTest, tested>>
       ELSE LET test == IsTestInvocationForUnitTests(split_string(s, "#")[1]) IN
            /\ isTest' = test
            /\ tested' = (tested \/ test)
            /\ lease' = IF test THEN TaskOf(s) ELSE lease
            /\ arn' = IF test THEN <<>> ELSE s
            /\ at' = IF test THEN "items" ELSE "object"
            /\ UNCHANGED <<rpc, size, info, access, err, made, answer>>
    /\ UNCHANGED <<username, password, domain>>

\* check_file_size_s3 on the object the ARN names.
CheckObject(length) ==
    /\ at = "object"
    /\ IF check_file_size_s3(split_string(arn, "#")[1], length)
       THEN at' = "contents" /\ UNCHANGED <<rpc, size, arn, info, access, lease, err, made, answer>>
       ELSE Break
    /\ UNCHANGED <<left, username, password, domain, isTest, tested>>

\* An entry with credspec_info: its object is read without a look at the length.
RenewItem ==
    /\ at = "items"
    /\ left > 0
    /\ rpc = "RenewKerberosArnLease"
    /\ left' = left - 1
    /\ at' = "contents"
    /\ UNCHANGED <<rpc, size, arn, info, username, password, domain, access, lease, isTest, err, made,
                   answer, tested>>

\* A fault in an entry of a metadata file skips the rest of that file.
SkipRestOfFile == left' \in IF rpc = "RenewKerberosArnLease" THEN 0 .. left ELSE {left}

\* The contents, which may have changed since their length was asked for.
ReadObject(spec) ==
    /\ at = "contents"
    /\ IF parse_cred_spec_domainless(spec)
       THEN /\ at' = "secret"
            /\ UNCHANGED <<rpc, size, left, arn, info, access, lease, err, made, answer>>
       ELSE Break /\ SkipRestOfFile
    /\ UNCHANGED <<username, password, domain, isTest, tested>>

\* The secret of the domainless user. Its fields replace the ones of the ARN before
\* they are checked (the renew handler declares its own domain in the loop, which is
\* gone with the next entry); two equal mount paths are an error.
ReadSecret(s) ==
    LET c == retrieve_credspec_from_secrets_manager(s)
        path == MountPath(arn) IN
    /\ at = "secret"
    /\ username' = c[1]
    /\ password' = c[2]
    /\ domain' = c[3]
    /\ IF ~GoodCredentials(c[1], c[2], c[3]) THEN Break /\ SkipRestOfFile
       ELSE IF rpc = "RenewKerberosArnLease"
       THEN at' = "items" /\ UNCHANGED <<rpc, size, left, arn, info, access, lease, err, made, answer>>
       ELSE IF path \in Path
       THEN /\ err' = TRUE
            /\ at' = "finish"
            /\ arn' = <<>>
            /\ lease' = TaskOf(arn)
            /\ UNCHANGED <<rpc, size, left, info, access, made, answer>>
       ELSE /\ Push(path, c[1])
            /\ lease' = TaskOf(arn)
            /\ arn' = <<>>
            /\ at' = "items"
            /\ UNCHANGED <<rpc, size, left, access, err, made, answer>>
    /\ UNCHANGED <<isTest, tested>>

-----------------------------------------------------------------------------
(* The tickets (LeaseService has the steps) and the reply. *)

\* The next ticket of the list, with the credentials of the last secret. That the
\* list has no two equal paths, that these are new and that the credentials are not
\* empty keeps the handlers from their exits 'Directory already exists' (LeaseService)
\* and 'Invalid credentials for domainless user'.
MakeTicket ==
    /\ at = "tickets"
    /\ Cardinality(made) < Len(info)
    /\ made' = made \cup {info[Cardinality(made) + 1].path}
    /\ UNCHANGED <<rpc, at, size, left, arn, info, username, password, domain, access, lease, isTest,
                   err, answer, tested>>

\* kinit or the fetch fails: err_msg is set.
TicketFails ==
    /\ at = "tickets"
    /\ Cardinality(made) < Len(info)
    /\ err' = TRUE
    /\ at' = "finish"
    /\ UNCHANGED <<rpc, size, left, arn, info, username, password, domain, access, lease, isTest, made,
                   answer, tested>>

TicketsEnd ==
    /\ at = "tickets"
    /\ Cardinality(made) = Len(info)
    /\ at' = "finish"
    /\ UNCHANGED <<rpc, size, left, arn, info, username, password, domain, access, lease, isTest, err,
                   made, answer, tested>>

(* The replies. Each handler clears its locals, removes what it made and replies on *)
(* paths of its own.                                                                *)

\* secureClearString on the password and the name of the user.
ClearUser == username' = "" /\ password' = ""

\* The same of accessId, sessionToken and secretKey.
ClearAccess == access' = FALSE

Finish(r, status) ==
    /\ at = "finish"
    /\ rpc = r
    /\ at' = "answered"
    /\ answer' = status
    /\ UNCHANGED <<rpc, size, left, arn, info, domain, lease, isTest, err, tested>>

\* What the list names is removed on failure. No secret is held.
AddKerberosLeaseFails ==
    /\ err
    /\ Finish("AddKerberosLease", "INTERNAL")
    /\ made' = {}
    /\ UNCHANGED <<username, password, access>>

AddKerberosLeaseGranted ==
    /\ ~err
    /\ Finish("AddKerberosLease", "OK")
    /\ UNCHANGED <<username, password, access, made>>

AddNonDomainJoinedKerberosLeaseFails ==
    /\ err
    /\ ClearUser
    /\ made' = {}
    /\ Finish("AddNonDomainJoinedKerberosLease", "INTERNAL")
    /\ UNCHANGED access

AddNonDomainJoinedKerberosLeaseGranted ==
    /\ ~err
    /\ ClearUser
    /\ Finish("AddNonDomainJoinedKerberosLease", "OK")
    /\ UNCHANGED <<access, made>>

AddKerberosArnLeaseFails ==
    /\ err /\ ~isTest
    /\ ClearUser /\ ClearAccess
    /\ made' = {}
    /\ Finish("AddKerberosArnLease", "INTERNAL")

AddKerberosArnLeaseGranted ==
    /\ ~err /\ ~isTest
    /\ ClearUser /\ ClearAccess
    /\ Finish("AddKerberosArnLease", "OK")
    /\ UNCHANGED made

\* When the last ARN that was well formed is a test, nothing is cleared and the
\* answer is OK whatever went wrong.
AddKerberosArnLeaseTested ==
    /\ isTest
    /\ Finish("AddKerberosArnLease", "OK")
    /\ UNCHANGED <<username, password, access, made>>

RenewNonDomainJoinedKerberosLeaseEnds ==
    /\ ClearUser
    /\ Finish("RenewNonDomainJoinedKerberosLease", IF err THEN "INTERNAL" ELSE "OK")
    /\ UNCHANGED <<access, made>>

RenewKerberosArnLeaseEnds ==
    /\ ClearUser /\ ClearAccess
    /\ Finish("RenewKerberosArnLease", IF err THEN "INTERNAL" ELSE "OK")
    /\ UNCHANGED made

DeleteKerberosLeaseEnds ==
    /\ Finish("DeleteKerberosLease", IF err THEN "INTERNAL" ELSE "OK")
    /\ UNCHANGED <<username, password, access, made>>

HealthCheckEnds ==
    /\ Finish("HealthCheck", "OK")
    /\ UNCHANGED <<username, password, access, made>>

Ends ==
    \/ AddKerberosLeaseFails \/ AddKerberosLeaseGranted
    \/ AddNonDomainJoinedKerberosLeaseFails \/ AddNonDomainJoinedKerberosLeaseGranted
    \/ AddKerberosArnLeaseFails \/ AddKerberosArnLeaseGranted \/ AddKerberosArnLeaseTested
    \/ RenewNonDomainJoinedKerberosLeaseEnds \/ RenewKerberosArnLeaseEnds
    \/ DeleteKerberosLeaseEnds \/ HealthCheckEnds

\* The stack frame of the handler is gone.
Return ==
    /\ at = "answered"
    /\ rpc' = "none"
    /\ at' = "idle"
    /\ size' = 0
    /\ info' = <<>>
    /\ lease' = <<>>
    /\ username' = ""
    /\ password' = ""
    /\ domain' = ""
    /\ access' = FALSE
    /\ isTest' = FALSE
    /\ err' = FALSE
    /\ tested' = FALSE
    /\ made' = {}
    /\ answer' = "none"
    /\ left' = 0
    /\ arn' = <<>>

-----------------------------------------------------------------------------
Request ==
    \/ \E n \in 0 .. MaxItems :
         \/ AddKerberosLease(n)
         \/ \E a \in BOOLEAN : AddKerberosArnLease(n, a) \/ RenewKerberosArnLease(n, a)
         \/ \E u \in Secret, p \in Password, d \in Domain :
              AddNonDomainJoinedKerberosLease(n, u, p, d)
    \/ \E u \in Secret, p \in Password, d \in Domain : RenewNonDomainJoinedKerberosLease(u, p, d)
    \/ \E empty \in BOOLEAN : DeleteKerberosLease(empty)
    \/ HealthCheck

ReqNext ==
    \/ Request
    \/ \E spec \in CredSpec \cup {Nothing} : CredSpecItem(spec)
    \/ \E s \in Arn : ArnItem(s)
    \/ \E length \in ObjectLength : CheckObject(length)
    \/ RenewItem
    \/ \E spec \in retrieve_credspec_from_s3 : ReadObject(spec)
    \/ \E s \in SecretValue : ReadSecret(s)
    \/ ItemsEnd
    \/ MakeTicket \/ TicketFails \/ TicketsEnd
    \/ Ends \/ Return

ReqSpec == ReqInit /\ [][ReqNext]_reqVars

-----------------------------------------------------------------------------
\* The credentials that the ticket loop of a domainless create handler gives to kinit
\* for every ticket have passed the checks, all of them: although the ARN handler
\* overwrites its locals with each secret before it checks them, goes on after test
\* ARNs, and the loops are left from within.
OnlyCheckedCredentials ==
    at = "tickets" /\ rpc # "AddKerberosLease" =>
        username \in User /\ password = "pw" /\ domain = "ok"

\* A request without test ARNs that is answered OK reached all of its items and
\* found no fault; a create request then has one ticket for each path of its list,
\* and an ARN request one path for each ARN.
OkIsComplete ==
    answer = "OK" /\ ~tested =>
        /\ ~err /\ left = 0
        /\ rpc \in Creating => made = Path /\ Cardinality(made) = Len(info)
        /\ rpc = "AddKerberosArnLease" => Len(info) = size

Joined(parts, d) ==
    FoldLeftDomain(LAMBDA s, k : IF k = 1 THEN parts[1]
                                 ELSE s \o <<Delimiter(d, k - 1)>> \o parts[k],
                   <<>>, parts)

\* split_string loses nothing but one delimiter at the end, no part has the
\* delimiter in it that ends it, and a text that is not empty has a part.
SplitIsLossless ==
    at = "idle" => \A s \in Arn, d \in {"#", "/", "="} :
        LET parts == split_string(s, d) IN
        /\ \/ Joined(parts, d) = s
           \/ Append(Joined(parts, d), Delimiter(d, Len(parts))) = s
        /\ \A k \in DOMAIN parts : Delimiter(d, k) \notin Range(parts[k])
        /\ s # <<>> => parts # <<>>

=============================================================================
