----------------------------- MODULE RpcProofs -----------------------------
(***************************************************************************)
(* The invariants of RpcServer for any set of addresses and any number of  *)
(* calls. The inductive invariant says which operation is outstanding on   *)
(* an object in each of its states, and that the object of an RPC has the  *)
(* class of that RPC.                                                      *)
(***************************************************************************)
EXTENDS RpcServer, TLAPS

\* What the seven classes have in common: each asks for the RPC it is listed
\* under, makes an object of its own class, has a cookie of its own and replies
\* what the table says.
ClassesAgree ==
    \A m \in DOMAIN Class :
        /\ Class[m].requests = m
        /\ Class[m].spawns = m
        /\ \A k \in DOMAIN Class : Class[k].cookie = Class[m].cookie => k = m
        /\ Class[m].replies \subseteq Reply

\* The objects before the loop and in it.
Objects ==
    /\ \A i \in Tag : status[i] = "free" <=> class[i] = "none"
    /\ loop = "start" => \A i \in Tag : status[i] = "free"

\* The operation outstanding on an object. Only an abort loses one, and the
\* process with it.
Outstanding ==
    \A i \in Tag :
        /\ i \in registered => status[i] = "PROCESS" /\ <<i, TRUE>> \notin cq
        /\ i \in sending => status[i] = "FINISH" /\ <<i, TRUE>> \notin cq
        /\ <<i, TRUE>> \in cq => status[i] # "free"
        /\ <<i, FALSE>> \in cq => status[i] = "FINISH" /\ i \notin sending /\ <<i, TRUE>> \notin cq
        /\ status[i] = "PROCESS" => i \in registered \/ <<i, TRUE>> \in cq
        /\ status[i] = "FINISH" /\ loop # "aborted" =>
             i \in sending \/ <<i, TRUE>> \in cq \/ <<i, FALSE>> \in cq

\* Every RPC has its one listener once the loop is entered, and no RPC has two.
Listeners ==
    /\ loop # "start" => \A m \in Method : \E i \in Tag : status[i] = "PROCESS" /\ class[i] = m
    /\ \A i, j \in Tag : status[i] = "PROCESS" /\ status[j] = "PROCESS" /\ class[i] = class[j]
         => i = j

RpcInv ==
    /\ RpcTypeOK
    /\ Objects
    /\ Outstanding
    /\ Listeners
    /\ RepliesAreReal

-----------------------------------------------------------------------------
\* The seven CallData classes are what their names say.
LEMMA ClassTable == ClassesAgree
<1>1. DOMAIN Class = {"HealthCheck", "AddKerberosArnLease", "RenewKerberosArnLease",
                      "AddKerberosLease", "AddNonDomainJoinedKerberosLease",
                      "RenewNonDomainJoinedKerberosLease", "DeleteKerberosLease"}
  BY DEF Class
<1> DEFINE Is(m, cookie) == /\ Class[m].requests = m
                            /\ Class[m].spawns = m
                            /\ Class[m].cookie = cookie
                            /\ Class[m].replies \subseteq Reply
<1>2. Is("HealthCheck", "CallDataHealthCheck")
  BY DEF Class, CallDataHealthCheck, Reply
<1>3. Is("AddKerberosArnLease", "CallDataCreateKerberosArnLease")
  BY DEF Class, CallDataCreateKerberosArnLease, Reply
<1>4. Is("RenewKerberosArnLease", "CallDataRenewKerberosArnLease")
  BY DEF Class, CallDataRenewKerberosArnLease, Reply
<1>5. Is("AddKerberosLease", "CallDataCreateKerberosLease")
  BY DEF Class, CallDataCreateKerberosLease, Reply
<1>6. Is("AddNonDomainJoinedKerberosLease", "CallDataAddNonDomainJoinedKerberosLease")
  BY DEF Class, CallDataAddNonDomainJoinedKerberosLease, Reply
<1>7. Is("RenewNonDomainJoinedKerberosLease", "CallDataRenewNonDomainJoinedKerberosLease")
  BY DEF Class, CallDataRenewNonDomainJoinedKerberosLease, Reply
<1>8. Is("DeleteKerberosLease", "CallDataDeleteKerberosLease")
  BY DEF Class, CallDataDeleteKerberosLease, Reply
<1> HIDE DEF Is
<1>9. \A m, k \in DOMAIN Class : Class[k].cookie = Class[m].cookie => k = m
  BY <1>1, <1>2, <1>3, <1>4, <1>5, <1>6, <1>7, <1>8 DEF Is
<1> QED
  BY <1>1, <1>2, <1>3, <1>4, <1>5, <1>6, <1>7, <1>8, <1>9 DEF Is, ClassesAgree

\* An object is served by its own class only, which replies to its own RPC.
LEMMA Dispatch ==
    ASSUME RpcTypeOK, NEW i \in Tag, class[i] # "none"
    PROVE  /\ class[i] \in Method
           /\ Serves(i) = class[i]
           /\ Proceeds(i) = {class[i]}
           /\ Replies(i) = Class[class[i]].replies
           /\ Class[class[i]].spawns = class[i]
           /\ Class[class[i]].replies \subseteq Reply
<1>1. class[i] \in Method /\ Method \subseteq DOMAIN Class
  BY RpcAssumption DEF RpcTypeOK
<1>2. Proceeds(i) = {class[i]}
  BY <1>1, ClassTable DEF Proceeds, ClassesAgree
<1>3. Replies(i) = Class[class[i]].replies
  BY <1>2 DEF Replies
<1> QED
  BY <1>1, <1>2, <1>3, ClassTable DEF Serves, ClassesAgree

\* "none" names no RPC.
LEMMA NoneIsNoMethod == "none" \notin Method
  BY RpcAssumption DEF Class

-----------------------------------------------------------------------------
\* The server starts without objects.
LEMMA RpcInit_Inv == RpcInit => RpcInv
<1> SUFFICES ASSUME RpcInit
             PROVE  RpcInv
  OBVIOUS
<1> USE RpcAssumption DEF RpcInit
<1>1. RpcTypeOK
  <2>1. backlog \in [Method -> 0 .. MaxCalls]
    OBVIOUS
  <2>2. answer \in [Tag -> Reply \cup {"none"}] /\ shutdown \in BOOLEAN
    OBVIOUS
  <2>3. status \in [Tag -> {"free", "PROCESS", "FINISH"}] /\ class \in [Tag -> Method \cup {"none"}]
    OBVIOUS
  <2>4. registered \subseteq Tag /\ cq \subseteq Tag \X BOOLEAN /\ sending \subseteq Tag
    OBVIOUS
  <2> QED
    BY <2>1, <2>2, <2>3, <2>4 DEF RpcTypeOK
<1>2. Objects /\ Outstanding
  BY DEF Objects, Outstanding
<1>3. Listeners /\ RepliesAreReal
  BY DEF Listeners, RepliesAreReal
<1> QED
  BY <1>1, <1>2, <1>3 DEF RpcInv

\* The first objects: one of each class, each registered.
LEMMA FirstCallData_Inv == RpcInv /\ FirstCallData => RpcInv'
<1> SUFFICES ASSUME RpcInv, FirstCallData
             PROVE  RpcInv'
  OBVIOUS
<1>0. PICK at \in [Method -> Free] :
        /\ \A m, n \in Method : at[m] = at[n] => m = n
        /\ status' = [i \in Tag |-> IF \E m \in Method : at[m] = i THEN "PROCESS" ELSE status[i]]
        /\ class' = [i \in Tag |-> IF \E m \in Method : at[m] = i
                                   THEN CHOOSE m \in Method : at[m] = i ELSE class[i]]
        /\ registered' = {at[m] : m \in Method}
  BY DEF FirstCallData
<1>1. /\ loop = "start" /\ loop' = "check"
      /\ UNCHANGED <<backlog, cq, sending, answer, shutdown>>
  BY DEF FirstCallData
<1>2. /\ \A i \in Tag : /\ status[i] = "free" /\ class[i] = "none"
                        /\ i \notin registered /\ i \notin sending
                        /\ <<i, TRUE>> \notin cq /\ <<i, FALSE>> \notin cq
      /\ registered = {} /\ sending = {}
  BY <1>1 DEF RpcInv, RpcTypeOK, Objects, Outstanding
<1>3. \A m \in Method : at[m] \in Tag
  BY <1>0 DEF Free
<1>4. \A m \in Method : class'[at[m]] = m /\ status'[at[m]] = "PROCESS"
  <2> TAKE m \in Method
  <2>1. (CHOOSE k \in Method : at[k] = at[m]) = m
    BY <1>0
  <2> QED
    BY <2>1, <1>0, <1>3
<1>5. \A i \in Tag : \/ \E m \in Method : i = at[m]
                     \/ status'[i] = "free" /\ class'[i] = "none" /\ i \notin registered'
  BY <1>0, <1>2
<1>6. RpcTypeOK'
  <2>1. status' \in [Tag -> {"free", "PROCESS", "FINISH"}]
    BY <1>0, <1>2
  <2>2. class' \in [Tag -> Method \cup {"none"}]
    BY <1>0, <1>4, <1>5
  <2>3. registered' \subseteq Tag
    BY <1>0, <1>3
  <2> QED
    BY <1>1, <2>1, <2>2, <2>3 DEF RpcInv, RpcTypeOK
<1>7. Objects'
  BY <1>1, <1>4, <1>5, NoneIsNoMethod DEF Objects
<1>8. Outstanding'
  <2>1. \A i \in Tag : i \notin sending' /\ <<i, TRUE>> \notin cq' /\ <<i, FALSE>> \notin cq'
    BY <1>1, <1>2
  <2>2. \A i \in Tag : \/ i \in registered' /\ status'[i] = "PROCESS"
                       \/ i \notin registered' /\ status'[i] = "free"
    BY <1>0, <1>4, <1>5
  <2> QED
    BY <2>1, <2>2 DEF Outstanding
<1>9. Listeners'
  BY <1>0, <1>1, <1>3, <1>4, <1>5 DEF Listeners
<1>10. RepliesAreReal'
  BY <1>1, <1>2 DEF RepliesAreReal
<1> QED
  BY <1>6, <1>7, <1>8, <1>9, <1>10 DEF RpcInv

\* A step that leaves the objects and what they reply alone keeps RepliesAreReal.
LEMMA RepliesFrame ==
    ASSUME RepliesAreReal, UNCHANGED class, sending' \subseteq sending,
           \A i \in sending' : answer'[i] = answer[i]
    PROVE  RepliesAreReal'
  BY DEF RepliesAreReal, Serves

\* The handler of a call: the listener is replaced, the reply is on its way.
LEMMA ProceedProcess_Inv == ASSUME NEW i \in Tag PROVE RpcInv /\ ProceedProcess(i) => RpcInv'
<1> SUFFICES ASSUME RpcInv, ProceedProcess(i)
             PROVE  RpcInv'
  OBVIOUS
<1>1. /\ loop = "wait" /\ <<i, TRUE>> \in cq /\ status[i] = "PROCESS"
      /\ sending' = sending \cup {i} /\ cq' = cq \ {<<i, TRUE>>} /\ loop' = "check"
      /\ UNCHANGED <<backlog, shutdown>>
  BY DEF ProceedProcess
<1>2. class[i] \in Method /\ class[i] # "none"
  BY <1>1, NoneIsNoMethod DEF RpcInv, Objects, RpcTypeOK
<1>3. PICK j \in Free : /\ NewCallData(j, Class[class[i]].spawns)
                        /\ status' = [status EXCEPT ![j] = "PROCESS", ![i] = "FINISH"]
  BY DEF ProceedProcess
<1>4. PICK r \in Replies(i) : answer' = [answer EXCEPT ![i] = r]
  BY DEF ProceedProcess
<1>5. /\ r \in Class[class[i]].replies /\ r \in Reply
      /\ class' = [class EXCEPT ![j] = class[i]]
      /\ registered' = registered \cup {j}
  BY <1>2, <1>3, <1>4, Dispatch DEF RpcInv, NewCallData
<1>6. j \in Tag /\ status[j] = "free" /\ j # i
  BY <1>1, <1>3 DEF Free
<1>7. /\ status'[j] = "PROCESS" /\ status'[i] = "FINISH"
      /\ class'[j] = class[i] /\ class'[i] = class[i]
      /\ \A k \in Tag \ {i, j} : status'[k] = status[k] /\ class'[k] = class[k]
  BY <1>3, <1>5, <1>6 DEF RpcInv, RpcTypeOK
<1>8. RpcTypeOK'
  <2>1. status' \in [Tag -> {"free", "PROCESS", "FINISH"}] /\ class' \in [Tag -> Method \cup {"none"}]
    BY <1>2, <1>3, <1>5, <1>6 DEF RpcInv, RpcTypeOK
  <2>2. answer' \in [Tag -> Reply \cup {"none"}]
    BY <1>4, <1>5 DEF RpcInv, RpcTypeOK
  <2> QED
    BY <1>1, <1>5, <1>6, <2>1, <2>2 DEF RpcInv, RpcTypeOK
<1>9. Objects'
  BY <1>1, <1>2, <1>7 DEF RpcInv, Objects
<1>10. /\ i \notin registered /\ i \notin sending /\ <<i, FALSE>> \notin cq
       /\ j \notin registered /\ j \notin sending
       /\ <<j, TRUE>> \notin cq /\ <<j, FALSE>> \notin cq
  BY <1>1, <1>6 DEF RpcInv, Outstanding
<1>11. Outstanding'
  <2> SUFFICES ASSUME NEW k \in Tag
               PROVE  /\ k \in registered' => status'[k] = "PROCESS" /\ <<k, TRUE>> \notin cq'
                      /\ k \in sending' => status'[k] = "FINISH" /\ <<k, TRUE>> \notin cq'
                      /\ <<k, TRUE>> \in cq' => status'[k] # "free"
                      /\ <<k, FALSE>> \in cq' =>
                           status'[k] = "FINISH" /\ k \notin sending' /\ <<k, TRUE>> \notin cq'
                      /\ status'[k] = "PROCESS" => k \in registered' \/ <<k, TRUE>> \in cq'
                      /\ status'[k] = "FINISH" /\ loop' # "aborted" =>
                           k \in sending' \/ <<k, TRUE>> \in cq' \/ <<k, FALSE>> \in cq'
    BY DEF Outstanding
  <2>1. CASE k = i
    BY <1>1, <1>5, <1>6, <1>7, <1>10, <2>1
  <2>2. CASE k = j
    BY <1>1, <1>5, <1>6, <1>7, <1>10, <2>2
  <2>3. CASE k \notin {i, j}
    BY <1>1, <1>5, <1>7, <2>3 DEF RpcInv, Outstanding
  <2> QED
    BY <2>1, <2>2, <2>3
<1>12. Listeners'
  <2>1. \A m \in Method : \E k \in Tag : status'[k] = "PROCESS" /\ class'[k] = m
    <3> TAKE m \in Method
    <3>1. PICK k \in Tag : status[k] = "PROCESS" /\ class[k] = m
      BY <1>1 DEF RpcInv, Listeners
    <3>2. CASE k = i
      BY <1>6, <1>7, <3>1, <3>2
    <3>3. CASE k # i
      BY <1>6, <1>7, <3>1, <3>3
    <3> QED
      BY <3>2, <3>3
  <2>2. ASSUME NEW k \in Tag, NEW l \in Tag,
               status'[k] = "PROCESS", status'[l] = "PROCESS", class'[k] = class'[l]
        PROVE  k = l
    BY <1>1, <1>6, <1>7, <2>2 DEF RpcInv, Listeners
  <2> QED
    BY <2>1, <2>2 DEF Listeners
<1>13. RepliesAreReal'
  <2> SUFFICES ASSUME NEW k \in sending'
               PROVE  answer'[k] \in Class[Serves(k)'].replies
    BY DEF RepliesAreReal
  <2>1. CASE k = i
    <3>1. Serves(i)' = class[i]
      BY <1>2, <1>7, ClassTable, RpcAssumption DEF Serves, ClassesAgree
    <3>2. answer'[i] = r
      BY <1>4 DEF RpcInv, RpcTypeOK
    <3> QED
      BY <1>5, <2>1, <3>1, <3>2
  <2>2. CASE k # i
    <3>1. k \in sending /\ k \in Tag /\ k # j
      BY <1>1, <1>10, <2>2 DEF RpcInv, RpcTypeOK
    <3>2. class'[k] = class[k] /\ answer'[k] = answer[k]
      BY <1>4, <1>7, <2>2, <3>1 DEF RpcInv, RpcTypeOK
    <3> QED
      BY <3>1, <3>2 DEF RpcInv, RepliesAreReal, Serves
  <2> QED
    BY <2>1, <2>2
<1> QED
  BY <1>8, <1>9, <1>11, <1>12, <1>13 DEF RpcInv

\* The end of a call: the object is deleted, and no operation names it.
LEMMA ProceedFinish_Inv == ASSUME NEW i \in Tag PROVE RpcInv /\ ProceedFinish(i) => RpcInv'
<1> SUFFICES ASSUME RpcInv, ProceedFinish(i)
             PROVE  RpcInv'
  OBVIOUS
<1>1. /\ loop = "wait" /\ <<i, TRUE>> \in cq /\ status[i] = "FINISH"
      /\ status' = [status EXCEPT ![i] = "free"]
      /\ class' = [class EXCEPT ![i] = "none"]
      /\ cq' = cq \ {<<i, TRUE>>} /\ loop' = "check"
      /\ UNCHANGED <<registered, backlog, sending, answer, shutdown>>
  BY DEF ProceedFinish
<1>2. i \notin registered /\ i \notin sending /\ <<i, FALSE>> \notin cq
  BY <1>1 DEF RpcInv, Outstanding
<1>3. /\ status'[i] = "free" /\ class'[i] = "none"
      /\ \A k \in Tag \ {i} : status'[k] = status[k] /\ class'[k] = class[k]
  BY <1>1 DEF RpcInv, RpcTypeOK
<1>4. RpcTypeOK'
  BY <1>1 DEF RpcInv, RpcTypeOK
<1>5. Objects'
  BY <1>1, <1>3 DEF RpcInv, Objects
<1>6. Outstanding'
  BY <1>1, <1>2, <1>3 DEF RpcInv, Outstanding
<1>7. Listeners'
  <2>1. \A m \in Method : \E k \in Tag : status'[k] = "PROCESS" /\ class'[k] = m
    BY <1>1, <1>3 DEF RpcInv, Listeners
  <2> QED
    BY <1>1, <1>3, <2>1 DEF RpcInv, Listeners
<1>8. RepliesAreReal'
  <2>1. \A k \in sending : k \in Tag /\ k # i
    BY <1>2 DEF RpcInv, RpcTypeOK
  <2> QED
    BY <1>1, <1>3, <2>1 DEF RpcInv, RepliesAreReal, Serves
<1> QED
  BY <1>4, <1>5, <1>6, <1>7, <1>8 DEF RpcInv

\* The steps that make, end and replace no object.
LEMMA Others_Inv ==
    ASSUME RpcInv,
           \/ LoopTop \/ ShutdownSignal
           \/ \E i \in Tag : AssertOkFails(i)
           \/ \E m \in Method : ClientCalls(m)
    PROVE  RpcInv'
<1>0. UNCHANGED <<status, class, registered, sending, answer>>
  BY DEF LoopTop, ShutdownSignal, AssertOkFails, ClientCalls
<1>1. RepliesAreReal'
  BY <1>0, RepliesFrame DEF RpcInv
<1>2. CASE LoopTop
  <2>1. RpcTypeOK'
    BY <1>0, <1>2 DEF LoopTop, RpcInv, RpcTypeOK
  <2> QED
    <3>1. cq' = cq /\ loop = "check" /\ loop' \in {"stopped", "wait"}
      BY <1>2 DEF LoopTop
    <3>2. Objects' /\ Listeners'
      BY <1>0, <3>1 DEF RpcInv, Objects, Listeners
    <3>3. Outstanding'
      BY <1>0, <3>1 DEF RpcInv, Outstanding
    <3> QED
      BY <1>1, <2>1, <3>2, <3>3 DEF RpcInv
<1>3. CASE ShutdownSignal
  <2>1. RpcTypeOK'
    BY <1>0, <1>3 DEF ShutdownSignal, RpcInv, RpcTypeOK
  <2> QED
    <3>1. UNCHANGED <<cq, loop>>
      BY <1>3 DEF ShutdownSignal
    <3>2. Objects' /\ Listeners'
      BY <1>0, <3>1 DEF RpcInv, Objects, Listeners
    <3>3. Outstanding'
      BY <1>0, <3>1 DEF RpcInv, Outstanding
    <3> QED
      BY <1>1, <2>1, <3>2, <3>3 DEF RpcInv
<1>4. ASSUME NEW i \in Tag, AssertOkFails(i) PROVE RpcInv'
  <2>1. RpcTypeOK'
    BY <1>0, <1>4 DEF AssertOkFails, RpcInv, RpcTypeOK
  <2>2. loop = "wait" /\ loop' = "aborted" /\ cq' = cq \ {<<i, FALSE>>}
    BY <1>4 DEF AssertOkFails
  <2>3. Objects' /\ Listeners'
    BY <1>0, <2>2 DEF RpcInv, Objects, Listeners
  <2>4. Outstanding'
    BY <1>0, <2>2 DEF RpcInv, Outstanding
  <2> QED
    BY <1>1, <2>1, <2>3, <2>4 DEF RpcInv
<1>5. ASSUME NEW m \in Method, ClientCalls(m) PROVE RpcInv'
  <2>1. backlog' \in [Method -> 0 .. MaxCalls]
    BY <1>5, RpcAssumption DEF ClientCalls, RpcInv, RpcTypeOK
  <2>2. UNCHANGED <<cq, loop, shutdown>>
    BY <1>5 DEF ClientCalls
  <2>3. RpcTypeOK'
    BY <1>0, <2>1, <2>2 DEF RpcInv, RpcTypeOK
  <2> QED
    BY <1>0, <1>1, <2>2, <2>3 DEF RpcInv, Objects, Outstanding, Listeners
<1> QED
  BY <1>2, <1>3, <1>4, <1>5

\* gRPC moves an object's operation into the queue.
LEMMA Grpc_Inv ==
    ASSUME RpcInv, NEW i \in Tag,
           CallArrives(i) \/ \E ok \in BOOLEAN : ReplySent(i, ok)
    PROVE  RpcInv'
<1>1. CASE CallArrives(i)
  <2>1. status[i] = "PROCESS" /\ class[i] # "none"
    BY <1>1 DEF CallArrives, RpcInv, Outstanding, Objects
  <2>2. Serves(i) \in Method
    BY <2>1, Dispatch DEF RpcInv
  <2>3. RpcTypeOK'
    <3>1. backlog' \in [Method -> 0 .. MaxCalls]
      BY <1>1, <2>2, RpcAssumption DEF CallArrives, RpcInv, RpcTypeOK
    <3>2. cq' \subseteq Tag \X BOOLEAN
      <4>1. cq \subseteq Tag \X BOOLEAN /\ cq' = cq \cup {<<i, TRUE>>}
        BY <1>1 DEF CallArrives, RpcInv, RpcTypeOK
      <4>2. <<i, TRUE>> \in Tag \X BOOLEAN
        OBVIOUS
      <4> QED
        BY <4>1, <4>2
    <3> QED
      BY <1>1, <3>1, <3>2 DEF CallArrives, RpcInv, RpcTypeOK
  <2>4. Outstanding'
    BY <1>1, <2>1 DEF CallArrives, RpcInv, Outstanding
  <2> QED
    BY <1>1, <2>3, <2>4, RepliesFrame DEF CallArrives, RpcInv, Objects, Listeners
<1>2. ASSUME NEW ok \in BOOLEAN, ReplySent(i, ok) PROVE RpcInv'
  <2>1. RpcTypeOK'
    <3>1. cq' \subseteq Tag \X BOOLEAN
      <4>1. cq \subseteq Tag \X BOOLEAN /\ cq' = cq \cup {<<i, ok>>}
        BY <1>2 DEF ReplySent, RpcInv, RpcTypeOK
      <4>2. <<i, ok>> \in Tag \X BOOLEAN
        OBVIOUS
      <4> QED
        BY <4>1, <4>2
    <3>2. answer' \in [Tag -> Reply \cup {"none"}]
      BY <1>2 DEF ReplySent, RpcInv, RpcTypeOK
    <3> QED
      BY <1>2, <3>1, <3>2 DEF ReplySent, RpcInv, RpcTypeOK
  <2>2. Outstanding'
    <3>1. CASE ok
      BY <1>2, <3>1 DEF ReplySent, RpcInv, Outstanding
    <3>2. CASE ~ok
      BY <1>2, <3>2 DEF ReplySent, RpcInv, Outstanding
    <3> QED
      BY <3>1, <3>2
  <2>3. \A k \in sending' : answer'[k] = answer[k]
    BY <1>2 DEF ReplySent, RpcInv, RpcTypeOK
  <2> QED
    BY <1>2, <2>1, <2>2, <2>3, RepliesFrame DEF ReplySent, RpcInv, Objects, Listeners
<1> QED
  BY <1>1, <1>2

\* Nothing changes in a stuttering step.
LEMMA RpcStutter_Inv == RpcInv /\ UNCHANGED rpcVars => RpcInv'
<1> SUFFICES ASSUME RpcInv, UNCHANGED rpcVars
             PROVE  RpcInv'
  OBVIOUS
<1>1. RepliesAreReal'
  BY RepliesFrame DEF RpcInv, rpcVars
<1>2. RpcTypeOK'
  BY DEF RpcInv, RpcTypeOK, rpcVars
<1> QED
  BY <1>1, <1>2 DEF RpcInv, Objects, Outstanding, Listeners, rpcVars

\* Each object of HandleRpcs has the operation its status says, in every state.
THEOREM RpcInvariant == RpcSpec => []RpcInv
<1>1. RpcInv /\ [RpcNext]_rpcVars => RpcInv'
  BY FirstCallData_Inv, ProceedProcess_Inv, ProceedFinish_Inv, Others_Inv, Grpc_Inv,
     RpcStutter_Inv
  DEF RpcNext, ServerStep
<1> QED
  BY RpcInit_Inv, <1>1, PTL DEF RpcSpec

\* Objects, events and replies stay well formed: every event has an address for its
\* tag, every object the class of an RPC (RpcTypeOK).
THEOREM RpcTypes == RpcSpec => []RpcTypeOK
<1>1. RpcInv => RpcTypeOK
  BY DEF RpcInv
<1> QED
  BY RpcInvariant, <1>1, PTL

\* Proceed is never called on a deleted object, none is deleted twice or leaked
\* (OneOperationPerObject).
THEOREM NoObjectLeaks == RpcSpec => []OneOperationPerObject
<1>1. RpcInv => OneOperationPerObject
  <2> SUFFICES ASSUME RpcInv, Running, NEW i \in Tag
               PROVE  IF status[i] = "free" THEN Pending(i) = {}
                      ELSE \E k \in Operation : Pending(i) = {k}
    BY DEF OneOperationPerObject
  <2>1. CASE status[i] = "free"
    BY <2>1 DEF RpcInv, Outstanding, Pending
  <2>2. CASE status[i] = "PROCESS"
    <3>1. i \notin sending /\ <<i, FALSE>> \notin cq
      BY <2>2 DEF RpcInv, Outstanding
    <3>2. CASE i \in registered
      <4>1. <<i, TRUE>> \notin cq
        BY <3>2 DEF RpcInv, Outstanding
      <4>2. Pending(i) = {"call"}
        BY <3>1, <3>2, <4>1 DEF Pending, Operation
      <4> QED
        BY <2>2, <4>2 DEF Operation
    <3>3. CASE i \notin registered
      <4>1. <<i, TRUE>> \in cq
        BY <2>2, <3>3 DEF RpcInv, Outstanding
      <4>2. Pending(i) = {"ok event"}
        BY <3>1, <3>3, <4>1 DEF Pending, Operation
      <4> QED
        BY <2>2, <4>2 DEF Operation
    <3> QED
      BY <3>2, <3>3
  <2>3. CASE status[i] = "FINISH"
    <3>1. i \notin registered
      BY <2>3 DEF RpcInv, Outstanding
    <3>2. CASE i \in sending
      <4>1. <<i, TRUE>> \notin cq /\ <<i, FALSE>> \notin cq
        BY <3>2 DEF RpcInv, Outstanding
      <4>2. Pending(i) = {"reply"}
        BY <3>1, <3>2, <4>1 DEF Pending, Operation
      <4> QED
        BY <2>3, <4>2 DEF Operation
    <3>3. CASE i \notin sending /\ <<i, TRUE>> \in cq
      <4>1. <<i, FALSE>> \notin cq
        BY <3>3 DEF RpcInv, Outstanding
      <4>2. Pending(i) = {"ok event"}
        BY <3>1, <3>3, <4>1 DEF Pending, Operation
      <4> QED
        BY <2>3, <4>2 DEF Operation
    <3>4. CASE i \notin sending /\ <<i, TRUE>> \notin cq
      <4>1. <<i, FALSE>> \in cq
        BY <2>3, <3>4 DEF RpcInv, Outstanding, Running
      <4>2. Pending(i) = {"failed event"}
        BY <3>1, <3>4, <4>1 DEF Pending, Operation
      <4> QED
        BY <2>3, <4>2 DEF Operation
    <3> QED
      BY <3>2, <3>3, <3>4
  <2> QED
    BY <2>1, <2>2, <2>3 DEF RpcInv, RpcTypeOK
<1> QED
  BY RpcInvariant, <1>1, PTL

\* Every RPC is listened for, by one object, as long as the loop runs.
THEOREM ListenerPerMethod == RpcSpec => []OneListener
<1>1. RpcInv => OneListener
  <2> SUFFICES ASSUME RpcInv, Running, NEW m \in Method
               PROVE  /\ \E i \in Tag : Listens(i, m)
                      /\ \A i, j \in Tag : Listens(i, m) /\ Listens(j, m) => i = j
    BY DEF OneListener
  <2>1. \A i \in Tag : status[i] = "PROCESS" => Serves(i) = class[i]
    BY Dispatch DEF RpcInv, Objects
  <2>2. \E i \in Tag : Listens(i, m)
    BY <2>1 DEF RpcInv, Listeners, Running, Listens
  <2> QED
    BY <2>1, <2>2 DEF RpcInv, Listeners, Listens
<1> QED
  BY RpcInvariant, <1>1, PTL

\* A reply is one of the class that registered for its RPC: the casts lead to no other.
THEOREM RealReplies == RpcSpec => []RepliesAreReal
<1>1. RpcInv => RepliesAreReal
  BY DEF RpcInv
<1> QED
  BY RpcInvariant, <1>1, PTL

-----------------------------------------------------------------------------
(* The refinement. *)

\* What the promise sees of the state.
Waiting == [m \in Method |-> backlog[m] + IF Holds(m) THEN 1 ELSE 0]
UnderWay == {h \in Tag \X Method : h[1] \in sending /\ h[2] \in Proceeds(h[1])}
Serving == loop \notin {"stopped", "aborted"}

\* The same by class alone.
HoldsOne(m) == \E i \in Tag : status[i] = "PROCESS" /\ class[i] = m /\ <<i, TRUE>> \in cq
ViewIs ==
    /\ \A m \in Method : Holds(m) <=> HoldsOne(m)
    /\ \A i \in sending : i \in Tag /\ status[i] = "FINISH" /\ class[i] \in Method
    /\ UnderWay = {<<i, class[i]>> : i \in sending}

\* An object has the class of the RPC it listens for or replies to.
LEMMA View == RpcInv => ViewIs
<1> SUFFICES ASSUME RpcInv
             PROVE  ViewIs
  OBVIOUS
<1>1. \A i \in Tag : class[i] # "none" =>
        class[i] \in Method /\ Serves(i) = class[i] /\ Proceeds(i) = {class[i]}
  BY Dispatch DEF RpcInv
<1>2. \A i \in Tag : status[i] # "free" => class[i] # "none"
  BY DEF RpcInv, Objects
<1>3. \A i \in sending : i \in Tag /\ status[i] = "FINISH"
  BY DEF RpcInv, RpcTypeOK, Outstanding
<1>4. \A m \in Method : Holds(m) <=> HoldsOne(m)
  BY <1>1, <1>2 DEF Holds, HoldsOne, Listens
<1>5. \A i \in sending : i \in Tag /\ class[i] \in Method /\ Proceeds(i) = {class[i]}
  BY <1>1, <1>2, <1>3
<1>6. UnderWay = {<<i, class[i]>> : i \in sending}
  <2>1. ASSUME NEW h \in Tag \X Method, h[1] \in sending, h[2] \in Proceeds(h[1])
        PROVE  h \in {<<i, class[i]>> : i \in sending}
    <3>1. h[2] = class[h[1]] /\ h = <<h[1], h[2]>>
      BY <1>5, <2>1
    <3> QED
      BY <2>1, <3>1
  <2>2. ASSUME NEW i \in sending
        PROVE  <<i, class[i]>> \in UnderWay
    BY <1>5 DEF UnderWay
  <2> QED
    BY <2>1, <2>2 DEF UnderWay
<1> QED
  BY <1>3, <1>4, <1>5, <1>6 DEF ViewIs

\* The handler of a call that waits runs, and begins its reply.
LEMMA AnswerView ==
    ASSUME RpcInv, ViewIs, ViewIs', NEW i \in Tag, ProceedProcess(i)
    PROVE  /\ class[i] \in Method
           /\ Serving /\ Serving'
           /\ Waiting[class[i]] > 0
           /\ \A k \in Method : <<i, k>> \notin UnderWay
           /\ Waiting' = [Waiting EXCEPT ![class[i]] = @ - 1]
           /\ UnderWay' = UnderWay \cup {<<i, class[i]>>}
<1>0. /\ status[i] = "PROCESS" /\ <<i, TRUE>> \in cq /\ cq' = cq \ {<<i, TRUE>>}
      /\ sending' = sending \cup {i} /\ backlog' = backlog /\ loop = "wait" /\ loop' = "check"
  BY DEF ProceedProcess
<1>1. PICK c \in Method : class[i] = c /\ Class[c].spawns = c
  <2>1. class[i] # "none"
    BY <1>0 DEF RpcInv, Objects
  <2> QED
    BY <2>1, Dispatch DEF RpcInv
<1>2. PICK j \in Tag : /\ status[j] = "free" /\ j # i
                       /\ class' = [class EXCEPT ![j] = c]
                       /\ status' = [status EXCEPT ![j] = "PROCESS", ![i] = "FINISH"]
  BY <1>0, <1>1 DEF ProceedProcess, NewCallData, Free
<1>3. /\ \A t \in Tag \ {i, j} : status'[t] = status[t] /\ class'[t] = class[t]
      /\ class'[i] = c /\ class'[j] = c /\ status'[i] = "FINISH" /\ status'[j] = "PROCESS"
  BY <1>1, <1>2 DEF RpcInv, RpcTypeOK
<1>4. HoldsOne(c) /\ ~HoldsOne(c)'
  <2>1. HoldsOne(c)
    BY <1>0, <1>1 DEF HoldsOne
  <2>2. <<j, TRUE>> \notin cq'
    BY <1>0, <1>2 DEF RpcInv, Outstanding
  <2>3. \A t \in Tag \ {i, j} : ~(status[t] = "PROCESS" /\ class[t] = c)
    BY <1>0, <1>1 DEF RpcInv, Listeners
  <2>4. ~\E t \in Tag : status'[t] = "PROCESS" /\ class'[t] = c /\ <<t, TRUE>> \in cq'
    BY <1>3, <2>2, <2>3
  <2> QED
    BY <2>1, <2>4 DEF HoldsOne
<1>5. \A m \in Method \ {c} : HoldsOne(m)' <=> HoldsOne(m)
  <2>1. \A t \in Tag : <<t, TRUE>> \in cq' <=> <<t, TRUE>> \in cq /\ t # i
    BY <1>0
  <2>2. ASSUME NEW m \in Method \ {c}, NEW t \in Tag
        PROVE  (status'[t] = "PROCESS" /\ class'[t] = m /\ <<t, TRUE>> \in cq')
               <=> (status[t] = "PROCESS" /\ class[t] = m /\ <<t, TRUE>> \in cq)
    <3>1. CASE t = i
      BY <1>1, <1>3, <3>1
    <3>2. CASE t = j
      BY <1>2, <1>3, <3>2
    <3>3. CASE t \notin {i, j}
      BY <1>3, <2>1, <3>3
    <3> QED
      BY <3>1, <3>2, <3>3
  <2> QED
    BY <2>2 DEF HoldsOne
<1>6. \A m \in Method : backlog[m] \in Nat
  BY DEF RpcInv, RpcTypeOK
<1>7. Waiting[c] = backlog[c] + 1 /\ Waiting[c] > 0
  BY <1>1, <1>4, <1>6 DEF Waiting, ViewIs
<1>8. Waiting' = [Waiting EXCEPT ![c] = @ - 1]
  <2>1. Waiting'[c] = backlog[c] + 0
    BY <1>0, <1>1, <1>4 DEF Waiting, ViewIs
  <2>2. \A m \in Method \ {c} : Waiting'[m] = Waiting[m]
    BY <1>0, <1>5 DEF Waiting, ViewIs
  <2>3. Waiting'[c] = Waiting[c] - 1
    BY <1>1, <1>6, <1>7, <2>1
  <2>4. DOMAIN Waiting' = Method /\ DOMAIN Waiting = Method
        /\ Waiting = [m \in Method |-> Waiting[m]] /\ Waiting' = [m \in Method |-> Waiting'[m]]
    BY DEF Waiting
  <2> QED
    BY <1>1, <2>2, <2>3, <2>4
<1>9. i \notin sending /\ \A k \in Method : <<i, k>> \notin UnderWay
  BY <1>0 DEF RpcInv, Outstanding, UnderWay
<1>10. UnderWay' = UnderWay \cup {<<i, c>>}
  <2>1. \A t \in sending : t \notin {i, j} /\ class'[t] = class[t]
    BY <1>0, <1>2, <1>3 DEF ViewIs
  <2>2. UnderWay' = {<<t, class'[t]>> : t \in sending'} /\ UnderWay = {<<t, class[t]>> : t \in sending}
    BY DEF UnderWay, ViewIs
  <2> QED
    BY <1>0, <1>3, <2>1, <2>2
<1> QED
  BY <1>0, <1>1, <1>7, <1>8, <1>9, <1>10 DEF Serving

\* A call moves from the backlog to the object that waits for it: it waits still.
LEMMA ArrivesView ==
    ASSUME RpcInv, ViewIs, ViewIs', NEW i \in Tag, CallArrives(i)
    PROVE  UNCHANGED <<Waiting, UnderWay, Serving>>
<1>0. /\ i \in registered /\ registered' = registered \ {i} /\ cq' = cq \cup {<<i, TRUE>>}
      /\ UNCHANGED <<status, class, sending, loop>>
  BY DEF CallArrives
<1>1. PICK c \in Method : class[i] = c /\ Serves(i) = c
  <2>1. class[i] # "none"
    BY <1>0 DEF RpcInv, Objects, Outstanding
  <2> QED
    BY <2>1, Dispatch DEF RpcInv
<1>2. backlog[c] > 0 /\ backlog' = [backlog EXCEPT ![c] = @ - 1]
  BY <1>1 DEF CallArrives
<1>3. \A m \in Method : backlog[m] \in Nat
  BY DEF RpcInv, RpcTypeOK
<1>4. ~HoldsOne(c) /\ HoldsOne(c)'
  <2>1. status[i] = "PROCESS" /\ <<i, TRUE>> \notin cq
    BY <1>0 DEF RpcInv, Outstanding
  <2>2. \A t \in Tag : status[t] = "PROCESS" /\ class[t] = c => t = i
    BY <1>1, <2>1 DEF RpcInv, Listeners
  <2> QED
    BY <1>0, <1>1, <2>1, <2>2 DEF HoldsOne
<1>5. \A m \in Method \ {c} : HoldsOne(m)' <=> HoldsOne(m)
  <2>1. ASSUME NEW m \in Method \ {c}, NEW t \in Tag
        PROVE  (status'[t] = "PROCESS" /\ class'[t] = m /\ <<t, TRUE>> \in cq')
               <=> (status[t] = "PROCESS" /\ class[t] = m /\ <<t, TRUE>> \in cq)
    <3>1. CASE t = i
      BY <1>0, <1>1, <3>1
    <3>2. CASE t # i
      BY <1>0, <3>2
    <3> QED
      BY <3>1, <3>2
  <2> QED
    BY <2>1 DEF HoldsOne
<1>6. Waiting' = Waiting
  <2>1. Waiting[c] = backlog[c] + 0 /\ Waiting'[c] = backlog'[c] + 1
    BY <1>4 DEF Waiting, ViewIs
  <2>2. backlog'[c] = backlog[c] - 1 /\ \A m \in Method \ {c} : backlog'[m] = backlog[m]
    BY <1>2 DEF RpcInv, RpcTypeOK
  <2>3. Waiting'[c] = Waiting[c]
    BY <1>3, <2>1, <2>2
  <2>4. \A m \in Method \ {c} : Waiting'[m] = Waiting[m]
    BY <1>5, <2>2 DEF Waiting, ViewIs
  <2>5. Waiting = [m \in Method |-> Waiting[m]] /\ Waiting' = [m \in Method |-> Waiting'[m]]
    BY DEF Waiting
  <2> QED
    BY <2>3, <2>4, <2>5
<1>7. UnderWay' = UnderWay
  BY <1>0 DEF UnderWay, ViewIs
<1> QED
  BY <1>0, <1>6, <1>7 DEF Serving

\* A client calls.
LEMMA CallView ==
    ASSUME RpcInv, ViewIs, ViewIs', NEW m \in Method, ClientCalls(m)
    PROVE  /\ Waiting' = [Waiting EXCEPT ![m] = @ + 1]
           /\ UNCHANGED <<UnderWay, Serving>>
<1>0. /\ backlog' = [backlog EXCEPT ![m] = @ + 1]
      /\ UNCHANGED <<status, class, cq, sending, loop>>
  BY DEF ClientCalls
<1>1. \A k \in Method : HoldsOne(k)' <=> HoldsOne(k)
  BY <1>0 DEF HoldsOne
<1>2. \A k \in Method : backlog[k] \in Nat /\ backlog'[k] = IF k = m THEN backlog[k] + 1 ELSE backlog[k]
  BY <1>0 DEF RpcInv, RpcTypeOK
<1>3. \A k \in Method : Waiting'[k] = IF k = m THEN Waiting[k] + 1 ELSE Waiting[k]
  <2> SUFFICES ASSUME NEW k \in Method
               PROVE  Waiting'[k] = IF k = m THEN Waiting[k] + 1 ELSE Waiting[k]
    OBVIOUS
  <2>1. CASE HoldsOne(k)
    <3>1. Waiting[k] = backlog[k] + 1 /\ Waiting'[k] = backlog'[k] + 1
      BY <1>1, <2>1 DEF Waiting, ViewIs
    <3> QED
      BY <1>2, <3>1
  <2>2. CASE ~HoldsOne(k)
    <3>1. Waiting[k] = backlog[k] + 0 /\ Waiting'[k] = backlog'[k] + 0
      BY <1>1, <2>2 DEF Waiting, ViewIs
    <3> QED
      BY <1>2, <3>1
  <2> QED
    BY <2>1, <2>2
<1>4. Waiting = [k \in Method |-> Waiting[k]] /\ Waiting' = [k \in Method |-> Waiting'[k]]
  BY DEF Waiting
<1>5. Waiting' = [Waiting EXCEPT ![m] = @ + 1]
  BY <1>3, <1>4
<1>6. UnderWay' = UnderWay
  BY <1>0 DEF UnderWay, ViewIs
<1> QED
  BY <1>0, <1>5, <1>6 DEF Serving

\* A reply goes out; the event of its end is no call.
LEMMA DeliverView ==
    ASSUME RpcInv, ViewIs, ViewIs', NEW i \in Tag, NEW ok \in BOOLEAN, ReplySent(i, ok)
    PROVE  /\ class[i] \in Method
           /\ <<i, class[i]>> \in UnderWay
           /\ UnderWay' = UnderWay \ {<<i, class[i]>>}
           /\ UNCHANGED <<Waiting, Serving>>
<1>0. /\ i \in sending /\ sending' = sending \ {i} /\ cq' = cq \cup {<<i, ok>>}
      /\ UNCHANGED <<status, class, backlog, loop>>
  BY DEF ReplySent
<1>1. status[i] = "FINISH" /\ class[i] \in Method
  BY <1>0 DEF ViewIs
<1>2. \A m \in Method : HoldsOne(m)' <=> HoldsOne(m)
  <2>1. \A t \in Tag : status[t] = "PROCESS" => t # i
    BY <1>1
  <2> QED
    BY <1>0, <2>1 DEF HoldsOne
<1>3. Waiting' = Waiting
  BY <1>0, <1>2 DEF Waiting, ViewIs
<1>4. /\ UnderWay' = {<<t, class[t]>> : t \in sending'}
      /\ UnderWay = {<<t, class[t]>> : t \in sending}
  BY <1>0 DEF UnderWay, ViewIs
<1> QED
  BY <1>0, <1>1, <1>3, <1>4 DEF Serving

\* The other steps change nothing the promise speaks of, or end the service.
LEMMA OtherView ==
    ASSUME RpcInv, ViewIs, ViewIs',
           \/ FirstCallData \/ LoopTop \/ ShutdownSignal \/ UNCHANGED rpcVars
           \/ \E i \in Tag : ProceedFinish(i) \/ AssertOkFails(i)
    PROVE  /\ UNCHANGED <<Waiting, UnderWay>>
           /\ Serving' = Serving \/ Serving' = FALSE
<1> DEFINE Same == /\ backlog' = backlog /\ sending' = sending
                   /\ \A m \in Method : HoldsOne(m)' <=> HoldsOne(m)
                   /\ \A i \in sending : class'[i] = class[i]
<1>1. ASSUME Same PROVE UNCHANGED <<Waiting, UnderWay>>
  BY <1>1 DEF Waiting, UnderWay, ViewIs
<1>2. CASE FirstCallData
  <2>1. loop = "start" /\ loop' = "check" /\ UNCHANGED <<backlog, cq, sending>>
    BY <1>2 DEF FirstCallData
  <2>2. \A i \in Tag : <<i, TRUE>> \notin cq /\ i \notin sending
    BY <2>1 DEF RpcInv, Objects, Outstanding
  <2>3. sending = {}
    BY <2>2 DEF ViewIs
  <2>4. Same
    BY <2>1, <2>2, <2>3 DEF HoldsOne
  <2> HIDE DEF Same
  <2> QED
    BY <1>1, <2>1, <2>4 DEF Serving
<1>3. CASE LoopTop \/ ShutdownSignal \/ UNCHANGED rpcVars
  <2>1. UNCHANGED <<status, class, backlog, cq, sending>>
    BY <1>3 DEF LoopTop, ShutdownSignal, rpcVars
  <2>2. Same
    BY <2>1 DEF HoldsOne
  <2>3. loop' = loop \/ (loop = "check" /\ loop' \in {"wait", "stopped"})
    BY <1>3 DEF LoopTop, ShutdownSignal, rpcVars
  <2>4. Serving' = Serving \/ Serving' = FALSE
    BY <2>3 DEF Serving
  <2> HIDE DEF Same
  <2> QED
    BY <1>1, <2>2, <2>4
<1>4. ASSUME NEW i \in Tag, ProceedFinish(i) PROVE UNCHANGED <<Waiting, UnderWay, Serving>>
  <2>1. /\ status[i] = "FINISH" /\ <<i, TRUE>> \in cq /\ cq' = cq \ {<<i, TRUE>>}
        /\ status' = [status EXCEPT ![i] = "free"] /\ class' = [class EXCEPT ![i] = "none"]
        /\ UNCHANGED <<backlog, sending>> /\ loop = "wait" /\ loop' = "check"
    BY <1>4 DEF ProceedFinish
  <2>2. i \notin sending
    BY <2>1 DEF RpcInv, Outstanding
  <2>3. \A t \in Tag \ {i} : status'[t] = status[t] /\ class'[t] = class[t]
    BY <2>1 DEF RpcInv, RpcTypeOK
  <2>4. status'[i] = "free"
    BY <2>1 DEF RpcInv, RpcTypeOK
  <2>5. \A m \in Method : HoldsOne(m)' <=> HoldsOne(m)
    BY <2>1, <2>3, <2>4 DEF HoldsOne
  <2>6. Same
    BY <2>1, <2>2, <2>3, <2>5 DEF ViewIs
  <2> HIDE DEF Same
  <2> QED
    BY <1>1, <2>1, <2>6 DEF Serving
<1>5. ASSUME NEW i \in Tag, AssertOkFails(i)
      PROVE  UNCHANGED <<Waiting, UnderWay>> /\ Serving' = FALSE
  <2>1. /\ cq' = cq \ {<<i, FALSE>>} /\ UNCHANGED <<status, class, backlog, sending>>
        /\ loop' = "aborted"
    BY <1>5 DEF AssertOkFails
  <2>2. Same
    BY <2>1 DEF HoldsOne
  <2> HIDE DEF Same
  <2> QED
    BY <1>1, <2>1, <2>2 DEF Serving
<1> QED
  BY <1>2, <1>3, <1>4, <1>5

\* The promise's state and steps in these words.
LEMMA InPromise ==
    /\ UNCHANGED Promise!promiseVars <=> UNCHANGED <<Waiting, UnderWay, Serving>>
    /\ Promise!End <=> Serving' = FALSE /\ UNCHANGED <<Waiting, UnderWay>>
    /\ \A m : Promise!Call(m) <=>
         /\ Waiting' = [Waiting EXCEPT ![m] = @ + 1]
         /\ UNCHANGED <<UnderWay, Serving>>
    /\ \A i, m : Promise!Answer(i, m) <=>
         /\ Serving
         /\ Waiting[m] > 0
         /\ \A k \in Method : <<i, k>> \notin UnderWay
         /\ Waiting' = [Waiting EXCEPT ![m] = @ - 1]
         /\ UnderWay' = UnderWay \cup {<<i, m>>}
         /\ UNCHANGED Serving
    /\ \A i, m : Promise!Deliver(i, m) <=>
         /\ <<i, m>> \in UnderWay
         /\ UnderWay' = UnderWay \ {<<i, m>>}
         /\ UNCHANGED <<Waiting, Serving>>
  BY DEF Promise!promiseVars, Promise!End, Promise!Call, Promise!Answer, Promise!Deliver,
         Waiting, UnderWay, Serving

\* The server implements RpcPromise (AnswersEachCall): for any number of addresses,
\* methods and waiting calls, and with addresses reused as they may be, each call is
\* handled once, by the handler of its own RPC, and gets one reply.
THEOREM CallsAnsweredOnce == RpcSpec => AnswersEachCall
<1>1. RpcInit => Promise!PromiseInit
  <2> SUFFICES ASSUME RpcInit
               PROVE  Promise!PromiseInit
    OBVIOUS
  <2>1. cq = {} /\ sending = {} /\ backlog = [m \in Method |-> 0] /\ loop = "start"
    BY DEF RpcInit
  <2>2. \A m \in Method : ~Holds(m)
    BY <2>1 DEF Holds
  <2> QED
    BY <2>1, <2>2 DEF Promise!PromiseInit
<1>2. RpcInv /\ ViewIs /\ ViewIs' /\ [RpcNext]_rpcVars
        => [Promise!PromiseNext]_(Promise!promiseVars)
  <2> SUFFICES ASSUME RpcInv, ViewIs, ViewIs', [RpcNext]_rpcVars
               PROVE  Promise!PromiseNext \/ UNCHANGED Promise!promiseVars
    OBVIOUS
  <2>1. ASSUME NEW i \in Tag, ProceedProcess(i) PROVE Promise!PromiseNext
    <3>1. PICK m \in Method : m = class[i]
      BY <2>1, AnswerView
    <3>2. Serving' = Serving
      BY <2>1 DEF ProceedProcess, Serving
    <3>3. Promise!Answer(i, m)
      BY <2>1, <3>1, <3>2, AnswerView, InPromise
    <3> QED
      BY <3>3 DEF Promise!PromiseNext
  <2>2. ASSUME NEW i \in Tag, CallArrives(i) PROVE UNCHANGED Promise!promiseVars
    BY <2>2, ArrivesView, InPromise
  <2>3. ASSUME NEW i \in Tag, NEW ok \in BOOLEAN, ReplySent(i, ok) PROVE Promise!PromiseNext
    <3>1. PICK m \in Method : m = class[i]
      BY <2>3, DeliverView
    <3>2. Promise!Deliver(i, m)
      BY <2>3, <3>1, DeliverView, InPromise
    <3> QED
      BY <3>2 DEF Promise!PromiseNext
  <2>4. ASSUME NEW m \in Method, ClientCalls(m) PROVE Promise!PromiseNext
    BY <2>4, CallView, InPromise DEF Promise!PromiseNext
  <2>5. CASE \/ FirstCallData \/ LoopTop \/ ShutdownSignal \/ UNCHANGED rpcVars
             \/ \E i \in Tag : ProceedFinish(i) \/ AssertOkFails(i)
    <3>1. UNCHANGED <<Waiting, UnderWay>> /\ (Serving' = Serving \/ Serving' = FALSE)
      BY <2>5, OtherView
    <3> QED
      BY <3>1, InPromise DEF Promise!PromiseNext
  <2> QED
    BY <2>1, <2>2, <2>3, <2>4, <2>5 DEF RpcNext, ServerStep
<1> QED
  BY <1>1, <1>2, RpcInvariant, View, PTL DEF RpcSpec, AnswersEachCall, Promise!PromiseSpec

=============================================================================
