---------------------------- MODULE KinitProofs ----------------------------
(***************************************************************************)
(* The invariants of HostKinit for any threads, users and caches. Three    *)
(* strengthenings make them inductive: whose password a half of udata may  *)
(* hold, where a thread with an open context is, and where a call that no  *)
(* other call overlaps stands.                                             *)
(***************************************************************************)
EXTENDS HostKinit, TLAPS

\* From its write to its wipe a half of udata belongs to the call that wrote it.
Holds(t, h) ==
    \/ h = 1 /\ kpc[t] \in InCall \ {"wiping"}
    \/ h = 2 /\ kpc[t] \in InCall \ {"copying"}

UdataHeld ==
    \A h \in Half : udata[h] \in {NoPass, Wiped} \/ \E t \in Thread : Holds(t, h)

\* A thread has a context between k5_begin and k5_end.
ContextOpen == \A t \in Thread : ctx[t] => kpc[t] \in {"kdc", "switch", "free"}

\* What holds of every call, overlapped or not.
CallShape ==
    \A t \in Thread :
        /\ kpc[t] \in {"idle", "copy", "copying", "begin", "kdc", "keytab"} => ~authed[t]
        /\ kpc[t] = "keytab" => user[t] = Machine /\ given[t] = Machine
        /\ kpc[t] \in {"kdc", "switch"} => out[t] \in Cache

\* Where a call that no other overlapped stands.
Stands(t) ==
    /\ \A s \in Thread \ {t} : kpc[s] = "idle"
    /\ kpc[t] = "copying" => udata[1] = given[t]
    /\ kpc[t] \in {"begin", "kdc"} => udata[1] = given[t] /\ udata[2] = given[t]
    /\ kpc[t] \in {"kdc", "switch"} => switching[t] \/ out[t] = primary
    /\ kpc[t] = "kdc" /\ deftype # "FILE" => cache[out[t]] \in {NoUser, user[t]}
    /\ kpc[t] = "switch" => authed[t] /\ given[t] = user[t] /\ cache[out[t]] = user[t]
    /\ kpc[t] \in {"free", "unset", "wipe", "wiping"} /\ ~failed[t] =>
         /\ authed[t] <=> given[t] = user[t]
         /\ authed[t] => cache[primary] = user[t]
    /\ kpc[t] = "returned" /\ ~failed[t] /\ status[t] >= 0 =>
         /\ status[t] = 0 <=> given[t] = user[t]
         /\ status[t] = 0 => cache[primary] = user[t]

CallAlone == \A t \in Thread : alone[t] /\ kpc[t] # "idle" => Stands(t)

HostInv ==
    /\ HostTypeOK
    /\ UdataHeld
    /\ ContextOpen /\ ErrctxIsOpen
    /\ CallShape
    /\ CallAlone

\* What a call of thread t begins with.
BeginStep(t) ==
    \E u \in User, p \in Password \cup {NoPass}, code \in {0, -1},
       next \in {"copy", "keytab", "returned"} :
        /\ Begin(t, u, p, code, next)
        /\ next = "keytab" => u = Machine /\ p = Machine
        /\ next = "returned" => code = -1

-----------------------------------------------------------------------------
\* The output cache of a call is one of the caches, and in a collection it is
\* empty or holds the ticket of the same user.
LEMMA OutCacheFits ==
    ASSUME HostTypeOK, NEW t \in Thread, NEW c \in OutCache(t)
    PROVE  /\ c \in Cache
           /\ deftype = "FILE" => c = primary
           /\ deftype # "FILE" => cache[c] \in {NoUser, user[t]}
           /\ deftype # "FILE" /\ Match(t) = {} /\ cache[primary] = NoUser => c = primary
  BY DEF HostTypeOK, KinitTypeOK, OutCache, Match, NewUnique, Unused

\* A step of HostKinit begins a call or goes on with one.
LEMMA StepOf ==
    ASSUME HostTypeOK, HostNext
    PROVE  \E t \in Thread : BeginStep(t) \/ HostStep(t)
<1>1. PICK t \in Thread :
        \/ HostStep(t)
        \/ \E installed \in Installed :
             \/ generate_krb_ticket_from_machine_keytab(t, installed)
             \/ \E p \in {SecretUser, Wrong} :
                  generate_krb_ticket_using_secret_vault(t, p, installed)
             \/ \E u \in User : \E p \in {u, Wrong} :
                  generate_krb_ticket_using_username_and_password(t, u, p, installed)
  BY DEF HostNext
<1>2. ASSUME NEW u \in User, GiveUp(t, u)
      PROVE  BeginStep(t)
  BY <1>2 DEF GiveUp, BeginStep
<1>3. ASSUME NEW u \in User, NEW p \in Password, Begin(t, u, p, 0, "copy")
      PROVE  BeginStep(t)
  BY <1>3 DEF BeginStep
<1>4. ASSUME Begin(t, Machine, Machine, 0, "keytab")
      PROVE  BeginStep(t)
  BY <1>4, HostAssumption DEF BeginStep, Password
<1>5. ASSUME NEW installed \in Installed, generate_krb_ticket_from_machine_keytab(t, installed)
      PROVE  BeginStep(t)
  BY <1>2, <1>4, <1>5, HostAssumption DEF generate_krb_ticket_from_machine_keytab
<1>6. ASSUME NEW installed \in Installed, NEW p \in {SecretUser, Wrong},
             generate_krb_ticket_using_secret_vault(t, p, installed)
      PROVE  BeginStep(t)
  BY <1>2, <1>3, <1>6, HostAssumption DEF generate_krb_ticket_using_secret_vault, Password
<1>7. ASSUME NEW installed \in Installed, NEW u \in User, NEW p \in {u, Wrong},
             generate_krb_ticket_using_username_and_password(t, u, p, installed)
      PROVE  BeginStep(t)
  BY <1>2, <1>3, <1>7 DEF generate_krb_ticket_using_username_and_password, Password
<1> QED
  BY <1>1, <1>5, <1>6, <1>7

-----------------------------------------------------------------------------
\* No thread is in a call at the start.
LEMMA HostInit_Inv == HostInit => HostInv
<1> SUFFICES ASSUME HostInit
             PROVE  HostInv
  OBVIOUS
<1> USE KinitAssumption, HostAssumption DEF HostInit, KinitInit
<1>1. HostTypeOK
  BY DEF HostTypeOK, KinitTypeOK, Password, Memory
<1>2. UdataHeld /\ ContextOpen /\ ErrctxIsOpen
  BY DEF UdataHeld, ContextOpen, ErrctxIsOpen
<1>3. CallShape /\ CallAlone
  BY DEF CallShape, CallAlone
<1> QED
  BY <1>1, <1>2, <1>3 DEF HostInv

\* A step keeps the types.
LEMMA Step_Type == ASSUME HostInv, NEW t \in Thread, BeginStep(t) \/ HostStep(t) PROVE HostTypeOK'
<1> USE KinitAssumption, HostAssumption DEF HostInv, HostTypeOK, KinitTypeOK, Password, Memory, InCall, CallShape, At
<1>1. ASSUME CopyPassword(t), KinitStep(t) PROVE HostTypeOK'
  BY <1>1 DEF CopyPassword, KinitStep
<1>2. ASSUME CopyPasswordEnds(t), KinitStep(t) PROVE HostTypeOK'
  BY <1>2 DEF CopyPasswordEnds, KinitStep
<1>3. ASSUME k5_begin(t), KinitStep(t) PROVE HostTypeOK'
  BY <1>3, OutCacheFits DEF k5_begin, KinitStep
<1>4. ASSUME GetInitCreds(t), KinitStep(t) PROVE HostTypeOK'
  BY <1>4 DEF GetInitCreds, KinitStep
<1>5. ASSUME PasswordIncorrect(t), KinitStep(t) PROVE HostTypeOK'
  BY <1>5 DEF PasswordIncorrect, KinitStep
<1>6. ASSUME SwitchCache(t), KinitStep(t) PROVE HostTypeOK'
  BY <1>6 DEF SwitchCache, KinitStep
<1>7. ASSUME FreeContext(t), KinitStep(t) PROVE HostTypeOK'
  BY <1>7 DEF FreeContext, KinitStep
<1>8. ASSUME UnsetErrctx(t), KinitStep(t) PROVE HostTypeOK'
  BY <1>8 DEF UnsetErrctx, KinitStep
<1>9. ASSUME WipePassword(t), KinitStep(t) PROVE HostTypeOK'
  BY <1>9 DEF WipePassword, KinitStep
<1>10. ASSUME WipePasswordEnds(t), KinitStep(t) PROVE HostTypeOK'
  BY <1>10 DEF WipePasswordEnds, KinitStep
<1>11. CASE LibraryFails(t)
  BY <1>11 DEF LibraryFails, k5_begin_fails, k5_kinit_fails
<1>12. CASE execute_kinit_in_domain_joined_case(t)
  BY <1>12, OutCacheFits DEF execute_kinit_in_domain_joined_case
<1>13. CASE get_machine_principal_fails(t)
  BY <1>13 DEF get_machine_principal_fails
<1>14. CASE Return(t)
  BY <1>14 DEF Return
<1>15. CASE BeginStep(t)
  <2>1. PICK u \in User, p \in Password \cup {NoPass}, code \in {0, -1},
             next \in {"copy", "keytab", "returned"} :
               /\ Begin(t, u, p, code, next)
               /\ next = "keytab" => u = Machine /\ p = Machine
               /\ next = "returned" => code = -1
    BY <1>15 DEF BeginStep
  <2> QED
    BY <2>1 DEF Begin
<1> QED
  BY <1>1, <1>2, <1>3, <1>4, <1>5, <1>6, <1>7, <1>8, <1>9, <1>10, <1>11, <1>12, <1>13, <1>14, <1>15
  DEF HostStep, KinitStep, my_kinit_main

\* A half of udata is free again only once it is wiped.
LEMMA Step_Udata == ASSUME HostInv, NEW t \in Thread, BeginStep(t) \/ HostStep(t) PROVE UdataHeld'
<1> USE KinitAssumption, HostAssumption DEF HostInv, HostTypeOK, KinitTypeOK, UdataHeld, Holds, InCall, Half, At
<1>1. ASSUME CopyPassword(t), KinitStep(t) PROVE UdataHeld'
  BY <1>1 DEF CopyPassword, KinitStep
<1>2. ASSUME CopyPasswordEnds(t), KinitStep(t) PROVE UdataHeld'
  BY <1>2 DEF CopyPasswordEnds, KinitStep
<1>3. ASSUME k5_begin(t), KinitStep(t) PROVE UdataHeld'
  BY <1>3, OutCacheFits DEF k5_begin, KinitStep
<1>4. ASSUME GetInitCreds(t), KinitStep(t) PROVE UdataHeld'
  BY <1>4 DEF GetInitCreds, KinitStep
<1>5. ASSUME PasswordIncorrect(t), KinitStep(t) PROVE UdataHeld'
  BY <1>5 DEF PasswordIncorrect, KinitStep
<1>6. ASSUME SwitchCache(t), KinitStep(t) PROVE UdataHeld'
  BY <1>6 DEF SwitchCache, KinitStep
<1>7. ASSUME FreeContext(t), KinitStep(t) PROVE UdataHeld'
  BY <1>7 DEF FreeContext, KinitStep
<1>8. ASSUME UnsetErrctx(t), KinitStep(t) PROVE UdataHeld'
  BY <1>8 DEF UnsetErrctx, KinitStep
<1>9. ASSUME WipePassword(t), KinitStep(t) PROVE UdataHeld'
  BY <1>9 DEF WipePassword, KinitStep
<1>10. ASSUME WipePasswordEnds(t), KinitStep(t) PROVE UdataHeld'
  BY <1>10 DEF WipePasswordEnds, KinitStep
<1>11. CASE LibraryFails(t)
  BY <1>11 DEF LibraryFails, k5_begin_fails, k5_kinit_fails
<1>12. CASE execute_kinit_in_domain_joined_case(t)
  BY <1>12, OutCacheFits DEF execute_kinit_in_domain_joined_case
<1>13. CASE get_machine_principal_fails(t)
  BY <1>13 DEF get_machine_principal_fails
<1>14. CASE Return(t)
  BY <1>14 DEF Return
<1>15. CASE BeginStep(t)
  <2>1. PICK u \in User, p \in Password \cup {NoPass}, code \in {0, -1},
             next \in {"copy", "keytab", "returned"} :
               /\ Begin(t, u, p, code, next)
               /\ next = "keytab" => u = Machine /\ p = Machine
               /\ next = "returned" => code = -1
    BY <1>15 DEF BeginStep
  <2> QED
    BY <2>1 DEF Begin
<1> QED
  BY <1>1, <1>2, <1>3, <1>4, <1>5, <1>6, <1>7, <1>8, <1>9, <1>10, <1>11, <1>12, <1>13, <1>14, <1>15
  DEF HostStep, KinitStep, my_kinit_main

\* errctx is set with the context and unset after it is freed.
LEMMA Step_Context == ASSUME HostInv, NEW t \in Thread, BeginStep(t) \/ HostStep(t) PROVE ContextOpen' /\ ErrctxIsOpen'
<1> USE KinitAssumption, HostAssumption DEF HostInv, HostTypeOK, KinitTypeOK, ContextOpen, ErrctxIsOpen, At
<1>1. ASSUME CopyPassword(t), KinitStep(t) PROVE ContextOpen' /\ ErrctxIsOpen'
  BY <1>1 DEF CopyPassword, KinitStep
<1>2. ASSUME CopyPasswordEnds(t), KinitStep(t) PROVE ContextOpen' /\ ErrctxIsOpen'
  BY <1>2 DEF CopyPasswordEnds, KinitStep
<1>3. ASSUME k5_begin(t), KinitStep(t) PROVE ContextOpen' /\ ErrctxIsOpen'
  BY <1>3, OutCacheFits DEF k5_begin, KinitStep
<1>4. ASSUME GetInitCreds(t), KinitStep(t) PROVE ContextOpen' /\ ErrctxIsOpen'
  BY <1>4 DEF GetInitCreds, KinitStep
<1>5. ASSUME PasswordIncorrect(t), KinitStep(t) PROVE ContextOpen' /\ ErrctxIsOpen'
  BY <1>5 DEF PasswordIncorrect, KinitStep
<1>6. ASSUME SwitchCache(t), KinitStep(t) PROVE ContextOpen' /\ ErrctxIsOpen'
  BY <1>6 DEF SwitchCache, KinitStep
<1>7. ASSUME FreeContext(t), KinitStep(t) PROVE ContextOpen' /\ ErrctxIsOpen'
  BY <1>7 DEF FreeContext, KinitStep
<1>8. ASSUME UnsetErrctx(t), KinitStep(t) PROVE ContextOpen' /\ ErrctxIsOpen'
  BY <1>8 DEF UnsetErrctx, KinitStep
<1>9. ASSUME WipePassword(t), KinitStep(t) PROVE ContextOpen' /\ ErrctxIsOpen'
  BY <1>9 DEF WipePassword, KinitStep
<1>10. ASSUME WipePasswordEnds(t), KinitStep(t) PROVE ContextOpen' /\ ErrctxIsOpen'
  BY <1>10 DEF WipePasswordEnds, KinitStep
<1>11. CASE LibraryFails(t)
  BY <1>11 DEF LibraryFails, k5_begin_fails, k5_kinit_fails
<1>12. CASE execute_kinit_in_domain_joined_case(t)
  BY <1>12, OutCacheFits DEF execute_kinit_in_domain_joined_case
<1>13. CASE get_machine_principal_fails(t)
  BY <1>13 DEF get_machine_principal_fails
<1>14. CASE Return(t)
  BY <1>14 DEF Return
<1>15. CASE BeginStep(t)
  <2>1. PICK u \in User, p \in Password \cup {NoPass}, code \in {0, -1},
             next \in {"copy", "keytab", "returned"} :
               /\ Begin(t, u, p, code, next)
               /\ next = "keytab" => u = Machine /\ p = Machine
               /\ next = "returned" => code = -1
    BY <1>15 DEF BeginStep
  <2> QED
    BY <2>1 DEF Begin
<1> QED
  BY <1>1, <1>2, <1>3, <1>4, <1>5, <1>6, <1>7, <1>8, <1>9, <1>10, <1>11, <1>12, <1>13, <1>14, <1>15
  DEF HostStep, KinitStep, my_kinit_main

\* A call is authenticated by the KDC and has a cache when it is.
LEMMA Step_Shape == ASSUME HostInv, NEW t \in Thread, BeginStep(t) \/ HostStep(t) PROVE CallShape'
<1> USE KinitAssumption, HostAssumption DEF HostInv, HostTypeOK, KinitTypeOK, CallShape, At
<1>1. ASSUME CopyPassword(t), KinitStep(t) PROVE CallShape'
  BY <1>1 DEF CopyPassword, KinitStep
<1>2. ASSUME CopyPasswordEnds(t), KinitStep(t) PROVE CallShape'
  BY <1>2 DEF CopyPasswordEnds, KinitStep
<1>3. ASSUME k5_begin(t), KinitStep(t) PROVE CallShape'
  BY <1>3, OutCacheFits DEF k5_begin, KinitStep
<1>4. ASSUME GetInitCreds(t), KinitStep(t) PROVE CallShape'
  BY <1>4 DEF GetInitCreds, KinitStep
<1>5. ASSUME PasswordIncorrect(t), KinitStep(t) PROVE CallShape'
  BY <1>5 DEF PasswordIncorrect, KinitStep
<1>6. ASSUME SwitchCache(t), KinitStep(t) PROVE CallShape'
  BY <1>6 DEF SwitchCache, KinitStep
<1>7. ASSUME FreeContext(t), KinitStep(t) PROVE CallShape'
  BY <1>7 DEF FreeContext, KinitStep
<1>8. ASSUME UnsetErrctx(t), KinitStep(t) PROVE CallShape'
  BY <1>8 DEF UnsetErrctx, KinitStep
<1>9. ASSUME WipePassword(t), KinitStep(t) PROVE CallShape'
  BY <1>9 DEF WipePassword, KinitStep
<1>10. ASSUME WipePasswordEnds(t), KinitStep(t) PROVE CallShape'
  BY <1>10 DEF WipePasswordEnds, KinitStep
<1>11. CASE LibraryFails(t)
  BY <1>11 DEF LibraryFails, k5_begin_fails, k5_kinit_fails
<1>12. CASE execute_kinit_in_domain_joined_case(t)
  BY <1>12, OutCacheFits DEF execute_kinit_in_domain_joined_case
<1>13. CASE get_machine_principal_fails(t)
  BY <1>13 DEF get_machine_principal_fails
<1>14. CASE Return(t)
  BY <1>14 DEF Return
<1>15. CASE BeginStep(t)
  <2>1. PICK u \in User, p \in Password \cup {NoPass}, code \in {0, -1},
             next \in {"copy", "keytab", "returned"} :
               /\ Begin(t, u, p, code, next)
               /\ next = "keytab" => u = Machine /\ p = Machine
               /\ next = "returned" => code = -1
    BY <1>15 DEF BeginStep
  <2> QED
    BY <2>1 DEF Begin
<1> QED
  BY <1>1, <1>2, <1>3, <1>4, <1>5, <1>6, <1>7, <1>8, <1>9, <1>10, <1>11, <1>12, <1>13, <1>14, <1>15
  DEF HostStep, KinitStep, my_kinit_main

\* A step of t leaves the other threads where they are, and of these only calls
\* that are overlapped are in progress.
LEMMA Step_Others ==
    ASSUME HostInv, NEW t \in Thread, BeginStep(t) \/ HostStep(t), NEW s \in Thread, s # t
    PROVE  ~(alone'[s] /\ kpc'[s] # "idle")
<1> USE DEF HostInv, HostTypeOK, KinitTypeOK, At
<1>1. CASE HostStep(t)
  <2>1. alone'[s] = alone[s] /\ kpc'[s] = kpc[s] /\ kpc[t] # "idle"
    BY <1>1
    DEF HostStep, KinitStep, my_kinit_main, LibraryFails, execute_kinit_in_domain_joined_case,
        get_machine_principal_fails, Return, CopyPassword, CopyPasswordEnds, k5_begin,
        GetInitCreds, PasswordIncorrect, SwitchCache, FreeContext, UnsetErrctx, WipePassword,
        WipePasswordEnds, k5_begin_fails, k5_kinit_fails
  <2>2. alone[s] /\ kpc[s] # "idle" => kpc[t] = "idle"
    BY DEF CallAlone, Stands
  <2> QED
    BY <2>1, <2>2
<1>2. CASE BeginStep(t)
  <2>1. alone'[s] = (kpc[s] = "idle") /\ kpc'[s] = kpc[s]
    BY <1>2 DEF BeginStep, Begin
  <2> QED
    BY <2>1
<1> QED
  BY <1>1, <1>2

\* A call that no other overlaps goes on as it stands.
LEMMA Step_Stands ==
    ASSUME HostInv, NEW t \in Thread, BeginStep(t) \/ HostStep(t), alone'[t], kpc'[t] # "idle"
    PROVE  Stands(t)'
<1> USE KinitAssumption, HostAssumption DEF HostInv, HostTypeOK, KinitTypeOK, CallShape, At, Half
<1>0. ASSUME HostStep(t), ~Return(t) PROVE Stands(t) /\ alone[t]
  <2>1. alone'[t] = alone[t] /\ kpc[t] # "idle"
    BY <1>0
    DEF HostStep, KinitStep, my_kinit_main, LibraryFails, execute_kinit_in_domain_joined_case,
        get_machine_principal_fails, CopyPassword, CopyPasswordEnds, k5_begin,
        GetInitCreds, PasswordIncorrect, SwitchCache, FreeContext, UnsetErrctx, WipePassword,
        WipePasswordEnds, k5_begin_fails, k5_kinit_fails
  <2> QED
    BY <2>1 DEF CallAlone
<1>1. ASSUME CopyPassword(t), KinitStep(t), Stands(t) PROVE Stands(t)'
  BY <1>1 DEF CopyPassword, KinitStep, Stands
<1>2. ASSUME CopyPasswordEnds(t), KinitStep(t), Stands(t) PROVE Stands(t)'
  BY <1>2 DEF CopyPasswordEnds, KinitStep, Stands
<1>3. ASSUME k5_begin(t), KinitStep(t), Stands(t) PROVE Stands(t)'
  BY <1>3, OutCacheFits DEF k5_begin, KinitStep, Stands, Match
<1>4. ASSUME GetInitCreds(t), KinitStep(t), Stands(t) PROVE Stands(t)'
  BY <1>4 DEF GetInitCreds, KinitStep, Stands, Accepted, kinit_prompter
<1>5. ASSUME PasswordIncorrect(t), KinitStep(t), Stands(t) PROVE Stands(t)'
  BY <1>5 DEF PasswordIncorrect, KinitStep, Stands, Accepted, kinit_prompter
<1>6. ASSUME SwitchCache(t), KinitStep(t), Stands(t) PROVE Stands(t)'
  BY <1>6 DEF SwitchCache, KinitStep, Stands
<1>7. ASSUME FreeContext(t), KinitStep(t), Stands(t) PROVE Stands(t)'
  BY <1>7 DEF FreeContext, KinitStep, Stands
<1>8. ASSUME UnsetErrctx(t), KinitStep(t), Stands(t) PROVE Stands(t)'
  BY <1>8 DEF UnsetErrctx, KinitStep, Stands
<1>9. ASSUME WipePassword(t), KinitStep(t), Stands(t) PROVE Stands(t)'
  BY <1>9 DEF WipePassword, KinitStep, Stands
<1>10. ASSUME WipePasswordEnds(t), KinitStep(t), Stands(t) PROVE Stands(t)'
  BY <1>10 DEF WipePasswordEnds, KinitStep, Stands
<1>11. ASSUME LibraryFails(t), Stands(t) PROVE Stands(t)'
  BY <1>11 DEF LibraryFails, Stands, k5_begin_fails, k5_kinit_fails
<1>12. ASSUME execute_kinit_in_domain_joined_case(t), Stands(t) PROVE Stands(t)'
  BY <1>12, OutCacheFits DEF execute_kinit_in_domain_joined_case, Stands
<1>13. ASSUME get_machine_principal_fails(t), Stands(t) PROVE Stands(t)'
  BY <1>13 DEF get_machine_principal_fails, Stands
<1>14. CASE Return(t)
  BY <1>14 DEF Return
<1>15. CASE BeginStep(t)
  <2>1. PICK u \in User, p \in Password \cup {NoPass}, code \in {0, -1},
             next \in {"copy", "keytab", "returned"} :
               /\ Begin(t, u, p, code, next)
               /\ next = "keytab" => u = Machine /\ p = Machine
               /\ next = "returned" => code = -1
    BY <1>15 DEF BeginStep
  <2> QED
    BY <2>1 DEF Begin, Stands
<1> QED
  BY <1>0, <1>1, <1>2, <1>3, <1>4, <1>5, <1>6, <1>7, <1>8, <1>9, <1>10, <1>11, <1>12, <1>13, <1>14, <1>15
  DEF HostStep, KinitStep, my_kinit_main

\* A step keeps the invariant.
LEMMA HostStep_Inv == HostInv /\ HostNext => HostInv'
<1> SUFFICES ASSUME HostInv, HostNext
             PROVE  HostInv'
  OBVIOUS
<1>1. PICK t \in Thread : BeginStep(t) \/ HostStep(t)
  BY StepOf DEF HostInv
<1>2. HostTypeOK' /\ UdataHeld' /\ ContextOpen' /\ ErrctxIsOpen' /\ CallShape'
  BY <1>1, Step_Type, Step_Udata, Step_Context, Step_Shape
<1>3. CallAlone'
  BY <1>1, Step_Others, Step_Stands DEF CallAlone
<1> QED
  BY <1>2, <1>3 DEF HostInv

\* Nothing changes in a stuttering step.
LEMMA HostStutter_Inv == HostInv /\ UNCHANGED hostKinitVars => HostInv'
  BY DEF HostInv, HostTypeOK, KinitTypeOK, UdataHeld, Holds, ContextOpen, ErrctxIsOpen, CallShape,
         CallAlone, Stands, hostKinitVars, kinitVars, hostVars

\* The account of the calls of my_kinit_main and of the kinit command holds in
\* every state.
THEOREM HostInvariant == HostSpec => []HostInv
<1>1. HostInv /\ [HostNext]_hostKinitVars => HostInv'
  BY HostStep_Inv, HostStutter_Inv
<1> QED
  BY HostInit_Inv, <1>1, PTL DEF HostSpec

\* The frames of the threads, the globals they share and the caches stay well
\* formed, however the calls overlap (HostTypeOK).
THEOREM HostTypes == HostSpec => []HostTypeOK
<1>1. HostInv => HostTypeOK
  BY DEF HostInv
<1> QED
  BY HostInvariant, <1>1, PTL

\* However the copies and wipes of udata interleave, no password is left in it
\* once every thread is out of my_kinit_main (PasswordWiped).
THEOREM NoPasswordLeft == HostSpec => []PasswordWiped
<1>1. HostInv => PasswordWiped
  BY DEF HostInv, UdataHeld, Holds, PasswordWiped
<1> QED
  BY HostInvariant, <1>1, PTL

\* errctx never points to a freed context, but in the two steps of k5_end.
THEOREM NoDeadErrctx == HostSpec => []ErrctxIsOpen
<1>1. HostInv => ErrctxIsOpen
  BY DEF HostInv
<1> QED
  BY HostInvariant, <1>1, PTL

\* A call that no other overlaps gets the ticket of its own user, and ldapsearch
\* binds with it.
THEOREM ServedAlone == HostSpec => []AloneIsServed
<1>1. HostInv => AloneIsServed
  BY DEF HostInv, CallAlone, Stands, AloneIsServed
<1> QED
  BY HostInvariant, <1>1, PTL

\* In a collection only overlapping calls replace the ticket of another principal.
THEOREM CachesKept == HostSpec => InitializedCacheKept
<1> DEFINE Kept == \A c \in Cache :
                     deftype # "FILE" /\ cache[c] # NoUser /\ cache'[c] # cache[c]
                       => \E t \in Thread : kpc[t] = "kdc" /\ kpc'[t] = "switch" /\ ~alone[t]
<1>1. HostInv /\ HostNext => Kept
  <2> SUFFICES ASSUME HostInv, HostNext, NEW c \in Cache,
                      deftype # "FILE", cache[c] # NoUser, cache'[c] # cache[c]
               PROVE  \E t \in Thread : kpc[t] = "kdc" /\ kpc'[t] = "switch" /\ ~alone[t]
    OBVIOUS
  <2> USE DEF HostInv, HostTypeOK, KinitTypeOK, At
  <2>1. PICK t \in Thread : BeginStep(t) \/ HostStep(t)
    BY StepOf
  <2>2. GetInitCreds(t) \/ execute_kinit_in_domain_joined_case(t)
    BY <2>1
    DEF BeginStep, Begin, HostStep, KinitStep, my_kinit_main, LibraryFails,
        get_machine_principal_fails, Return, CopyPassword, CopyPasswordEnds, k5_begin,
        PasswordIncorrect, SwitchCache, FreeContext, UnsetErrctx, WipePassword,
        WipePasswordEnds, k5_begin_fails, k5_kinit_fails
  <2>3. ~execute_kinit_in_domain_joined_case(t)
    <3> SUFFICES ASSUME execute_kinit_in_domain_joined_case(t)
                 PROVE  FALSE
      OBVIOUS
    <3>1. PICK d \in OutCache(t) : cache' = [cache EXCEPT ![d] = Machine]
      BY DEF execute_kinit_in_domain_joined_case
    <3>2. d = c /\ cache'[c] = Machine /\ user[t] = Machine
      BY <3>1, OutCacheFits DEF execute_kinit_in_domain_joined_case, CallShape
    <3> QED
      BY <3>2, OutCacheFits
  <2>4. kpc[t] = "kdc" /\ kpc'[t] = "switch" /\ c = out[t] /\ cache'[c] = user[t]
    BY <2>2, <2>3 DEF GetInitCreds, CallShape
  <2>5. ~alone[t]
    BY <2>4 DEF CallAlone, Stands
  <2> QED
    BY <2>4, <2>5
<1>2. HostInv /\ [HostNext]_hostKinitVars => [Kept]_hostKinitVars
  BY <1>1
<1> QED
  BY HostInvariant, <1>2, PTL DEF HostSpec, InitializedCacheKept

=============================================================================
