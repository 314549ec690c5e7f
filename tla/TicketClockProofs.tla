------------------------- MODULE TicketClockProofs -------------------------
(***************************************************************************)
(* For every interval, lifetime, threshold, offset of mktime and number of *)
(* failed rounds in a row: for how long a ticket may have run out, and how *)
(* wide the margin must be for it never to.                                *)
(***************************************************************************)
EXTENDS TicketClock, TLAPS

\* One more failed round costs one more gap.
LEMMA GapStep ==
    ASSUME NEW n \in Nat, NEW g \in Nat
    PROVE  (n + 1) * g = n * g + g
  BY SMT

\* No more rounds fail than MaxFails, so no more gaps are lost.
LEMMA GapBound ==
    ASSUME NEW n \in Nat, NEW m \in Nat, NEW g \in Nat, n <= m
    PROVE  n * g <= m * g
  <1>1. PICK k \in Nat : m = n + k
    <2>1. m - n \in Nat /\ m = n + (m - n)
      OBVIOUS
    <2> QED BY <2>1
  <1>2. m * g = n * g + k * g
    BY <1>1, SMT
  <1>3. k * g \in Nat /\ n * g \in Nat
    BY SMT
  <1> QED BY <1>2, <1>3

\* ClockInv holds in every state in which klist prints a date: the invariant of
\* the round arithmetic of renewal.cpp and is_ticket_ready_for_renewal, whichever
\* way mktime errs.
THEOREM ClockInvariant ==
    ASSUME "noDate" \notin Klist
    PROVE  ClockSpec => []ClockInv
  <1>a. /\ Interval \in Nat /\ Slack \in Nat /\ Threshold \in Nat /\ Lifetime \in Nat
        /\ Skews \subseteq Int /\ MaxFails \in Nat
    BY ClockAssumption
  <1> USE <1>a
  <1>g. Gap \in Nat
    BY DEF Gap
  <1>m. Lifetime \in AtLook /\ AtLook \subseteq Int
    BY DEF AtLook
  <1>1. ClockInit => ClockInv
    <2> SUFFICES ASSUME ClockInit PROVE ClockInv
      OBVIOUS
    <2>1. ClockTypeOK /\ since <= Gap
      BY <1>g DEF ClockInit, ClockTypeOK
    <2>2. left + since >= Lifetime - fails * Gap
      <3>1. fails * Gap = 0
        BY <1>g DEF ClockInit
      <3> QED BY <3>1 DEF ClockInit
    <2> QED BY <2>1, <2>2, <1>m DEF ClockInv
  <1>2. ClockInv /\ [ClockNext]_clockVars => ClockInv'
    <2> SUFFICES ASSUME ClockInv, [ClockNext]_clockVars PROVE ClockInv'
      OBVIOUS
    <2> USE <1>g
    <2>t. left \in Int /\ since \in Nat /\ fails \in Nat /\ fails <= MaxFails /\ since <= Gap
      BY DEF ClockInv, ClockTypeOK
    <2>p. fails * Gap \in Nat
      BY <2>t
    <2>w. PICK w \in AtLook : left + since >= w - fails * Gap
      BY DEF ClockInv
    <2>i. w \in Int
      BY <1>m
    <2>1. CASE Tick
      <3>1. left' = left - 1 /\ since' = since + 1 /\ fails' = fails /\ since < Gap
        BY <2>1 DEF Tick, Gap
      <3>2. left' + since' >= w - fails' * Gap
        BY <3>1, <2>t, <2>p, <2>w, <2>i
      <3>3. ClockTypeOK' /\ since' <= Gap
        BY <3>1, <2>t DEF ClockTypeOK
      <3> QED BY <3>2, <3>3 DEF ClockInv
    <2>2. ASSUME NEW k \in Klist, NEW d \in Skews, RoundNotDue(k, d) PROVE ClockInv'
      <3>1. left' = left /\ since' = 0 /\ fails' = fails /\ ~Ready(k, d) /\ d \in Int
        BY <2>2 DEF RoundNotDue
      <3>2. k = "fullYear"
        BY <3>1, ClockAssumption DEF Form, Ready
      <3>3. Threshold - d + 1 \in AtLook
        BY DEF AtLook
      <3>4. left' + since' >= (Threshold - d + 1) - fails' * Gap
        BY <3>1, <3>2, <2>t, <2>p DEF Ready
      <3>5. ClockTypeOK' /\ since' <= Gap
        BY <3>1, <2>t DEF ClockTypeOK
      <3> QED BY <3>3, <3>4, <3>5 DEF ClockInv
    <2>3. ASSUME NEW k \in Klist, NEW d \in Skews, RoundRenews(k, d) PROVE ClockInv'
      <3>1. left' = Lifetime /\ since' = 0 /\ fails' = 0
        BY <2>3 DEF RoundRenews
      <3>2. left' + since' >= Lifetime - fails' * Gap
        BY <3>1
      <3>3. ClockTypeOK' /\ since' <= Gap
        BY <3>1 DEF ClockTypeOK
      <3> QED BY <3>2, <3>3, <1>m DEF ClockInv
    <2>4. ASSUME NEW k \in Klist, NEW d \in Skews, RoundFails(k, d) PROVE ClockInv'
      <3>1. left' = left /\ since' = 0 /\ fails' = fails + 1 /\ fails < MaxFails
        BY <2>4 DEF RoundFails
      <3>2. (fails + 1) * Gap = fails * Gap + Gap
        BY <2>t, GapStep
      <3>3. left' + since' >= w - fails' * Gap
        BY <3>1, <3>2, <2>t, <2>p, <2>w, <2>i
      <3>4. ClockTypeOK' /\ since' <= Gap
        BY <3>1, <2>t DEF ClockTypeOK
      <3> QED BY <3>3, <3>4 DEF ClockInv
    <2>5. CASE UNCHANGED clockVars
      BY <2>5 DEF ClockInv, ClockTypeOK, clockVars
    <2> QED BY <2>1, <2>2, <2>3, <2>4, <2>5 DEF ClockNext
  <1> QED BY <1>1, <1>2, PTL DEF ClockSpec

\* What ClockInv says of the time since the last look, whichever it is.
LEMMA LookBounds ==
    ASSUME ClockInv
    PROVE  \E m \in AtLook : left >= m - (MaxFails + 1) * Gap
  <1>a. /\ Interval \in Nat /\ Slack \in Nat /\ Threshold \in Nat /\ Lifetime \in Nat
        /\ Skews \subseteq Int /\ MaxFails \in Nat
    BY ClockAssumption
  <1> USE <1>a
  <1>1. Gap \in Nat /\ left \in Int /\ since \in Nat /\ fails \in Nat /\ since <= Gap
        /\ fails <= MaxFails
    BY DEF ClockInv, ClockTypeOK, Gap
  <1>2. PICK m \in AtLook : left + since >= m - fails * Gap
    BY DEF ClockInv
  <1>3. m \in Int
    BY DEF AtLook
  <1>4. (fails + 1) * Gap <= (MaxFails + 1) * Gap
    <2>1. fails + 1 \in Nat /\ MaxFails + 1 \in Nat /\ fails + 1 <= MaxFails + 1
      BY <1>1
    <2> QED BY <2>1, <1>1, GapBound
  <1>5. (fails + 1) * Gap = fails * Gap + Gap
    BY <1>1, GapStep
  <1>6. fails * Gap \in Nat /\ (MaxFails + 1) * Gap \in Nat
    BY <1>1
  <1>7. left >= m - (MaxFails + 1) * Gap
    BY <1>1, <1>2, <1>3, <1>4, <1>5, <1>6
  <1> QED BY <1>7

\* A ticket for which klist prints a date is never expired for longer than the
\* offset of mktime and the rounds that failed explain (ExpiredBriefly), for every
\* set of offsets, the late ones of summer time included.
THEOREM OutageIsBounded ==
    ASSUME "noDate" \notin Klist
    PROVE  ClockSpec => []ExpiredBriefly
  <1>1. ClockInv => ExpiredBriefly
    BY LookBounds DEF ExpiredBriefly
  <1>2. ClockSpec => []ClockInv
    BY ClockInvariant
  <1> QED BY <1>1, <1>2, PTL

\* Where the margin left by every offset is wider than MaxFails + 1 gaps the ticket
\* does not expire at all: what tm_isdst = -1 would give the code's own constants.
COROLLARY TicketNeverExpires ==
    ASSUME "noDate" \notin Klist, WideMargin
    PROVE  ClockSpec => []NeverExpires
  <1>1. ClockInv => NeverExpires
    <2> SUFFICES ASSUME ClockInv PROVE left > 0
      BY DEF NeverExpires
    <2>1. PICK m \in AtLook : left >= m - (MaxFails + 1) * Gap
      BY LookBounds
    <2>2. m > (MaxFails + 1) * Gap
      BY DEF WideMargin
    <2>3. MaxFails \in Nat /\ Gap \in Nat /\ m \in Int /\ left \in Int
      BY ClockAssumption DEF AtLook, ClockInv, ClockTypeOK, Gap
    <2>4. (MaxFails + 1) * Gap \in Nat
      BY <2>3
    <2> QED BY <2>1, <2>2, <2>3, <2>4
  <1>2. ClockSpec => []ClockInv
    BY ClockInvariant
  <1> QED BY <1>1, <1>2, PTL

=============================================================================
