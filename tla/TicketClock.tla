---------------------------- MODULE TicketClock ----------------------------
(***************************************************************************)
(* The timing of the renewal thread for one ticket: rounds start Interval  *)
(* after the end of the one before, take at most Slack, and renew a ticket *)
(* that klist shows to expire within RENEW_TICKET_HOURS. Time is in        *)
(* arbitrary units (a run uses 5 minutes).                                 *)
(*                                                                         *)
(* is_ticket_ready_for_renewal fills a struct tm with strptime, which      *)
(* leaves tm_isdst uninitialised, and gives it to mktime: what it computes *)
(* may be off by the daylight saving offset, in either direction. klist    *)
(* may print years with two digits, which "%Y" reads as the first century, *)
(* or nothing that is taken for the end of the ticket.                     *)
(***************************************************************************)
EXTENDS Integers

CONSTANTS
    Interval,      \* krb_ticket_handle_interval
    Slack,         \* the longest a round takes
    Threshold,     \* RENEW_TICKET_HOURS
    Lifetime,      \* what is left of a ticket just fetched
    Skews,         \* the errors mktime may add to the expiration time
    Klist,         \* the forms in which klist may print the ticket
    MaxFails       \* the most rounds that fail to renew the ticket in a row

\* get_ticket_expiration looks for a date with four digits and then with two. There
\* is none to look for when klist fails or prints no line "renew until".
Form == {"fullYear", "shortYear", "noDate"}

ASSUME ClockAssumption ==
    /\ Interval \in Nat \ {0}
    /\ Slack \in Nat
    /\ Threshold \in Nat
    /\ Lifetime \in Nat \ {0}
    /\ Skews \subseteq Int /\ Skews # {}
    /\ Klist \subseteq Form /\ Klist # {}
    /\ MaxFails \in Nat

VARIABLES
    left,    \* time left until the ticket expires, negative when it has
    since,   \* time since the last round looked at the ticket
    fails    \* rounds that tried to renew it since it was last fetched

clockVars == <<left, since, fails>>

ClockTypeOK ==
    /\ left \in Int
    /\ since \in Nat
    /\ fails \in 0 .. MaxFails

ClockInit ==
    /\ left = Lifetime
    /\ since = 0
    /\ fails = 0

Tick ==
    /\ since < Interval + Slack
    /\ left' = left - 1
    /\ since' = since + 1
    /\ UNCHANGED fails

\* Mutant: a ticket is due only when it has run out.
ReadyAtEnd(k, d) ==
    \/ k = "shortYear"
    \/ k = "fullYear" /\ left + d <= 0

\* hours <= RENEW_TICKET_HOURS, with the year of klist and the offset of mktime.
Ready(k, d) ==
    \/ k = "shortYear"
    \/ k = "fullYear" /\ left + d <= Threshold

RoundNotDue(k, d) ==
    /\ since >= Interval
    /\ ~Ready(k, d)
    /\ since' = 0
    /\ UNCHANGED <<left, fails>>

RoundRenews(k, d) ==
    /\ since >= Interval
    /\ Ready(k, d)
    /\ left' = Lifetime
    /\ since' = 0
    /\ fails' = 0

\* Mutant: a round passes over a ticket that is due, without trying.
RoundPassesOver(k, d) ==
    /\ since >= Interval
    /\ Ready(k, d)
    /\ since' = 0
    /\ UNCHANGED <<left, fails>>

\* The fetch fails, or it fails for want of a host ticket and the round ends
\* with a kinit for the next one. The ticket is left as it is.
RoundFails(k, d) ==
    /\ since >= Interval
    /\ Ready(k, d)
    /\ fails < MaxFails
    /\ fails' = fails + 1
    /\ since' = 0
    /\ UNCHANGED left

ClockNext ==
    \/ Tick
    \/ \E k \in Klist, d \in Skews : RoundNotDue(k, d) \/ RoundRenews(k, d) \/ RoundFails(k, d)

ClockSpec == ClockInit /\ [][ClockNext]_clockVars

-----------------------------------------------------------------------------
\* The longest time between two looks at the ticket.
Gap == Interval + Slack

\* What is left of a ticket just fetched, and the least that is left of one that
\* a round takes for not due, for each offset.
AtLook == {Lifetime} \cup {Threshold - d + 1 : d \in Skews}

\* A ticket runs out for a bounded time at most: whichever way mktime errs, less
\* than a gap for each failed round and the one that succeeds, counted from the
\* worst of the looks that left the ticket alone.
ExpiredBriefly == \E m \in AtLook : left >= m - (MaxFails + 1) * Gap

\* The strengthening that is inductive: what was left at the last look, or after
\* the last fetch, less one gap for each round that failed since.
ClockInv ==
    /\ ClockTypeOK
    /\ since <= Gap
    /\ \E m \in AtLook : left + since >= m - fails * Gap

\* "renew the ticket 1 hrs before the expiration" (constants.h): a ticket in use
\* never expires before the daemon replaces it. With the constants of the code it
\* does when mktime is an hour late; WideMargin is what keeps it from that.
NeverExpires == left > 0

\* The margin is wide enough for MaxFails failed rounds and one that succeeds.
WideMargin == \A m \in AtLook : m > (MaxFails + 1) * Gap

=============================================================================
