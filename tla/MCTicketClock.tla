--------------------------- MODULE MCTicketClock ---------------------------
(***************************************************************************)
(* Instances of TicketClock for TLC, in units of 5 minutes: rounds every   *)
(* 10 to 15 minutes, a threshold of one hour, tickets of 2.5 hours.        *)
(***************************************************************************)
EXTENDS TicketClock

\* mktime takes the time as it is, an hour too early (tm_isdst > 0 in winter) or
\* an hour too late (tm_isdst = 0 in summer).
DaylightSkews == {-12, 0, 12}

=============================================================================
