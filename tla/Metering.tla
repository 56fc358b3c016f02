------------------------------ MODULE Metering ------------------------------
(***************************************************************************)
(* What the processor promises of a project's rated periods: a cursor runs *)
(* over them one by one, and it never passes a period that has not been    *)
(* booked.  A period may be booked again as long as it is not ahead of the *)
(* cursor's next one: at least once, in order, never in advance.           *)
(***************************************************************************)
EXTENDS Naturals

CONSTANTS Projects, Periods

VARIABLES
  cursor,   \* the last period done with, 0 before the first
  bills     \* how often each period has been booked

vars == <<cursor, bills>>

Init ==
  /\ cursor = [p \in Projects |-> 0]
  /\ bills = [p \in Projects |-> [t \in Periods |-> 0]]

(* The first period is anyone's choice.                                    *)
Bill(p, t) ==
  /\ cursor[p] = 0 \/ t <= cursor[p] + 1
  /\ bills' = [bills EXCEPT ![p][t] = @ + 1]
  /\ UNCHANGED cursor

Advance(p, t) ==
  /\ cursor[p] = 0 \/ t = cursor[p] + 1
  /\ bills[p][t] > 0
  /\ cursor' = [cursor EXCEPT ![p] = t]
  /\ UNCHANGED bills

Next == \E p \in Projects, t \in Periods : Bill(p, t) \/ Advance(p, t)

Spec == Init /\ [][Next]_vars
=============================================================================
