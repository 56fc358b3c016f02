---------------------------- MODULE MCProcessor ----------------------------
(* Constants for the model checking of Processor.                          *)
EXTENDS Processor, TLC

CONSTANTS w1, w2, p1

TwoProcessors == {w1, w2}
OneProject == {p1}

Always == {Projects}
Sometimes == SUBSET Projects
None == {}
AnyOrder == [p \in Projects |-> 0]
TwoServices == {"compute", "image"}

(* No two sums of these prices are the same.                               *)
Prices == [t \in Periods |-> 2 ^ t]
DayPrices == [t \in Periods |-> 100]
=============================================================================
