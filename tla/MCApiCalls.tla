----------------------------- MODULE MCApiCalls -----------------------------
(***************************************************************************)
(* Instance of ApiCalls: two places for calls of one client.  The first    *)
(* sees every operation, the second one takes accounts away meanwhile.     *)
(***************************************************************************)
EXTENDS ApiCalls

CONSTANTS u1, u2

MCUsers == {u1, u2}

Ask(op, user) == [op |-> op, user |-> user, valid |-> TRUE]

Every ==
  {Ask(op, u1) : op \in Ops} \cup
  {Ask("change_account_level", u2),
   [op |-> "change_account_level", user |-> u1, valid |-> FALSE]}

MCRequests ==
  [i \in Calls |-> IF i = 1 THEN Every ELSE {Ask("delete_account", u1)}]
=============================================================================
