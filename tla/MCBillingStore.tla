--------------------------- MODULE MCBillingStore ---------------------------
(***************************************************************************)
(* Small instances of BillingStore: two users and one project.             *)
(***************************************************************************)
EXTENDS BillingStore

CONSTANTS A, B, P, S1, S2

MCUsers == {A, B}
MCProjects == {P}
TwoSessions == {S1, S2}
OneSession == {S1}

OpeningAccount(balance) ==
  [id |-> 1, balance |-> balance, consumption |-> 0, level |-> 3,
   owed |-> FALSE, owed_at |-> 0, updated_at |-> 0]

(* B has paid for P before, A pays for it now.                             *)
OpeningRow(k) ==
  CASE k \in AccountKeys -> OpeningAccount(1)
    [] k = Project(P) -> [id |-> 1, user_id |-> A, consumption |-> 3,
                          updated_at |-> 0]
    [] k = Relation(A, P) -> [id |-> 1, consumption |-> 1, updated_at |-> 0]
    [] k = Relation(B, P) -> [id |-> 1, consumption |-> 2, updated_at |-> 0]
    [] OTHER -> NoRow
MCOpening == [k \in Keys |-> OpeningRow(k)]

(* The same before B was given an account.                                 *)
OpeningWithoutB ==
  [MCOpening EXCEPT ![Account(B)] = NoRow, ![Relation(B, P)] = NoRow,
                    ![Project(P)].consumption = 1]

Bill(u, c) == [op |-> "update_account", user |-> u, project |-> P,
               amount |-> c]
Pay(u, v) == [op |-> "charge_account", user |-> u, amount |-> v]
SetLevel(u, l, caller) == [op |-> "change_account_level", user |-> u,
                           level |-> l, caller |-> caller]
GiveTo(u, caller) == [op |-> "change_billing_owner", user |-> u,
                      project |-> P, caller |-> caller]
Close(u) == [op |-> "delete_account", user |-> u]
Open(u) == [op |-> "create_account", user |-> u, level |-> 3]
OpenProject(u) == [op |-> "create_project", user |-> u, project |-> P]

(* Every entry point, for two sessions at once: no charge is below zero,   *)
(* and the level is changed by a caller whose UPDATE can never hit.        *)
AllRequests ==
  {Bill(A, 2), Bill(B, 1), Pay(A, 2), SetLevel(A, 9, B),
   GiveTo(B, NoUser), GiveTo(A, NoUser), Close(A), Open(A), OpenProject(A)}

(* Everything but delete_account, and charge_account only of nothing.      *)
ComparedRequests ==
  {Bill(A, 2), Bill(B, 1), Pay(A, 0), SetLevel(A, 9, NoUser), SetLevel(A, 0, A),
   GiveTo(B, NoUser), GiveTo(A, NoUser), GiveTo(A, A), Open(B),
   OpenProject(NoUser)}

(* No deadlock victim and no lost connection: what goes wrong is the code. *)
CalmSpec == Init /\ [][\E s \in Sessions :
                         Step(s) \/ \E c \in Requests : Receive(s, c)]_vars

(* One session charges an account, the other bills it, in the same calm.   *)
PayAndBill == {Bill(A, 2), Pay(A, 2)}
Serves(s) == IF s = S1 THEN "charge_account" ELSE "update_account"
PayBesideBillSpec ==
  Init /\ [][\E s \in Sessions :
               Step(s) \/ \E c \in Requests : c.op = Serves(s) /\ Receive(s, c)]_vars

GiveAndClose == {GiveTo(A, NoUser), GiveTo(B, NoUser), Close(A), Close(B)}
=============================================================================
