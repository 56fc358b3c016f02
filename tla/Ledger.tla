------------------------------- MODULE Ledger -------------------------------
(***************************************************************************)
(* What the billing database promises the conductor: accounts, projects    *)
(* and the relations between them, on which every accepted call takes      *)
(* effect at once and in full.  Nothing here knows of sessions, snapshots, *)
(* locks or retries; BillingStore is shown to implement it.                *)
(***************************************************************************)
EXTENDS Integers

CONSTANTS Users, Projects, NoUser, NoRow,
          Requests,               \* the calls that may be accepted
          Accounts0, Projects0, Relations0

VARIABLES
  accounts,    \* user -> balance, level and owed flag
  projects,    \* project -> payer and consumption
  relations    \* user, project -> consumption of that user on that project

lvars == <<accounts, projects, relations>>

Owners == Users \cup {NoUser}

Init ==
  /\ accounts = Accounts0
  /\ projects = Projects0
  /\ relations = Relations0

(* A bill is taken off the balance and added to both consumptions.  A      *)
(* balance below zero makes the account owed; only a charge ends that.     *)
UpdateAccount(c) ==
  LET balance == accounts[c.user].balance - c.amount
      r == <<c.user, c.project>>
  IN /\ c.op = "update_account"
     /\ accounts[c.user] # NoRow
     /\ projects[c.project] # NoRow
     /\ relations[r] # NoRow
     /\ accounts' = [accounts EXCEPT ![c.user].balance = balance,
                                     ![c.user].owed = @ \/ balance < 0]
     /\ projects' = [projects EXCEPT ![c.project].consumption = @ + c.amount]
     /\ relations' = [relations EXCEPT ![r] = @ + c.amount]

ChargeAccount(c) ==
  LET balance == accounts[c.user].balance + c.amount IN
  /\ c.op = "charge_account"
  /\ accounts[c.user] # NoRow
  /\ accounts' = [accounts EXCEPT ![c.user].balance = balance,
                                  ![c.user].owed = @ /\ balance < 0]
  /\ UNCHANGED <<projects, relations>>

ChangeLevel(c) ==
  /\ c.op = "change_account_level"
  /\ accounts[c.user] # NoRow
  /\ accounts' = [accounts EXCEPT ![c.user].level = c.level]
  /\ UNCHANGED <<projects, relations>>

(* The new payer has an account; what was consumed stays where it is.      *)
ChangeBillingOwner(c) ==
  LET r == <<c.user, c.project>> IN
  /\ c.op = "change_billing_owner"
  /\ accounts[c.user] # NoRow
  /\ projects[c.project] # NoRow
  /\ projects' = [projects EXCEPT ![c.project].user_id = c.user]
  /\ relations' = [relations EXCEPT ![r] = IF @ = NoRow THEN 0 ELSE @]
  /\ UNCHANGED accounts

(* The account goes with its relations and the projects it pays for.       *)
DeleteAccount(c) ==
  /\ c.op = "delete_account"
  /\ accounts[c.user] # NoRow
  /\ accounts' = [accounts EXCEPT ![c.user] = NoRow]
  /\ projects' = [p \in Projects |->
                    IF projects[p] # NoRow /\ projects[p].user_id = c.user
                    THEN NoRow ELSE projects[p]]
  /\ relations' = [r \in Owners \X Projects |->
                     IF r[1] = c.user THEN NoRow ELSE relations[r]]

CreateAccount(c) ==
  /\ c.op = "create_account"
  /\ accounts[c.user] = NoRow
  /\ accounts' = [accounts EXCEPT ![c.user] =
                    [balance |-> 0, level |-> c.level, owed |-> FALSE]]
  /\ UNCHANGED <<projects, relations>>

CreateProject(c) ==
  LET r == <<c.user, c.project>> IN
  /\ c.op = "create_project"
  /\ projects[c.project] = NoRow
  /\ relations[r] = NoRow
  /\ projects' = [projects EXCEPT ![c.project] =
                    [user_id |-> c.user, consumption |-> 0]]
  /\ relations' = [relations EXCEPT ![r] = 0]
  /\ UNCHANGED accounts

Accept(c) ==
  \/ UpdateAccount(c) \/ ChargeAccount(c) \/ ChangeLevel(c)
  \/ ChangeBillingOwner(c) \/ DeleteAccount(c)
  \/ CreateAccount(c) \/ CreateProject(c)

Next == \E c \in Requests : Accept(c)

Spec == Init /\ [][Next]_lvars
=============================================================================
