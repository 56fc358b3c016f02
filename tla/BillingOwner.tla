---------------------------- MODULE BillingOwner ----------------------------
(***************************************************************************)
(* Who pays for a project is kept twice: as the assignment of the          *)
(* billing_owner role in keystone, which the processor asks for the payer, *)
(* and as the project's user_id in shadowfiend's database, a Ledger.  The  *)
(* keystone middleware (middleware/mid_keystone.py) keeps the two in step: *)
(* each thread of keystone serves one request, calling shadowfiend's       *)
(* noauth API before or after keystone itself.                             *)
(*                                                                         *)
(* enable_billing is on.  Keystone's own work is one step; a call of       *)
(* shadowfiend is served, refused, lost, or served after the answer was    *)
(* given up (the RPC time-out of the API).                                 *)
(***************************************************************************)
EXTENDS Integers

CONSTANTS
  Users,        \* users of keystone, present and future
  Projects,     \* projects of keystone, present and future
  Threads,      \* threads of keystone that run the middleware
  NoUser,       \* no user
  NoRow,        \* no row in shadowfiend's database
  NoRequest,    \* the thread serves no request
  Admin,        \* billing_admin_user_id, or NoUser when not configured
  Level,        \* initial_level
  Bonus,        \* initial_balance
  First,        \* First[p]: the billing owner p starts with, or NoUser
  Registered,   \* users that exist at the start, with accounts
  Requests,     \* the requests that may come in
  MaxRequests,  \* bound on their number
  MaxFaults     \* bound on failed calls

Owners == Users \cup {NoUser}

AccountRow == [balance : Int, level : 0 .. 9, owed : BOOLEAN]
ProjectRow == [user_id : Owners, consumption : Int]

ProjectRequests ==
  [op : {"put_role", "delete_role", "put_owner"}, user : Users,
   project : Projects]
    \cup [op : {"post_project", "delete_project"}, project : Projects]
UserRequests == [op : {"post_user", "delete_user"}, user : Users]

ASSUME BillingOwnerAssumption ==
  /\ NoUser \notin Users
  /\ NoRow \notin Int \cup AccountRow \cup ProjectRow
  /\ Admin \in Owners
  /\ Level \in 0 .. 9
  /\ Bonus \in Nat
  /\ First \in [Projects -> Registered \cup {NoUser}]
  /\ Registered \subseteq Users
  /\ Requests \subseteq ProjectRequests \cup UserRequests
  /\ NoRequest \notin ProjectRequests \cup UserRequests
  /\ MaxRequests \in Nat
  /\ MaxFaults \in Nat

VARIABLES
  users,      \* the users keystone knows
  tenants,    \* the projects keystone knows
  spent,      \* the ids keystone has given to a user or to a project
  holders,    \* who has the billing_owner role on each project
  accounts, projects, relations,   \* shadowfiend's database, see Ledger
  req,        \* the request each thread serves
  pc,         \* the call it makes next
  todo,       \* assignments add_role has listed and not yet removed
  late,       \* calls given up by their caller that may still be served
  faults,     \* number of failed calls (bounds the model)
  requests,   \* number of requests (bounds the model)
  alone,      \* history: nothing else has touched the thread's project
  agreed,     \* history: projects whose two owners agreed, undisturbed since
  settled     \* history: who was made owner by the last request, or NoUser

keystone == <<users, tenants, spent, holders>>
shadowfiend == <<accounts, projects, relations>>
threads == <<req, pc, todo>>
history == <<alone, agreed, settled>>
vars == <<keystone, shadowfiend, threads, late, faults, requests, history>>

(* The calls the middleware and the API make of shadowfiend.               *)
NewAccount(u) == [op |-> "create_account", user |-> u, level |-> Level]
Welcome(u) == [op |-> "charge_account", user |-> u, amount |-> Bonus]
NewProject(p) == [op |-> "create_project", user |-> Admin, project |-> p]
NewOwner(u, p) == [op |-> "change_billing_owner", user |-> u, project |-> p]

Calls == {NewAccount(u) : u \in Users} \cup {Welcome(u) : u \in Users}
           \cup {NewProject(p) : p \in Projects}
           \cup {NewOwner(u, p) : u \in Users, p \in Projects}

(* What the requests before the first one have left in the database.       *)
Accounts0 ==
  [u \in Users |-> IF u \in Registered
                   THEN [balance |-> Bonus, level |-> Level, owed |-> FALSE]
                   ELSE NoRow]
Projects0 ==
  [p \in Projects |-> IF First[p] # NoUser
                      THEN [user_id |-> First[p], consumption |-> 0]
                      ELSE NoRow]
Relations0 ==
  [r \in Owners \X Projects |->
     IF First[r[2]] # NoUser /\ r[1] = First[r[2]] THEN 0 ELSE NoRow]

Store == INSTANCE Ledger WITH Requests <- Calls

Init ==
  /\ users = Registered
  /\ tenants = {p \in Projects : First[p] # NoUser}
  /\ spent = users \cup tenants
  /\ holders = [p \in Projects |-> {First[p]} \ {NoUser}]
  /\ Store!Init
  /\ req = [t \in Threads |-> NoRequest]
  /\ pc = [t \in Threads |-> "idle"]
  /\ todo = [t \in Threads |-> {}]
  /\ late = {}
  /\ faults = 0
  /\ requests = 0
  /\ alone = [t \in Threads |-> FALSE]
  /\ agreed = {p \in Projects : First[p] # NoUser}
  /\ settled = First

-----------------------------------------------------------------------------
(* Who is at work on a project, and the history of it.                     *)

At(t, p) == req[t] \in ProjectRequests /\ req[t].project = p
Pending(p) == \E c \in late : c.op \in {"create_project",
                                        "change_billing_owner"}
                              /\ c.project = p
Quiet(p) == ~Pending(p) /\ \A t \in Threads : ~At(t, p)

(* Something that no thread serves changes the owners of these projects.   *)
Interfere(some) ==
  /\ alone' = [t \in Threads |-> alone[t] /\ \A p \in some : ~At(t, p)]
  /\ agreed' = agreed \ some
  /\ settled' = [p \in Projects |-> IF p \in some THEN NoUser ELSE settled[p]]

(* A thread takes up a request on project p.                               *)
Enter(t, p) ==
  /\ alone' = [x \in Threads |-> IF x = t THEN Quiet(p)
                                 ELSE alone[x] /\ ~At(x, p)]
  /\ agreed' = IF Quiet(p) THEN agreed ELSE agreed \ {p}
  /\ settled' = [settled EXCEPT ![p] = NoUser]

Accept(r) ==
  /\ r \in Requests
  /\ requests < MaxRequests
  /\ requests' = requests + 1

Take(t, r, first) ==
  /\ pc[t] = "idle"
  /\ Accept(r)
  /\ req' = [req EXCEPT ![t] = r]
  /\ pc' = [pc EXCEPT ![t] = first]
  /\ UNCHANGED <<shadowfiend, todo, late, faults>>

Continue(t, next) ==
  /\ pc' = [pc EXCEPT ![t] = next]
  /\ UNCHANGED <<req, todo>>

(* Mutant: the thread is free, but its request is not forgotten.           *)
Leave(t) ==
  /\ pc' = [pc EXCEPT ![t] = "idle"]
  /\ todo' = [todo EXCEPT ![t] = {}]
  /\ UNCHANGED req

(* The request is answered with whatever went wrong, or need not be told.  *)
Finish(t) ==
  /\ pc' = [pc EXCEPT ![t] = "idle"]
  /\ req' = [req EXCEPT ![t] = NoRequest]
  /\ todo' = [todo EXCEPT ![t] = {}]

Fault ==
  /\ faults < MaxFaults
  /\ faults' = faults + 1

-----------------------------------------------------------------------------
(* Calls of shadowfiend.                                                   *)

Accepts(c) ==
  \/ c.op = "create_account" /\ accounts[c.user] = NoRow
  \/ c.op = "charge_account" /\ accounts[c.user] # NoRow
  \/ c.op = "create_project" /\ projects[c.project] = NoRow
                             /\ relations[<<c.user, c.project>>] = NoRow
  \/ c.op = "change_billing_owner" /\ accounts[c.user] # NoRow
                                   /\ projects[c.project] # NoRow

Perform(c) ==
  \/ Accepts(c) /\ Store!Accept(c)
  \/ ~Accepts(c) /\ UNCHANGED shadowfiend

(* An exception of the client ends the request.                            *)
Invoke(t, c, next) ==
  /\ \/ /\ Accepts(c)
        /\ Store!Accept(c)
        /\ Continue(t, next)
        /\ UNCHANGED <<late, faults>>
     \/ /\ ~Accepts(c)
        /\ Finish(t)
        /\ UNCHANGED <<shadowfiend, late, faults>>
     \/ /\ Fault
        /\ Finish(t)
        /\ late' \in {late, late \cup {c}}
        /\ UNCHANGED shadowfiend
  /\ UNCHANGED <<keystone, requests, history>>

(* A call whose caller has given up is served after all, or never.         *)
ServeLate(c) ==
  /\ late' = late \ {c}
  /\ Perform(c)
  /\ Interfere({p \in Projects : c \in {NewProject(p)}
                                   \cup {NewOwner(u, p) : u \in Users}})
  /\ UNCHANGED <<keystone, threads, faults, requests>>

LoseLate(c) ==
  /\ late' = late \ {c}
  /\ UNCHANGED <<keystone, shadowfiend, threads, faults, requests, history>>

-----------------------------------------------------------------------------
(* POST /users: keystone creates the user, then shadowfiend his account,   *)
(* which is charged the initial balance.                                   *)
PostUser(t, u) ==
  /\ u \notin spent
  /\ Take(t, [op |-> "post_user", user |-> u], "account")
  /\ users' = users \cup {u}
  /\ spent' = spent \cup {u}
  /\ UNCHANGED <<tenants, holders, history>>

CreateAccount(t) ==
  /\ pc[t] = "account"
  /\ Invoke(t, NewAccount(req[t].user), "bonus")

ChargeBonus(t) ==
  /\ pc[t] = "bonus"
  /\ Invoke(t, Welcome(req[t].user), "done")

(* POST /projects: the project is the billing admin's to begin with, who   *)
(* is not given the role.                                                  *)
PostProject(t, p) ==
  /\ p \notin spent
  /\ Take(t, [op |-> "post_project", project |-> p], "project")
  /\ tenants' = tenants \cup {p}
  /\ spent' = spent \cup {p}
  /\ Enter(t, p)
  /\ UNCHANGED <<users, holders>>

CreateProject(t) ==
  /\ pc[t] = "project"
  /\ Invoke(t, NewProject(req[t].project), "done")

(* PUT of the role: keystone assigns it, shadowfiend's owner follows, and  *)
(* all other assignments are taken back.                                   *)
PutRole(t, u, p) ==
  /\ u \in users /\ p \in tenants
  /\ Take(t, [op |-> "put_role", user |-> u, project |-> p], "owner")
  /\ holders' = [holders EXCEPT ![p] = @ \cup {u}]
  /\ Enter(t, p)
  /\ UNCHANGED <<users, tenants, spent>>

ChangeOwner(t) ==
  /\ pc[t] = "owner"
  /\ Invoke(t, NewOwner(req[t].user, req[t].project), "list")

(* Mutant: one other assignment is all there can be.                       *)
ListOne(t) ==
  /\ pc[t] = "list"
  /\ \E v \in holders[req[t].project] :
       todo' = [todo EXCEPT ![t] = {v} \ {req[t].user}]
  /\ pc' = [pc EXCEPT ![t] = "remove"]
  /\ UNCHANGED <<keystone, shadowfiend, req, late, faults, requests, history>>

ListAssignments(t) ==
  /\ pc[t] = "list"
  /\ todo' = [todo EXCEPT ![t] = holders[req[t].project] \ {req[t].user}]
  /\ pc' = [pc EXCEPT ![t] = "remove"]
  /\ UNCHANGED <<keystone, shadowfiend, req, late, faults, requests, history>>

(* An assignment that is gone already is an exception like any other.      *)
RemoveRole(t) ==
  LET p == req[t].project IN
  /\ pc[t] = "remove"
  /\ \E v \in todo[t] :
       \/ /\ v \in holders[p]
          /\ holders' = [holders EXCEPT ![p] = @ \ {v}]
          /\ todo' = [todo EXCEPT ![t] = @ \ {v}]
          /\ UNCHANGED <<req, pc>>
       \/ /\ v \notin holders[p]
          /\ Finish(t)
          /\ UNCHANGED holders
  /\ UNCHANGED <<users, tenants, spent, shadowfiend, late, faults, requests, history>>

(* DELETE of the role: refused to the owner shadowfiend names.             *)
DeleteRole(t, u, p) ==
  /\ p \in tenants
  /\ Take(t, [op |-> "delete_role", user |-> u, project |-> p], "check")
  /\ Enter(t, p)
  /\ UNCHANGED keystone

(* Mutant: nobody is refused.                                              *)
IsOther(t) == projects[req[t].project] # NoRow
IsOtherThanOwner(t) ==
  /\ projects[req[t].project] # NoRow
  /\ projects[req[t].project].user_id # req[t].user

CheckOwner(t) ==
  /\ pc[t] = "check"
  /\ \/ IsOtherThanOwner(t) /\ Continue(t, "unassign")
     \/ ~IsOtherThanOwner(t) /\ Finish(t)
  /\ UNCHANGED <<keystone, shadowfiend, late, faults, requests, history>>

Unassign(t) ==
  /\ pc[t] = "unassign"
  /\ holders' = [holders EXCEPT ![req[t].project] = @ \ {req[t].user}]
  /\ Finish(t)
  /\ UNCHANGED <<users, tenants, spent, shadowfiend, late, faults, requests, history>>

(* The answer is success.                                                  *)
Answer(t) ==
  /\ pc[t] = "done" \/ (pc[t] = "remove" /\ todo[t] = {})
  /\ Finish(t)
  /\ LET r == req[t]
         agree == r.op = "put_role" /\ alone[t]
     IN /\ agreed' = IF agree THEN agreed \cup {r.project} ELSE agreed
        /\ settled' = IF agree THEN [settled EXCEPT ![r.project] = r.user]
                      ELSE settled
  /\ UNCHANGED <<keystone, shadowfiend, late, faults, requests, alone>>

(* A call of keystone or shadowfiend raises, or keystone dies.             *)
Fail(t) ==
  /\ pc[t] \in {"list", "remove", "check", "unassign"}
  /\ Fault
  /\ Finish(t)
  /\ UNCHANGED <<keystone, shadowfiend, late, requests, history>>

-----------------------------------------------------------------------------
(* What the middleware lets through or never sees.                         *)

(* DELETE of a user or of a project goes to keystone alone, which drops    *)
(* the assignments with it.                                                *)
DeleteUser(u) ==
  /\ u \in users
  /\ Accept([op |-> "delete_user", user |-> u])
  /\ users' = users \ {u}
  /\ holders' = [p \in Projects |-> holders[p] \ {u}]
  /\ Interfere(Projects)
  /\ UNCHANGED <<tenants, spent, shadowfiend, threads, late, faults>>

DeleteProject(p) ==
  /\ p \in tenants
  /\ Accept([op |-> "delete_project", project |-> p])
  /\ tenants' = tenants \ {p}
  /\ holders' = [holders EXCEPT ![p] = {}]
  /\ Interfere({p})
  /\ UNCHANGED <<users, spent, shadowfiend, threads, late, faults>>

(* PUT /v1/projects/{id}/billing_owner goes to shadowfiend alone.          *)
PutOwner(u, p) ==
  /\ Accept([op |-> "put_owner", user |-> u, project |-> p])
  /\ Accepts(NewOwner(u, p))
  /\ Store!Accept(NewOwner(u, p))
  /\ Interfere({p})
  /\ UNCHANGED <<keystone, threads, late, faults>>

Serve(t) ==
  \/ CreateAccount(t) \/ ChargeBonus(t) \/ CreateProject(t)
  \/ ChangeOwner(t) \/ ListAssignments(t) \/ RemoveRole(t)
  \/ CheckOwner(t) \/ Unassign(t) \/ Answer(t)

Next ==
  \/ \E t \in Threads :
       \/ \E u \in Users : PostUser(t, u)
       \/ \E p \in Projects : PostProject(t, p)
       \/ \E u \in Users, p \in Projects : PutRole(t, u, p)
       \/ \E u \in Users, p \in Projects : DeleteRole(t, u, p)
       \/ Serve(t) \/ Fail(t)
  \/ \E c \in late : ServeLate(c) \/ LoseLate(c)
  \/ \E u \in Users : DeleteUser(u)
  \/ \E p \in Projects : DeleteProject(p)
  \/ \E u \in Users, p \in Projects : PutOwner(u, p)

Spec == Init /\ [][Next]_vars
-----------------------------------------------------------------------------
Working == {"account", "bonus", "project", "owner", "list", "remove", "check",
            "unassign", "done"}

(* Every variable has its type, and a thread's request fits its next call. *)
TypeOK ==
  /\ users \subseteq Users
  /\ tenants \subseteq Projects
  /\ spent \subseteq Users \cup Projects
  /\ holders \in [Projects -> SUBSET Users]
  /\ accounts \in [Users -> AccountRow \cup {NoRow}]
  /\ projects \in [Projects -> ProjectRow \cup {NoRow}]
  /\ relations \in [Owners \X Projects -> Int \cup {NoRow}]
  /\ req \in [Threads -> Requests \cup {NoRequest}]
  /\ pc \in [Threads -> {"idle"} \cup Working]
  /\ \A t \in Threads :
       /\ pc[t] = "idle" <=> req[t] = NoRequest
       /\ pc[t] \in {"account", "bonus"} => req[t].op = "post_user"
       /\ pc[t] = "project" => req[t].op = "post_project"
       /\ pc[t] \in {"owner", "list", "remove"} => req[t].op = "put_role"
       /\ pc[t] \in {"check", "unassign"} => req[t].op = "delete_role"
       /\ pc[t] = "done" => req[t].op \in {"post_user", "post_project"}
  /\ todo \in [Threads -> SUBSET Users]
  /\ late \subseteq Calls
  /\ faults \in 0 .. MaxFaults
  /\ requests \in 0 .. MaxRequests
  /\ alone \in [Threads -> BOOLEAN]
  /\ agreed \subseteq Projects
  /\ settled \in [Projects -> Owners]

(* A PUT of the role that succeeds, nothing else having touched the        *)
(* project meanwhile, leaves one owner in both places, who can be billed,  *)
(* whatever mess it found there.                                           *)
SettledIsBilled ==
  \A p \in Projects : settled[p] # NoUser =>
    /\ holders[p] = {settled[p]}
    /\ projects[p] # NoRow /\ projects[p].user_id = settled[p]
    /\ accounts[settled[p]] # NoRow
    /\ relations[<<settled[p], p>>] # NoRow

(* As long as the requests on a project come one at a time, the owner in   *)
(* the database has the role in keystone, and so the project has somebody  *)
(* to bill: whichever of their calls fail, whoever they name.              *)
OwnerHoldsRole ==
  \A p \in agreed : projects[p] # NoRow /\ projects[p].user_id \in holders[p]

(* "The project must have a billing owner": a project that has had one     *)
(* keeps one.  False for two requests at once.                             *)
ProjectKeepsOwner ==
  \A p \in Projects : First[p] # NoUser /\ Quiet(p) => holders[p] # {}
=============================================================================
