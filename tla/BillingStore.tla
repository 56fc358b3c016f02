---------------------------- MODULE BillingStore ----------------------------
(***************************************************************************)
(* The billing database of shadowfiend and the transactions that write it  *)
(* (shadowfiend/db/sqlalchemy/api.py): the entry points of the conductor   *)
(* run concurrently, each in a session of its own, over the account,       *)
(* project and usr_prj_relation tables.                                    *)
(*                                                                         *)
(* The store is MySQL InnoDB at REPEATABLE READ: a plain SELECT reads the  *)
(* snapshot taken at the transaction's first SELECT, an UPDATE, DELETE or  *)
(* INSERT reads the newest committed row and holds that row until the      *)
(* transaction ends.  One action is one SQL statement.                     *)
(***************************************************************************)
EXTENDS Integers, FiniteSetsExt

CONSTANTS
  Users,        \* users that may own an account
  Projects,     \* projects that may be billed
  NoUser,       \* the user_id of a project or of a caller that has none
  NoRow,        \* the table has no row under this key
  Clean,        \* the transaction has not written this row
  Sessions,     \* concurrent database sessions of the conductor
  Requests,     \* the calls the conductor may receive
  Opening,      \* the rows committed before the first call
  MaxRetries,   \* max_retries of wrap_db_retry, 5 in the code
  MaxNow,       \* bound on the clock, in seconds
  MaxCalls      \* bound on the number of calls

Owners == Users \cup {NoUser}

-----------------------------------------------------------------------------
(* Rows.  A key is a unique key of its table.                              *)

Account(u) == <<"account", u>>
Project(p) == <<"project", p>>
Relation(u, p) == <<"relation", u, p>>

AccountKeys == {Account(u) : u \in Users}
ProjectKeys == {Project(p) : p \in Projects}
RelationKeys == {Relation(u, p) : u \in Owners, p \in Projects}
Keys == AccountKeys \cup ProjectKeys \cup RelationKeys

AccountRow == [id : Nat, balance : Int, consumption : Int, level : 0 .. 9,
               owed : BOOLEAN, owed_at : Nat, updated_at : Nat]
ProjectRow == [id : Nat, user_id : Owners, consumption : Int,
               updated_at : Nat]
RelationRow == [id : Nat, consumption : Int, updated_at : Nat]

RowsOf(k) == IF k \in AccountKeys THEN AccountRow
             ELSE IF k \in ProjectKeys THEN ProjectRow
             ELSE RelationRow

Rows == AccountRow \cup ProjectRow \cup RelationRow

(* A database state: every key has a row of its table or none.             *)
Databases == {d \in [Keys -> Rows \cup {NoRow}] :
                \A k \in Keys : d[k] \in RowsOf(k) \cup {NoRow}}

(* What a transaction is about to make of it: NoRow is a row to delete.    *)
Drafts == {d \in [Keys -> Rows \cup {NoRow, Clean}] :
             \A k \in Keys : d[k] \in RowsOf(k) \cup {NoRow, Clean}}

(* The money column that the books of a row are kept in.                   *)
Amount(k, row) == IF k \in AccountKeys THEN row.balance ELSE row.consumption

-----------------------------------------------------------------------------
(* Calls.  The caller is the user a request's context narrows queries to.  *)

Calls ==
  [op : {"update_account"}, user : Users, project : Projects, amount : Nat]
    \cup [op : {"charge_account"}, user : Users, amount : Int]
    \cup [op : {"change_account_level"}, user : Users, level : 0 .. 9,
          caller : Owners]
    \cup [op : {"change_billing_owner"}, user : Users, project : Projects,
          caller : Owners]
    \cup [op : {"delete_account"}, user : Users]
    \cup [op : {"create_account"}, user : Users, level : 0 .. 9]
    \cup [op : {"create_project"}, user : Owners, project : Projects]

NoCall == [op |-> "none"]

(* NoRow, None in the code, is no number and no row of the Ledger.         *)
ASSUME LedgerAssumption ==
  /\ NoRow \notin Int
  /\ NoRow \notin [balance : Int, level : 0 .. 9, owed : BOOLEAN]
  /\ NoRow \notin [user_id : Owners, consumption : Int]

ASSUME BillingStoreAssumption ==
  /\ NoUser \notin Users
  /\ \A k \in Keys : NoRow \notin RowsOf(k) /\ Clean \notin RowsOf(k)
  /\ NoRow # Clean
  /\ Requests \subseteq Calls
  /\ Opening \in Databases
  /\ MaxRetries \in Nat
  /\ MaxNow \in Nat
  /\ MaxCalls \in Nat

-----------------------------------------------------------------------------
VARIABLES
  db,       \* the committed rows
  serial,   \* the last primary key handed out under each key
  call,     \* the call each session serves
  pc,       \* the statement each session runs next
  tries,    \* how often wrap_db_retry has rerun the call
  seen,     \* the snapshot of each transaction
  work,     \* rows written and locked by each transaction, Clean when not
  now,      \* wall clock, in the seconds a DATETIME column keeps
  calls,    \* number of calls issued (bounds the model)
  books,    \* history: what Amount of each row ought to be
  stale,    \* history: accounts a charge wrote from an outdated snapshot
  crossed,  \* history: sessions whose transaction has been crossed
  loose     \* history: projects whose payer need not have an account

audit == <<books, stale, loose>>
history == <<audit, crossed>>
vars == <<db, serial, call, pc, tries, seen, work, now, calls, history>>

Ready == {"idle", "raised"}
Statements == {"check", "begin", "account", "project", "relation", "commit"}

Empty == [k \in Keys |-> NoRow]
Untouched == [k \in Keys |-> Clean]

(* The first statement of a call: change_billing_owner looks the new owner *)
(* up in a session of its own before its transaction reads anything.       *)
First(c) == IF c.op = "change_billing_owner" THEN "check" ELSE "begin"

(* Mutant: only the transaction is decorated, not the look-up before it.   *)
RestartTransaction(c) == "begin"

(* wrap_db_retry decorates the whole method: a rerun looks everything up   *)
(* again.                                                                  *)
Restart(c) == First(c)

(* The first table the call writes once its snapshot is taken.             *)
FirstTable(c) ==
  IF c.op \in {"change_billing_owner", "create_project"}
  THEN "project" ELSE "account"

(* delete_account, charge_account, ... carry wrap_db_retry; the two create *)
(* functions do not.                                                       *)
Decorated(c) == c.op \notin {"create_account", "create_project"}

(* model_query: a request with a user context sees only its own rows.      *)
Sees(caller, owner) == caller = NoUser \/ caller = owner

Locked(s, k) == \E t \in Sessions \ {s} : work[t][k] # Clean

Init ==
  /\ db = Opening
  /\ serial = [k \in Keys |-> IF Opening[k] = NoRow THEN 0 ELSE Opening[k].id]
  /\ call = [s \in Sessions |-> NoCall]
  /\ pc = [s \in Sessions |-> "idle"]
  /\ tries = [s \in Sessions |-> 0]
  /\ seen = [s \in Sessions |-> Empty]
  /\ work = [s \in Sessions |-> Untouched]
  /\ now = 0
  /\ calls = 0
  /\ books = [k \in Keys |-> IF Opening[k] = NoRow THEN 0
                             ELSE Amount(k, Opening[k])]
  /\ stale = {}
  /\ crossed = {}
  /\ loose = {}

-----------------------------------------------------------------------------
(* How a transaction moves: each of these is the whole effect of one kind  *)
(* of statement.                                                           *)

(* The statement at pc writes rows (a function on some keys) and goes on.  *)
Write(s, rows, next) ==
  /\ work' = [work EXCEPT ![s] =
                [k \in Keys |-> IF k \in DOMAIN rows THEN rows[k] ELSE @[k]]]
  /\ pc' = [pc EXCEPT ![s] = next]
  /\ UNCHANGED <<db, call, tries, seen, now, calls, history>>

WriteOne(s, k, row, next) == Write(s, [x \in {k} |-> row], next)

(* Mutant: the locks of the transaction outlive it.                        *)
LeaveLocked(s, outcome) ==
  /\ pc' = [pc EXCEPT ![s] = outcome]
  /\ tries' = [tries EXCEPT ![s] = 0]
  /\ seen' = [seen EXCEPT ![s] = Empty]
  /\ UNCHANGED <<work, now, calls>>

(* The call leaves: its transaction is gone, its locks are released.       *)
Leave(s, outcome) ==
  /\ pc' = [pc EXCEPT ![s] = outcome]
  /\ tries' = [tries EXCEPT ![s] = 0]
  /\ seen' = [seen EXCEPT ![s] = Empty]
  /\ work' = [work EXCEPT ![s] = Untouched]
  /\ UNCHANGED <<now, calls>>

(* An exception wrap_db_retry does not catch: rollback and raise.          *)
Raise(s) ==
  /\ Leave(s, "raised")
  /\ crossed' = crossed \ {s}
  /\ UNCHANGED <<db, serial, call, audit>>

(* The call is rolled back and run once more.                              *)
RunAgain(s) ==
  /\ tries' = [tries EXCEPT ![s] = @ + 1]
  /\ pc' = [pc EXCEPT ![s] = Restart(call[s])]
  /\ seen' = [seen EXCEPT ![s] = Empty]
  /\ work' = [work EXCEPT ![s] = Untouched]
  /\ crossed' = crossed \ {s}
  /\ UNCHANGED <<db, serial, call, now, calls, audit>>

(* Mutant: one try too many.                                               *)
RerunOnceMore(s) ==
  \/ /\ Decorated(call[s]) /\ tries[s] <= MaxRetries
     /\ RunAgain(s)
  \/ /\ ~Decorated(call[s]) \/ tries[s] > MaxRetries
     /\ Raise(s)

(* RetryRequest or a deadlock: rollback, then rerun the call or give up.   *)
Rerun(s) ==
  \/ /\ Decorated(call[s]) /\ tries[s] < MaxRetries
     /\ RunAgain(s)
  \/ /\ ~Decorated(call[s]) \/ tries[s] >= MaxRetries
     /\ Raise(s)

(* _update_params: the UPDATE of row k hits only if the columns it sets    *)
(* still hold what the snapshot read; otherwise the call is rerun.         *)
UpdateParams(s, k, hit, row, next) ==
  /\ ~Locked(s, k)
  /\ \/ /\ db[k] # NoRow /\ hit
        /\ WriteOne(s, k, row, next)
        /\ UNCHANGED serial
     \/ /\ ~(db[k] # NoRow /\ hit)
        /\ Rerun(s)

(* INSERT of row k: a key already taken is a duplicate entry, not retried. *)
Insert(s, k, row, next) ==
  /\ ~Locked(s, k)
  /\ \/ /\ db[k] = NoRow
        /\ serial' = [serial EXCEPT ![k] = @ + 1]
        /\ WriteOne(s, k, row, next)
     \/ /\ db[k] # NoRow
        /\ Raise(s)

At(s, op, place) == call[s].op = op /\ pc[s] = place

-----------------------------------------------------------------------------
(* The conductor receives a call.                                          *)
Receive(s, c) ==
  /\ pc[s] \in Ready
  /\ calls < MaxCalls
  /\ calls' = calls + 1
  /\ call' = [call EXCEPT ![s] = c]
  /\ pc' = [pc EXCEPT ![s] = First(c)]
  /\ UNCHANGED <<db, serial, tries, seen, work, now, history>>

OwnerExists(c) == db[Account(c.user)] # NoRow /\ Sees(c.caller, c.user)

(* change_billing_owner, "ensure user exists": the query is given no       *)
(* session, so it reads the newest commit outside of the transaction.      *)
CheckOwner(s) ==
  /\ At(s, "change_billing_owner", "check")
  /\ \/ /\ OwnerExists(call[s])
        /\ pc' = [pc EXCEPT ![s] = "begin"]
        /\ UNCHANGED <<db, serial, call, tries, seen, work, now, calls,
                       history>>
     \/ /\ ~OwnerExists(call[s])
        /\ Raise(s)

(* What the first SELECT of a transaction must find (.one()).              *)
Finds(c) ==
  CASE c.op \in {"create_account", "create_project"} -> TRUE
    [] c.op = "change_billing_owner" ->
         /\ db[Project(c.project)] # NoRow
         /\ Sees(c.caller, db[Project(c.project)].user_id)
    [] OTHER -> db[Account(c.user)] # NoRow

(* The first SELECT: it takes the snapshot, and fails if its row is gone.  *)
Begin(s) ==
  /\ pc[s] = "begin"
  /\ \/ /\ Finds(call[s])
        /\ seen' = [seen EXCEPT ![s] = db]
        /\ pc' = [pc EXCEPT ![s] = FirstTable(call[s])]
        /\ UNCHANGED <<db, serial, call, tries, work, now, calls, history>>
     \/ /\ ~Finds(call[s])
        /\ Raise(s)

-----------------------------------------------------------------------------
(* update_account: bill a project's consumption to its owner.              *)

(* Mutants: the UPDATE is conditioned on the key of the row alone.         *)
SameAccountKey(row, old, c) == TRUE
SameConsumptionKey(row, old) == TRUE

(* The columns update_account compares: those it sets.                     *)
SameAccount(row, old, c) ==
  /\ row.balance = old.balance
  /\ row.consumption = old.consumption
  /\ row.updated_at = old.updated_at
  /\ old.balance - c < 0 => row.owed = old.owed /\ row.owed_at = old.owed_at

SameConsumption(row, old) ==
  row.consumption = old.consumption /\ row.updated_at = old.updated_at

(* What it sets them to, worked out from the row as it was read.           *)
Billed(row, old, c) ==
  LET balance == old.balance - c IN
  [row EXCEPT !.balance = balance,
              !.consumption = c,
              !.updated_at = now,
              !.owed = @ \/ balance < 0,
              !.owed_at = IF balance < 0 THEN now ELSE @]

Consumed(row, old, c) ==
  [row EXCEPT !.consumption = old.consumption + c, !.updated_at = now]

BillAccount(s) ==
  LET k == Account(call[s].user)
      c == call[s].amount
  IN /\ At(s, "update_account", "account")
     /\ UpdateParams(s, k, SameAccount(db[k], seen[s][k], c),
                     Billed(db[k], seen[s][k], c), "project")

(* A row the snapshot does not hold ends the call: NoResultFound.          *)
BillConsumption(s, k, next) ==
  \/ /\ seen[s][k] # NoRow
     /\ UpdateParams(s, k, SameConsumption(db[k], seen[s][k]),
                     Consumed(db[k], seen[s][k], call[s].amount), next)
  \/ /\ seen[s][k] = NoRow
     /\ Raise(s)

BillProject(s) ==
  /\ At(s, "update_account", "project")
  /\ BillConsumption(s, Project(call[s].project), "relation")

BillRelation(s) ==
  /\ At(s, "update_account", "relation")
  /\ BillConsumption(s, Relation(call[s].user, call[s].project), "commit")

-----------------------------------------------------------------------------
(* charge_account: read, add, and flush the columns that changed, with the *)
(* primary key as the only condition of the UPDATE.                        *)

(* Mutant: paying a debt off does not clear the flag.                      *)
ChargedOnly(row, old, v) == [row EXCEPT !.balance = old.balance + v]

(* What the flush makes of the current row, given the row it was read as.  *)
Charged(row, old, v) ==
  LET balance == old.balance + v IN
  [row EXCEPT !.balance = IF v = 0 THEN @ ELSE balance,
              !.owed = @ /\ ~(old.owed /\ balance >= 0)]

Charge(s) ==
  LET k == Account(call[s].user)
      old == seen[s][k]
      v == call[s].amount
  IN /\ At(s, "charge_account", "account")
     /\ \/ /\ Charged(old, old, v) # old
           /\ ~Locked(s, k)
           /\ db[k] # NoRow /\ db[k].id = old.id
           /\ WriteOne(s, k, Charged(db[k], old, v), "commit")
           /\ UNCHANGED serial
        \/ /\ Charged(old, old, v) # old
           /\ ~Locked(s, k)
           /\ ~(db[k] # NoRow /\ db[k].id = old.id)
           /\ Raise(s)
        \/ /\ Charged(old, old, v) = old
           /\ pc' = [pc EXCEPT ![s] = "commit"]
           /\ UNCHANGED <<db, serial, call, tries, seen, work, now, calls,
                          history>>

-----------------------------------------------------------------------------
(* Mutant: the whole row is written back as it was read.                   *)
ChangeWholeRow(s) ==
  LET k == Account(call[s].user) IN
  /\ At(s, "change_account_level", "account")
  /\ UpdateParams(s, k,
       db[k].level = seen[s][k].level /\ Sees(call[s].caller, call[s].user),
       [seen[s][k] EXCEPT !.level = call[s].level], "commit")

(* change_account_level: the row is read without the caller's filter, the  *)
(* UPDATE is narrowed by it.                                               *)
ChangeLevel(s) ==
  LET k == Account(call[s].user) IN
  /\ At(s, "change_account_level", "account")
  /\ UpdateParams(s, k,
       db[k].level = seen[s][k].level /\ Sees(call[s].caller, call[s].user),
       [db[k] EXCEPT !.level = call[s].level], "commit")

-----------------------------------------------------------------------------
(* change_billing_owner: make a user the payer of a project.               *)

ChangeOwner(s) ==
  LET k == Project(call[s].project) IN
  /\ At(s, "change_billing_owner", "project")
  /\ UpdateParams(s, k, db[k].user_id = seen[s][k].user_id,
       [db[k] EXCEPT !.user_id = call[s].user], "relation")

(* Mutant: a relation that is not there is not inserted.                   *)
RelateKnownOwner(s) ==
  LET k == Relation(call[s].user, call[s].project) IN
  /\ At(s, "change_billing_owner", "relation")
  /\ \/ /\ seen[s][k] # NoRow
        /\ UpdateParams(s, k, db[k].updated_at = seen[s][k].updated_at,
             [db[k] EXCEPT !.updated_at = now], "commit")
     \/ /\ seen[s][k] = NoRow
        /\ pc' = [pc EXCEPT ![s] = "commit"]
        /\ UNCHANGED <<db, serial, call, tries, seen, work, now, calls,
                       history>>

(* Mutant: the new owner takes the past consumption over.                  *)
RelateWithPast(s) ==
  LET k == Relation(call[s].user, call[s].project) IN
  /\ At(s, "change_billing_owner", "relation")
  /\ \/ /\ seen[s][k] # NoRow
        /\ UpdateParams(s, k, db[k].updated_at = seen[s][k].updated_at,
             [db[k] EXCEPT !.updated_at = now], "commit")
     \/ /\ seen[s][k] = NoRow
        /\ Insert(s, k, [id |-> serial[k] + 1,
                         consumption |->
                           seen[s][Project(call[s].project)].consumption,
                         updated_at |-> now], "commit")

(* The relation is touched if the snapshot holds it, inserted if not.      *)
RelateOwner(s) ==
  LET k == Relation(call[s].user, call[s].project) IN
  /\ At(s, "change_billing_owner", "relation")
  /\ \/ /\ seen[s][k] # NoRow
        /\ UpdateParams(s, k, db[k].updated_at = seen[s][k].updated_at,
             [db[k] EXCEPT !.updated_at = now], "commit")
     \/ /\ seen[s][k] = NoRow
        /\ Insert(s, k, [id |-> serial[k] + 1, consumption |-> 0,
                         updated_at |-> now], "commit")

-----------------------------------------------------------------------------
(* delete_account: rows picked from the snapshot, deleted by primary key.  *)

(* Keys among doomed whose row is still the one that was picked.           *)
StillThere(s, doomed) ==
  {k \in doomed : db[k] # NoRow /\ db[k].id = seen[s][k].id}

Delete(s, doomed, next) ==
  /\ \A k \in doomed : ~Locked(s, k)
  /\ Write(s, [k \in StillThere(s, doomed) |-> NoRow], next)
  /\ UNCHANGED serial

(* Mutants: projects are not picked by owner, relations are left behind.   *)
EveryProjectSeen(s, u) == {k \in ProjectKeys : seen[s][k] # NoRow}
NoRelationSeen(s, u) == {}

ProjectsSeen(s, u) ==
  {k \in ProjectKeys : seen[s][k] # NoRow /\ seen[s][k].user_id = u}
RelationsSeen(s, u) ==
  {k \in RelationKeys : seen[s][k] # NoRow /\ k[2] = u}

DeleteAccount(s) ==
  /\ At(s, "delete_account", "account")
  /\ Delete(s, {Account(call[s].user)}, "project")

DeleteProjects(s) ==
  /\ At(s, "delete_account", "project")
  /\ Delete(s, ProjectsSeen(s, call[s].user), "relation")

DeleteRelations(s) ==
  /\ At(s, "delete_account", "relation")
  /\ Delete(s, RelationsSeen(s, call[s].user), "commit")

-----------------------------------------------------------------------------
(* create_account and create_project: plain INSERTs of rows without debts. *)

CreateAccount(s) ==
  LET k == Account(call[s].user) IN
  /\ At(s, "create_account", "account")
  /\ Insert(s, k, [id |-> serial[k] + 1, balance |-> 0, consumption |-> 0,
                   level |-> call[s].level, owed |-> FALSE, owed_at |-> 0,
                   updated_at |-> 0], "commit")

CreateProject(s) ==
  LET k == Project(call[s].project) IN
  /\ At(s, "create_project", "project")
  /\ Insert(s, k, [id |-> serial[k] + 1, user_id |-> call[s].user,
                   consumption |-> 0, updated_at |-> now], "relation")

CreateRelation(s) ==
  LET k == Relation(call[s].user, call[s].project) IN
  /\ At(s, "create_project", "relation")
  /\ Insert(s, k, [id |-> serial[k] + 1, consumption |-> 0,
                   updated_at |-> now], "commit")

-----------------------------------------------------------------------------
(* What a committed call is due to add to a row.                           *)
Due(c, k) ==
  CASE c.op = "update_account" /\ k = Account(c.user) -> - c.amount
    [] c.op = "update_account" /\ k \in {Project(c.project),
                                         Relation(c.user, c.project)}
         -> c.amount
    [] c.op = "charge_account" /\ k = Account(c.user) -> c.amount
    [] OTHER -> 0

(* One of two calls gives a project to a user, the other one deletes his   *)
(* account, and t has read what it goes by.                                *)
Crosses(c, d) ==
  /\ {c.op, d.op} = {"change_billing_owner", "delete_account"}
  /\ c.user = d.user

HasRead(t) ==
  \/ pc[t] \in {"account", "project", "relation", "commit"}
  \/ pc[t] = "begin" /\ call[t].op = "change_billing_owner"

Gives(c, p) == c.op = "change_billing_owner" /\ c.project = p

(* The commit of s makes p a project whose payer need not have an account: *)
(* nothing looks up the payer of a new project, and a change of owner and  *)
(* the deletion of the owner's account do not notice each other.           *)
Loosens(s, p) ==
  LET c == call[s] IN
  \/ c.op = "create_project" /\ c.project = p
  \/ /\ s \in crossed
     /\ \/ Gives(c, p)
        \/ /\ c.op = "delete_account"
           /\ db[Project(p)] # NoRow /\ db[Project(p)].user_id = c.user

(* The transaction commits: its rows replace the committed ones.  The      *)
(* history follows the calls, not the rows: it is what an auditor who adds *)
(* up the accepted bills and charges of each row would arrive at.          *)
Commit(s) ==
  LET c == call[s] IN
  /\ pc[s] = "commit"
  /\ Leave(s, "idle")
  /\ call' = [call EXCEPT ![s] = NoCall]
  /\ db' = [k \in Keys |-> IF work[s][k] = Clean THEN db[k] ELSE work[s][k]]
  /\ books' = [k \in Keys |->
                 (IF db[k] = NoRow THEN 0 ELSE books[k]) + Due(c, k)]
  /\ stale' = {k \in AccountKeys :
                 /\ db[k] # NoRow
                 /\ \/ k \in stale
                    \/ /\ c.op = "charge_account" /\ k = Account(c.user)
                       /\ c.amount # 0
                       /\ db[k].balance # seen[s][k].balance}
  /\ crossed' = (crossed \ {s}) \cup
                   {t \in Sessions \ {s} : HasRead(t) /\ Crosses(c, call[t])}
  /\ loose' = {p \in Projects : Loosens(s, p) \/ (p \in loose /\ ~Gives(c, p))}
  /\ UNCHANGED serial

-----------------------------------------------------------------------------
(* The database picks the transaction as the victim of a deadlock          *)
(* (retry_on_deadlock), or the connection is lost (not retried).           *)
Deadlock(s) ==
  /\ pc[s] \in {"account", "project", "relation", "commit"}
  /\ Rerun(s)

Disconnect(s) ==
  /\ pc[s] \in Statements
  /\ Raise(s)

Tick ==
  /\ now < MaxNow
  /\ now' = now + 1
  /\ UNCHANGED <<db, serial, call, pc, tries, seen, work, calls, history>>

Step(s) ==
  \/ CheckOwner(s) \/ Begin(s)
  \/ BillAccount(s) \/ BillProject(s) \/ BillRelation(s)
  \/ Charge(s) \/ ChangeLevel(s) \/ ChangeOwner(s) \/ RelateOwner(s)
  \/ DeleteAccount(s) \/ DeleteProjects(s) \/ DeleteRelations(s)
  \/ CreateAccount(s) \/ CreateProject(s) \/ CreateRelation(s)
  \/ Commit(s)

Next ==
  \/ \E s \in Sessions :
       \/ \E c \in Requests : Receive(s, c)
       \/ Step(s) \/ Deadlock(s) \/ Disconnect(s)
  \/ Tick

Spec == Init /\ [][Next]_vars

(* The database runs every statement whose row is free; it owes no call a  *)
(* deadlock or a lost connection.                                          *)
Fairness == \A s \in Sessions : WF_vars(Step(s))
FairSpec == Spec /\ Fairness
-----------------------------------------------------------------------------
(* Every variable has its type; a session's call fits its statement.       *)
TypeOK ==
  /\ db \in Databases
  /\ serial \in [Keys -> Nat]
  /\ call \in [Sessions -> Calls \cup {NoCall}]
  /\ pc \in [Sessions -> Ready \cup Statements]
  /\ \A s \in Sessions : pc[s] \in Statements => call[s] \in Calls
  /\ tries \in [Sessions -> 0 .. MaxRetries]
  /\ seen \in [Sessions -> Databases]
  /\ work \in [Sessions -> Drafts]
  /\ now \in 0 .. MaxNow
  /\ calls \in 0 .. MaxCalls
  /\ books \in [Keys -> Int]
  /\ stale \subseteq AccountKeys
  /\ crossed \subseteq Sessions
  /\ loose \subseteq Projects

(* The requests and the opening rows that some properties speak about.     *)
ChargesAreCredits ==
  \A c \in Requests : c.op = "charge_account" => c.amount >= 0
NothingIsCharged ==
  \A c \in Requests : c.op = "charge_account" => c.amount = 0
NothingIsDeleted == \A c \in Requests : c.op # "delete_account"

FlagFits(row) == row.owed <=> row.balance < 0

(* No bill is lost, counted twice or booked in one table only: the         *)
(* consumption of every project and of every relation is the sum of the    *)
(* update_account calls committed on it since it was created, whatever the *)
(* other calls did in between (_update_params and its retry).              *)
ConsumptionAccounted ==
  \A k \in ProjectKeys \cup RelationKeys :
    db[k] # NoRow => db[k].consumption = books[k]

(* An account's balance is its charges less its bills, unless some         *)
(* charge_account flushed a balance computed from an outdated snapshot:    *)
(* that unconditional UPDATE is the only way money gets lost or made.      *)
BalanceAccounted ==
  \A k \in AccountKeys \ stale : db[k] # NoRow => db[k].balance = books[k]

(* "Charge the account.": a charge whose record is in the charge table is  *)
(* in the balance too.  False when another call commits in between.        *)
ChargesArriveInFull ==
  \A k \in AccountKeys : db[k] # NoRow => db[k].balance = books[k]

(* The owed flag, which stops a user's resources, tells a debt: when no    *)
(* charge is negative it is set on an account exactly while that is in     *)
(* debt, as long as no charge flushed a balance from an outdated snapshot. *)
OwedTellsDebt ==
  ChargesAreCredits =>
    \A k \in AccountKeys \ stale : db[k] # NoRow => FlagFits(db[k])

(* A project can always be billed to its owner: the relation that          *)
(* update_account insists on exists (it raises NoResultFound otherwise,    *)
(* and the project is never billed again).  True without delete_account.   *)
OwnerIsRelated ==
  \A p \in Projects : db[Project(p)] # NoRow =>
    db[Relation(db[Project(p)].user_id, p)] # NoRow

(* What each user has paid for a project, nothing without a relation.      *)
Shares(d, p) ==
  [u \in Owners |-> IF d[Relation(u, p)] = NoRow THEN 0
                    ELSE d[Relation(u, p)].consumption]

(* A project's consumption is shared out among all who have paid for it:   *)
(* change_billing_owner moves the future bills, never those of the past.   *)
ProjectIsSumOfRelations ==
  \A p \in Projects : db[Project(p)] # NoRow =>
    db[Project(p)].consumption = SumFunctionOnSet(Shares(db, p), Owners)

(* A project has somebody to charge: its payer has an account ("ensure     *)
(* user exists"; without one, update_account raises NoResultFound for      *)
(* ever).  Accounts are deleted with their projects, and a payer is looked *)
(* up in another session than the one that makes him the payer.  Exempt    *)
(* are projects whose payer came with create_project, or while a deletion  *)
(* of his account was under way, or a deletion came while he was made it.  *)
PayersHaveAccounts ==
  \A p \in Projects \ loose : db[Project(p)] # NoRow =>
    \E u \in Users : db[Project(p)].user_id = u /\ db[Account(u)] # NoRow

(* delete_account removes an account "including the projects that belong   *)
(* to it": a project that disappears belonged to the deleted account.      *)
DeleteTakesOwnProjects ==
  [][\A p \in Projects, s \in Sessions :
       /\ db[Project(p)] # NoRow /\ db'[Project(p)] = NoRow
       /\ pc[s] = "commit" /\ pc'[s] = "idle"
       => db[Project(p)].user_id = call[s].user]_vars

(* Every call returns to its RPC client, with a result or an exception.    *)
EveryCallReturns ==
  \A s \in Sessions : pc[s] \in Statements ~> pc[s] \in Ready
-----------------------------------------------------------------------------
(* BillingStore as a Ledger: the committed rows, without keys and stamps.  *)
ViewAccount(d, u) ==
  LET row == d[Account(u)] IN
  IF row = NoRow THEN NoRow
  ELSE [balance |-> row.balance, level |-> row.level, owed |-> row.owed]
ViewProject(d, p) ==
  LET row == d[Project(p)] IN
  IF row = NoRow THEN NoRow
  ELSE [user_id |-> row.user_id, consumption |-> row.consumption]
ViewRelation(d, u, p) ==
  LET row == d[Relation(u, p)] IN
  IF row = NoRow THEN NoRow ELSE row.consumption

AccountsOf(d) == [u \in Users |-> ViewAccount(d, u)]
ProjectsOf(d) == [p \in Projects |-> ViewProject(d, p)]
RelationsOf(d) == [r \in Owners \X Projects |-> ViewRelation(d, r[1], r[2])]

TheLedger ==
  INSTANCE Ledger WITH accounts <- AccountsOf(db),
                       projects <- ProjectsOf(db),
                       relations <- RelationsOf(db),
                       Accounts0 <- AccountsOf(Opening),
                       Projects0 <- ProjectsOf(Opening),
                       Relations0 <- RelationsOf(Opening)

(* Calls take effect one at a time and in full: what the committed rows go *)
(* through is what Ledger goes through.  True as long as no delete_account *)
(* and no charge_account runs beside another call.                         *)
ImplementsLedger == TheLedger!Spec

(* Whatever runs beside it, a call that commits on the rows it has read    *)
(* has exactly the effect the Ledger gives it, delete_account and          *)
(* charge_account included: retries and row by row writing leave no trace. *)
UndisturbedTakesEffect ==
  [][\A s \in Sessions :
       /\ pc[s] = "commit" /\ pc'[s] = "idle"
       /\ seen[s] = db
       /\ call[s].op = "change_billing_owner"
            => db[Account(call[s].user)] # NoRow
       => TheLedger!Accept(call[s])]_vars
=============================================================================
