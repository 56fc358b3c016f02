---------------------------- MODULE LedgerProofs ----------------------------
(***************************************************************************)
(* Proofs about BillingStore, on top of its inductive invariant: what the  *)
(* commit of a call makes of the tables is what Ledger says of the call;   *)
(* with it, that every project can be billed and adds up, that its payer   *)
(* has an account, and that the owed flag tells a debt.                    *)
(***************************************************************************)
EXTENDS BillingStoreProofs, DataInduction

-----------------------------------------------------------------------------
(* What a call c makes of the committed row under key k, once it has read  *)
(* old there: the row it drafts, or NoRow to delete it.                    *)

AccountBilled(c, k, row, new) ==
  /\ c.op = "update_account" /\ k = Account(c.user) /\ row # NoRow
  /\ new.balance = row.balance - c.amount
  /\ new.level = row.level
  /\ new.owed <=> row.owed \/ new.balance < 0

ConsumptionBilled(c, k, row, new) ==
  /\ c.op = "update_account" /\ row # NoRow
  /\ k \in {Project(c.project), Relation(c.user, c.project)}
  /\ new.consumption = row.consumption + c.amount
  /\ k = Project(c.project) => new.user_id = row.user_id

(* A charge goes by the row it has read, right or wrong.                   *)
AccountCharged(c, k, old, row, new) ==
  /\ c.op = "charge_account" /\ k = Account(c.user)
  /\ row # NoRow /\ old # NoRow /\ old.id = row.id
  /\ new.balance = IF c.amount = 0 THEN row.balance ELSE old.balance + c.amount
  /\ new.level = row.level
  /\ new.owed <=> row.owed /\ ~(old.owed /\ old.balance + c.amount >= 0)
  /\ c.amount = 0 => old.owed /\ old.balance >= 0

LevelChanged(c, k, row, new) ==
  /\ c.op = "change_account_level" /\ k = Account(c.user) /\ row # NoRow
  /\ new.balance = row.balance
  /\ new.level = c.level
  /\ new.owed <=> row.owed

OwnerChanged(c, k, row, new) ==
  /\ c.op = "change_billing_owner" /\ k = Project(c.project) /\ row # NoRow
  /\ new.user_id = c.user
  /\ new.consumption = row.consumption

OwnerRelated(c, k, row, new) ==
  /\ c.op = "change_billing_owner" /\ k = Relation(c.user, c.project)
  /\ new.consumption = IF row = NoRow THEN 0 ELSE row.consumption

AccountCreated(c, k, row, new) ==
  /\ c.op = "create_account" /\ k = Account(c.user) /\ row = NoRow
  /\ new.balance = 0 /\ new.level = c.level /\ ~new.owed

ProjectCreated(c, k, row, new) ==
  /\ c.op = "create_project" /\ k = Project(c.project) /\ row = NoRow
  /\ new.user_id = c.user /\ new.consumption = 0

RelationCreated(c, k, row, new) ==
  /\ c.op = "create_project" /\ k = Relation(c.user, c.project) /\ row = NoRow
  /\ new.consumption = 0

Deletes(c, k, old) ==
  \/ k = Account(c.user)
  \/ k \in ProjectKeys /\ old.user_id = c.user
  \/ k \in RelationKeys /\ k[2] = c.user

(* A new row under k has a key beyond all that were read there; an old one *)
(* keeps its own.                                                          *)
Effect(c, k, old, row, new) ==
  IF new = NoRow
  THEN /\ c.op = "delete_account" /\ Deletes(c, k, old)
       /\ old # NoRow /\ row # NoRow /\ old.id = row.id
  ELSE /\ \/ AccountBilled(c, k, row, new) \/ ConsumptionBilled(c, k, row, new)
          \/ AccountCharged(c, k, old, row, new) \/ LevelChanged(c, k, row, new)
          \/ OwnerChanged(c, k, row, new) \/ OwnerRelated(c, k, row, new)
          \/ AccountCreated(c, k, row, new) \/ ProjectCreated(c, k, row, new)
          \/ RelationCreated(c, k, row, new)
       /\ row # NoRow => new.id = row.id

-----------------------------------------------------------------------------
(* The invariant.                                                          *)

(* Every row that a transaction has written is an effect of its call on    *)
(* the row that is committed there now.                                    *)
DraftsFit(s) ==
  \A k \in Keys : work[s][k] # Clean =>
    Effect(call[s], k, seen[s][k], db[k], work[s][k])

(* The row that s has read under k is no longer there.                     *)
Replaced(s, k) == db[k] = NoRow \/ db[k].id # seen[s][k].id
Deleted(s, k) == work[s][k] = NoRow \/ Replaced(s, k)

(* Where a call stands tells which rows it has written.                    *)
AccountWritten(s) ==
  /\ call[s].op \in {"change_account_level", "create_account"}
       /\ pc[s] = "commit" => Drafted(s, Account(call[s].user))
  /\ call[s].op = "charge_account" /\ pc[s] = "commit" =>
       LET k == Account(call[s].user) IN
       Drafted(s, k) \/ Charged(seen[s][k], seen[s][k], call[s].amount) = seen[s][k]

ProjectWritten(s) ==
  call[s].op \in {"change_billing_owner", "create_project"} =>
    /\ pc[s] \in {"relation", "commit"} => Drafted(s, Project(call[s].project))
    /\ pc[s] = "commit" => Drafted(s, Relation(call[s].user, call[s].project))

RowsDeleted(s) ==
  LET u == call[s].user IN
  call[s].op = "delete_account" =>
    /\ pc[s] \in {"account", "project", "relation", "commit"}
         => seen[s][Account(u)] # NoRow
    /\ pc[s] \in {"project", "relation", "commit"} => Deleted(s, Account(u))
    /\ pc[s] \in {"relation", "commit"}
         => \A k \in ProjectsSeen(s, u) : Deleted(s, k)
    /\ pc[s] = "commit" => \A k \in RelationsSeen(s, u) : Deleted(s, k)

Written(s) == AccountWritten(s) /\ ProjectWritten(s) /\ RowsDeleted(s)

(* Primary keys are handed out in order: whatever was read or written      *)
(* under k is not beyond the last one, and a row to be inserted there is   *)
(* beyond every row that some transaction has read.                        *)
KeysInOrder ==
  \A k \in Keys :
    /\ db[k] # NoRow => db[k].id <= serial[k]
    /\ \A t \in Sessions : seen[t][k] # NoRow => seen[t][k].id <= serial[k]
    /\ \A s \in Sessions : Drafted(s, k) =>
         /\ work[s][k].id <= serial[k]
         /\ db[k] = NoRow => \A t \in Sessions :
              seen[t][k] # NoRow => seen[t][k].id < work[s][k].id

EffectInv ==
  /\ KeysInOrder
  /\ \A s \in Sessions : DraftsFit(s) /\ Written(s)
  /\ \A s \in Sessions : pc[s] \in Statements => call[s] \in Requests

-----------------------------------------------------------------------------
(* What holds beside it for some requests.                                 *)

(* Flags fit their balances in the table, and in what has been read of a   *)
(* row that is still there, unless some charge went by an old balance.     *)
FlagsFit(k) ==
  k \notin stale =>
    /\ db[k] # NoRow => FlagFits(db[k])
    /\ \A s \in Sessions :
         seen[s][k] # NoRow /\ ~Replaced(s, k) => FlagFits(seen[s][k])

FlagInv == \A k \in AccountKeys : FlagsFit(k)

(* No charge has gone by an old balance.                                   *)
NoneStale == stale = {}

(* A row that was read stays.                                              *)
RowsStay ==
  \A s \in Sessions : \A k \in Keys : seen[s][k] # NoRow => ~Replaced(s, k)

(* There is no relation to a project that is not there.                    *)
NoOrphans ==
  \A p \in Projects : db[Project(p)] = NoRow =>
    \A u \in Owners : db[Relation(u, p)] = NoRow

(* The new owner has been looked up.                                       *)
OwnersLookedUp ==
  \A s \in Sessions :
    call[s].op = "change_billing_owner" /\ HasRead(s)
      => db[Account(call[s].user)] # NoRow

(* Unless it has been crossed, a call that makes a user the payer of a     *)
(* project has looked up an account that is still there, ...               *)
PayerFound(s) ==
  call[s].op = "change_billing_owner" /\ HasRead(s) /\ s \notin crossed
    => db[Account(call[s].user)] # NoRow

(* ... and a deletion has read every project that the user pays for.       *)
ProjectsFound(s) ==
  call[s].op = "delete_account" /\ HasRead(s) /\ s \notin crossed
    => \A p \in Projects \ loose :
         db[Project(p)] # NoRow /\ db[Project(p)].user_id = call[s].user
           => /\ Project(p) \in ProjectsSeen(s, call[s].user)
              /\ ~Replaced(s, Project(p))

PayerInv ==
  /\ PayersHaveAccounts
  /\ \A s \in Sessions : PayerFound(s) /\ ProjectsFound(s)

-----------------------------------------------------------------------------
(* What each kind of statement keeps.                                      *)

LEMMA IdType ==
  ASSUME NEW k \in Keys, NEW row \in RowsOf(k)
  PROVE  row.id \in Nat
<1>1. row \in AccountRow => row.id \in Nat
  BY DEF AccountRow
<1>2. row \in ProjectRow => row.id \in Nat
  BY DEF ProjectRow
<1>3. row \in RelationRow => row.id \in Nat
  BY DEF RelationRow
<1> QED
  BY <1>1, <1>2, <1>3, RowKinds DEF Keys

(* What the tables, the snapshots and the drafts hold under a key.         *)
LEMMA Held ==
  ASSUME TypeOK, NEW k \in Keys
  PROVE  /\ db[k] \in RowsOf(k) \cup {NoRow}
         /\ \A s \in Sessions : /\ seen[s][k] \in RowsOf(k) \cup {NoRow}
                                /\ work[s][k] \in RowsOf(k) \cup {NoRow, Clean}
  BY DEF TypeOK, Databases, Drafts

(* A session that a step does not touch keeps its part, if no row it has   *)
(* written is committed and no row that is gone comes back.                *)
LEMMA OtherEffects ==
  ASSUME NEW t \in Sessions, DraftsFit(t), Written(t),
         call[t].op = "delete_account" => call[t].user \in Users,
         pc'[t] = pc[t], call'[t] = call[t], seen'[t] = seen[t],
         work'[t] = work[t],
         \A k \in Keys : work[t][k] # Clean => db'[k] = db[k],
         \A k \in Keys : seen[t][k] # NoRow /\ Replaced(t, k) => Replaced(t, k)'
  PROVE  DraftsFit(t)' /\ Written(t)'
<1>1. DraftsFit(t)'
  BY DEF DraftsFit
<1>2. AccountWritten(t)' /\ ProjectWritten(t)'
  BY DEF Written, AccountWritten, ProjectWritten, Drafted
<1>3. RowsDeleted(t)'
  <2> SUFFICES ASSUME call[t].op = "delete_account" PROVE RowsDeleted(t)'
    BY DEF RowsDeleted
  <2> DEFINE u == call[t].user
  <2>1. \A k \in Keys : seen[t][k] # NoRow /\ Deleted(t, k) => Deleted(t, k)'
    BY DEF Deleted
  <2>2. ProjectsSeen(t, u)' = ProjectsSeen(t, u)
    BY DEF ProjectsSeen
  <2>3. RelationsSeen(t, u)' = RelationsSeen(t, u)
    BY DEF RelationsSeen
  <2>4. \A k \in ProjectsSeen(t, u) \cup RelationsSeen(t, u) :
          k \in Keys /\ seen[t][k] # NoRow
    BY DEF ProjectsSeen, RelationsSeen, Keys
  <2>5. RowsDeleted(t)
    BY DEF Written
  <2>6. pc[t] \in {"account", "project", "relation", "commit"}
          => seen'[t][Account(u)] # NoRow
    BY <2>5 DEF RowsDeleted
  <2>7. pc[t] \in {"project", "relation", "commit"} => Deleted(t, Account(u))'
    BY <2>1, <2>5, KeyTypes DEF RowsDeleted
  <2> QED
    BY <2>1, <2>2, <2>3, <2>4, <2>5, <2>6, <2>7 DEF RowsDeleted
<1> QED
  BY <1>1, <1>2, <1>3 DEF Written

(* A step of session s keeps the invariant if it does for s and the keys.  *)
LEMMA SessionStep ==
  ASSUME IInv, EffectInv, NEW s \in Sessions,
         \A t \in Sessions \ {s} :
           /\ pc'[t] = pc[t] /\ call'[t] = call[t]
           /\ seen'[t] = seen[t] /\ work'[t] = work[t]
           /\ \A k \in Keys :
                /\ work[t][k] # Clean => db'[k] = db[k]
                /\ seen[t][k] # NoRow /\ Replaced(t, k) => Replaced(t, k)',
         KeysInOrder', DraftsFit(s)', Written(s)',
         pc'[s] \in Statements => call'[s] \in Requests
  PROVE  EffectInv'
<1>1. ASSUME NEW t \in Sessions, t # s PROVE DraftsFit(t)' /\ Written(t)'
  <2>1. DraftsFit(t) /\ Written(t)
    BY DEF EffectInv
  <2>2. call[t].op = "delete_account" => call[t].user \in Users
    BY CallFields DEF IInv, TypeOK, NoCall
  <2> QED
    BY <1>1, <2>1, <2>2, OtherEffects
<1>2. \A t \in Sessions : pc'[t] \in Statements => call'[t] \in Requests
  BY DEF EffectInv
<1> QED
  BY <1>1, <1>2 DEF EffectInv

(* The same of a step that commits nothing.                                *)
LEMMA QuietStep ==
  ASSUME IInv, EffectInv, NEW s \in Sessions, db' = db,
         \A t \in Sessions \ {s} :
           /\ pc'[t] = pc[t] /\ call'[t] = call[t]
           /\ seen'[t] = seen[t] /\ work'[t] = work[t],
         KeysInOrder', DraftsFit(s)', Written(s)',
         pc'[s] \in Statements => call'[s] \in Requests
  PROVE  EffectInv'
<1>1. ASSUME NEW t \in Sessions, t # s, NEW k \in Keys
      PROVE  seen[t][k] # NoRow /\ Replaced(t, k) => Replaced(t, k)'
  BY <1>1 DEF Replaced
<1> QED
  BY <1>1, SessionStep

(* Nothing is said of a session that has written nothing and stands        *)
(* before its first table or behind its last.                              *)
LEMMA NothingWritten ==
  ASSUME NEW s \in Sessions, work'[s] = Untouched,
         pc'[s] \in {"idle", "raised", "check", "begin"}
  PROVE  DraftsFit(s)' /\ Written(s)'
<1>1. DraftsFit(s)'
  BY DEF DraftsFit, Untouched
<1>2. AccountWritten(s)' /\ ProjectWritten(s)' /\ RowsDeleted(s)'
  BY DEF AccountWritten, ProjectWritten, RowsDeleted
<1> QED
  BY <1>1, <1>2 DEF Written

LEMMA RollbackKeepsEffects ==
  ASSUME IInv, EffectInv, NEW s \in Sessions,
         NEW next \in {"idle", "raised", "check", "begin"},
         next \in Statements => pc[s] \in Statements,
         pc' = [pc EXCEPT ![s] = next],
         seen' = [seen EXCEPT ![s] = Empty],
         work' = [work EXCEPT ![s] = Untouched],
         UNCHANGED <<db, serial, call>>
  PROVE  EffectInv'
<1>1. pc'[s] = next /\ work'[s] = Untouched /\ seen'[s] = Empty
  BY DEF IInv, TypeOK
<1>2. \A t \in Sessions \ {s} : /\ pc'[t] = pc[t] /\ call'[t] = call[t]
                                /\ seen'[t] = seen[t] /\ work'[t] = work[t]
  BY DEF IInv, TypeOK
<1>3. DraftsFit(s)' /\ Written(s)'
  BY <1>1, NothingWritten
<1>4. KeysInOrder'
  BY <1>1, <1>2 DEF EffectInv, KeysInOrder, Drafted, Empty, Untouched
<1>5. pc'[s] \in Statements => call'[s] \in Requests
  BY <1>1 DEF EffectInv
<1> QED
  BY <1>2, <1>3, <1>4, <1>5, QuietStep

LEMMA RaiseKeepsEffects ==
  ASSUME IInv, EffectInv, NEW s \in Sessions, Raise(s)
  PROVE  EffectInv'
  BY RollbackKeepsEffects DEF Raise, Leave, Statements

LEMMA RerunKeepsEffects ==
  ASSUME IInv, EffectInv, NEW s \in Sessions, pc[s] \in Statements, Rerun(s)
  PROVE  EffectInv'
<1>1. CASE Raise(s)
  BY <1>1, RaiseKeepsEffects
<1>2. CASE ~Raise(s)
  <2>1. Restart(call[s]) \in {"idle", "raised", "check", "begin"}
    BY DEF Restart, First
  <2> QED
    BY <1>2, <2>1, RollbackKeepsEffects DEF Rerun, RunAgain
<1> QED
  BY <1>1, <1>2

(* Rows that have the effects of the call, inserted under the next key.    *)
LEMMA WriteKeepsEffects ==
  ASSUME IInv, EffectInv, NEW s \in Sessions, pc[s] \in Statements,
         NEW rows, NEW next \in {"project", "relation", "commit"},
         DOMAIN rows \subseteq Keys, Write(s, rows, next),
         \A k \in Keys : serial'[k] \in Nat /\ serial[k] <= serial'[k],
         \A k \in DOMAIN rows :
           /\ rows[k] \in RowsOf(k) \cup {NoRow}
           /\ Effect(call[s], k, seen[s][k], db[k], rows[k])
           /\ rows[k] # NoRow /\ db[k] = NoRow =>
                rows[k].id = serial[k] + 1 /\ serial'[k] = serial[k] + 1,
         Written(s)'
  PROVE  EffectInv'
<1>1. UNCHANGED <<db, call, seen>>
  BY DEF Write
<1>2. /\ \A k \in Keys : work'[s][k] = IF k \in DOMAIN rows THEN rows[k]
                                       ELSE work[s][k]
      /\ \A t \in Sessions \ {s} : work'[t] = work[t] /\ pc'[t] = pc[t]
  BY DEF Write, IInv, TypeOK
<1>3. DraftsFit(s)'
  BY <1>1, <1>2 DEF DraftsFit, EffectInv
<1>4. KeysInOrder'
  <2> SUFFICES ASSUME NEW k \in Keys
               PROVE  /\ db[k] # NoRow => db[k].id <= serial'[k]
                      /\ \A t \in Sessions :
                           seen[t][k] # NoRow => seen[t][k].id <= serial'[k]
                      /\ \A t \in Sessions : Drafted(t, k)' =>
                           /\ work'[t][k].id <= serial'[k]
                           /\ db[k] = NoRow => \A z \in Sessions :
                                seen[z][k] # NoRow =>
                                  seen[z][k].id < work'[t][k].id
    BY <1>1 DEF KeysInOrder
  <2>1. serial[k] \in Nat /\ serial'[k] \in Nat /\ serial[k] <= serial'[k]
    BY DEF IInv, TypeOK
  <2>2. /\ db[k] # NoRow => db[k].id \in Nat /\ db[k].id <= serial[k]
        /\ \A t \in Sessions : seen[t][k] # NoRow =>
             seen[t][k].id \in Nat /\ seen[t][k].id <= serial[k]
    BY Held, IdType DEF IInv, EffectInv, KeysInOrder
  <2>3. ASSUME NEW t \in Sessions, Drafted(t, k)'
        PROVE  /\ work'[t][k].id <= serial'[k]
               /\ db[k] = NoRow => \A z \in Sessions :
                    seen[z][k] # NoRow => seen[z][k].id < work'[t][k].id
    <3>1. CASE work'[t][k] = work[t][k]
      <4>1. Drafted(t, k)
        BY <2>3, <3>1 DEF Drafted
      <4>2. work[t][k].id \in Nat
        BY <4>1, Held, IdType DEF Drafted, IInv
      <4> QED
        BY <2>1, <3>1, <4>1, <4>2 DEF EffectInv, KeysInOrder
    <3>2. CASE t = s /\ k \in DOMAIN rows /\ work'[t][k] = rows[k]
      <4>1. rows[k] # NoRow
        BY <2>3, <3>2 DEF Drafted
      <4>2. CASE db[k] = NoRow
        BY <2>1, <2>2, <3>2, <4>1, <4>2
      <4>3. CASE db[k] # NoRow
        <5>1. rows[k].id = db[k].id
          BY <3>2, <4>1, <4>3 DEF Effect
        <5> QED
          BY <2>1, <2>2, <3>2, <4>3, <5>1
      <4> QED
        BY <4>2, <4>3
    <3> QED
      BY <1>2, <3>1, <3>2
  <2> QED
    BY <2>1, <2>2, <2>3
<1>5. pc'[s] \in Statements => call'[s] \in Requests
  BY <1>1 DEF EffectInv
<1> QED
  BY <1>1, <1>2, <1>3, <1>4, <1>5, QuietStep

(* One row written, as an UPDATE or an INSERT does.                        *)
LEMMA WriteOneKeepsEffects ==
  ASSUME IInv, EffectInv, NEW s \in Sessions, pc[s] \in Statements,
         NEW k \in Keys, NEW row \in RowsOf(k),
         NEW next \in {"project", "relation", "commit"},
         WriteOne(s, k, row, next),
         \A x \in Keys : serial'[x] \in Nat /\ serial[x] <= serial'[x],
         Effect(call[s], k, seen[s][k], db[k], row),
         db[k] = NoRow => row.id = serial[k] + 1 /\ serial'[k] = serial[k] + 1,
         Written(s)'
  PROVE  EffectInv'
<1> DEFINE rows == [x \in {k} |-> row]
<1>1. /\ Write(s, rows, next) /\ DOMAIN rows \subseteq Keys
      /\ \A x \in DOMAIN rows : x = k /\ rows[x] = row
  BY DEF WriteOne
<1> HIDE DEF rows
<1> QED
  BY <1>1, WriteKeepsEffects

LEMMA UpdateKeepsEffects ==
  ASSUME IInv, EffectInv, NEW s \in Sessions, pc[s] \in Statements,
         NEW k \in Keys, NEW hit, NEW row,
         NEW next \in {"project", "relation", "commit"},
         UpdateParams(s, k, hit, row, next),
         db[k] # NoRow /\ hit =>
           row \in RowsOf(k) /\ Effect(call[s], k, seen[s][k], db[k], row),
         db[k] # NoRow /\ hit /\ WriteOne(s, k, row, next) => Written(s)'
  PROVE  EffectInv'
<1>1. CASE db[k] # NoRow /\ hit
  <2>1. WriteOne(s, k, row, next) /\ UNCHANGED serial
    BY <1>1 DEF UpdateParams
  <2>2. \A x \in Keys : serial'[x] \in Nat /\ serial[x] <= serial'[x]
    BY <2>1 DEF IInv, TypeOK
  <2> QED
    BY <1>1, <2>1, <2>2, WriteOneKeepsEffects
<1>2. CASE ~(db[k] # NoRow /\ hit)
  BY <1>2, RerunKeepsEffects DEF UpdateParams
<1> QED
  BY <1>1, <1>2

LEMMA InsertKeepsEffects ==
  ASSUME IInv, EffectInv, NEW s \in Sessions, pc[s] \in Statements,
         NEW k \in Keys, NEW row \in RowsOf(k), row.id = serial[k] + 1,
         NEW next \in {"project", "relation", "commit"},
         Insert(s, k, row, next),
         db[k] = NoRow => Effect(call[s], k, seen[s][k], db[k], row),
         db[k] = NoRow /\ WriteOne(s, k, row, next) => Written(s)'
  PROVE  EffectInv'
<1>1. CASE db[k] = NoRow
  <2>1. WriteOne(s, k, row, next) /\ serial' = [serial EXCEPT ![k] = @ + 1]
    BY <1>1 DEF Insert
  <2>2. \A x \in Keys : serial'[x] \in Nat /\ serial[x] <= serial'[x]
    BY <2>1 DEF IInv, TypeOK
  <2>3. serial'[k] = serial[k] + 1
    BY <2>1 DEF IInv, TypeOK
  <2> QED
    BY <1>1, <2>1, <2>2, <2>3, WriteOneKeepsEffects
<1>2. CASE db[k] # NoRow
  BY <1>2, RaiseKeepsEffects DEF Insert
<1> QED
  BY <1>1, <1>2

(* Rows that a delete_account has read and picked; those that are not      *)
(* there any more are past deleting.                                       *)
LEMMA DeleteKeepsEffects ==
  ASSUME IInv, EffectInv, NEW s \in Sessions, pc[s] \in Statements,
         NEW doomed \in SUBSET Keys,
         NEW next \in {"project", "relation", "commit"},
         call[s].op = "delete_account",
         Delete(s, doomed, next),
         \A k \in doomed : seen[s][k] # NoRow
                           /\ Deletes(call[s], k, seen[s][k]),
         (\A k \in doomed : Deleted(s, k)') => RowsDeleted(s)'
  PROVE  EffectInv'
<1> DEFINE rows == [k \in StillThere(s, doomed) |-> NoRow]
<1>1. /\ Write(s, rows, next) /\ DOMAIN rows \subseteq Keys
      /\ \A k \in DOMAIN rows :
           /\ rows[k] = NoRow /\ k \in doomed
           /\ db[k] # NoRow /\ db[k].id = seen[s][k].id
      /\ \A k \in doomed \ DOMAIN rows : Replaced(s, k)
  BY DEF Delete, StillThere, Replaced
<1>2. \A x \in Keys : serial'[x] \in Nat /\ serial[x] <= serial'[x]
  BY DEF Delete, IInv, TypeOK
<1> HIDE DEF rows
<1>3. \A k \in DOMAIN rows : Effect(call[s], k, seen[s][k], db[k], rows[k])
  BY <1>1 DEF Effect
<1>4. UNCHANGED <<db, seen, call>>
  BY <1>1 DEF Write
<1>5. \A k \in doomed : Deleted(s, k)'
  <2> SUFFICES ASSUME NEW k \in doomed PROVE Deleted(s, k)'
    OBVIOUS
  <2>1. CASE k \in DOMAIN rows
    <3>1. work'[s][k] = NoRow
      BY <1>1, <2>1 DEF Write, IInv, TypeOK
    <3> QED
      BY <3>1 DEF Deleted
  <2>2. CASE k \notin DOMAIN rows
    BY <1>1, <1>4, <2>2 DEF Deleted, Replaced
  <2> QED
    BY <2>1, <2>2
<1>6. AccountWritten(s)' /\ ProjectWritten(s)'
  BY <1>4 DEF AccountWritten, ProjectWritten
<1>7. Written(s)'
  BY <1>5, <1>6 DEF Written
<1> QED
  BY <1>1, <1>2, <1>3, <1>7, WriteKeepsEffects

-----------------------------------------------------------------------------
(* One lemma per action.                                                   *)

LEMMA ReceiveKeepsEffects ==
  ASSUME IInv, EffectInv, NEW s \in Sessions, NEW c \in Requests, Receive(s, c)
  PROVE  EffectInv'
<1>1. UNCHANGED <<db, serial, seen, work>>
  BY DEF Receive
<1>2. \A t \in Sessions \ {s} : pc'[t] = pc[t] /\ call'[t] = call[t]
  BY DEF Receive, IInv, TypeOK
<1>3. pc'[s] \in {"check", "begin"} /\ call'[s] = c /\ work[s] = Untouched
  BY DEF Receive, First, IInv, TypeOK, SessionInv, QuietOutside, Ready
<1>4. DraftsFit(s)' /\ Written(s)'
  BY <1>1, <1>3, NothingWritten
<1>5. KeysInOrder'
  BY <1>1 DEF EffectInv, KeysInOrder, Drafted
<1> QED
  BY <1>1, <1>2, <1>3, <1>4, <1>5, QuietStep

LEMMA CheckOwnerKeepsEffects ==
  ASSUME IInv, EffectInv, NEW s \in Sessions, CheckOwner(s)
  PROVE  EffectInv'
<1>1. CASE OwnerExists(call[s])
  <2>1. UNCHANGED <<db, serial, call, seen, work>> /\ work[s] = Untouched
    BY <1>1 DEF CheckOwner, At, IInv, TypeOK, SessionInv, QuietOutside
  <2>2. pc'[s] = "begin" /\ \A t \in Sessions \ {s} : pc'[t] = pc[t]
    BY <1>1 DEF CheckOwner, IInv, TypeOK
  <2>3. DraftsFit(s)' /\ Written(s)'
    BY <2>1, <2>2, NothingWritten
  <2>4. KeysInOrder'
    BY <2>1 DEF EffectInv, KeysInOrder, Drafted
  <2>5. call'[s] \in Requests
    BY <2>1 DEF EffectInv, CheckOwner, At, Statements
  <2> QED
    BY <2>1, <2>2, <2>3, <2>4, <2>5, QuietStep
<1>2. CASE ~OwnerExists(call[s])
  BY <1>2, RaiseKeepsEffects DEF CheckOwner
<1> QED
  BY <1>1, <1>2

LEMMA BeginKeepsEffects ==
  ASSUME IInv, EffectInv, NEW s \in Sessions, Begin(s)
  PROVE  EffectInv'
<1>1. CASE Finds(call[s])
  <2>1. UNCHANGED <<db, serial, call, work>> /\ work[s] = Untouched
    BY <1>1 DEF Begin, IInv, TypeOK, SessionInv, QuietOutside
  <2>2. /\ pc'[s] = FirstTable(call[s]) /\ seen'[s] = db
        /\ \A t \in Sessions \ {s} : pc'[t] = pc[t] /\ seen'[t] = seen[t]
    BY <1>1 DEF Begin, IInv, TypeOK
  <2>3. pc'[s] \in {"account", "project"}
    BY <2>2 DEF FirstTable
  <2>4. DraftsFit(s)'
    BY <2>1 DEF DraftsFit, Untouched
  <2>5. AccountWritten(s)' /\ ProjectWritten(s)'
    BY <2>3 DEF AccountWritten, ProjectWritten
  <2>6. RowsDeleted(s)'
    BY <1>1, <2>1, <2>2 DEF RowsDeleted, FirstTable, Finds
  <2>7. Written(s)'
    BY <2>5, <2>6 DEF Written
  <2>8. KeysInOrder'
    BY <2>1, <2>2 DEF EffectInv, KeysInOrder, Drafted
  <2>9. call'[s] \in Requests
    BY <2>1 DEF EffectInv, Begin, Statements
  <2> QED
    BY <2>1, <2>2, <2>4, <2>7, <2>8, <2>9, QuietStep
<1>2. CASE ~Finds(call[s])
  BY <1>2, RaiseKeepsEffects DEF Begin
<1> QED
  BY <1>1, <1>2

(* A bill or a deletion is said to have written its rows elsewhere.        *)
LEMMA WrittenByBill ==
  ASSUME NEW s \in Sessions, call'[s].op = "update_account"
  PROVE  Written(s)'
  BY DEF Written, AccountWritten, ProjectWritten, RowsDeleted

(* Fields of the rows that are worked out from others.                     *)
LEMMA BilledFields ==
  ASSUME NEW row \in AccountRow, NEW old, old.balance = row.balance,
         NEW c \in Int, now \in Nat
  PROVE  /\ Billed(row, old, c).id = row.id
         /\ Billed(row, old, c).balance = row.balance - c
         /\ Billed(row, old, c).level = row.level
         /\ Billed(row, old, c).owed <=> row.owed \/ row.balance - c < 0
<1> DEFINE balance == row.balance - c
           owed == row.owed \/ balance < 0
           owed_at == IF balance < 0 THEN now ELSE row.owed_at
<1>1. Billed(row, old, c) = [row EXCEPT !.balance = balance,
                                        !.consumption = c,
                                        !.updated_at = now, !.owed = owed,
                                        !.owed_at = owed_at]
  BY DEF Billed, AccountRow
<1> HIDE DEF balance, owed, owed_at
<1>2. /\ Billed(row, old, c).id = row.id
      /\ Billed(row, old, c).balance = balance
      /\ Billed(row, old, c).level = row.level
      /\ Billed(row, old, c).owed = owed
  BY <1>1 DEF AccountRow
<1> QED
  BY <1>2 DEF balance, owed

LEMMA ConsumedFields ==
  ASSUME NEW row \in ProjectRow \cup RelationRow, NEW old, NEW c \in Int,
         old.consumption = row.consumption
  PROVE  /\ Consumed(row, old, c).id = row.id
         /\ Consumed(row, old, c).consumption = row.consumption + c
         /\ row \in ProjectRow => Consumed(row, old, c).user_id = row.user_id
<1>1. CASE row \in ProjectRow
  BY <1>1 DEF Consumed, ProjectRow
<1>2. CASE row \in RelationRow
  BY <1>2 DEF Consumed, ProjectRow, RelationRow
<1> QED
  BY <1>1, <1>2

LEMMA ChargedFields ==
  ASSUME NEW row \in AccountRow, NEW old \in AccountRow, NEW v \in Int
  PROVE  /\ Charged(row, old, v).id = row.id
         /\ Charged(row, old, v).balance =
              IF v = 0 THEN row.balance ELSE old.balance + v
         /\ Charged(row, old, v).level = row.level
         /\ Charged(row, old, v).owed
              <=> row.owed /\ ~(old.owed /\ old.balance + v >= 0)
<1> DEFINE balance == IF v = 0 THEN row.balance ELSE old.balance + v
           owed == row.owed /\ ~(old.owed /\ old.balance + v >= 0)
<1>1. Charged(row, old, v) = [row EXCEPT !.balance = balance, !.owed = owed]
  BY DEF Charged, AccountRow
<1> HIDE DEF balance, owed
<1>2. /\ Charged(row, old, v).id = row.id
      /\ Charged(row, old, v).balance = balance
      /\ Charged(row, old, v).level = row.level
      /\ Charged(row, old, v).owed = owed
  BY <1>1 DEF AccountRow
<1> QED
  BY <1>2 DEF balance, owed

(* A charge of nothing is flushed only to clear a flag without a debt.     *)
LEMMA NothingCharged ==
  ASSUME NEW old \in AccountRow
  PROVE  Charged(old, old, 0) # old <=> old.owed /\ old.balance >= 0
<1> DEFINE owed == old.owed /\ ~(old.owed /\ old.balance + 0 >= 0)
<1>1. Charged(old, old, 0) = [old EXCEPT !.owed = owed]
  BY DEF Charged, AccountRow
<1>2. owed \in BOOLEAN /\ old.owed \in BOOLEAN
  BY DEF AccountRow
<1>3. old.balance \in Int
  BY DEF AccountRow
<1> HIDE DEF owed
<1>4. [old EXCEPT !.owed = owed] = old <=> owed = old.owed
  BY <1>2 DEF AccountRow
<1>5. owed = old.owed <=> ~(old.owed /\ old.balance >= 0)
  <2>1. old.balance + 0 = old.balance
    BY <1>3
  <2> QED
    BY <1>2, <2>1, Zenon DEF owed
<1> QED
  BY <1>1, <1>4, <1>5

LEMMA BillAccountKeepsEffects ==
  ASSUME IInv, EffectInv, NEW s \in Sessions, BillAccount(s)
  PROVE  EffectInv'
<1> DEFINE k == Account(call[s].user)
           c == call[s].amount
           hit == SameAccount(db[k], seen[s][k], c)
           row == Billed(db[k], seen[s][k], c)
<1>1. /\ call[s] \in Calls /\ call[s].op = "update_account"
      /\ pc[s] \in Statements
  BY DEF BillAccount, At, IInv, TypeOK, Statements
<1>2. c \in Int /\ k \in Keys /\ k \in AccountKeys
  BY <1>1, CallFields, KeyTypes
<1>3. UpdateParams(s, k, hit, row, "project")
  BY DEF BillAccount
<1>4. db[k] # NoRow /\ hit =>
        row \in RowsOf(k) /\ Effect(call[s], k, seen[s][k], db[k], row)
  <2> HAVE db[k] # NoRow /\ hit
  <2>1. db[k] \in AccountRow /\ RowsOf(k) = AccountRow
    BY <1>2, Held, RowKinds DEF IInv
  <2>2. now \in Nat /\ seen[s][k].balance = db[k].balance
    BY DEF IInv, TypeOK, SameAccount
  <2>3. /\ row \in AccountRow /\ row.id = db[k].id
        /\ row.balance = db[k].balance - c /\ row.level = db[k].level
        /\ row.owed <=> db[k].owed \/ db[k].balance - c < 0
    <3> HIDE DEF k, c
    <3> QED
      BY <1>2, <2>1, <2>2, BilledRow, BilledFields
  <2>4. row # NoRow
    BY <1>2, <2>1, <2>3, RowsAreRows
  <2>5. AccountBilled(call[s], k, db[k], row)
    BY <1>1, <2>3 DEF AccountBilled
  <2> QED
    BY <2>1, <2>3, <2>4, <2>5 DEF Effect
<1>5. db[k] # NoRow /\ hit /\ WriteOne(s, k, row, "project") => Written(s)'
  BY <1>1, WrittenByBill DEF WriteOne, Write
<1> HIDE DEF k, c, hit, row
<1> QED
  BY <1>1, <1>2, <1>3, <1>4, <1>5, UpdateKeepsEffects

LEMMA BillConsumptionKeepsEffects ==
  ASSUME IInv, EffectInv, NEW s \in Sessions, pc[s] \in Statements,
         call[s].op = "update_account",
         NEW k \in ProjectKeys \cup RelationKeys,
         k \in {Project(call[s].project),
                Relation(call[s].user, call[s].project)},
         NEW next \in {"project", "relation", "commit"},
         BillConsumption(s, k, next)
  PROVE  EffectInv'
<1> DEFINE c == call[s].amount
           hit == SameConsumption(db[k], seen[s][k])
           row == Consumed(db[k], seen[s][k], c)
<1>1. CASE seen[s][k] # NoRow
  <2>1. call[s] \in Calls /\ c \in Int /\ now \in Nat
    BY CallFields DEF IInv, TypeOK
  <2>2. k \in Keys
    BY DEF Keys
  <2>3. UpdateParams(s, k, hit, row, next)
    BY <1>1 DEF BillConsumption
  <2>4. db[k] # NoRow /\ hit =>
          row \in RowsOf(k) /\ Effect(call[s], k, seen[s][k], db[k], row)
    <3> HAVE db[k] # NoRow /\ hit
    <3>1. db[k] \in RowsOf(k)
      BY <2>2, Held DEF IInv
    <3>2. seen[s][k].consumption = db[k].consumption
      BY DEF SameConsumption
    <3>3. /\ row \in RowsOf(k) /\ row.id = db[k].id
          /\ row.consumption = db[k].consumption + c
          /\ k \in ProjectKeys => row.user_id = db[k].user_id
      <4>1. CASE k \in ProjectKeys
        BY <2>1, <3>1, <3>2, <4>1, RowKinds, ConsumedRow, ConsumedFields
      <4>2. CASE k \in RelationKeys
        <5>1. k \notin ProjectKeys
          BY <4>2, KeyTags
        <5> QED
          BY <2>1, <3>1, <3>2, <4>2, <5>1, RowKinds, ConsumedRow, ConsumedFields
      <4> QED
        BY <4>1, <4>2
    <3>4. k = Project(call[s].project) => k \in ProjectKeys
      BY <2>1, CallFields, KeyTypes
    <3>5. row # NoRow
      BY <2>2, <3>3, RowsAreRows
    <3>6. ConsumptionBilled(call[s], k, db[k], row)
      BY <3>3, <3>4 DEF ConsumptionBilled
    <3> QED
      BY <3>3, <3>5, <3>6 DEF Effect
  <2>5. WriteOne(s, k, row, next) => Written(s)'
    BY WrittenByBill DEF WriteOne, Write
  <2> HIDE DEF c, hit, row
  <2> QED
    BY <2>2, <2>3, <2>4, <2>5, UpdateKeepsEffects
<1>2. CASE seen[s][k] = NoRow
  BY <1>2, RaiseKeepsEffects DEF BillConsumption
<1> QED
  BY <1>1, <1>2

LEMMA BillsKeepEffects ==
  ASSUME IInv, EffectInv, NEW s \in Sessions, BillProject(s) \/ BillRelation(s)
  PROVE  EffectInv'
<1>1. /\ call[s] \in Calls /\ call[s].op = "update_account"
      /\ pc[s] \in Statements
  BY DEF BillProject, BillRelation, At, IInv, TypeOK, Statements
<1>2. /\ Project(call[s].project) \in ProjectKeys
      /\ Relation(call[s].user, call[s].project) \in RelationKeys
  BY <1>1, CallFields, KeyTypes DEF Owners
<1> QED
  BY <1>1, <1>2, BillConsumptionKeepsEffects DEF BillProject, BillRelation

LEMMA ChargeKeepsEffects ==
  ASSUME IInv, EffectInv, NEW s \in Sessions, Charge(s)
  PROVE  EffectInv'
<1> DEFINE k == Account(call[s].user)
           old == seen[s][k]
           v == call[s].amount
           row == Charged(db[k], old, v)
<1>1. /\ call[s] \in Calls /\ call[s].op = "charge_account"
      /\ pc[s] = "account" /\ pc[s] \in Statements
  BY DEF Charge, At, IInv, TypeOK, Statements
<1>2. v \in Int /\ k \in Keys /\ k \in AccountKeys
  BY <1>1, CallFields, KeyTypes
<1>3. old \in AccountRow /\ old # NoRow
  <2>1. old # NoRow
    BY <1>1 DEF IInv, SessionInv, ChargeRead
  <2> QED
    BY <1>2, <2>1, Held, RowKinds DEF IInv
<1>4. CASE /\ Charged(old, old, v) # old
           /\ db[k] # NoRow /\ db[k].id = old.id
           /\ WriteOne(s, k, row, "commit") /\ UNCHANGED serial
  <2>1. db[k] \in AccountRow /\ RowsOf(k) = AccountRow
    BY <1>2, <1>4, Held, RowKinds DEF IInv
  <2>2. /\ row \in AccountRow /\ row.id = db[k].id
        /\ row.balance = IF v = 0 THEN db[k].balance ELSE old.balance + v
        /\ row.level = db[k].level
        /\ row.owed <=> db[k].owed /\ ~(old.owed /\ old.balance + v >= 0)
    <3>1. \A r \in AccountRow :
            /\ Charged(r, old, v) \in AccountRow
            /\ Charged(r, old, v).id = r.id
            /\ Charged(r, old, v).balance =
                 IF v = 0 THEN r.balance ELSE old.balance + v
            /\ Charged(r, old, v).level = r.level
            /\ Charged(r, old, v).owed
                 <=> r.owed /\ ~(old.owed /\ old.balance + v >= 0)
      <4> HIDE DEF k, old, v
      <4> QED
        BY <1>2, <1>3, ChargedRow, ChargedFields
    <3> QED
      BY <2>1, <3>1
  <2>3. v = 0 => old.owed /\ old.balance >= 0
    <3> HIDE DEF k, old, v
    <3> QED
      BY <1>3, <1>4, NothingCharged
  <2>4. row # NoRow
    BY <1>2, <2>1, <2>2, RowsAreRows
  <2>5. AccountCharged(call[s], k, old, db[k], row)
    BY <1>1, <1>3, <1>4, <2>2, <2>3 DEF AccountCharged
  <2>6. Effect(call[s], k, old, db[k], row)
    BY <2>2, <2>4, <2>5 DEF Effect
  <2>7. Written(s)'
    <3>1. Drafted(s, k)' /\ call' = call
      BY <1>2, <1>4, <2>1, <2>2, DraftedAfter
    <3>2. AccountWritten(s)'
      BY <1>1, <3>1 DEF AccountWritten
    <3>3. ProjectWritten(s)' /\ RowsDeleted(s)'
      BY <1>1, <3>1 DEF ProjectWritten, RowsDeleted
    <3> QED
      BY <3>2, <3>3 DEF Written
  <2>8. \A x \in Keys : serial'[x] \in Nat /\ serial[x] <= serial'[x]
    BY <1>4 DEF IInv, TypeOK
  <2> HIDE DEF k, old, v, row
  <2> QED
    BY <1>1, <1>2, <1>4, <2>1, <2>2, <2>6, <2>7, <2>8, WriteOneKeepsEffects DEF old
<1>5. CASE Raise(s)
  BY <1>5, RaiseKeepsEffects
<1>6. CASE /\ Charged(old, old, v) = old
           /\ pc' = [pc EXCEPT ![s] = "commit"]
           /\ UNCHANGED <<db, serial, call, tries, seen, work, now, calls,
                          history>>
  <2>1. work[s] = Untouched
    BY <1>1 DEF IInv, SessionInv, QuietOutside
  <2>2. \A t \in Sessions \ {s} : pc'[t] = pc[t]
    BY <1>6 DEF IInv, TypeOK
  <2>3. DraftsFit(s)'
    BY <1>6, <2>1 DEF DraftsFit, Untouched
  <2>4. Written(s)'
    <3>1. AccountWritten(s)'
      BY <1>1, <1>6 DEF AccountWritten
    <3>2. ProjectWritten(s)' /\ RowsDeleted(s)'
      BY <1>1, <1>6 DEF ProjectWritten, RowsDeleted
    <3> QED
      BY <3>1, <3>2 DEF Written
  <2>5. KeysInOrder'
    BY <1>6 DEF EffectInv, KeysInOrder, Drafted
  <2>6. call'[s] \in Requests
    BY <1>1, <1>6 DEF EffectInv
  <2> QED
    BY <1>6, <2>2, <2>3, <2>4, <2>5, <2>6, QuietStep
<1> QED
  BY <1>4, <1>5, <1>6 DEF Charge

LEMMA ChangeLevelKeepsEffects ==
  ASSUME IInv, EffectInv, NEW s \in Sessions, ChangeLevel(s)
  PROVE  EffectInv'
<1> DEFINE k == Account(call[s].user)
           hit == /\ db[k].level = seen[s][k].level
                  /\ Sees(call[s].caller, call[s].user)
           row == [db[k] EXCEPT !.level = call[s].level]
<1>1. /\ call[s] \in Calls /\ call[s].op = "change_account_level"
      /\ pc[s] \in Statements
  BY DEF ChangeLevel, At, IInv, TypeOK, Statements
<1>2. call[s].level \in 0 .. 9 /\ k \in Keys /\ k \in AccountKeys
  BY <1>1, CallFields, KeyTypes
<1>3. UpdateParams(s, k, hit, row, "commit")
  BY DEF ChangeLevel
<1>4. db[k] # NoRow /\ hit =>
        row \in RowsOf(k) /\ Effect(call[s], k, seen[s][k], db[k], row)
  <2> HAVE db[k] # NoRow /\ hit
  <2>1. db[k] \in AccountRow /\ RowsOf(k) = AccountRow
    BY <1>2, Held, RowKinds DEF IInv
  <2>2. /\ row \in AccountRow /\ row.id = db[k].id
        /\ row.balance = db[k].balance /\ row.level = call[s].level
        /\ row.owed = db[k].owed
    BY <1>2, <2>1 DEF AccountRow
  <2>3. row # NoRow
    BY <1>2, <2>1, <2>2, RowsAreRows
  <2>4. LevelChanged(call[s], k, db[k], row)
    BY <1>1, <2>2 DEF LevelChanged
  <2> QED
    BY <2>1, <2>2, <2>3, <2>4 DEF Effect
<1>5. db[k] # NoRow /\ hit /\ row \in RowsOf(k) /\ WriteOne(s, k, row, "commit")
        => Written(s)'
  <2> HAVE row \in RowsOf(k) /\ WriteOne(s, k, row, "commit")
  <2>1. Drafted(s, k)' /\ call' = call
    BY <1>2, DraftedAfter
  <2>2. AccountWritten(s)' /\ ProjectWritten(s)' /\ RowsDeleted(s)'
    BY <1>1, <2>1 DEF AccountWritten, ProjectWritten, RowsDeleted
  <2> QED
    BY <2>2 DEF Written
<1> HIDE DEF k, hit, row
<1> QED
  BY <1>1, <1>2, <1>3, <1>4, <1>5, UpdateKeepsEffects

LEMMA ChangeOwnerKeepsEffects ==
  ASSUME IInv, EffectInv, NEW s \in Sessions, ChangeOwner(s)
  PROVE  EffectInv'
<1> DEFINE k == Project(call[s].project)
           hit == db[k].user_id = seen[s][k].user_id
           row == [db[k] EXCEPT !.user_id = call[s].user]
<1>1. /\ call[s] \in Calls /\ call[s].op = "change_billing_owner"
      /\ pc[s] \in Statements
  BY DEF ChangeOwner, At, IInv, TypeOK, Statements
<1>2. call[s].user \in Owners /\ k \in Keys /\ k \in ProjectKeys
  BY <1>1, CallFields, KeyTypes DEF Owners
<1>3. UpdateParams(s, k, hit, row, "relation")
  BY DEF ChangeOwner
<1>4. db[k] # NoRow /\ hit =>
        row \in RowsOf(k) /\ Effect(call[s], k, seen[s][k], db[k], row)
  <2> HAVE db[k] # NoRow /\ hit
  <2>1. db[k] \in ProjectRow /\ RowsOf(k) = ProjectRow
    BY <1>2, Held, RowKinds DEF IInv
  <2>2. /\ row \in ProjectRow /\ row.id = db[k].id
        /\ row.user_id = call[s].user /\ row.consumption = db[k].consumption
    BY <1>2, <2>1 DEF ProjectRow
  <2>3. row # NoRow
    BY <1>2, <2>1, <2>2, RowsAreRows
  <2>4. OwnerChanged(call[s], k, db[k], row)
    BY <1>1, <2>2 DEF OwnerChanged
  <2> QED
    BY <2>1, <2>2, <2>3, <2>4 DEF Effect
<1>5. db[k] # NoRow /\ hit /\ row \in RowsOf(k)
        /\ WriteOne(s, k, row, "relation") => Written(s)'
  <2> HAVE row \in RowsOf(k) /\ WriteOne(s, k, row, "relation")
  <2>1. Drafted(s, k)' /\ call' = call /\ pc'[s] = "relation"
    BY <1>2, DraftedAfter
  <2>2. AccountWritten(s)' /\ ProjectWritten(s)' /\ RowsDeleted(s)'
    BY <1>1, <2>1 DEF AccountWritten, ProjectWritten, RowsDeleted
  <2> QED
    BY <2>2 DEF Written
<1> HIDE DEF k, hit, row
<1> QED
  BY <1>1, <1>2, <1>3, <1>4, <1>5, UpdateKeepsEffects

(* The second row of change_billing_owner and of create_project.           *)
LEMMA WrittenByRelation ==
  ASSUME IInv, EffectInv, NEW s \in Sessions, pc[s] = "relation",
         call[s].op \in {"change_billing_owner", "create_project"},
         NEW k \in Keys, k = Relation(call[s].user, call[s].project),
         Project(call[s].project) \in Keys,
         NEW row \in RowsOf(k), WriteOne(s, k, row, "commit")
  PROVE  Written(s)'
<1>1. Drafted(s, Project(call[s].project))
  BY DEF EffectInv, Written, ProjectWritten
<1>2. /\ Drafted(s, k)' /\ Drafted(s, Project(call[s].project))'
      /\ call' = call
  BY <1>1, DraftedAfter
<1>3. AccountWritten(s)' /\ ProjectWritten(s)' /\ RowsDeleted(s)'
  BY <1>2 DEF AccountWritten, ProjectWritten, RowsDeleted
<1> QED
  BY <1>3 DEF Written

LEMMA RelateOwnerKeepsEffects ==
  ASSUME IInv, EffectInv, NEW s \in Sessions, RelateOwner(s)
  PROVE  EffectInv'
<1> DEFINE k == Relation(call[s].user, call[s].project)
           hit == db[k].updated_at = seen[s][k].updated_at
           row == [db[k] EXCEPT !.updated_at = now]
           fresh == [id |-> serial[k] + 1, consumption |-> 0,
                     updated_at |-> now]
<1>1. /\ call[s] \in Calls /\ call[s].op = "change_billing_owner"
      /\ pc[s] = "relation" /\ pc[s] \in Statements
  BY DEF RelateOwner, At, IInv, TypeOK, Statements
<1>2. k \in Keys /\ k \in RelationKeys /\ Project(call[s].project) \in Keys
  BY <1>1, CallFields, KeyTypes DEF Owners
<1>3. \A r \in RowsOf(k) : WriteOne(s, k, r, "commit") => Written(s)'
  <2> HIDE DEF k
  <2> QED
    BY <1>1, <1>2, WrittenByRelation DEF k
<1>4. CASE UpdateParams(s, k, hit, row, "commit")
  <2>1. db[k] # NoRow /\ hit =>
          row \in RowsOf(k) /\ Effect(call[s], k, seen[s][k], db[k], row)
    <3> HAVE db[k] # NoRow /\ hit
    <3>1. db[k] \in RelationRow /\ RowsOf(k) = RelationRow
      BY <1>2, Held, RowKinds DEF IInv
    <3>2. /\ row \in RelationRow /\ row.id = db[k].id
          /\ row.consumption = db[k].consumption
      BY <1>2, <3>1 DEF RelationRow, IInv, TypeOK
    <3>3. row # NoRow
      BY <1>2, <3>1, <3>2, RowsAreRows
    <3>4. OwnerRelated(call[s], k, db[k], row)
      BY <1>1, <3>2 DEF OwnerRelated
    <3> QED
      BY <3>1, <3>2, <3>3, <3>4 DEF Effect
  <2> HIDE DEF k, hit, row
  <2> QED
    BY <1>1, <1>2, <1>3, <1>4, <2>1, UpdateKeepsEffects
<1>5. CASE Insert(s, k, fresh, "commit")
  <2>1. fresh \in RowsOf(k) /\ fresh # NoRow
    BY <1>2, FreshRelation, RowsAreRows DEF IInv
  <2>2. db[k] = NoRow => Effect(call[s], k, seen[s][k], db[k], fresh)
    BY <1>1, <2>1 DEF Effect, OwnerRelated
  <2>3. fresh.id = serial[k] + 1
    OBVIOUS
  <2> HIDE DEF k, fresh
  <2> QED
    BY <1>1, <1>2, <1>3, <1>5, <2>1, <2>2, <2>3, InsertKeepsEffects
<1> QED
  BY <1>4, <1>5 DEF RelateOwner

LEMMA DeletesKeepEffects ==
  ASSUME IInv, EffectInv, NEW s \in Sessions,
         DeleteAccount(s) \/ DeleteProjects(s) \/ DeleteRelations(s)
  PROVE  EffectInv'
<1> DEFINE u == call[s].user
<1>1. /\ call[s] \in Calls /\ call[s].op = "delete_account"
      /\ pc[s] \in Statements
  BY DEF DeleteAccount, DeleteProjects, DeleteRelations, At, IInv, TypeOK,
         Statements
<1>2. u \in Users /\ Account(u) \in Keys /\ RowsDeleted(s)
  BY <1>1, CallFields, KeyTypes DEF EffectInv, Written
<1>3. /\ \A k \in ProjectsSeen(s, u) : k \in Keys /\ seen[s][k] # NoRow
                                       /\ Deletes(call[s], k, seen[s][k])
      /\ \A k \in RelationsSeen(s, u) : k \in Keys /\ seen[s][k] # NoRow
                                        /\ Deletes(call[s], k, seen[s][k])
  BY DEF ProjectsSeen, RelationsSeen, Deletes, Keys
<1>4. ASSUME NEW doomed \in SUBSET Keys, NEW next, Delete(s, doomed, next)
      PROVE  /\ call' = call /\ pc'[s] = next /\ seen' = seen
             /\ ProjectsSeen(s, u)' = ProjectsSeen(s, u)
             /\ RelationsSeen(s, u)' = RelationsSeen(s, u)
             /\ \A k \in Keys : Deleted(s, k) => Deleted(s, k)'
  <2>1. /\ call' = call /\ pc'[s] = next /\ seen' = seen /\ db' = db
        /\ \A k \in Keys : work[s][k] = NoRow => work'[s][k] = NoRow
    BY <1>4 DEF Delete, Write, IInv, TypeOK
  <2> QED
    BY <2>1 DEF ProjectsSeen, RelationsSeen, Deleted, Replaced
<1>5. CASE DeleteAccount(s)
  <2> DEFINE doomed == {Account(u)}
  <2>1. doomed \in SUBSET Keys /\ Delete(s, doomed, "project")
    BY <1>2, <1>5 DEF DeleteAccount
  <2>2. \A k \in doomed : seen[s][k] # NoRow /\ Deletes(call[s], k, seen[s][k])
    BY <1>1, <1>2, <1>5 DEF RowsDeleted, DeleteAccount, At, Deletes
  <2>3. (\A k \in doomed : Deleted(s, k)') => RowsDeleted(s)'
    BY <1>1, <1>4, <2>1, <2>2 DEF RowsDeleted
  <2> HIDE DEF doomed
  <2> QED
    BY <1>1, <2>1, <2>2, <2>3, DeleteKeepsEffects
<1>6. CASE DeleteProjects(s)
  <2> DEFINE doomed == ProjectsSeen(s, u)
  <2>1. doomed \in SUBSET Keys /\ Delete(s, doomed, "relation")
    BY <1>3, <1>6 DEF DeleteProjects
  <2>2. \A k \in doomed : seen[s][k] # NoRow /\ Deletes(call[s], k, seen[s][k])
    BY <1>3
  <2>3. seen[s][Account(u)] # NoRow /\ Deleted(s, Account(u))
    BY <1>1, <1>2, <1>6 DEF RowsDeleted, DeleteProjects, At
  <2>4. (\A k \in doomed : Deleted(s, k)') => RowsDeleted(s)'
    BY <1>1, <1>2, <1>4, <2>1, <2>3 DEF RowsDeleted
  <2> HIDE DEF doomed
  <2> QED
    BY <1>1, <2>1, <2>2, <2>4, DeleteKeepsEffects
<1>7. CASE DeleteRelations(s)
  <2> DEFINE doomed == RelationsSeen(s, u)
  <2>1. doomed \in SUBSET Keys /\ Delete(s, doomed, "commit")
    BY <1>3, <1>7 DEF DeleteRelations
  <2>2. \A k \in doomed : seen[s][k] # NoRow /\ Deletes(call[s], k, seen[s][k])
    BY <1>3
  <2>3. /\ seen[s][Account(u)] # NoRow /\ Deleted(s, Account(u))
        /\ \A k \in ProjectsSeen(s, u) : Deleted(s, k)
    BY <1>1, <1>2, <1>7 DEF RowsDeleted, DeleteRelations, At
  <2>4. (\A k \in doomed : Deleted(s, k)') => RowsDeleted(s)'
    BY <1>1, <1>2, <1>3, <1>4, <2>1, <2>3 DEF RowsDeleted
  <2> HIDE DEF doomed
  <2> QED
    BY <1>1, <2>1, <2>2, <2>4, DeleteKeepsEffects
<1> QED
  BY <1>5, <1>6, <1>7

LEMMA CreateAccountKeepsEffects ==
  ASSUME IInv, EffectInv, NEW s \in Sessions, CreateAccount(s)
  PROVE  EffectInv'
<1> DEFINE k == Account(call[s].user)
           row == [id |-> serial[k] + 1, balance |-> 0, consumption |-> 0,
                   level |-> call[s].level, owed |-> FALSE, owed_at |-> 0,
                   updated_at |-> 0]
<1>1. /\ call[s] \in Calls /\ call[s].op = "create_account"
      /\ pc[s] \in Statements
  BY DEF CreateAccount, At, IInv, TypeOK, Statements
<1>2. k \in AccountKeys /\ k \in Keys /\ call[s].level \in 0 .. 9
  BY <1>1, CallFields, KeyTypes
<1>3. row \in RowsOf(k) /\ row # NoRow
  <2>1. RowsOf(k) = AccountRow /\ serial[k] + 1 \in Nat
    BY <1>2, RowKinds DEF IInv, TypeOK
  <2>2. row \in RowsOf(k)
    BY <1>2, <2>1 DEF AccountRow
  <2> QED
    BY <1>2, <2>2, RowsAreRows
<1>4. Insert(s, k, row, "commit") /\ row.id = serial[k] + 1
  BY DEF CreateAccount
<1>5. db[k] = NoRow => Effect(call[s], k, seen[s][k], db[k], row)
  BY <1>1, <1>3 DEF Effect, AccountCreated
<1>6. WriteOne(s, k, row, "commit") => Written(s)'
  <2> HAVE WriteOne(s, k, row, "commit")
  <2>1. Drafted(s, k)' /\ call' = call
    BY <1>2, <1>3, DraftedAfter
  <2>2. AccountWritten(s)' /\ ProjectWritten(s)' /\ RowsDeleted(s)'
    BY <1>1, <2>1 DEF AccountWritten, ProjectWritten, RowsDeleted
  <2> QED
    BY <2>2 DEF Written
<1> HIDE DEF k, row
<1> QED
  BY <1>1, <1>2, <1>3, <1>4, <1>5, <1>6, InsertKeepsEffects

LEMMA CreateProjectKeepsEffects ==
  ASSUME IInv, EffectInv, NEW s \in Sessions, CreateProject(s)
  PROVE  EffectInv'
<1> DEFINE k == Project(call[s].project)
           row == [id |-> serial[k] + 1, user_id |-> call[s].user,
                   consumption |-> 0, updated_at |-> now]
<1>1. /\ call[s] \in Calls /\ call[s].op = "create_project"
      /\ pc[s] \in Statements
  BY DEF CreateProject, At, IInv, TypeOK, Statements
<1>2. k \in ProjectKeys /\ k \in Keys /\ call[s].user \in Owners
  BY <1>1, CallFields, KeyTypes
<1>3. row \in RowsOf(k) /\ row # NoRow
  <2>1. RowsOf(k) = ProjectRow /\ serial[k] + 1 \in Nat /\ now \in Nat
    BY <1>2, RowKinds DEF IInv, TypeOK
  <2>2. row \in RowsOf(k)
    BY <1>2, <2>1 DEF ProjectRow
  <2> QED
    BY <1>2, <2>2, RowsAreRows
<1>4. Insert(s, k, row, "relation") /\ row.id = serial[k] + 1
  BY DEF CreateProject
<1>5. db[k] = NoRow => Effect(call[s], k, seen[s][k], db[k], row)
  BY <1>1, <1>3 DEF Effect, ProjectCreated
<1>6. WriteOne(s, k, row, "relation") => Written(s)'
  <2> HAVE WriteOne(s, k, row, "relation")
  <2>1. Drafted(s, k)' /\ call' = call /\ pc'[s] = "relation"
    BY <1>2, <1>3, DraftedAfter
  <2>2. AccountWritten(s)' /\ ProjectWritten(s)' /\ RowsDeleted(s)'
    BY <1>1, <2>1 DEF AccountWritten, ProjectWritten, RowsDeleted
  <2> QED
    BY <2>2 DEF Written
<1> HIDE DEF k, row
<1> QED
  BY <1>1, <1>2, <1>3, <1>4, <1>5, <1>6, InsertKeepsEffects

LEMMA CreateRelationKeepsEffects ==
  ASSUME IInv, EffectInv, NEW s \in Sessions, CreateRelation(s)
  PROVE  EffectInv'
<1> DEFINE k == Relation(call[s].user, call[s].project)
           row == [id |-> serial[k] + 1, consumption |-> 0,
                   updated_at |-> now]
<1>1. /\ call[s] \in Calls /\ call[s].op = "create_project"
      /\ pc[s] = "relation" /\ pc[s] \in Statements
  BY DEF CreateRelation, At, IInv, TypeOK, Statements
<1>2. k \in RelationKeys /\ k \in Keys /\ Project(call[s].project) \in Keys
  BY <1>1, CallFields, KeyTypes
<1>3. row \in RowsOf(k) /\ row # NoRow
  BY <1>2, FreshRelation, RowsAreRows DEF IInv
<1>4. Insert(s, k, row, "commit") /\ row.id = serial[k] + 1
  BY DEF CreateRelation
<1>5. db[k] = NoRow => Effect(call[s], k, seen[s][k], db[k], row)
  BY <1>1, <1>3 DEF Effect, RelationCreated
<1> HIDE DEF row
<1>6. WriteOne(s, k, row, "commit") => Written(s)'
  <2> HIDE DEF k
  <2> QED
    BY <1>1, <1>2, <1>3, WrittenByRelation DEF k
<1> HIDE DEF k
<1> QED
  BY <1>1, <1>2, <1>3, <1>4, <1>5, <1>6, InsertKeepsEffects

(* What a commit does to the tables and to the other sessions.             *)
LEMMA Committed ==
  ASSUME IInv, NEW s \in Sessions, Commit(s)
  PROVE  /\ pc[s] = "commit" /\ call[s] \in Calls
         /\ pc'[s] = "idle" /\ call'[s] = NoCall
         /\ seen'[s] = Empty /\ work'[s] = Untouched /\ serial' = serial
         /\ \A k \in Keys :
              db'[k] = IF work[s][k] = Clean THEN db[k] ELSE work[s][k]
         /\ \A t \in Sessions \ {s} :
              /\ pc'[t] = pc[t] /\ call'[t] = call[t]
              /\ seen'[t] = seen[t] /\ work'[t] = work[t]
              /\ \A k \in Keys : work[t][k] # Clean => db'[k] = db[k]
<1>1. pc[s] = "commit" /\ call[s] \in Calls
  BY DEF Commit, IInv, TypeOK, Statements
<1>2. \A k \in Keys :
        db'[k] = IF work[s][k] = Clean THEN db[k] ELSE work[s][k]
  BY DEF Commit
<1>3. /\ pc'[s] = "idle" /\ call'[s] = NoCall /\ serial' = serial
      /\ seen'[s] = Empty /\ work'[s] = Untouched
      /\ \A t \in Sessions \ {s} : /\ pc'[t] = pc[t] /\ call'[t] = call[t]
                                   /\ seen'[t] = seen[t] /\ work'[t] = work[t]
  BY DEF Commit, Leave, IInv, TypeOK
<1>4. \A t \in Sessions \ {s} : \A k \in Keys :
        work[t][k] # Clean => work[s][k] = Clean
  BY DEF IInv, LockExclusion
<1> QED
  BY <1>1, <1>2, <1>3, <1>4

(* The keys of what is committed, and of what was read before.             *)
LEMMA KeysOfCommit ==
  ASSUME IInv, EffectInv, NEW s \in Sessions, NEW k \in Keys
  PROVE  /\ db[k] # NoRow => db[k].id \in Nat /\ db[k].id <= serial[k]
         /\ Drafted(s, k) =>
              /\ work[s][k].id \in Nat /\ work[s][k].id <= serial[k]
              /\ db[k] # NoRow => work[s][k].id = db[k].id
              /\ db[k] = NoRow => \A t \in Sessions :
                   seen[t][k] # NoRow => seen[t][k].id < work[s][k].id
         /\ \A t \in Sessions : seen[t][k] # NoRow => seen[t][k].id \in Nat
<1>1. DraftsFit(s) /\ KeysInOrder
  BY DEF EffectInv
<1>2. /\ db[k] # NoRow => db[k].id \in Nat
      /\ Drafted(s, k) => work[s][k].id \in Nat
      /\ \A t \in Sessions : seen[t][k] # NoRow => seen[t][k].id \in Nat
  BY Held, IdType DEF IInv, Drafted
<1>3. Drafted(s, k) /\ db[k] # NoRow => work[s][k].id = db[k].id
  BY <1>1 DEF DraftsFit, Drafted, Effect
<1> QED
  BY <1>1, <1>2, <1>3 DEF KeysInOrder

(* A row that is gone does not come back.                                  *)
LEMMA ReplacedStays ==
  ASSUME IInv, EffectInv, NEW s \in Sessions, Commit(s),
         NEW t \in Sessions, t # s, NEW k \in Keys, seen[t][k] # NoRow,
         Replaced(t, k)
  PROVE  Replaced(t, k)'
<1>1. /\ seen'[t] = seen[t]
      /\ db'[k] = IF work[s][k] = Clean THEN db[k] ELSE work[s][k]
  BY Committed
<1>2. CASE work[s][k] = Clean \/ work[s][k] = NoRow
  BY <1>1, <1>2 DEF Replaced
<1>3. CASE Drafted(s, k)
  <2>1. db'[k] = work[s][k]
    BY <1>1, <1>3 DEF Drafted
  <2>2. work[s][k].id # seen[t][k].id
    <3>1. CASE db[k] = NoRow
      BY <1>3, <3>1, KeysOfCommit
    <3>2. CASE db[k] # NoRow
      BY <1>3, <3>2, KeysOfCommit DEF Replaced
    <3> QED
      BY <3>1, <3>2
  <2> QED
    BY <1>1, <2>1, <2>2 DEF Replaced
<1> QED
  BY <1>2, <1>3 DEF Drafted

LEMMA CommitKeepsEffects ==
  ASSUME IInv, EffectInv, NEW s \in Sessions, Commit(s)
  PROVE  EffectInv'
<1>1. /\ pc'[s] = "idle" /\ work'[s] = Untouched /\ seen'[s] = Empty
      /\ serial' = serial
      /\ \A k \in Keys :
           db'[k] = IF work[s][k] = Clean THEN db[k] ELSE work[s][k]
      /\ \A t \in Sessions \ {s} :
           /\ pc'[t] = pc[t] /\ call'[t] = call[t]
           /\ seen'[t] = seen[t] /\ work'[t] = work[t]
           /\ \A k \in Keys : work[t][k] # Clean => db'[k] = db[k]
  BY Committed
<1>2. DraftsFit(s)' /\ Written(s)'
  BY <1>1, NothingWritten
<1>3. KeysInOrder'
  <2> SUFFICES ASSUME NEW k \in Keys
               PROVE  /\ db'[k] # NoRow => db'[k].id <= serial[k]
                      /\ \A t \in Sessions :
                           seen'[t][k] # NoRow => seen'[t][k].id <= serial[k]
                      /\ \A t \in Sessions : Drafted(t, k)' =>
                           /\ work'[t][k].id <= serial[k]
                           /\ db'[k] = NoRow => \A z \in Sessions :
                                seen'[z][k] # NoRow =>
                                  seen'[z][k].id < work'[t][k].id
    BY <1>1 DEF KeysInOrder
  <2>1. db'[k] # NoRow => db'[k].id <= serial[k]
    BY <1>1, KeysOfCommit DEF Drafted
  <2>2. \A z \in Sessions : seen'[z][k] # NoRow =>
          seen[z][k] # NoRow /\ seen'[z][k] = seen[z][k]
    BY <1>1 DEF Empty
  <2>3. \A t \in Sessions : Drafted(t, k)' =>
          Drafted(t, k) /\ work'[t][k] = work[t][k] /\ db'[k] = db[k]
    BY <1>1 DEF Drafted, Untouched
  <2> QED
    BY <2>1, <2>2, <2>3 DEF EffectInv, KeysInOrder
<1>4. pc'[s] \in Statements => call'[s] \in Requests
  BY <1>1 DEF Statements
<1> QED
  BY <1>1, <1>2, <1>3, <1>4, ReplacedStays, SessionStep

(* A step that leaves tables and sessions alone.                           *)
LEMMA StutterKeepsEffects ==
  ASSUME IInv, EffectInv, UNCHANGED <<db, serial, call, pc, seen, work>>
  PROVE  EffectInv'
<1>1. KeysInOrder'
  BY DEF EffectInv, KeysInOrder, Drafted
<1>2. ASSUME NEW t \in Sessions PROVE DraftsFit(t)' /\ Written(t)'
  <2>1. DraftsFit(t) /\ Written(t)
    BY DEF EffectInv
  <2>2. call[t].op = "delete_account" => call[t].user \in Users
    BY CallFields DEF IInv, TypeOK, NoCall
  <2>3. \A k \in Keys : Replaced(t, k) => Replaced(t, k)'
    BY DEF Replaced
  <2> QED
    BY <2>1, <2>2, <2>3, OtherEffects
<1>3. \A t \in Sessions : pc'[t] \in Statements => call'[t] \in Requests
  BY DEF EffectInv
<1> QED
  BY <1>1, <1>2, <1>3 DEF EffectInv

LEMMA InitEffects == Init => EffectInv
<1> SUFFICES ASSUME Init PROVE EffectInv
  OBVIOUS
<1>1. \A s \in Sessions : pc[s] = "idle" /\ work[s] = Untouched /\ seen[s] = Empty
  BY DEF Init
<1>2. ASSUME NEW s \in Sessions PROVE DraftsFit(s) /\ Written(s)
  <2>1. DraftsFit(s)
    BY <1>1 DEF DraftsFit, Untouched
  <2>2. AccountWritten(s) /\ ProjectWritten(s) /\ RowsDeleted(s)
    BY <1>1 DEF AccountWritten, ProjectWritten, RowsDeleted
  <2> QED
    BY <2>1, <2>2 DEF Written
<1>3. KeysInOrder
  <2>1. \A k \in Keys : db[k] # NoRow => db[k].id <= serial[k]
    <3> SUFFICES ASSUME NEW k \in Keys, Opening[k] # NoRow
                 PROVE  Opening[k].id <= serial[k]
      BY DEF Init
    <3>1. Opening[k] \in RowsOf(k) /\ serial[k] = Opening[k].id
      BY BillingStoreAssumption DEF Init, Databases
    <3>2. Opening[k].id \in Nat
      BY <3>1, IdType
    <3> QED
      BY <3>1, <3>2
  <2> QED
    BY <1>1, <2>1 DEF KeysInOrder, Drafted, Empty, Untouched
<1>4. \A s \in Sessions : pc[s] \notin Statements
  BY <1>1 DEF Statements
<1> QED
  BY <1>2, <1>3, <1>4 DEF EffectInv

LEMMA NextKeepsEffects == IInv /\ EffectInv /\ [Next]_vars => EffectInv'
<1> SUFFICES ASSUME IInv, EffectInv, [Next]_vars PROVE EffectInv'
  OBVIOUS
<1>1. ASSUME NEW s \in Sessions, Step(s) PROVE EffectInv'
  BY <1>1, CheckOwnerKeepsEffects, BeginKeepsEffects, BillAccountKeepsEffects,
     BillsKeepEffects, ChargeKeepsEffects, ChangeLevelKeepsEffects,
     ChangeOwnerKeepsEffects, RelateOwnerKeepsEffects, DeletesKeepEffects,
     CreateAccountKeepsEffects, CreateProjectKeepsEffects,
     CreateRelationKeepsEffects, CommitKeepsEffects DEF Step
<1>2. ASSUME NEW s \in Sessions, Deadlock(s) PROVE EffectInv'
  BY <1>2, RerunKeepsEffects DEF Deadlock, Statements
<1>3. ASSUME NEW s \in Sessions, Disconnect(s) PROVE EffectInv'
  BY <1>3, RaiseKeepsEffects DEF Disconnect
<1>4. CASE Tick
  BY <1>4, StutterKeepsEffects DEF Tick
<1>5. CASE UNCHANGED vars
  BY <1>5, StutterKeepsEffects DEF vars
<1> QED
  BY <1>1, <1>2, <1>3, <1>4, <1>5, ReceiveKeepsEffects DEF Next

LEMMA Effects == Spec => [](IInv /\ EffectInv)
<1>1. Init => IInv /\ EffectInv
  BY InitInv, InitEffects
<1>2. IInv /\ EffectInv /\ [Next]_vars => IInv' /\ EffectInv'
  BY NextKeepsInv, NextKeepsEffects
<1> QED
  BY <1>1, <1>2, PTL DEF Spec

-----------------------------------------------------------------------------
(* The tables as the Ledger sees them.                                     *)

LEMMA KeysDiffer ==
  /\ \A u, v : Account(u) = Account(v) => u = v
  /\ \A p, q : Project(p) = Project(q) => p = q
  /\ \A u, v, p, q : Relation(u, p) = Relation(v, q) => u = v /\ p = q
  /\ \A u, v, p, q : /\ Account(u) # Project(p)
                     /\ Account(u) # Relation(v, q)
                     /\ Project(p) # Relation(v, q)
  BY DEF Account, Project, Relation

LEMMA AccountView ==
  ASSUME NEW d \in Databases, NEW u \in Users
  PROVE  /\ AccountsOf(d)[u] = ViewAccount(d, u)
         /\ d[Account(u)] = NoRow => ViewAccount(d, u) = NoRow
         /\ d[Account(u)] # NoRow =>
              /\ ViewAccount(d, u) # NoRow
              /\ d[Account(u)] \in AccountRow
              /\ ViewAccount(d, u) = [balance |-> d[Account(u)].balance,
                                      level |-> d[Account(u)].level,
                                      owed |-> d[Account(u)].owed]
<1>1. d[Account(u)] # NoRow => d[Account(u)] \in AccountRow
  BY KeyTypes, RowKinds DEF Databases
<1>2. d[Account(u)] # NoRow => ViewAccount(d, u) # NoRow
  BY <1>1, LedgerAssumption DEF ViewAccount, AccountRow
<1> QED
  BY <1>1, <1>2 DEF AccountsOf, ViewAccount

LEMMA ProjectView ==
  ASSUME NEW d \in Databases, NEW p \in Projects
  PROVE  /\ ProjectsOf(d)[p] = ViewProject(d, p)
         /\ d[Project(p)] = NoRow => ViewProject(d, p) = NoRow
         /\ d[Project(p)] # NoRow =>
              /\ ViewProject(d, p) # NoRow
              /\ d[Project(p)] \in ProjectRow
              /\ ViewProject(d, p) = [user_id |-> d[Project(p)].user_id,
                                      consumption |-> d[Project(p)].consumption]
<1>1. d[Project(p)] # NoRow => d[Project(p)] \in ProjectRow
  BY KeyTypes, RowKinds DEF Databases
<1>2. d[Project(p)] # NoRow => ViewProject(d, p) # NoRow
  BY <1>1, LedgerAssumption DEF ViewProject, ProjectRow
<1> QED
  BY <1>1, <1>2 DEF ProjectsOf, ViewProject

LEMMA RelationView ==
  ASSUME NEW d \in Databases, NEW u \in Owners, NEW p \in Projects
  PROVE  /\ RelationsOf(d)[<<u, p>>] = ViewRelation(d, u, p)
         /\ d[Relation(u, p)] = NoRow => ViewRelation(d, u, p) = NoRow
         /\ d[Relation(u, p)] # NoRow =>
              /\ ViewRelation(d, u, p) # NoRow
              /\ d[Relation(u, p)] \in RelationRow
              /\ ViewRelation(d, u, p) = d[Relation(u, p)].consumption
<1>1. d[Relation(u, p)] # NoRow => d[Relation(u, p)] \in RelationRow
  BY KeyTypes, RowKinds DEF Databases
<1>2. d[Relation(u, p)] # NoRow => ViewRelation(d, u, p) # NoRow
  BY <1>1, LedgerAssumption DEF ViewRelation, RelationRow
<1>3. RelationsOf(d)[<<u, p>>] = ViewRelation(d, u, p)
  BY DEF RelationsOf
<1> QED
  BY <1>1, <1>2, <1>3 DEF ViewRelation

(* What becomes of a view when one of its rows changes, or none.           *)
LEMMA OneAccountAfter ==
  ASSUME NEW d, NEW e, NEW u \in Users,
         \A v \in Users \ {u} : e[Account(v)] = d[Account(v)]
  PROVE  AccountsOf(e) = [AccountsOf(d) EXCEPT ![u] = ViewAccount(e, u)]
  BY DEF AccountsOf, ViewAccount

LEMMA NoAccountAfter ==
  ASSUME NEW d, NEW e, \A v \in Users : e[Account(v)] = d[Account(v)]
  PROVE  AccountsOf(e) = AccountsOf(d)
  BY DEF AccountsOf, ViewAccount

LEMMA OneProjectAfter ==
  ASSUME NEW d, NEW e, NEW p \in Projects,
         \A q \in Projects \ {p} : e[Project(q)] = d[Project(q)]
  PROVE  ProjectsOf(e) = [ProjectsOf(d) EXCEPT ![p] = ViewProject(e, p)]
  BY DEF ProjectsOf, ViewProject

LEMMA NoProjectAfter ==
  ASSUME NEW d, NEW e, \A p \in Projects : e[Project(p)] = d[Project(p)]
  PROVE  ProjectsOf(e) = ProjectsOf(d)
  BY DEF ProjectsOf, ViewProject

LEMMA OneRelationAfter ==
  ASSUME NEW d, NEW e, NEW u \in Owners, NEW p \in Projects,
         \A v \in Owners, q \in Projects :
           <<v, q>> # <<u, p>> => e[Relation(v, q)] = d[Relation(v, q)]
  PROVE  RelationsOf(e) =
           [RelationsOf(d) EXCEPT ![<<u, p>>] = ViewRelation(e, u, p)]
<1>1. ASSUME NEW r \in Owners \X Projects
      PROVE  ViewRelation(e, r[1], r[2]) =
               IF r = <<u, p>> THEN ViewRelation(e, u, p)
               ELSE ViewRelation(d, r[1], r[2])
  BY <1>1 DEF ViewRelation
<1> QED
  BY <1>1 DEF RelationsOf

LEMMA NoRelationAfter ==
  ASSUME NEW d, NEW e,
         \A v \in Owners, q \in Projects : e[Relation(v, q)] = d[Relation(v, q)]
  PROVE  RelationsOf(e) = RelationsOf(d)
<1>1. ASSUME NEW r \in Owners \X Projects
      PROVE  ViewRelation(e, r[1], r[2]) = ViewRelation(d, r[1], r[2])
  BY <1>1 DEF ViewRelation
<1> QED
  BY <1>1 DEF RelationsOf

(* Before and after a commit the tables are databases; a row that the      *)
(* transaction did not write stays, one that it wrote has the effect.      *)
LEMMA CommitOfEffects ==
  ASSUME IInv, EffectInv, NEW s \in Sessions, Commit(s)
  PROVE  /\ db \in Databases /\ db' \in Databases
         /\ call[s] \in Calls
         /\ \A k \in Keys :
              \/ work[s][k] = Clean /\ db'[k] = db[k]
              \/ /\ work[s][k] # Clean /\ db'[k] = work[s][k]
                 /\ Effect(call[s], k, seen[s][k], db[k], db'[k])
<1>1. IInv'
  BY CommitKeepsInv
<1>2. db \in Databases /\ db' \in Databases
  BY <1>1 DEF IInv, TypeOK
<1>3. DraftsFit(s)
  BY DEF EffectInv
<1> QED
  BY <1>2, <1>3, Committed DEF DraftsFit

(* What effect a call may have, by its name.                               *)
LEMMA EffectByName ==
  ASSUME NEW c, NEW k, NEW old, NEW row, NEW new, Effect(c, k, old, row, new)
  PROVE  /\ new = NoRow =>
              c.op = "delete_account" /\ Deletes(c, k, old) /\ old # NoRow
         /\ new # NoRow => c.op # "delete_account"
         /\ c.op = "update_account" =>
              AccountBilled(c, k, row, new) \/ ConsumptionBilled(c, k, row, new)
         /\ c.op = "charge_account" => AccountCharged(c, k, old, row, new)
         /\ c.op = "change_account_level" => LevelChanged(c, k, row, new)
         /\ c.op = "change_billing_owner" =>
              OwnerChanged(c, k, row, new) \/ OwnerRelated(c, k, row, new)
         /\ c.op = "create_account" => AccountCreated(c, k, row, new)
         /\ c.op = "create_project" =>
              ProjectCreated(c, k, row, new) \/ RelationCreated(c, k, row, new)
  BY DEF Effect, AccountBilled, ConsumptionBilled, AccountCharged, LevelChanged,
         OwnerChanged, OwnerRelated, AccountCreated, ProjectCreated,
         RelationCreated

(* An account whose balance and flag change.                               *)
LEMMA AccountAfter ==
  ASSUME NEW d \in Databases, NEW e \in Databases, NEW u \in Users,
         \A v \in Users \ {u} : e[Account(v)] = d[Account(v)],
         d[Account(u)] # NoRow, e[Account(u)] # NoRow,
         e[Account(u)].level = d[Account(u)].level,
         NEW balance, e[Account(u)].balance = balance,
         NEW owed, e[Account(u)].owed = owed
  PROVE  AccountsOf(e) = [AccountsOf(d) EXCEPT ![u].balance = balance,
                                               ![u].owed = owed]
<1> DEFINE old == AccountsOf(d)[u]
<1>1. AccountsOf(e) = [AccountsOf(d) EXCEPT ![u] = ViewAccount(e, u)]
  BY DEF AccountsOf, ViewAccount
<1>2. /\ old = [balance |-> d[Account(u)].balance, level |-> d[Account(u)].level,
                owed |-> d[Account(u)].owed]
      /\ ViewAccount(e, u) = [balance |-> balance, level |-> d[Account(u)].level,
                              owed |-> owed]
  BY AccountView
<1>3. ViewAccount(e, u) = [old EXCEPT !.balance = balance, !.owed = owed]
  <2> DEFINE after == [i \in {"balance", "level", "owed"} |->
                         IF i = "owed" THEN owed
                         ELSE IF i = "balance" THEN balance ELSE old[i]]
  <2> HIDE DEF old
  <2>1. /\ old.level = d[Account(u)].level
        /\ old = [i \in {"balance", "level", "owed"} |-> old[i]]
    BY <1>2
  <2>2. [old EXCEPT !.balance = balance, !.owed = owed] = after
    BY <2>1
  <2>3. ViewAccount(e, u) = after
    BY <1>2, <2>1
  <2> QED
    BY <2>2, <2>3
<1> HIDE DEF old
<1>4. AccountsOf(e) = [AccountsOf(d) EXCEPT ![u] =
                         [old EXCEPT !.balance = balance, !.owed = owed]]
  BY <1>1, <1>3
<1> QED
  BY <1>4 DEF old

(* A bill writes a row of each table, and no other.                        *)
LEMMA BillEffects ==
  ASSUME IInv, EffectInv, NEW s \in Sessions, Commit(s),
         call[s].op = "update_account"
  PROVE  LET c == call[s]
             u == c.user
             p == c.project
             a == Account(u)
             b == Project(p)
             r == Relation(u, p)
         IN /\ c \in Calls /\ u \in Users /\ u \in Owners /\ p \in Projects
            /\ c.amount \in Int
            /\ db \in Databases /\ db' \in Databases
            /\ a \in Keys /\ b \in Keys /\ r \in Keys
            /\ \A k \in Keys \ {a, b, r} : db'[k] = db[k]
            /\ \A k \in {a, b, r} :
                 db'[k] # NoRow /\ Effect(c, k, seen[s][k], db[k], db'[k])
            /\ AccountBilled(c, a, db[a], db'[a])
            /\ ConsumptionBilled(c, b, db[b], db'[b])
            /\ ConsumptionBilled(c, r, db[r], db'[r])
<1> DEFINE c == call[s]
           u == c.user
           p == c.project
           a == Account(u)
           b == Project(p)
           r == Relation(u, p)
<1>1. /\ c \in Calls /\ u \in Users /\ u \in Owners /\ p \in Projects
      /\ c.amount \in Int
      /\ db \in Databases /\ db' \in Databases
  BY CommitOfEffects, CallFields DEF Owners
<1>2. /\ a \in Keys /\ b \in Keys /\ r \in Keys
      /\ b \in ProjectKeys
  BY <1>1, KeyTypes
<1>3. Drafted(s, a) /\ Drafted(s, b) /\ Drafted(s, r)
  BY Committed DEF IInv, SessionInv, BillDrafted
<1>4. \A k \in Keys \ {a, b, r} : db'[k] = db[k]
  BY CommitOfEffects, EffectByName DEF AccountBilled, ConsumptionBilled
<1>5. \A k \in {a, b, r} : db'[k] # NoRow /\ Effect(c, k, seen[s][k], db[k], db'[k])
  BY <1>2, <1>3, CommitOfEffects DEF Drafted
<1>6. /\ AccountBilled(c, a, db[a], db'[a])
      /\ ConsumptionBilled(c, b, db[b], db'[b])
      /\ ConsumptionBilled(c, r, db[r], db'[r])
  BY <1>5, EffectByName, KeysDiffer DEF AccountBilled, ConsumptionBilled
<1> QED
  BY <1>1, <1>2, <1>4, <1>5, <1>6

(* A committed bill.                                                       *)
LEMMA BillTakesEffect ==
  ASSUME IInv, EffectInv, NEW s \in Sessions, Commit(s),
         call[s].op = "update_account"
  PROVE  TheLedger!UpdateAccount(call[s])
<1> DEFINE c == call[s]
           u == c.user
           p == c.project
           a == Account(u)
           b == Project(p)
           r == Relation(u, p)
<1>1. /\ c \in Calls /\ u \in Users /\ u \in Owners /\ p \in Projects
      /\ c.amount \in Int
      /\ db \in Databases /\ db' \in Databases
  BY BillEffects
<1>4. \A k \in Keys \ {a, b, r} : db'[k] = db[k]
  BY BillEffects
<1>5. \A k \in {a, b, r} : db'[k] # NoRow /\ Effect(c, k, seen[s][k], db[k], db'[k])
  BY BillEffects
<1>6. /\ AccountBilled(c, a, db[a], db'[a])
      /\ ConsumptionBilled(c, b, db[b], db'[b])
      /\ ConsumptionBilled(c, r, db[r], db'[r])
  BY BillEffects
<1>7. /\ AccountsOf(db)[u] # NoRow
      /\ ProjectsOf(db)[p] # NoRow
      /\ RelationsOf(db)[<<u, p>>] # NoRow
  BY <1>1, <1>6, AccountView, ProjectView, RelationView
     DEF AccountBilled, ConsumptionBilled
<1>8. AccountsOf(db') =
        [AccountsOf(db) EXCEPT ![u].balance = AccountsOf(db)[u].balance - c.amount,
           ![u].owed = @ \/ AccountsOf(db)[u].balance - c.amount < 0]
  <2> DEFINE old == AccountsOf(db)[u]
             balance == old.balance - c.amount
             owed == old.owed \/ balance < 0
  <2>1. \A v \in Users \ {u} : db'[Account(v)] = db[Account(v)]
    BY <1>4, KeysDiffer, KeyTypes
  <2>2. /\ db[a] \in AccountRow /\ db'[a] \in AccountRow
        /\ old = [balance |-> db[a].balance, level |-> db[a].level,
                  owed |-> db[a].owed]
    BY <1>1, <1>5, <1>6, AccountView DEF AccountBilled
  <2>3. /\ db'[a].balance = balance /\ db'[a].level = db[a].level
        /\ old.owed = db[a].owed
    BY <1>6, <2>2 DEF AccountBilled
  <2>4. db'[a].owed = owed
    <3>1. db'[a].owed \in BOOLEAN
      BY <2>2 DEF AccountRow
    <3>2. db'[a].owed <=> owed
      BY <1>6, <2>2, <2>3 DEF AccountBilled
    <3> QED
      BY <3>1, <3>2, Zenon
  <2> HIDE DEF balance, owed, u
  <2>5. AccountsOf(db') = [AccountsOf(db) EXCEPT ![u].balance = balance,
                                                 ![u].owed = owed]
    BY <1>1, <1>5, <1>6, <2>1, <2>3, <2>4, AccountAfter DEF AccountBilled
  <2> QED
    BY <2>5 DEF owed, balance
<1>9. ProjectsOf(db') =
        [ProjectsOf(db) EXCEPT ![p].consumption = @ + c.amount]
  <2>1. \A q \in Projects \ {p} : db'[Project(q)] = db[Project(q)]
    BY <1>4, KeysDiffer, KeyTypes
  <2>2. ProjectsOf(db') = [ProjectsOf(db) EXCEPT ![p] = ViewProject(db', p)]
    <3> HIDE DEF p
    <3> QED
      BY <1>1, <2>1, OneProjectAfter
  <2>3. /\ ProjectsOf(db)[p] = [user_id |-> db[b].user_id,
                                consumption |-> db[b].consumption]
        /\ ViewProject(db', p) = [user_id |-> db'[b].user_id,
                                  consumption |-> db'[b].consumption]
    BY <1>1, <1>5, <1>6, ProjectView DEF ConsumptionBilled
  <2>4. /\ db'[b].consumption = db[b].consumption + c.amount
        /\ db'[b].user_id = db[b].user_id
    BY <1>6 DEF ConsumptionBilled
  <2>5. ViewProject(db', p) = [ProjectsOf(db)[p] EXCEPT !.consumption = @ + c.amount]
    BY <2>3, <2>4
  <2> QED
    BY <2>2, <2>5
<1>10. RelationsOf(db') = [RelationsOf(db) EXCEPT ![<<u, p>>] = @ + c.amount]
  <2>1. \A v \in Owners, q \in Projects :
          <<v, q>> # <<u, p>> => db'[Relation(v, q)] = db[Relation(v, q)]
    BY <1>4, KeysDiffer, KeyTypes
  <2>2. RelationsOf(db') =
          [RelationsOf(db) EXCEPT ![<<u, p>>] = ViewRelation(db', u, p)]
    BY <1>1, <2>1, OneRelationAfter
  <2>3. ViewRelation(db', u, p) = RelationsOf(db)[<<u, p>>] + c.amount
    BY <1>1, <1>5, <1>6, RelationView DEF ConsumptionBilled
  <2> QED
    BY <2>2, <2>3
<1> QED
  BY <1>7, <1>8, <1>9, <1>10 DEF TheLedger!UpdateAccount

(* A call that writes one account changes nothing else.                    *)
LEMMA OnlyAccount ==
  ASSUME IInv, EffectInv, NEW s \in Sessions, Commit(s),
         call[s].op \in {"charge_account", "change_account_level",
                         "create_account"}
  PROVE  /\ call[s].user \in Users /\ Account(call[s].user) \in Keys
         /\ db \in Databases /\ db' \in Databases
         /\ \A k \in Keys \ {Account(call[s].user)} : db'[k] = db[k]
         /\ \A v \in Users \ {call[s].user} : db'[Account(v)] = db[Account(v)]
         /\ ProjectsOf(db') = ProjectsOf(db)
         /\ RelationsOf(db') = RelationsOf(db)
<1>1. /\ call[s].user \in Users /\ Account(call[s].user) \in Keys
      /\ db \in Databases /\ db' \in Databases
  BY CommitOfEffects, CallFields, KeyTypes
<1>2. \A k \in Keys \ {Account(call[s].user)} : db'[k] = db[k]
  BY CommitOfEffects, EffectByName DEF AccountCharged, LevelChanged, AccountCreated
<1>3. \A v \in Users \ {call[s].user} : db'[Account(v)] = db[Account(v)]
  BY <1>2, KeysDiffer, KeyTypes
<1>4. /\ \A p \in Projects : db'[Project(p)] = db[Project(p)]
      /\ \A v \in Owners, p \in Projects :
           db'[Relation(v, p)] = db[Relation(v, p)]
  BY <1>2, KeysDiffer, KeyTypes
<1>5. ProjectsOf(db') = ProjectsOf(db)
  BY <1>4, NoProjectAfter
<1>6. RelationsOf(db') = RelationsOf(db)
  BY <1>4, NoRelationAfter
<1> QED
  BY <1>1, <1>2, <1>3, <1>5, <1>6

(* A committed charge that has read the balance it changes.                *)
LEMMA ChargeTakesEffect ==
  ASSUME IInv, EffectInv, NEW s \in Sessions, Commit(s),
         call[s].op = "charge_account",
         seen[s][Account(call[s].user)] = db[Account(call[s].user)]
  PROVE  TheLedger!ChargeAccount(call[s])
<1> DEFINE c == call[s]
           u == c.user
           a == Account(u)
           old == AccountsOf(db)[u]
           balance == old.balance + c.amount
           owed == old.owed /\ balance < 0
<1>1. /\ c \in Calls /\ c.amount \in Int /\ pc[s] = "commit"
  BY Committed, CallFields
<1>2. /\ u \in Users /\ a \in Keys /\ db \in Databases /\ db' \in Databases
      /\ \A v \in Users \ {u} : db'[Account(v)] = db[Account(v)]
      /\ ProjectsOf(db') = ProjectsOf(db) /\ RelationsOf(db') = RelationsOf(db)
  BY OnlyAccount
<1>3. db[a] # NoRow /\ db[a] \in AccountRow
  <2>1. db[a] # NoRow
    BY <1>1 DEF IInv, SessionInv, ChargeRead
  <2> QED
    BY <1>2, <2>1, AccountView
<1>4. /\ old # NoRow
      /\ old = [balance |-> db[a].balance, level |-> db[a].level,
                owed |-> db[a].owed]
  BY <1>2, <1>3, AccountView
<1>5. /\ db[a].balance \in Int /\ db[a].owed \in BOOLEAN
      /\ old.balance = db[a].balance /\ old.owed = db[a].owed
  BY <1>3, <1>4 DEF AccountRow
<1>6. /\ db'[a] # NoRow /\ db'[a].balance = balance
      /\ db'[a].level = db[a].level /\ (db'[a].owed <=> owed)
  <2>1. CASE work[s][a] = Clean
    <3>1. db'[a] = db[a]
      BY <1>2, <2>1, Committed
    <3>2. Charged(db[a], db[a], c.amount) = db[a]
      BY <1>1, <2>1 DEF EffectInv, Written, AccountWritten, Drafted
    <3>3. c.amount = 0
      <4> HIDE DEF a, c
      <4> QED
        BY <1>1, <1>3, <3>2, ChargedRow
    <3>4. ~(db[a].owed /\ db[a].balance >= 0)
      <4> HIDE DEF a, c
      <4> QED
        BY <1>3, <3>2, <3>3, NothingCharged
    <3>5. balance = db[a].balance
      BY <1>5, <3>3
    <3>6. db[a].owed <=> owed
      BY <1>5, <3>4, <3>5
    <3> QED
      BY <1>3, <3>1, <3>5, <3>6
  <2>2. CASE work[s][a] # Clean
    <3>1. db'[a] # NoRow /\ AccountCharged(c, a, db[a], db[a], db'[a])
      BY <1>2, <2>2, CommitOfEffects, EffectByName
    <3>2. db'[a].balance = balance
      BY <1>1, <1>5, <3>1 DEF AccountCharged
    <3>3. db'[a].owed <=> owed
      BY <1>1, <1>5, <3>1 DEF AccountCharged
    <3> QED
      BY <3>1, <3>2, <3>3 DEF AccountCharged
  <2> QED
    BY <2>1, <2>2
<1>7. db'[a].owed = owed
  <2>1. db'[a].owed \in BOOLEAN
    BY <1>2, <1>6, AccountView DEF AccountRow
  <2> QED
    BY <1>6, <2>1, Zenon
<1>8. AccountsOf(db') = [AccountsOf(db) EXCEPT ![u].balance = balance,
                                               ![u].owed = @ /\ balance < 0]
  <2> HIDE DEF balance, owed, u
  <2>1. AccountsOf(db') = [AccountsOf(db) EXCEPT ![u].balance = balance,
                                                 ![u].owed = owed]
    BY <1>2, <1>3, <1>6, <1>7, AccountAfter
  <2> QED
    BY <2>1 DEF owed
<1> QED
  BY <1>2, <1>4, <1>8 DEF TheLedger!ChargeAccount

LEMMA LevelTakesEffect ==
  ASSUME IInv, EffectInv, NEW s \in Sessions, Commit(s),
         call[s].op = "change_account_level"
  PROVE  TheLedger!ChangeLevel(call[s])
<1> DEFINE c == call[s]
           u == c.user
           a == Account(u)
<1>1. /\ u \in Users /\ a \in Keys /\ db \in Databases /\ db' \in Databases
      /\ \A v \in Users \ {u} : db'[Account(v)] = db[Account(v)]
      /\ ProjectsOf(db') = ProjectsOf(db) /\ RelationsOf(db') = RelationsOf(db)
  BY OnlyAccount
<1>2. Drafted(s, a)
  BY Committed DEF EffectInv, Written, AccountWritten
<1>3. db'[a] # NoRow /\ LevelChanged(c, a, db[a], db'[a])
  BY <1>1, <1>2, CommitOfEffects, EffectByName DEF Drafted
<1>4. /\ db[a] \in AccountRow /\ db'[a] \in AccountRow
      /\ AccountsOf(db)[u] # NoRow
      /\ AccountsOf(db)[u] = [balance |-> db[a].balance,
                              level |-> db[a].level, owed |-> db[a].owed]
      /\ ViewAccount(db', u) = [balance |-> db'[a].balance,
                                level |-> db'[a].level, owed |-> db'[a].owed]
  BY <1>1, <1>3, AccountView DEF LevelChanged
<1>5. db'[a].owed = db[a].owed
  BY <1>3, <1>4, Zenon DEF AccountRow, LevelChanged
<1>6. ViewAccount(db', u) = [AccountsOf(db)[u] EXCEPT !.level = c.level]
  BY <1>3, <1>4, <1>5 DEF LevelChanged
<1>7. AccountsOf(db') = [AccountsOf(db) EXCEPT ![u] = ViewAccount(db', u)]
  <2> HIDE DEF u
  <2> QED
    BY <1>1, OneAccountAfter
<1>8. AccountsOf(db') = [AccountsOf(db) EXCEPT ![u].level = c.level]
  BY <1>6, <1>7
<1> QED
  BY <1>1, <1>4, <1>8 DEF TheLedger!ChangeLevel

LEMMA CreateAccountTakesEffect ==
  ASSUME IInv, EffectInv, NEW s \in Sessions, Commit(s),
         call[s].op = "create_account"
  PROVE  TheLedger!CreateAccount(call[s])
<1> DEFINE c == call[s]
           u == c.user
           a == Account(u)
<1>1. /\ u \in Users /\ a \in Keys /\ db \in Databases /\ db' \in Databases
      /\ \A v \in Users \ {u} : db'[Account(v)] = db[Account(v)]
      /\ ProjectsOf(db') = ProjectsOf(db) /\ RelationsOf(db') = RelationsOf(db)
  BY OnlyAccount
<1>2. Drafted(s, a)
  BY Committed DEF EffectInv, Written, AccountWritten
<1>3. db'[a] # NoRow /\ AccountCreated(c, a, db[a], db'[a])
  BY <1>1, <1>2, CommitOfEffects, EffectByName DEF Drafted
<1>4. /\ AccountsOf(db)[u] = NoRow /\ db'[a] \in AccountRow
      /\ ViewAccount(db', u) = [balance |-> db'[a].balance,
                                level |-> db'[a].level, owed |-> db'[a].owed]
  BY <1>1, <1>3, AccountView DEF AccountCreated
<1>5. db'[a].owed = FALSE
  BY <1>3, <1>4, Zenon DEF AccountRow, AccountCreated
<1>6. ViewAccount(db', u) = [balance |-> 0, level |-> c.level, owed |-> FALSE]
  BY <1>3, <1>4, <1>5 DEF AccountCreated
<1>7. AccountsOf(db') = [AccountsOf(db) EXCEPT ![u] = ViewAccount(db', u)]
  <2> HIDE DEF u
  <2> QED
    BY <1>1, OneAccountAfter
<1> QED
  BY <1>1, <1>4, <1>6, <1>7 DEF TheLedger!CreateAccount

(* A call that writes one project and one relation of it.                  *)
LEMMA OnlyProject ==
  ASSUME IInv, EffectInv, NEW s \in Sessions, Commit(s),
         call[s].op \in {"change_billing_owner", "create_project"}
  PROVE  LET u == call[s].user
             p == call[s].project
             b == Project(p)
             r == Relation(u, p)
         IN /\ u \in Owners /\ p \in Projects /\ b \in Keys /\ r \in Keys
            /\ db \in Databases /\ db' \in Databases
            /\ \A k \in {b, r} :
                 db'[k] # NoRow /\ Effect(call[s], k, seen[s][k], db[k], db'[k])
            /\ \A k \in Keys \ {b, r} : db'[k] = db[k]
            /\ AccountsOf(db') = AccountsOf(db)
            /\ \A q \in Projects \ {p} : db'[Project(q)] = db[Project(q)]
            /\ \A v \in Owners, q \in Projects :
                 <<v, q>> # <<u, p>> => db'[Relation(v, q)] = db[Relation(v, q)]
<1> DEFINE u == call[s].user
           p == call[s].project
           b == Project(p)
           r == Relation(u, p)
<1>1. u \in Owners /\ p \in Projects /\ b \in Keys /\ r \in Keys
  <2>1. u \in Owners /\ p \in Projects
    BY CommitOfEffects, CallFields DEF Owners
  <2> QED
    BY <2>1, KeyTypes
<1>2. db \in Databases /\ db' \in Databases
  BY CommitOfEffects
<1>3. Drafted(s, b) /\ Drafted(s, r)
  BY Committed DEF EffectInv, Written, ProjectWritten
<1>4. \A k \in {b, r} :
        db'[k] # NoRow /\ Effect(call[s], k, seen[s][k], db[k], db'[k])
  BY <1>1, <1>3, CommitOfEffects DEF Drafted
<1>5. \A k \in Keys \ {b, r} : db'[k] = db[k]
  BY CommitOfEffects, EffectByName
     DEF OwnerChanged, OwnerRelated, ProjectCreated, RelationCreated
<1>6. AccountsOf(db') = AccountsOf(db)
  <2>1. \A v \in Users : db'[Account(v)] = db[Account(v)]
    BY <1>5, KeysDiffer, KeyTypes
  <2> QED
    BY <2>1, NoAccountAfter
<1>7. \A q \in Projects \ {p} : db'[Project(q)] = db[Project(q)]
  BY <1>5, KeysDiffer, KeyTypes
<1>8. \A v \in Owners, q \in Projects :
        <<v, q>> # <<u, p>> => db'[Relation(v, q)] = db[Relation(v, q)]
  BY <1>5, KeysDiffer, KeyTypes
<1> QED
  BY <1>1, <1>2, <1>4, <1>5, <1>6, <1>7, <1>8

(* A committed change of owner, if the account is still there.             *)
LEMMA OwnerTakesEffect ==
  ASSUME IInv, EffectInv, NEW s \in Sessions, Commit(s),
         call[s].op = "change_billing_owner",
         db[Account(call[s].user)] # NoRow
  PROVE  TheLedger!ChangeBillingOwner(call[s])
<1> DEFINE c == call[s]
           u == c.user
           p == c.project
           b == Project(p)
           r == Relation(u, p)
<1>1. /\ u \in Owners /\ p \in Projects /\ b \in Keys /\ r \in Keys
      /\ db \in Databases /\ db' \in Databases
      /\ \A k \in {b, r} : db'[k] # NoRow /\ Effect(c, k, seen[s][k], db[k], db'[k])
      /\ AccountsOf(db') = AccountsOf(db)
      /\ \A q \in Projects \ {p} : db'[Project(q)] = db[Project(q)]
      /\ \A v \in Owners, q \in Projects :
           <<v, q>> # <<u, p>> => db'[Relation(v, q)] = db[Relation(v, q)]
  BY OnlyProject
<1>2. AccountsOf(db)[u] # NoRow
  <2>1. u \in Users
    BY CommitOfEffects, CallFields
  <2> QED
    BY <1>1, <2>1, AccountView
<1>3. OwnerChanged(c, b, db[b], db'[b]) /\ OwnerRelated(c, r, db[r], db'[r])
  BY <1>1, EffectByName, KeysDiffer DEF OwnerChanged, OwnerRelated
<1>4. ProjectsOf(db)[p] # NoRow
  BY <1>1, <1>3, ProjectView DEF OwnerChanged
<1>5. ProjectsOf(db') = [ProjectsOf(db) EXCEPT ![p].user_id = u]
  <2>1. ProjectsOf(db') = [ProjectsOf(db) EXCEPT ![p] = ViewProject(db', p)]
    <3>1. /\ p \in Projects
          /\ \A q \in Projects \ {p} : db'[Project(q)] = db[Project(q)]
      BY <1>1
    <3> HIDE DEF p
    <3> QED
      BY <3>1, OneProjectAfter
  <2>2. /\ ProjectsOf(db)[p] = [user_id |-> db[b].user_id,
                                consumption |-> db[b].consumption]
        /\ ViewProject(db', p) = [user_id |-> db'[b].user_id,
                                  consumption |-> db'[b].consumption]
    BY <1>1, <1>3, ProjectView DEF OwnerChanged
  <2>3. ViewProject(db', p) = [ProjectsOf(db)[p] EXCEPT !.user_id = u]
    BY <1>3, <2>2 DEF OwnerChanged
  <2> QED
    BY <2>1, <2>3
<1>6. RelationsOf(db') =
        [RelationsOf(db) EXCEPT ![<<u, p>>] = IF @ = NoRow THEN 0 ELSE @]
  <2>1. RelationsOf(db') =
          [RelationsOf(db) EXCEPT ![<<u, p>>] = ViewRelation(db', u, p)]
    <3> HIDE DEF u, p
    <3> QED
      BY <1>1, OneRelationAfter
  <2>2. ViewRelation(db', u, p) =
          IF RelationsOf(db)[<<u, p>>] = NoRow THEN 0
          ELSE RelationsOf(db)[<<u, p>>]
    BY <1>1, <1>3, RelationView DEF OwnerRelated
  <2> QED
    BY <2>1, <2>2
<1> QED
  BY <1>1, <1>2, <1>4, <1>5, <1>6 DEF TheLedger!ChangeBillingOwner

LEMMA CreateProjectTakesEffect ==
  ASSUME IInv, EffectInv, NEW s \in Sessions, Commit(s),
         call[s].op = "create_project"
  PROVE  TheLedger!CreateProject(call[s])
<1> DEFINE c == call[s]
           u == c.user
           p == c.project
           b == Project(p)
           r == Relation(u, p)
<1>1. /\ u \in Owners /\ p \in Projects /\ b \in Keys /\ r \in Keys
      /\ db \in Databases /\ db' \in Databases
      /\ \A k \in {b, r} : db'[k] # NoRow /\ Effect(c, k, seen[s][k], db[k], db'[k])
      /\ AccountsOf(db') = AccountsOf(db)
      /\ \A q \in Projects \ {p} : db'[Project(q)] = db[Project(q)]
      /\ \A v \in Owners, q \in Projects :
           <<v, q>> # <<u, p>> => db'[Relation(v, q)] = db[Relation(v, q)]
  BY OnlyProject
<1>2. ProjectCreated(c, b, db[b], db'[b]) /\ RelationCreated(c, r, db[r], db'[r])
  BY <1>1, EffectByName, KeysDiffer DEF ProjectCreated, RelationCreated
<1>3. ProjectsOf(db)[p] = NoRow /\ RelationsOf(db)[<<u, p>>] = NoRow
  BY <1>1, <1>2, ProjectView, RelationView DEF ProjectCreated, RelationCreated
<1>4. ProjectsOf(db') =
        [ProjectsOf(db) EXCEPT ![p] = [user_id |-> u, consumption |-> 0]]
  <2>1. ProjectsOf(db') = [ProjectsOf(db) EXCEPT ![p] = ViewProject(db', p)]
    <3>1. /\ p \in Projects
          /\ \A q \in Projects \ {p} : db'[Project(q)] = db[Project(q)]
      BY <1>1
    <3> HIDE DEF p
    <3> QED
      BY <3>1, OneProjectAfter
  <2>2. ViewProject(db', p) = [user_id |-> u, consumption |-> 0]
    BY <1>1, <1>2, ProjectView DEF ProjectCreated
  <2> QED
    BY <2>1, <2>2
<1>5. RelationsOf(db') = [RelationsOf(db) EXCEPT ![<<u, p>>] = 0]
  <2>1. RelationsOf(db') =
          [RelationsOf(db) EXCEPT ![<<u, p>>] = ViewRelation(db', u, p)]
    <3> HIDE DEF u, p
    <3> QED
      BY <1>1, OneRelationAfter
  <2>2. ViewRelation(db', u, p) = 0
    BY <1>1, <1>2, RelationView DEF RelationCreated
  <2> QED
    BY <2>1, <2>2
<1> QED
  BY <1>1, <1>3, <1>4, <1>5 DEF TheLedger!CreateProject

(* A committed deletion that has read the rows it deletes.                 *)
LEMMA DeleteTakesEffect ==
  ASSUME IInv, EffectInv, NEW s \in Sessions, Commit(s),
         call[s].op = "delete_account", seen[s] = db
  PROVE  TheLedger!DeleteAccount(call[s])
<1> DEFINE c == call[s]
           u == c.user
<1>1. /\ u \in Users /\ Account(u) \in Keys
      /\ db \in Databases /\ db' \in Databases
  BY CommitOfEffects, CallFields, KeyTypes
<1>2. /\ db[Account(u)] # NoRow
      /\ Deleted(s, Account(u))
      /\ \A k \in ProjectsSeen(s, u) : Deleted(s, k)
      /\ \A k \in RelationsSeen(s, u) : Deleted(s, k)
  BY Committed DEF EffectInv, Written, RowsDeleted
<1>3. ASSUME NEW k \in Keys, db[k] # NoRow, Deleted(s, k) PROVE db'[k] = NoRow
  <2>1. work[s][k] = NoRow
    BY <1>3 DEF Deleted, Replaced
  <2> QED
    BY <2>1, Committed, BillingStoreAssumption
<1>4. ASSUME NEW k \in Keys, db'[k] # db[k]
      PROVE  db'[k] = NoRow /\ db[k] # NoRow /\ Deletes(c, k, db[k])
  BY <1>4, CommitOfEffects, EffectByName
<1>5. \A v \in Users : db'[Account(v)] = IF v = u THEN NoRow ELSE db[Account(v)]
  <2>1. db'[Account(u)] = NoRow
    BY <1>1, <1>2, <1>3
  <2>2. \A v \in Users : v # u => db'[Account(v)] = db[Account(v)]
    BY <1>4, KeysDiffer, KeyTypes, KeyTags DEF Deletes
  <2> QED
    BY <2>1, <2>2
<1>6. \A p \in Projects :
        db'[Project(p)] = IF /\ db[Project(p)] # NoRow
                             /\ db[Project(p)].user_id = u
                          THEN NoRow ELSE db[Project(p)]
  <2> SUFFICES ASSUME NEW p \in Projects
               PROVE  db'[Project(p)] = IF /\ db[Project(p)] # NoRow
                                           /\ db[Project(p)].user_id = u
                                        THEN NoRow ELSE db[Project(p)]
    OBVIOUS
  <2>1. Project(p) \in Keys /\ Project(p) \in ProjectKeys
    BY KeyTypes
  <2>2. db[Project(p)] # NoRow /\ db[Project(p)].user_id = u
          => Project(p) \in ProjectsSeen(s, u)
    BY <2>1 DEF ProjectsSeen
  <2>3. Project(p) # Account(u) /\ Project(p) \notin RelationKeys
    BY <2>1, KeysDiffer, KeyTags
  <2> QED
    BY <1>2, <1>3, <1>4, <2>1, <2>2, <2>3 DEF Deletes
<1>7. \A v \in Owners, p \in Projects :
        db'[Relation(v, p)] = IF v = u THEN NoRow ELSE db[Relation(v, p)]
  <2> SUFFICES ASSUME NEW v \in Owners, NEW p \in Projects
               PROVE  db'[Relation(v, p)] =
                        IF v = u THEN NoRow ELSE db[Relation(v, p)]
    OBVIOUS
  <2>1. Relation(v, p) \in Keys /\ Relation(v, p) \in RelationKeys
    BY KeyTypes
  <2>2. Relation(v, p)[2] = v
    BY DEF Relation
  <2>3. db[Relation(v, p)] # NoRow /\ v = u => Relation(v, p) \in RelationsSeen(s, u)
    BY <2>1, <2>2 DEF RelationsSeen
  <2>4. Relation(v, p) # Account(u) /\ Relation(v, p) \notin ProjectKeys
    BY <2>1, KeysDiffer, KeyTags
  <2> QED
    BY <1>2, <1>3, <1>4, <2>1, <2>2, <2>3, <2>4 DEF Deletes
<1>8. AccountsOf(db)[u] # NoRow
  BY <1>1, <1>2, AccountView
<1>9. AccountsOf(db') = [AccountsOf(db) EXCEPT ![u] = NoRow]
  <2>1. ViewAccount(db', u) = NoRow
    BY <1>1, <1>5, AccountView
  <2>2. AccountsOf(db') = [AccountsOf(db) EXCEPT ![u] = ViewAccount(db', u)]
    <3> HIDE DEF u
    <3> QED
      BY <1>1, <1>5, OneAccountAfter
  <2> QED
    BY <2>1, <2>2
<1>10. ProjectsOf(db') =
         [p \in Projects |->
            IF ProjectsOf(db)[p] # NoRow /\ ProjectsOf(db)[p].user_id = u
            THEN NoRow ELSE ProjectsOf(db)[p]]
  <2>1. ASSUME NEW p \in Projects
        PROVE  ViewProject(db', p) =
                 IF ProjectsOf(db)[p] # NoRow /\ ProjectsOf(db)[p].user_id = u
                 THEN NoRow ELSE ProjectsOf(db)[p]
    <3>1. CASE db[Project(p)] = NoRow
      BY <1>1, <1>6, <3>1, ProjectView
    <3>2. CASE db[Project(p)] # NoRow
      <4>1. /\ ProjectsOf(db)[p] # NoRow
            /\ ProjectsOf(db)[p].user_id = db[Project(p)].user_id
        BY <1>1, <3>2, ProjectView
      <4>2. CASE db[Project(p)].user_id = u
        BY <1>1, <1>6, <3>2, <4>1, <4>2, ProjectView
      <4>3. CASE db[Project(p)].user_id # u
        BY <1>1, <1>6, <3>2, <4>1, <4>3, ProjectView DEF ViewProject
      <4> QED
        BY <4>2, <4>3
    <3> QED
      BY <3>1, <3>2
  <2> QED
    BY <2>1 DEF ProjectsOf
<1>11. RelationsOf(db') = [r \in Owners \X Projects |->
                             IF r[1] = u THEN NoRow ELSE RelationsOf(db)[r]]
  <2>1. ASSUME NEW r \in Owners \X Projects
        PROVE  ViewRelation(db', r[1], r[2]) =
                 IF r[1] = u THEN NoRow ELSE RelationsOf(db)[r]
    BY <1>7, <2>1 DEF ViewRelation, RelationsOf
  <2> QED
    BY <2>1 DEF RelationsOf
<1> QED
  BY <1>8, <1>9, <1>10, <1>11 DEF TheLedger!DeleteAccount, TheLedger!Owners, Owners

(* One session moves at a time, and a call that returns has committed.     *)
LEMMA Moves ==
  ASSUME NEW s \in Sessions, Step(s)
  PROVE  /\ \E next : pc' = [pc EXCEPT ![s] = next]
                      /\ (next = "idle" => Commit(s))
<1>1. ASSUME NEW rows, NEW next \in {"project", "relation", "commit"},
             Write(s, rows, next)
      PROVE  \E n : pc' = [pc EXCEPT ![s] = n] /\ n # "idle"
  BY <1>1 DEF Write
<1>2. ASSUME Raise(s)
      PROVE  \E n : pc' = [pc EXCEPT ![s] = n] /\ n # "idle"
  <2>1. pc' = [pc EXCEPT ![s] = "raised"]
    BY <1>2 DEF Raise, Leave
  <2> WITNESS "raised"
  <2> QED
    BY <2>1
<1>3. ASSUME Rerun(s)
      PROVE  \E n : pc' = [pc EXCEPT ![s] = n] /\ n # "idle"
  BY <1>2, <1>3 DEF Rerun, RunAgain, Restart, First
<1>4. ASSUME NEW k, NEW hit, NEW row,
             NEW next \in {"project", "relation", "commit"},
             UpdateParams(s, k, hit, row, next) \/ Insert(s, k, row, next)
      PROVE  \E n : pc' = [pc EXCEPT ![s] = n] /\ n # "idle"
  BY <1>1, <1>2, <1>3, <1>4 DEF UpdateParams, Insert, WriteOne
<1>5. ASSUME BillAccount(s) \/ BillProject(s) \/ BillRelation(s)
               \/ ChangeLevel(s) \/ ChangeOwner(s) \/ RelateOwner(s)
               \/ CreateAccount(s) \/ CreateProject(s) \/ CreateRelation(s)
      PROVE  \E n : pc' = [pc EXCEPT ![s] = n] /\ n # "idle"
  BY <1>2, <1>4, <1>5
     DEF BillAccount, BillProject, BillRelation, BillConsumption, ChangeLevel,
         ChangeOwner, RelateOwner, CreateAccount, CreateProject, CreateRelation
<1>6. ASSUME DeleteAccount(s) \/ DeleteProjects(s) \/ DeleteRelations(s)
      PROVE  \E n : pc' = [pc EXCEPT ![s] = n] /\ n # "idle"
  BY <1>1, <1>6 DEF DeleteAccount, DeleteProjects, DeleteRelations, Delete
<1>7. ASSUME CheckOwner(s) \/ Begin(s)
      PROVE  \E n : pc' = [pc EXCEPT ![s] = n] /\ n # "idle"
  BY <1>2, <1>7 DEF CheckOwner, Begin, FirstTable
<1>8. ASSUME Charge(s)
      PROVE  \E n : pc' = [pc EXCEPT ![s] = n] /\ n # "idle"
  BY <1>1, <1>2, <1>8 DEF Charge, WriteOne
<1>9. ASSUME Commit(s) PROVE pc' = [pc EXCEPT ![s] = "idle"]
  BY <1>9 DEF Commit, Leave
<1> QED
  BY <1>5, <1>6, <1>7, <1>8, <1>9 DEF Step

LEMMA ReturnIsCommit ==
  ASSUME TypeOK, Next, NEW s \in Sessions, pc[s] = "commit", pc'[s] = "idle"
  PROVE  Commit(s)
<1>1. ASSUME NEW t \in Sessions, NEW c \in Requests, Receive(t, c) PROVE FALSE
  BY <1>1 DEF Receive, First, TypeOK, Ready
<1>2. ASSUME NEW t \in Sessions, Step(t) PROVE Commit(s)
  BY <1>2, Moves DEF TypeOK
<1>3. ASSUME NEW t \in Sessions, Deadlock(t) \/ Disconnect(t) PROVE FALSE
  BY <1>3 DEF Deadlock, Disconnect, Rerun, RunAgain, Raise, Leave, Restart, First,
              TypeOK
<1>4. ~Tick
  BY DEF Tick
<1> QED
  BY <1>1, <1>2, <1>3, <1>4 DEF Next

(* Whatever else is going on, a committed call does what the Ledger says,  *)
(* a charge if it has read the balance it changes, a deletion if it has    *)
(* read the tables it deletes from.                                        *)
LEMMA CommitTakesEffect ==
  ASSUME IInv, EffectInv, NEW s \in Sessions, Commit(s),
         call[s].op = "change_billing_owner"
           => db[Account(call[s].user)] # NoRow,
         call[s].op = "charge_account"
           => seen[s][Account(call[s].user)] = db[Account(call[s].user)],
         call[s].op = "delete_account" => seen[s] = db
  PROVE  TheLedger!Accept(call[s])
<1>1. call[s].op \in {"update_account", "charge_account",
                      "change_account_level", "change_billing_owner",
                      "delete_account", "create_account", "create_project"}
  BY Committed, CallFields
<1> QED
  BY <1>1, BillTakesEffect, ChargeTakesEffect, LevelTakesEffect,
     OwnerTakesEffect, DeleteTakesEffect, CreateAccountTakesEffect,
     CreateProjectTakesEffect DEF TheLedger!Accept

(* However many transactions run beside it, whichever of them are rerun or *)
(* cut off: a call that commits on the tables it has read leaves them as   *)
(* the Ledger says, every entry point of api.py included.                  *)
THEOREM UndisturbedCallTakesEffect == Spec => UndisturbedTakesEffect
<1>1. ASSUME IInv, EffectInv, Next, NEW s \in Sessions,
             pc[s] = "commit", pc'[s] = "idle", seen[s] = db,
             call[s].op = "change_billing_owner"
               => db[Account(call[s].user)] # NoRow
      PROVE  TheLedger!Accept(call[s])
  BY <1>1, ReturnIsCommit, CommitTakesEffect DEF IInv
<1>2. IInv /\ EffectInv /\ [Next]_vars =>
        [\A s \in Sessions :
           /\ pc[s] = "commit" /\ pc'[s] = "idle"
           /\ seen[s] = db
           /\ call[s].op = "change_billing_owner"
                => db[Account(call[s].user)] # NoRow
           => TheLedger!Accept(call[s])]_vars
  BY <1>1
<1> QED
  BY <1>2, Effects, PTL DEF Spec, UndisturbedTakesEffect

-----------------------------------------------------------------------------
(* What holds when the books are opened well.                              *)

(* A step commits a call, or it leaves the tables alone and reads them.    *)
LEMMA Reads ==
  ASSUME TypeOK, [Next]_vars
  PROVE  \/ \E s \in Sessions : Commit(s)
         \/ /\ UNCHANGED <<db, books, stale, loose>>
            /\ \A t \in Sessions : seen'[t] \in {seen[t], Empty, db}
<1>1. ASSUME NEW s \in Sessions, NEW c \in Requests, Receive(s, c)
      PROVE  UNCHANGED <<db, audit, seen>>
  BY <1>1 DEF Receive, history
<1>2. ASSUME NEW s \in Sessions, Rerun(s) \/ Raise(s)
      PROVE  /\ UNCHANGED <<db, audit>>
             /\ \A t \in Sessions : seen'[t] \in {seen[t], Empty}
  BY <1>2 DEF Rerun, RunAgain, Raise, Leave, TypeOK
<1>3. ASSUME NEW s \in Sessions, NEW rows, NEW next, Write(s, rows, next)
      PROVE  UNCHANGED <<db, audit, seen>>
  BY <1>3 DEF Write, history
<1>4. ASSUME NEW s \in Sessions, NEW k, NEW hit, NEW row, NEW next,
             UpdateParams(s, k, hit, row, next) \/ Insert(s, k, row, next)
      PROVE  /\ UNCHANGED <<db, audit>>
             /\ \A t \in Sessions : seen'[t] \in {seen[t], Empty}
  BY <1>2, <1>3, <1>4 DEF UpdateParams, Insert, WriteOne
<1>5. ASSUME NEW s \in Sessions,
             BillAccount(s) \/ BillProject(s) \/ BillRelation(s)
               \/ ChangeLevel(s) \/ ChangeOwner(s) \/ RelateOwner(s)
               \/ CreateAccount(s) \/ CreateProject(s) \/ CreateRelation(s)
      PROVE  /\ UNCHANGED <<db, audit>>
             /\ \A t \in Sessions : seen'[t] \in {seen[t], Empty}
  BY <1>2, <1>4, <1>5
     DEF BillAccount, BillProject, BillRelation, BillConsumption, ChangeLevel,
         ChangeOwner, RelateOwner, CreateAccount, CreateProject, CreateRelation
<1>6. ASSUME NEW s \in Sessions,
             DeleteAccount(s) \/ DeleteProjects(s) \/ DeleteRelations(s)
      PROVE  UNCHANGED <<db, audit, seen>>
  BY <1>3, <1>6 DEF DeleteAccount, DeleteProjects, DeleteRelations, Delete
<1>7. ASSUME NEW s \in Sessions, CheckOwner(s) \/ Begin(s)
      PROVE  /\ UNCHANGED <<db, audit>>
             /\ \A t \in Sessions : seen'[t] \in {seen[t], Empty, db}
  BY <1>2, <1>7 DEF CheckOwner, Begin, history, TypeOK
<1>8. ASSUME NEW s \in Sessions, Charge(s)
      PROVE  /\ UNCHANGED <<db, audit>>
             /\ \A t \in Sessions : seen'[t] \in {seen[t], Empty}
  BY <1>2, <1>3, <1>8 DEF Charge, WriteOne, history
<1>9. ASSUME NEW s \in Sessions, Deadlock(s) \/ Disconnect(s)
      PROVE  /\ UNCHANGED <<db, audit>>
             /\ \A t \in Sessions : seen'[t] \in {seen[t], Empty}
  BY <1>2, <1>9 DEF Deadlock, Disconnect
<1>10. ASSUME Tick \/ UNCHANGED vars
       PROVE  UNCHANGED <<db, audit, seen>>
  BY <1>10 DEF Tick, vars, history
<1> QED
  BY <1>1, <1>5, <1>6, <1>7, <1>8, <1>9, <1>10 DEF Next, Step, audit

(* The flag of an account after a commit.                                  *)
LEMMA FlagOfCommit ==
  ASSUME IInv, EffectInv, FlagInv, ChargesAreCredits,
         NEW s \in Sessions, Commit(s), NEW k \in AccountKeys, k \notin stale',
         db'[k] # NoRow
  PROVE  FlagFits(db'[k])
<1> DEFINE c == call[s]
           old == seen[s][k]
           row == db[k]
           new == db'[k]
<1>1. /\ k \in Keys /\ pc[s] = "commit" /\ c \in Calls /\ c \in Requests
      /\ RowsOf(k) = AccountRow
  BY Committed, RowKinds DEF Keys, EffectInv, Statements
<1>2. row # NoRow => k \notin stale /\ ~Outdated(s, k)
  BY <1>1 DEF Commit, Outdated
<1>3. row # NoRow => FlagFits(row) /\ row.balance \in Int
  <2>1. row # NoRow => row \in AccountRow
    BY <1>1, Held DEF IInv
  <2> QED
    BY <1>2, <2>1 DEF FlagInv, FlagsFit, AccountRow
<1>4. CASE work[s][k] = Clean
  BY <1>1, <1>3, <1>4, Committed
<1>5. CASE work[s][k] # Clean
  <2>1. Effect(c, k, old, row, new) /\ new = work[s][k]
    BY <1>1, <1>5, CommitOfEffects
  <2>2. /\ \A u : k # Project(u)
        /\ \A u, p : k # Relation(u, p)
    BY KeysDiffer DEF AccountKeys
  <2>3. new.balance \in Int
    <3>1. new \in AccountRow
      BY <1>1, <1>5, <2>1, Held DEF IInv
    <3> QED
      BY <3>1 DEF AccountRow
  <2>4. CASE AccountBilled(c, k, row, new)
    <3>1. c.amount \in Nat
      BY <1>1, <2>4, CallFields DEF AccountBilled
    <3> QED
      BY <1>3, <2>3, <2>4, <3>1 DEF AccountBilled, FlagFits
  <2>5. CASE AccountCharged(c, k, old, row, new)
    <3>1. c.amount \in Int /\ c.amount >= 0
      BY <1>1, <2>5, CallFields DEF AccountCharged, ChargesAreCredits
    <3>2. ~Replaced(s, k) /\ old # NoRow
      BY <2>5 DEF AccountCharged, Replaced
    <3>3. FlagFits(old) /\ old.balance \in Int
      <4>1. old \in AccountRow
        BY <1>1, <3>2, Held DEF IInv
      <4> QED
        BY <1>2, <2>5, <3>2, <4>1 DEF FlagInv, FlagsFit, AccountRow, AccountCharged
    <3>4. c.amount # 0 => row.balance = old.balance
      BY <1>2, <2>5 DEF Outdated, AccountCharged
    <3> QED
      BY <1>3, <2>5, <3>1, <3>3, <3>4 DEF AccountCharged, FlagFits
  <2>6. CASE LevelChanged(c, k, row, new)
    BY <1>3, <2>6 DEF LevelChanged, FlagFits
  <2>7. CASE AccountCreated(c, k, row, new)
    BY <2>7 DEF AccountCreated, FlagFits
  <2> QED
    BY <2>1, <2>2, <2>4, <2>5, <2>6, <2>7
       DEF Effect, ConsumptionBilled, OwnerChanged, OwnerRelated,
           ProjectCreated, RelationCreated
<1> QED
  BY <1>4, <1>5

LEMMA FlagsKept ==
  IInv /\ EffectInv /\ FlagInv /\ ChargesAreCredits /\ [Next]_vars => FlagInv'
<1> SUFFICES ASSUME IInv, EffectInv, FlagInv, ChargesAreCredits, [Next]_vars
             PROVE  FlagInv'
  OBVIOUS
<1>1. CASE UNCHANGED <<db, books, stale, loose>>
           /\ \A t \in Sessions : seen'[t] \in {seen[t], Empty, db}
  <2> SUFFICES ASSUME NEW k \in AccountKeys, k \notin stale
               PROVE  /\ db[k] # NoRow => FlagFits(db[k])
                      /\ \A t \in Sessions :
                           seen'[t][k] # NoRow /\ ~Replaced(t, k)'
                             => FlagFits(seen'[t][k])
    BY <1>1 DEF FlagInv, FlagsFit
  <2>1. Empty[k] = NoRow
    BY DEF Empty, Keys
  <2>2. FlagsFit(k)
    BY DEF FlagInv
  <2> QED
    BY <1>1, <2>1, <2>2 DEF FlagsFit, Replaced
<1>2. ASSUME NEW s \in Sessions, Commit(s) PROVE FlagInv'
  <2> SUFFICES ASSUME NEW k \in AccountKeys, k \notin stale',
                      NEW t \in Sessions,
                      seen'[t][k] # NoRow, ~Replaced(t, k)'
               PROVE  FlagFits(seen'[t][k])
    BY <1>2, FlagOfCommit DEF FlagInv, FlagsFit
  <2>1. k \in Keys
    BY DEF Keys
  <2>2. t # s /\ seen'[t] = seen[t]
    BY <1>2, <2>1, Committed DEF Empty
  <2>3. ~Replaced(t, k)
    BY <1>2, <2>1, <2>2, ReplacedStays
  <2>4. k \notin stale
    BY <1>2, <2>3 DEF Commit, Replaced
  <2> QED
    BY <2>2, <2>3, <2>4 DEF FlagInv, FlagsFit
<1> QED
  BY <1>1, <1>2, Reads DEF IInv

(* Nothing is deleted: a row that is committed or read stays.              *)
LEMMA NothingLost ==
  ASSUME IInv, EffectInv, NothingIsDeleted, NEW s \in Sessions, Commit(s),
         NEW k \in Keys, db[k] # NoRow
  PROVE  db'[k] # NoRow /\ db'[k].id = db[k].id
<1>1. call[s] \in Requests
  BY Committed DEF EffectInv, Statements
<1>2. call[s].op # "delete_account"
  BY <1>1 DEF NothingIsDeleted
<1> QED
  BY <1>2, CommitOfEffects DEF Effect

LEMMA RowsKept ==
  IInv /\ EffectInv /\ RowsStay /\ NothingIsDeleted /\ [Next]_vars => RowsStay'
<1> SUFFICES ASSUME IInv, EffectInv, RowsStay, NothingIsDeleted, [Next]_vars
             PROVE  RowsStay'
  OBVIOUS
<1>1. CASE UNCHANGED <<db, books, stale, loose>>
           /\ \A t \in Sessions : seen'[t] \in {seen[t], Empty, db}
  <2> SUFFICES ASSUME NEW k \in Keys, NEW t \in Sessions, seen'[t][k] # NoRow
               PROVE  ~Replaced(t, k)'
    BY DEF RowsStay
  <2>1. Empty[k] = NoRow
    BY DEF Empty
  <2> QED
    BY <1>1, <2>1 DEF RowsStay, Replaced
<1>2. ASSUME NEW s \in Sessions, Commit(s) PROVE RowsStay'
  <2> SUFFICES ASSUME NEW k \in Keys, NEW t \in Sessions, seen'[t][k] # NoRow
               PROVE  ~Replaced(t, k)'
    BY DEF RowsStay
  <2>1. seen'[t] = seen[t]
    BY <1>2, Committed DEF Empty
  <2>2. db'[k] # NoRow /\ db'[k].id = db[k].id
    BY <1>2, <2>1, NothingLost DEF RowsStay, Replaced
  <2> QED
    BY <2>1, <2>2 DEF RowsStay, Replaced
<1> QED
  BY <1>1, <1>2, Reads DEF IInv

(* The owed flag tells a debt, if it did at first.                         *)
LEMMA FlagInvariance ==
  ASSUME ChargesAreCredits
  PROVE  Spec /\ OwedTellsDebt => []FlagInv
<1>1. Init /\ OwedTellsDebt => FlagInv
  BY DEF Init, OwedTellsDebt, FlagInv, FlagsFit, Empty, Keys
<1>2. IInv /\ EffectInv /\ FlagInv /\ [Next]_vars => FlagInv'
  BY FlagsKept
<1> QED
  BY <1>1, <1>2, Effects, PTL DEF Spec

(* If the owed flag of every account tells a debt at first, it tells it    *)
(* ever after, whatever bills, charges, deletions and re-creations run     *)
(* beside each other: only an account that some charge wrote from an       *)
(* outdated snapshot may be flagged wrongly, and no charge is negative.    *)
THEOREM OwedFlagTellsDebt == Spec /\ OwedTellsDebt => []OwedTellsDebt
<1>1. CASE ChargesAreCredits
  <2>1. FlagInv => OwedTellsDebt
    BY DEF FlagInv, FlagsFit, OwedTellsDebt
  <2> QED
    BY <1>1, <2>1, FlagInvariance, PTL
<1>2. CASE ~ChargesAreCredits
  <2>1. OwedTellsDebt
    BY <1>2 DEF OwedTellsDebt
  <2> QED
    BY <2>1, PTL
<1> QED
  BY <1>1, <1>2

(* A call that has read what it goes by had read it before this step, or   *)
(* reads it in this step; a call that is crossed stays so.                 *)
LEMMA MovesOn ==
  ASSUME TypeOK, [Next]_vars, NEW s \in Sessions, HasRead(s)'
  PROVE  /\ call'[s] = call[s]
         /\ s \in crossed => s \in crossed'
         /\ call[s].op = "change_billing_owner" =>
              HasRead(s) \/ db[Account(call[s].user)] # NoRow
         /\ call[s].op # "change_billing_owner" =>
              (HasRead(s) /\ seen'[s] = seen[s]) \/ seen'[s] = db
<1> DEFINE Kept == /\ call'[s] = call[s] /\ seen'[s] = seen[s]
                   /\ s \in crossed => s \in crossed'
<1>1. CASE pc'[s] = pc[s] /\ Kept
  <2>1. HasRead(s)
    BY <1>1 DEF HasRead
  <2> QED
    BY <1>1, <2>1
<1>2. ASSUME NEW c \in Requests, Receive(s, c) PROVE FALSE
  <2>1. /\ pc'[s] = First(c) /\ call'[s] = c
    BY <1>2 DEF Receive, TypeOK
  <2> QED
    BY <2>1 DEF HasRead, First
<1>3. ASSUME Raise(s) PROVE FALSE
  BY <1>3 DEF Raise, Leave, TypeOK, HasRead
<1>4. ASSUME Rerun(s) PROVE FALSE
  BY <1>3, <1>4 DEF Rerun, RunAgain, Restart, First, TypeOK, HasRead
<1>5. ASSUME NEW rows, NEW next, Write(s, rows, next) PROVE Kept
  BY <1>5 DEF Write, history
<1>6. ASSUME NEW k, NEW hit, NEW row, NEW next,
             UpdateParams(s, k, hit, row, next) \/ Insert(s, k, row, next)
      PROVE  Kept
  BY <1>3, <1>4, <1>5, <1>6 DEF UpdateParams, Insert, WriteOne
<1>7. CASE CheckOwner(s)
  <2>1. Kept /\ call[s].op = "change_billing_owner" /\ OwnerExists(call[s])
    BY <1>3, <1>7 DEF CheckOwner, At, history
  <2> QED
    BY <2>1 DEF OwnerExists
<1>8. CASE Begin(s)
  <2>1. /\ call'[s] = call[s] /\ seen'[s] = db /\ pc[s] = "begin"
        /\ s \in crossed => s \in crossed'
    BY <1>3, <1>8 DEF Begin, history, TypeOK
  <2> QED
    BY <2>1 DEF HasRead
<1>9. CASE BillAccount(s) \/ BillProject(s) \/ BillRelation(s)
             \/ ChangeLevel(s) \/ ChangeOwner(s) \/ RelateOwner(s)
             \/ CreateAccount(s) \/ CreateProject(s) \/ CreateRelation(s)
  <2>1. Kept /\ pc[s] \in {"account", "project", "relation"}
    BY <1>3, <1>6, <1>9
       DEF BillAccount, BillProject, BillRelation, BillConsumption, ChangeLevel,
           ChangeOwner, RelateOwner, CreateAccount, CreateProject,
           CreateRelation, At
  <2> QED
    BY <2>1 DEF HasRead
<1>10. CASE Charge(s)
  <2>1. Kept /\ pc[s] = "account"
    BY <1>3, <1>5, <1>10 DEF Charge, WriteOne, At, history
  <2> QED
    BY <2>1 DEF HasRead
<1>11. CASE DeleteAccount(s) \/ DeleteProjects(s) \/ DeleteRelations(s)
  <2>1. Kept /\ pc[s] \in {"account", "project", "relation"}
    BY <1>5, <1>11
       DEF DeleteAccount, DeleteProjects, DeleteRelations, Delete, At
  <2> QED
    BY <2>1 DEF HasRead
<1>12. ~Commit(s)
  BY DEF Commit, Leave, TypeOK, HasRead
<1>13. ASSUME NEW t \in Sessions, t # s,
              Step(t) \/ Deadlock(t) \/ Disconnect(t)
                \/ \E c \in Requests : Receive(t, c)
       PROVE  pc'[s] = pc[s] /\ Kept
  <2> DEFINE Still == pc'[s] = pc[s] /\ Kept
  <2>1. ASSUME Rerun(t) \/ Raise(t) PROVE Still
    BY <1>13, <2>1 DEF Rerun, RunAgain, Raise, Leave, TypeOK
  <2>2. ASSUME NEW rows, NEW next, Write(t, rows, next) PROVE Still
    BY <1>13, <2>2 DEF Write, history, TypeOK
  <2>3. ASSUME NEW k, NEW hit, NEW row, NEW next,
               UpdateParams(t, k, hit, row, next) \/ Insert(t, k, row, next)
        PROVE  Still
    BY <2>1, <2>2, <2>3 DEF UpdateParams, Insert, WriteOne
  <2>4. ASSUME CheckOwner(t) \/ Begin(t) PROVE Still
    BY <1>13, <2>1, <2>4 DEF CheckOwner, Begin, history, TypeOK
  <2>5. ASSUME Charge(t) PROVE Still
    BY <1>13, <2>1, <2>2, <2>5 DEF Charge, WriteOne, history, TypeOK
  <2>6. ASSUME BillAccount(t) \/ BillProject(t) \/ BillRelation(t)
                 \/ ChangeLevel(t) \/ ChangeOwner(t) \/ RelateOwner(t)
                 \/ CreateAccount(t) \/ CreateProject(t) \/ CreateRelation(t)
        PROVE  Still
    BY <2>1, <2>3, <2>6
       DEF BillAccount, BillProject, BillRelation, BillConsumption, ChangeLevel,
           ChangeOwner, RelateOwner, CreateAccount, CreateProject,
           CreateRelation
  <2>7. ASSUME DeleteAccount(t) \/ DeleteProjects(t) \/ DeleteRelations(t)
        PROVE  Still
    BY <2>2, <2>7 DEF DeleteAccount, DeleteProjects, DeleteRelations, Delete
  <2>8. ASSUME Commit(t) PROVE Still
    BY <1>13, <2>8 DEF Commit, Leave, TypeOK
  <2>9. ASSUME NEW c \in Requests, Receive(t, c) PROVE Still
    BY <1>13, <2>9 DEF Receive, history, TypeOK
  <2> HIDE DEF Still
  <2>10. Still
    BY <1>13, <2>1, <2>4, <2>5, <2>6, <2>7, <2>8, <2>9
       DEF Step, Deadlock, Disconnect
  <2> QED
    BY <2>10 DEF Still
<1>14. ASSUME Tick \/ UNCHANGED vars
       PROVE  pc'[s] = pc[s] /\ Kept
  BY <1>14 DEF Tick, vars, history
<1> QED
  BY <1>1, <1>2, <1>3, <1>4, <1>7, <1>8, <1>9, <1>10, <1>11, <1>12, <1>13,
     <1>14 DEF Next, Step, Deadlock, Disconnect

LEMMA LooksKept ==
  IInv /\ EffectInv /\ OwnersLookedUp /\ NothingIsDeleted /\ [Next]_vars
    => OwnersLookedUp'
<1> SUFFICES ASSUME IInv, EffectInv, OwnersLookedUp, NothingIsDeleted,
                    [Next]_vars, NEW s \in Sessions,
                    call'[s].op = "change_billing_owner", HasRead(s)'
             PROVE  db'[Account(call'[s].user)] # NoRow
  BY DEF OwnersLookedUp
<1>1. call'[s] = call[s] /\ db[Account(call[s].user)] # NoRow
  BY MovesOn DEF IInv, OwnersLookedUp
<1>2. Account(call[s].user) \in Keys
  <2>1. call[s] \in Calls
    BY <1>1 DEF IInv, TypeOK, NoCall
  <2> QED
    BY <1>1, <2>1, CallFields, KeyTypes
<1>3. db'[Account(call[s].user)] # NoRow
  BY <1>1, <1>2, Reads, NothingLost DEF IInv
<1> QED
  BY <1>1, <1>3

LEMMA LookInvariance ==
  ASSUME NothingIsDeleted
  PROVE  Spec => [](OwnersLookedUp /\ RowsStay)
<1>1. Init => OwnersLookedUp /\ RowsStay
  BY DEF Init, OwnersLookedUp, RowsStay, Empty, HasRead
<1>2. IInv /\ EffectInv /\ OwnersLookedUp /\ RowsStay /\ [Next]_vars
        => OwnersLookedUp' /\ RowsStay'
  BY LooksKept, RowsKept
<1> QED
  BY <1>1, <1>2, Effects, PTL DEF Spec

-----------------------------------------------------------------------------
(* The payers of projects, deletions included.                             *)

(* What a commit does to a project that is not exempt afterwards.          *)
LEMMA PayerOfCommit ==
  ASSUME IInv, EffectInv, NEW s \in Sessions, Commit(s),
         NEW p \in Projects, p \notin loose', db'[Project(p)] # NoRow
  PROVE  \/ /\ Gives(call[s], p) /\ s \notin crossed
            /\ db'[Project(p)].user_id = call[s].user
         \/ /\ ~Gives(call[s], p) /\ p \notin loose
            /\ db[Project(p)] # NoRow
            /\ db'[Project(p)].user_id = db[Project(p)].user_id
            /\ db'[Project(p)].id = db[Project(p)].id
<1> DEFINE c == call[s]
           k == Project(p)
<1>1. k \in Keys
  BY KeyTypes
<1>2. /\ ~Loosens(s, p)
      /\ p \notin loose \/ Gives(c, p)
  BY DEF Commit
<1>3. CASE Gives(c, p)
  <2>1. s \notin crossed /\ c.op = "change_billing_owner" /\ c.project = p
    BY <1>2, <1>3 DEF Loosens, Gives
  <2>2. Effect(c, k, seen[s][k], db[k], db'[k])
    BY <2>1, OnlyProject
  <2>3. OwnerChanged(c, k, db[k], db'[k])
    BY <2>1, <2>2, EffectByName, KeysDiffer DEF OwnerRelated
  <2> QED
    BY <1>3, <2>1, <2>3 DEF OwnerChanged
<1>4. CASE ~Gives(c, p)
  <2>1. CASE work[s][k] = Clean
    BY <1>1, <1>2, <1>4, <2>1, Committed
  <2>2. CASE work[s][k] # Clean
    <3>1. Effect(c, k, seen[s][k], db[k], db'[k])
      BY <1>1, <2>2, CommitOfEffects
    <3>2. ~ProjectCreated(c, k, db[k], db'[k])
      BY <1>2, KeysDiffer DEF ProjectCreated, Loosens
    <3>3. ~OwnerChanged(c, k, db[k], db'[k])
      BY <1>4, KeysDiffer DEF OwnerChanged, Gives
    <3>4. ConsumptionBilled(c, k, db[k], db'[k])
      BY <3>1, <3>2, <3>3, KeysDiffer
         DEF Effect, AccountBilled, AccountCharged, LevelChanged, OwnerRelated,
             AccountCreated, RelationCreated
    <3>5. /\ db[k] # NoRow /\ db'[k].id = db[k].id
          /\ db'[k].user_id = db[k].user_id
      BY <3>1, <3>4, KeysDiffer DEF ConsumptionBilled, Effect
    <3> QED
      BY <1>2, <1>4, <3>5
  <2> QED
    BY <2>1, <2>2
<1> QED
  BY <1>3, <1>4

(* An account goes with the call that deletes it.                          *)
LEMMA AccountOfCommit ==
  ASSUME IInv, EffectInv, NEW s \in Sessions, Commit(s), NEW u \in Users,
         db[Account(u)] # NoRow, db'[Account(u)] = NoRow
  PROVE  call[s].op = "delete_account" /\ call[s].user = u
<1>1. Account(u) \in Keys /\ Account(u) \in AccountKeys
  BY KeyTypes
<1>2. Account(u) \notin ProjectKeys /\ Account(u) \notin RelationKeys
  BY <1>1, KeyTags
<1>3. Effect(call[s], Account(u), seen[s][Account(u)], db[Account(u)],
             db'[Account(u)])
  BY <1>1, CommitOfEffects
<1>4. call[s].op = "delete_account"
        /\ Deletes(call[s], Account(u), seen[s][Account(u)])
  BY <1>3 DEF Effect
<1> QED
  BY <1>2, <1>4, KeysDiffer DEF Deletes

(* Two calls of which one commits and the other has read do not cross, or  *)
(* the other is marked.                                                    *)
LEMMA Uncrossed ==
  ASSUME TypeOK, NEW s \in Sessions, Commit(s), NEW t \in Sessions,
         HasRead(t)', t \notin crossed'
  PROVE  /\ t # s /\ HasRead(t) /\ t \notin crossed
         /\ call'[t] = call[t] /\ seen'[t] = seen[t]
         /\ ~Crosses(call[s], call[t])
<1>1. t # s
  BY DEF Commit, Leave, TypeOK, HasRead
<1>2. call'[t] = call[t] /\ seen'[t] = seen[t] /\ pc'[t] = pc[t]
  BY <1>1 DEF Commit, Leave, TypeOK
<1>3. HasRead(t)
  BY <1>2 DEF HasRead
<1> QED
  BY <1>1, <1>2, <1>3 DEF Commit

LEMMA CommitKeepsPayers ==
  ASSUME IInv, EffectInv, PayerInv, NEW s \in Sessions, Commit(s)
  PROVE  PayerInv'
<1> DEFINE c == call[s]
<1>1. c \in Calls /\ pc[s] = "commit"
  BY Committed
<1>2. ASSUME NEW p \in Projects, p \notin loose', db'[Project(p)] # NoRow
      PROVE  \E u \in Users :
               db'[Project(p)].user_id = u /\ db'[Account(u)] # NoRow
  <2>1. CASE /\ Gives(c, p) /\ s \notin crossed
             /\ db'[Project(p)].user_id = c.user
    <3>1. c.user \in Users /\ c.op = "change_billing_owner"
      BY <1>1, <2>1, CallFields DEF Gives
    <3>2. db[Account(c.user)] # NoRow
      BY <1>1, <2>1, <3>1 DEF PayerInv, PayerFound, HasRead
    <3>3. db'[Account(c.user)] # NoRow
      BY <3>1, <3>2, AccountOfCommit
    <3> QED
      BY <2>1, <3>1, <3>3
  <2>2. CASE /\ ~Gives(c, p) /\ p \notin loose
             /\ db[Project(p)] # NoRow
             /\ db'[Project(p)].user_id = db[Project(p)].user_id
    <3>1. PICK u \in Users :
            db[Project(p)].user_id = u /\ db[Account(u)] # NoRow
      BY <2>2 DEF PayerInv, PayersHaveAccounts
    <3>2. ASSUME db'[Account(u)] = NoRow PROVE FALSE
      <4>1. c.op = "delete_account" /\ c.user = u
        BY <3>1, <3>2, AccountOfCommit
      <4>2. s \notin crossed
        BY <1>2, <2>2, <3>1, <4>1 DEF Commit, Loosens
      <4>3. Project(p) \in ProjectsSeen(s, u) /\ ~Replaced(s, Project(p))
        BY <1>1, <2>2, <3>1, <4>1, <4>2
           DEF PayerInv, ProjectsFound, HasRead
      <4>4. Deleted(s, Project(p))
        BY <1>1, <4>1, <4>3 DEF EffectInv, Written, RowsDeleted
      <4>5. work[s][Project(p)] = NoRow
        BY <4>3, <4>4 DEF Deleted
      <4> QED
        BY <1>2, <4>5, KeyTypes, Committed, BillingStoreAssumption
    <3> QED
      BY <2>2, <3>1, <3>2
  <2> QED
    BY <1>2, <2>1, <2>2, PayerOfCommit
<1>3. ASSUME NEW t \in Sessions PROVE PayerFound(t)'
  <2> SUFFICES ASSUME call'[t].op = "change_billing_owner", HasRead(t)',
                      t \notin crossed', db'[Account(call'[t].user)] = NoRow
               PROVE  FALSE
    BY DEF PayerFound
  <2>1. /\ HasRead(t) /\ t \notin crossed /\ call'[t] = call[t]
        /\ ~Crosses(c, call[t])
    BY Uncrossed DEF IInv
  <2>2. call[t].user \in Users /\ db[Account(call[t].user)] # NoRow
    <3>1. call[t] \in Calls
      BY <2>1 DEF IInv, TypeOK, NoCall
    <3> QED
      BY <2>1, <3>1, CallFields DEF PayerInv, PayerFound
  <2>3. c.op = "delete_account" /\ c.user = call[t].user
    BY <2>1, <2>2, AccountOfCommit
  <2> QED
    BY <2>1, <2>3 DEF Crosses
<1>4. ASSUME NEW t \in Sessions PROVE ProjectsFound(t)'
  <2> SUFFICES ASSUME call'[t].op = "delete_account", HasRead(t)',
                      t \notin crossed', NEW p \in Projects, p \notin loose',
                      db'[Project(p)] # NoRow,
                      db'[Project(p)].user_id = call'[t].user
               PROVE  /\ (Project(p) \in ProjectsSeen(t, call[t].user))'
                      /\ ~Replaced(t, Project(p))'
    BY DEF ProjectsFound
  <2>1. /\ HasRead(t) /\ t \notin crossed
        /\ call'[t] = call[t] /\ seen'[t] = seen[t]
        /\ ~Crosses(c, call[t])
    BY Uncrossed DEF IInv
  <2>2. ~(Gives(c, p) /\ db'[Project(p)].user_id = c.user)
    BY <2>1 DEF Crosses, Gives
  <2>3. /\ p \notin loose /\ db[Project(p)] # NoRow
        /\ db'[Project(p)].user_id = db[Project(p)].user_id
        /\ db'[Project(p)].id = db[Project(p)].id
    BY <2>2, PayerOfCommit
  <2>4. /\ Project(p) \in ProjectsSeen(t, call[t].user)
        /\ ~Replaced(t, Project(p))
    BY <2>1, <2>3 DEF PayerInv, ProjectsFound
  <2> QED
    BY <2>1, <2>3, <2>4 DEF ProjectsSeen, Replaced
<1> QED
  BY <1>2, <1>3, <1>4 DEF PayerInv, PayersHaveAccounts

LEMMA PayersKept ==
  IInv /\ EffectInv /\ PayerInv /\ [Next]_vars => PayerInv'
<1> SUFFICES ASSUME IInv, EffectInv, PayerInv, [Next]_vars PROVE PayerInv'
  OBVIOUS
<1>1. CASE UNCHANGED <<db, books, stale, loose>>
  <2>1. PayersHaveAccounts'
    BY <1>1 DEF PayerInv, PayersHaveAccounts
  <2>2. ASSUME NEW t \in Sessions PROVE PayerFound(t)'
    BY <1>1, MovesOn DEF IInv, PayerInv, PayerFound
  <2>3. ASSUME NEW t \in Sessions PROVE ProjectsFound(t)'
    <3> SUFFICES ASSUME call'[t].op = "delete_account", HasRead(t)',
                        t \notin crossed', NEW p \in Projects \ loose,
                        db[Project(p)] # NoRow,
                        db[Project(p)].user_id = call'[t].user
                 PROVE  /\ (Project(p) \in ProjectsSeen(t, call[t].user))'
                        /\ ~Replaced(t, Project(p))'
      BY <1>1 DEF ProjectsFound
    <3>1. call'[t] = call[t] /\ t \notin crossed
      BY MovesOn DEF IInv
    <3>2. CASE HasRead(t) /\ seen'[t] = seen[t]
      <4>1. /\ Project(p) \in ProjectsSeen(t, call[t].user)
            /\ ~Replaced(t, Project(p))
        BY <3>1, <3>2 DEF PayerInv, ProjectsFound
      <4> QED
        BY <1>1, <3>1, <3>2, <4>1 DEF ProjectsSeen, Replaced
    <3>3. CASE seen'[t] = db
      BY <1>1, <3>1, <3>3, KeyTypes DEF ProjectsSeen, Replaced
    <3> QED
      BY <3>1, <3>2, <3>3, MovesOn DEF IInv
  <2> QED
    BY <2>1, <2>2, <2>3 DEF PayerInv
<1> QED
  BY <1>1, CommitKeepsPayers, Reads DEF IInv

(* Whatever is created, changed or deleted, in any order and beside each   *)
(* other, rerun or cut off anywhere: if every payer has an account at      *)
(* first, a project that is there has one to charge, but for those that    *)
(* PayersHaveAccounts exempts.  What change_billing_owner looks up in a    *)
(* session of its own holds until it commits, and delete_account takes all *)
(* of a payer's projects along, unless the two run beside each other for   *)
(* the same user.                                                          *)
THEOREM PayersKeepAccounts == Spec /\ PayersHaveAccounts => []PayersHaveAccounts
<1>1. Init /\ PayersHaveAccounts => PayerInv
  BY DEF Init, PayerInv, PayerFound, ProjectsFound, HasRead
<1>2. IInv /\ EffectInv /\ PayerInv /\ [Next]_vars => PayerInv'
  BY PayersKept
<1>3. PayerInv => PayersHaveAccounts
  BY DEF PayerInv
<1> QED
  BY <1>1, <1>2, <1>3, Effects, PTL DEF Spec

-----------------------------------------------------------------------------
(* The relations of projects.                                              *)

LEMMA RelatedKept ==
  IInv /\ EffectInv /\ OwnerIsRelated /\ NothingIsDeleted /\ [Next]_vars
    => OwnerIsRelated'
<1> SUFFICES ASSUME IInv, EffectInv, OwnerIsRelated, NothingIsDeleted,
                    [Next]_vars, NEW p \in Projects, db'[Project(p)] # NoRow
             PROVE  db'[Relation(db'[Project(p)].user_id, p)] # NoRow
  BY DEF OwnerIsRelated
<1> DEFINE b == Project(p)
<1>1. b \in Keys /\ b \in ProjectKeys
  BY KeyTypes
<1>2. db[b] # NoRow => /\ db[b].user_id \in Owners
                       /\ Relation(db[b].user_id, p) \in Keys
                       /\ db[Relation(db[b].user_id, p)] # NoRow
  <2>1. db[b] # NoRow => db[b].user_id \in Owners
    <3>1. db[b] # NoRow => db[b] \in ProjectRow
      BY <1>1, Held, RowKinds DEF IInv
    <3> QED
      BY <3>1 DEF ProjectRow
  <2> QED
    BY <2>1, KeyTypes DEF OwnerIsRelated
<1>3. CASE UNCHANGED db
  BY <1>2, <1>3
<1>4. ASSUME NEW s \in Sessions, Commit(s)
      PROVE  db'[Relation(db'[b].user_id, p)] # NoRow
  <2>1. CASE db[b] # NoRow /\ db'[b].user_id = db[b].user_id
    BY <1>2, <1>4, <2>1, NothingLost
  <2>2. CASE ~(db[b] # NoRow /\ db'[b].user_id = db[b].user_id)
    <3>1. Effect(call[s], b, seen[s][b], db[b], db'[b])
      BY <1>1, <1>4, <2>2, CommitOfEffects
    <3>2. \/ OwnerChanged(call[s], b, db[b], db'[b])
          \/ ProjectCreated(call[s], b, db[b], db'[b])
      BY <2>2, <3>1, KeysDiffer
         DEF Effect, AccountBilled, ConsumptionBilled, AccountCharged,
             LevelChanged, OwnerRelated, AccountCreated, RelationCreated
    <3>3. /\ call[s].op \in {"change_billing_owner", "create_project"}
          /\ p = call[s].project /\ db'[b].user_id = call[s].user
      BY <3>2, KeysDiffer DEF OwnerChanged, ProjectCreated
    <3>4. db'[Relation(call[s].user, call[s].project)] # NoRow
      BY <1>4, <3>3, OnlyProject
    <3> QED
      BY <3>3, <3>4
  <2> QED
    BY <2>1, <2>2
<1> QED
  BY <1>3, <1>4, Reads DEF IInv

(* As long as no account is deleted, every project keeps a relation to its *)
(* payer, the row without which update_account never bills it again, if    *)
(* every project has one at first: beside changes of owner, bills and new  *)
(* projects in any order, rerun or cut off anywhere.                       *)
THEOREM OwnerStaysRelated ==
  ASSUME NothingIsDeleted
  PROVE  Spec /\ OwnerIsRelated => []OwnerIsRelated
<1>1. IInv /\ EffectInv /\ OwnerIsRelated /\ [Next]_vars => OwnerIsRelated'
  BY RelatedKept
<1> QED
  BY <1>1, Effects, PTL DEF Spec

-----------------------------------------------------------------------------
(* The shares of a project.                                                *)

LEMMA ShareTypes ==
  ASSUME NEW d \in Databases, NEW p \in Projects, NEW u \in Owners
  PROVE  /\ d[Project(p)] # NoRow => d[Project(p)].consumption \in Int
         /\ d[Relation(u, p)] = NoRow => Shares(d, p)[u] = 0
         /\ d[Relation(u, p)] # NoRow =>
              /\ Shares(d, p)[u] = d[Relation(u, p)].consumption
              /\ d[Relation(u, p)].consumption \in Int
         /\ Shares(d, p)[u] \in Int
<1>1. /\ Project(p) \in Keys /\ Project(p) \in ProjectKeys
      /\ Relation(u, p) \in Keys /\ Relation(u, p) \in RelationKeys
  BY KeyTypes
<1>2. /\ d[Project(p)] # NoRow => d[Project(p)] \in ProjectRow
      /\ d[Relation(u, p)] # NoRow => d[Relation(u, p)] \in RelationRow
  BY <1>1, RowKinds DEF Databases
<1>3. Shares(d, p)[u] = IF d[Relation(u, p)] = NoRow THEN 0
                        ELSE d[Relation(u, p)].consumption
  BY DEF Shares
<1> QED
  BY <1>2, <1>3 DEF ProjectRow, RelationRow

LEMMA SameShares ==
  ASSUME NEW d, NEW e, NEW p \in Projects,
         \A u \in Owners : e[Relation(u, p)] = d[Relation(u, p)]
  PROVE  Shares(e, p) = Shares(d, p)
  BY DEF Shares

LEMMA OneShareChanges ==
  ASSUME IsFiniteSet(Users), NEW d \in Databases, NEW e \in Databases,
         NEW p \in Projects, NEW u \in Owners,
         \A v \in Owners \ {u} : e[Relation(v, p)] = d[Relation(v, p)]
  PROVE  SumFunctionOnSet(Shares(e, p), Owners) =
           SumFunctionOnSet(Shares(d, p), Owners)
             + (Shares(e, p)[u] - Shares(d, p)[u])
<1> DEFINE f == Shares(d, p)
           g == Shares(e, p)
<1>1. IsFiniteSet(Owners)
  BY FS_AddElement DEF Owners
<1>2. \A v \in Owners : f[v] \in Int /\ g[v] \in Int
  BY ShareTypes
<1>3. \A v \in Owners \ {u} : g[v] = f[v]
  BY DEF Shares
<1> HIDE DEF f, g
<1>4. SumFunctionOnSet(g, Owners) = SumFunctionOnSet(f, Owners) + (g[u] - f[u])
  BY <1>1, <1>2, <1>3, SumOfChange
<1> QED
  BY <1>4 DEF f, g

LEMMA NoShares ==
  ASSUME IsFiniteSet(Users), NEW d \in Databases, NEW p \in Projects,
         \A u \in Owners : d[Relation(u, p)] = NoRow
  PROVE  SumFunctionOnSet(Shares(d, p), Owners) = 0
<1> DEFINE f == Shares(d, p)
<1>1. IsFiniteSet(Owners)
  BY FS_AddElement DEF Owners
<1>2. \A v \in Owners : f[v] = 0
  BY ShareTypes
<1> HIDE DEF f
<1>3. SumFunctionOnSet(f, Owners) = 0
  BY <1>1, <1>2, SumOfNothing
<1> QED
  BY <1>3 DEF f

(* The numbers of the sum are numbers.                                     *)
LEMMA SumOfShares ==
  ASSUME IsFiniteSet(Users), NEW d \in Databases, NEW p \in Projects
  PROVE  SumFunctionOnSet(Shares(d, p), Owners) \in Int
<1> DEFINE f == Shares(d, p)
<1>1. IsFiniteSet(Owners)
  BY FS_AddElement DEF Owners
<1>2. \A v \in Owners : f[v] \in Int
  BY ShareTypes
<1> HIDE DEF f
<1>3. SumFunctionOnSet(f, Owners) \in Int
  BY <1>1, <1>2, SumType
<1> QED
  BY <1>3 DEF f

(* Project p, or its absence, is in step with its relations.               *)
SharedOut(d, p) ==
  IF d[Project(p)] = NoRow THEN \A u \in Owners : d[Relation(u, p)] = NoRow
  ELSE d[Project(p)].consumption = SumFunctionOnSet(Shares(d, p), Owners)

LEMMA SharesUntouched ==
  ASSUME NEW d, NEW e, NEW p \in Projects, SharedOut(d, p),
         e[Project(p)] = d[Project(p)],
         \A u \in Owners : e[Relation(u, p)] = d[Relation(u, p)]
  PROVE  SharedOut(e, p)
<1>1. Shares(e, p) = Shares(d, p)
  BY SameShares
<1> QED
  BY <1>1 DEF SharedOut

(* A bill adds as much to the project as to the payer's relation.          *)
LEMMA BillIsShared ==
  ASSUME IsFiniteSet(Users), IInv, EffectInv, NEW s \in Sessions, Commit(s),
         call[s].op = "update_account",
         \A p \in Projects : SharedOut(db, p), NEW q \in Projects
  PROVE  SharedOut(db', q)
<1> DEFINE c == call[s]
           u == c.user
           p == c.project
           a == Account(u)
           b == Project(p)
           r == Relation(u, p)
<1>1. /\ u \in Owners /\ p \in Projects /\ c.amount \in Int
      /\ db \in Databases /\ db' \in Databases
      /\ \A k \in Keys \ {a, b, r} : db'[k] = db[k]
      /\ db'[b] # NoRow /\ db'[r] # NoRow
      /\ ConsumptionBilled(c, b, db[b], db'[b])
      /\ ConsumptionBilled(c, r, db[r], db'[r])
  BY BillEffects
<1>2. CASE q # p
  <2>1. /\ db'[Project(q)] = db[Project(q)]
        /\ \A v \in Owners : db'[Relation(v, q)] = db[Relation(v, q)]
    BY <1>1, <1>2, KeysDiffer, KeyTypes
  <2> QED
    BY <2>1, SharesUntouched
<1>3. CASE q = p
  <2>1. \A v \in Owners \ {u} : db'[Relation(v, p)] = db[Relation(v, p)]
    BY <1>1, KeysDiffer, KeyTypes
  <2>2. /\ db[b] # NoRow /\ db'[b].consumption = db[b].consumption + c.amount
        /\ db[r] # NoRow /\ db'[r].consumption = db[r].consumption + c.amount
    BY <1>1 DEF ConsumptionBilled
  <2>3. SumFunctionOnSet(Shares(db', p), Owners) =
          SumFunctionOnSet(Shares(db, p), Owners)
            + (Shares(db', p)[u] - Shares(db, p)[u])
    BY <1>1, <2>1, OneShareChanges
  <2>4. /\ Shares(db', p)[u] = db'[r].consumption
        /\ Shares(db, p)[u] = db[r].consumption
        /\ db[b].consumption \in Int /\ db[r].consumption \in Int
    BY <1>1, <2>2, ShareTypes
  <2>5. db[b].consumption = SumFunctionOnSet(Shares(db, p), Owners)
    BY <1>1, <2>2 DEF SharedOut
  <2>6. db'[b].consumption = SumFunctionOnSet(Shares(db', p), Owners)
    BY <1>1, <2>2, <2>3, <2>4, <2>5
  <2> QED
    BY <1>1, <1>3, <2>6 DEF SharedOut
<1> QED
  BY <1>2, <1>3

(* A new relation has no share, one that is touched keeps its own.         *)
LEMMA RelationIsShared ==
  ASSUME IsFiniteSet(Users), IInv, EffectInv, NEW s \in Sessions, Commit(s),
         call[s].op \in {"change_billing_owner", "create_project"},
         \A p \in Projects : SharedOut(db, p), NEW q \in Projects
  PROVE  SharedOut(db', q)
<1> DEFINE c == call[s]
           u == c.user
           p == c.project
           b == Project(p)
           r == Relation(u, p)
<1>1. /\ u \in Owners /\ p \in Projects
      /\ db \in Databases /\ db' \in Databases
      /\ \A k \in {b, r} :
           db'[k] # NoRow /\ Effect(c, k, seen[s][k], db[k], db'[k])
      /\ \A v \in Projects \ {p} : db'[Project(v)] = db[Project(v)]
      /\ \A v \in Owners, w \in Projects :
           <<v, w>> # <<u, p>> => db'[Relation(v, w)] = db[Relation(v, w)]
  BY OnlyProject
<1>2. CASE q # p
  <2>1. /\ db'[Project(q)] = db[Project(q)]
        /\ \A v \in Owners : db'[Relation(v, q)] = db[Relation(v, q)]
    BY <1>1, <1>2
  <2> QED
    BY <2>1, SharesUntouched
<1>3. CASE q = p
  <2>1. \A v \in Owners \ {u} : db'[Relation(v, p)] = db[Relation(v, p)]
    BY <1>1
  <2>2. SumFunctionOnSet(Shares(db', p), Owners) =
          SumFunctionOnSet(Shares(db, p), Owners)
            + (Shares(db', p)[u] - Shares(db, p)[u])
    BY <1>1, <2>1, OneShareChanges
  <2>3. CASE c.op = "change_billing_owner"
    <3>1. /\ OwnerChanged(c, b, db[b], db'[b])
          /\ OwnerRelated(c, r, db[r], db'[r])
      BY <1>1, <2>3, EffectByName, KeysDiffer DEF OwnerChanged, OwnerRelated
    <3>2. Shares(db', p)[u] = Shares(db, p)[u] /\ Shares(db, p)[u] \in Int
      BY <1>1, <3>1, ShareTypes DEF OwnerRelated
    <3>3. db[b] # NoRow /\ db'[b].consumption = db[b].consumption
      BY <3>1 DEF OwnerChanged
    <3>4. SumFunctionOnSet(Shares(db, p), Owners) \in Int
      BY <1>1, SumOfShares
    <3>5. db[b].consumption = SumFunctionOnSet(Shares(db, p), Owners)
      BY <1>1, <3>3 DEF SharedOut
    <3>6. db'[b].consumption = SumFunctionOnSet(Shares(db', p), Owners)
      BY <2>2, <3>2, <3>3, <3>4, <3>5
    <3> QED
      BY <1>1, <1>3, <3>6 DEF SharedOut
  <2>4. CASE c.op = "create_project"
    <3>1. /\ ProjectCreated(c, b, db[b], db'[b])
          /\ RelationCreated(c, r, db[r], db'[r])
      BY <1>1, <2>4, EffectByName, KeysDiffer DEF ProjectCreated, RelationCreated
    <3>2. Shares(db', p)[u] = 0 /\ Shares(db, p)[u] = 0
      BY <1>1, <3>1, ShareTypes DEF RelationCreated
    <3>3. db[b] = NoRow /\ db'[b].consumption = 0
      BY <3>1 DEF ProjectCreated
    <3>4. \A v \in Owners : db[Relation(v, p)] = NoRow
      BY <1>1, <3>3 DEF SharedOut
    <3>5. SumFunctionOnSet(Shares(db, p), Owners) = 0
      BY <1>1, <3>4, NoShares
    <3>6. db'[b].consumption = SumFunctionOnSet(Shares(db', p), Owners)
      BY <2>2, <3>2, <3>3, <3>5
    <3> QED
      BY <1>1, <1>3, <3>6 DEF SharedOut
  <2> QED
    BY <2>3, <2>4
<1> QED
  BY <1>2, <1>3

LEMMA SharesKept ==
  ASSUME IsFiniteSet(Users), NothingIsDeleted
  PROVE  IInv /\ EffectInv /\ ProjectIsSumOfRelations /\ NoOrphans /\ [Next]_vars
           => ProjectIsSumOfRelations' /\ NoOrphans'
<1> SUFFICES ASSUME IInv, EffectInv, ProjectIsSumOfRelations, NoOrphans,
                    [Next]_vars
             PROVE  \A q \in Projects : SharedOut(db', q)
  BY DEF ProjectIsSumOfRelations, NoOrphans, SharedOut
<1>1. \A q \in Projects : SharedOut(db, q)
  BY DEF ProjectIsSumOfRelations, NoOrphans, SharedOut
<1>2. CASE UNCHANGED db
  BY <1>1, <1>2
<1>3. ASSUME NEW s \in Sessions, Commit(s), NEW q \in Projects
      PROVE  SharedOut(db', q)
  <2>1. /\ call[s].op # "delete_account"
        /\ call[s] \in Calls
    BY <1>3, Committed DEF EffectInv, Statements, NothingIsDeleted
  <2>2. CASE call[s].op = "update_account"
    BY <1>1, <1>3, <2>2, BillIsShared
  <2>3. CASE call[s].op \in {"change_billing_owner", "create_project"}
    BY <1>1, <1>3, <2>3, RelationIsShared
  <2>4. CASE call[s].op \in {"charge_account", "change_account_level",
                             "create_account"}
    <3>1. \A k \in Keys \ {Account(call[s].user)} : db'[k] = db[k]
      BY <1>3, <2>4, OnlyAccount
    <3>2. /\ db'[Project(q)] = db[Project(q)]
          /\ \A v \in Owners : db'[Relation(v, q)] = db[Relation(v, q)]
      BY <3>1, KeysDiffer, KeyTypes
    <3> QED
      BY <1>1, <3>2, SharesUntouched
  <2> QED
    BY <2>1, <2>2, <2>3, <2>4, CallFields
<1> QED
  BY <1>2, <1>3, Reads DEF IInv

(* As long as no account is deleted, what a project has consumed is shared *)
(* out among the users who have paid for it, if it is so at first and no   *)
(* relation is left of a project that is gone: bills, changes of owner and *)
(* new projects, rerun or cut off anywhere, never write one without the    *)
(* other.                                                                  *)
THEOREM ConsumptionIsSharedOut ==
  ASSUME IsFiniteSet(Users), NothingIsDeleted
  PROVE  Spec /\ ProjectIsSumOfRelations /\ NoOrphans
           => []ProjectIsSumOfRelations
<1>1. IInv /\ EffectInv /\ ProjectIsSumOfRelations /\ NoOrphans /\ [Next]_vars
        => ProjectIsSumOfRelations' /\ NoOrphans'
  BY SharesKept
<1> QED
  BY <1>1, Effects, PTL DEF Spec

(* A charge of nothing leaves the tables as they are.                      *)
LEMMA NoChargeNoEffect ==
  ASSUME IInv, EffectInv, FlagInv, RowsStay, NoneStale,
         NEW s \in Sessions, Commit(s),
         call[s].op = "charge_account", call[s].amount = 0
  PROVE  /\ AccountsOf(db') = AccountsOf(db)
         /\ ProjectsOf(db') = ProjectsOf(db)
         /\ RelationsOf(db') = RelationsOf(db)
<1> DEFINE k == Account(call[s].user)
           old == seen[s][k]
<1>1. /\ call[s].user \in Users /\ k \in Keys /\ k \in AccountKeys
      /\ \A x \in Keys \ {k} : db'[x] = db[x]
      /\ ProjectsOf(db') = ProjectsOf(db) /\ RelationsOf(db') = RelationsOf(db)
  BY OnlyAccount, KeyTypes
<1>2. old # NoRow /\ old \in AccountRow /\ FlagFits(old)
  <2>1. old # NoRow
    BY Committed DEF IInv, SessionInv, ChargeRead
  <2>2. old \in AccountRow
    BY <1>1, <2>1, Held, RowKinds DEF IInv
  <2> QED
    BY <1>1, <2>1, <2>2 DEF FlagInv, FlagsFit, RowsStay, NoneStale
<1>3. work[s][k] = Clean
  <2> SUFFICES ASSUME work[s][k] # Clean PROVE FALSE
    OBVIOUS
  <2>1. AccountCharged(call[s], k, old, db[k], db'[k])
    BY <1>1, CommitOfEffects, EffectByName
  <2>2. old.owed /\ old.balance >= 0 /\ old.balance \in Int
    BY <1>2, <2>1 DEF AccountCharged, AccountRow
  <2> QED
    BY <1>2, <2>2 DEF FlagFits
<1>4. db'[k] = db[k]
  BY <1>1, <1>3, Committed
<1>5. \A v \in Users : db'[Account(v)] = db[Account(v)]
  BY <1>1, <1>4, KeyTypes
<1> QED
  BY <1>1, <1>5, NoAccountAfter

(* No charge of anything: no account is written from an old balance.       *)
LEMMA NothingStale ==
  ASSUME NothingIsCharged
  PROVE  Spec => []NoneStale
<1>1. Init => NoneStale
  BY DEF Init, NoneStale
<1>2. IInv /\ EffectInv /\ NoneStale /\ [Next]_vars => NoneStale'
  <2> SUFFICES ASSUME IInv, EffectInv, stale = {}, [Next]_vars PROVE stale' = {}
    BY DEF NoneStale
  <2>1. ASSUME NEW s \in Sessions, Commit(s) PROVE stale' = {}
    <3>1. call[s] \in Requests
      BY <2>1, Committed DEF EffectInv, Statements
    <3>2. ~(call[s].op = "charge_account" /\ call[s].amount # 0)
      BY <3>1 DEF NothingIsCharged
    <3> QED
      BY <2>1, <3>2 DEF Commit
  <2> QED
    BY <2>1, Reads DEF IInv
<1> QED
  BY <1>1, <1>2, Effects, PTL DEF Spec

(* Bills, changes of level and of owner and new accounts and projects take *)
(* effect one at a time and in full, for any users, projects, sessions and *)
(* bounds: the committed rows go through what Ledger goes through, as long *)
(* as nothing is charged or deleted and the flags fit at first.            *)
THEOREM StoreImplementsLedger ==
  ASSUME NothingIsDeleted, NothingIsCharged
  PROVE  Spec /\ OwedTellsDebt => ImplementsLedger
<1>1. ChargesAreCredits
  BY DEF NothingIsCharged, ChargesAreCredits
<1>2. Init => TheLedger!Init
  BY DEF Init, TheLedger!Init
<1>3. ASSUME IInv, EffectInv, FlagInv, OwnersLookedUp, RowsStay, NoneStale,
             [Next]_vars
      PROVE  [TheLedger!Next]_(TheLedger!lvars)
  <2>1. CASE UNCHANGED db
    BY <2>1 DEF TheLedger!lvars
  <2>2. ASSUME NEW s \in Sessions, Commit(s)
        PROVE  [TheLedger!Next]_(TheLedger!lvars)
    <3>1. pc[s] = "commit" /\ call[s] \in Requests
      BY <1>3, <2>2, Committed DEF EffectInv, Statements
    <3>2. CASE call[s].op = "charge_account"
      <4>1. call[s].amount = 0
        BY <3>1, <3>2 DEF NothingIsCharged
      <4>2. /\ AccountsOf(db') = AccountsOf(db)
            /\ ProjectsOf(db') = ProjectsOf(db)
            /\ RelationsOf(db') = RelationsOf(db)
        BY <1>3, <2>2, <3>2, <4>1, NoChargeNoEffect
      <4> QED
        BY <4>2 DEF TheLedger!lvars
    <3>3. CASE call[s].op # "charge_account"
      <4>1. call[s].op # "delete_account"
        BY <3>1 DEF NothingIsDeleted
      <4>2. call[s].op = "change_billing_owner"
              => db[Account(call[s].user)] # NoRow
        BY <1>3, <3>1 DEF OwnersLookedUp, HasRead
      <4>3. TheLedger!Accept(call[s])
        BY <1>3, <2>2, <3>3, <4>1, <4>2, CommitTakesEffect
      <4> QED
        BY <3>1, <4>3 DEF TheLedger!Next
    <3> QED
      BY <3>2, <3>3
  <2> QED
    BY <1>3, <2>1, <2>2, Reads DEF IInv
<1> QED
  BY <1>1, <1>2, <1>3, Effects, FlagInvariance, LookInvariance, NothingStale,
     PTL DEF Spec, ImplementsLedger, TheLedger!Spec
=============================================================================
