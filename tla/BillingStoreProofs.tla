------------------------- MODULE BillingStoreProofs -------------------------
(***************************************************************************)
(* Proofs about BillingStore, for any users, projects, sessions, requests, *)
(* opening rows and bounds: its types, and that the books balance.         *)
(***************************************************************************)
EXTENDS BillingStore, TLAPS

-----------------------------------------------------------------------------
(* The inductive invariant.                                                *)

(* A row is written by one open transaction at a time.                     *)
LockExclusion ==
  \A s, t \in Sessions : s # t =>
    \A k \in Keys : work[s][k] # Clean => work[t][k] = Clean

(* A call has written nothing before its first table and after it leaves.  *)
QuietOutside(s) ==
  pc[s] \in {"idle", "raised", "check", "begin", "account"}
    => work[s] = Untouched

(* A charge that got past its SELECT has read an account.                  *)
ChargeRead(s) ==
  call[s].op = "charge_account" /\ pc[s] \in {"account", "commit"}
    => seen[s][Account(call[s].user)] # NoRow

(* Row k is written, not deleted, by the transaction of s.                 *)
Drafted(s, k) == work[s][k] \notin {Clean, NoRow}

(* Where a transaction stands tells which rows it has written.             *)
BillDrafted(s) ==
  call[s].op = "update_account" =>
    /\ pc[s] \in {"project", "relation", "commit"}
         => Drafted(s, Account(call[s].user))
    /\ pc[s] \in {"relation", "commit"}
         => Drafted(s, Project(call[s].project))
    /\ pc[s] = "commit"
         => Drafted(s, Relation(call[s].user, call[s].project))

ChargeDrafted(s) ==
  call[s].op = "charge_account" /\ pc[s] = "commit" /\ call[s].amount # 0
    => Drafted(s, Account(call[s].user))

(* The charge of s was computed from a balance that has changed since.     *)
Outdated(s, k) ==
  /\ call[s].op = "charge_account" /\ k = Account(call[s].user)
  /\ call[s].amount # 0
  /\ db[k] # NoRow /\ db[k].balance # seen[s][k].balance

(* A drafted row holds the committed amount and what the call is due.      *)
DraftAccounted(s, k) ==
  Drafted(s, k) /\ ~Outdated(s, k) =>
    Amount(k, work[s][k]) =
      (IF db[k] = NoRow THEN 0 ELSE Amount(k, db[k])) + Due(call[s], k)

SessionInv(s) ==
  /\ QuietOutside(s)
  /\ ChargeRead(s)
  /\ BillDrafted(s)
  /\ ChargeDrafted(s)
  /\ \A k \in Keys : DraftAccounted(s, k)

(* Every committed row stands as the history has it.                       *)
Accounted ==
  \A k \in Keys \ stale : db[k] # NoRow => Amount(k, db[k]) = books[k]

IInv ==
  /\ TypeOK
  /\ LockExclusion
  /\ \A s \in Sessions : SessionInv(s)
  /\ Accounted

-----------------------------------------------------------------------------
(* Keys and rows.                                                          *)

(* The tag of a key tells its table.                                       *)
LEMMA KeyTags ==
  /\ \A k \in AccountKeys : k[1] = "account"
  /\ \A k \in ProjectKeys : k[1] = "project"
  /\ \A k \in RelationKeys : k[1] = "relation"
  BY DEF AccountKeys, ProjectKeys, RelationKeys, Account, Project, Relation

(* Each key has the rows of its own table.                                 *)
LEMMA RowKinds ==
  /\ \A k \in AccountKeys : RowsOf(k) = AccountRow
  /\ \A k \in ProjectKeys : RowsOf(k) = ProjectRow
  /\ \A k \in RelationKeys : RowsOf(k) = RelationRow
  /\ \A k \in Keys : RowsOf(k) \subseteq Rows
  BY KeyTags DEF RowsOf, Rows, Keys

LEMMA KeyTypes ==
  /\ \A u \in Users : Account(u) \in AccountKeys /\ Account(u) \in Keys
  /\ \A p \in Projects : Project(p) \in ProjectKeys /\ Project(p) \in Keys
  /\ \A u \in Owners, p \in Projects :
       Relation(u, p) \in RelationKeys /\ Relation(u, p) \in Keys
  BY DEF AccountKeys, ProjectKeys, RelationKeys, Keys

(* A row is neither of the two markers.                                    *)
LEMMA RowsAreRows ==
  \A k \in Keys : \A row \in RowsOf(k) : row # NoRow /\ row # Clean
  BY BillingStoreAssumption

(* The amount of a row is a number.                                        *)
LEMMA AmountType ==
  ASSUME NEW k \in Keys, NEW row \in RowsOf(k)
  PROVE  Amount(k, row) \in Int
<1>1. CASE k \in AccountKeys
  <2>1. row \in AccountRow
    BY <1>1, RowKinds
  <2> QED
    BY <1>1, <2>1 DEF Amount, AccountRow
<1>2. CASE k \in ProjectKeys /\ k \notin AccountKeys
  <2>1. row \in ProjectRow
    BY <1>2, RowKinds
  <2> QED
    BY <1>2, <2>1 DEF Amount, ProjectRow
<1>3. CASE k \in RelationKeys /\ k \notin AccountKeys
  <2>1. row \in RelationRow
    BY <1>3, RowKinds
  <2> QED
    BY <1>3, <2>1 DEF Amount, RelationRow
<1> QED
  BY <1>1, <1>2, <1>3 DEF Keys

(* What the fields of a call are, by its name.                             *)
LEMMA CallFields ==
  ASSUME NEW c \in Calls
  PROVE  /\ c.op \in {"update_account", "charge_account",
                      "change_account_level", "change_billing_owner",
                      "delete_account", "create_account", "create_project"}
         /\ c.op = "update_account" =>
              c.user \in Users /\ c.project \in Projects /\ c.amount \in Nat
         /\ c.op = "charge_account" => c.user \in Users /\ c.amount \in Int
         /\ c.op = "change_account_level" =>
              c.user \in Users /\ c.level \in 0 .. 9
         /\ c.op = "change_billing_owner" =>
              c.user \in Users /\ c.project \in Projects
         /\ c.op = "delete_account" => c.user \in Users
         /\ c.op = "create_account" => c.user \in Users /\ c.level \in 0 .. 9
         /\ c.op = "create_project" =>
              c.user \in Owners /\ c.project \in Projects
  BY DEF Calls

LEMMA DueType ==
  ASSUME NEW c \in Calls, NEW k
  PROVE  Due(c, k) \in Int
  BY CallFields DEF Due

(* Only bills and charges are due to change an amount.                     *)
LEMMA NothingDue ==
  ASSUME NEW c \in Calls, NEW k,
         c.op \notin {"update_account", "charge_account"}
  PROVE  Due(c, k) = 0
  BY DEF Due

-----------------------------------------------------------------------------
(* What each kind of statement keeps.                                      *)

(* A session that a step does not touch keeps its part of the invariant.   *)
LEMMA OtherSession ==
  ASSUME NEW t \in Sessions, SessionInv(t),
         pc'[t] = pc[t], call'[t] = call[t], seen'[t] = seen[t],
         work'[t] = work[t],
         \A k \in Keys : work[t][k] # Clean => db'[k] = db[k]
  PROVE  SessionInv(t)'
<1>1. QuietOutside(t)' /\ ChargeRead(t)' /\ BillDrafted(t)' /\ ChargeDrafted(t)'
  BY DEF SessionInv, QuietOutside, ChargeRead, BillDrafted, ChargeDrafted,
         Drafted
<1>2. ASSUME NEW k \in Keys PROVE DraftAccounted(t, k)'
  <2>1. DraftAccounted(t, k)
    BY DEF SessionInv
  <2>2. CASE work[t][k] = Clean
    BY <2>2 DEF DraftAccounted, Drafted
  <2>3. CASE work[t][k] # Clean
    <3>1. db'[k] = db[k]
      BY <2>3
    <3> QED
      BY <2>1, <3>1 DEF DraftAccounted, Drafted, Outdated
  <2> QED
    BY <2>2, <2>3
<1> QED
  BY <1>1, <1>2 DEF SessionInv

(* Rolling a call back, whether it is to be rerun or not.                  *)
LEMMA RollbackKeepsInv ==
  ASSUME IInv, NEW s \in Sessions,
         NEW next \in {"idle", "raised", "check", "begin"},
         NEW n \in 0 .. MaxRetries,
         next \in Statements => call[s] \in Calls,
         pc' = [pc EXCEPT ![s] = next],
         tries' = [tries EXCEPT ![s] = n],
         seen' = [seen EXCEPT ![s] = Empty],
         work' = [work EXCEPT ![s] = Untouched],
         crossed' = crossed \ {s},
         UNCHANGED <<db, serial, call, now, calls, audit>>
  PROVE  IInv'
<1> USE DEF IInv
<1>1. Empty \in Databases /\ Untouched \in Drafts
  BY DEF Empty, Untouched, Databases, Drafts
<1>2. TypeOK'
  <2>1. pc' \in [Sessions -> Ready \cup Statements]
    BY DEF TypeOK, Ready, Statements
  <2>2. \A t \in Sessions : pc'[t] \in Statements => call'[t] \in Calls
    BY DEF TypeOK
  <2>3. tries' \in [Sessions -> 0 .. MaxRetries]
    BY DEF TypeOK
  <2>4. seen' \in [Sessions -> Databases] /\ work' \in [Sessions -> Drafts]
    BY <1>1 DEF TypeOK
  <2> QED
    BY <2>1, <2>2, <2>3, <2>4 DEF TypeOK, history, audit
<1>3. work'[s] = Untouched /\ \A t \in Sessions \ {s} : work'[t] = work[t]
  BY DEF TypeOK
<1>4. LockExclusion'
  BY <1>3 DEF LockExclusion, Untouched
<1>5. SessionInv(s)'
  <2>1. pc'[s] = next
    BY DEF TypeOK
  <2>2. QuietOutside(s)' /\ ChargeRead(s)' /\ BillDrafted(s)'
          /\ ChargeDrafted(s)'
    BY <1>3, <2>1 DEF QuietOutside, ChargeRead, BillDrafted, ChargeDrafted
  <2>3. ASSUME NEW k \in Keys PROVE DraftAccounted(s, k)'
    BY <1>3 DEF DraftAccounted, Drafted, Untouched
  <2> QED
    BY <2>2, <2>3 DEF SessionInv
<1>6. ASSUME NEW t \in Sessions, t # s PROVE SessionInv(t)'
  BY <1>6, OtherSession DEF TypeOK
<1>7. Accounted'
  BY DEF Accounted, history, audit
<1> QED
  BY <1>2, <1>4, <1>5, <1>6, <1>7

LEMMA RaiseKeepsInv ==
  ASSUME IInv, NEW s \in Sessions, Raise(s)
  PROVE  IInv'
<1>1. 0 \in 0 .. MaxRetries
  BY BillingStoreAssumption
<1> QED
  BY <1>1, RollbackKeepsInv DEF Raise, Leave, Statements

LEMMA RerunKeepsInv ==
  ASSUME IInv, NEW s \in Sessions, pc[s] \in Statements, Rerun(s)
  PROVE  IInv'
<1>1. CASE Raise(s)
  BY <1>1, RaiseKeepsInv
<1>2. CASE ~Raise(s)
  <2>1. tries[s] + 1 \in 0 .. MaxRetries
    BY <1>2, BillingStoreAssumption DEF IInv, TypeOK, Rerun
  <2>2. tries' = [tries EXCEPT ![s] = tries[s] + 1]
    BY <1>2 DEF Rerun, RunAgain
  <2>3. Restart(call[s]) \in {"idle", "raised", "check", "begin"}
    BY DEF Restart, First
  <2>4. call[s] \in Calls
    BY DEF IInv, TypeOK
  <2> QED
    BY <1>2, <2>1, <2>2, <2>3, <2>4, RollbackKeepsInv DEF Rerun, RunAgain
<1> QED
  BY <1>1, <1>2

(* Writing rows that are free, of their table, and duly accounted for.     *)
LEMMA WriteKeepsInv ==
  ASSUME IInv, NEW s \in Sessions, pc[s] \in Statements,
         NEW rows, NEW next \in {"project", "relation", "commit"},
         DOMAIN rows \subseteq Keys,
         Write(s, rows, next), serial' \in [Keys -> Nat],
         \A k \in DOMAIN rows :
           /\ ~Locked(s, k)
           /\ rows[k] \in RowsOf(k) \cup {NoRow}
           /\ rows[k] # NoRow /\ ~Outdated(s, k) =>
                Amount(k, rows[k]) =
                  (IF db[k] = NoRow THEN 0 ELSE Amount(k, db[k]))
                    + Due(call[s], k),
         ChargeRead(s)', BillDrafted(s)', ChargeDrafted(s)'
  PROVE  IInv'
<1> USE DEF IInv
<1>0. UNCHANGED <<db, call, tries, seen, now, calls, books, stale, crossed,
                  loose>>
  BY DEF Write, history, audit
<1>1. /\ work'[s] = [k \in Keys |-> IF k \in DOMAIN rows THEN rows[k]
                                     ELSE work[s][k]]
      /\ \A t \in Sessions \ {s} : work'[t] = work[t]
      /\ pc'[s] = next
      /\ \A t \in Sessions \ {s} : pc'[t] = pc[t]
  BY DEF Write, TypeOK
<1>2. TypeOK'
  <2>1. pc' \in [Sessions -> Ready \cup Statements]
    BY DEF TypeOK, Write, Statements
  <2>2. work'[s] \in Drafts
    <3>1. \A k \in Keys : work'[s][k] \in RowsOf(k) \cup {NoRow, Clean}
      BY <1>1 DEF TypeOK, Drafts
    <3>2. \A k \in Keys : work'[s][k] \in Rows \cup {NoRow, Clean}
      BY <3>1, RowKinds
    <3> QED
      BY <1>1, <3>1, <3>2 DEF Drafts
  <2>3. work' \in [Sessions -> Drafts]
    BY <1>1, <2>2 DEF TypeOK, Write
  <2>4. \A t \in Sessions : pc'[t] \in Statements => call'[t] \in Calls
    BY <1>0, <1>1 DEF TypeOK
  <2> QED
    BY <1>0, <2>1, <2>3, <2>4 DEF TypeOK
<1>3. LockExclusion'
  BY <1>1 DEF LockExclusion, Locked
<1>4. SessionInv(s)'
  <2>1. QuietOutside(s)'
    BY <1>1 DEF QuietOutside
  <2>2. ASSUME NEW k \in Keys PROVE DraftAccounted(s, k)'
    <3>1. CASE k \in DOMAIN rows
      BY <1>0, <1>1, <3>1 DEF DraftAccounted, Drafted, Outdated
    <3>2. CASE k \notin DOMAIN rows
      <4>1. DraftAccounted(s, k) /\ work'[s][k] = work[s][k]
        BY <1>1, <3>2 DEF SessionInv
      <4> QED
        BY <1>0, <4>1 DEF DraftAccounted, Drafted, Outdated
    <3> QED
      BY <3>1, <3>2
  <2> QED
    BY <2>1, <2>2 DEF SessionInv
<1>5. ASSUME NEW t \in Sessions, t # s PROVE SessionInv(t)'
  BY <1>0, <1>1, <1>5, OtherSession
<1>6. Accounted'
  BY <1>0 DEF Accounted
<1> QED
  BY <1>2, <1>3, <1>4, <1>5, <1>6

(* One row written by a call that is not a charge.                         *)
LEMMA WriteOneKeepsInv ==
  ASSUME IInv, NEW s \in Sessions, pc[s] \in Statements,
         NEW k \in Keys, NEW row \in RowsOf(k),
         NEW next \in {"project", "relation", "commit"},
         call[s].op # "charge_account",
         ~Locked(s, k), WriteOne(s, k, row, next),
         serial' \in [Keys -> Nat],
         Amount(k, row) = (IF db[k] = NoRow THEN 0 ELSE Amount(k, db[k]))
                            + Due(call[s], k),
         BillDrafted(s)'
  PROVE  IInv'
<1> DEFINE rows == [x \in {k} |-> row]
<1>1. DOMAIN rows \subseteq Keys
  OBVIOUS
<1>2. ChargeRead(s)' /\ ChargeDrafted(s)'
  BY DEF WriteOne, Write, ChargeRead, ChargeDrafted
<1>3. Write(s, rows, next)
  BY DEF WriteOne
<1>4. \A x \in DOMAIN rows :
        /\ ~Locked(s, x)
        /\ rows[x] \in RowsOf(x) \cup {NoRow}
        /\ rows[x] # NoRow /\ ~Outdated(s, x) =>
             Amount(x, rows[x]) =
               (IF db[x] = NoRow THEN 0 ELSE Amount(x, db[x]))
                 + Due(call[s], x)
  OBVIOUS
<1> HIDE DEF rows
<1> QED
  BY <1>1, <1>2, <1>3, <1>4, WriteKeepsInv

(* What a session has written once it has written one more row.            *)
LEMMA DraftedAfter ==
  ASSUME IInv, NEW s \in Sessions, NEW k \in Keys, NEW row \in RowsOf(k),
         NEW next, WriteOne(s, k, row, next)
  PROVE  /\ Drafted(s, k)'
         /\ \A x \in Keys : Drafted(s, x) => Drafted(s, x)'
         /\ pc'[s] = next
         /\ call' = call
<1>1. row # NoRow /\ row # Clean
  BY RowsAreRows
<1> QED
  BY <1>1 DEF WriteOne, Write, Drafted, IInv, TypeOK

(* The compare-and-swap UPDATE of a call that is not a charge.             *)
LEMMA UpdateParamsKeepsInv ==
  ASSUME IInv, NEW s \in Sessions, pc[s] \in Statements,
         NEW k \in Keys, NEW hit, NEW row,
         NEW next \in {"project", "relation", "commit"},
         call[s].op # "charge_account",
         UpdateParams(s, k, hit, row, next),
         db[k] # NoRow /\ hit =>
           /\ row \in RowsOf(k)
           /\ Amount(k, row) = Amount(k, db[k]) + Due(call[s], k),
         db[k] # NoRow /\ hit /\ WriteOne(s, k, row, next) => BillDrafted(s)'
  PROVE  IInv'
<1>1. CASE db[k] # NoRow /\ hit
  <2>1. serial' \in [Keys -> Nat]
    BY <1>1 DEF UpdateParams, IInv, TypeOK
  <2>2. WriteOne(s, k, row, next) /\ ~Locked(s, k)
    BY <1>1 DEF UpdateParams
  <2> QED
    BY <1>1, <2>1, <2>2, WriteOneKeepsInv
<1>2. CASE ~(db[k] # NoRow /\ hit)
  BY <1>2, RerunKeepsInv DEF UpdateParams
<1> QED
  BY <1>1, <1>2

(* The INSERT of a row without a balance or consumption.                   *)
LEMMA InsertKeepsInv ==
  ASSUME IInv, NEW s \in Sessions, pc[s] \in Statements,
         NEW k \in Keys, NEW row \in RowsOf(k),
         NEW next \in {"project", "relation", "commit"},
         call[s].op \notin {"update_account", "charge_account"},
         Insert(s, k, row, next), Amount(k, row) = 0
  PROVE  IInv'
<1>1. CASE db[k] = NoRow
  <2>1. serial' \in [Keys -> Nat]
    BY <1>1 DEF Insert, IInv, TypeOK
  <2>2. WriteOne(s, k, row, next) /\ ~Locked(s, k)
    BY <1>1 DEF Insert
  <2>3. BillDrafted(s)'
    BY <2>2 DEF WriteOne, Write, BillDrafted
  <2>4. Due(call[s], k) = 0
    BY NothingDue DEF IInv, TypeOK
  <2> QED
    BY <1>1, <2>1, <2>2, <2>3, <2>4, WriteOneKeepsInv
<1>2. CASE db[k] # NoRow
  BY <1>2, RaiseKeepsInv DEF Insert
<1> QED
  BY <1>1, <1>2

(* Deletes of rows the snapshot holds.                                     *)
LEMMA DeleteKeepsInv ==
  ASSUME IInv, NEW s \in Sessions, pc[s] \in Statements,
         NEW doomed \in SUBSET Keys,
         NEW next \in {"project", "relation", "commit"},
         call[s].op \notin {"update_account", "charge_account"},
         Delete(s, doomed, next)
  PROVE  IInv'
<1> DEFINE rows == [k \in StillThere(s, doomed) |-> NoRow]
<1>1. Write(s, rows, next) /\ serial' \in [Keys -> Nat]
  BY DEF Delete, IInv, TypeOK
<1>2. ChargeRead(s)' /\ BillDrafted(s)' /\ ChargeDrafted(s)'
  BY <1>1 DEF Write, ChargeRead, BillDrafted, ChargeDrafted
<1>3. DOMAIN rows \subseteq Keys
  BY DEF StillThere
<1>4. \A k \in DOMAIN rows : ~Locked(s, k) /\ rows[k] = NoRow
  BY DEF Delete, StillThere
<1> HIDE DEF rows
<1> QED
  BY <1>1, <1>2, <1>3, <1>4, WriteKeepsInv

-----------------------------------------------------------------------------
(* One lemma per action.                                                   *)

LEMMA ReceiveKeepsInv ==
  ASSUME IInv, NEW s \in Sessions, NEW c \in Requests, Receive(s, c)
  PROVE  IInv'
<1> USE DEF IInv
<1>1. c \in Calls
  BY BillingStoreAssumption
<1>2. pc'[s] \in {"check", "begin"} /\ work[s] = Untouched
  BY DEF Receive, First, TypeOK, SessionInv, QuietOutside, Ready
<1>3. TypeOK'
  <2>1. calls' \in 0 .. MaxCalls
    BY BillingStoreAssumption DEF Receive, TypeOK
  <2>2. pc' \in [Sessions -> Ready \cup Statements]
    BY DEF Receive, First, TypeOK, Statements
  <2>3. call' \in [Sessions -> Calls \cup {NoCall}]
    BY <1>1 DEF Receive, TypeOK
  <2>4. \A t \in Sessions : pc'[t] \in Statements => call'[t] \in Calls
    BY <1>1 DEF Receive, TypeOK
  <2> QED
    BY <2>1, <2>2, <2>3, <2>4 DEF Receive, TypeOK, history, audit
<1>4. SessionInv(s)'
  <2>1. QuietOutside(s)' /\ ChargeRead(s)' /\ BillDrafted(s)'
          /\ ChargeDrafted(s)'
    BY <1>2 DEF Receive, QuietOutside, ChargeRead, BillDrafted, ChargeDrafted,
                Untouched
  <2>2. \A k \in Keys : DraftAccounted(s, k)'
    BY <1>2 DEF Receive, DraftAccounted, Drafted, Untouched
  <2> QED
    BY <2>1, <2>2 DEF SessionInv
<1>5. ASSUME NEW t \in Sessions, t # s PROVE SessionInv(t)'
  BY <1>5, OtherSession DEF Receive, TypeOK
<1>6. LockExclusion' /\ Accounted'
  BY DEF Receive, LockExclusion, Accounted, history, audit
<1> QED
  BY <1>3, <1>4, <1>5, <1>6

(* A step of a session that holds no lock and takes none.                  *)
LEMMA LooksKeepsInv ==
  ASSUME IInv, NEW s \in Sessions, pc[s] \in Statements,
         NEW next \in Statements, NEW d \in Databases,
         work[s] = Untouched,
         pc' = [pc EXCEPT ![s] = next],
         seen' = [seen EXCEPT ![s] = d],
         UNCHANGED <<db, serial, call, tries, work, now, calls, history>>,
         ChargeRead(s)', BillDrafted(s)', ChargeDrafted(s)'
  PROVE  IInv'
<1> USE DEF IInv
<1>1. TypeOK'
  BY DEF TypeOK, history, audit
<1>2. SessionInv(s)'
  BY DEF SessionInv, QuietOutside, DraftAccounted, Drafted, Untouched
<1>3. ASSUME NEW t \in Sessions, t # s PROVE SessionInv(t)'
  BY <1>3, OtherSession DEF TypeOK
<1>4. LockExclusion' /\ Accounted'
  BY DEF LockExclusion, Accounted, history, audit
<1> QED
  BY <1>1, <1>2, <1>3, <1>4

LEMMA CheckOwnerKeepsInv ==
  ASSUME IInv, NEW s \in Sessions, CheckOwner(s)
  PROVE  IInv'
<1>1. CASE OwnerExists(call[s])
  <2>1. work[s] = Untouched /\ seen[s] \in Databases
    BY DEF IInv, TypeOK, SessionInv, QuietOutside, CheckOwner, At
  <2>2. pc' = [pc EXCEPT ![s] = "begin"]
    BY <1>1 DEF CheckOwner
  <2>3. UNCHANGED <<db, serial, call, tries, seen, work, now, calls, history>>
    BY <1>1 DEF CheckOwner
  <2>4. seen' = [seen EXCEPT ![s] = seen[s]]
    BY <2>3 DEF IInv, TypeOK
  <2>5. ChargeRead(s)' /\ BillDrafted(s)' /\ ChargeDrafted(s)'
    BY <2>3 DEF CheckOwner, At, ChargeRead, BillDrafted, ChargeDrafted
  <2>6. pc[s] \in Statements /\ "begin" \in Statements
    BY DEF CheckOwner, At, Statements
  <2> QED
    BY <2>1, <2>2, <2>3, <2>4, <2>5, <2>6, LooksKeepsInv
<1>2. CASE ~OwnerExists(call[s])
  BY <1>2, RaiseKeepsInv DEF CheckOwner
<1> QED
  BY <1>1, <1>2

LEMMA BeginKeepsInv ==
  ASSUME IInv, NEW s \in Sessions, Begin(s)
  PROVE  IInv'
<1>1. CASE Finds(call[s])
  <2>1. work[s] = Untouched /\ db \in Databases
    BY DEF IInv, TypeOK, SessionInv, QuietOutside, Begin
  <2>2. /\ pc' = [pc EXCEPT ![s] = FirstTable(call[s])]
        /\ seen' = [seen EXCEPT ![s] = db]
        /\ UNCHANGED <<db, serial, call, tries, work, now, calls, history>>
    BY <1>1 DEF Begin
  <2>3. pc'[s] = FirstTable(call[s]) /\ seen'[s] = db /\ call' = call
    BY <2>2 DEF IInv, TypeOK
  <2>4. ChargeRead(s)'
    BY <1>1, <2>3 DEF ChargeRead, Finds
  <2>5. BillDrafted(s)' /\ ChargeDrafted(s)'
    BY <2>3 DEF BillDrafted, ChargeDrafted, FirstTable
  <2>6. pc[s] \in Statements /\ FirstTable(call[s]) \in Statements
    BY DEF Begin, FirstTable, Statements
  <2> QED
    BY <2>1, <2>2, <2>4, <2>5, <2>6, LooksKeepsInv
<1>2. CASE ~Finds(call[s])
  BY <1>2, RaiseKeepsInv DEF Begin
<1> QED
  BY <1>1, <1>2

(* What a bill is due to add to its three rows.                            *)
LEMMA DueOfBill ==
  ASSUME NEW c \in Calls, c.op = "update_account"
  PROVE  /\ Due(c, Account(c.user)) = - c.amount
         /\ Due(c, Project(c.project)) = c.amount
         /\ Due(c, Relation(c.user, c.project)) = c.amount
<1>1. c.user \in Users /\ c.user \in Owners /\ c.project \in Projects
  BY CallFields DEF Owners
<1>2. /\ Account(c.user) # Project(c.project)
      /\ Account(c.user) # Relation(c.user, c.project)
  BY <1>1, KeyTypes, KeyTags
<1> QED
  BY <1>2 DEF Due

(* The rows a bill writes, when what it read still stands.                 *)
LEMMA BilledRow ==
  ASSUME NEW row \in AccountRow, NEW old, old.balance = row.balance,
         NEW c \in Int, now \in Nat
  PROVE  /\ Billed(row, old, c) \in AccountRow
         /\ Billed(row, old, c).balance = row.balance - c
<1> DEFINE balance == row.balance - c
           owed == row.owed \/ balance < 0
           owed_at == IF balance < 0 THEN now ELSE row.owed_at
<1>1. balance \in Int /\ owed \in BOOLEAN /\ owed_at \in Nat
  BY DEF AccountRow
<1>2. Billed(row, old, c) = [row EXCEPT !.balance = balance,
                                        !.consumption = c,
                                        !.updated_at = now, !.owed = owed,
                                        !.owed_at = owed_at]
  BY DEF Billed, AccountRow
<1> HIDE DEF balance, owed, owed_at
<1>3. /\ Billed(row, old, c) \in AccountRow
      /\ Billed(row, old, c).balance = balance
  BY <1>1, <1>2 DEF AccountRow
<1> QED
  BY <1>3 DEF balance

LEMMA ConsumedRow ==
  ASSUME NEW c \in Int, now \in Nat, NEW old,
         NEW row \in ProjectRow \cup RelationRow,
         old.consumption = row.consumption
  PROVE  /\ row \in ProjectRow => Consumed(row, old, c) \in ProjectRow
         /\ row \in RelationRow => Consumed(row, old, c) \in RelationRow
         /\ Consumed(row, old, c).consumption = row.consumption + c
<1> DEFINE sum == row.consumption + c
<1>1. sum \in Int
  BY DEF ProjectRow, RelationRow
<1>2. Consumed(row, old, c) = [row EXCEPT !.consumption = sum,
                                          !.updated_at = now]
  BY DEF Consumed
<1> HIDE DEF sum
<1>3. /\ row \in ProjectRow => Consumed(row, old, c) \in ProjectRow
      /\ row \in ProjectRow => Consumed(row, old, c).consumption = sum
  BY <1>1, <1>2 DEF ProjectRow
<1>4. /\ row \in RelationRow => Consumed(row, old, c) \in RelationRow
      /\ row \in RelationRow => Consumed(row, old, c).consumption = sum
  BY <1>1, <1>2 DEF RelationRow
<1> QED
  BY <1>3, <1>4 DEF sum

LEMMA BillAccountKeepsInv ==
  ASSUME IInv, NEW s \in Sessions, BillAccount(s)
  PROVE  IInv'
<1> DEFINE k == Account(call[s].user)
           c == call[s].amount
           hit == SameAccount(db[k], seen[s][k], c)
           row == Billed(db[k], seen[s][k], c)
<1>1. /\ call[s] \in Calls /\ call[s].op = "update_account"
      /\ pc[s] \in Statements
  BY DEF BillAccount, At, IInv, TypeOK, Statements
<1>2. call[s].user \in Users /\ c \in Nat /\ k \in Keys /\ k \in AccountKeys
  BY <1>1, CallFields, KeyTypes
<1>3. UpdateParams(s, k, hit, row, "project")
  BY DEF BillAccount
<1>4. db[k] # NoRow /\ hit =>
        row \in RowsOf(k) /\ Amount(k, row) = Amount(k, db[k]) + Due(call[s], k)
  <2> HAVE db[k] # NoRow /\ hit
  <2>1. db[k] \in AccountRow
    BY <1>2, RowKinds DEF IInv, TypeOK, Databases
  <2>2. row \in AccountRow /\ row.balance = db[k].balance - c
    <3>1. now \in Nat /\ seen[s][k].balance = db[k].balance
      BY DEF IInv, TypeOK, SameAccount
    <3>2. \A old : old.balance = db[k].balance =>
            /\ Billed(db[k], old, c) \in AccountRow
            /\ Billed(db[k], old, c).balance = db[k].balance - c
      <4> HIDE DEF k, c
      <4> QED
        BY <1>2, <2>1, <3>1, BilledRow
    <3> QED
      BY <3>1, <3>2
  <2>3. Amount(k, row) = db[k].balance - c /\ Amount(k, db[k]) = db[k].balance
    BY <1>2, <2>2 DEF Amount
  <2>4. Due(call[s], k) = - c
    BY <1>1, DueOfBill
  <2>5. db[k].balance \in Int
    BY <2>1 DEF AccountRow
  <2> HIDE DEF k, c, row
  <2> QED
    BY <1>2, <2>2, <2>3, <2>4, <2>5, RowKinds
<1>5. db[k] # NoRow /\ hit /\ WriteOne(s, k, row, "project") => BillDrafted(s)'
  <2> HAVE db[k] # NoRow /\ hit /\ WriteOne(s, k, row, "project")
  <2> HIDE DEF row, hit
  <2> QED
    BY <1>2, <1>4, DraftedAfter DEF BillDrafted
<1> HIDE DEF k, c, hit, row
<1> QED
  BY <1>1, <1>2, <1>3, <1>4, <1>5, UpdateParamsKeepsInv

(* Adding a bill to a project's or a relation's consumption.               *)
LEMMA BillConsumptionKeepsInv ==
  ASSUME IInv, NEW s \in Sessions, pc[s] \in Statements,
         call[s].op = "update_account",
         NEW k \in ProjectKeys \cup RelationKeys,
         Due(call[s], k) = call[s].amount,
         NEW next \in {"project", "relation", "commit"},
         BillConsumption(s, k, next),
         \A row \in RowsOf(k) : WriteOne(s, k, row, next) => BillDrafted(s)'
  PROVE  IInv'
<1> DEFINE c == call[s].amount
           hit == SameConsumption(db[k], seen[s][k])
           row == Consumed(db[k], seen[s][k], c)
<1>1. CASE seen[s][k] # NoRow
  <2>1. call[s] \in Calls /\ c \in Nat /\ now \in Nat
    BY CallFields DEF IInv, TypeOK
  <2>2. k \in Keys /\ k \notin AccountKeys
    BY KeyTags DEF Keys
  <2>3. UpdateParams(s, k, hit, row, next)
    BY <1>1 DEF BillConsumption
  <2>4. db[k] # NoRow /\ hit =>
          row \in RowsOf(k) /\ Amount(k, row) = Amount(k, db[k]) + c
    <3> HAVE db[k] # NoRow /\ hit
    <3>1. db[k] \in RowsOf(k)
      BY <2>2 DEF IInv, TypeOK, Databases
    <3>4. seen[s][k].consumption = db[k].consumption
      BY DEF SameConsumption
    <3>2. CASE k \in ProjectKeys
      <4>1. RowsOf(k) = ProjectRow
        BY <3>2, RowKinds
      <4> QED
        BY <2>1, <2>2, <3>1, <3>4, <4>1, ConsumedRow DEF Amount
    <3>3. CASE k \in RelationKeys
      <4>1. RowsOf(k) = RelationRow
        BY <3>3, RowKinds
      <4> QED
        BY <2>1, <2>2, <3>1, <3>4, <4>1, ConsumedRow DEF Amount
    <3> QED
      BY <3>2, <3>3
  <2>5. Due(call[s], k) = c
    OBVIOUS
  <2> HIDE DEF c, hit, row
  <2> QED
    BY <2>1, <2>2, <2>3, <2>4, <2>5, UpdateParamsKeepsInv
<1>2. CASE seen[s][k] = NoRow
  BY <1>2, RaiseKeepsInv DEF BillConsumption
<1> QED
  BY <1>1, <1>2

LEMMA BillProjectKeepsInv ==
  ASSUME IInv, NEW s \in Sessions, BillProject(s)
  PROVE  IInv'
<1> DEFINE k == Project(call[s].project)
<1>1. /\ call[s] \in Calls /\ call[s].op = "update_account"
      /\ pc[s] = "project" /\ pc[s] \in Statements
  BY DEF BillProject, At, IInv, TypeOK, Statements
<1>2. call[s].user \in Users /\ call[s].project \in Projects
  BY <1>1, CallFields
<1>3. k \in ProjectKeys /\ k \in Keys /\ Account(call[s].user) \in Keys
  BY <1>2, KeyTypes
<1>4. Due(call[s], k) = call[s].amount
  BY <1>1, DueOfBill
<1>5. ASSUME NEW row \in RowsOf(k), WriteOne(s, k, row, "relation")
      PROVE  BillDrafted(s)'
  <2>1. Drafted(s, Account(call[s].user))
    BY <1>1 DEF IInv, SessionInv, BillDrafted
  <2> QED
    BY <1>3, <1>5, <2>1, DraftedAfter DEF BillDrafted
<1>6. BillConsumption(s, k, "relation")
  BY DEF BillProject
<1> HIDE DEF k
<1> QED
  BY <1>1, <1>3, <1>4, <1>5, <1>6, BillConsumptionKeepsInv

LEMMA BillRelationKeepsInv ==
  ASSUME IInv, NEW s \in Sessions, BillRelation(s)
  PROVE  IInv'
<1> DEFINE k == Relation(call[s].user, call[s].project)
<1>1. /\ call[s] \in Calls /\ call[s].op = "update_account"
      /\ pc[s] = "relation" /\ pc[s] \in Statements
  BY DEF BillRelation, At, IInv, TypeOK, Statements
<1>2. /\ call[s].user \in Users /\ call[s].user \in Owners
      /\ call[s].project \in Projects
  BY <1>1, CallFields DEF Owners
<1>3. /\ k \in RelationKeys /\ k \in Keys /\ Account(call[s].user) \in Keys
      /\ Project(call[s].project) \in Keys
  BY <1>2, KeyTypes
<1>4. Due(call[s], k) = call[s].amount
  BY <1>1, DueOfBill
<1>5. ASSUME NEW row \in RowsOf(k), WriteOne(s, k, row, "commit")
      PROVE  BillDrafted(s)'
  <2>1. /\ Drafted(s, Account(call[s].user))
        /\ Drafted(s, Project(call[s].project))
    BY <1>1 DEF IInv, SessionInv, BillDrafted
  <2> QED
    BY <1>3, <1>5, <2>1, DraftedAfter DEF BillDrafted
<1>6. BillConsumption(s, k, "commit")
  BY DEF BillRelation
<1> HIDE DEF k
<1> QED
  BY <1>1, <1>3, <1>4, <1>5, <1>6, BillConsumptionKeepsInv

(* The row a charge flushes, and when it flushes none.                     *)
LEMMA ChargedRow ==
  ASSUME NEW row \in AccountRow, NEW old \in AccountRow, NEW v \in Int
  PROVE  /\ Charged(row, old, v) \in AccountRow
         /\ Charged(row, old, v).balance =
              IF v = 0 THEN row.balance ELSE old.balance + v
         /\ Charged(old, old, v) = old => v = 0
<1>1. ASSUME NEW r \in AccountRow
      PROVE  /\ Charged(r, old, v) \in AccountRow
             /\ Charged(r, old, v).balance =
                  IF v = 0 THEN r.balance ELSE old.balance + v
  <2> DEFINE balance == IF v = 0 THEN r.balance ELSE old.balance + v
             owed == r.owed /\ ~(old.owed /\ old.balance + v >= 0)
  <2>1. balance \in Int /\ owed \in BOOLEAN
    BY <1>1 DEF AccountRow
  <2>2. Charged(r, old, v) = [r EXCEPT !.balance = balance, !.owed = owed]
    BY <1>1 DEF Charged, AccountRow
  <2> HIDE DEF balance, owed
  <2>3. Charged(r, old, v) \in AccountRow /\ Charged(r, old, v).balance = balance
    BY <1>1, <2>1, <2>2 DEF AccountRow
  <2> QED
    BY <2>3 DEF balance
<1>2. Charged(old, old, v) = old => v = 0
  <2>1. old.balance \in Int
    BY DEF AccountRow
  <2> QED
    BY <1>1, <2>1
<1> QED
  BY <1>1, <1>2

LEMMA ChargeKeepsInv ==
  ASSUME IInv, NEW s \in Sessions, Charge(s)
  PROVE  IInv'
<1> DEFINE k == Account(call[s].user)
           old == seen[s][k]
           v == call[s].amount
           row == Charged(db[k], old, v)
<1>1. /\ call[s] \in Calls /\ call[s].op = "charge_account"
      /\ pc[s] = "account" /\ pc[s] \in Statements
  BY DEF Charge, At, IInv, TypeOK, Statements
<1>2. v \in Int /\ k \in Keys /\ k \in AccountKeys
  BY <1>1, CallFields, KeyTypes
<1>3. old \in AccountRow
  <2>1. old # NoRow
    BY <1>1 DEF IInv, SessionInv, ChargeRead
  <2>2. old \in RowsOf(k) \cup {NoRow}
    BY <1>2 DEF IInv, TypeOK, Databases
  <2> QED
    BY <1>2, <2>1, <2>2, RowKinds
<1>4. CASE /\ ~Locked(s, k) /\ db[k] # NoRow
           /\ WriteOne(s, k, row, "commit") /\ UNCHANGED serial
  <2> DEFINE rows == [x \in {k} |-> row]
  <2>1. db[k] \in AccountRow
    BY <1>2, <1>4, RowKinds DEF IInv, TypeOK, Databases
  <2>2. /\ row \in AccountRow
        /\ row.balance = IF v = 0 THEN db[k].balance ELSE old.balance + v
    <3>1. \A r \in AccountRow :
            /\ Charged(r, old, v) \in AccountRow
            /\ Charged(r, old, v).balance =
                 IF v = 0 THEN r.balance ELSE old.balance + v
      <4> HIDE DEF k, old, v
      <4> QED
        BY <1>2, <1>3, ChargedRow
    <3> QED
      BY <2>1, <3>1
  <2>3. Due(call[s], k) = v
    BY <1>1 DEF Due
  <2>4. ~Outdated(s, k) => v = 0 \/ db[k].balance = old.balance
    BY <1>1, <1>4 DEF Outdated
  <2>5. db[k].balance \in Int
    BY <2>1 DEF AccountRow
  <2>6. Amount(k, row) = row.balance /\ Amount(k, db[k]) = db[k].balance
    BY <1>2 DEF Amount
  <2>7. ~Outdated(s, k) => Amount(k, row) = Amount(k, db[k]) + Due(call[s], k)
    <3> HIDE DEF k, old, v, row
    <3> QED
      BY <1>2, <2>2, <2>3, <2>4, <2>5, <2>6
  <2>8. row \in RowsOf(k)
    BY <1>2, <2>2, RowKinds
  <2>9. ChargeRead(s)' /\ BillDrafted(s)' /\ ChargeDrafted(s)'
    <3>1. ChargeDrafted(s)'
      <4> HIDE DEF row
      <4> QED
        BY <1>2, <1>4, <2>8, DraftedAfter DEF ChargeDrafted
    <3>2. ChargeRead(s)' /\ BillDrafted(s)'
      BY <1>1, <1>4 DEF WriteOne, Write, ChargeRead, BillDrafted, IInv, SessionInv
    <3> QED
      BY <3>1, <3>2
  <2>10. Write(s, rows, "commit") /\ DOMAIN rows \subseteq Keys
    BY <1>2, <1>4 DEF WriteOne
  <2>11. \A x \in DOMAIN rows :
           /\ ~Locked(s, x)
           /\ rows[x] \in RowsOf(x) \cup {NoRow}
           /\ rows[x] # NoRow /\ ~Outdated(s, x) =>
                Amount(x, rows[x]) =
                  (IF db[x] = NoRow THEN 0 ELSE Amount(x, db[x]))
                    + Due(call[s], x)
    <3> HIDE DEF k, row
    <3> QED
      BY <1>4, <2>7, <2>8
  <2>12. serial' \in [Keys -> Nat]
    BY <1>4 DEF IInv, TypeOK
  <2> HIDE DEF rows
  <2> QED
    BY <1>1, <2>9, <2>10, <2>11, <2>12, WriteKeepsInv
<1>5. CASE Raise(s)
  BY <1>5, RaiseKeepsInv
<1>6. CASE /\ Charged(old, old, v) = old
           /\ pc' = [pc EXCEPT ![s] = "commit"]
           /\ UNCHANGED <<db, serial, call, tries, seen, work, now, calls,
                          history>>
  <2>1. v = 0
    BY <1>2, <1>3, <1>6, ChargedRow
  <2>2. work[s] = Untouched /\ seen[s] \in Databases
    BY <1>1 DEF IInv, TypeOK, SessionInv, QuietOutside
  <2>3. seen' = [seen EXCEPT ![s] = seen[s]]
    BY <1>6 DEF IInv, TypeOK
  <2>4. ChargeRead(s)' /\ BillDrafted(s)' /\ ChargeDrafted(s)'
    <3>1. old # NoRow
      BY <1>1 DEF IInv, SessionInv, ChargeRead
    <3> QED
      BY <1>1, <1>6, <2>1, <3>1 DEF ChargeRead, BillDrafted, ChargeDrafted
  <2>5. "commit" \in Statements
    BY DEF Statements
  <2> QED
    BY <1>1, <1>6, <2>2, <2>3, <2>4, <2>5, LooksKeepsInv
<1> QED
  BY <1>4, <1>5, <1>6 DEF Charge

LEMMA ChangeLevelKeepsInv ==
  ASSUME IInv, NEW s \in Sessions, ChangeLevel(s)
  PROVE  IInv'
<1> DEFINE k == Account(call[s].user)
           hit == /\ db[k].level = seen[s][k].level
                  /\ Sees(call[s].caller, call[s].user)
           row == [db[k] EXCEPT !.level = call[s].level]
<1>1. /\ call[s] \in Calls /\ call[s].op = "change_account_level"
      /\ pc[s] \in Statements
  BY DEF ChangeLevel, At, IInv, TypeOK, Statements
<1>2. call[s].level \in 0 .. 9 /\ k \in Keys /\ k \in AccountKeys
  BY <1>1, CallFields, KeyTypes
<1>3. UpdateParams(s, k, hit, row, "commit")
  BY DEF ChangeLevel
<1>4. db[k] # NoRow /\ hit =>
        row \in RowsOf(k) /\ Amount(k, row) = Amount(k, db[k]) + Due(call[s], k)
  <2> HAVE db[k] # NoRow /\ hit
  <2>1. db[k] \in AccountRow /\ RowsOf(k) = AccountRow
    BY <1>2, RowKinds DEF IInv, TypeOK, Databases
  <2>2. row \in AccountRow /\ row.balance = db[k].balance
    BY <1>2, <2>1 DEF AccountRow
  <2>3. Due(call[s], k) = 0 /\ db[k].balance \in Int
    BY <1>1, <2>1, NothingDue DEF AccountRow
  <2> HIDE DEF k, row
  <2> QED
    BY <1>2, <2>1, <2>2, <2>3 DEF Amount
<1>5. db[k] # NoRow /\ hit /\ WriteOne(s, k, row, "commit") => BillDrafted(s)'
  BY <1>1 DEF WriteOne, Write, BillDrafted
<1> HIDE DEF k, hit, row
<1> QED
  BY <1>1, <1>2, <1>3, <1>4, <1>5, UpdateParamsKeepsInv

LEMMA ChangeOwnerKeepsInv ==
  ASSUME IInv, NEW s \in Sessions, ChangeOwner(s)
  PROVE  IInv'
<1> DEFINE k == Project(call[s].project)
           hit == db[k].user_id = seen[s][k].user_id
           row == [db[k] EXCEPT !.user_id = call[s].user]
<1>1. /\ call[s] \in Calls /\ call[s].op = "change_billing_owner"
      /\ pc[s] \in Statements
  BY DEF ChangeOwner, At, IInv, TypeOK, Statements
<1>2. /\ call[s].user \in Owners /\ k \in Keys /\ k \in ProjectKeys
      /\ k \notin AccountKeys
  BY <1>1, CallFields, KeyTypes, KeyTags DEF Owners
<1>3. UpdateParams(s, k, hit, row, "relation")
  BY DEF ChangeOwner
<1>4. db[k] # NoRow /\ hit =>
        row \in RowsOf(k) /\ Amount(k, row) = Amount(k, db[k]) + Due(call[s], k)
  <2> HAVE db[k] # NoRow /\ hit
  <2>1. db[k] \in ProjectRow /\ RowsOf(k) = ProjectRow
    BY <1>2, RowKinds DEF IInv, TypeOK, Databases
  <2>2. row \in ProjectRow /\ row.consumption = db[k].consumption
    BY <1>2, <2>1 DEF ProjectRow
  <2>3. Due(call[s], k) = 0 /\ db[k].consumption \in Int
    BY <1>1, <2>1, NothingDue DEF ProjectRow
  <2> HIDE DEF k, row
  <2> QED
    BY <1>2, <2>1, <2>2, <2>3 DEF Amount
<1>5. db[k] # NoRow /\ hit /\ WriteOne(s, k, row, "relation") => BillDrafted(s)'
  BY <1>1 DEF WriteOne, Write, BillDrafted
<1> HIDE DEF k, hit, row
<1> QED
  BY <1>1, <1>2, <1>3, <1>4, <1>5, UpdateParamsKeepsInv

(* A relation row without consumption, as both creators insert it.         *)
LEMMA FreshRelation ==
  ASSUME TypeOK, NEW k \in RelationKeys
  PROVE  /\ [id |-> serial[k] + 1, consumption |-> 0, updated_at |-> now]
                \in RowsOf(k)
         /\ Amount(k, [id |-> serial[k] + 1, consumption |-> 0,
                       updated_at |-> now]) = 0
<1>1. k \in Keys /\ k \notin AccountKeys /\ RowsOf(k) = RelationRow
  BY KeyTags, RowKinds DEF Keys
<1>2. serial[k] + 1 \in Nat /\ now \in Nat
  BY <1>1 DEF TypeOK
<1> QED
  BY <1>1, <1>2 DEF Amount, RelationRow

LEMMA RelateOwnerKeepsInv ==
  ASSUME IInv, NEW s \in Sessions, RelateOwner(s)
  PROVE  IInv'
<1> DEFINE k == Relation(call[s].user, call[s].project)
           hit == db[k].updated_at = seen[s][k].updated_at
           row == [db[k] EXCEPT !.updated_at = now]
           fresh == [id |-> serial[k] + 1, consumption |-> 0,
                     updated_at |-> now]
<1>1. /\ call[s] \in Calls /\ call[s].op = "change_billing_owner"
      /\ pc[s] \in Statements
  BY DEF RelateOwner, At, IInv, TypeOK, Statements
<1>2. k \in Keys /\ k \in RelationKeys /\ k \notin AccountKeys
  BY <1>1, CallFields, KeyTypes, KeyTags DEF Owners
<1>3. CASE UpdateParams(s, k, hit, row, "commit")
  <2>1. db[k] # NoRow /\ hit =>
          row \in RowsOf(k) /\ Amount(k, row) = Amount(k, db[k]) + Due(call[s], k)
    <3> HAVE db[k] # NoRow /\ hit
    <3>1. db[k] \in RelationRow /\ RowsOf(k) = RelationRow
      BY <1>2, RowKinds DEF IInv, TypeOK, Databases
    <3>2. row \in RelationRow /\ row.consumption = db[k].consumption
      BY <1>2, <3>1 DEF RelationRow, IInv, TypeOK
    <3>3. Due(call[s], k) = 0 /\ db[k].consumption \in Int
      BY <1>1, <3>1, NothingDue DEF RelationRow
    <3> HIDE DEF k, row
    <3> QED
      BY <1>2, <3>1, <3>2, <3>3 DEF Amount
  <2>2. db[k] # NoRow /\ hit /\ WriteOne(s, k, row, "commit") => BillDrafted(s)'
    BY <1>1 DEF WriteOne, Write, BillDrafted
  <2> HIDE DEF k, hit, row
  <2> QED
    BY <1>1, <1>2, <1>3, <2>1, <2>2, UpdateParamsKeepsInv
<1>4. CASE Insert(s, k, fresh, "commit")
  <2>1. fresh \in RowsOf(k) /\ Amount(k, fresh) = 0
    BY <1>2, FreshRelation DEF IInv
  <2> HIDE DEF k, fresh
  <2> QED
    BY <1>1, <1>2, <1>4, <2>1, InsertKeepsInv
<1> QED
  BY <1>3, <1>4 DEF RelateOwner

LEMMA DeletesKeepInv ==
  ASSUME IInv, NEW s \in Sessions,
         DeleteAccount(s) \/ DeleteProjects(s) \/ DeleteRelations(s)
  PROVE  IInv'
<1>1. /\ call[s] \in Calls /\ call[s].op = "delete_account"
      /\ pc[s] \in Statements
  BY DEF DeleteAccount, DeleteProjects, DeleteRelations, At, IInv, TypeOK,
         Statements
<1>2. CASE DeleteAccount(s)
  <2>1. {Account(call[s].user)} \in SUBSET Keys
    BY <1>1, CallFields, KeyTypes
  <2> QED
    BY <1>1, <1>2, <2>1, DeleteKeepsInv DEF DeleteAccount
<1>3. CASE DeleteProjects(s)
  <2>1. ProjectsSeen(s, call[s].user) \in SUBSET Keys
    BY DEF ProjectsSeen, Keys
  <2> QED
    BY <1>1, <1>3, <2>1, DeleteKeepsInv DEF DeleteProjects
<1>4. CASE DeleteRelations(s)
  <2>1. RelationsSeen(s, call[s].user) \in SUBSET Keys
    BY DEF RelationsSeen, Keys
  <2> QED
    BY <1>1, <1>4, <2>1, DeleteKeepsInv DEF DeleteRelations
<1> QED
  BY <1>2, <1>3, <1>4

LEMMA CreateAccountKeepsInv ==
  ASSUME IInv, NEW s \in Sessions, CreateAccount(s)
  PROVE  IInv'
<1> DEFINE k == Account(call[s].user)
           row == [id |-> serial[k] + 1, balance |-> 0, consumption |-> 0,
                   level |-> call[s].level, owed |-> FALSE, owed_at |-> 0,
                   updated_at |-> 0]
<1>1. /\ call[s] \in Calls /\ call[s].op = "create_account"
      /\ pc[s] \in Statements
  BY DEF CreateAccount, At, IInv, TypeOK, Statements
<1>2. k \in AccountKeys /\ k \in Keys /\ call[s].level \in 0 .. 9
  BY <1>1, CallFields, KeyTypes
<1>3. row \in RowsOf(k) /\ Amount(k, row) = 0
  <2>1. RowsOf(k) = AccountRow /\ serial[k] + 1 \in Nat
    BY <1>2, RowKinds DEF IInv, TypeOK
  <2> QED
    BY <1>2, <2>1 DEF Amount, AccountRow
<1>4. Insert(s, k, row, "commit")
  BY DEF CreateAccount
<1> HIDE DEF k, row
<1> QED
  BY <1>1, <1>2, <1>3, <1>4, InsertKeepsInv

LEMMA CreateProjectKeepsInv ==
  ASSUME IInv, NEW s \in Sessions, CreateProject(s)
  PROVE  IInv'
<1> DEFINE k == Project(call[s].project)
           row == [id |-> serial[k] + 1, user_id |-> call[s].user,
                   consumption |-> 0, updated_at |-> now]
<1>1. /\ call[s] \in Calls /\ call[s].op = "create_project"
      /\ pc[s] \in Statements
  BY DEF CreateProject, At, IInv, TypeOK, Statements
<1>2. /\ k \in ProjectKeys /\ k \in Keys /\ k \notin AccountKeys
      /\ call[s].user \in Owners
  BY <1>1, CallFields, KeyTypes, KeyTags
<1>3. row \in RowsOf(k) /\ Amount(k, row) = 0
  <2>1. RowsOf(k) = ProjectRow /\ serial[k] + 1 \in Nat /\ now \in Nat
    BY <1>2, RowKinds DEF IInv, TypeOK
  <2> QED
    BY <1>2, <2>1 DEF Amount, ProjectRow
<1>4. Insert(s, k, row, "relation")
  BY DEF CreateProject
<1> HIDE DEF k, row
<1> QED
  BY <1>1, <1>2, <1>3, <1>4, InsertKeepsInv

LEMMA CreateRelationKeepsInv ==
  ASSUME IInv, NEW s \in Sessions, CreateRelation(s)
  PROVE  IInv'
<1> DEFINE k == Relation(call[s].user, call[s].project)
           row == [id |-> serial[k] + 1, consumption |-> 0,
                   updated_at |-> now]
<1>1. /\ call[s] \in Calls /\ call[s].op = "create_project"
      /\ pc[s] \in Statements
  BY DEF CreateRelation, At, IInv, TypeOK, Statements
<1>2. k \in RelationKeys /\ k \in Keys
  BY <1>1, CallFields, KeyTypes
<1>3. row \in RowsOf(k) /\ Amount(k, row) = 0
  BY <1>2, FreshRelation DEF IInv
<1>4. Insert(s, k, row, "commit")
  BY DEF CreateRelation
<1> HIDE DEF k, row
<1> QED
  BY <1>1, <1>2, <1>3, <1>4, InsertKeepsInv

(* A committing call has drafted every row it is due to change.            *)
LEMMA DueIsDrafted ==
  ASSUME IInv, NEW s \in Sessions, pc[s] = "commit", NEW k \in Keys,
         ~Drafted(s, k)
  PROVE  Due(call[s], k) = 0
<1>1. call[s] \in Calls
  BY DEF IInv, TypeOK, Statements
<1>2. BillDrafted(s) /\ ChargeDrafted(s)
  BY DEF IInv, SessionInv
<1>3. CASE call[s].op = "update_account"
  <2>1. k \notin {Account(call[s].user), Project(call[s].project),
                  Relation(call[s].user, call[s].project)}
    BY <1>2, <1>3 DEF BillDrafted
  <2> QED
    BY <1>3, <2>1 DEF Due
<1>4. CASE call[s].op = "charge_account"
  <2>1. k # Account(call[s].user) \/ call[s].amount = 0
    BY <1>2, <1>4 DEF ChargeDrafted
  <2> QED
    BY <1>4, <2>1 DEF Due
<1>5. CASE call[s].op \notin {"update_account", "charge_account"}
  BY <1>1, <1>5, NothingDue
<1> QED
  BY <1>3, <1>4, <1>5

LEMMA CommitKeepsInv ==
  ASSUME IInv, NEW s \in Sessions, Commit(s)
  PROVE  IInv'
<1> USE DEF IInv
<1>1. pc[s] = "commit" /\ call[s] \in Calls
  BY DEF Commit, TypeOK, Statements
<1>2. /\ pc' = [pc EXCEPT ![s] = "idle"]
      /\ tries' = [tries EXCEPT ![s] = 0]
      /\ seen' = [seen EXCEPT ![s] = Empty]
      /\ work' = [work EXCEPT ![s] = Untouched]
      /\ call' = [call EXCEPT ![s] = NoCall]
      /\ UNCHANGED <<serial, now, calls>>
  BY DEF Commit, Leave
<1>3. \A k \in Keys :
        /\ db'[k] = IF work[s][k] = Clean THEN db[k] ELSE work[s][k]
        /\ books'[k] = (IF db[k] = NoRow THEN 0 ELSE books[k])
                         + Due(call[s], k)
        /\ k \in stale' <=>
             /\ k \in AccountKeys /\ db[k] # NoRow
             /\ k \in stale \/ Outdated(s, k)
  BY DEF Commit, Keys, Outdated
<1>4. \A k \in Keys : /\ db[k] \in RowsOf(k) \cup {NoRow}
                     /\ work[s][k] \in RowsOf(k) \cup {NoRow, Clean}
                     /\ books[k] \in Int /\ Due(call[s], k) \in Int
  BY <1>1, DueType DEF TypeOK, Databases, Drafts
<1>5. TypeOK'
  <2>1. db' \in Databases
    <3>1. \A k \in Keys : db'[k] \in RowsOf(k) \cup {NoRow}
      BY <1>3, <1>4
    <3>2. \A k \in Keys : db'[k] \in Rows \cup {NoRow}
      BY <3>1, RowKinds
    <3>3. db' = [k \in Keys |-> db'[k]]
      BY DEF Commit
    <3> QED
      BY <3>1, <3>2, <3>3 DEF Databases
  <2>2. books' \in [Keys -> Int]
    <3>1. \A k \in Keys : (IF db[k] = NoRow THEN 0 ELSE books[k])
                              + Due(call[s], k) \in Int
      BY <1>4
    <3> QED
      BY <3>1 DEF Commit
  <2>3. /\ stale' \subseteq AccountKeys
        /\ crossed' \subseteq Sessions /\ loose' \subseteq Projects
    BY DEF Commit, TypeOK
  <2>4. Empty \in Databases /\ Untouched \in Drafts /\ 0 \in 0 .. MaxRetries
    BY BillingStoreAssumption DEF Empty, Untouched, Databases, Drafts
  <2>5. pc' \in [Sessions -> Ready \cup Statements]
    BY <1>2 DEF TypeOK, Ready
  <2>6. /\ call' \in [Sessions -> Calls \cup {NoCall}]
        /\ tries' \in [Sessions -> 0 .. MaxRetries]
        /\ seen' \in [Sessions -> Databases]
        /\ work' \in [Sessions -> Drafts]
    BY <1>2, <2>4 DEF TypeOK
  <2>7. \A t \in Sessions : pc'[t] \in Statements => call'[t] \in Calls
    BY <1>2 DEF TypeOK, Statements
  <2> QED
    BY <1>2, <2>1, <2>2, <2>3, <2>5, <2>6, <2>7 DEF TypeOK
<1>6. /\ work'[s] = Untouched /\ pc'[s] = "idle"
      /\ \A t \in Sessions \ {s} :
           /\ pc'[t] = pc[t] /\ call'[t] = call[t]
           /\ seen'[t] = seen[t] /\ work'[t] = work[t]
  BY <1>2 DEF TypeOK
<1>7. LockExclusion'
  BY <1>6 DEF LockExclusion, Untouched
<1>8. SessionInv(s)'
  <2>1. QuietOutside(s)' /\ ChargeRead(s)' /\ BillDrafted(s)'
          /\ ChargeDrafted(s)'
    BY <1>6 DEF QuietOutside, ChargeRead, BillDrafted, ChargeDrafted
  <2>2. \A k \in Keys : DraftAccounted(s, k)'
    BY <1>6 DEF DraftAccounted, Drafted, Untouched
  <2> QED
    BY <2>1, <2>2 DEF SessionInv
<1>9. ASSUME NEW t \in Sessions, t # s PROVE SessionInv(t)'
  <2>1. \A k \in Keys : work[t][k] # Clean => db'[k] = db[k]
    BY <1>3, <1>9 DEF LockExclusion
  <2> QED
    BY <1>6, <1>9, <2>1, OtherSession
<1>10. ASSUME NEW k \in Keys, k \notin stale', db'[k] # NoRow
       PROVE  Amount(k, db'[k]) = books'[k]
  <2>1. db[k] # NoRow => k \notin stale
    BY <1>3, <1>10 DEF TypeOK
  <2>2. db[k] # NoRow => Amount(k, db[k]) = books[k]
    BY <2>1 DEF Accounted
  <2>3. CASE work[s][k] = Clean
    <3>1. Due(call[s], k) = 0
      BY <1>1, <2>3, DueIsDrafted DEF Drafted
    <3> QED
      BY <1>3, <1>4, <1>10, <2>2, <2>3, <3>1
  <2>4. CASE work[s][k] # Clean
    <3>1. db'[k] = work[s][k] /\ Drafted(s, k)
      BY <1>3, <1>10, <2>4 DEF Drafted
    <3>2. ~Outdated(s, k)
      <4>1. Outdated(s, k) => k \in AccountKeys /\ db[k] # NoRow
        BY <1>1, CallFields, KeyTypes DEF Outdated
      <4> QED
        BY <1>3, <1>10, <4>1
    <3>3. Amount(k, work[s][k]) =
            (IF db[k] = NoRow THEN 0 ELSE Amount(k, db[k])) + Due(call[s], k)
      BY <3>1, <3>2 DEF SessionInv, DraftAccounted
    <3> QED
      BY <1>3, <2>2, <3>1, <3>3
  <2> QED
    BY <2>3, <2>4
<1>11. Accounted'
  BY <1>10 DEF Accounted
<1> QED
  BY <1>5, <1>7, <1>8, <1>9, <1>11

LEMMA TickKeepsInv ==
  ASSUME IInv, Tick
  PROVE  IInv'
<1> USE DEF IInv
<1>1. TypeOK'
  <2>1. now' \in 0 .. MaxNow
    BY BillingStoreAssumption DEF Tick, TypeOK
  <2> QED
    BY <2>1 DEF Tick, TypeOK, history, audit
<1>2. ASSUME NEW t \in Sessions PROVE SessionInv(t)'
  BY OtherSession DEF Tick
<1>3. LockExclusion' /\ Accounted'
  BY DEF Tick, LockExclusion, Accounted, history, audit
<1> QED
  BY <1>1, <1>2, <1>3

-----------------------------------------------------------------------------
(* The theorems.                                                           *)

LEMMA InitInv == Init => IInv
<1> SUFFICES ASSUME Init PROVE IInv
  OBVIOUS
<1>1. \A k \in Keys : Opening[k] \in RowsOf(k) \cup {NoRow}
  BY BillingStoreAssumption DEF Databases
<1>2. TypeOK
  <2>1. Empty \in Databases /\ Untouched \in Drafts
    BY DEF Empty, Untouched, Databases, Drafts
  <2>2. serial \in [Keys -> Nat]
    <3>1. \A k \in Keys : \A row \in RowsOf(k) : row.id \in Nat
      <4>1. \A row \in AccountRow : row.id \in Nat
        BY DEF AccountRow
      <4>2. \A row \in ProjectRow : row.id \in Nat
        BY DEF ProjectRow
      <4>3. \A row \in RelationRow : row.id \in Nat
        BY DEF RelationRow
      <4> QED
        BY <4>1, <4>2, <4>3, RowKinds DEF Keys
    <3> QED
      BY <1>1, <3>1 DEF Init
  <2>3. books \in [Keys -> Int]
    BY <1>1, AmountType DEF Init
  <2>4. /\ call \in [Sessions -> Calls \cup {NoCall}]
        /\ pc \in [Sessions -> Ready \cup Statements]
        /\ \A s \in Sessions : pc[s] \in Statements => call[s] \in Calls
    BY DEF Init, Ready, Statements
  <2>5. /\ tries \in [Sessions -> 0 .. MaxRetries]
        /\ seen \in [Sessions -> Databases]
        /\ work \in [Sessions -> Drafts]
        /\ now \in 0 .. MaxNow /\ calls \in 0 .. MaxCalls
    BY <2>1, BillingStoreAssumption DEF Init
  <2> QED
    BY <2>2, <2>3, <2>4, <2>5, BillingStoreAssumption DEF Init, TypeOK
<1>3. LockExclusion
  BY DEF Init, LockExclusion, Untouched
<1>4. ASSUME NEW s \in Sessions PROVE SessionInv(s)
  <2>1. pc[s] = "idle" /\ work[s] = Untouched
    BY DEF Init
  <2> QED
    BY <2>1 DEF SessionInv, QuietOutside, ChargeRead, BillDrafted,
                ChargeDrafted, DraftAccounted, Drafted, Untouched
<1>5. Accounted
  BY DEF Init, Accounted
<1> QED
  BY <1>2, <1>3, <1>4, <1>5 DEF IInv

LEMMA NextKeepsInv == IInv /\ [Next]_vars => IInv'
<1> SUFFICES ASSUME IInv, [Next]_vars PROVE IInv'
  OBVIOUS
<1>1. ASSUME NEW s \in Sessions, Step(s) PROVE IInv'
  BY <1>1, CheckOwnerKeepsInv, BeginKeepsInv, BillAccountKeepsInv,
     BillProjectKeepsInv, BillRelationKeepsInv, ChargeKeepsInv,
     ChangeLevelKeepsInv, ChangeOwnerKeepsInv, RelateOwnerKeepsInv,
     DeletesKeepInv, CreateAccountKeepsInv, CreateProjectKeepsInv,
     CreateRelationKeepsInv, CommitKeepsInv DEF Step
<1>2. ASSUME NEW s \in Sessions, Deadlock(s) PROVE IInv'
  BY <1>2, RerunKeepsInv DEF Deadlock, Statements
<1>3. ASSUME NEW s \in Sessions, Disconnect(s) PROVE IInv'
  BY <1>3, RaiseKeepsInv DEF Disconnect
<1>4. CASE UNCHANGED vars
  <2>1. ASSUME NEW t \in Sessions PROVE SessionInv(t)'
    BY <1>4, OtherSession DEF IInv, vars, history, audit
  <2>2. TypeOK' /\ LockExclusion' /\ Accounted'
    BY <1>4 DEF IInv, TypeOK, LockExclusion, Accounted, vars, history, audit
  <2> QED
    BY <2>1, <2>2 DEF IInv
<1> QED
  BY <1>1, <1>2, <1>3, <1>4, ReceiveKeepsInv, TickKeepsInv DEF Next

LEMMA Invariance == Spec => []IInv
  BY InitInv, NextKeepsInv, PTL DEF Spec

(* Every variable keeps its type, whatever calls arrive in whatever order, *)
(* however they are interleaved, rerun or cut off (api.py).                *)
THEOREM TypeCorrect == Spec => []TypeOK
<1>1. IInv => TypeOK
  BY DEF IInv
<1> QED
  BY <1>1, Invariance, PTL

(* The compare-and-swap of _update_params and its retry never lose a bill, *)
(* never count one twice and never book it in one table only, beside any   *)
(* other entry points, for any number of sessions and retries.             *)
THEOREM ConsumptionIsAccounted == Spec => []ConsumptionAccounted
<1>1. IInv => ConsumptionAccounted
  <2> SUFFICES ASSUME IInv, NEW k \in ProjectKeys \cup RelationKeys,
                      db[k] # NoRow
               PROVE  db[k].consumption = books[k]
    BY DEF ConsumptionAccounted
  <2>1. k \in Keys \ stale /\ k \notin AccountKeys
    BY KeyTags DEF Keys, IInv, TypeOK
  <2> QED
    BY <2>1 DEF IInv, Accounted, Amount
<1> QED
  BY <1>1, Invariance, PTL

(* An unconditional flush of charge_account over a balance that changed    *)
(* since it was read is the only way an account's balance ever parts from  *)
(* its charges less its bills.                                             *)
THEOREM BalanceIsAccounted == Spec => []BalanceAccounted
<1>1. IInv => BalanceAccounted
  BY DEF IInv, Accounted, Amount, BalanceAccounted, Keys
<1> QED
  BY <1>1, Invariance, PTL
=============================================================================
