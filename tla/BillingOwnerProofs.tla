------------------------- MODULE BillingOwnerProofs -------------------------
(***************************************************************************)
(* Proofs about BillingOwner, for any users, projects, threads, requests   *)
(* and bounds: its types, that a change of owner that nothing disturbs     *)
(* settles who is billed, and that the owner keeps the role as long as the *)
(* requests on a project come one at a time.                               *)
(***************************************************************************)
EXTENDS BillingOwner, TLAPS

-----------------------------------------------------------------------------
(* Requests and calls.                                                     *)

(* Requests are told apart by op.                                          *)
LEMMA RequestType ==
  ASSUME NEW r \in Requests
  PROVE  /\ r \in ProjectRequests \/ r \in UserRequests
         /\ r \in ProjectRequests => r.project \in Projects
         /\ r \in UserRequests => r.user \in Users
         /\ r.op \in {"put_role", "delete_role", "put_owner"}
              => r \in ProjectRequests /\ r.user \in Users
         /\ r.op \in {"post_project", "delete_project"} => r \in ProjectRequests
         /\ r.op = "post_user" => r \in UserRequests /\ r \notin ProjectRequests
  BY BillingOwnerAssumption DEF ProjectRequests, UserRequests

LEMMA NoRequestType == NoRequest \notin Requests /\ NoRequest \notin ProjectRequests
  BY BillingOwnerAssumption

LEMMA CallType ==
  /\ \A u \in Users : NewAccount(u) \in Calls /\ Welcome(u) \in Calls
  /\ \A p \in Projects : NewProject(p) \in Calls
  /\ \A u \in Users, p \in Projects : NewOwner(u, p) \in Calls
  BY DEF Calls

(* A call is about one project or about none.                              *)
CallOf(p) == {NewProject(p)} \cup {NewOwner(u, p) : u \in Users}

LEMMA PendingIs ==
  ASSUME NEW p \in Projects, late \subseteq Calls
  PROVE  Pending(p) <=> \E c \in late : c \in CallOf(p)
  BY DEF Pending, CallOf, Calls, NewAccount, Welcome, NewProject, NewOwner

LEMMA CallOfOne ==
  ASSUME NEW p \in Projects, NEW q \in Projects, NEW c, c \in CallOf(p),
         c \in CallOf(q)
  PROVE  p = q
  BY DEF CallOf, NewProject, NewOwner

-----------------------------------------------------------------------------
(* What a call does to the database.                                       *)

StoreType ==
  /\ accounts \in [Users -> AccountRow \cup {NoRow}]
  /\ projects \in [Projects -> ProjectRow \cup {NoRow}]
  /\ relations \in [Owners \X Projects -> Int \cup {NoRow}]

(* No row is ever removed, and only a call about a project changes it.     *)
Keeps(about) ==
  /\ \A u \in Users : accounts[u] # NoRow => accounts'[u] # NoRow
  /\ \A r \in Owners \X Projects : relations[r] # NoRow => relations'[r] # NoRow
  /\ \A p \in Projects : projects[p] # NoRow => projects'[p] # NoRow
  /\ \A p \in Projects \ about : projects'[p] = projects[p]

Owned(u, p) ==
  /\ projects[p] # NoRow /\ projects[p].user_id = u
  /\ accounts[u] # NoRow
  /\ relations[<<u, p>>] # NoRow

LEMMA CreateAccountEffect ==
  ASSUME StoreType, NEW u \in Users, Store!Accept(NewAccount(u))
  PROVE  StoreType' /\ Keeps({})
<1>1. Store!CreateAccount(NewAccount(u))
  BY DEF Store!Accept, NewAccount, Store!UpdateAccount, Store!ChargeAccount,
         Store!ChangeLevel, Store!ChangeBillingOwner, Store!DeleteAccount,
         Store!CreateProject
<1>2. [balance |-> 0, level |-> Level, owed |-> FALSE] \in AccountRow
  BY BillingOwnerAssumption DEF AccountRow
<1>3. NoRow \notin AccountRow
  BY BillingOwnerAssumption
<1> QED
  BY <1>1, <1>2, <1>3
     DEF Store!CreateAccount, NewAccount, StoreType, Keeps

LEMMA ChargeEffect ==
  ASSUME StoreType, NEW u \in Users, Store!Accept(Welcome(u))
  PROVE  StoreType' /\ Keeps({})
<1>1. Store!ChargeAccount(Welcome(u))
  BY DEF Store!Accept, Welcome, Store!UpdateAccount, Store!CreateAccount,
         Store!ChangeLevel, Store!ChangeBillingOwner, Store!DeleteAccount,
         Store!CreateProject
<1>2. accounts[u] \in AccountRow /\ Bonus \in Int /\ NoRow \notin AccountRow
  BY <1>1, BillingOwnerAssumption DEF Store!ChargeAccount, Welcome, StoreType
<1>3. \A b \in Int, o \in BOOLEAN :
        [accounts[u] EXCEPT !.balance = b, !.owed = o] \in AccountRow
  BY <1>2 DEF AccountRow
<1> DEFINE b == accounts[u].balance + Bonus
           o == accounts[u].owed /\ b < 0
           row == [accounts[u] EXCEPT !.balance = b, !.owed = o]
<1>4. b \in Int
  BY <1>2 DEF AccountRow
<1>5. o \in BOOLEAN
  OBVIOUS
<1>6. accounts' = [accounts EXCEPT ![u] = row] /\ UNCHANGED <<projects, relations>>
  BY <1>1, <1>2 DEF Store!ChargeAccount, Welcome, StoreType, AccountRow
<1>7. row \in AccountRow
  <2> HIDE DEF b, o
  <2> QED
    BY <1>3, <1>4, <1>5
<1> QED
  BY <1>2, <1>6, <1>7 DEF StoreType, Keeps

LEMMA CreateProjectEffect ==
  ASSUME StoreType, NEW p \in Projects, Store!Accept(NewProject(p))
  PROVE  StoreType' /\ Keeps({p})
<1>1. Store!CreateProject(NewProject(p))
  BY DEF Store!Accept, NewProject, Store!UpdateAccount, Store!CreateAccount,
         Store!ChangeLevel, Store!ChangeBillingOwner, Store!DeleteAccount,
         Store!ChargeAccount
<1>2. /\ [user_id |-> Admin, consumption |-> 0] \in ProjectRow
      /\ NoRow \notin ProjectRow /\ NoRow \notin Int
      /\ <<Admin, p>> \in Owners \X Projects
  BY BillingOwnerAssumption DEF ProjectRow
<1> QED
  BY <1>1, <1>2 DEF Store!CreateProject, NewProject, StoreType, Keeps

LEMMA ChangeOwnerEffect ==
  ASSUME StoreType, NEW u \in Users, NEW p \in Projects,
         Store!Accept(NewOwner(u, p))
  PROVE  StoreType' /\ Keeps({p}) /\ Owned(u, p)'
<1>1. Store!ChangeBillingOwner(NewOwner(u, p))
  BY DEF Store!Accept, NewOwner, Store!UpdateAccount, Store!CreateAccount,
         Store!ChangeLevel, Store!CreateProject, Store!DeleteAccount,
         Store!ChargeAccount
<1>2. /\ projects[p] \in ProjectRow /\ accounts[u] # NoRow
      /\ NoRow \notin ProjectRow /\ NoRow \notin Int
      /\ <<u, p>> \in Owners \X Projects
  BY <1>1, BillingOwnerAssumption
     DEF Store!ChangeBillingOwner, NewOwner, StoreType, Owners
<1>3. /\ [projects[p] EXCEPT !.user_id = u] \in ProjectRow
      /\ [projects[p] EXCEPT !.user_id = u].user_id = u
  BY <1>2 DEF ProjectRow, Owners
<1>4. /\ projects' = [projects EXCEPT ![p] = [projects[p] EXCEPT !.user_id = u]]
      /\ accounts' = accounts
      /\ relations' = [relations EXCEPT ![<<u, p>>] = IF @ = NoRow THEN 0 ELSE @]
  BY <1>1, <1>2 DEF Store!ChangeBillingOwner, NewOwner, StoreType
<1> QED
  BY <1>2, <1>3, <1>4 DEF StoreType, Keeps, Owned

(* All of them: CallOf says which project a call is about.                 *)
LEMMA StoreEffect ==
  ASSUME StoreType, NEW c \in Calls, Store!Accept(c)
  PROVE  StoreType' /\ Keeps({p \in Projects : c \in CallOf(p)})
<1>1. CASE \E u \in Users : c = NewAccount(u)
  BY <1>1, CreateAccountEffect DEF Keeps
<1>2. CASE \E u \in Users : c = Welcome(u)
  BY <1>2, ChargeEffect DEF Keeps
<1>3. CASE \E p \in Projects : c = NewProject(p)
  BY <1>3, CreateProjectEffect DEF Keeps, CallOf
<1>4. CASE \E u \in Users, p \in Projects : c = NewOwner(u, p)
  BY <1>4, ChangeOwnerEffect DEF Keeps, CallOf
<1> QED
  BY <1>1, <1>2, <1>3, <1>4 DEF Calls

LEMMA PerformEffect ==
  ASSUME StoreType, NEW c \in Calls, Perform(c)
  PROVE  StoreType' /\ Keeps({p \in Projects : c \in CallOf(p)})
<1>1. CASE Store!Accept(c)
  BY <1>1, StoreEffect
<1>2. CASE UNCHANGED shadowfiend
  BY <1>2 DEF shadowfiend, StoreType, Keeps
<1> QED
  BY <1>1, <1>2 DEF Perform

-----------------------------------------------------------------------------
(* Types.                                                                  *)

ThreadType ==
  /\ req \in [Threads -> Requests \cup {NoRequest}]
  /\ pc \in [Threads -> {"idle"} \cup Working]
  /\ \A t \in Threads :
       /\ pc[t] = "idle" <=> req[t] = NoRequest
       /\ pc[t] \in {"account", "bonus"} => req[t].op = "post_user"
       /\ pc[t] = "project" => req[t].op = "post_project"
       /\ pc[t] \in {"owner", "list", "remove"} => req[t].op = "put_role"
       /\ pc[t] \in {"check", "unassign"} => req[t].op = "delete_role"
       /\ pc[t] = "done" => req[t].op \in {"post_user", "post_project"}
  /\ todo \in [Threads -> SUBSET Users]

HistoryType ==
  /\ alone \in [Threads -> BOOLEAN]
  /\ agreed \subseteq Projects
  /\ settled \in [Projects -> Owners]

KeystoneType ==
  /\ users \subseteq Users
  /\ tenants \subseteq Projects
  /\ spent \subseteq Users \cup Projects
  /\ holders \in [Projects -> SUBSET Users]

OtherType ==
  /\ late \subseteq Calls
  /\ faults \in 0 .. MaxFaults
  /\ requests \in 0 .. MaxRequests

LEMMA TypeParts ==
  TypeOK <=> KeystoneType /\ StoreType /\ ThreadType /\ OtherType /\ HistoryType
  BY DEF TypeOK, KeystoneType, StoreType, ThreadType, OtherType, HistoryType

LEMMA TypePartsNext ==
  KeystoneType' /\ StoreType' /\ ThreadType' /\ OtherType' /\ HistoryType'
    => TypeOK'
  BY DEF TypeOK, KeystoneType, StoreType, ThreadType, OtherType, HistoryType

LEMMA InitType == Init => TypeOK
<1> SUFFICES ASSUME Init PROVE TypeOK
  OBVIOUS
<1>1. KeystoneType /\ ThreadType /\ OtherType /\ HistoryType
  BY BillingOwnerAssumption
     DEF Init, KeystoneType, ThreadType, OtherType, HistoryType, Working, Owners
<1>2. /\ [balance |-> Bonus, level |-> Level, owed |-> FALSE] \in AccountRow
      /\ \A u \in Owners : [user_id |-> u, consumption |-> 0] \in ProjectRow
  BY BillingOwnerAssumption DEF AccountRow, ProjectRow
<1>3. \A p \in Projects : First[p] \in Owners
  BY BillingOwnerAssumption DEF Owners
<1>4. StoreType
  BY <1>2, <1>3 DEF Init, StoreType, Store!Init, Accounts0, Projects0, Relations0
<1> QED
  BY <1>1, <1>4, TypeParts

(* What a thread does next and is answering.                               *)
LEMMA Serving ==
  ASSUME ThreadType, NEW t \in Threads, pc[t] # "idle"
  PROVE  /\ req[t] \in Requests
         /\ pc[t] \in {"account", "bonus"} =>
              req[t].user \in Users /\ req[t] \notin ProjectRequests
         /\ pc[t] \in {"owner", "list", "remove", "check", "unassign"} =>
              /\ req[t].user \in Users
              /\ req[t].project \in Projects
              /\ At(t, req[t].project)
         /\ pc[t] = "project" =>
              /\ req[t].project \in Projects
              /\ At(t, req[t].project)
<1>1. req[t] \in Requests
  BY DEF ThreadType
<1> QED
  BY <1>1, RequestType DEF ThreadType, At

LEMMA TakeType ==
  ASSUME ThreadType, OtherType, NEW t \in Threads, NEW r, NEW first,
         Take(t, r, first),
         \/ first = "account" /\ r.op = "post_user"
         \/ first = "project" /\ r.op = "post_project"
         \/ first = "owner" /\ r.op = "put_role"
         \/ first = "check" /\ r.op = "delete_role"
  PROVE  ThreadType' /\ OtherType' /\ r \in Requests
<1>1. r \in Requests /\ r # NoRequest
  BY NoRequestType DEF Take, Accept
<1>2. OtherType'
  BY BillingOwnerAssumption DEF Take, Accept, OtherType
<1>3. first \in Working /\ first # "idle"
  BY DEF Working
<1> QED
  BY <1>1, <1>2, <1>3 DEF Take, ThreadType

LEMMA FinishType ==
  ASSUME ThreadType, NEW t \in Threads, Finish(t)
  PROVE  ThreadType'
  BY NoRequestType DEF Finish, ThreadType, Working

LEMMA FaultType ==
  ASSUME OtherType, Fault
  PROVE  faults' \in 0 .. MaxFaults
  BY BillingOwnerAssumption DEF Fault, OtherType

LEMMA InvokeType ==
  ASSUME TypeOK, NEW t \in Threads, NEW c \in Calls, NEW next,
         Invoke(t, c, next), pc[t] # "idle",
         \/ next \in {"account", "bonus", "done"} /\ req[t].op = "post_user"
         \/ next = "done" /\ req[t].op = "post_project"
         \/ next = "list" /\ req[t].op = "put_role"
  PROVE  TypeOK'
<1>1. KeystoneType /\ StoreType /\ ThreadType /\ OtherType /\ HistoryType
  BY TypeParts
<1>2. KeystoneType' /\ HistoryType'
  BY <1>1 DEF Invoke, keystone, history, KeystoneType, HistoryType
<1>3. CASE Accepts(c) /\ Store!Accept(c) /\ Continue(t, next)
           /\ UNCHANGED <<late, faults>>
  <2>1. StoreType'
    BY <1>1, <1>3, StoreEffect
  <2>2. ThreadType'
    BY <1>1, <1>3 DEF Continue, ThreadType, Working
  <2>3. OtherType'
    BY <1>1, <1>3 DEF Invoke, OtherType
  <2> QED
    BY <1>2, <2>1, <2>2, <2>3, TypePartsNext
<1>4. CASE Finish(t) /\ UNCHANGED <<shadowfiend, late, faults>>
  BY <1>1, <1>2, <1>4, FinishType, TypePartsNext
     DEF Invoke, shadowfiend, StoreType, OtherType
<1>5. CASE Fault /\ Finish(t) /\ late' \in {late, late \cup {c}}
           /\ UNCHANGED shadowfiend
  <2>1. OtherType'
    BY <1>1, <1>5, FaultType DEF Invoke, OtherType
  <2> QED
    BY <1>1, <1>2, <1>5, <2>1, FinishType, TypePartsNext DEF shadowfiend, StoreType
<1> QED
  BY <1>3, <1>4, <1>5 DEF Invoke

LEMMA InterfereType ==
  ASSUME HistoryType, ThreadType, NEW some, Interfere(some)
  PROVE  HistoryType'
  BY BillingOwnerAssumption DEF HistoryType, Interfere, Owners

LEMMA EnterType ==
  ASSUME HistoryType, NEW t \in Threads, NEW p \in Projects, Enter(t, p)
  PROVE  HistoryType'
<1>1. /\ Quiet(p) \in BOOLEAN
      /\ \A x \in Threads : (alone[x] /\ ~At(x, p)) \in BOOLEAN
  BY DEF Quiet
<1>2. alone' \in [Threads -> BOOLEAN]
  BY <1>1 DEF Enter, HistoryType
<1> QED
  BY <1>2 DEF HistoryType, Enter, Owners

(* Every step keeps the types.                                             *)
LEMMA TypeStep == TypeOK /\ [Next]_vars => TypeOK'
<1> SUFFICES ASSUME TypeOK, [Next]_vars PROVE TypeOK'
  OBVIOUS
<1>1. KeystoneType /\ StoreType /\ ThreadType /\ OtherType /\ HistoryType
  BY TypeParts
<1>2. ASSUME NEW t \in Threads, NEW u \in Users, PostUser(t, u) PROVE TypeOK'
  <2>1. ThreadType' /\ OtherType'
    BY <1>1, <1>2, TakeType DEF PostUser
  <2>2. KeystoneType' /\ StoreType' /\ HistoryType'
    BY <1>1, <1>2 DEF PostUser, Take, KeystoneType, StoreType, HistoryType,
                      shadowfiend, history
  <2> QED
    BY <2>1, <2>2, TypePartsNext
<1>3. ASSUME NEW t \in Threads, NEW p \in Projects, PostProject(t, p)
      PROVE  TypeOK'
  <2>1. ThreadType' /\ OtherType'
    BY <1>1, <1>3, TakeType DEF PostProject
  <2>2. KeystoneType' /\ StoreType'
    BY <1>1, <1>3 DEF PostProject, Take, KeystoneType, StoreType, shadowfiend
  <2>3. HistoryType'
    BY <1>1, <1>3, EnterType DEF PostProject
  <2> QED
    BY <2>1, <2>2, <2>3, TypePartsNext
<1>4. ASSUME NEW t \in Threads, NEW u \in Users, NEW p \in Projects,
             PutRole(t, u, p)
      PROVE  TypeOK'
  <2>1. ThreadType' /\ OtherType'
    BY <1>1, <1>4, TakeType DEF PutRole
  <2>2. KeystoneType' /\ StoreType'
    BY <1>1, <1>4 DEF PutRole, Take, KeystoneType, StoreType, shadowfiend
  <2>3. HistoryType'
    BY <1>1, <1>4, EnterType DEF PutRole
  <2> QED
    BY <2>1, <2>2, <2>3, TypePartsNext
<1>5. ASSUME NEW t \in Threads, NEW u \in Users, NEW p \in Projects,
             DeleteRole(t, u, p)
      PROVE  TypeOK'
  <2>1. ThreadType' /\ OtherType'
    BY <1>1, <1>5, TakeType DEF DeleteRole
  <2>2. KeystoneType' /\ StoreType'
    BY <1>1, <1>5
       DEF DeleteRole, Take, KeystoneType, StoreType, shadowfiend, keystone
  <2>3. HistoryType'
    BY <1>1, <1>5, EnterType DEF DeleteRole
  <2> QED
    BY <2>1, <2>2, <2>3, TypePartsNext
<1>6. ASSUME NEW t \in Threads, Serve(t) PROVE TypeOK'
  <2>1. CASE CreateAccount(t)
    BY <1>1, <2>1, Serving, CallType, InvokeType DEF CreateAccount, ThreadType
  <2>2. CASE ChargeBonus(t)
    BY <1>1, <2>2, Serving, CallType, InvokeType DEF ChargeBonus, ThreadType
  <2>3. CASE CreateProject(t)
    BY <1>1, <2>3, Serving, CallType, InvokeType DEF CreateProject, ThreadType
  <2>4. CASE ChangeOwner(t)
    BY <1>1, <2>4, Serving, CallType, InvokeType DEF ChangeOwner, ThreadType
  <2>5. CASE ListAssignments(t)
    <3>1. ThreadType'
      BY <1>1, <2>5, Serving
         DEF ListAssignments, ThreadType, KeystoneType, Working
    <3> QED
      BY <1>1, <2>5, <3>1, TypePartsNext
         DEF ListAssignments, KeystoneType, StoreType, OtherType, HistoryType,
             keystone, shadowfiend, history
  <2>6. CASE RemoveRole(t)
    <3>1. ThreadType' /\ holders' \in [Projects -> SUBSET Users]
      BY <1>1, <2>6, Serving, FinishType
         DEF RemoveRole, ThreadType, KeystoneType
    <3> QED
      BY <1>1, <2>6, <3>1, TypePartsNext
         DEF RemoveRole, KeystoneType, StoreType, OtherType, HistoryType,
             shadowfiend, history
  <2>7. CASE CheckOwner(t)
    <3>1. ThreadType'
      BY <1>1, <2>7, FinishType DEF CheckOwner, Continue, ThreadType, Working
    <3> QED
      BY <1>1, <2>7, <3>1, TypePartsNext
         DEF CheckOwner, KeystoneType, StoreType, OtherType, HistoryType,
             keystone, shadowfiend, history
  <2>8. CASE Unassign(t)
    <3>1. ThreadType' /\ holders' \in [Projects -> SUBSET Users]
      BY <1>1, <2>8, FinishType DEF Unassign, KeystoneType
    <3> QED
      BY <1>1, <2>8, <3>1, TypePartsNext
         DEF Unassign, KeystoneType, StoreType, OtherType, HistoryType,
             shadowfiend, history
  <2>9. CASE Answer(t)
    <3>1. ThreadType'
      BY <1>1, <2>9, FinishType DEF Answer
    <3>2. req[t] \in Requests
      BY <1>1, <2>9, Serving DEF Answer
    <3>3. HistoryType'
      BY <1>1, <2>9, <3>2, RequestType DEF Answer, HistoryType, Owners
    <3> QED
      BY <1>1, <2>9, <3>1, <3>3, TypePartsNext
         DEF Answer, KeystoneType, StoreType, OtherType, keystone, shadowfiend
  <2> QED
    BY <1>6, <2>1, <2>2, <2>3, <2>4, <2>5, <2>6, <2>7, <2>8, <2>9 DEF Serve
<1>7. ASSUME NEW t \in Threads, Fail(t) PROVE TypeOK'
  <2>1. ThreadType' /\ OtherType'
    BY <1>1, <1>7, FinishType, FaultType DEF Fail, OtherType
  <2> QED
    BY <1>1, <1>7, <2>1, TypePartsNext
       DEF Fail, KeystoneType, StoreType, HistoryType, keystone, shadowfiend,
           history
<1>8. ASSUME NEW c \in late, ServeLate(c) PROVE TypeOK'
  <2>1. StoreType'
    BY <1>1, <1>8, PerformEffect DEF ServeLate, OtherType
  <2>2. HistoryType'
    BY <1>1, <1>8, InterfereType DEF ServeLate
  <2> QED
    BY <1>1, <1>8, <2>1, <2>2, TypePartsNext
       DEF ServeLate, KeystoneType, ThreadType, OtherType, keystone, threads
<1>9. ASSUME NEW c \in late, LoseLate(c) PROVE TypeOK'
  BY <1>1, <1>9, TypePartsNext
     DEF LoseLate, KeystoneType, StoreType, ThreadType, OtherType, HistoryType,
         keystone, shadowfiend, threads, history
<1>10. ASSUME NEW u \in Users, DeleteUser(u) PROVE TypeOK'
  <2>1. HistoryType'
    BY <1>1, <1>10, InterfereType DEF DeleteUser
  <2>2. OtherType'
    BY <1>1, <1>10, BillingOwnerAssumption DEF DeleteUser, Accept, OtherType
  <2> QED
    BY <1>1, <1>10, <2>1, <2>2, TypePartsNext
       DEF DeleteUser, KeystoneType, StoreType, ThreadType, shadowfiend, threads
<1>11. ASSUME NEW p \in Projects, DeleteProject(p) PROVE TypeOK'
  <2>1. HistoryType'
    BY <1>1, <1>11, InterfereType DEF DeleteProject
  <2>2. OtherType'
    BY <1>1, <1>11, BillingOwnerAssumption DEF DeleteProject, Accept, OtherType
  <2> QED
    BY <1>1, <1>11, <2>1, <2>2, TypePartsNext
       DEF DeleteProject, KeystoneType, StoreType, ThreadType, shadowfiend,
           threads
<1>12. ASSUME NEW u \in Users, NEW p \in Projects, PutOwner(u, p)
       PROVE  TypeOK'
  <2>1. HistoryType'
    BY <1>1, <1>12, InterfereType DEF PutOwner
  <2>2. OtherType'
    BY <1>1, <1>12, BillingOwnerAssumption DEF PutOwner, Accept, OtherType
  <2>3. StoreType'
    BY <1>1, <1>12, StoreEffect, CallType DEF PutOwner
  <2> QED
    BY <1>1, <1>12, <2>1, <2>2, <2>3, TypePartsNext
       DEF PutOwner, KeystoneType, ThreadType, keystone, threads
<1>13. CASE UNCHANGED vars
  BY <1>1, <1>13, TypePartsNext
     DEF vars, keystone, shadowfiend, threads, history, KeystoneType,
         StoreType, ThreadType, OtherType, HistoryType
<1> QED
  BY <1>2, <1>3, <1>4, <1>5, <1>6, <1>7, <1>8, <1>9, <1>10, <1>11, <1>12,
     <1>13 DEF Next

(* Every variable keeps its type, and every thread is at a call its        *)
(* request makes.                                                          *)
THEOREM TypeCorrect == Spec => []TypeOK
<1>1. Init => TypeOK
  BY InitType
<1>2. TypeOK /\ [Next]_vars => TypeOK'
  BY TypeStep
<1> QED
  BY <1>1, <1>2, PTL DEF Spec

-----------------------------------------------------------------------------
(* The inductive invariant.  A thread that has been alone on its project   *)
(* since it came knows what it finds there; a settled project is at rest;  *)
(* whoever works on a project in agreement is alone there.                 *)

Exclusive ==
  \A t \in Threads, p \in Projects : alone[t] /\ At(t, p) =>
    ~Pending(p) /\ \A x \in Threads \ {t} : ~At(x, p)

FollowingOf(t) ==
  LET u == req[t].user
      p == req[t].project
  IN alone[t] =>
       /\ pc[t] = "owner" => u \in holders[p]
       /\ pc[t] \in {"list", "remove"} => Owned(u, p) /\ u \in holders[p]
       /\ pc[t] = "remove" => u \notin todo[t] /\ holders[p] = {u} \cup todo[t]
       /\ pc[t] = "unassign" => projects[p] # NoRow /\ projects[p].user_id # u
Following == \A t \in Threads : FollowingOf(t)

Calm == \A p \in Projects : settled[p] # NoUser => Quiet(p)

Orderly == \A p \in agreed, t \in Threads : At(t, p) => alone[t]

Billed(p) == settled[p] # NoUser =>
               holders[p] = {settled[p]} /\ Owned(settled[p], p)
Held(p) == p \in agreed =>
             projects[p] # NoRow /\ projects[p].user_id \in holders[p]

IInv ==
  /\ TypeOK
  /\ Exclusive /\ Following /\ Calm /\ Orderly
  /\ \A p \in Projects : Billed(p) /\ Held(p)

LEMMA ImpliesProperties == IInv => SettledIsBilled /\ OwnerHoldsRole
  BY DEF IInv, TypeOK, Billed, Held, Owned, SettledIsBilled, OwnerHoldsRole

LEMMA OneProject ==
  ASSUME NEW t, NEW p, NEW q, At(t, p), At(t, q)
  PROVE  p = q
  BY DEF At

LEMMA InitInv == Init => IInv
<1> SUFFICES ASSUME Init PROVE IInv
  OBVIOUS
<1>1. TypeOK
  BY InitType
<1>2. \A t \in Threads, p \in Projects : ~At(t, p)
  BY NoRequestType DEF Init, At
<1>3. \A p \in Projects : ~Pending(p)
  BY DEF Init, Pending
<1>4. Exclusive /\ Following /\ Calm /\ Orderly
  BY <1>2, <1>3 DEF Init, Exclusive, Following, FollowingOf, Calm, Orderly, Quiet
<1>5. ASSUME NEW p \in Projects PROVE Billed(p) /\ Held(p)
  <2>1. CASE First[p] = NoUser
    BY <2>1 DEF Init, Billed, Held
  <2>2. CASE First[p] # NoUser
    <3>1. /\ First[p] \in Registered /\ First[p] \in Users
          /\ First[p] \in Owners
      BY <2>2, BillingOwnerAssumption DEF Owners
    <3>2. holders[p] = {First[p]} /\ settled[p] = First[p]
      BY <2>2 DEF Init
    <3>3. /\ [balance |-> Bonus, level |-> Level, owed |-> FALSE] # NoRow
          /\ [user_id |-> First[p], consumption |-> 0] # NoRow /\ 0 # NoRow
      <4>1. /\ [balance |-> Bonus, level |-> Level, owed |-> FALSE] \in AccountRow
            /\ [user_id |-> First[p], consumption |-> 0] \in ProjectRow
        BY <3>1, BillingOwnerAssumption DEF AccountRow, ProjectRow
      <4>2. NoRow \notin AccountRow /\ NoRow \notin ProjectRow /\ NoRow \notin Int
        BY BillingOwnerAssumption
      <4>3. 0 # NoRow
        BY <4>2
      <4> QED
        BY <4>1, <4>2, <4>3, Zenon
    <3>4. accounts[First[p]] # NoRow
      BY <3>1, <3>3 DEF Init, Store!Init, Accounts0
    <3>5. projects[p] = [user_id |-> First[p], consumption |-> 0]
      BY <2>2 DEF Init, Store!Init, Projects0
    <3>6. relations[<<First[p], p>>] = 0
      BY <2>2, <3>1 DEF Init, Store!Init, Relations0
    <3> QED
      BY <3>2, <3>3, <3>4, <3>5, <3>6 DEF Billed, Held, Owned
  <2> QED
    BY <2>1, <2>2
<1> QED
  BY <1>1, <1>4, <1>5 DEF IInv

-----------------------------------------------------------------------------
(* What holds of other projects and threads is not disturbed by a step.    *)

(* What a thread knows stays true when its project is left alone.          *)
LEMMA OthersFollow ==
  ASSUME TypeOK, NEW t \in Threads, FollowingOf(t), NEW about,
         alone'[t] => alone[t] /\ \A p \in about : ~At(t, p),
         Keeps(about),
         \A p \in Projects \ about : holders'[p] = holders[p],
         req'[t] = req[t], pc'[t] = pc[t], todo'[t] = todo[t]
  PROVE  FollowingOf(t)'
<1>1. ThreadType
  BY TypeParts
<1>2. CASE pc[t] \in {"owner", "list", "remove", "unassign"} /\ alone'[t]
  <2> DEFINE u == req[t].user
             p == req[t].project
  <2>1. u \in Users /\ p \in Projects /\ At(t, p) /\ <<u, p>> \in Owners \X Projects
    BY <1>1, <1>2, Serving DEF Owners
  <2>2. p \in Projects \ about
    BY <1>2, <2>1
  <2>3. holders'[p] = holders[p] /\ projects'[p] = projects[p]
    BY <2>2 DEF Keeps
  <2>4. Owned(u, p) => Owned(u, p)'
    BY <2>1, <2>3 DEF Owned, Keeps
  <2> QED
    BY <1>2, <2>3, <2>4 DEF FollowingOf
<1>3. CASE ~(pc[t] \in {"owner", "list", "remove", "unassign"} /\ alone'[t])
  BY <1>3 DEF FollowingOf
<1> QED
  BY <1>2, <1>3

LEMMA BilledStays ==
  ASSUME TypeOK, NEW p \in Projects, NEW about, p \notin about, Keeps(about),
         holders'[p] = holders[p], settled'[p] = settled[p], Billed(p)
  PROVE  Billed(p)'
<1>1. settled[p] \in Owners
  BY DEF TypeOK
<1>2. settled[p] # NoUser => settled[p] \in Users /\ <<settled[p], p>> \in Owners \X Projects
  BY <1>1 DEF Owners
<1> QED
  BY <1>2 DEF Billed, Owned, Keeps

(* A thread serves its request, and takes nothing new up.                  *)
LEMMA ServeFrame ==
  ASSUME IInv, NEW t \in Threads, NEW about,
         about = {p \in Projects : At(t, p)},
         Keeps(about),
         \A p \in Projects \ about : holders'[p] = holders[p],
         \A x \in Threads \ {t} :
           req'[x] = req[x] /\ pc'[x] = pc[x] /\ todo'[x] = todo[x],
         \A p \in Projects : At(t, p)' => At(t, p),
         late' \subseteq Calls,
         \A c \in late' : \/ c \in late
                          \/ /\ \A p \in Projects : ~At(t, p)'
                             /\ \A p \in Projects \ about : c \notin CallOf(p),
         UNCHANGED history,
         FollowingOf(t)',
         \A p \in about : Held(p)'
  PROVE  /\ Exclusive' /\ Following' /\ Calm' /\ Orderly'
         /\ \A p \in Projects : Billed(p)' /\ Held(p)'
<1>1. TypeOK /\ Exclusive /\ Following /\ Calm /\ Orderly
  BY DEF IInv
<1>2. alone' = alone /\ agreed' = agreed /\ settled' = settled
  BY DEF history
<1>3. \A x \in Threads, p \in Projects : At(x, p)' => At(x, p)
  BY DEF At
<1>4. \A x \in Threads \ {t}, p \in Projects : alone[x] /\ At(x, p) => p \notin about
  BY <1>1 DEF Exclusive
<1>5. \A p \in Projects : Pending(p)' => Pending(p) \/ (p \in about /\ \A q \in Projects : ~At(t, q)')
  <2> SUFFICES ASSUME NEW p \in Projects, Pending(p)', ~Pending(p)
               PROVE  p \in about /\ \A q \in Projects : ~At(t, q)'
    OBVIOUS
  <2>1. PICK c \in late' : c \in CallOf(p)
    BY DEF Pending, CallOf, Calls, NewAccount, Welcome, NewProject, NewOwner
  <2>2. c \notin late
    BY <1>1, <2>1, PendingIs DEF TypeOK
  <2> QED
    BY <2>1, <2>2
<1>6. Exclusive'
  <2> SUFFICES ASSUME NEW x \in Threads, NEW p \in Projects, alone[x], At(x, p)'
               PROVE  ~Pending(p)' /\ \A y \in Threads \ {x} : ~At(y, p)'
    BY <1>2 DEF Exclusive
  <2>1. ~Pending(p) /\ \A y \in Threads \ {x} : ~At(y, p)
    BY <1>1, <1>3 DEF Exclusive
  <2>2. p \in about /\ (\A q \in Projects : ~At(t, q)') => FALSE
    <3>1. CASE x = t
      BY <3>1
    <3>2. CASE x # t
      BY <3>2, <1>3, <1>4
    <3> QED
      BY <3>1, <3>2
  <2> QED
    BY <1>3, <1>5, <2>1, <2>2
<1>7. \A p \in Projects : settled[p] # NoUser => p \notin about
  BY <1>1 DEF Calm, Quiet
<1>8. Calm'
  BY <1>1, <1>2, <1>3, <1>5, <1>7 DEF Calm, Quiet
<1>9. Orderly'
  BY <1>1, <1>2, <1>3 DEF Orderly, TypeOK
<1>10. Following'
  <2>1. ASSUME NEW x \in Threads \ {t} PROVE FollowingOf(x)'
    <3>1. alone'[x] => alone[x] /\ \A p \in about : ~At(x, p)
      BY <1>2, <1>4
    <3>2. FollowingOf(x)
      BY <1>1 DEF Following
    <3> QED
      BY <1>1, <3>1, <3>2, OthersFollow
  <2> QED
    BY <2>1 DEF Following
<1>11. ASSUME NEW p \in Projects PROVE Billed(p)' /\ Held(p)'
  <2>1. CASE p \in about
    BY <1>2, <1>7, <2>1 DEF Billed
  <2>2. CASE p \notin about
    BY <1>1, <1>2, <2>2, BilledStays DEF Held, Keeps, IInv
  <2> QED
    BY <2>1, <2>2
<1> QED
  BY <1>6, <1>8, <1>9, <1>10, <1>11

(* A thread takes up a request on project q.                               *)
LEMMA EnterFrame ==
  ASSUME IInv, NEW t \in Threads, NEW q \in Projects, Enter(t, q),
         UNCHANGED <<shadowfiend, todo, late>>,
         pc[t] = "idle", req'[t] \in ProjectRequests, req'[t].project = q,
         \A x \in Threads \ {t} : req'[x] = req[x] /\ pc'[x] = pc[x],
         \A p \in Projects \ {q} : holders'[p] = holders[p],
         FollowingOf(t)',
         Held(q)'
  PROVE  /\ Exclusive' /\ Following' /\ Calm' /\ Orderly'
         /\ \A p \in Projects : Billed(p)' /\ Held(p)'
<1>1. TypeOK /\ Exclusive /\ Following /\ Calm /\ Orderly
  BY DEF IInv
<1>2. /\ \A x \in Threads \ {t}, p \in Projects : At(x, p)' <=> At(x, p)
      /\ \A p \in Projects : At(t, p)' <=> p = q
      /\ \A p \in Projects : ~At(t, p)
  BY <1>1, NoRequestType DEF At, TypeOK
<1>3. \A p \in Projects : Pending(p)' <=> Pending(p)
  BY DEF Pending
<1>4. /\ alone'[t] = Quiet(q)
      /\ \A x \in Threads \ {t} : alone'[x] = (alone[x] /\ ~At(x, q))
      /\ agreed' = IF Quiet(q) THEN agreed ELSE agreed \ {q}
      /\ settled'[q] = NoUser
      /\ \A p \in Projects \ {q} : settled'[p] = settled[p]
  BY <1>1 DEF Enter, TypeOK
<1>5. Exclusive'
  <2> SUFFICES ASSUME NEW x \in Threads, NEW p \in Projects, alone'[x], At(x, p)'
               PROVE  ~Pending(p)' /\ \A y \in Threads \ {x} : ~At(y, p)'
    BY DEF Exclusive
  <2>1. CASE x = t
    BY <1>2, <1>3, <1>4, <2>1 DEF Quiet
  <2>2. CASE x # t
    <3>1. alone[x] /\ ~At(x, q) /\ At(x, p)
      BY <1>2, <1>4, <2>2
    <3> QED
      BY <1>1, <1>2, <1>3, <3>1 DEF Exclusive
  <2> QED
    BY <2>1, <2>2
<1>6. Calm'
  BY <1>1, <1>2, <1>3, <1>4 DEF Calm, Quiet
<1>7. Orderly'
  <2> SUFFICES ASSUME NEW p \in agreed', NEW x \in Threads, At(x, p)'
               PROVE  alone'[x]
    BY DEF Orderly
  <2>1. p \in agreed /\ p \in Projects /\ (p = q => Quiet(q))
    BY <1>1, <1>4 DEF TypeOK
  <2>2. CASE x = t
    BY <1>2, <1>4, <2>1, <2>2
  <2>3. CASE x # t
    <3>1. At(x, p) /\ p # q
      BY <1>2, <2>1, <2>3 DEF Quiet
    <3> QED
      BY <1>1, <1>4, <2>1, <2>3, <3>1, OneProject DEF Orderly
  <2> QED
    BY <2>2, <2>3
<1>8. Keeps({q}) /\ Keeps({})
  BY DEF shadowfiend, Keeps
<1>9. Following'
  <2>1. ASSUME NEW x \in Threads \ {t} PROVE FollowingOf(x)'
    <3>1. alone'[x] => alone[x] /\ \A p \in {q} : ~At(x, p)
      BY <1>4
    <3>2. FollowingOf(x)
      BY <1>1 DEF Following
    <3> QED
      BY <1>1, <1>8, <3>1, <3>2, OthersFollow
  <2> QED
    BY <2>1 DEF Following
<1>10. ASSUME NEW p \in Projects PROVE Billed(p)' /\ Held(p)'
  <2>1. CASE p = q
    BY <1>4, <2>1 DEF Billed
  <2>2. CASE p # q
    <3>1. Billed(p)'
      BY <1>1, <1>4, <1>8, <2>2, BilledStays DEF IInv
    <3> QED
      BY <1>4, <2>2, <3>1 DEF Held, IInv, shadowfiend
  <2> QED
    BY <2>1, <2>2
<1> QED
  BY <1>5, <1>6, <1>7, <1>9, <1>10

(* Something else changes the owners of some projects.                     *)
LEMMA InterfereFrame ==
  ASSUME IInv, NEW some, Interfere(some), Keeps(some),
         UNCHANGED threads, late' \subseteq late,
         \A p \in Projects \ some : holders'[p] = holders[p]
  PROVE  /\ Exclusive' /\ Following' /\ Calm' /\ Orderly'
         /\ \A p \in Projects : Billed(p)' /\ Held(p)'
<1>1. TypeOK /\ Exclusive /\ Following /\ Calm /\ Orderly
  BY DEF IInv
<1>2. \A x \in Threads, p \in Projects : At(x, p)' <=> At(x, p)
  BY DEF threads, At
<1>3. \A p \in Projects : Pending(p)' => Pending(p)
  BY DEF Pending
<1>4. /\ \A x \in Threads : alone'[x] = (alone[x] /\ \A p \in some : ~At(x, p))
      /\ agreed' = agreed \ some
      /\ \A p \in Projects : settled'[p] = IF p \in some THEN NoUser ELSE settled[p]
  BY DEF Interfere
<1>5. Exclusive'
  BY <1>1, <1>2, <1>3, <1>4 DEF Exclusive
<1>6. Calm'
  BY <1>1, <1>2, <1>3, <1>4 DEF Calm, Quiet
<1>7. Orderly'
  BY <1>1, <1>2, <1>4, OneProject DEF Orderly, TypeOK
<1>8. Following'
  <2>1. ASSUME NEW x \in Threads PROVE FollowingOf(x)'
    BY <1>1, <1>4, OthersFollow DEF Following, threads
  <2> QED
    BY <2>1 DEF Following
<1>9. ASSUME NEW p \in Projects PROVE Billed(p)' /\ Held(p)'
  <2>1. CASE p \in some
    BY <1>4, <2>1 DEF Billed, Held
  <2>2. CASE p \notin some
    BY <1>1, <1>4, <2>2, BilledStays DEF IInv, Held, Keeps
  <2> QED
    BY <2>1, <2>2
<1> QED
  BY <1>5, <1>6, <1>7, <1>8, <1>9

-----------------------------------------------------------------------------
(* The steps, one by one.                                                  *)

Rest ==
  /\ Exclusive /\ Following /\ Calm /\ Orderly
  /\ \A p \in Projects : Billed(p) /\ Held(p)

LEMMA NothingKept ==
  ASSUME UNCHANGED shadowfiend, NEW about
  PROVE  Keeps(about)
  BY DEF shadowfiend, Keeps

(* An answered thread knows nothing.                                       *)
LEMMA IdleFollows ==
  ASSUME NEW t \in Threads, ThreadType, Finish(t)
  PROVE  /\ FollowingOf(t)'
         /\ \A p \in Projects : ~At(t, p)'
         /\ \A x \in Threads \ {t} :
              req'[x] = req[x] /\ pc'[x] = pc[x] /\ todo'[x] = todo[x]
  BY NoRequestType DEF Finish, ThreadType, FollowingOf, At

(* Whatever becomes of a call, the thread is alone with its project.       *)
LEMMA InvokeStep ==
  ASSUME IInv, NEW t \in Threads, NEW c \in Calls, NEW next,
         Invoke(t, c, next), pc[t] # "idle",
         \A p \in Projects : c \in CallOf(p) => At(t, p),
         Accepts(c) /\ Store!Accept(c) /\ Continue(t, next) =>
           /\ FollowingOf(t)'
           /\ \A p \in Projects : At(t, p) => Held(p)'
  PROVE  Rest'
<1> DEFINE about == {p \in Projects : At(t, p)}
<1>1. TypeOK /\ ThreadType /\ StoreType /\ OtherType
  BY TypeParts DEF IInv
<1>2. holders' = holders /\ UNCHANGED history
  BY DEF Invoke, keystone
<1>3. CASE Accepts(c) /\ Store!Accept(c) /\ Continue(t, next)
           /\ UNCHANGED <<late, faults>>
  <2>1. Keeps(about)
    <3>1. Keeps({p \in Projects : c \in CallOf(p)})
      BY <1>1, <1>3, StoreEffect
    <3> QED
      BY <3>1 DEF Keeps
  <2>2. /\ \A x \in Threads \ {t} :
             req'[x] = req[x] /\ pc'[x] = pc[x] /\ todo'[x] = todo[x]
        /\ \A p \in Projects : At(t, p)' <=> At(t, p)
    BY <1>1, <1>3 DEF Continue, ThreadType, At
  <2> QED
    BY <1>1, <1>2, <1>3, <2>1, <2>2, ServeFrame DEF Rest, OtherType
<1>4. CASE Finish(t) /\ UNCHANGED shadowfiend /\ late' \in {late, late \cup {c}}
  <2>1. Keeps(about)
    BY <1>4, NothingKept
  <2>2. \A p \in about : Held(p)'
    BY <1>2, <1>4 DEF IInv, Held, shadowfiend, history
  <2>3. /\ late' \subseteq Calls
        /\ \A d \in late' : d \in late \/ \A p \in Projects \ about : d \notin CallOf(p)
    BY <1>1, <1>4 DEF OtherType
  <2> QED
    BY <1>1, <1>2, <1>4, <2>1, <2>2, <2>3, IdleFollows, ServeFrame DEF Rest
<1> QED
  BY <1>3, <1>4 DEF Invoke

(* So it is with a request that ends without touching anything.            *)
LEMMA EndStep ==
  ASSUME IInv, NEW t \in Threads, Finish(t),
         UNCHANGED <<holders, shadowfiend, late, history>>
  PROVE  Rest'
<1> DEFINE about == {p \in Projects : At(t, p)}
<1>1. TypeOK /\ ThreadType
  BY TypeParts DEF IInv
<1>2. Keeps(about)
  BY NothingKept
<1>3. \A p \in about : Held(p)'
  BY DEF IInv, Held, shadowfiend, history
<1> QED
  BY <1>1, <1>2, <1>3, IdleFollows, ServeFrame DEF Rest, TypeOK

LEMMA PostUserStep ==
  ASSUME IInv, NEW t \in Threads, NEW u \in Users, PostUser(t, u)
  PROVE  Rest'
<1> DEFINE about == {p \in Projects : At(t, p)}
<1>1. TypeOK /\ ThreadType
  BY TypeParts DEF IInv
<1>2. /\ pc[t] = "idle" /\ pc'[t] = "account"
      /\ req'[t] = [op |-> "post_user", user |-> u]
      /\ \A x \in Threads \ {t} :
           req'[x] = req[x] /\ pc'[x] = pc[x] /\ todo'[x] = todo[x]
  BY <1>1 DEF PostUser, Take, ThreadType
<1>3. \A p \in Projects : ~At(t, p) /\ ~At(t, p)'
  BY <1>1, <1>2, NoRequestType DEF At, ThreadType, ProjectRequests
<1>4. Keeps(about)
  BY NothingKept DEF PostUser, Take
<1>5. FollowingOf(t)'
  BY <1>2 DEF FollowingOf
<1> QED
  BY <1>1, <1>2, <1>3, <1>4, <1>5, ServeFrame DEF PostUser, Take, Rest, TypeOK

(* A request on project p is taken up, adding at most holders of its role. *)
LEMMA TakeStep ==
  ASSUME IInv, NEW t \in Threads, NEW p \in Projects, NEW r, NEW first,
         Take(t, r, first), r \in ProjectRequests, r.project = p, Enter(t, p),
         holders' \in [Projects -> SUBSET Users],
         holders[p] \subseteq holders'[p],
         \A q \in Projects \ {p} : holders'[q] = holders[q],
         first \in {"project", "owner", "check"},
         first = "owner" => r.user \in holders'[p]
  PROVE  Rest'
<1>1. TypeOK /\ ThreadType
  BY TypeParts DEF IInv
<1>2. /\ pc[t] = "idle" /\ pc'[t] = first /\ req'[t] = r
      /\ \A x \in Threads \ {t} : req'[x] = req[x] /\ pc'[x] = pc[x]
  BY <1>1 DEF Take, ThreadType
<1>3. FollowingOf(t)'
  BY <1>2 DEF FollowingOf
<1>4. Held(p)'
  BY DEF IInv, Held, Enter, Take, shadowfiend
<1> QED
  BY <1>1, <1>2, <1>3, <1>4, EnterFrame DEF Take, Rest

LEMMA ChangeOwnerStep ==
  ASSUME IInv, NEW t \in Threads, ChangeOwner(t)
  PROVE  Rest'
<1>1. TypeOK /\ ThreadType /\ StoreType /\ Following /\ Orderly
  BY TypeParts DEF IInv
<1>a. PICK u \in Users, p \in Projects :
        req[t].user = u /\ req[t].project = p /\ At(t, p)
  BY <1>1, Serving DEF ChangeOwner
<1> DEFINE c == NewOwner(u, p)
<1>2. pc[t] = "owner" /\ Invoke(t, c, "list")
  BY <1>a DEF ChangeOwner
<1>3. At(t, p) /\ c \in Calls
  BY <1>a, CallType
<1>4. \A q \in Projects : c \in CallOf(q) => At(t, q)
  BY <1>3, CallOfOne DEF CallOf
<1>5. ASSUME Store!Accept(c), Continue(t, "list")
      PROVE  FollowingOf(t)' /\ \A q \in Projects : At(t, q) => Held(q)'
  <2>1. Owned(u, p)'
    BY <1>1, <1>3, <1>5, ChangeOwnerEffect
  <2>2. alone'[t] = alone[t] /\ holders' = holders /\ agreed' = agreed
    BY <1>2 DEF Invoke, keystone, history
  <2>3. alone[t] => u \in holders[p]
    BY <1>1, <1>a, <1>2 DEF Following, FollowingOf
  <2>4. req'[t] = req[t] /\ pc'[t] = "list"
    BY <1>1, <1>5 DEF Continue, ThreadType
  <2>5. FollowingOf(t)'
    BY <1>a, <2>1, <2>2, <2>3, <2>4 DEF FollowingOf
  <2>6. Held(p)'
    BY <1>1, <1>3, <2>1, <2>2, <2>3 DEF Held, Owned, Orderly
  <2> QED
    BY <1>3, <2>5, <2>6, OneProject
<1> QED
  BY <1>2, <1>3, <1>4, <1>5, InvokeStep

LEMMA ListStep ==
  ASSUME IInv, NEW t \in Threads, ListAssignments(t)
  PROVE  Rest'
<1> DEFINE about == {q \in Projects : At(t, q)}
<1>1. TypeOK /\ ThreadType /\ KeystoneType /\ Following
  BY TypeParts DEF IInv
<1>2. PICK u \in Users, p \in Projects :
        req[t].user = u /\ req[t].project = p /\ At(t, p) /\ pc[t] = "list"
  BY <1>1, Serving DEF ListAssignments
<1>3. /\ pc'[t] = "remove" /\ req' = req /\ todo'[t] = holders[p] \ {u}
      /\ \A x \in Threads \ {t} : pc'[x] = pc[x] /\ todo'[x] = todo[x]
  BY <1>1, <1>2 DEF ListAssignments, ThreadType
<1>4. UNCHANGED <<holders, shadowfiend, late, history>>
  BY DEF ListAssignments, keystone
<1>5. alone[t] => Owned(u, p) /\ u \in holders[p]
  BY <1>1, <1>2 DEF Following, FollowingOf
<1>6. Owned(u, p)' <=> Owned(u, p)
  BY <1>4 DEF Owned, shadowfiend
<1>7. FollowingOf(t)'
  BY <1>2, <1>3, <1>4, <1>5, <1>6 DEF FollowingOf, history
<1>8. Keeps(about) /\ \A q \in about : Held(q)'
  BY <1>4, NothingKept DEF IInv, Held, shadowfiend, history
<1>9. \A q \in Projects : At(t, q)' <=> At(t, q)
  BY <1>3 DEF At
<1> QED
  BY <1>1, <1>3, <1>4, <1>7, <1>8, <1>9, ServeFrame DEF Rest, TypeOK

LEMMA RemoveStep ==
  ASSUME IInv, NEW t \in Threads, RemoveRole(t)
  PROVE  Rest'
<1> DEFINE about == {q \in Projects : At(t, q)}
<1>1. TypeOK /\ ThreadType /\ KeystoneType /\ Following /\ Orderly
  BY TypeParts DEF IInv
<1>2. PICK u \in Users, p \in Projects :
        req[t].user = u /\ req[t].project = p /\ At(t, p) /\ pc[t] = "remove"
  BY <1>1, Serving DEF RemoveRole
<1>3. UNCHANGED <<shadowfiend, late, history>>
  BY DEF RemoveRole
<1>4. PICK v \in todo[t] :
        \/ /\ v \in holders[p]
           /\ holders' = [holders EXCEPT ![p] = @ \ {v}]
           /\ todo' = [todo EXCEPT ![t] = @ \ {v}]
           /\ UNCHANGED <<req, pc>>
        \/ Finish(t) /\ UNCHANGED holders
  BY <1>2 DEF RemoveRole
<1>5. CASE Finish(t) /\ UNCHANGED holders
  BY <1>3, <1>5, EndStep
<1>6. CASE /\ v \in holders[p]
           /\ holders' = [holders EXCEPT ![p] = @ \ {v}]
           /\ todo' = [todo EXCEPT ![t] = @ \ {v}]
           /\ UNCHANGED <<req, pc>>
  <2>1. /\ holders'[p] = holders[p] \ {v} /\ todo'[t] = todo[t] \ {v}
        /\ \A q \in Projects \ {p} : holders'[q] = holders[q]
        /\ \A x \in Threads \ {t} : todo'[x] = todo[x]
    BY <1>1, <1>2, <1>6 DEF ThreadType, KeystoneType
  <2>2. alone[t] => /\ Owned(u, p) /\ u \in holders[p] /\ u \notin todo[t]
                    /\ holders[p] = {u} \cup todo[t]
    BY <1>1, <1>2 DEF Following, FollowingOf
  <2>3. Owned(u, p)' <=> Owned(u, p)
    BY <1>3, <1>6 DEF Owned, shadowfiend
  <2>4. alone'[t] = alone[t] /\ agreed' = agreed /\ projects' = projects
    BY <1>3 DEF history, shadowfiend
  <2>5. FollowingOf(t)'
    BY <1>2, <1>6, <2>1, <2>2, <2>3, <2>4 DEF FollowingOf
  <2>6. Held(p)'
    BY <1>1, <1>2, <2>1, <2>2, <2>4 DEF Held, Owned, Orderly
  <2>7. Keeps(about) /\ \A q \in about : Held(q)'
    BY <1>2, <1>3, <2>6, NothingKept, OneProject
  <2>8. \A q \in Projects : At(t, q)' <=> At(t, q)
    BY <1>6 DEF At
  <2>9. \A q \in Projects \ about : holders'[q] = holders[q]
    BY <1>2, <2>1
  <2> QED
    BY <1>1, <1>3, <1>6, <2>1, <2>5, <2>7, <2>8, <2>9, ServeFrame DEF Rest, TypeOK
<1> QED
  BY <1>4, <1>5, <1>6

LEMMA CheckStep ==
  ASSUME IInv, NEW t \in Threads, CheckOwner(t)
  PROVE  Rest'
<1> DEFINE about == {q \in Projects : At(t, q)}
<1>1. TypeOK /\ ThreadType
  BY TypeParts DEF IInv
<1>2. UNCHANGED <<holders, shadowfiend, late, history>>
  BY DEF CheckOwner, keystone
<1>3. CASE Finish(t)
  BY <1>2, <1>3, EndStep
<1>4. CASE IsOtherThanOwner(t) /\ Continue(t, "unassign")
  <2>1. /\ pc'[t] = "unassign" /\ req' = req /\ todo' = todo
        /\ \A x \in Threads \ {t} : pc'[x] = pc[x]
    BY <1>1, <1>4 DEF Continue, ThreadType
  <2>2. FollowingOf(t)'
    BY <1>2, <1>4, <2>1 DEF FollowingOf, IsOtherThanOwner, shadowfiend
  <2>3. Keeps(about) /\ \A q \in about : Held(q)'
    BY <1>2, NothingKept DEF IInv, Held, shadowfiend, history
  <2>4. \A q \in Projects : At(t, q)' <=> At(t, q)
    BY <2>1 DEF At
  <2> QED
    BY <1>1, <1>2, <2>1, <2>2, <2>3, <2>4, ServeFrame DEF Rest, TypeOK
<1> QED
  BY <1>3, <1>4 DEF CheckOwner

LEMMA UnassignStep ==
  ASSUME IInv, NEW t \in Threads, Unassign(t)
  PROVE  Rest'
<1> DEFINE about == {q \in Projects : At(t, q)}
<1>1. TypeOK /\ ThreadType /\ KeystoneType /\ Following /\ Orderly
  BY TypeParts DEF IInv
<1>2. PICK u \in Users, p \in Projects :
        req[t].user = u /\ req[t].project = p /\ At(t, p) /\ pc[t] = "unassign"
  BY <1>1, Serving DEF Unassign
<1>3. Finish(t) /\ UNCHANGED <<shadowfiend, late, history>>
  BY DEF Unassign
<1>4. /\ holders'[p] = holders[p] \ {u}
      /\ \A q \in Projects \ {p} : holders'[q] = holders[q]
  BY <1>1, <1>2 DEF Unassign, KeystoneType
<1>5. alone[t] => projects[p] # NoRow /\ projects[p].user_id # u
  BY <1>1, <1>2 DEF Following, FollowingOf
<1>6. Held(p)'
  BY <1>1, <1>2, <1>3, <1>4, <1>5 DEF IInv, Held, Orderly, shadowfiend, history
<1>7. Keeps(about) /\ \A q \in about : Held(q)'
  BY <1>2, <1>3, <1>6, NothingKept, OneProject
<1>8. \A q \in Projects \ about : holders'[q] = holders[q]
  BY <1>2, <1>4
<1> QED
  BY <1>1, <1>3, <1>7, <1>8, IdleFollows, ServeFrame DEF Rest, TypeOK

LEMMA AccountStep ==
  ASSUME IInv, NEW t \in Threads, CreateAccount(t) \/ ChargeBonus(t)
  PROVE  Rest'
<1>1. TypeOK /\ ThreadType
  BY TypeParts DEF IInv
<1>2. pc[t] \in {"account", "bonus"}
  BY DEF CreateAccount, ChargeBonus
<1>3. PICK u \in Users : req[t].user = u /\ req[t] \notin ProjectRequests
  BY <1>1, <1>2, Serving
<1>4. \A p \in Projects : ~At(t, p)
  BY <1>3 DEF At
<1>5. NewAccount(u) \in Calls /\ Welcome(u) \in Calls
  BY CallType
<1>6. \A p \in Projects : NewAccount(u) \notin CallOf(p) /\ Welcome(u) \notin CallOf(p)
  BY DEF CallOf, NewAccount, Welcome, NewProject, NewOwner
<1>7. ASSUME NEW next \in {"bonus", "done"}, Continue(t, next)
      PROVE  FollowingOf(t)'
  BY <1>1, <1>7 DEF Continue, ThreadType, FollowingOf
<1>8. CASE CreateAccount(t)
  <2>1. Invoke(t, NewAccount(u), "bonus")
    BY <1>3, <1>8 DEF CreateAccount
  <2> QED
    BY <1>2, <1>4, <1>5, <1>6, <1>7, <2>1, InvokeStep
<1>9. CASE ChargeBonus(t)
  <2>1. Invoke(t, Welcome(u), "done")
    BY <1>3, <1>9 DEF ChargeBonus
  <2> QED
    BY <1>2, <1>4, <1>5, <1>6, <1>7, <2>1, InvokeStep
<1> QED
  BY <1>8, <1>9

(* A project shadowfiend does not know yet is in nobody's agreement.       *)
LEMMA CreateProjectStep ==
  ASSUME IInv, NEW t \in Threads, CreateProject(t)
  PROVE  Rest'
<1>1. TypeOK /\ ThreadType
  BY TypeParts DEF IInv
<1>2. PICK p \in Projects :
        req[t].project = p /\ At(t, p) /\ pc[t] = "project"
  BY <1>1, Serving DEF CreateProject
<1>3. Invoke(t, NewProject(p), "done") /\ NewProject(p) \in Calls
  BY <1>2, CallType DEF CreateProject
<1>4. \A q \in Projects : NewProject(p) \in CallOf(q) => At(t, q)
  BY <1>2, CallOfOne DEF CallOf
<1>5. ASSUME Accepts(NewProject(p)), Continue(t, "done")
      PROVE  FollowingOf(t)' /\ \A q \in Projects : At(t, q) => Held(q)'
  <2>1. FollowingOf(t)'
    BY <1>1, <1>5 DEF Continue, ThreadType, FollowingOf
  <2>2. projects[p] = NoRow
    BY <1>5 DEF Accepts, NewProject
  <2>3. p \notin agreed
    BY <2>2 DEF IInv, Held
  <2>4. agreed' = agreed
    BY <1>3 DEF Invoke, history
  <2>5. Held(p)'
    BY <2>3, <2>4 DEF Held
  <2> QED
    BY <1>2, <2>1, <2>5, OneProject
<1> QED
  BY <1>2, <1>3, <1>4, <1>5, InvokeStep

(* The request that is answered leaves its project at rest.                *)
LEMMA AnswerStep ==
  ASSUME IInv, NEW t \in Threads, Answer(t)
  PROVE  Rest'
<1>1. TypeOK /\ ThreadType /\ HistoryType /\ Exclusive /\ Following /\ Calm
      /\ Orderly
  BY TypeParts DEF IInv
<1>2. Finish(t) /\ UNCHANGED <<holders, shadowfiend, late, alone>>
  BY DEF Answer, keystone
<1>3. CASE req[t].op = "put_role" /\ alone[t]
  <2>1. pc[t] = "remove" /\ todo[t] = {}
    BY <1>1, <1>3 DEF Answer, ThreadType
  <2>2. PICK u \in Users, p \in Projects :
          req[t].user = u /\ req[t].project = p /\ At(t, p)
    BY <1>1, <2>1, Serving
  <2>3. /\ agreed' = agreed \cup {p}
        /\ settled' = [settled EXCEPT ![p] = u]
    BY <1>3, <2>2 DEF Answer
  <2>4. Owned(u, p) /\ holders[p] = {u}
    BY <1>1, <1>3, <2>1, <2>2 DEF Following, FollowingOf
  <2>5. \A x \in Threads, q \in Projects : At(x, q)' => At(x, q) /\ x # t
    BY <1>1, <1>2, IdleFollows DEF At
  <2>6. Quiet(p)'
    <3>1. ~Pending(p)'
      BY <1>1, <1>2, <1>3, <2>2 DEF Exclusive, Pending
    <3>2. \A x \in Threads : ~At(x, p)'
      BY <1>1, <1>3, <2>2, <2>5 DEF Exclusive
    <3> QED
      BY <3>1, <3>2 DEF Quiet
  <2>7. /\ settled'[p] = u
        /\ \A q \in Projects \ {p} : settled'[q] = settled[q]
    BY <1>1, <2>3 DEF HistoryType
  <2>8. \A q \in Projects : Pending(q)' <=> Pending(q)
    BY <1>2 DEF Pending
  <2>9. Exclusive'
    BY <1>1, <1>2, <2>5, <2>8 DEF Exclusive
  <2>10. Calm'
    BY <1>1, <2>5, <2>6, <2>7, <2>8 DEF Calm, Quiet
  <2>11. Orderly'
    BY <1>1, <1>2, <2>2, <2>3, <2>5, <2>6 DEF Orderly, Quiet, HistoryType
  <2>12. Following'
    <3>1. ASSUME NEW x \in Threads \ {t} PROVE FollowingOf(x)'
      <4>1. req'[x] = req[x] /\ pc'[x] = pc[x] /\ todo'[x] = todo[x]
        BY <1>1, <1>2, IdleFollows
      <4>2. Keeps({}) /\ FollowingOf(x)
        BY <1>1, <1>2, NothingKept DEF Following
      <4> QED
        BY <1>1, <1>2, <4>1, <4>2, OthersFollow
    <3> QED
      BY <1>1, <1>2, <3>1, IdleFollows DEF Following
  <2>13. ASSUME NEW q \in Projects PROVE Billed(q)' /\ Held(q)'
    <3>1. CASE q = p
      BY <1>2, <2>4, <2>7, <3>1 DEF Billed, Held, Owned, shadowfiend
    <3>2. CASE q # p
      BY <1>2, <2>3, <2>7, <3>2 DEF IInv, Billed, Held, Owned, shadowfiend
    <3> QED
      BY <3>1, <3>2
  <2> QED
    BY <2>9, <2>10, <2>11, <2>12, <2>13 DEF Rest
<1>4. CASE ~(req[t].op = "put_role" /\ alone[t])
  <2>1. UNCHANGED history
    BY <1>2, <1>4 DEF Answer, history
  <2> QED
    BY <1>2, <2>1, EndStep
<1> QED
  BY <1>3, <1>4

LEMMA ServeLateStep ==
  ASSUME IInv, NEW c \in late, ServeLate(c)
  PROVE  Rest'
<1> DEFINE some == {p \in Projects : c \in CallOf(p)}
<1>1. StoreType /\ c \in Calls
  BY TypeParts DEF IInv, OtherType
<1>2. Keeps(some)
  BY <1>1, PerformEffect DEF ServeLate
<1>3. Interfere(some)
  BY DEF ServeLate, CallOf
<1> QED
  BY <1>2, <1>3, InterfereFrame DEF ServeLate, Rest, keystone

LEMMA PutOwnerStep ==
  ASSUME IInv, NEW u \in Users, NEW p \in Projects, PutOwner(u, p)
  PROVE  Rest'
<1>1. StoreType
  BY TypeParts DEF IInv
<1>2. Keeps({p})
  BY <1>1, ChangeOwnerEffect DEF PutOwner
<1> QED
  BY <1>2, InterfereFrame DEF PutOwner, Rest, keystone

LEMMA DeleteStep ==
  ASSUME IInv,
         \/ \E u \in Users : DeleteUser(u)
         \/ \E p \in Projects : DeleteProject(p)
  PROVE  Rest'
<1>1. CASE \E u \in Users : DeleteUser(u)
  <2>1. Interfere(Projects) /\ Keeps(Projects)
    BY <1>1, NothingKept DEF DeleteUser
  <2> QED
    BY <1>1, <2>1, InterfereFrame DEF DeleteUser, Rest
<1>2. ASSUME NEW p \in Projects, DeleteProject(p) PROVE Rest'
  <2>1. Interfere({p}) /\ Keeps({p})
    BY <1>2, NothingKept DEF DeleteProject
  <2>2. \A q \in Projects \ {p} : holders'[q] = holders[q]
    BY <1>2 DEF DeleteProject, IInv, TypeOK
  <2> QED
    BY <1>2, <2>1, <2>2, InterfereFrame DEF DeleteProject, Rest
<1> QED
  BY <1>1, <1>2

(* A call that is never served, and no step at all.                        *)
LEMMA NothingStep ==
  ASSUME IInv, UNCHANGED <<keystone, shadowfiend, threads, history>>,
         late' \subseteq late
  PROVE  Rest'
<1>1. TypeOK /\ Exclusive /\ Following /\ Calm /\ Orderly
  BY DEF IInv
<1>2. \A x \in Threads, p \in Projects : At(x, p)' <=> At(x, p)
  BY DEF threads, At
<1>3. \A p \in Projects : Pending(p)' => Pending(p)
  BY DEF Pending
<1>4. Exclusive' /\ Calm' /\ Orderly'
  BY <1>1, <1>2, <1>3 DEF Exclusive, Calm, Orderly, Quiet, history, TypeOK
<1>5. Following'
  BY <1>1 DEF Following, FollowingOf, Owned, threads, history, keystone, shadowfiend
<1>6. \A p \in Projects : Billed(p)' /\ Held(p)'
  BY DEF IInv, Billed, Held, Owned, history, keystone, shadowfiend
<1> QED
  BY <1>4, <1>5, <1>6 DEF Rest

LEMMA InvStep == IInv /\ [Next]_vars => IInv'
<1> SUFFICES ASSUME IInv, [Next]_vars PROVE IInv'
  OBVIOUS
<1>1. TypeOK'
  BY TypeStep DEF IInv
<1>2. TypeOK
  BY DEF IInv
<1>3. ASSUME NEW t \in Threads, NEW u \in Users, PostUser(t, u) PROVE Rest'
  BY <1>3, PostUserStep
<1>4. ASSUME NEW t \in Threads, NEW p \in Projects, PostProject(t, p)
      PROVE  Rest'
  <2> DEFINE r == [op |-> "post_project", project |-> p]
  <2>1. r \in ProjectRequests /\ r.project = p
    BY DEF ProjectRequests
  <2>2. Take(t, r, "project") /\ Enter(t, p) /\ holders' = holders
    BY <1>4 DEF PostProject
  <2> QED
    BY <1>2, <2>1, <2>2, TakeStep DEF TypeOK
<1>5. ASSUME NEW t \in Threads, NEW u \in Users, NEW p \in Projects,
             PutRole(t, u, p)
      PROVE  Rest'
  <2> DEFINE r == [op |-> "put_role", user |-> u, project |-> p]
  <2>1. r \in ProjectRequests /\ r.project = p /\ r.user = u
    BY DEF ProjectRequests
  <2>2. Take(t, r, "owner") /\ Enter(t, p)
    BY <1>5 DEF PutRole
  <2>3. /\ holders' \in [Projects -> SUBSET Users]
        /\ holders'[p] = holders[p] \cup {u}
        /\ \A q \in Projects \ {p} : holders'[q] = holders[q]
    BY <1>2, <1>5 DEF PutRole, TypeOK
  <2> QED
    BY <2>1, <2>2, <2>3, TakeStep
<1>6. ASSUME NEW t \in Threads, NEW u \in Users, NEW p \in Projects,
             DeleteRole(t, u, p)
      PROVE  Rest'
  <2> DEFINE r == [op |-> "delete_role", user |-> u, project |-> p]
  <2>1. r \in ProjectRequests /\ r.project = p
    BY DEF ProjectRequests
  <2>2. Take(t, r, "check") /\ Enter(t, p) /\ holders' = holders
    BY <1>6 DEF DeleteRole, keystone
  <2> QED
    BY <1>2, <2>1, <2>2, TakeStep DEF TypeOK
<1>7. ASSUME NEW t \in Threads, Serve(t) PROVE Rest'
  BY <1>7, AccountStep, CreateProjectStep, ChangeOwnerStep, ListStep,
     RemoveStep, CheckStep, UnassignStep, AnswerStep DEF Serve
<1>8. ASSUME NEW t \in Threads, Fail(t) PROVE Rest'
  BY <1>8, EndStep DEF Fail, keystone
<1>9. ASSUME NEW c \in late, ServeLate(c) \/ LoseLate(c) PROVE Rest'
  BY <1>9, ServeLateStep, NothingStep DEF LoseLate
<1>10. ASSUME NEW u \in Users, NEW p \in Projects, PutOwner(u, p) PROVE Rest'
  BY <1>10, PutOwnerStep
<1>11. ASSUME \/ \E u \in Users : DeleteUser(u)
              \/ \E p \in Projects : DeleteProject(p)
       PROVE  Rest'
  BY <1>11, DeleteStep
<1>12. ASSUME UNCHANGED vars PROVE Rest'
  BY <1>12, NothingStep DEF vars
<1>13. Rest'
  BY <1>3, <1>4, <1>5, <1>6, <1>7, <1>8, <1>9, <1>10, <1>11, <1>12 DEF Next
<1> QED
  BY <1>1, <1>13 DEF IInv, Rest

(* A PUT of the role of billing owner that succeeds undisturbed leaves one *)
(* owner in keystone and in the database, with an account and a relation   *)
(* to be billed by: mid_keystone.add_role, whatever has failed before it.  *)
THEOREM SettledOwnersAreBilled == Spec => []SettledIsBilled
<1>1. Init => IInv
  BY InitInv
<1>2. IInv /\ [Next]_vars => IInv'
  BY InvStep
<1>3. IInv => SettledIsBilled
  BY ImpliesProperties
<1> QED
  BY <1>1, <1>2, <1>3, PTL DEF Spec

(* As long as the requests on a project come one at a time, the owner in   *)
(* the database keeps the role: the check before a DELETE of the role, and *)
(* the order of calls in add_role, are enough for any number of failures.  *)
THEOREM OwnersHoldTheRole == Spec => []OwnerHoldsRole
<1>1. Init => IInv
  BY InitInv
<1>2. IInv /\ [Next]_vars => IInv'
  BY InvStep
<1>3. IInv => OwnerHoldsRole
  BY ImpliesProperties
<1> QED
  BY <1>1, <1>2, <1>3, PTL DEF Spec
=============================================================================
