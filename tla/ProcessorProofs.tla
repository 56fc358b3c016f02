-------------------------- MODULE ProcessorProofs --------------------------
(***************************************************************************)
(* Proofs about Processor, for any instances, projects, listings, prices   *)
(* and bounds: its types, that no period is skipped, that it is a          *)
(* Metering, and that a period is billed once, and in full.                *)
(***************************************************************************)
EXTENDS Processor, FiniteSets, FiniteSetTheorems, TLAPS

-----------------------------------------------------------------------------
(* Types.                                                                  *)

(* The bounds are numbers.                                                 *)
LEMMA Bounds == MaxHour \in Nat /\ MaxHour > 0 /\ MaxFaults \in Nat
  BY ProcessorAssumption

(* The period an instance picks is one of the model's.                     *)
LEMMA PeriodType ==
  ASSUME TypeOK, NEW p \in Projects
  PROVE  PeriodToBill(p) \in 0 .. MaxHour
<1>1. /\ hour \in 1 .. MaxHour
      /\ bottom[p] \in 0 .. MaxHour
      /\ top[p] \in 0 .. MaxHour
      /\ state[p] \in 0 .. MaxHour
  BY DEF TypeOK
<1> QED
  BY <1>1, Bounds DEF PeriodToBill

(* A worker at a project, and one that has been given a period.            *)
LEMMA WorkerType ==
  ASSUME TypeOK, NEW w \in Processors
  PROVE  /\ pc[w] \in Working => job[w] \in Job
         /\ pc[w] \in Working => job[w].project \in Projects
         /\ pc[w] \in Billing => job[w].period \in Periods
         /\ pc[w] \in Billing => job[w].amount \in Nat
         /\ pc[w] \in Billing => job[w].attempt \in Nat
  BY DEF TypeOK, Job, Working

LEMMA FaultType ==
  ASSUME TypeOK, Fault
  PROVE  faults' \in 0 .. MaxFaults
  BY Bounds DEF TypeOK, Fault

LEMMA InitType == Init => TypeOK
  BY ProcessorAssumption DEF Init, TypeOK, Periods, Steps, Working, Billing

(* The steps at which a run of primary_period ends.                        *)
LEMMA RaiseType ==
  ASSUME TypeOK, NEW w \in Processors, Raise(w)
  PROVE  /\ pc' \in [Processors -> Steps]
         /\ rest' \in [Processors -> SUBSET Projects]
         /\ round' \in [Processors -> SUBSET Projects]
         /\ job' \in [Processors -> Job \cup {NoJob}]
         /\ \A v \in Processors :
              /\ pc'[v] \in Working <=> job'[v] # NoJob
              /\ pc'[v] \in Billing => job'[v].period \in Periods
  BY DEF TypeOK, Raise, Continue, Steps, Working, Billing

(* A worker is put to its next call.                                       *)
LEMMA WorkType ==
  ASSUME TypeOK, NEW w \in Processors, NEW j \in Job, NEW next \in Working,
         next \in Billing => j.period \in Periods,
         job' = [job EXCEPT ![w] = j],
         pc' = [pc EXCEPT ![w] = next]
  PROVE  /\ pc' \in [Processors -> Steps]
         /\ job' \in [Processors -> Job \cup {NoJob}]
         /\ \A v \in Processors :
              /\ pc'[v] \in Working <=> job'[v] # NoJob
              /\ pc'[v] \in Billing => job'[v].period \in Periods
<1>1. j # NoJob /\ next \in Steps
  BY ProcessorAssumption DEF Steps
<1>2. pc'[w] = next /\ job'[w] = j
  BY DEF TypeOK
<1>3. \A v \in Processors \ {w} : pc'[v] = pc[v] /\ job'[v] = job[v]
  BY DEF TypeOK
<1> QED
  BY <1>1, <1>2, <1>3 DEF TypeOK

LEMMA JobPeriod ==
  ASSUME NEW j \in Job, NEW t \in Periods
  PROVE  /\ [j EXCEPT !.period = t] \in Job
         /\ [j EXCEPT !.period = t].period = t
<1>1. t \in 0 .. MaxHour
  BY Bounds DEF Periods
<1> QED
  BY <1>1 DEF Job

LEMMA AbortType ==
  ASSUME TypeOK, NEW w \in Processors, Abort(w)
  PROVE  /\ aborted' \in [Projects -> [Periods -> Nat]]
         /\ UNCHANGED <<start, opened, coarse>>
<1>1. pc[w] \in {"wait", "state"} =>
        job[w].project \in Projects /\ job[w].period \in Periods
  BY WorkerType DEF Working, Billing
<1> QED
  BY <1>1 DEF TypeOK, Abort

LEMMA TypeStep == TypeOK /\ [Next]_vars => TypeOK'
<1> SUFFICES ASSUME TypeOK, [Next]_vars
             PROVE  TypeOK'
  OBVIOUS
<1> USE DEF gnocchi, books, history
<1>1. CASE UNCHANGED vars
  BY <1>1 DEF TypeOK, vars
<1>2. CASE Tick
  <2>1. hour' \in 1 .. MaxHour
    BY <1>2, Bounds DEF TypeOK, Tick
  <2> QED
    BY <1>2, <2>1 DEF TypeOK, Tick
<1>3. ASSUME NEW p \in Projects, NEW t \in Periods, Rate(p, t)
      PROVE  TypeOK'
  <2>1. t \in 0 .. MaxHour
    BY Bounds DEF Periods
  <2> QED
    BY <1>3, <2>1 DEF TypeOK, Rate
<1>4. ASSUME NEW w \in Processors, Fetch(w)
      PROVE  TypeOK'
  BY <1>4, ProcessorAssumption DEF TypeOK, Fetch, Continue, Steps, Working, Billing
<1>5. ASSUME NEW w \in Processors, StartPass(w)
      PROVE  TypeOK'
  BY <1>5 DEF TypeOK, StartPass, Continue, Steps, Working, Billing
<1>6. ASSUME NEW w \in Processors, EndPass(w)
      PROVE  TypeOK'
  BY <1>6 DEF TypeOK, EndPass, Continue, Steps, Working, Billing
<1>7. ASSUME NEW w \in Processors, NEW p \in Projects, Visit(w, p)
      PROVE  TypeOK'
  <2> DEFINE j == [project |-> p, period |-> 0, amount |-> 0, attempt |-> 0]
  <2>1. j \in Job /\ j # NoJob
    BY ProcessorAssumption DEF Job
  <2> HIDE DEF j
  <2>2. CASE lock[p] = Free
    <3>1. job' = [job EXCEPT ![w] = j] /\ pc' = [pc EXCEPT ![w] = "check"]
      BY <1>7, <2>2 DEF Visit, Continue, j
    <3>2. "check" \in Working /\ "check" \notin Billing
      BY DEF Working, Billing
    <3>3. /\ pc' \in [Processors -> Steps]
          /\ job' \in [Processors -> Job \cup {NoJob}]
          /\ \A v \in Processors :
               /\ pc'[v] \in Working <=> job'[v] # NoJob
               /\ pc'[v] \in Billing => job'[v].period \in Periods
      BY <2>1, <3>1, <3>2, WorkType
    <3>4. lock' = [lock EXCEPT ![p] = w]
      BY <1>7, <2>2 DEF Visit
    <3>5. lock' \in [Projects -> Processors \cup {Free}]
      BY <3>4 DEF TypeOK
    <3>6. round' \in [Processors -> SUBSET Projects]
      BY <1>7 DEF TypeOK, Visit
    <3> QED
      BY <1>7, <3>3, <3>5, <3>6 DEF TypeOK, Visit
  <2>3. CASE lock[p] # Free
    BY <1>7, <2>3 DEF TypeOK, Visit, Steps, Working, Billing
  <2> QED
    BY <2>2, <2>3
<1>8. ASSUME NEW w \in Processors, UpToDate(w)
      PROVE  TypeOK'
  BY <1>8 DEF TypeOK, UpToDate, Continue, Steps, Working, Billing
<1>9. ASSUME NEW w \in Processors, BeginPeriod(w)
      PROVE  TypeOK'
  <2> DEFINE p == job[w].project
             t == PeriodToBill(p)
             j == [job[w] EXCEPT !.period = t]
  <2>1. p \in Projects /\ job[w] \in Job
    BY <1>9, WorkerType DEF BeginPeriod, Working
  <2>2. t \in Periods
    BY <1>9, <2>1, PeriodType DEF BeginPeriod, Periods
  <2> HIDE DEF t
  <2>3. j \in Job /\ j.period \in Periods /\ j # NoJob
    BY <2>1, <2>2, JobPeriod, ProcessorAssumption
  <2>4. /\ job' = [job EXCEPT ![w] = j]
        /\ pc' = [pc EXCEPT ![w] = "consume"]
        /\ opened' = opened \cup {<<p, t>>} \/ opened' = opened
    BY <1>9 DEF BeginPeriod, Continue, TypeOK, t
  <2> HIDE DEF p, j
  <2> QED
    <3>1. "consume" \in Working
      BY DEF Working, Billing
    <3>2. /\ pc' \in [Processors -> Steps]
          /\ job' \in [Processors -> Job \cup {NoJob}]
          /\ \A v \in Processors :
               /\ pc'[v] \in Working <=> job'[v] # NoJob
               /\ pc'[v] \in Billing => job'[v].period \in Periods
      BY <2>3, <2>4, <3>1, WorkType
    <3>3. opened' \subseteq Projects \X Periods
      BY <2>1, <2>2, <2>4 DEF TypeOK
    <3> QED
      BY <1>9, <3>2, <3>3 DEF TypeOK, BeginPeriod
<1>10. ASSUME NEW w \in Processors, FailToCheck(w)
       PROVE  TypeOK'
  BY <1>10, RaiseType DEF TypeOK, FailToCheck
<1>11. ASSUME NEW w \in Processors, Consume(w)
       PROVE  TypeOK'
  <2> DEFINE p == job[w].project
             t == job[w].period
  <2>1. p \in Projects /\ t \in Periods /\ job[w] \in Job
    BY <1>11, WorkerType DEF Consume, Working, Billing
  <2>2. Stored(p, t) \subseteq Nat /\ DayPrice[t] \in Nat
    BY <2>1, ProcessorAssumption DEF Stored, Cost
  <2>3. PICK c \in Nat : job' = [job EXCEPT ![w].amount = c]
    BY <1>11, <2>2 DEF Consume
  <2> DEFINE j == [job[w] EXCEPT !.amount = c]
  <2>4. j \in Job /\ j.period \in Periods /\ j # NoJob
    BY <2>1, <2>3, ProcessorAssumption DEF Job
  <2>5. /\ job' = [job EXCEPT ![w] = j]
        /\ pc' = [pc EXCEPT ![w] = "payer"]
        /\ faults' \in 0 .. MaxFaults
        /\ coarse' \subseteq Projects \X Periods
    BY <1>11, <2>1, <2>3, FaultType DEF TypeOK, Consume, Continue
  <2> HIDE DEF p, t, j
  <2> QED
    BY <1>11, <2>4, <2>5 DEF TypeOK, Consume, Steps, Working, Billing
<1>12. ASSUME NEW w \in Processors, GetPayer(w)
       PROVE  TypeOK'
  <2>1. CASE Raise(w)
    BY <1>12, <2>1, RaiseType DEF TypeOK, GetPayer
  <2>2. CASE ~Raise(w)
    BY <1>12, <2>2 DEF TypeOK, GetPayer, Continue, Steps, Working, Billing
  <2> QED
    BY <2>1, <2>2
<1>13. ASSUME NEW w \in Processors, OwedAction(w)
       PROVE  TypeOK'
  <2>1. CASE Raise(w)
    BY <1>13, <2>1, RaiseType DEF TypeOK, OwedAction
  <2>2. CASE ~Raise(w)
    BY <1>13, <2>2 DEF TypeOK, OwedAction, Continue, Steps, Working, Billing
  <2> QED
    BY <2>1, <2>2
<1>14. ASSUME NEW w \in Processors, Send(w)
       PROVE  TypeOK'
  <2> DEFINE p == job[w].project
             t == job[w].period
             a == aborted[p][t]
             j == [job[w] EXCEPT !.attempt = a]
             r == [by |-> w, project |-> p, period |-> t,
                   amount |-> job[w].amount, attempt |-> a]
  <2>1. /\ p \in Projects /\ t \in Periods /\ job[w] \in Job
        /\ job[w].amount \in Nat
    BY <1>14, WorkerType DEF Send, Working, Billing
  <2>2. a \in Nat
    BY <2>1 DEF TypeOK
  <2> HIDE DEF a
  <2>3. j \in Job /\ j.period \in Periods /\ j # NoJob /\ r \in Request
    BY <2>1, <2>2, ProcessorAssumption DEF Job, Request
  <2>4. /\ job' = [job EXCEPT ![w] = j]
        /\ pc' = [pc EXCEPT ![w] = "wait"]
        /\ inflight' = inflight \cup {r}
    BY <1>14 DEF Send, Continue, TypeOK, a
  <2> HIDE DEF p, t, j, r
  <2> QED
    BY <1>14, <2>3, <2>4 DEF TypeOK, Send, Steps, Working, Billing
<1>15. ASSUME NEW w \in Processors, SetState(w)
       PROVE  TypeOK'
  <2> DEFINE p == job[w].project
             t == job[w].period
  <2>1. p \in Projects /\ t \in 0 .. MaxHour
    BY <1>15, WorkerType, ProcessorAssumption
       DEF SetState, Working, Billing, Periods
  <2>2. /\ state' = [state EXCEPT ![p] = IF @ < t THEN t ELSE @]
        /\ start' = [start EXCEPT ![p] = IF @ = 0 THEN t ELSE @]
        /\ pc' = [pc EXCEPT ![w] = "release"]
    BY <1>15 DEF SetState, Continue
  <2> HIDE DEF p, t
  <2>3. /\ state' \in [Projects -> 0 .. MaxHour]
        /\ start' \in [Projects -> 0 .. MaxHour]
    BY <2>1, <2>2 DEF TypeOK
  <2> QED
    BY <1>15, <2>2, <2>3 DEF TypeOK, SetState, Steps, Working, Billing
<1>16. ASSUME NEW w \in Processors, Release(w)
       PROVE  TypeOK'
  BY <1>16 DEF TypeOK, Release, Continue, Steps, Working, Billing
<1>17. ASSUME NEW w \in Processors, Fail(w)
       PROVE  TypeOK'
  BY <1>17, RaiseType, AbortType, FaultType DEF TypeOK, Fail
<1>18. ASSUME NEW w \in Processors, Crash(w)
       PROVE  TypeOK'
  BY <1>18, RaiseType, AbortType, FaultType DEF TypeOK, Crash
<1>19. ASSUME NEW r \in inflight, UpdateAccount(r)
       PROVE  TypeOK'
  <2>1. /\ r \in Request
        /\ r.by \in Processors /\ r.project \in Projects
        /\ r.period \in Periods /\ r.amount \in Nat
    BY DEF TypeOK, Request
  <2>2. Waits(r.by, r) => pc[r.by] = "wait"
    BY DEF Waits
  <2>3. /\ billed' \in [Projects -> [Periods -> Nat]]
        /\ charged' \in [Projects -> [Periods -> Nat]]
    BY <1>19, <2>1 DEF TypeOK, UpdateAccount
  <2>4. /\ pc' \in [Processors -> Steps]
        /\ \A v \in Processors :
             /\ pc'[v] \in Working <=> pc[v] \in Working
             /\ pc'[v] \in Billing <=> pc[v] \in Billing
    BY <1>19, <2>1, <2>2
       DEF TypeOK, UpdateAccount, Steps, Working, Billing
  <2> QED
    BY <1>19, <2>3, <2>4 DEF TypeOK, UpdateAccount
<1>20. ASSUME NEW r \in inflight, Refuse(r)
       PROVE  TypeOK'
  <2>1. r.by \in Processors
    BY DEF TypeOK, Request
  <2>2. CASE Raise(r.by)
    BY <1>20, <2>1, <2>2, RaiseType, FaultType DEF TypeOK, Refuse
  <2>3. CASE ~Raise(r.by)
    BY <1>20, <2>3, FaultType DEF TypeOK, Refuse
  <2> QED
    BY <2>2, <2>3
<1>21. ASSUME NEW p \in Projects, Reclaim(p)
       PROVE  TypeOK'
  BY <1>21 DEF TypeOK, Reclaim
<1>22. ASSUME NEW p \in Projects, Expire(p)
       PROVE  TypeOK'
  BY <1>22, FaultType DEF TypeOK, Expire
<1> QED
  BY <1>1, <1>2, <1>3, <1>4, <1>5, <1>6, <1>7, <1>8, <1>9, <1>10, <1>11,
     <1>12, <1>13, <1>14, <1>15, <1>16, <1>17, <1>18, <1>19, <1>20, <1>21,
     <1>22 DEF Next, Step

(* Every variable of a processor keeps its type, whatever the constants.   *)
THEOREM TypeCorrect == Spec => []TypeOK
<1> QED
  BY InitType, TypeStep, PTL DEF Spec

-----------------------------------------------------------------------------
(* The inductive invariant for NoPeriodSkipped.                            *)

(* While no lock expires, an instance at a project holds its lock.         *)
Exclusive ==
  ~LocksExpire =>
    \A w \in Processors : pc[w] \in Working => lock[job[w].project] = w

(* Period t does not lie ahead of the next one to bill; while there is no  *)
(* cursor, that is the one a cursor is about to start from.                *)
Fits(p, t) ==
  IF state[p] # 0 THEN t <= state[p] + 1
  ELSE IF Historical THEN bottom[p] # 0 /\ t = bottom[p] + 1
  ELSE t <= hour

JobsFit ==
  \A w \in Processors :
    pc[w] \in Billing => Fits(job[w].project, job[w].period)

RequestsFit == \A r \in inflight : Fits(r.project, r.period)

(* A late request for a project without a cursor is not ahead of the       *)
(* worker that is about to give it one.                                    *)
RequestsBehind ==
  \A r \in inflight, w \in Processors :
    /\ pc[w] \in Billing
    /\ job[w].project = r.project
    /\ state[r.project] = 0
    => r.period <= job[w].period

(* The cursor is only set for what has been billed.                        *)
BilledFirst ==
  \A w \in Processors :
    pc[w] = "state" => billed[job[w].project][job[w].period] > 0

Started == \A p \in Projects : start[p] = 0 <=> state[p] = 0

IInv ==
  /\ TypeOK
  /\ Exclusive
  /\ JobsFit
  /\ RequestsFit
  /\ RequestsBehind
  /\ BilledFirst
  /\ Started
  /\ NoPeriodSkipped

(* No lock expires, or the period a cursor starts from is given.           *)
Orderly == ~LocksExpire \/ Historical

LEMMA InitIInv == Init => IInv
  BY InitType, Bounds
     DEF Init, IInv, Exclusive, JobsFit, RequestsFit, RequestsBehind,
         BilledFirst, Started, NoPeriodSkipped, Working, Billing, Periods

(* Periods are numbers.                                                    *)
LEMMA Numbers ==
  ASSUME TypeOK
  PROVE  /\ \A p \in Projects : state[p] \in Nat /\ start[p] \in Nat
                              /\ bottom[p] \in Nat
         /\ \A p \in Projects, t \in Periods : billed[p][t] \in Nat
         /\ hour \in Nat
         /\ Periods \subseteq Nat
         /\ \A r \in inflight : /\ r.by \in Processors
                                /\ r.project \in Projects
                                /\ r.period \in Periods
  BY Bounds DEF TypeOK, Periods, Request

(* A step that begins no period, sends nothing and moves no cursor.        *)
LEMMA QuietStep ==
  ASSUME IInv, TypeOK', Exclusive',
         UNCHANGED <<hour, bottom, state, start, billed>>,
         inflight' \subseteq inflight,
         \A v \in Processors :
           pc'[v] \in Billing => /\ pc[v] \in Billing
                                /\ job'[v].project = job[v].project
                                /\ job'[v].period = job[v].period,
         \A v \in Processors : pc'[v] = "state" => pc[v] = "state"
  PROVE  IInv'
<1>1. \A p, t : Fits(p, t)' <=> Fits(p, t)
  BY DEF Fits
<1>2. JobsFit'
  BY <1>1 DEF IInv, JobsFit
<1>3. RequestsFit'
  BY <1>1 DEF IInv, RequestsFit
<1>4. RequestsBehind'
  BY DEF IInv, RequestsBehind
<1>5. BilledFirst'
  BY DEF IInv, BilledFirst, Billing
<1>6. Started' /\ NoPeriodSkipped'
  BY DEF IInv, Started, NoPeriodSkipped
<1> QED
  BY <1>2, <1>3, <1>4, <1>5, <1>6 DEF IInv

(* The end of a run of primary_period is quiet for everyone.               *)
LEMMA RaiseIsQuiet ==
  ASSUME TypeOK, NEW w \in Processors, Raise(w)
  PROVE  \A v \in Processors :
           /\ pc'[v] \in Working => /\ pc'[v] = pc[v] /\ job'[v] = job[v]
                                   /\ v # w
           /\ pc'[v] \in Billing => /\ pc[v] \in Billing
                                   /\ job'[v] = job[v]
           /\ pc'[v] = "state" => pc[v] = "state"
  BY DEF TypeOK, Raise, Continue, Working, Billing

(* Two instances are at one project only if locks expire.                  *)
LEMMA Apart ==
  ASSUME IInv, NEW v \in Processors, NEW w \in Processors,
         pc[v] \in Working, pc[w] \in Working,
         job[v].project = job[w].project, ~LocksExpire
  PROVE  v = w
  BY DEF IInv, Exclusive

-----------------------------------------------------------------------------
(* The steps that matter to the cursors.                                   *)

LEMMA TickStep == IInv /\ TypeOK' /\ Tick => IInv'
<1> SUFFICES ASSUME IInv, TypeOK', Tick
             PROVE  IInv'
  OBVIOUS
<1> USE DEF gnocchi, books, history
<1>1. \A p \in Projects, t \in Periods : Fits(p, t) => Fits(p, t)'
  BY Numbers DEF IInv, Tick, Fits
<1>2. JobsFit'
  BY <1>1, WorkerType DEF IInv, JobsFit, Tick, Working
<1>3. RequestsFit'
  BY <1>1, Numbers DEF IInv, RequestsFit, Tick
<1>4. Exclusive' /\ RequestsBehind' /\ BilledFirst' /\ Started'
        /\ NoPeriodSkipped'
  BY DEF IInv, Exclusive, RequestsBehind, BilledFirst, Started,
         NoPeriodSkipped, Tick
<1> QED
  BY <1>2, <1>3, <1>4 DEF IInv

LEMMA RateStep ==
  ASSUME IInv, TypeOK', NEW p \in Projects, NEW t \in Periods, Rate(p, t)
  PROVE  IInv'
<1> USE DEF gnocchi, books, history
<1>1. \A q \in Projects : bottom[q] # 0 => bottom'[q] = bottom[q]
  BY DEF IInv, TypeOK, Rate
<1>2. \A q \in Projects, u \in Periods : Fits(q, u) => Fits(q, u)'
  BY <1>1 DEF Rate, Fits
<1>3. JobsFit'
  BY <1>2, WorkerType DEF IInv, JobsFit, Rate, Working
<1>4. RequestsFit'
  BY <1>2, Numbers DEF IInv, RequestsFit, Rate
<1>5. Exclusive' /\ RequestsBehind' /\ BilledFirst' /\ Started'
        /\ NoPeriodSkipped'
  BY DEF IInv, Exclusive, RequestsBehind, BilledFirst, Started,
         NoPeriodSkipped, Rate
<1> QED
  BY <1>3, <1>4, <1>5 DEF IInv

LEMMA BeginPeriodStep ==
  ASSUME IInv, TypeOK', NEW w \in Processors, BeginPeriod(w)
  PROVE  IInv'
<1> USE DEF gnocchi, books, history
<1> DEFINE p == job[w].project
           t == PeriodToBill(p)
<1>1. p \in Projects /\ t \in Periods /\ pc[w] = "check"
  BY WorkerType, PeriodType DEF IInv, BeginPeriod, Periods, Working
<1>2. /\ job' = [job EXCEPT ![w].period = t]
      /\ pc' = [pc EXCEPT ![w] = "consume"]
      /\ ~NothingRated(p) /\ t # 0
      /\ UNCHANGED <<hour, bottom, state, lock, inflight, billed, start>>
  BY DEF BeginPeriod, Continue
<1>3. /\ state[p] # 0 => t = state[p] + 1
      /\ state[p] = 0 /\ Historical => bottom[p] # 0 /\ t = bottom[p] + 1
      /\ state[p] = 0 /\ ~Historical => t = hour
  BY <1>1, <1>2, Numbers DEF IInv, PeriodToBill, NothingRated
<1> HIDE DEF t
<1>4. job[w] \in Job /\ p = job[w].project
  BY <1>1, WorkerType DEF IInv, Working
<1>5. /\ pc'[w] = "consume"
      /\ job'[w].project = p
      /\ job'[w].period = t
      /\ \A v \in Processors : v # w => pc'[v] = pc[v] /\ job'[v] = job[v]
  BY <1>2, <1>4 DEF IInv, TypeOK, Job
<1>6. Fits(p, t)
  BY <1>1, <1>3, Numbers DEF IInv, Fits
<1>7. \A q, u : Fits(q, u)' <=> Fits(q, u)
  BY <1>2 DEF Fits
<1> HIDE DEF p
<1>8. Exclusive'
  BY <1>1, <1>2, <1>4, <1>5 DEF IInv, Exclusive, Working
<1>9. JobsFit'
  BY <1>5, <1>6, <1>7 DEF IInv, JobsFit
<1>10. RequestsFit'
  BY <1>2, <1>7 DEF IInv, RequestsFit
<1>11. RequestsBehind'
  <2> SUFFICES ASSUME NEW r \in inflight, NEW v \in Processors,
                      pc'[v] \in Billing, job'[v].project = r.project,
                      state[r.project] = 0
               PROVE  r.period <= job'[v].period
    BY <1>2 DEF RequestsBehind
  <2>1. CASE v # w
    BY <1>5, <2>1 DEF IInv, RequestsBehind
  <2>2. CASE v = w
    <3>1. r.project = p /\ Fits(p, r.period) /\ r.period \in Nat
      BY <1>5, <2>2, Numbers DEF IInv, RequestsFit
    <3>2. r.period <= t
      BY <1>1, <1>3, <3>1, Numbers DEF IInv, Fits
    <3> QED
      BY <1>5, <2>2, <3>2
  <2> QED
    BY <2>1, <2>2
<1>12. BilledFirst' /\ Started' /\ NoPeriodSkipped'
  BY <1>2, <1>5 DEF IInv, BilledFirst, Started, NoPeriodSkipped
<1> QED
  BY <1>8, <1>9, <1>10, <1>11, <1>12 DEF IInv

LEMMA SendStep ==
  ASSUME IInv, TypeOK', Orderly, NEW w \in Processors, Send(w)
  PROVE  IInv'
<1> USE DEF gnocchi, books, history
<1> DEFINE p == job[w].project
           t == job[w].period
           m == [by |-> w, project |-> p, period |-> t,
                 amount |-> job[w].amount, attempt |-> aborted[p][t]]
<1>1. /\ p \in Projects /\ t \in Periods /\ pc[w] = "send"
      /\ job[w] \in Job
  BY WorkerType DEF IInv, Send, Working, Billing
<1>2. /\ job' = [job EXCEPT ![w].attempt = aborted[p][t]]
      /\ pc' = [pc EXCEPT ![w] = "wait"]
      /\ inflight' = inflight \cup {m}
      /\ UNCHANGED <<hour, bottom, state, lock, billed, start>>
  BY DEF Send, Continue
<1>3. m.project = p /\ m.period = t
  OBVIOUS
<1>4. /\ pc'[w] = "wait"
      /\ \A v \in Processors :
           /\ v # w => pc'[v] = pc[v] /\ job'[v] = job[v]
           /\ v = w => job'[v].project = p /\ job'[v].period = t
  BY <1>1, <1>2 DEF IInv, TypeOK, Job
<1>5. \A v \in Processors :
        /\ pc'[v] \in Working <=> pc[v] \in Working
        /\ pc'[v] \in Billing <=> pc[v] \in Billing
        /\ job'[v].project = job[v].project
        /\ job'[v].period = job[v].period
        /\ pc'[v] = "state" <=> pc[v] = "state"
  BY <1>1, <1>4 DEF Working, Billing
<1>6. \A q, u : Fits(q, u)' <=> Fits(q, u)
  BY <1>2 DEF Fits
<1>7. Fits(p, t)
  BY <1>1 DEF IInv, JobsFit, Billing
<1> HIDE DEF m, p, t
<1>8. Exclusive'
  BY <1>2, <1>5 DEF IInv, Exclusive
<1>9. JobsFit'
  BY <1>5, <1>6 DEF IInv, JobsFit
<1>10. RequestsFit'
  BY <1>2, <1>3, <1>6, <1>7 DEF IInv, RequestsFit
<1>11. RequestsBehind'
  <2> SUFFICES ASSUME NEW r \in inflight', NEW v \in Processors,
                      pc[v] \in Billing, job[v].project = r.project,
                      state[r.project] = 0
               PROVE  r.period <= job[v].period
    BY <1>2, <1>5 DEF RequestsBehind
  <2>1. CASE r \in inflight
    BY <2>1 DEF IInv, RequestsBehind
  <2>2. CASE r = m /\ v = w
    BY <1>1, <1>3, <2>2, Numbers DEF IInv, t
  <2>3. CASE r = m /\ v # w
    <3>1. job[v].project = p /\ Fits(p, job[v].period)
      BY <1>3, <2>3 DEF IInv, JobsFit
    <3>2. LocksExpire
      BY <1>1, <2>3, <3>1, Apart DEF p, Working, Billing
    <3>3. job[v].period = bottom[p] + 1 /\ t = bottom[p] + 1
      BY <1>3, <1>7, <2>3, <3>1, <3>2 DEF Fits, Orderly
    <3> QED
      BY <1>1, <1>3, <2>3, <3>3, Numbers DEF IInv
  <2> QED
    BY <1>2, <2>1, <2>2, <2>3
<1>12. BilledFirst' /\ Started' /\ NoPeriodSkipped'
  BY <1>2, <1>5 DEF IInv, BilledFirst, Started, NoPeriodSkipped
<1> QED
  BY <1>8, <1>9, <1>10, <1>11, <1>12 DEF IInv

LEMMA SetStateStep ==
  ASSUME IInv, TypeOK', Orderly, NEW w \in Processors, SetState(w)
  PROVE  IInv'
<1> USE DEF gnocchi, books, history
<1> DEFINE p == job[w].project
           t == job[w].period
<1>1. /\ p \in Projects /\ t \in Periods /\ pc[w] = "state"
      /\ Fits(p, t) /\ billed[p][t] > 0
  BY WorkerType DEF IInv, SetState, JobsFit, BilledFirst, Working, Billing
<1>2. /\ state' = [state EXCEPT ![p] = IF @ < t THEN t ELSE @]
      /\ start' = [start EXCEPT ![p] = IF @ = 0 THEN t ELSE @]
      /\ pc' = [pc EXCEPT ![w] = "release"]
      /\ UNCHANGED <<hour, bottom, lock, job, inflight, billed>>
  BY DEF SetState, Continue
<1>3. \A v \in Processors :
        /\ pc'[v] \in Working <=> pc[v] \in Working
        /\ pc'[v] \in Billing => pc[v] \in Billing /\ v # w
        /\ pc'[v] = "state" => pc[v] = "state"
  BY <1>1, <1>2 DEF IInv, TypeOK, Working, Billing
<1> HIDE DEF p, t
<1>4. /\ t \in Nat /\ t > 0
      /\ state[p] \in Nat /\ start[p] \in Nat /\ bottom[p] \in Nat
      /\ state[p] = 0 <=> start[p] = 0
  BY <1>1, Numbers DEF IInv, Started, Periods
<1>5. /\ state[p] = 0 => state'[p] = t /\ start'[p] = t
      /\ state[p] # 0 => state'[p] >= state[p] /\ start'[p] = start[p]
      /\ state[p] # 0 => state'[p] = state[p] \/ state'[p] = state[p] + 1
      /\ state'[p] \in Nat
      /\ \A q \in Projects : q # p => state'[q] = state[q] /\ start'[q] = start[q]
  <2>1. /\ state'[p] = IF state[p] < t THEN t ELSE state[p]
        /\ start'[p] = IF start[p] = 0 THEN t ELSE start[p]
        /\ \A q \in Projects :
             q # p => state'[q] = state[q] /\ start'[q] = start[q]
    BY <1>1, <1>2 DEF IInv, TypeOK
  <2>2. state[p] # 0 => t <= state[p] + 1
    BY <1>1 DEF Fits
  <2> QED
    BY <1>4, <2>1, <2>2
<1>6. Exclusive'
  BY <1>2, <1>3 DEF IInv, Exclusive
<1>7. JobsFit'
  <2> SUFFICES ASSUME NEW v \in Processors, pc'[v] \in Billing
               PROVE  Fits(job[v].project, job[v].period)'
    BY <1>2 DEF JobsFit
  <2>1. /\ pc[v] \in Billing /\ v # w
        /\ Fits(job[v].project, job[v].period)
        /\ job[v].project \in Projects
        /\ job[v].period \in Nat
    BY <1>3, WorkerType, Numbers DEF IInv, JobsFit, Working
  <2>2. CASE job[v].project # p
    BY <1>2, <1>5, <2>1, <2>2 DEF Fits
  <2>3. CASE job[v].project = p /\ state[p] # 0
    BY <1>2, <1>4, <1>5, <2>1, <2>3 DEF Fits
  <2>4. CASE job[v].project = p /\ state[p] = 0
    <3>1. LocksExpire
      BY <1>1, <2>1, <2>4, Apart DEF p, Working, Billing
    <3>2. Historical
      BY <3>1 DEF Orderly
    <3>3. job[v].period = bottom[p] + 1 /\ t = bottom[p] + 1
      BY <1>1, <2>1, <2>4, <3>2 DEF Fits
    <3> QED
      BY <1>2, <1>4, <1>5, <2>4, <3>3 DEF Fits
  <2> QED
    BY <2>2, <2>3, <2>4
<1>8. RequestsFit'
  <2> SUFFICES ASSUME NEW r \in inflight
               PROVE  Fits(r.project, r.period)'
    BY <1>2 DEF RequestsFit
  <2>1. /\ Fits(r.project, r.period)
        /\ r.project \in Projects
        /\ r.period \in Nat
    BY Numbers DEF IInv, RequestsFit
  <2>2. CASE r.project # p
    BY <1>2, <1>5, <2>1, <2>2 DEF Fits
  <2>3. CASE r.project = p /\ state[p] # 0
    BY <1>2, <1>4, <1>5, <2>1, <2>3 DEF Fits
  <2>4. CASE r.project = p /\ state[p] = 0
    <3>1. r.period <= t
      BY <1>1, <2>4 DEF IInv, RequestsBehind, p, t, Billing
    <3> QED
      BY <1>2, <1>4, <1>5, <2>1, <2>4, <3>1 DEF Fits
  <2> QED
    BY <2>2, <2>3, <2>4
<1>9. RequestsBehind'
  <2>1. \A q \in Projects : state'[q] = 0 => state[q] = 0
    BY <1>4, <1>5
  <2> QED
    BY <1>2, <1>3, <2>1, Numbers DEF IInv, RequestsBehind
<1>10. BilledFirst'
  BY <1>2, <1>3 DEF IInv, BilledFirst
<1>11. Started'
  <2> SUFFICES ASSUME NEW q \in Projects
               PROVE  start'[q] = 0 <=> state'[q] = 0
    BY DEF Started
  <2>1. CASE q = p
    BY <1>4, <1>5, <2>1
  <2>2. CASE q # p
    BY <1>5, <2>2 DEF IInv, Started
  <2> QED
    BY <2>1, <2>2
<1>12. NoPeriodSkipped'
  <2> SUFFICES ASSUME NEW q \in Projects, NEW u \in Periods,
                      start'[q] <= u, u <= state'[q]
               PROVE  billed[q][u] > 0
    BY <1>2 DEF NoPeriodSkipped
  <2>1. CASE q # p
    BY <1>5, <2>1 DEF IInv, NoPeriodSkipped
  <2>2. CASE q = p /\ u = t
    BY <1>1, <2>2
  <2>3. CASE q = p /\ u # t
    <3>1. u \in Nat /\ state[p] # 0
      BY <1>4, <1>5, <2>3, Numbers DEF IInv
    <3>2. u <= state[p]
      BY <1>1, <1>2, <1>4, <1>5, <2>3, <3>1 DEF Fits, IInv, TypeOK
    <3> QED
      BY <1>1, <1>5, <2>3, <3>1, <3>2 DEF IInv, NoPeriodSkipped
  <2> QED
    BY <2>1, <2>2, <2>3
<1> QED
  BY <1>6, <1>7, <1>8, <1>9, <1>10, <1>11, <1>12 DEF IInv

LEMMA UpdateAccountStep ==
  ASSUME IInv, TypeOK', NEW r \in inflight, UpdateAccount(r)
  PROVE  IInv'
<1> USE DEF gnocchi, books, history
<1>1. /\ inflight' \subseteq inflight
      /\ UNCHANGED <<hour, bottom, state, lock, job, start>>
  BY DEF UpdateAccount
<1>2. r.by \in Processors /\ r.project \in Projects /\ r.period \in Periods
  BY Numbers DEF IInv
<1>3. /\ billed'[r.project][r.period] = billed[r.project][r.period] + 1
      /\ \A q \in Projects, u \in Periods :
           q # r.project \/ u # r.period => billed'[q][u] = billed[q][u]
  BY <1>2 DEF IInv, TypeOK, UpdateAccount
<1>4. \A q \in Projects, u \in Periods :
        billed[q][u] > 0 \/ (q = r.project /\ u = r.period)
          => billed'[q][u] > 0
  BY <1>2, <1>3, Numbers DEF IInv
<1>5. \A v \in Processors :
        /\ pc'[v] \in Working <=> pc[v] \in Working
        /\ pc'[v] \in Billing <=> pc[v] \in Billing
        /\ pc'[v] = "state" => \/ pc[v] = "state"
                              \/ /\ job[v].project = r.project
                                 /\ job[v].period = r.period
  <2>1. CASE Waits(r.by, r)
    <3>1. /\ pc[r.by] = "wait" /\ job[r.by].project = r.project
          /\ job[r.by].period = r.period
          /\ pc' = [pc EXCEPT ![r.by] = "state"]
      BY <2>1 DEF Waits, UpdateAccount
    <3> QED
      BY <1>2, <3>1 DEF IInv, TypeOK, Working, Billing
  <2>2. CASE ~Waits(r.by, r)
    BY <2>2 DEF UpdateAccount
  <2> QED
    BY <2>1, <2>2
<1>6. \A q, u : Fits(q, u)' <=> Fits(q, u)
  BY <1>1 DEF Fits
<1>7. Exclusive' /\ JobsFit' /\ RequestsFit' /\ RequestsBehind' /\ Started'
  BY <1>1, <1>5, <1>6
     DEF IInv, Exclusive, JobsFit, RequestsFit, RequestsBehind, Started
<1>8. BilledFirst'
  <2> SUFFICES ASSUME NEW v \in Processors, pc'[v] = "state"
               PROVE  billed'[job[v].project][job[v].period] > 0
    BY <1>1 DEF BilledFirst
  <2>1. job[v].project \in Projects /\ job[v].period \in Periods
    BY <1>5, WorkerType DEF IInv, Working, Billing
  <2> QED
    BY <1>4, <1>5, <2>1 DEF IInv, BilledFirst
<1>9. NoPeriodSkipped'
  BY <1>1, <1>4 DEF IInv, NoPeriodSkipped
<1> QED
  BY <1>7, <1>8, <1>9 DEF IInv

-----------------------------------------------------------------------------
(* Every step.                                                             *)

LEMMA IInvStep == Orderly /\ IInv /\ [Next]_vars => IInv'
<1> SUFFICES ASSUME Orderly, IInv, [Next]_vars
             PROVE  IInv'
  OBVIOUS
<1> USE DEF gnocchi, books, history
<1>0. TypeOK /\ TypeOK'
  BY TypeStep DEF IInv
<1>1. CASE UNCHANGED vars
  BY <1>0, <1>1, QuietStep DEF IInv, Exclusive, vars
<1>2. CASE Tick
  BY <1>0, <1>2, TickStep
<1>3. ASSUME NEW p \in Projects, NEW t \in Periods, Rate(p, t)
      PROVE  IInv'
  BY <1>0, <1>3, RateStep
<1>4. ASSUME NEW w \in Processors,
             Fetch(w) \/ StartPass(w) \/ EndPass(w)
      PROVE  IInv'
  <2>1. /\ UNCHANGED <<hour, bottom, state, start, billed, inflight, lock, job>>
        /\ \A v \in Processors : pc'[v] \in Working => pc'[v] = pc[v]
    BY <1>0, <1>4 DEF TypeOK, Fetch, StartPass, EndPass, Continue, Working,
                      Billing
  <2>2. Exclusive'
    BY <2>1 DEF IInv, Exclusive
  <2> QED
    BY <1>0, <2>1, <2>2, QuietStep DEF Working, Billing
<1>5. ASSUME NEW w \in Processors, NEW p \in Projects, Visit(w, p)
      PROVE  IInv'
  <2>1. CASE lock[p] # Free
    BY <1>0, <1>5, <2>1, QuietStep DEF Visit, IInv, Exclusive
  <2>2. CASE lock[p] = Free
    <3>1. /\ UNCHANGED <<hour, bottom, state, start, billed, inflight>>
          /\ pc' = [pc EXCEPT ![w] = "check"]
          /\ lock' = [lock EXCEPT ![p] = w]
          /\ job' = [job EXCEPT ![w] = [project |-> p, period |-> 0,
                                        amount |-> 0, attempt |-> 0]]
      BY <1>5, <2>2 DEF Visit, Continue
    <3>2. /\ pc'[w] = "check" /\ job'[w].project = p /\ lock'[p] = w
          /\ \A v \in Processors :
               v # w => pc'[v] = pc[v] /\ job'[v] = job[v]
          /\ \A q \in Projects : q # p => lock'[q] = lock[q]
      BY <1>0, <3>1 DEF TypeOK
    <3>3. Exclusive'
      <4> SUFFICES ASSUME ~LocksExpire, NEW v \in Processors,
                          pc'[v] \in Working, v # w
                   PROVE  lock'[job[v].project] = v
        BY <3>2 DEF Exclusive
      <4>1. lock[job[v].project] = v /\ job[v].project \in Projects
        BY <1>0, <3>2, WorkerType DEF IInv, Exclusive
      <4> QED
        BY <2>2, <3>2, <4>1, ProcessorAssumption
    <3> QED
      BY <1>0, <3>1, <3>2, <3>3, QuietStep DEF Billing
  <2> QED
    BY <2>1, <2>2
<1>6. ASSUME NEW w \in Processors, UpToDate(w)
      PROVE  IInv'
  <2>1. /\ UNCHANGED <<hour, bottom, state, start, billed, inflight, lock, job>>
        /\ \A v \in Processors :
             /\ pc'[v] \in Working => pc[v] \in Working
             /\ pc'[v] \in Billing => pc[v] \in Billing
             /\ pc'[v] = "state" => pc[v] = "state"
    BY <1>0, <1>6 DEF TypeOK, UpToDate, Continue, Working, Billing
  <2>2. Exclusive'
    BY <2>1 DEF IInv, Exclusive
  <2> QED
    BY <1>0, <2>1, <2>2, QuietStep
<1>7. ASSUME NEW w \in Processors, BeginPeriod(w)
      PROVE  IInv'
  BY <1>0, <1>7, BeginPeriodStep
<1>8. ASSUME NEW w \in Processors, Raise(w), lock' = lock,
             UNCHANGED <<hour, bottom, state, start, billed>>,
             inflight' \subseteq inflight
      PROVE  IInv'
  <2>1. Exclusive'
    BY <1>0, <1>8, RaiseIsQuiet DEF IInv, Exclusive
  <2> QED
    BY <1>0, <1>8, <2>1, RaiseIsQuiet, QuietStep
<1>9. ASSUME NEW w \in Processors, Consume(w)
      PROVE  IInv'
  <2>1. job[w] \in Job /\ pc[w] = "consume"
    BY <1>0, <1>9, WorkerType DEF Consume, Working, Billing
  <2>2. PICK c : job' = [job EXCEPT ![w].amount = c]
    BY <1>9 DEF Consume
  <2>3. /\ UNCHANGED <<hour, bottom, state, start, billed, inflight, lock>>
        /\ pc' = [pc EXCEPT ![w] = "payer"]
    BY <1>9 DEF Consume, Continue
  <2>4. \A v \in Processors :
          /\ job'[v].project = job[v].project
          /\ job'[v].period = job[v].period
    BY <1>0, <2>1, <2>2 DEF TypeOK, Job
  <2>5. \A v \in Processors :
          /\ pc'[v] \in Working => pc[v] \in Working
          /\ pc'[v] \in Billing => pc[v] \in Billing
          /\ pc'[v] = "state" => pc[v] = "state"
    BY <1>0, <2>1, <2>3 DEF TypeOK, Working, Billing
  <2>6. Exclusive'
    BY <2>3, <2>4, <2>5 DEF IInv, Exclusive
  <2> QED
    BY <1>0, <2>3, <2>4, <2>5, <2>6, QuietStep
<1>10. ASSUME NEW w \in Processors, GetPayer(w) \/ OwedAction(w)
       PROVE  IInv'
  <2>1. UNCHANGED <<hour, bottom, state, start, billed, inflight, lock>>
    BY <1>10 DEF GetPayer, OwedAction
  <2>2. CASE Raise(w)
    BY <1>8, <2>1, <2>2
  <2>3. CASE ~Raise(w)
    <3>1. /\ job' = job
          /\ \A v \in Processors :
               /\ pc'[v] \in Working => pc[v] \in Working
               /\ pc'[v] \in Billing => pc[v] \in Billing
               /\ pc'[v] = "state" => pc[v] = "state"
      BY <1>0, <1>10, <2>3
         DEF TypeOK, GetPayer, OwedAction, Continue, Working, Billing
    <3>2. Exclusive'
      BY <2>1, <3>1 DEF IInv, Exclusive
    <3> QED
      BY <1>0, <2>1, <3>1, <3>2, QuietStep
  <2> QED
    BY <2>2, <2>3
<1>11. ASSUME NEW w \in Processors, FailToCheck(w) \/ Fail(w)
       PROVE  IInv'
  BY <1>8, <1>11 DEF FailToCheck, Fail, Abort
<1>12. ASSUME NEW w \in Processors, Send(w)
       PROVE  IInv'
  BY <1>0, <1>12, SendStep
<1>13. ASSUME NEW w \in Processors, SetState(w)
       PROVE  IInv'
  BY <1>0, <1>13, SetStateStep
<1>14. ASSUME NEW w \in Processors, Release(w)
       PROVE  IInv'
  <2> DEFINE p == job[w].project
  <2>1. p \in Projects /\ pc[w] = "release"
    BY <1>0, <1>14, WorkerType DEF Release, Working
  <2>2. /\ UNCHANGED <<hour, bottom, state, start, billed, inflight>>
        /\ lock' = [lock EXCEPT ![p] = IF @ = w THEN Free ELSE @]
        /\ job' = [job EXCEPT ![w] = NoJob]
        /\ pc' = [pc EXCEPT ![w] = "visit"]
    BY <1>14 DEF Release, Continue
  <2>3. \A v \in Processors :
          pc'[v] \in Working => v # w /\ pc'[v] = pc[v] /\ job'[v] = job[v]
    BY <1>0, <2>2 DEF TypeOK, Working, Billing
  <2>4. \A q \in Projects : lock[q] # w => lock'[q] = lock[q]
    BY <1>0, <2>1, <2>2 DEF TypeOK
  <2> HIDE DEF p
  <2>5. Exclusive'
    BY <1>0, <2>3, <2>4, WorkerType DEF IInv, Exclusive
  <2> QED
    BY <1>0, <2>2, <2>3, <2>5, QuietStep DEF Working, Billing
<1>15. ASSUME NEW w \in Processors, Crash(w)
       PROVE  IInv'
  <2>1. /\ Raise(w)
        /\ UNCHANGED <<hour, bottom, state, start, billed, inflight>>
        /\ \A q \in Projects : lock[q] # w => lock'[q] = lock[q]
    BY <1>15 DEF Crash, Abort
  <2>2. Exclusive'
    BY <1>0, <2>1, RaiseIsQuiet, WorkerType DEF IInv, Exclusive
  <2> QED
    BY <1>0, <2>1, <2>2, RaiseIsQuiet, QuietStep
<1>16. ASSUME NEW r \in inflight, UpdateAccount(r)
       PROVE  IInv'
  BY <1>0, <1>16, UpdateAccountStep
<1>17. ASSUME NEW r \in inflight, Refuse(r)
       PROVE  IInv'
  <2>1. /\ UNCHANGED <<hour, bottom, state, start, billed, lock>>
        /\ inflight' \subseteq inflight
        /\ r.by \in Processors
    BY <1>0, <1>17, Numbers DEF Refuse
  <2>2. CASE Raise(r.by)
    BY <1>8, <2>1, <2>2
  <2>3. CASE ~Raise(r.by)
    <3>1. UNCHANGED <<pc, job>>
      BY <1>17, <2>3 DEF Refuse
    <3>2. Exclusive'
      BY <2>1, <3>1 DEF IInv, Exclusive
    <3> QED
      BY <1>0, <2>1, <3>1, <3>2, QuietStep
  <2> QED
    BY <2>2, <2>3
<1>18. ASSUME NEW p \in Projects, Reclaim(p) \/ Expire(p)
       PROVE  IInv'
  <2>1. UNCHANGED <<hour, bottom, state, start, billed, inflight, pc, job>>
    BY <1>18 DEF Reclaim, Expire
  <2>2. Exclusive'
    <3> SUFFICES ASSUME ~LocksExpire, NEW v \in Processors,
                        pc[v] \in Working
                 PROVE  lock'[job[v].project] = v
      BY <2>1 DEF Exclusive
    <3>1. lock[job[v].project] = v /\ job[v].project \in Projects
      BY <1>0, WorkerType DEF IInv, Exclusive
    <3>2. Reclaim(p)
      BY <1>18 DEF Expire
    <3>3. job[v].project # p
      BY <3>1, <3>2 DEF Reclaim, At
    <3> QED
      BY <1>0, <3>1, <3>2, <3>3 DEF TypeOK, Reclaim
  <2> QED
    BY <1>0, <2>1, <2>2, QuietStep
<1> QED
  BY <1>1, <1>2, <1>3, <1>4, <1>5, <1>6, <1>7, <1>9, <1>10, <1>11, <1>12,
     <1>13, <1>14, <1>15, <1>16, <1>17, <1>18 DEF Next, Step

(* The invariant holds as long as locks do, or the cursors start where     *)
(* cloudkitty's records do.                                                *)
LEMMA Invariance == Orderly => (Spec => []IInv)
<1> SUFFICES ASSUME Orderly
             PROVE  Spec => []IInv
  OBVIOUS
<1>1. Init => IInv
  BY InitIInv
<1>2. IInv /\ [Next]_vars => IInv'
  BY IInvStep
<1> QED
  BY <1>1, <1>2, PTL DEF Spec

(* No crash, timeout, late request, leaked lock or competing instance      *)
(* makes a cursor pass a period that was not billed; with historical       *)
(* expenses, not even a lock that expires in use.                          *)
THEOREM NothingIsSkipped ==
  ASSUME ~LocksExpire \/ Historical
  PROVE  Spec => []NoPeriodSkipped
<1>1. Spec => []IInv
  BY Invariance DEF Orderly
<1>2. IInv => NoPeriodSkipped
  BY DEF IInv
<1> QED
  BY <1>1, <1>2, PTL

-----------------------------------------------------------------------------
(* Processor implements Metering.                                          *)

LEMMA OtherSteps ==
  ASSUME [Next]_vars,
         ~\E w \in Processors : SetState(w),
         ~\E r \in inflight : UpdateAccount(r)
  PROVE  UNCHANGED <<state, billed>>
<1> USE DEF gnocchi, books, history
<1>1. CASE UNCHANGED vars
  BY <1>1 DEF vars
<1>2. CASE Tick \/ \E p \in Projects, t \in Periods : Rate(p, t)
  BY <1>2 DEF Tick, Rate
<1>3. ASSUME NEW w \in Processors,
             Fetch(w) \/ StartPass(w) \/ EndPass(w)
               \/ \E p \in Projects : Visit(w, p)
      PROVE  UNCHANGED <<state, billed>>
  BY <1>3 DEF Fetch, StartPass, EndPass, Visit
<1>4. ASSUME NEW w \in Processors,
             UpToDate(w) \/ BeginPeriod(w) \/ FailToCheck(w) \/ Consume(w)
      PROVE  UNCHANGED <<state, billed>>
  BY <1>4 DEF UpToDate, BeginPeriod, FailToCheck, Consume
<1>5. ASSUME NEW w \in Processors,
             GetPayer(w) \/ OwedAction(w) \/ Send(w) \/ Release(w)
      PROVE  UNCHANGED <<state, billed>>
  BY <1>5 DEF GetPayer, OwedAction, Send, Release
<1>6. ASSUME NEW w \in Processors, Fail(w) \/ Crash(w)
      PROVE  UNCHANGED <<state, billed>>
  BY <1>6 DEF Fail, Crash
<1>7. ASSUME NEW r \in inflight, Refuse(r)
      PROVE  UNCHANGED <<state, billed>>
  BY <1>7 DEF Refuse
<1>8. ASSUME NEW p \in Projects, Reclaim(p) \/ Expire(p)
      PROVE  UNCHANGED <<state, billed>>
  BY <1>8 DEF Reclaim, Expire
<1> QED
  BY <1>1, <1>2, <1>3, <1>4, <1>5, <1>6, <1>7, <1>8 DEF Next, Step

LEMMA MeteringStep ==
  ASSUME IInv, [Next]_vars
  PROVE  [TheMetering!Next]_(TheMetering!vars)
<1> USE DEF gnocchi, books, history
<1>1. CASE \E r \in inflight : UpdateAccount(r)
  <2>1. PICK r \in inflight : UpdateAccount(r)
    BY <1>1
  <2>2. /\ r.project \in Projects /\ r.period \in Periods
        /\ Fits(r.project, r.period)
    BY Numbers DEF IInv, RequestsFit
  <2>3. TheMetering!Bill(r.project, r.period)
    BY <2>1, <2>2 DEF TheMetering!Bill, UpdateAccount, Fits
  <2> QED
    BY <2>2, <2>3 DEF TheMetering!Next
<1>2. CASE \E w \in Processors : SetState(w)
  <2>1. PICK w \in Processors : SetState(w)
    BY <1>2
  <2> DEFINE p == job[w].project
             t == job[w].period
  <2>2. /\ p \in Projects /\ t \in Periods /\ Fits(p, t)
        /\ billed[p][t] > 0
    BY <2>1, WorkerType
       DEF IInv, SetState, JobsFit, BilledFirst, Working, Billing
  <2>3. /\ state' = [state EXCEPT ![p] = IF @ < t THEN t ELSE @]
        /\ billed' = billed
    BY <2>1 DEF SetState
  <2>4. state[p] \in Nat /\ t \in Nat /\ state \in [Projects -> 0 .. MaxHour]
    BY <2>2, Numbers DEF IInv, TypeOK
  <2> HIDE DEF p, t
  <2>5. CASE state[p] < t
    <3>1. state' = [state EXCEPT ![p] = t]
      BY <2>2, <2>3, <2>4, <2>5
    <3>2. state[p] = 0 \/ t = state[p] + 1
      BY <2>2, <2>4, <2>5 DEF Fits
    <3>3. TheMetering!Advance(p, t)
      BY <2>2, <2>3, <3>1, <3>2 DEF TheMetering!Advance
    <3> QED
      BY <2>2, <3>3 DEF TheMetering!Next
  <2>6. CASE ~(state[p] < t)
    <3>1. state' = state
      BY <2>2, <2>3, <2>4, <2>6
    <3> QED
      BY <2>3, <3>1 DEF TheMetering!vars
  <2> QED
    BY <2>5, <2>6
<1>3. CASE /\ ~(\E r \in inflight : UpdateAccount(r))
           /\ ~(\E w \in Processors : SetState(w))
  BY <1>3, OtherSteps DEF TheMetering!vars
<1> QED
  BY <1>1, <1>2, <1>3

(* The processor's cursors and bills are a Metering: periods are booked at *)
(* least once, in order and never in advance.                              *)
THEOREM MeteringImplemented ==
  ASSUME ~LocksExpire \/ Historical
  PROVE  Spec => ImplementsMetering
<1>1. Init => TheMetering!Init
  BY DEF Init, TheMetering!Init
<1>2. IInv /\ [Next]_vars => [TheMetering!Next]_(TheMetering!vars)
  BY MeteringStep
<1>3. Spec => []IInv
  BY Invariance DEF Orderly
<1> QED
  BY <1>1, <1>2, <1>3, PTL DEF Spec, ImplementsMetering, TheMetering!Spec

-----------------------------------------------------------------------------
(* Once: each bill, and each request that may still become one, is put     *)
(* down to an interrupted run, to the worker that waits for it, or to the  *)
(* cursor that has passed the period.                                      *)

(* The requests for period t of project p that may still be served.        *)
Late(p, t) == {r \in inflight : r.project = p /\ r.period = t}

(* The worker w has sent the bill of period t of project p.                *)
Asked(w, p, t) ==
  /\ pc[w] \in {"wait", "state"}
  /\ job[w].project = p
  /\ job[w].period = t

(* The one bill of a period that needs no interrupted run.                 *)
Entitled(p, t) ==
  \/ t <= state[p]
  \/ \E w \in Processors : Asked(w, p, t)

Allowance(p, t) == aborted[p][t] + IF Entitled(p, t) THEN 1 ELSE 0

Counted(p, t) == billed[p][t] + Cardinality(Late(p, t)) <= Allowance(p, t)

(* A worker only has a period that the cursor has not reached.             *)
Ahead ==
  \A w \in Processors :
    pc[w] \in Billing => state[job[w].project] < job[w].period

OInv ==
  /\ IInv
  /\ IsFiniteSet(inflight)
  /\ Ahead
  /\ \A p \in Projects, t \in Periods : Counted(p, t)

-----------------------------------------------------------------------------
(* Counting.                                                               *)

LEMMA LateFinite ==
  ASSUME OInv, NEW p \in Projects, NEW t \in Periods
  PROVE  IsFiniteSet(Late(p, t)) /\ Cardinality(Late(p, t)) \in Nat
<1>1. Late(p, t) \subseteq inflight
  BY DEF Late
<1>2. IsFiniteSet(Late(p, t))
  BY <1>1, FS_Subset DEF OInv
<1> QED
  BY <1>2, FS_CardinalityType

LEMMA Counters ==
  ASSUME TypeOK, NEW p \in Projects, NEW t \in Periods
  PROVE  billed[p][t] \in Nat /\ aborted[p][t] \in Nat
  BY DEF TypeOK

(* What a step must leave to a worker: the bill it waits for, and the      *)
(* period it has.                                                          *)
Keeps(w) ==
  pc[w] \in {"wait", "state"} =>
    /\ pc'[w] = pc[w]
    /\ job'[w].project = job[w].project
    /\ job'[w].period = job[w].period

Moves(w) ==
  pc'[w] \in Billing => /\ pc[w] \in Billing
                       /\ job'[w].project = job[w].project
                       /\ job'[w].period = job[w].period

(* A step that no count depends on.                                        *)
LEMMA CalmCount ==
  ASSUME OInv, UNCHANGED <<state, billed, inflight, aborted>>,
         \A w \in Processors : Keeps(w)
  PROVE  /\ IsFiniteSet(inflight')
         /\ \A p \in Projects, t \in Periods : Counted(p, t)'
<1>1. IsFiniteSet(inflight')
  BY DEF OInv
<1>2. ASSUME NEW p \in Projects, NEW t \in Periods
      PROVE  Counted(p, t)'
  <2>1. Late(p, t)' = Late(p, t)
    BY DEF Late
  <2>2. Entitled(p, t) => Entitled(p, t)'
    BY DEF Entitled, Asked, Keeps
  <2>3. Counted(p, t)
    BY DEF OInv
  <2>4. Cardinality(Late(p, t)') = Cardinality(Late(p, t))
    BY <2>1
  <2>5. /\ billed[p][t] \in Nat /\ aborted[p][t] \in Nat
        /\ Cardinality(Late(p, t)) \in Nat
    BY LateFinite, Counters DEF OInv, IInv
  <2> QED
    BY <2>2, <2>3, <2>4, <2>5 DEF Counted, Allowance
<1> QED
  BY <1>1, <1>2

LEMMA CalmAhead ==
  ASSUME OInv, state' = state, \A w \in Processors : Moves(w)
  PROVE  Ahead'
  BY DEF OInv, Ahead, Moves

LEMMA CalmStep ==
  ASSUME OInv, IInv', UNCHANGED <<state, billed, inflight, aborted>>,
         \A w \in Processors : Keeps(w) /\ Moves(w)
  PROVE  OInv'
  BY CalmCount, CalmAhead DEF OInv

(* A run that ends before its request has left, or goes on.                *)
LEMMA RaiseMoves ==
  ASSUME TypeOK, NEW w \in Processors, Raise(w)
  PROVE  /\ \A v \in Processors : Moves(v)
         /\ \A v \in Processors \ {w} : Keeps(v)
         /\ pc[w] \notin {"wait", "state"} => Keeps(w)
  BY DEF TypeOK, Raise, Continue, Moves, Keeps, Billing

-----------------------------------------------------------------------------
(* The steps that count.                                                   *)

LEMMA BeginPeriodCount ==
  ASSUME OInv, IInv', NEW w \in Processors, BeginPeriod(w)
  PROVE  OInv'
<1> USE DEF gnocchi, books, history
<1> DEFINE p == job[w].project
           t == PeriodToBill(p)
<1>1. TypeOK /\ pc[w] = "check"
  BY DEF OInv, IInv, BeginPeriod
<1>2. p \in Projects /\ job[w] \in Job
  BY <1>1, WorkerType DEF Working
<1>3. state[p] < t
  <2>1. t # 0
    BY DEF BeginPeriod
  <2>2. state[p] \in Nat /\ bottom[p] \in Nat /\ hour \in 1 .. MaxHour
    BY <1>1, <1>2, Numbers DEF TypeOK
  <2> QED
    BY <2>1, <2>2, Bounds DEF PeriodToBill
<1> HIDE DEF t
<1>4. /\ job' = [job EXCEPT ![w].period = t]
      /\ pc' = [pc EXCEPT ![w] = "consume"]
      /\ UNCHANGED <<state, billed, inflight, aborted>>
  BY DEF BeginPeriod, Continue, t
<1>5. /\ job'[w].project = p /\ job'[w].period = t /\ pc'[w] = "consume"
      /\ \A v \in Processors : v # w => pc'[v] = pc[v] /\ job'[v] = job[v]
  BY <1>1, <1>2, <1>4 DEF TypeOK, Job
<1>6. \A v \in Processors : Keeps(v)
  BY <1>1, <1>5 DEF Keeps
<1>7. Ahead'
  <2> SUFFICES ASSUME NEW v \in Processors, pc'[v] \in Billing
               PROVE  state[job'[v].project] < job'[v].period
    BY <1>4 DEF Ahead
  <2>1. CASE v = w
    BY <1>3, <1>5, <2>1
  <2>2. CASE v # w
    BY <1>5, <2>2 DEF OInv, Ahead
  <2> QED
    BY <2>1, <2>2
<1> QED
  BY <1>4, <1>6, <1>7, CalmCount DEF OInv

(* The cursor takes the place of the worker that moves it.                 *)
LEMMA SetStateCount ==
  ASSUME OInv, IInv', ~LocksExpire, NEW w \in Processors, SetState(w)
  PROVE  OInv'
<1> USE DEF gnocchi, books, history
<1> DEFINE p == job[w].project
           t == job[w].period
<1>1. TypeOK /\ IInv /\ pc[w] = "state"
  BY DEF OInv, IInv, SetState
<1>2. p \in Projects /\ t \in Periods
  BY <1>1, WorkerType DEF Working, Billing
<1>3. /\ state' = [state EXCEPT ![p] = IF @ < t THEN t ELSE @]
      /\ pc' = [pc EXCEPT ![w] = "release"]
      /\ UNCHANGED <<job, inflight, billed, aborted>>
  BY DEF SetState, Continue
<1> HIDE DEF p, t
<1>4. \A v \in Processors : pc'[v] = IF v = w THEN "release" ELSE pc[v]
  BY <1>1, <1>3 DEF TypeOK
<1>5. /\ \A q \in Projects : state'[q] = IF q # p THEN state[q]
                                         ELSE IF state[p] < t THEN t
                                         ELSE state[p]
      /\ \A q \in Projects : state[q] \in Nat
      /\ t \in Nat
  BY <1>1, <1>2, <1>3, Numbers DEF TypeOK
<1>6. Ahead'
  <2> SUFFICES ASSUME NEW v \in Processors, pc'[v] \in Billing
               PROVE  state'[job[v].project] < job[v].period
    BY <1>3 DEF Ahead
  <2>1. v # w /\ pc[v] \in Billing
    BY <1>4 DEF Billing
  <2>2. job[v].project # p
    BY <1>1, <2>1, Apart DEF p, Working, Billing
  <2>3. job[v].project \in Projects
    BY <1>1, <2>1, WorkerType DEF Working
  <2> QED
    BY <1>5, <2>1, <2>2, <2>3 DEF OInv, Ahead
<1>7. ASSUME NEW q \in Projects, NEW u \in Periods
      PROVE  Counted(q, u)'
  <2>1. Entitled(q, u) => Entitled(q, u)'
    <3> SUFFICES ASSUME Entitled(q, u)
                 PROVE  Entitled(q, u)'
      OBVIOUS
    <3>0. u \in Nat
      BY <1>1, Numbers
    <3>1. CASE u <= state[q]
      BY <1>5, <3>0, <3>1 DEF Entitled
    <3>2. ASSUME NEW v \in Processors, Asked(v, q, u), v # w
          PROVE  Entitled(q, u)'
      BY <1>3, <1>4, <3>2 DEF Entitled, Asked
    <3>3. CASE Asked(w, q, u)
      <4>1. q = p /\ u = t
        BY <3>3 DEF Asked, p, t
      <4> QED
        BY <1>5, <4>1 DEF Entitled
    <3> QED
      BY <3>1, <3>2, <3>3 DEF Entitled
  <2>2. Cardinality(Late(q, u)') = Cardinality(Late(q, u))
    BY <1>3 DEF Late
  <2>3. /\ billed[q][u] \in Nat /\ aborted[q][u] \in Nat
        /\ Cardinality(Late(q, u)) \in Nat
    BY <1>1, LateFinite, Counters
  <2> QED
    BY <1>3, <2>1, <2>2, <2>3 DEF OInv, Counted, Allowance
<1> QED
  BY <1>3, <1>6, <1>7 DEF OInv

(* A worker that holds the lock is the first to ask for its period.        *)
LEMMA SendCount ==
  ASSUME OInv, IInv', ~LocksExpire, NEW w \in Processors, Send(w)
  PROVE  OInv'
<1> USE DEF gnocchi, books, history
<1> DEFINE p == job[w].project
           t == job[w].period
           m == [by |-> w, project |-> p, period |-> t,
                 amount |-> job[w].amount, attempt |-> aborted[p][t]]
<1>1. TypeOK /\ IInv /\ pc[w] = "send"
  BY DEF OInv, IInv, Send
<1>2. p \in Projects /\ t \in Periods /\ job[w] \in Job
  BY <1>1, WorkerType DEF Working, Billing
<1>3. /\ job' = [job EXCEPT ![w].attempt = aborted[p][t]]
      /\ pc' = [pc EXCEPT ![w] = "wait"]
      /\ inflight' = inflight \cup {m}
      /\ UNCHANGED <<state, billed, aborted>>
  BY DEF Send, Continue
<1>4. m.project = p /\ m.period = t
  OBVIOUS
<1>5. \A v \in Processors :
        /\ pc'[v] = IF v = w THEN "wait" ELSE pc[v]
        /\ job'[v].project = job[v].project
        /\ job'[v].period = job[v].period
  BY <1>1, <1>2, <1>3 DEF TypeOK, Job
<1>6. state[p] < t
  BY <1>1 DEF OInv, Ahead, Billing
<1>7. \A v \in Processors : ~Asked(v, p, t)
  <2> SUFFICES ASSUME NEW v \in Processors, Asked(v, p, t)
               PROVE  FALSE
    OBVIOUS
  <2>1. pc[v] \in Working /\ pc[w] \in Working
    BY <1>1 DEF Asked, Working, Billing
  <2>2. v = w
    BY <1>1, <2>1, Apart DEF Asked
  <2> QED
    BY <1>1, <2>2 DEF Asked
<1> HIDE DEF m, p, t
<1>8. ~Entitled(p, t)
  BY <1>1, <1>2, <1>6, <1>7, Numbers DEF Entitled
<1>9. \A q, u : q = p /\ u = t => Asked(w, q, u)'
  BY <1>5 DEF Asked, p, t
<1>10. IsFiniteSet(inflight')
  BY <1>3, FS_AddElement DEF OInv
<1>11. Ahead'
  BY <1>1, <1>3, <1>5 DEF OInv, Ahead, Billing
<1>12. ASSUME NEW q \in Projects, NEW u \in Periods
       PROVE  Counted(q, u)'
  <2>1. /\ billed[q][u] \in Nat /\ aborted[q][u] \in Nat
        /\ IsFiniteSet(Late(q, u)) /\ Cardinality(Late(q, u)) \in Nat
    BY <1>1, LateFinite, Counters
  <2>2. Counted(q, u)
    BY DEF OInv
  <2>3. CASE q = p /\ u = t
    <3>1. Late(q, u)' = Late(q, u) \cup {m}
      BY <1>3, <1>4, <2>3 DEF Late
    <3>2. /\ IsFiniteSet(Late(q, u) \cup {m})
          /\ Cardinality(Late(q, u) \cup {m}) =
               IF m \in Late(q, u) THEN Cardinality(Late(q, u))
               ELSE Cardinality(Late(q, u)) + 1
      BY <2>1, FS_AddElement
    <3>3. /\ Cardinality(Late(q, u)') <= Cardinality(Late(q, u)) + 1
          /\ Cardinality(Late(q, u)') \in Nat
      BY <2>1, <3>1, <3>2
    <3>4. Entitled(q, u)'
      BY <1>9, <2>3 DEF Entitled
    <3>5. ~Entitled(q, u)
      BY <1>8, <2>3
    <3> QED
      BY <1>3, <2>1, <2>2, <3>3, <3>4, <3>5 DEF Counted, Allowance
  <2>4. CASE ~(q = p /\ u = t)
    <3>1. Late(q, u)' = Late(q, u)
      BY <1>3, <1>4, <2>4 DEF Late
    <3>2. Entitled(q, u) => Entitled(q, u)'
      BY <1>1, <1>3, <1>5 DEF Entitled, Asked
    <3> QED
      BY <1>3, <2>1, <2>2, <3>1, <3>2 DEF Counted, Allowance
  <2> QED
    BY <2>3, <2>4
<1> QED
  BY <1>10, <1>11, <1>12 DEF OInv

(* The request that is taken out of the queue.                             *)
LEMMA LateWithout ==
  ASSUME OInv, NEW r \in inflight, inflight' = inflight \ {r},
         NEW p \in Projects, NEW t \in Periods
  PROVE  /\ Cardinality(Late(p, t)') \in Nat
         /\ Cardinality(Late(p, t)')
              = Cardinality(Late(p, t))
                - IF r.project = p /\ r.period = t THEN 1 ELSE 0
<1>1. Late(p, t)' = Late(p, t) \ {r}
  BY DEF Late
<1>2. r \in Late(p, t) <=> r.project = p /\ r.period = t
  BY DEF Late
<1>3. IsFiniteSet(Late(p, t)) /\ Cardinality(Late(p, t)) \in Nat
  BY LateFinite
<1>4. /\ IsFiniteSet(Late(p, t) \ {r})
      /\ Cardinality(Late(p, t) \ {r}) =
           IF r \in Late(p, t) THEN Cardinality(Late(p, t)) - 1
           ELSE Cardinality(Late(p, t))
  BY <1>3, FS_RemoveElement
<1>5. Cardinality(Late(p, t) \ {r}) \in Nat
  BY <1>4, FS_CardinalityType
<1> QED
  BY <1>1, <1>2, <1>3, <1>4, <1>5

LEMMA FiniteWithout ==
  ASSUME IsFiniteSet(inflight), NEW r, inflight' = inflight \ {r}
  PROVE  IsFiniteSet(inflight')
  BY FS_RemoveElement

(* A request becomes a bill.                                               *)
LEMMA UpdateAccountCount ==
  ASSUME OInv, IInv', NEW r \in inflight, UpdateAccount(r)
  PROVE  OInv'
<1> USE DEF gnocchi, books, history
<1>1. /\ TypeOK /\ r.by \in Processors
      /\ r.project \in Projects /\ r.period \in Periods
  BY Numbers DEF OInv, IInv
<1>2. /\ inflight' = inflight \ {r}
      /\ billed' = [billed EXCEPT ![r.project][r.period] = @ + 1]
      /\ UNCHANGED <<state, job, aborted>>
  BY DEF UpdateAccount
<1>3. \A v \in Processors :
        pc'[v] = pc[v] \/ (pc[v] = "wait" /\ pc'[v] = "state")
  BY <1>1 DEF UpdateAccount, Waits, TypeOK
<1>4. Ahead'
  BY <1>2, <1>3 DEF OInv, Ahead, Billing
<1>5. ASSUME NEW q \in Projects, NEW u \in Periods
      PROVE  Counted(q, u)'
  <2>1. /\ billed[q][u] \in Nat /\ aborted[q][u] \in Nat
        /\ Cardinality(Late(q, u)) \in Nat
    BY <1>1, LateFinite, Counters
  <2>2. Entitled(q, u) => Entitled(q, u)'
    BY <1>2, <1>3 DEF Entitled, Asked
  <2>3. billed'[q][u] = billed[q][u]
          + IF r.project = q /\ r.period = u THEN 1 ELSE 0
    BY <1>1, <1>2, <2>1 DEF TypeOK
  <2>4. Counted(q, u)
    BY DEF OInv
  <2> QED
    BY <1>2, <2>1, <2>2, <2>3, <2>4, LateWithout DEF Counted, Allowance
<1> QED
  BY <1>2, <1>4, <1>5, FiniteWithout DEF OInv

(* A request is dropped, and with it the worker that waits for it.         *)
LEMMA RefuseCount ==
  ASSUME OInv, IInv', NEW r \in inflight, Refuse(r)
  PROVE  OInv'
<1> USE DEF gnocchi, books, history
<1>1. /\ TypeOK /\ r.by \in Processors
      /\ r.project \in Projects /\ r.period \in Periods
  BY Numbers DEF OInv, IInv
<1>2. /\ inflight' = inflight \ {r}
      /\ UNCHANGED <<state, billed, aborted>>
  BY DEF Refuse
<1>3. \A v \in Processors : Moves(v)
  BY <1>1, RaiseMoves DEF Refuse, Moves
<1>4. \A v \in Processors :
        Keeps(v) \/ (v = r.by /\ Asked(v, r.project, r.period))
  <2>1. CASE Waits(r.by, r) /\ Raise(r.by)
    <3>1. Asked(r.by, r.project, r.period)
      BY <2>1 DEF Waits, Asked
    <3> QED
      BY <1>1, <2>1, <3>1, RaiseMoves
  <2>2. CASE UNCHANGED <<pc, job>>
    BY <2>2 DEF Keeps
  <2> QED
    BY <2>1, <2>2 DEF Refuse
<1>5. Ahead'
  BY <1>2, <1>3, CalmAhead
<1>6. ASSUME NEW q \in Projects, NEW u \in Periods
      PROVE  Counted(q, u)'
  <2>1. /\ billed[q][u] \in Nat /\ aborted[q][u] \in Nat
        /\ Cardinality(Late(q, u)) \in Nat
    BY <1>1, LateFinite, Counters
  <2>2. Counted(q, u)
    BY DEF OInv
  <2>3. CASE r.project = q /\ r.period = u
    BY <1>2, <2>1, <2>2, <2>3, LateWithout DEF Counted, Allowance
  <2>4. CASE ~(r.project = q /\ r.period = u)
    <3>1. \A v \in Processors : Asked(v, q, u) => Asked(v, q, u)'
      BY <1>4, <2>4 DEF Asked, Keeps
    <3>2. Entitled(q, u) => Entitled(q, u)'
      BY <1>2, <3>1 DEF Entitled
    <3> QED
      BY <1>2, <2>1, <2>2, <2>4, <3>2, LateWithout DEF Counted, Allowance
  <2> QED
    BY <2>3, <2>4
<1> QED
  BY <1>2, <1>5, <1>6, FiniteWithout DEF OInv

(* An interrupted run pays for the bill it leaves behind.                  *)
LEMMA AbortCount ==
  ASSUME OInv, IInv', NEW w \in Processors, Raise(w), Abort(w),
         UNCHANGED <<state, billed, inflight>>
  PROVE  OInv'
<1>1. TypeOK
  BY DEF OInv, IInv
<1>2. Ahead'
  BY <1>1, RaiseMoves, CalmAhead
<1>3. CASE pc[w] \notin {"wait", "state"}
  <2>1. aborted' = aborted
    BY <1>3 DEF Abort
  <2>2. \A v \in Processors : Keeps(v) /\ Moves(v)
    BY <1>1, <1>3, RaiseMoves
  <2> QED
    BY <2>1, <2>2, CalmStep
<1>4. CASE pc[w] \in {"wait", "state"}
  <2> DEFINE p == job[w].project
             t == job[w].period
  <2>1. p \in Projects /\ t \in Periods
    BY <1>1, <1>4, WorkerType DEF Working, Billing
  <2>2. aborted' = [aborted EXCEPT ![p][t] = @ + 1]
    BY <1>4 DEF Abort
  <2>3. ASSUME NEW q \in Projects, NEW u \in Periods
        PROVE  Counted(q, u)'
    <3>1. /\ billed[q][u] \in Nat /\ aborted[q][u] \in Nat
          /\ Cardinality(Late(q, u)) \in Nat
      BY <1>1, LateFinite, Counters
    <3>2. Late(q, u)' = Late(q, u)
      BY DEF Late
    <3>3. Counted(q, u)
      BY DEF OInv
    <3>4. CASE q = p /\ u = t
      <4>1. aborted'[q][u] = aborted[q][u] + 1
        BY <1>1, <2>1, <2>2, <3>4 DEF TypeOK
      <4> QED
        BY <3>1, <3>2, <3>3, <4>1 DEF Counted, Allowance
    <3>5. CASE ~(q = p /\ u = t)
      <4>1. aborted'[q][u] = aborted[q][u]
        BY <1>1, <2>1, <2>2, <3>5 DEF TypeOK
      <4>2. \A v \in Processors : Asked(v, q, u) => Asked(v, q, u)'
        BY <1>1, <3>5, RaiseMoves DEF Asked, Keeps
      <4>3. Entitled(q, u) => Entitled(q, u)'
        BY <4>2 DEF Entitled
      <4> QED
        BY <3>1, <3>2, <3>3, <4>1, <4>3 DEF Counted, Allowance
    <3> QED
      BY <3>4, <3>5
  <2> QED
    BY <1>2, <2>3 DEF OInv
<1> QED
  BY <1>3, <1>4

-----------------------------------------------------------------------------
(* Every step.                                                             *)

LEMMA InitOInv == Init => OInv
<1> SUFFICES ASSUME Init
             PROVE  OInv
  OBVIOUS
<1>1. IInv
  BY InitIInv
<1>2. inflight = {} /\ IsFiniteSet(inflight)
  BY FS_EmptySet DEF Init
<1>3. Ahead
  BY DEF Init, Ahead, Billing
<1>4. ASSUME NEW p \in Projects, NEW t \in Periods
      PROVE  Counted(p, t)
  <2>1. Late(p, t) = {} /\ Cardinality(Late(p, t)) = 0
    BY <1>2, FS_EmptySet DEF Late
  <2>2. billed[p][t] = 0 /\ aborted[p][t] = 0
    BY DEF Init
  <2> QED
    BY <2>1, <2>2 DEF Counted, Allowance
<1> QED
  BY <1>1, <1>2, <1>3, <1>4 DEF OInv

LEMMA OInvStep == ~LocksExpire /\ OInv /\ [Next]_vars => OInv'
<1> SUFFICES ASSUME ~LocksExpire, OInv, [Next]_vars
             PROVE  OInv'
  OBVIOUS
<1> USE DEF gnocchi, books, history
<1>0. TypeOK /\ IInv /\ IInv'
  BY IInvStep DEF OInv, IInv, Orderly
<1>1. CASE UNCHANGED vars
  BY <1>0, <1>1, CalmStep DEF vars, Keeps, Moves
<1>2. CASE Tick \/ \E p \in Projects, t \in Periods : Rate(p, t)
  BY <1>0, <1>2, CalmStep DEF Tick, Rate, Keeps, Moves
<1>3. ASSUME NEW w \in Processors,
             Fetch(w) \/ StartPass(w) \/ EndPass(w) \/ UpToDate(w)
      PROVE  OInv'
  <2>1. UNCHANGED <<state, billed, inflight, aborted, job>>
    BY <1>3 DEF Fetch, StartPass, EndPass, UpToDate
  <2>2. \A v \in Processors : Keeps(v) /\ Moves(v)
    BY <1>0, <1>3
       DEF TypeOK, Fetch, StartPass, EndPass, UpToDate, Continue, Keeps,
           Moves, Billing
  <2> QED
    BY <1>0, <2>1, <2>2, CalmStep
<1>4. ASSUME NEW w \in Processors, NEW p \in Projects, Visit(w, p)
      PROVE  OInv'
  <2>1. UNCHANGED <<state, billed, inflight, aborted>>
    BY <1>4 DEF Visit
  <2>2. \A v \in Processors : Keeps(v) /\ Moves(v)
    BY <1>0, <1>4 DEF TypeOK, Visit, Continue, Keeps, Moves, Billing
  <2> QED
    BY <1>0, <2>1, <2>2, CalmStep
<1>5. ASSUME NEW w \in Processors, BeginPeriod(w)
      PROVE  OInv'
  BY <1>0, <1>5, BeginPeriodCount
<1>6. ASSUME NEW w \in Processors, FailToCheck(w)
      PROVE  OInv'
  <2>1. UNCHANGED <<state, billed, inflight, aborted>> /\ Raise(w)
    BY <1>6 DEF FailToCheck
  <2>2. pc[w] \notin {"wait", "state"}
    BY <1>6 DEF FailToCheck
  <2> QED
    BY <1>0, <2>1, <2>2, RaiseMoves, CalmStep
<1>7. ASSUME NEW w \in Processors, Consume(w)
      PROVE  OInv'
  <2>1. UNCHANGED <<state, billed, inflight, aborted>>
    BY <1>7 DEF Consume
  <2>2. job[w] \in Job /\ pc[w] = "consume"
    BY <1>0, <1>7, WorkerType DEF Consume, Working, Billing
  <2>3. PICK c : job' = [job EXCEPT ![w].amount = c]
    BY <1>7 DEF Consume
  <2>4. pc' = [pc EXCEPT ![w] = "payer"]
    BY <1>7 DEF Consume, Continue
  <2>5. \A v \in Processors :
          /\ pc'[v] = IF v = w THEN "payer" ELSE pc[v]
          /\ job'[v].project = job[v].project
          /\ job'[v].period = job[v].period
    BY <1>0, <2>2, <2>3, <2>4 DEF TypeOK, Job
  <2>6. \A v \in Processors : Keeps(v) /\ Moves(v)
    BY <2>2, <2>5 DEF Keeps, Moves, Billing
  <2> QED
    BY <1>0, <2>1, <2>6, CalmStep
<1>8. ASSUME NEW w \in Processors, GetPayer(w) \/ OwedAction(w)
      PROVE  OInv'
  <2>1. /\ UNCHANGED <<state, billed, inflight, aborted>>
        /\ pc[w] \in {"payer", "owe"}
    BY <1>8 DEF GetPayer, OwedAction
  <2>2. CASE Raise(w)
    BY <1>0, <2>1, <2>2, RaiseMoves, CalmStep
  <2>3. CASE ~Raise(w)
    <3>1. \A v \in Processors : Keeps(v) /\ Moves(v)
      BY <1>0, <1>8, <2>1, <2>3
         DEF TypeOK, GetPayer, OwedAction, Continue, Keeps, Moves, Billing
    <3> QED
      BY <1>0, <2>1, <3>1, CalmStep
  <2> QED
    BY <2>2, <2>3
<1>9. ASSUME NEW w \in Processors, Send(w)
      PROVE  OInv'
  BY <1>0, <1>9, SendCount
<1>10. ASSUME NEW w \in Processors, SetState(w)
       PROVE  OInv'
  BY <1>0, <1>10, SetStateCount
<1>11. ASSUME NEW w \in Processors, Release(w)
       PROVE  OInv'
  <2>1. UNCHANGED <<state, billed, inflight, aborted>>
    BY <1>11 DEF Release
  <2>2. \A v \in Processors : Keeps(v) /\ Moves(v)
    BY <1>0, <1>11 DEF TypeOK, Release, Continue, Keeps, Moves, Billing
  <2> QED
    BY <1>0, <2>1, <2>2, CalmStep
<1>12. ASSUME NEW w \in Processors, Fail(w) \/ Crash(w)
       PROVE  OInv'
  <2>1. Raise(w) /\ Abort(w) /\ UNCHANGED <<state, billed, inflight>>
    BY <1>12 DEF Fail, Crash
  <2> QED
    BY <1>0, <2>1, AbortCount
<1>13. ASSUME NEW r \in inflight, UpdateAccount(r)
       PROVE  OInv'
  BY <1>0, <1>13, UpdateAccountCount
<1>14. ASSUME NEW r \in inflight, Refuse(r)
       PROVE  OInv'
  BY <1>0, <1>14, RefuseCount
<1>15. ASSUME NEW p \in Projects, Reclaim(p) \/ Expire(p)
       PROVE  OInv'
  <2>1. UNCHANGED <<state, billed, inflight, aborted, pc, job>>
    BY <1>15 DEF Reclaim, Expire
  <2> QED
    BY <1>0, <2>1, CalmStep DEF Keeps, Moves
<1> QED
  BY <1>1, <1>2, <1>3, <1>4, <1>5, <1>6, <1>7, <1>8, <1>9, <1>10, <1>11,
     <1>12, <1>13, <1>14, <1>15 DEF Next, Step

(* While no lock is dropped in use, a period is billed once and as often   *)
(* again as runs of it were interrupted after they had sent the bill, for  *)
(* any number of instances, projects, failures and late requests.          *)
THEOREM NothingIsBilledTwice ==
  ASSUME ~LocksExpire
  PROVE  Spec => []BilledOnce
<1>1. Init => OInv
  BY InitOInv
<1>2. OInv /\ [Next]_vars => OInv'
  BY OInvStep
<1>3. OInv => BilledOnce
  <2> SUFFICES ASSUME OInv, NEW p \in Projects, NEW t \in Periods
               PROVE  billed[p][t] <= 1 + aborted[p][t]
    BY DEF BilledOnce
  <2>1. /\ Counted(p, t)
        /\ Cardinality(Late(p, t)) \in Nat
        /\ billed[p][t] \in Nat /\ aborted[p][t] \in Nat
    BY LateFinite, Counters DEF OInv, IInv
  <2> QED
    BY <2>1 DEF Counted, Allowance
<1> QED
  BY <1>1, <1>2, <1>3, PTL DEF Spec

-----------------------------------------------------------------------------
(* In full: what a worker or a request holds is the final cost.            *)

(* Nothing is added to the cost of the period any more, or it is one that  *)
(* a project was opened with.                                              *)
Settled(p, t) == t < top[p] \/ <<p, t>> \in opened

Right(p, t, amount) ==
  amount = Cost(p, t) \/ <<p, t>> \in opened \cup coarse

Priced == Billing \ {"consume"}

RatedFromBottom == \A p \in Projects : bottom[p] = 0 <=> top[p] = 0

JobsSettled ==
  \A w \in Processors :
    pc[w] \in Billing => Settled(job[w].project, job[w].period)

JobsRight ==
  \A w \in Processors :
    pc[w] \in Priced => Right(job[w].project, job[w].period, job[w].amount)

RequestsRight ==
  \A r \in inflight : /\ Settled(r.project, r.period)
                      /\ Right(r.project, r.period, r.amount)

BilledWhenSettled ==
  \A p \in Projects, t \in Periods : billed[p][t] > 0 => Settled(p, t)

FInv ==
  /\ TypeOK
  /\ RatedFromBottom
  /\ JobsSettled
  /\ JobsRight
  /\ RequestsRight
  /\ BilledWhenSettled
  /\ BilledInFull

LEMMA CostType ==
  ASSUME NEW p \in Projects, NEW t \in Periods
  PROVE  Cost(p, t) \in Nat
  BY ProcessorAssumption DEF Cost

LEMMA InitFInv == Init => FInv
<1> SUFFICES ASSUME Init
             PROVE  FInv
  OBVIOUS
<1>1. TypeOK
  BY InitType
<1>2. RatedFromBottom /\ JobsSettled /\ JobsRight /\ RequestsRight
  BY DEF Init, RatedFromBottom, JobsSettled, JobsRight, RequestsRight,
         Billing, Priced
<1>3. BilledWhenSettled
  BY DEF Init, BilledWhenSettled
<1>4. BilledInFull
  <2> SUFFICES ASSUME NEW p \in Projects, NEW t \in Periods
               PROVE  charged[p][t] = billed[p][t] * Cost(p, t)
    BY DEF BilledInFull
  <2>1. charged[p][t] = 0 /\ billed[p][t] = 0
    BY DEF Init
  <2> QED
    BY <2>1, CostType
<1> QED
  BY <1>1, <1>2, <1>3, <1>4 DEF FInv

(* What a step does to the periods: it adds to those that are settled, and *)
(* changes the cost of none of them.                                       *)
Grows ==
  /\ opened \subseteq opened'
  /\ coarse \subseteq coarse'
  /\ \A p \in Projects : top[p] <= top'[p]
  /\ \A p \in Projects : top[p] # 0 => bottom'[p] = bottom[p]

LEMMA GrowsStep ==
  ASSUME TypeOK, RatedFromBottom, [Next]_vars
  PROVE  Grows /\ RatedFromBottom'
<1> USE DEF gnocchi, books, history
<1> DEFINE Same == UNCHANGED <<bottom, top, opened, coarse>>
<1>0. /\ \A p \in Projects : bottom[p] \in Nat /\ top[p] \in Nat
      /\ Periods \subseteq Nat \ {0}
  BY Bounds DEF TypeOK, Periods
<1>1. Same => Grows /\ RatedFromBottom'
  BY <1>0 DEF Grows, RatedFromBottom
<1>2. CASE UNCHANGED vars \/ Tick
  BY <1>1, <1>2 DEF vars, Tick
<1>3. ASSUME NEW p \in Projects, NEW t \in Periods, Rate(p, t)
      PROVE  Grows /\ RatedFromBottom'
  <2>1. /\ \A q \in Projects : top'[q] = IF q = p THEN t ELSE top[q]
        /\ \A q \in Projects :
             bottom'[q] = IF q = p /\ bottom[q] = 0 THEN t ELSE bottom[q]
        /\ UNCHANGED <<opened, coarse>>
    BY <1>3 DEF TypeOK, Rate
  <2>2. t \in Nat \ {0} /\ (top[p] = 0 \/ t = top[p] + 1)
    BY <1>0, <1>3 DEF Rate
  <2> QED
    BY <1>0, <2>1, <2>2 DEF Grows, RatedFromBottom
<1>4. ASSUME NEW w \in Processors,
             Fetch(w) \/ StartPass(w) \/ EndPass(w)
               \/ \E p \in Projects : Visit(w, p)
      PROVE  Same
  BY <1>4 DEF Fetch, StartPass, EndPass, Visit
<1>5. ASSUME NEW w \in Processors,
             UpToDate(w) \/ FailToCheck(w) \/ GetPayer(w) \/ OwedAction(w)
      PROVE  Same
  BY <1>5 DEF UpToDate, FailToCheck, GetPayer, OwedAction
<1>6. ASSUME NEW w \in Processors,
             Send(w) \/ SetState(w) \/ Release(w) \/ Fail(w) \/ Crash(w)
      PROVE  Same
  BY <1>6 DEF Send, SetState, Release, Fail, Crash, Abort
<1>7. ASSUME NEW w \in Processors, BeginPeriod(w) \/ Consume(w)
      PROVE  Grows /\ RatedFromBottom'
  <2>1. /\ UNCHANGED <<bottom, top>>
        /\ opened \subseteq opened' /\ coarse \subseteq coarse'
    BY <1>7 DEF BeginPeriod, Consume
  <2> QED
    BY <1>0, <2>1 DEF Grows, RatedFromBottom
<1>8. ASSUME NEW r \in inflight, UpdateAccount(r) \/ Refuse(r)
      PROVE  Same
  BY <1>8 DEF UpdateAccount, Refuse
<1>9. ASSUME NEW p \in Projects, Reclaim(p) \/ Expire(p)
      PROVE  Same
  BY <1>9 DEF Reclaim, Expire
<1> HIDE DEF Same
<1> QED
  BY <1>1, <1>2, <1>3, <1>4, <1>5, <1>6, <1>7, <1>8, <1>9 DEF Next, Step

(* What is settled stays so, and with it the amount that is right.         *)
LEMMA RightStays ==
  ASSUME TypeOK, TypeOK', Grows,
         NEW p \in Projects, NEW t \in Periods, Settled(p, t)
  PROVE  /\ Settled(p, t)'
         /\ \A a : Right(p, t, a) => Right(p, t, a)'
         /\ Cost(p, t)' = Cost(p, t) \/ <<p, t>> \in opened'
<1>1. top[p] \in Nat /\ t \in Nat /\ t > 0 /\ top'[p] \in Nat
  BY Bounds DEF TypeOK, Periods
<1>2. CASE <<p, t>> \in opened
  BY <1>2 DEF Settled, Right, Grows
<1>3. CASE t < top[p]
  <2>1. top[p] # 0
    BY <1>1, <1>3
  <2>2. Cost(p, t)' = Cost(p, t)
    BY <2>1 DEF Cost, Grows
  <2>3. opened \cup coarse \subseteq opened' \cup coarse'
    BY DEF Grows
  <2>4. \A a : Right(p, t, a) => Right(p, t, a)'
    BY <2>2, <2>3 DEF Right
  <2>5. t < top'[p]
    BY <1>1, <1>3 DEF Grows
  <2> QED
    BY <2>2, <2>4, <2>5 DEF Settled
<1> QED
  BY <1>2, <1>3 DEF Settled

(* Where a worker has its period and its amount from.                      *)
WorkerStep(v) ==
  /\ pc'[v] \in Billing =>
       \/ BeginPeriod(v)
       \/ /\ pc[v] \in Billing
          /\ job'[v].project = job[v].project
          /\ job'[v].period = job[v].period
  /\ pc'[v] \in Priced =>
       \/ Consume(v)
       \/ /\ pc[v] \in Priced
          /\ job'[v].project = job[v].project
          /\ job'[v].period = job[v].period
          /\ job'[v].amount = job[v].amount

LEMMA WorkersStep ==
  ASSUME TypeOK, [Next]_vars
  PROVE  \A v \in Processors : WorkerStep(v)
<1> USE DEF gnocchi, books, history
<1>1. UNCHANGED <<pc, job>> => \A v \in Processors : WorkerStep(v)
  BY DEF WorkerStep
<1>2. ASSUME NEW w \in Processors, Raise(w)
      PROVE  \A v \in Processors : WorkerStep(v)
  BY <1>2 DEF TypeOK, Raise, Continue, WorkerStep, Billing, Priced
<1>3. CASE \/ UNCHANGED vars \/ Tick
           \/ \E p \in Projects, t \in Periods : Rate(p, t)
           \/ \E p \in Projects : Reclaim(p) \/ Expire(p)
  BY <1>1, <1>3 DEF vars, Tick, Rate, Reclaim, Expire
<1>4. ASSUME NEW w \in Processors,
             \/ Fetch(w) \/ StartPass(w) \/ EndPass(w)
             \/ \E p \in Projects : Visit(w, p)
             \/ UpToDate(w) \/ Release(w)
      PROVE  \A v \in Processors : WorkerStep(v)
  <2>1. \A v \in Processors :
          \/ pc'[v] \notin Billing
          \/ pc'[v] = pc[v] /\ job'[v] = job[v]
    BY <1>4
       DEF TypeOK, Fetch, StartPass, EndPass, Visit, UpToDate, Release,
           Continue, Billing
  <2> QED
    BY <2>1 DEF WorkerStep, Priced
<1>5. ASSUME NEW w \in Processors, BeginPeriod(w)
      PROVE  \A v \in Processors : WorkerStep(v)
  <2>1. \A v \in Processors :
          \/ v = w /\ pc'[v] = "consume"
          \/ pc'[v] = pc[v] /\ job'[v] = job[v]
    BY <1>5 DEF TypeOK, BeginPeriod, Continue
  <2> QED
    BY <1>5, <2>1 DEF WorkerStep, Priced
<1>6. ASSUME NEW w \in Processors, Consume(w)
      PROVE  \A v \in Processors : WorkerStep(v)
  <2>1. job[w] \in Job /\ pc[w] = "consume"
    BY <1>6, WorkerType DEF Consume, Working, Billing
  <2>2. PICK c : job' = [job EXCEPT ![w].amount = c]
    BY <1>6 DEF Consume
  <2>3. \A v \in Processors :
          /\ v # w => pc'[v] = pc[v] /\ job'[v] = job[v]
          /\ job'[v].project = job[v].project
          /\ job'[v].period = job[v].period
    BY <1>6, <2>1, <2>2 DEF TypeOK, Job, Consume, Continue
  <2> QED
    BY <1>6, <2>1, <2>3 DEF WorkerStep, Billing
<1>7. ASSUME NEW w \in Processors, FailToCheck(w) \/ Fail(w) \/ Crash(w)
      PROVE  \A v \in Processors : WorkerStep(v)
  BY <1>2, <1>7 DEF FailToCheck, Fail, Crash
<1>8. ASSUME NEW w \in Processors, ~Raise(w),
             GetPayer(w) \/ OwedAction(w) \/ SetState(w)
      PROVE  \A v \in Processors : WorkerStep(v)
  BY <1>8
     DEF TypeOK, GetPayer, OwedAction, SetState, Continue, WorkerStep,
         Billing, Priced
<1>9. ASSUME NEW w \in Processors, Send(w)
      PROVE  \A v \in Processors : WorkerStep(v)
  <2>1. job[w] \in Job /\ pc[w] = "send"
    BY <1>9, WorkerType DEF Send, Working, Billing
  <2>2. PICK a : job' = [job EXCEPT ![w].attempt = a]
    BY <1>9 DEF Send
  <2>3. \A v \in Processors :
          /\ v # w => pc'[v] = pc[v]
          /\ job'[v].project = job[v].project
          /\ job'[v].period = job[v].period
          /\ job'[v].amount = job[v].amount
    BY <1>9, <2>1, <2>2 DEF TypeOK, Job, Send, Continue
  <2> QED
    BY <2>1, <2>3 DEF WorkerStep, Billing, Priced
<1>10. ASSUME NEW r \in inflight, UpdateAccount(r)
       PROVE  \A v \in Processors : WorkerStep(v)
  <2>1. /\ job' = job
        /\ \A v \in Processors :
             pc'[v] = pc[v] \/ (pc[v] = "wait" /\ pc'[v] = "state")
    BY <1>10, Numbers DEF UpdateAccount, Waits, TypeOK
  <2> QED
    BY <2>1 DEF WorkerStep, Billing, Priced
<1>11. ASSUME NEW r \in inflight, Refuse(r)
       PROVE  \A v \in Processors : WorkerStep(v)
  BY <1>1, <1>2, <1>11, Numbers DEF Refuse
<1> QED
  BY <1>2, <1>3, <1>4, <1>5, <1>6, <1>7, <1>8, <1>9, <1>10, <1>11
     DEF Next, Step

(* Either cloudkitty has gone past the period, or the project is opened    *)
(* with it.                                                                *)
LEMMA BegunIsSettled ==
  ASSUME TypeOK, NEW w \in Processors, BeginPeriod(w)
  PROVE  \A q, u : job'[w].project = q /\ job'[w].period = u
                    => Settled(q, u)'
<1> DEFINE p == job[w].project
           t == PeriodToBill(p)
<1>1. p \in Projects /\ job[w] \in Job
  BY WorkerType DEF BeginPeriod, Working
<1>2. /\ t # 0 /\ top' = top
      /\ opened' = IF state[p] = 0 /\ ~Historical
                   THEN opened \cup {<<p, t>>} ELSE opened
  BY DEF BeginPeriod, gnocchi
<1>3. job'[w].project = p /\ job'[w].period = t
  <2> HIDE DEF t
  <2>1. job' = [job EXCEPT ![w].period = t]
    BY DEF BeginPeriod, t
  <2> QED
    BY <1>1, <2>1 DEF TypeOK, Job
<1>4. t < top[p] \/ (state[p] = 0 /\ ~Historical)
  BY <1>2 DEF PeriodToBill
<1>5. t < top'[p] \/ <<p, t>> \in opened'
  BY <1>2, <1>4
<1> HIDE DEF p, t
<1> QED
  BY <1>3, <1>5 DEF Settled

(* The costs of a settled period are all there.                            *)
LEMMA ConsumedIsRight ==
  ASSUME TypeOK, JobsSettled, NEW w \in Processors, Consume(w)
  PROVE  \A q, u, a :
           /\ job'[w].project = q /\ job'[w].period = u
           /\ job'[w].amount = a
           => Right(q, u, a)'
<1> DEFINE p == job[w].project
           t == job[w].period
<1>1. job[w] \in Job /\ Settled(p, t)
  BY WorkerType DEF Consume, Working, Billing, JobsSettled
<1>2. PICK c : /\ job' = [job EXCEPT ![w].amount = c]
               /\ c \in Stored(p, t) \/ <<p, t>> \in coarse'
  BY DEF Consume
<1>3. bottom' = bottom /\ opened' = opened
  BY DEF Consume, gnocchi
<1>4. /\ job'[w].project = p /\ job'[w].period = t
      /\ job'[w].amount = c
  BY <1>1, <1>2 DEF TypeOK, Job
<1>5. t < top[p] /\ c \in Stored(p, t) => c = Cost(p, t)
  BY DEF Stored
<1> HIDE DEF p, t
<1>6. \A q, u, a :
        a = Cost(q, u) \/ <<q, u>> \in opened' \cup coarse'
        => Right(q, u, a)'
  BY <1>3 DEF Right, Cost
<1> QED
  BY <1>1, <1>2, <1>3, <1>4, <1>5, <1>6 DEF Settled

(* Where a request has its period and its amount from.                     *)
LEMMA RequestsStep ==
  ASSUME TypeOK, [Next]_vars, NEW r \in inflight'
  PROVE  \/ r \in inflight
         \/ \E w \in Processors : /\ pc[w] \in Priced
                                  /\ r.project = job[w].project
                                  /\ r.period = job[w].period
                                  /\ r.amount = job[w].amount
<1> USE DEF gnocchi, books, history
<1>1. CASE UNCHANGED vars \/ Tick \/ \E p \in Projects, t \in Periods : Rate(p, t)
  BY <1>1 DEF vars, Tick, Rate
<1>2. ASSUME NEW w \in Processors,
             Fetch(w) \/ StartPass(w) \/ EndPass(w)
               \/ \E p \in Projects : Visit(w, p)
      PROVE  inflight' = inflight
  BY <1>2 DEF Fetch, StartPass, EndPass, Visit
<1>3. ASSUME NEW w \in Processors,
             UpToDate(w) \/ BeginPeriod(w) \/ FailToCheck(w) \/ Consume(w)
      PROVE  inflight' = inflight
  BY <1>3 DEF UpToDate, BeginPeriod, FailToCheck, Consume
<1>4. ASSUME NEW w \in Processors,
             GetPayer(w) \/ OwedAction(w) \/ SetState(w) \/ Release(w)
      PROVE  inflight' = inflight
  BY <1>4 DEF GetPayer, OwedAction, SetState, Release
<1>5. ASSUME NEW w \in Processors, Fail(w) \/ Crash(w)
      PROVE  inflight' = inflight
  BY <1>5 DEF Fail, Crash
<1>6. ASSUME NEW p \in Projects, Reclaim(p) \/ Expire(p)
      PROVE  inflight' = inflight
  BY <1>6 DEF Reclaim, Expire
<1>7. ASSUME NEW q \in inflight, UpdateAccount(q) \/ Refuse(q)
      PROVE  r \in inflight
  BY <1>7 DEF UpdateAccount, Refuse
<1>8. ASSUME NEW w \in Processors, Send(w), r \notin inflight
      PROVE  /\ pc[w] \in Priced
             /\ r.project = job[w].project
             /\ r.period = job[w].period
             /\ r.amount = job[w].amount
  BY <1>8 DEF Send, Priced, Billing
<1> QED
  BY <1>1, <1>2, <1>3, <1>4, <1>5, <1>6, <1>7, <1>8 DEF Next, Step

LEMMA BooksStep ==
  ASSUME [Next]_vars
  PROVE  UNCHANGED books \/ \E r \in inflight : UpdateAccount(r)
<1> USE DEF gnocchi, history
<1>1. CASE UNCHANGED vars \/ Tick \/ \E p \in Projects, t \in Periods : Rate(p, t)
  BY <1>1 DEF vars, Tick, Rate
<1>2. ASSUME NEW w \in Processors,
             Fetch(w) \/ StartPass(w) \/ EndPass(w)
               \/ \E p \in Projects : Visit(w, p)
      PROVE  UNCHANGED books
  BY <1>2 DEF Fetch, StartPass, EndPass, Visit
<1>3. ASSUME NEW w \in Processors,
             UpToDate(w) \/ BeginPeriod(w) \/ FailToCheck(w) \/ Consume(w)
      PROVE  UNCHANGED books
  BY <1>3 DEF UpToDate, BeginPeriod, FailToCheck, Consume
<1>4. ASSUME NEW w \in Processors,
             \/ GetPayer(w) \/ OwedAction(w) \/ Send(w)
             \/ SetState(w) \/ Release(w)
      PROVE  UNCHANGED books
  BY <1>4 DEF GetPayer, OwedAction, Send, SetState, Release
<1>5. ASSUME NEW w \in Processors, Fail(w) \/ Crash(w)
      PROVE  UNCHANGED books
  BY <1>5 DEF Fail, Crash
<1>6. ASSUME NEW p \in Projects, Reclaim(p) \/ Expire(p)
      PROVE  UNCHANGED books
  BY <1>6 DEF Reclaim, Expire
<1>7. ASSUME NEW q \in inflight, Refuse(q)
      PROVE  UNCHANGED books
  BY <1>7 DEF Refuse
<1> QED
  BY <1>1, <1>2, <1>3, <1>4, <1>5, <1>6, <1>7 DEF Next, Step

LEMMA OneMore ==
  ASSUME NEW b \in Nat, NEW c \in Nat
  PROVE  (b + 1) * c = b * c + c
  OBVIOUS

LEMMA NoneYet ==
  ASSUME NEW c \in Nat
  PROVE  0 * c = 0
  OBVIOUS

(* The books after the step, once the requests that were served are right. *)
LEMMA FullStep ==
  ASSUME FInv, TypeOK', Grows, [Next]_vars
  PROVE  BilledWhenSettled' /\ BilledInFull'
<1>1. TypeOK
  BY DEF FInv
<1>2. ASSUME NEW p \in Projects, NEW t \in Periods
      PROVE  /\ billed[p][t] \in Nat /\ charged[p][t] \in Nat
             /\ Cost(p, t) \in Nat
             /\ charged[p][t] = billed[p][t] * Cost(p, t)
                  \/ <<p, t>> \in opened \cup coarse
             /\ billed[p][t] > 0 => Settled(p, t)
  BY <1>1, CostType DEF FInv, TypeOK, BilledInFull, BilledWhenSettled
<1>3. \A p \in Projects, t \in Periods : Cost(p, t)' \in Nat
  BY ProcessorAssumption DEF Cost
<1>4. opened \cup coarse \subseteq opened' \cup coarse'
  BY DEF Grows
<1>5. \A p \in Projects, t \in Periods :
        Settled(p, t) => /\ Settled(p, t)'
                         /\ \A a : Right(p, t, a) => Right(p, t, a)'
                         /\ Cost(p, t)' = Cost(p, t) \/ <<p, t>> \in opened'
  BY <1>1, RightStays
<1>6. ASSUME NEW p \in Projects, NEW t \in Periods,
             billed'[p][t] = billed[p][t], charged'[p][t] = charged[p][t]
      PROVE  /\ billed'[p][t] > 0 => Settled(p, t)'
             /\ charged'[p][t] = billed'[p][t] * Cost(p, t)'
                  \/ <<p, t>> \in opened' \cup coarse'
  <2>1. CASE billed[p][t] = 0
    <3>1. charged[p][t] = 0 \/ <<p, t>> \in opened' \cup coarse'
      BY <1>2, <1>4, <2>1, NoneYet
    <3>2. 0 * Cost(p, t)' = 0
      BY <1>3, NoneYet
    <3> QED
      BY <1>6, <2>1, <3>1, <3>2
  <2>2. CASE billed[p][t] # 0
    <3>1. Settled(p, t)
      <4>1. billed[p][t] \in Nat /\ (billed[p][t] > 0 => Settled(p, t))
        BY <1>2
      <4> QED
        BY <2>2, <4>1
    <3>2. CASE Cost(p, t)' = Cost(p, t)
      BY <1>2, <1>4, <1>5, <1>6, <3>1, <3>2
    <3>3. CASE <<p, t>> \in opened'
      BY <1>5, <1>6, <3>1, <3>3
    <3> QED
      BY <1>5, <3>1, <3>2, <3>3
  <2> QED
    BY <2>1, <2>2
<1>7. CASE UNCHANGED books
  BY <1>6, <1>7 DEF books, BilledWhenSettled, BilledInFull
<1>8. ASSUME NEW r \in inflight, UpdateAccount(r)
      PROVE  BilledWhenSettled' /\ BilledInFull'
  <2>1. r.project \in Projects /\ r.period \in Periods /\ r.amount \in Nat
    BY <1>1 DEF TypeOK, Request
  <2>2. /\ Settled(r.project, r.period)
        /\ Right(r.project, r.period, r.amount)
    BY DEF FInv, RequestsRight
  <2>3. UNCHANGED <<bottom, opened, coarse>>
    BY <1>8 DEF UpdateAccount, gnocchi, history
  <2>4. \A p \in Projects, t \in Periods :
          ~(p = r.project /\ t = r.period)
          => billed'[p][t] = billed[p][t] /\ charged'[p][t] = charged[p][t]
    BY <1>1, <1>8, <2>1 DEF TypeOK, UpdateAccount
  <2>5. /\ billed'[r.project][r.period] = billed[r.project][r.period] + 1
        /\ charged'[r.project][r.period]
             = charged[r.project][r.period] + r.amount
    BY <1>1, <1>8, <2>1 DEF TypeOK, UpdateAccount
  <2>6. \A p \in Projects, t \in Periods : Cost(p, t)' = Cost(p, t)
    BY <2>3 DEF Cost
  <2>7. ASSUME NEW p \in Projects, NEW t \in Periods
        PROVE  /\ billed'[p][t] > 0 => Settled(p, t)'
               /\ charged'[p][t] = billed'[p][t] * Cost(p, t)'
                    \/ <<p, t>> \in opened' \cup coarse'
    <3>1. CASE ~(p = r.project /\ t = r.period)
      BY <1>6, <2>4, <3>1
    <3>2. CASE p = r.project /\ t = r.period
      <4>1. Settled(p, t)'
        BY <1>5, <2>2, <3>2
      <4>2. CASE <<p, t>> \in opened \cup coarse
        BY <1>4, <4>1, <4>2
      <4>3. CASE <<p, t>> \notin opened \cup coarse
        <5>1. r.amount = Cost(p, t)
          BY <2>2, <3>2, <4>3 DEF Right
        <5>2. charged'[p][t] = billed[p][t] * Cost(p, t) + Cost(p, t)
          BY <1>2, <2>5, <3>2, <4>3, <5>1
        <5>3. billed'[p][t] * Cost(p, t)
                = billed[p][t] * Cost(p, t) + Cost(p, t)
          <6>1. billed[p][t] \in Nat /\ Cost(p, t) \in Nat
            BY <1>2
          <6>2. billed'[p][t] = billed[p][t] + 1
            BY <2>5, <3>2
          <6> QED
            BY <6>1, <6>2, OneMore
        <5> QED
          BY <2>6, <4>1, <5>2, <5>3
      <4> QED
        BY <4>2, <4>3
    <3> QED
      BY <3>1, <3>2
  <2> QED
    BY <2>7 DEF BilledWhenSettled, BilledInFull
<1> QED
  BY <1>7, <1>8, BooksStep

LEMMA FInvStep == FInv /\ [Next]_vars => FInv'
<1> SUFFICES ASSUME FInv, [Next]_vars
             PROVE  FInv'
  OBVIOUS
<1>1. TypeOK /\ TypeOK'
  BY TypeStep DEF FInv
<1>2. Grows /\ RatedFromBottom'
  BY <1>1, GrowsStep DEF FInv
<1>3. \A p \in Projects, t \in Periods :
        Settled(p, t) => /\ Settled(p, t)'
                         /\ \A a : Right(p, t, a) => Right(p, t, a)'
  BY <1>1, <1>2, RightStays
<1>4. JobsSettled'
  <2> SUFFICES ASSUME NEW w \in Processors, pc'[w] \in Billing,
                      NEW p, NEW t,
                      p = job'[w].project, t = job'[w].period
               PROVE  Settled(p, t)'
    BY DEF JobsSettled, Settled
  <2>1. CASE BeginPeriod(w)
    BY <1>1, <2>1, BegunIsSettled
  <2>2. CASE ~BeginPeriod(w)
    <3>1. pc[w] \in Billing /\ p = job[w].project /\ t = job[w].period
      BY <1>1, <2>2, WorkersStep DEF WorkerStep
    <3>2. p \in Projects /\ t \in Periods
      BY <1>1, <3>1, WorkerType DEF Working
    <3>3. Settled(p, t)
      BY <3>1 DEF FInv, JobsSettled
    <3> QED
      BY <1>3, <3>2, <3>3
  <2> QED
    BY <2>1, <2>2
<1>5. JobsRight'
  <2> SUFFICES ASSUME NEW w \in Processors, pc'[w] \in Priced,
                      NEW p, NEW t, NEW a,
                      p = job'[w].project, t = job'[w].period,
                      a = job'[w].amount
               PROVE  Right(p, t, a)'
    BY DEF JobsRight, Right, Cost
  <2>1. CASE Consume(w)
    BY <1>1, <2>1, ConsumedIsRight DEF FInv
  <2>2. CASE ~Consume(w)
    <3>1. /\ pc[w] \in Priced /\ pc[w] \in Billing
          /\ p = job[w].project /\ t = job[w].period /\ a = job[w].amount
      BY <1>1, <2>2, WorkersStep DEF WorkerStep, Priced
    <3>2. p \in Projects /\ t \in Periods
      BY <1>1, <3>1, WorkerType DEF Working
    <3>3. Settled(p, t) /\ Right(p, t, a)
      BY <3>1 DEF FInv, JobsSettled, JobsRight
    <3> QED
      BY <1>3, <3>2, <3>3
  <2> QED
    BY <2>1, <2>2
<1>6. RequestsRight'
  <2> SUFFICES ASSUME NEW r \in inflight', NEW p, NEW t, NEW a,
                      p = r.project, t = r.period, a = r.amount
               PROVE  Settled(p, t)' /\ Right(p, t, a)'
    BY DEF RequestsRight, Settled, Right, Cost
  <2>1. p \in Projects /\ t \in Periods
    BY <1>1 DEF TypeOK, Request
  <2>2. Settled(p, t) /\ Right(p, t, a)
    BY <1>1, RequestsStep
       DEF FInv, RequestsRight, JobsSettled, JobsRight, Priced
  <2> QED
    BY <1>3, <2>1, <2>2
<1>7. BilledWhenSettled' /\ BilledInFull'
  BY <1>1, <1>2, FullStep
<1> QED
  BY <1>1, <1>2, <1>4, <1>5, <1>6, <1>7 DEF FInv

(* Whatever fails, and whatever the locks do, a bill is for the final cost *)
(* of its period, unless the project was opened with it or it was priced   *)
(* by the day.                                                             *)
THEOREM PeriodsAreBilledInFull == Spec => []BilledInFull
<1>1. FInv => BilledInFull
  BY DEF FInv
<1> QED
  BY <1>1, InitFInv, FInvStep, PTL DEF Spec
=============================================================================
