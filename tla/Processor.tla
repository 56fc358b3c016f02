------------------------------ MODULE Processor ------------------------------
(***************************************************************************)
(* The processor service (shadowfiend/processor/service): every instance   *)
(* runs primary_period, which takes the rating projects one at a time      *)
(* under a distributed lock and bills the next period that cloudkitty has  *)
(* rated; the cursor of each project is kept in gnocchi, the bill goes to  *)
(* the conductor by RPC.                                                   *)
(*                                                                         *)
(* A period is an hour, numbered by its timestamp divided by               *)
(* cloudkitty_period; 0 is the missing timestamp.  One action is one call  *)
(* to another service, with the code up to the next one.                   *)
(***************************************************************************)
EXTENDS Integers

CONSTANTS
  Processors,   \* instances of the service
  Projects,     \* projects that may have rating enabled
  Free,         \* nobody holds the lock
  NoJob,        \* the instance is at no project
  Listings,     \* what get_rate_projects may answer, sets of projects
  Rank,         \* Rank[p]: place of p in the listing, ties in any order
  Unpayable,    \* projects that may lack a billing owner, or his account
  Debtors,      \* projects whose payer may be in debt beyond his grace period
  Services,     \* the resource types owed_action looks for (processor.services)
  Historical,   \* historical_expenses
  AllowOwe,     \* allow_owe_action
  LocksExpire,  \* the coordination driver drops locks that grow old
  Price,        \* Price[t]: what each project consumes in period t
  DayPrice,     \* DayPrice[t]: what it consumes in the day of period t
  MaxHour,      \* bound on the clock
  MaxFaults     \* bound on failures, timeouts and crashes

Periods == 1 .. MaxHour

Job == [project : Projects, period : 0 .. MaxHour, amount : Nat, attempt : Nat]
Request == [by : Processors, project : Projects, period : Periods,
            amount : Nat, attempt : Nat]

ASSUME ProcessorAssumption ==
  /\ Free \notin Processors
  /\ NoJob \notin Job
  /\ Listings \subseteq SUBSET Projects
  /\ Rank \in [Projects -> Nat]
  /\ Unpayable \subseteq Projects
  /\ Debtors \subseteq Projects
  /\ Services \cap Projects = {}
  /\ Historical \in BOOLEAN
  /\ AllowOwe \in BOOLEAN
  /\ LocksExpire \in BOOLEAN
  /\ MaxHour \in Nat \ {0}
  /\ MaxFaults \in Nat
  /\ Price \in [Periods -> Nat]
  /\ DayPrice \in [Periods -> Nat]

VARIABLES
  hour,      \* the current hour
  bottom,    \* first period cloudkitty has rated of each project, or 0
  top,       \* last period cloudkitty has rated, or is rating, or 0
  state,     \* the shadowfiend_state of each project in gnocchi, or 0
  lock,      \* who holds the lock of each project
  pc,        \* the call each instance makes next
  rest,      \* rate_projects: not yet up to date
  round,     \* projects still to visit in this pass over rate_projects
  job,       \* the worker of each instance
  inflight,  \* update_account requests the conductor has not served yet
  billed,    \* how often each period of each project has been billed
  charged,   \* the sum of those bills
  faults,    \* number of faults so far (bounds the model)
  start,     \* history: the period each cursor started from
  opened,    \* history: periods begun without a cursor
  coarse,    \* history: periods priced by the day
  aborted    \* history: runs of each period that ended after the request

gnocchi == <<bottom, top, state>>
books == <<billed, charged>>
history == <<start, opened, coarse, aborted>>
vars == <<hour, gnocchi, lock, pc, rest, round, job, inflight, books, faults,
          history>>

Billing == {"consume", "payer", "owe", "send", "wait", "state"}
Working == {"check", "release"} \cup Billing
Steps == {"idle", "pass", "visit"} \cup Working

At(w, p) == pc[w] \in Working /\ job[w].project = p

Init ==
  /\ hour = 1
  /\ bottom = [p \in Projects |-> 0]
  /\ top = [p \in Projects |-> 0]
  /\ state = [p \in Projects |-> 0]
  /\ lock = [p \in Projects |-> Free]
  /\ pc = [w \in Processors |-> "idle"]
  /\ rest = [w \in Processors |-> {}]
  /\ round = [w \in Processors |-> {}]
  /\ job = [w \in Processors |-> NoJob]
  /\ inflight = {}
  /\ billed = [p \in Projects |-> [t \in Periods |-> 0]]
  /\ charged = [p \in Projects |-> [t \in Periods |-> 0]]
  /\ faults = 0
  /\ start = [p \in Projects |-> 0]
  /\ opened = {}
  /\ coarse = {}
  /\ aborted = [p \in Projects |-> [t \in Periods |-> 0]]

-----------------------------------------------------------------------------
(* The surroundings: the clock, and cloudkitty, which rates the periods of *)
(* a project in order, from whichever it likes to start with, once they    *)
(* are over.                                                               *)
Tick ==
  /\ hour < MaxHour
  /\ hour' = hour + 1
  /\ UNCHANGED <<gnocchi, lock, pc, rest, round, job, inflight, books, faults,
                 history>>

Rate(p, t) ==
  /\ t < hour
  /\ top[p] = 0 \/ t = top[p] + 1
  /\ top' = [top EXCEPT ![p] = t]
  /\ bottom' = [bottom EXCEPT ![p] = IF @ = 0 THEN t ELSE @]
  /\ UNCHANGED <<hour, state, lock, pc, rest, round, job, inflight, books,
                 faults, history>>

(* What a project owes for a period once cloudkitty is through with it.    *)
Cost(p, t) == IF bottom[p] <= t THEN Price[t] ELSE 0

(* What the costs stored for a period add up to: those of the one that     *)
(* cloudkitty has reached may not all be there yet.                        *)
Stored(p, t) ==
  IF t < top[p] THEN {Cost(p, t)}
  ELSE IF t = top[p] THEN {0, Price[t]}
  ELSE {0}

-----------------------------------------------------------------------------
Fault ==
  /\ faults < MaxFaults
  /\ faults' = faults + 1

Continue(w, next) == pc' = [pc EXCEPT ![w] = next]

(* Mutant: the worker outlives the run.                                    *)
RaiseInWorker(w) ==
  /\ Continue(w, "idle")
  /\ rest' = [rest EXCEPT ![w] = {}]
  /\ round' = [round EXCEPT ![w] = {}]
  /\ UNCHANGED job

(* An exception ends primary_period; the release of the lock is skipped.   *)
Raise(w) ==
  /\ Continue(w, "idle")
  /\ rest' = [rest EXCEPT ![w] = {}]
  /\ round' = [round EXCEPT ![w] = {}]
  /\ job' = [job EXCEPT ![w] = NoJob]

(* A bill whose request has left, but whose period may not be recorded.    *)
Abort(w) ==
  /\ aborted' = IF pc[w] \in {"wait", "state"}
                THEN [aborted EXCEPT ![job[w].project][job[w].period] = @ + 1]
                ELSE aborted
  /\ UNCHANGED <<start, opened, coarse>>

-----------------------------------------------------------------------------
(* primary_period: the projects to bill, then passes over those that are   *)
(* not up to date until there are none.                                    *)
Fetch(w) ==
  /\ pc[w] = "idle"
  /\ \E listing \in Listings : rest' = [rest EXCEPT ![w] = listing]
  /\ Continue(w, "pass")
  /\ UNCHANGED <<hour, gnocchi, lock, round, job, inflight, books, faults,
                 history>>

StartPass(w) ==
  /\ pc[w] = "pass"
  /\ round' = [round EXCEPT ![w] = rest[w]]
  /\ Continue(w, IF rest[w] = {} THEN "idle" ELSE "visit")
  /\ UNCHANGED <<hour, gnocchi, lock, rest, job, inflight, books, faults,
                 history>>

EndPass(w) ==
  /\ pc[w] = "visit"
  /\ round[w] = {}
  /\ Continue(w, "pass")
  /\ UNCHANGED <<hour, gnocchi, lock, rest, round, job, inflight, books,
                 faults, history>>

(* Mutant: the lock is taken whoever holds it.                             *)
VisitAtOnce(w, p) ==
  /\ pc[w] = "visit"
  /\ p \in round[w]
  /\ \A q \in round[w] : Rank[p] <= Rank[q]
  /\ round' = [round EXCEPT ![w] = @ \ {p}]
  /\ lock' = [lock EXCEPT ![p] = w]
  /\ job' = [job EXCEPT ![w] = [project |-> p, period |-> 0,
                                amount |-> 0, attempt |-> 0]]
  /\ Continue(w, "check")
  /\ UNCHANGED <<hour, gnocchi, rest, inflight, books, faults, history>>

(* The next project of the pass; one that is locked is left for the next.  *)
Visit(w, p) ==
  /\ pc[w] = "visit"
  /\ p \in round[w]
  /\ \A q \in round[w] : Rank[p] <= Rank[q]
  /\ round' = [round EXCEPT ![w] = @ \ {p}]
  /\ \/ /\ lock[p] = Free
        /\ lock' = [lock EXCEPT ![p] = w]
        /\ job' = [job EXCEPT ![w] = [project |-> p, period |-> 0,
                                      amount |-> 0, attempt |-> 0]]
        /\ Continue(w, "check")
     \/ /\ lock[p] # Free
        /\ UNCHANGED <<lock, job, pc>>
  /\ UNCHANGED <<hour, gnocchi, rest, inflight, books, faults, history>>

(* Mutant: the period that cloudkitty has reached counts as rated.         *)
ReachedPeriod(p) ==
  LET last == IF state[p] = 0 THEN bottom[p] ELSE state[p]
  IN IF state[p] = 0 /\ ~Historical THEN hour
     ELSE IF last + 1 <= top[p] THEN last + 1
     ELSE 0

(* Mutants: the backlog is passed over; the last complete period waits.    *)
LatestPeriod(p) ==
  LET last == IF state[p] = 0 THEN bottom[p] ELSE state[p]
  IN IF state[p] = 0 /\ ~Historical THEN hour
     ELSE IF last + 1 < top[p] THEN top[p] - 1
     ELSE 0
LatePeriod(p) ==
  LET last == IF state[p] = 0 THEN bottom[p] ELSE state[p]
  IN IF state[p] = 0 /\ ~Historical THEN hour
     ELSE IF last + 2 < top[p] THEN last + 1
     ELSE 0

(* _check_state: the period to bill, 0 when there is none.                 *)
PeriodToBill(p) ==
  LET last == IF state[p] = 0 THEN bottom[p] ELSE state[p]
  IN IF state[p] = 0 /\ ~Historical THEN hour
     ELSE IF last + 1 < top[p] THEN last + 1
     ELSE 0

(* With no state of either service there is nothing to add a period to.    *)
NothingRated(p) == state[p] = 0 /\ Historical /\ bottom[p] = 0

UpToDate(w) ==
  LET p == job[w].project IN
  /\ pc[w] = "check"
  /\ ~NothingRated(p)
  /\ PeriodToBill(p) = 0
  /\ rest' = [rest EXCEPT ![w] = @ \ {p}]
  /\ Continue(w, "release")
  /\ UNCHANGED <<hour, gnocchi, lock, round, job, inflight, books, faults,
                 history>>

BeginPeriod(w) ==
  LET p == job[w].project
      t == PeriodToBill(p)
  IN /\ pc[w] = "check"
     /\ ~NothingRated(p)
     /\ t # 0
     /\ job' = [job EXCEPT ![w].period = t]
     /\ opened' = IF state[p] = 0 /\ ~Historical
                  THEN opened \cup {<<p, t>>} ELSE opened
     /\ Continue(w, "consume")
     /\ UNCHANGED <<hour, gnocchi, lock, rest, round, inflight, books, faults,
                    start, coarse, aborted>>

FailToCheck(w) ==
  /\ pc[w] = "check"
  /\ NothingRated(job[w].project)
  /\ Raise(w)
  /\ UNCHANGED <<hour, gnocchi, lock, inflight, books, faults, history>>

-----------------------------------------------------------------------------
(* Worker.run.  get_current_consume asks for the period, and for the day   *)
(* of it when that query fails.                                            *)
Consume(w) ==
  LET p == job[w].project
      t == job[w].period
  IN /\ pc[w] = "consume"
     /\ \/ /\ \E c \in Stored(p, t) : job' = [job EXCEPT ![w].amount = c]
           /\ UNCHANGED <<faults, coarse>>
        \/ /\ Fault
           /\ job' = [job EXCEPT ![w].amount = DayPrice[t]]
           /\ coarse' = coarse \cup {<<p, t>>}
     /\ Continue(w, "payer")
     /\ UNCHANGED <<hour, gnocchi, lock, rest, round, inflight, books, start,
                    opened, aborted>>

(* get_rate_user and get_account.                                          *)
GetPayer(w) ==
  LET p == job[w].project IN
  /\ pc[w] = "payer"
  /\ \/ /\ p \in Unpayable
        /\ Raise(w)
     \/ /\ AllowOwe
        /\ p \in Debtors
        /\ Continue(w, "owe")
        /\ UNCHANGED <<rest, round, job>>
     \/ /\ Continue(w, "send")
        /\ UNCHANGED <<rest, round, job>>
  /\ UNCHANGED <<hour, gnocchi, lock, inflight, books, faults, history>>

(* GnocchiFetcher.get_resources searches the type its second argument      *)
(* names, and does not return when gnocchi has no such type.               *)
FindsResources(project_id, service) == service \in Services

(* owed_action gives its arguments the other way round.                    *)
OwedAction(w) ==
  /\ pc[w] = "owe"
  /\ \/ /\ \A s \in Services : FindsResources(s, job[w].project)
        /\ Continue(w, "send")
        /\ UNCHANGED <<rest, round, job>>
     \/ /\ ~\A s \in Services : FindsResources(s, job[w].project)
        /\ Raise(w)
  /\ UNCHANGED <<hour, gnocchi, lock, inflight, books, faults, history>>

(* Mutant: the cursor is moved before the bill is sent.                    *)
SendAfterState(w) ==
  LET p == job[w].project
      t == job[w].period
  IN /\ pc[w] = "send"
     /\ job' = [job EXCEPT ![w].attempt = aborted[p][t]]
     /\ inflight' = inflight \cup
          {[by |-> w, project |-> p, period |-> t, amount |-> job[w].amount,
            attempt |-> aborted[p][t]]}
     /\ state' = [state EXCEPT ![p] = IF @ < t THEN t ELSE @]
     /\ start' = [start EXCEPT ![p] = IF @ = 0 THEN t ELSE @]
     /\ Continue(w, "wait")
     /\ UNCHANGED <<hour, bottom, top, lock, rest, round, books, faults,
                    opened, coarse, aborted>>

(* The RPC call to the conductor; history tells the runs of a period apart.*)
Send(w) ==
  LET p == job[w].project
      t == job[w].period
  IN /\ pc[w] = "send"
     /\ job' = [job EXCEPT ![w].attempt = aborted[p][t]]
     /\ inflight' = inflight \cup
          {[by |-> w, project |-> p, period |-> t, amount |-> job[w].amount,
            attempt |-> aborted[p][t]]}
     /\ Continue(w, "wait")
     /\ UNCHANGED <<hour, gnocchi, lock, rest, round, books, faults, history>>

(* Mutant: the last writer moves the cursor, forth or back.                *)
SetStateBack(w) ==
  LET p == job[w].project
      t == job[w].period
  IN /\ pc[w] = "state"
     /\ state' = [state EXCEPT ![p] = t]
     /\ start' = [start EXCEPT ![p] = IF @ = 0 THEN t ELSE @]
     /\ Continue(w, "release")
     /\ UNCHANGED <<hour, bottom, top, lock, rest, round, job, inflight,
                    books, faults, opened, coarse, aborted>>

(* set_state adds a measure at the period; the newest one is the cursor.   *)
SetState(w) ==
  LET p == job[w].project
      t == job[w].period
  IN /\ pc[w] = "state"
     /\ state' = [state EXCEPT ![p] = IF @ < t THEN t ELSE @]
     /\ start' = [start EXCEPT ![p] = IF @ = 0 THEN t ELSE @]
     /\ Continue(w, "release")
     /\ UNCHANGED <<hour, bottom, top, lock, rest, round, job, inflight,
                    books, faults, opened, coarse, aborted>>

Release(w) ==
  LET p == job[w].project IN
  /\ pc[w] = "release"
  /\ lock' = [lock EXCEPT ![p] = IF @ = w THEN Free ELSE @]
  /\ job' = [job EXCEPT ![w] = NoJob]
  /\ Continue(w, "visit")
  /\ UNCHANGED <<hour, gnocchi, rest, round, inflight, books, faults, history>>

-----------------------------------------------------------------------------
(* The conductor: it bills a request once, and answers if the instance     *)
(* still waits; or the request is lost or refused.                         *)
Waits(w, r) ==
  /\ pc[w] = "wait"
  /\ r = [by |-> w, project |-> job[w].project, period |-> job[w].period,
          amount |-> job[w].amount, attempt |-> job[w].attempt]

UpdateAccount(r) ==
  /\ inflight' = inflight \ {r}
  /\ billed' = [billed EXCEPT ![r.project][r.period] = @ + 1]
  /\ charged' = [charged EXCEPT ![r.project][r.period] = @ + r.amount]
  /\ pc' = IF Waits(r.by, r) THEN [pc EXCEPT ![r.by] = "state"] ELSE pc
  /\ UNCHANGED <<hour, gnocchi, lock, rest, round, job, faults, history>>

Refuse(r) ==
  /\ Fault
  /\ inflight' = inflight \ {r}
  /\ \/ /\ Waits(r.by, r)
        /\ Raise(r.by)
     \/ /\ ~Waits(r.by, r)
        /\ UNCHANGED <<pc, rest, round, job>>
  /\ UNCHANGED <<hour, gnocchi, lock, books, history>>

-----------------------------------------------------------------------------
(* Failures.  A call to gnocchi, keystone or the coordinator fails, or the *)
(* answer of the conductor does not come in time: the request may still be *)
(* served.                                                                 *)
Fail(w) ==
  /\ Fault
  /\ pc[w] \in ({"visit"} \cup Working) \ {"send"}
  /\ Raise(w)
  /\ Abort(w)
  /\ UNCHANGED <<hour, gnocchi, lock, inflight, books>>

(* The process dies and is started again: its locks go with it.            *)
Crash(w) ==
  /\ Fault
  /\ pc[w] # "idle"
  /\ Raise(w)
  /\ Abort(w)
  /\ lock' = [p \in Projects |-> IF lock[p] = w THEN Free ELSE lock[p]]
  /\ UNCHANGED <<hour, gnocchi, inflight, books>>

(* A lock that was not released is garbage collected.                      *)
Reclaim(p) ==
  /\ lock[p] # Free
  /\ ~At(lock[p], p)
  /\ lock' = [lock EXCEPT ![p] = Free]
  /\ UNCHANGED <<hour, gnocchi, pc, rest, round, job, inflight, books, faults,
                 history>>

(* A driver that times its locks out drops one in use.                     *)
Expire(p) ==
  /\ LocksExpire
  /\ Fault
  /\ lock[p] # Free
  /\ lock' = [lock EXCEPT ![p] = Free]
  /\ UNCHANGED <<hour, gnocchi, pc, rest, round, job, inflight, books, history>>

Step(w) ==
  \/ Fetch(w) \/ StartPass(w) \/ EndPass(w)
  \/ \E p \in Projects : Visit(w, p)
  \/ UpToDate(w) \/ BeginPeriod(w) \/ FailToCheck(w)
  \/ Consume(w) \/ GetPayer(w) \/ OwedAction(w) \/ Send(w)
  \/ SetState(w) \/ Release(w)

Next ==
  \/ Tick
  \/ \E p \in Projects, t \in Periods : Rate(p, t)
  \/ \E w \in Processors : Step(w) \/ Fail(w) \/ Crash(w)
  \/ \E r \in inflight : UpdateAccount(r) \/ Refuse(r)
  \/ \E p \in Projects : Reclaim(p) \/ Expire(p)

Spec == Init /\ [][Next]_vars

(* An instance goes on to its next call; the conductor serves what it got; *)
(* an abandoned lock is collected.  Clock and cloudkitty owe nothing.      *)
Fairness ==
  /\ \A w \in Processors : WF_vars(Step(w))
  /\ WF_vars(\E r \in inflight : UpdateAccount(r))
  /\ \A p \in Projects : WF_vars(Reclaim(p))
FairSpec == Spec /\ Fairness
-----------------------------------------------------------------------------
(* Every variable has its type; an instance has a worker exactly while it  *)
(* holds a project, and the worker a period once it has been given one.    *)
TypeOK ==
  /\ hour \in 1 .. MaxHour
  /\ bottom \in [Projects -> 0 .. MaxHour]
  /\ top \in [Projects -> 0 .. MaxHour]
  /\ state \in [Projects -> 0 .. MaxHour]
  /\ lock \in [Projects -> Processors \cup {Free}]
  /\ pc \in [Processors -> Steps]
  /\ rest \in [Processors -> SUBSET Projects]
  /\ round \in [Processors -> SUBSET Projects]
  /\ job \in [Processors -> Job \cup {NoJob}]
  /\ \A w \in Processors :
       /\ pc[w] \in Working <=> job[w] # NoJob
       /\ pc[w] \in Billing => job[w].period \in Periods
  /\ inflight \subseteq Request
  /\ billed \in [Projects -> [Periods -> Nat]]
  /\ charged \in [Projects -> [Periods -> Nat]]
  /\ faults \in 0 .. MaxFaults
  /\ start \in [Projects -> 0 .. MaxHour]
  /\ opened \subseteq Projects \X Periods
  /\ coarse \subseteq Projects \X Periods
  /\ aborted \in [Projects -> [Periods -> Nat]]

(* The cursor leaves no gap: every period from the one it started at has   *)
(* been billed, whatever crashed or timed out on the way (the bill is sent *)
(* before set_state).                                                      *)
NoPeriodSkipped ==
  \A p \in Projects, t \in Periods :
    start[p] <= t /\ t <= state[p] => billed[p][t] > 0

(* A period is billed twice only by a run that follows an interrupted one: *)
(* the lock keeps the instances apart, and the cursor is read under it.    *)
BilledOnce ==
  \A p \in Projects, t \in Periods : billed[p][t] <= 1 + aborted[p][t]

(* A bill is for the whole period, cloudkitty having finished with it;     *)
(* only the period a project is opened with, and one priced by the day     *)
(* because gnocchi failed, may be billed at anything else.                 *)
BilledInFull ==
  \A p \in Projects, t \in Periods :
    \/ charged[p][t] = billed[p][t] * Cost(p, t)
    \/ <<p, t>> \in opened \cup coarse

(* The owe logic gets through a debtor's resources.  False: every search   *)
(* fails, and with it the run.                                             *)
OwedActionReturns ==
  [][\A w \in Processors : pc[w] = "owe" => pc'[w] \in {"owe", "send"}]_vars

(* A project nothing fails for, and before which nothing fails.            *)
Reached(p) ==
  /\ \A listing \in Listings : p \in listing
  /\ \A q \in Unpayable : Rank[p] < Rank[q]
  /\ AllowOwe /\ Services # {} => \A q \in Debtors : Rank[p] < Rank[q]

(* Every period from the first is billed once cloudkitty has gone past it, *)
(* in spite of leaked locks, competing instances and lost answers.         *)
RatedPeriodsAreBilled ==
  \A p \in Projects, t \in Periods :
    Reached(p) =>
      ((start[p] # 0 /\ start[p] <= t /\ t < top[p]) ~> billed[p][t] > 0)

TheMetering == INSTANCE Metering WITH cursor <- state, bills <- billed

(* The cursors in gnocchi and the bills in the database behave as Metering *)
(* says.                                                                   *)
ImplementsMetering == TheMetering!Spec
=============================================================================
