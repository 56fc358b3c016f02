-------------------------------- MODULE Bills --------------------------------
(***************************************************************************)
(* What shadowfiend reads back from gnocchi for a user: the bills of a     *)
(* service, page by page (GnocchiFetcher.get_bills), the summary over the  *)
(* services (get_summary) and the report of all resources with their       *)
(* prices (api/controllers/v1/report.py).  Each takes many queries, while  *)
(* resources come, change and go and their costs grow.  A reader makes one *)
(* request at a time; requests share nothing, so one reader is modelled.   *)
(***************************************************************************)
EXTENDS Integers, SequencesExt

CONSTANTS
  Ids,         \* resources that the query asks for
  NoId,        \* no marker
  Kind,        \* resource_mappings: the type of gnocchi for each service
  Services,    \* CONF.processor.services
  ServiceOf,   \* what each resource is in truth
  Limits,      \* page sizes that are asked for, 0 for none
  MaxCost,     \* bound on the cost of a resource
  MaxChanges,  \* bound on what happens to resources
  MaxFaults    \* bound on failed queries

Names == DOMAIN Kind
Kinds == {Kind[s] : s \in Names}

ASSUME BillsAssumption ==
  /\ IsFiniteSet(Ids)
  /\ NoId \notin Ids
  /\ "none" \notin Names
  /\ Services \subseteq Names
  /\ "generic" \notin Services
  /\ ServiceOf \in [Ids -> Names]
  /\ Limits \subseteq Nat
  /\ MaxCost \in Nat
  /\ MaxChanges \in Nat
  /\ MaxFaults \in Nat

VARIABLES
  resources,  \* of gnocchi, in the order of a search
  fresh,      \* resources that have not been created
  measured,   \* those with measures of their service's own metric
  cost,       \* the sum of the measures of total.cost, 0 if there are none
  pc,         \* what the reader waits for
  answer,     \* what its last request came to
  service, limit, marker,  \* arguments of get_bills
  found,      \* the resources not looked at yet
  kept,       \* those that were, with their prices
  page,       \* the page that was returned
  pending,    \* queries still to be made for a summary or a report
  totals,     \* of a summary
  changes,    \* number of changes (bounds the model)
  faults,     \* number of failed queries (bounds the model)
  low,        \* history: costs when the request began
  gone,       \* history: resources deleted since then
  seen,       \* history: resources on pages of the walk
  passed,     \* history: those it has dropped, and the first one it skips
  touched,    \* history: resources updated since the search for the page
  moved,      \* history: resources updated since the walk began
  lost        \* history: the marker had been updated when it was used

gnocchi == <<resources, fresh, measured, cost>>
arguments == <<service, limit, marker>>
reading == <<pc, answer, arguments, found, kept, page, pending, totals>>
walk == <<seen, passed, touched, moved, lost>>
vars == <<gnocchi, reading, changes, faults, low, gone, walk>>

NoPage == [orders |-> <<>>, next |-> FALSE, marker |-> NoId]

Init ==
  /\ resources \in UNION {SetToSeqs(S) : S \in SUBSET Ids}
  /\ fresh = Ids \ ToSet(resources)
  /\ measured = ToSet(resources)
  /\ \E c \in 0 .. MaxCost :
       cost = [r \in Ids |-> IF r \in measured THEN c ELSE 0]
  /\ pc = "idle"
  /\ answer = "none"
  /\ service = "none"
  /\ limit = 0
  /\ marker = NoId
  /\ found = <<>>
  /\ kept = <<>>
  /\ page = NoPage
  /\ pending = {}
  /\ totals = [s \in Services \cup {"generic"} |-> 0]
  /\ changes = 0
  /\ faults = 0
  /\ low = cost
  /\ gone = {}
  /\ seen = {}
  /\ passed = {}
  /\ touched = {}
  /\ moved = {}
  /\ lost = FALSE

Fault ==
  /\ faults < MaxFaults
  /\ faults' = faults + 1

-----------------------------------------------------------------------------
(* The members of S in q, in their order.                                  *)
Chosen(q, S) ==
  LET upto[i \in 0 .. Len(q)] ==
        IF i = 0 THEN <<>>
        ELSE IF q[i] \in S THEN Append(upto[i - 1], q[i])
        ELSE upto[i - 1]
  IN upto[Len(q)]

OfKind(k) == {r \in Ids : Kind[ServiceOf[r]] = k}

(* Gnocchi and cloudkitty.  A search returns resources by the time of      *)
(* their last revision: what is new or updated comes last.                 *)

Change ==
  /\ changes < MaxChanges
  /\ changes' = changes + 1
  /\ UNCHANGED <<reading, faults, low>>

Create(r) ==
  /\ r \in fresh
  /\ fresh' = fresh \ {r}
  /\ resources' = Append(resources, r)
  /\ Change
  /\ UNCHANGED <<measured, cost, gone, walk>>

Touch(r) ==
  /\ r \in ToSet(resources)
  /\ resources' = Append(Chosen(resources, Ids \ {r}), r)
  /\ LET news == IF service = "none" THEN {} ELSE {r} IN
       /\ touched' = touched \cup news
       /\ moved' = moved \cup news
  /\ Change
  /\ UNCHANGED <<fresh, measured, cost, gone, seen, passed, lost>>

Delete(r) ==
  /\ r \in ToSet(resources)
  /\ resources' = Chosen(resources, Ids \ {r})
  /\ measured' = measured \ {r}
  /\ cost' = [cost EXCEPT ![r] = 0]
  /\ gone' = gone \cup {r}
  /\ Change
  /\ UNCHANGED <<fresh, walk>>

Measure(r) ==
  /\ r \in ToSet(resources) \ measured
  /\ measured' = measured \cup {r}
  /\ Change
  /\ UNCHANGED <<resources, fresh, cost, gone, walk>>

(* Cloudkitty rates the measures.                                          *)
Charge(r) ==
  /\ r \in measured
  /\ cost[r] < MaxCost
  /\ cost' = [cost EXCEPT ![r] = @ + 1]
  /\ Change
  /\ UNCHANGED <<resources, fresh, measured, gone, walk>>

-----------------------------------------------------------------------------
(* A request begins, and ends.                                             *)

NoTotals == [s \in Services \cup {"generic"} |-> 0]

Request(next) ==
  /\ pc = "idle"
  /\ pc' = next
  /\ kept' = <<>>
  /\ page' = NoPage
  /\ totals' = NoTotals
  /\ gone' = {}
  /\ UNCHANGED <<gnocchi, changes, faults>>

Reply(what) ==
  /\ pc' = "idle"
  /\ answer' = what

(* No walk through bills is under way, or not any more.                    *)
NoWalk ==
  /\ service' = "none" /\ limit' = 0 /\ marker' = NoId
  /\ found' = <<>>
  /\ seen' = {} /\ passed' = {} /\ touched' = {} /\ moved' = {}
  /\ lost' = FALSE

Fail(how) ==
  /\ Reply(how)
  /\ NoWalk
  /\ kept' = <<>>
  /\ pending' = {}
  /\ totals' = NoTotals
  /\ UNCHANGED page

Asked == <<gnocchi, changes, low, gone>>

-----------------------------------------------------------------------------
(* get_bills.                                                              *)

Search(s, n, m) ==
  LET all == Chosen(resources, OfKind(Kind[s])) IN
  /\ service' = s /\ limit' = n /\ marker' = m
  /\ found' = all
  /\ touched' = {}
  /\ low' = [r \in Ids |-> 0]
  /\ UNCHANGED pending
  /\ \/ /\ all = <<>>
        /\ Request("idle")
        /\ answer' = "bills"
     \/ /\ all # <<>>
        /\ Request("weigh")
        /\ answer' = "none"

Bills(s, n) ==
  /\ Search(s, n, NoId)
  /\ seen' = {} /\ passed' = {} /\ moved' = {} /\ lost' = FALSE

(* The reader asks for what comes after the page it has.                   *)
NextPage ==
  /\ page.next
  /\ Search(service, limit, page.marker)
  /\ lost' = (lost \/ page.marker \in touched)
  /\ UNCHANGED <<seen, passed, moved>>

(* Services that share a type of gnocchi are told apart by their metrics.  *)
Shared(s) == \E q \in Names \ {s} : Kind[q] = Kind[s]
Belongs(r, s) == Shared(s) => ServiceOf[r] = s /\ r \in measured

(* Mutant: a price that cannot be had is left out.                         *)
KeepIfPriced(r, price) ==
  kept' = Append(kept, [id |-> r, price |-> IF price = 0 THEN -1 ELSE price])

Keep(r, price) == kept' = Append(kept, [id |-> r, price |-> price])

(* The next of the resources found.  A price that cannot be had counts as  *)
(* 0; the metric of the service is asked for outside of the try.           *)
Weigh ==
  LET r == Head(found)
      there == r \in ToSet(resources)
  IN
  /\ pc = "weigh" /\ found # <<>>
  /\ \/ /\ \/ there /\ Belongs(r, service) /\ Keep(r, cost[r]) /\ UNCHANGED faults
           \/ there /\ Belongs(r, service) /\ Keep(r, 0) /\ Fault
           \/ ~there /\ ~Shared(service) /\ Keep(r, 0) /\ UNCHANGED faults
        /\ found' = Tail(found)
        /\ UNCHANGED <<pc, answer, arguments, pending, totals, walk>>
     \/ /\ there /\ ~Belongs(r, service)
        /\ passed' = passed \cup {r}
        /\ found' = Tail(found)
        /\ UNCHANGED <<pc, answer, arguments, kept, pending, totals, faults,
                       seen, touched, moved, lost>>
     \/ /\ Shared(service)
        /\ \/ ~there /\ UNCHANGED faults
           \/ Fault
        /\ Fail("failed")
  /\ UNCHANGED <<Asked, page>>

(* Mutants of _pagination: the page begins with the marker; the marker is  *)
(* the resource after the page; a page has one resource too many.          *)
LookAtMarker(rs, n, st, i) ==
  IF st.next THEN st
  ELSE IF Len(st.result) = n
       THEN [st EXCEPT !.next = TRUE, !.last = rs[i - 1].id]
  ELSE IF ~st.hit /\ st.marker \in {rs[i].id, NoId}
       THEN [st EXCEPT !.hit = TRUE, !.start = i + 1,
                       !.result = <<rs[i]>>]
  ELSE IF i = st.start
       THEN [st EXCEPT !.result = Append(@, rs[i]), !.start = i + 1]
  ELSE st

LookBeyond(rs, n, st, i) ==
  IF st.next THEN st
  ELSE IF Len(st.result) = n
       THEN [st EXCEPT !.next = TRUE, !.last = rs[i].id]
  ELSE IF ~st.hit /\ st.marker \in {rs[i].id, NoId}
       THEN [st EXCEPT !.hit = TRUE, !.start = i + 1]
  ELSE IF i = st.start
       THEN [st EXCEPT !.result = Append(@, rs[i]), !.start = i + 1]
  ELSE st

LookTooLong(rs, n, st, i) ==
  IF st.next THEN st
  ELSE IF Len(st.result) > n
       THEN [st EXCEPT !.next = TRUE, !.last = rs[i - 1].id]
  ELSE IF ~st.hit /\ st.marker \in {rs[i].id, NoId}
       THEN [st EXCEPT !.hit = TRUE, !.start = i + 1]
  ELSE IF i = st.start
       THEN [st EXCEPT !.result = Append(@, rs[i]), !.start = i + 1]
  ELSE st

(* What the loop of _pagination does with the i-th resource: it returns at *)
(* the first one after a full page.                                        *)
Look(rs, n, st, i) ==
  IF st.next THEN st
  ELSE IF Len(st.result) = n
       THEN [st EXCEPT !.next = TRUE, !.last = rs[i - 1].id]
  ELSE IF ~st.hit /\ st.marker \in {rs[i].id, NoId}
       THEN [st EXCEPT !.hit = TRUE, !.start = i + 1]
  ELSE IF i = st.start
       THEN [st EXCEPT !.result = Append(@, rs[i]), !.start = i + 1]
  ELSE st

Loop(rs, n, m) ==
  LET upto[i \in 0 .. Len(rs)] ==
        IF i = 0
        THEN [result |-> <<>>, start |-> 0, hit |-> FALSE, marker |-> m,
              next |-> FALSE, last |-> NoId]
        ELSE Look(rs, n, upto[i - 1], i)
  IN upto[Len(rs)]

(* The result of a loop that ends without returning cannot be taken apart. *)
Paginate ==
  LET end == Loop(kept, limit, marker) IN
  /\ pc = "weigh" /\ found = <<>>
  /\ \/ /\ limit > 0 /\ Len(kept) <= limit
        /\ page' = [orders |-> kept, next |-> FALSE, marker |-> marker]
        /\ Reply("bills")
        /\ NoWalk
        /\ UNCHANGED <<kept, pending, totals>>
     \/ /\ limit > 0 /\ Len(kept) > limit /\ end.next
        /\ page' = [orders |-> end.result, next |-> TRUE, marker |-> end.last]
        /\ Reply("bills")
        /\ seen' = seen \cup {o.id : o \in ToSet(end.result)}
        /\ passed' = IF marker = NoId THEN passed \cup {kept[1].id} ELSE passed
        /\ UNCHANGED <<arguments, found, kept, pending, totals, touched, moved,
                       lost>>
     \/ /\ limit > 0 => Len(kept) > limit /\ ~end.next
        /\ Fail("failed")
  /\ UNCHANGED <<Asked, faults>>

-----------------------------------------------------------------------------
(* get_summary.                                                            *)

Of(kind) == OfKind(kind) \cap ToSet(resources)

Summary ==
  /\ Request("sum")
  /\ answer' = "none"
  /\ pending' = Services
  /\ low' = cost
  /\ NoWalk

Add(s) ==
  /\ pc = "sum" /\ s \in pending
  /\ totals' = [totals EXCEPT ![s] = SumFunctionOnSet(cost, Of(Kind[s]))]
  /\ pending' = pending \ {s}
  /\ UNCHANGED <<Asked, pc, answer, arguments, found, kept, page, faults, walk>>

AddGeneric ==
  /\ pc = "sum" /\ pending = {}
  /\ totals' = [totals EXCEPT !["generic"] =
                  SumFunctionOnSet(cost, ToSet(resources))]
  /\ Reply("summary")
  /\ UNCHANGED <<Asked, arguments, found, kept, page, pending, faults, walk>>

(* Mutant: a service that cannot be summed up has cost nothing.            *)
LeaveOut ==
  /\ pc = "sum" /\ Fault
  /\ \E s \in pending : /\ totals' = [totals EXCEPT ![s] = 0]
                        /\ pending' = pending \ {s}
  /\ UNCHANGED <<Asked, pc, answer, arguments, found, kept, page, walk>>

(* A query fails, and the caller gets nothing at all.                      *)
FailToAdd ==
  /\ pc = "sum"
  /\ Fault
  /\ Fail("nothing")
  /\ UNCHANGED Asked

-----------------------------------------------------------------------------
(* The report.                                                             *)

Report ==
  /\ Request("collect")
  /\ answer' = "none"
  /\ pending' = Kinds
  /\ low' = cost
  /\ NoWalk

(* get_resources.  Only resources that have the metric total.cost matter.  *)
Collect(k) ==
  /\ pc = "collect" /\ k \in pending
  /\ found' = found \o Chosen(resources, {r \in OfKind(k) : cost[r] > 0})
  /\ pending' = pending \ {k}
  /\ UNCHANGED <<Asked, pc, answer, arguments, kept, page, totals, faults, walk>>

(* Mutant: no list of resources is an empty one.                           *)
CollectNone ==
  /\ pc = "collect" /\ Fault
  /\ \E k \in pending : pending' = pending \ {k}
  /\ UNCHANGED <<Asked, pc, answer, arguments, found, kept, page, totals, walk>>

(* None is no list, and where nothing is returned the variable is unbound. *)
FailToCollect ==
  /\ pc = "collect" /\ pending # {}
  /\ Fault
  /\ Fail("failed")
  /\ UNCHANGED Asked

(* get_resource_price.                                                     *)
Price ==
  LET r == Head(found) IN
  /\ pc = "collect" /\ pending = {} /\ found # <<>>
  /\ \/ /\ r \in ToSet(resources)
        /\ Keep(r, cost[r])
        /\ found' = Tail(found)
        /\ UNCHANGED <<pc, answer, arguments, pending, totals, faults, walk>>
     \/ /\ \/ r \notin ToSet(resources) /\ UNCHANGED faults
           \/ Fault
        /\ Fail("failed")
  /\ UNCHANGED <<Asked, page>>

Export ==
  /\ pc = "collect" /\ pending = {} /\ found = <<>>
  /\ Reply("report")
  /\ UNCHANGED <<Asked, arguments, found, kept, page, pending, totals, faults,
                 walk>>

-----------------------------------------------------------------------------
Next ==
  \/ \E r \in Ids : Create(r) \/ Touch(r) \/ Delete(r) \/ Measure(r) \/ Charge(r)
  \/ \E s \in Names, n \in Limits : Bills(s, n)
  \/ NextPage \/ Weigh \/ Paginate
  \/ Summary \/ (\E s \in Services : Add(s)) \/ AddGeneric \/ FailToAdd
  \/ Report \/ (\E k \in Kinds : Collect(k)) \/ FailToCollect \/ Price \/ Export

Spec == Init /\ [][Next]_vars

-----------------------------------------------------------------------------
Priced == [id : Ids, price : 0 .. MaxCost]
Injective(q) == \A i, j \in DOMAIN q : q[i] = q[j] => i = j

(* The variables have the types that their comments say.                   *)
TypeOK ==
  /\ resources \in Seq(Ids) /\ Injective(resources)
  /\ fresh \subseteq Ids \ ToSet(resources)
  /\ measured \subseteq ToSet(resources)
  /\ cost \in [Ids -> 0 .. MaxCost]
  /\ pc \in {"idle", "weigh", "sum", "collect"}
  /\ answer \in {"none", "bills", "summary", "nothing", "report", "failed"}
  /\ service \in Names \cup {"none"}
  /\ limit \in Limits \cup {0}
  /\ marker \in Ids \cup {NoId}
  /\ found \in Seq(Ids)
  /\ kept \in Seq(Priced)
  /\ page \in [orders : Seq(Priced), next : BOOLEAN, marker : Ids \cup {NoId}]
  /\ pending \subseteq Services \cup Kinds
  /\ totals \in [Services \cup {"generic"} -> Nat]
  /\ changes \in 0 .. MaxChanges
  /\ faults \in 0 .. MaxFaults
  /\ low \in [Ids -> 0 .. MaxCost]
  /\ gone \subseteq Ids
  /\ seen \subseteq Ids
  /\ passed \subseteq Ids
  /\ touched \subseteq moved
  /\ moved \subseteq Ids
  /\ lost \in BOOLEAN

(* The loop of _pagination (fetcher.py:291), with an index and a marker    *)
(* that both change under way, cuts out a slice: a page that has a next    *)
(* one is what follows the marker, without a marker what follows the first *)
(* resource, it is full, ends with the new marker, and something follows.  *)
PageIsSlice ==
  page.next =>
    \E m \in DOMAIN kept :
      /\ IF marker = NoId THEN m = 1 ELSE kept[m].id = marker
      /\ m + limit < Len(kept)
      /\ page.orders = SubSeq(kept, m + 1, m + limit)
      /\ page.marker = kept[m + limit].id

Preceding(r) ==
  LET at == CHOOSE i \in DOMAIN resources : resources[i] = r IN
  {resources[i] : i \in 1 .. at - 1}

(* A client that walks through the bills of a service by the marker, while *)
(* resources are created, updated and deleted, passes over none: what now  *)
(* precedes the marker in gnocchi has been on a page, or was dropped for   *)
(* want of measures, or is the very first one.  Only a marker that is      *)
(* itself updated (and thereby moves to the end) breaks the walk.          *)
NothingPassedOver ==
  page.next /\ ~lost /\ page.marker \notin touched \cup gone =>
    Preceding(page.marker) \cap Of(Kind[service]) \subseteq seen \cup passed

(* A new page shows what the walk has shown before only if it was updated. *)
ShownOnce ==
  page'.next /\ ~page.next =>
    {o.id : o \in ToSet(page'.orders)} \cap seen \subseteq moved

(* As long as there is a next page, a walk shows no resource a second time *)
(* that has not been updated since it began.                               *)
NothingShownTwice == [][ShownOnce]_vars

(* The total of a service is that of some moment of the request, and as    *)
(* the generic total is read last (fetcher.py:270) none exceeds it, however*)
(* costs grow in between; a query that fails spoils the summary as a whole *)
(* and never leaves a sum too small.  Nothing is deleted meanwhile.        *)
SummaryAddsUp ==
  answer = "summary" /\ gone = {} =>
    /\ \A s \in Services :
         /\ SumFunctionOnSet(low, OfKind(Kind[s])) <= totals[s]
         /\ totals[s] <= totals["generic"]
    /\ totals["generic"] <= SumFunctionOnSet(cost, Ids)

(* A report that is delivered is whole: whatever had a cost when it was    *)
(* asked for, of any type, and has not been deleted, is in it once, at a   *)
(* price between its cost then and its cost now.  A type or a price that   *)
(* cannot be had fails the report (report.py:183, 187).                    *)
ReportIsWhole ==
  answer = "report" =>
    /\ \A i, j \in DOMAIN kept : kept[i].id = kept[j].id => i = j
    /\ \A r \in Ids \ gone : low[r] > 0 =>
         \E row \in ToSet(kept) :
           row.id = r /\ low[r] <= row.price /\ row.price <= cost[r]
==============================================================================
