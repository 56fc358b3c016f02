------------------------------ MODULE Listings ------------------------------
(***************************************************************************)
(* The listings of the REST API (api/controllers/v1/account.py): the       *)
(* charges, newest first or by another column, and the accounts that are   *)
(* not in debt.  A client walks through them page by page, by limit and    *)
(* offset; every page is a query of its own, and the total that goes with  *)
(* a page of charges is another one, while rows come and go.               *)
(***************************************************************************)
EXTENDS Integers, FiniteSets

CONSTANTS
  Walkers,    \* clients that walk through a listing
  Limits,     \* page sizes they ask for; one that no table exceeds is none
  Columns,    \* values of the column that charges may be sorted by
  MaxId,      \* bound on the primary keys of each table
  MaxFaults   \* bound on failed calls

ASSUME ListingsAssumption ==
  /\ Limits \subseteq Nat \ {0}
  /\ Columns \subseteq Nat
  /\ MaxId \in Nat
  /\ MaxFaults \in Nat

Tables == {"charge", "account"}
Row == [id : 1 .. MaxId, key : Nat]

VARIABLES
  listable,  \* the committed rows of each table that the query asks for
  hidden,    \* those not committed yet, in debt, or not active of late
  serial,    \* the last primary key handed out
  pc,        \* what each client waits for
  about,     \* the table it walks through
  limit, offset,
  page,      \* the rows that were read for the request
  count,     \* the total_count of the last answer
  listed,    \* all it has been given
  faults,    \* number of failed calls (bounds the model)
  old,       \* history: the rows listable when the walk began
  grown,     \* history: rows have become listable since
  shrunk     \* history: rows have ceased to be listable since

database == <<listable, hidden, serial>>
request == <<pc, about, limit, offset, page, count, listed>>
history == <<old, grown, shrunk>>
vars == <<database, request, faults, history>>

Init ==
  /\ listable = [t \in Tables |-> {}]
  /\ hidden = [t \in Tables |-> {}]
  /\ serial = [t \in Tables |-> 0]
  /\ pc = [w \in Walkers |-> "idle"]
  /\ about = [w \in Walkers |-> "charge"]
  /\ limit = [w \in Walkers |-> 0]
  /\ offset = [w \in Walkers |-> 0]
  /\ page = [w \in Walkers |-> {}]
  /\ count = [w \in Walkers |-> 0]
  /\ listed = [w \in Walkers |-> {}]
  /\ faults = 0
  /\ old = [w \in Walkers |-> {}]
  /\ grown = [w \in Walkers |-> FALSE]
  /\ shrunk = [w \in Walkers |-> FALSE]

-----------------------------------------------------------------------------
(* The tables.                                                             *)

(* Mutant: the key of a row that was deleted is handed out again.          *)
FreeId(t) == Cardinality(listable[t] \cup hidden[t]) + 1

(* The database counts the primary keys up.                                *)
NewId(t) == serial[t] + 1

(* A transaction inserts a row; what it is sorted by never changes.  Only  *)
(* charges may be sorted by more than their primary key.                   *)
Insert(t, k) ==
  LET r == [id |-> NewId(t), key |-> k] IN
  /\ serial[t] < MaxId
  /\ t = "account" => k = 0
  /\ serial' = [serial EXCEPT ![t] = @ + 1]
  /\ hidden' = [hidden EXCEPT ![t] = @ \cup {r}]
  /\ UNCHANGED <<listable, request, faults, history>>

(* A transaction commits, in any order; a debt is paid; an account is      *)
(* updated and so counts as active again.                                  *)
Appear(t, r) ==
  /\ r \in hidden[t]
  /\ hidden' = [hidden EXCEPT ![t] = @ \ {r}]
  /\ listable' = [listable EXCEPT ![t] = @ \cup {r}]
  /\ grown' = [w \in Walkers |-> grown[w] \/ (pc[w] # "idle" /\ about[w] = t)]
  /\ UNCHANGED <<serial, request, faults, old, shrunk>>

(* A transaction is rolled back; an account is deleted.                    *)
Drop(t, r) ==
  /\ r \in hidden[t]
  /\ hidden' = [hidden EXCEPT ![t] = @ \ {r}]
  /\ UNCHANGED <<listable, serial, request, faults, history>>

(* Mutant: deleting an account deletes its charges.                        *)
LeavesAny(t) == TRUE

(* delete_account leaves the charges.                                      *)
Leaves(t) == t = "account"

(* An account falls into debt, is not active any more, or is about to be   *)
(* deleted.                                                                *)
Vanish(t, r) ==
  /\ Leaves(t)
  /\ r \in listable[t]
  /\ listable' = [listable EXCEPT ![t] = @ \ {r}]
  /\ hidden' = [hidden EXCEPT ![t] = @ \cup {r}]
  /\ shrunk' = [w \in Walkers |-> shrunk[w] \/ (pc[w] # "idle" /\ about[w] = t)]
  /\ UNCHANGED <<serial, request, faults, old, grown>>

-----------------------------------------------------------------------------
(* Queries.                                                                *)

(* _paginate_query: by the column that was asked for, then by id, both     *)
(* downwards; the conductor's API does not pass sort_dir on.               *)
Before(q, r) == q.key > r.key \/ (q.key = r.key /\ q.id > r.id)

Place(rows, r) == Cardinality({q \in rows : Before(q, r)})

(* Mutants: the page begins one row late, ends one row late.               *)
PageAfter(rows, from, size) ==
  {r \in rows : from < Place(rows, r) /\ Place(rows, r) <= from + size}
PageOver(rows, from, size) ==
  {r \in rows : from <= Place(rows, r) /\ Place(rows, r) <= from + size}

(* OFFSET from LIMIT size.                                                 *)
Page(rows, from, size) ==
  {r \in rows : from <= Place(rows, r) /\ Place(rows, r) < from + size}

-----------------------------------------------------------------------------
(* A walk.                                                                 *)

Start(w, t, size) ==
  /\ pc[w] = "idle"
  /\ pc' = [pc EXCEPT ![w] = "list"]
  /\ about' = [about EXCEPT ![w] = t]
  /\ limit' = [limit EXCEPT ![w] = size]
  /\ offset' = [offset EXCEPT ![w] = 0]
  /\ listed' = [listed EXCEPT ![w] = {}]
  /\ old' = [old EXCEPT ![w] = listable[t]]
  /\ grown' = [grown EXCEPT ![w] = FALSE]
  /\ shrunk' = [shrunk EXCEPT ![w] = FALSE]
  /\ UNCHANGED <<database, page, count, faults>>

List(w, t) ==
  /\ pc[w] = "list" /\ about[w] = t
  /\ page' = [page EXCEPT ![w] = Page(listable[t], offset[w], limit[w])]
  /\ pc' = [pc EXCEPT ![w] = "answer"]
  /\ UNCHANGED <<database, about, limit, offset, count, listed, faults,
                 history>>

GetCharges(w) == List(w, "charge")
GetAccounts(w) == List(w, "account")

(* The answer is given; the client asks for the next page or is done.      *)
Answer(w, total, more) ==
  /\ pc[w] = "answer"
  /\ count' = [count EXCEPT ![w] = total]
  /\ listed' = [listed EXCEPT ![w] = @ \cup page[w]]
  /\ offset' = [offset EXCEPT ![w] = @ + limit[w]]
  /\ page' = [page EXCEPT ![w] = {}]
  /\ pc' = [pc EXCEPT ![w] = IF more THEN "list" ELSE "done"]
  /\ UNCHANGED <<database, about, limit, faults, history>>

(* get_charges_price_and_count: the count of all that is asked for.        *)
ChargesCount == Cardinality(listable["charge"])

(* It is called after the page was read, and the client goes on until it   *)
(* has asked for as many rows as that.                                     *)
AnswerCharges(w) ==
  /\ about[w] = "charge"
  /\ Answer(w, ChargesCount, offset[w] + limit[w] < ChargesCount)

(* The total of the accounts is that of the page, which tells nothing; the *)
(* client goes on until a page is not full.                                *)
AnswerAccounts(w) ==
  LET total == Cardinality(page[w]) IN
  /\ about[w] = "account"
  /\ Answer(w, total, total = limit[w])

(* A call of the conductor fails: the client asks for the page again.      *)
Fail(w) ==
  /\ pc[w] \in {"list", "answer"}
  /\ faults < MaxFaults
  /\ faults' = faults + 1
  /\ page' = [page EXCEPT ![w] = {}]
  /\ pc' = [pc EXCEPT ![w] = "list"]
  /\ UNCHANGED <<database, about, limit, offset, count, listed, history>>

(* The client has what it wanted.                                          *)
Finish(w) ==
  /\ pc[w] = "done"
  /\ pc' = [pc EXCEPT ![w] = "idle"]
  /\ limit' = [limit EXCEPT ![w] = 0]
  /\ offset' = [offset EXCEPT ![w] = 0]
  /\ count' = [count EXCEPT ![w] = 0]
  /\ listed' = [listed EXCEPT ![w] = {}]
  /\ old' = [old EXCEPT ![w] = {}]
  /\ grown' = [grown EXCEPT ![w] = FALSE]
  /\ shrunk' = [shrunk EXCEPT ![w] = FALSE]
  /\ UNCHANGED <<database, about, page, faults>>

Next ==
  \/ \E t \in Tables, k \in Columns : Insert(t, k)
  \/ \E t \in Tables :
       \/ \E r \in hidden[t] : Appear(t, r) \/ Drop(t, r)
       \/ \E r \in listable[t] : Vanish(t, r)
  \/ \E w \in Walkers :
       \/ \E t \in Tables, size \in Limits : Start(w, t, size)
       \/ GetCharges(w) \/ GetAccounts(w)
       \/ AnswerCharges(w) \/ AnswerAccounts(w)
       \/ Fail(w) \/ Finish(w)

Spec == Init /\ [][Next]_vars
-----------------------------------------------------------------------------
(* Every variable has its type, and no two rows share a primary key.       *)
TypeOK ==
  /\ listable \in [Tables -> SUBSET Row]
  /\ hidden \in [Tables -> SUBSET Row]
  /\ serial \in [Tables -> 0 .. MaxId]
  /\ pc \in [Walkers -> {"idle", "list", "answer", "done"}]
  /\ about \in [Walkers -> Tables]
  /\ limit \in [Walkers -> Nat]
  /\ offset \in [Walkers -> Nat]
  /\ page \in [Walkers -> SUBSET Row]
  /\ count \in [Walkers -> Nat]
  /\ listed \in [Walkers -> SUBSET Row]
  /\ faults \in 0 .. MaxFaults
  /\ old \in [Walkers -> SUBSET Row]
  /\ grown \in [Walkers -> BOOLEAN]
  /\ shrunk \in [Walkers -> BOOLEAN]
  /\ \A t \in Tables : \A q, r \in listable[t] \cup hidden[t] :
       q.id = r.id => q = r

(* A walk that has ended has come upon every row that was there when it    *)
(* began, unless rows have gone; charges never do, whatever is charged in  *)
(* the meantime and in whichever order it is committed.                    *)
NothingMissed ==
  \A w \in Walkers : pc[w] = "done" /\ ~shrunk[w] => old[w] \subseteq listed[w]

(* A page holds nothing the client has been given before, unless rows have *)
(* come.                                                                   *)
NothingRepeated ==
  \A w \in Walkers : pc[w] = "answer" /\ ~grown[w] => page[w] \cap listed[w] = {}

(* The total that comes with a page of charges covers all that the page    *)
(* and those before it have shown.                                         *)
TotalsCover ==
  [][\A w \in Walkers : AnswerCharges(w) /\ page[w] # {} =>
       count'[w] >= offset[w] + Cardinality(page[w])]_vars
=============================================================================
