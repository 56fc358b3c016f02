------------------------------ MODULE ApiCalls ------------------------------
(***************************************************************************)
(* A call of shadowfiend from end to end: the Python client                *)
(* (client/client.py, client/v1/client.py) with its token of keystone      *)
(* (client/auth/token.py), the API (api/controllers/v1/), and the          *)
(* conductor behind an RPC call.  Any of the parties may fail the call or  *)
(* give it up, and what was given up may still be served.                  *)
(*                                                                         *)
(* Calls share one client object, as greenlets of one process do: they     *)
(* take turns at calls over the network, and a step is the code from one   *)
(* of those to the next.  Time is what tokens have left, in ticks.  A      *)
(* redirection sends the same request once more, to where the first one    *)
(* was not served, and is no step.                                         *)
(***************************************************************************)
EXTENDS HttpErrors, FiniteSets, Access

CONSTANTS
  Calls,      \* places for calls, used again and again
  Users,      \* users whose accounts are asked for
  Me,         \* the user of the client
  NoRequest,  \* no call is being made
  Requests,   \* Requests[i]: what may be called in place i
  Lifetime,   \* of a token, in ticks
  Stale,      \* stale_duration: a token with less left is renewed
  MaxFaults   \* bound on failures

(* The methods of client/v1/client.py; a value may be out of range.        *)
Ops == {"create_account", "update_account", "change_account_level",
        "delete_account", "get_account", "get_accounts", "get_charges",
        "create_project", "get_project", "get_billing_owner",
        "get_projects_pay", "get_projects_all", "get_projects_simple"}
Request == [op : Ops, user : Users, valid : BOOLEAN]
Token == [ttl : 0 .. Lifetime, live : BOOLEAN, url : BOOLEAN]

ASSUME ApiCallsAssumption ==
  /\ Me \in Users
  /\ NoUser \notin Users
  /\ NoRequest \notin Request
  /\ Requests \in [Calls -> SUBSET Request]
  /\ Lifetime \in Nat
  /\ Stale \in 1 .. Lifetime
  /\ MaxFaults \in Nat

VARIABLES
  catalog,   \* whether keystone's catalog has the admin endpoint of billing
  admin,     \* whether Me has the role that the policy asks for
  accounts,  \* users with an account
  project,   \* who pays for the project, or NoUser if there is none
  plugin,    \* the client's token: what is left of it, valid or revoked,
             \* and whether the catalog that came with it had the endpoint
  request,   \* what each call asks for
  pc,        \* the client's side of it
  reading,   \* which reading of auth_token the call is at
  token,     \* the token on its way to the client or to the API
  waited,    \* history: ticks since a token was asked for or read
  outcome,   \* how the call has ended
  job,       \* the API's side of it
  response,  \* its answer, on the way to the client
  rpc,       \* the conductor's side of it
  reply,     \* its reply, on the way to the API
  effects,   \* history: how often the call has been carried out, by the
             \* conductor, or by the API where that needs no conductor
  faults     \* number of failures (bounds the model)

database == <<accounts, project>>
client == <<request, pc, reading, token, waited, outcome>>
server == <<job, response, rpc, reply>>
vars == <<catalog, admin, database, plugin, client, server, effects, faults>>

None == [raised |-> "none", status |-> 0]
NoToken == [ttl |-> 0, live |-> FALSE, url |-> FALSE]

Init ==
  /\ catalog \in BOOLEAN
  /\ admin \in BOOLEAN
  /\ accounts = Users
  /\ project \in Users \cup {NoUser}
  /\ plugin \in [ttl : {Lifetime}, live : {TRUE}, url : {catalog}]
  /\ request = [i \in Calls |-> NoRequest]
  /\ pc = [i \in Calls |-> "idle"]
  /\ reading = [i \in Calls |-> 1]
  /\ token = [i \in Calls |-> NoToken]
  /\ outcome = [i \in Calls |-> None]
  /\ job = [i \in Calls |-> "none"]
  /\ response = [i \in Calls |-> 0]
  /\ rpc = [i \in Calls |-> "none"]
  /\ reply = [i \in Calls |-> "none"]
  /\ effects = [i \in Calls |-> 0]
  /\ waited = [i \in Calls |-> 0]
  /\ faults = 0

Fault ==
  /\ faults < MaxFaults
  /\ faults' = faults + 1

-----------------------------------------------------------------------------
(* The client.                                                             *)

End(i, e) ==
  /\ pc' = [pc EXCEPT ![i] = "ended"]
  /\ outcome' = [outcome EXCEPT ![i] = e]

(* The token of a call is not on its way any more.                         *)
Drop(i) ==
  /\ token' = [token EXCEPT ![i] = NoToken]
  /\ waited' = [waited EXCEPT ![i] = 0]

Raises(e) == [raised |-> e, status |-> 0]

(* Mutant: a token is used until it has expired.                           *)
HasExpired(t) == t.ttl = 0

WillExpireSoon(t) == t.ttl < Stale

Send(i, t) ==
  /\ pc' = [pc EXCEPT ![i] = "sent"]
  /\ reading' = [reading EXCEPT ![i] = 1]
  /\ token' = [token EXCEPT ![i] = t]
  /\ job' = [job EXCEPT ![i] = "coming"]

(* get_auth_headers reads auth_token twice, to see that there is one and   *)
(* to take it; each reading renews a token that will expire soon.          *)
AuthToken(i, t, n) ==
  \/ /\ WillExpireSoon(t)
     /\ pc' = [pc EXCEPT ![i] = "asking"]
     /\ reading' = [reading EXCEPT ![i] = n]
     /\ UNCHANGED <<token, job>>
  \/ /\ ~WillExpireSoon(t)
     /\ Send(i, t)

(* The URL is taken before the token is looked at.                         *)
Begin(i, r) ==
  /\ pc[i] = "idle"
  /\ request' = [request EXCEPT ![i] = r]
  /\ \/ /\ ~plugin.url
        /\ End(i, Raises("NotAuthorized"))
        /\ UNCHANGED <<reading, token, job>>
     \/ /\ plugin.url
        /\ AuthToken(i, plugin, 1)
        /\ UNCHANGED outcome
  /\ UNCHANGED <<catalog, admin, database, plugin, waited, response, rpc, reply,
                 effects, faults>>

(* Keystone issues a token, with the catalog as it is now.                 *)
Issue(i) ==
  /\ pc[i] = "asking"
  /\ pc' = [pc EXCEPT ![i] = "issued"]
  /\ token' = [token EXCEPT ![i] =
                 [ttl |-> Lifetime, live |-> TRUE, url |-> catalog]]
  /\ UNCHANGED <<catalog, admin, database, plugin, request, reading, waited,
                 outcome, server, effects, faults>>

(* authenticate stores expiry, token and endpoint, and the reading of      *)
(* auth_token that asked for them goes on.                                 *)
Authenticate(i) ==
  /\ pc[i] = "issued"
  /\ plugin' = token[i]
  /\ \/ reading[i] = 1 /\ AuthToken(i, token[i], 2)
     \/ reading[i] = 2 /\ Send(i, token[i])
  /\ UNCHANGED <<catalog, admin, database, request, waited, outcome, response,
                 rpc, reply, effects, faults>>

(* Keystone cannot be reached, or its answer is not JSON or has no token.  *)
FailToAuthenticate(i) ==
  /\ pc[i] \in {"asking", "issued"}
  /\ Fault
  /\ \E e \in {Raises("ConnectionError"), Raises("TypeError"),
               [raised |-> "named", status |-> 401]} : End(i, e)
  /\ reading' = [reading EXCEPT ![i] = 1]
  /\ Drop(i)
  /\ UNCHANGED <<catalog, admin, database, plugin, request, server, effects>>

Arrive(i) ==
  /\ pc[i] = "sent"
  /\ job[i] = "answered"
  /\ \/ /\ response[i] < 400
        /\ End(i, [raised |-> "none", status |-> response[i]])
     \/ /\ response[i] >= 400
        /\ End(i, FromResponse([status |-> response[i],
                                retry_after |-> FALSE]))
  /\ job' = [job EXCEPT ![i] = "none"]
  /\ response' = [response EXCEPT ![i] = 0]
  /\ UNCHANGED <<catalog, admin, database, plugin, request, reading, token,
                 waited, rpc, reply, effects, faults>>

(* Mutant: the client sends the request again.                             *)
BreakAndResend(i) ==
  /\ pc[i] = "sent"
  /\ Fault
  /\ Send(i, plugin)
  /\ UNCHANGED <<catalog, admin, database, plugin, request, waited, outcome,
                 response, rpc, reply, effects>>

(* The connection breaks or times out, or a proxy answers in place of the  *)
(* API.  Either the request or its answer is lost, or the API goes on and  *)
(* nobody waits for it.                                                    *)
Break(i) ==
  /\ pc[i] = "sent"
  /\ Fault
  /\ \/ End(i, Raises("ConnectionError"))
     \/ \E r \in [status : {503}, retry_after : BOOLEAN] :
          End(i, FromResponse(r))
  /\ \/ /\ job[i] \in {"coming", "answered"}
        /\ job' = [job EXCEPT ![i] = "none"]
        /\ response' = [response EXCEPT ![i] = 0]
        /\ Drop(i)
     \/ /\ job[i] \in {"coming", "calling"}
        /\ UNCHANGED <<job, response, token, waited>>
  /\ UNCHANGED <<catalog, admin, database, plugin, request, reading, rpc,
                 reply, effects>>

(* The caller has done with a call and nothing of it is left.              *)
Forget(i) ==
  /\ pc[i] = "ended"
  /\ job[i] = "none"
  /\ rpc[i] = "none"
  /\ request' = [request EXCEPT ![i] = NoRequest]
  /\ pc' = [pc EXCEPT ![i] = "idle"]
  /\ outcome' = [outcome EXCEPT ![i] = None]
  /\ effects' = [effects EXCEPT ![i] = 0]
  /\ UNCHANGED <<catalog, admin, database, plugin, reading, token, waited,
                 server, faults>>

-----------------------------------------------------------------------------
(* The API.                                                                *)

AdminOnly == {"create_account", "update_account", "change_account_level",
              "delete_account", "get_accounts", "create_project"}

(* check_policy fills in the text of its exception with the action it is   *)
(* given; the check of create_project gives none.                          *)
PolicyNotAuthorized(op) ==
  Construct("PolicyNotAuthorized", {"action"},
            IF op = "create_project" THEN {} ELSE {"action"})

(* The exceptions of a controller before it turns to the conductor.        *)
Refusals(r) ==
  IF r.op \in AdminOnly /\ ~admin THEN {PolicyNotAuthorized(r.op)}
  ELSE IF r.valid THEN {}
  ELSE CASE r.op = "update_account" -> {"InvalidChargeValue"}
         [] r.op \in {"change_account_level", "get_accounts", "get_charges"} ->
              {"InvalidParameterValue"}
         [] OTHER -> {}

(* Mutant: every exception of get_account is taken for a missing account.  *)
TranslateAllToNotFound(op, e) ==
  IF op = "get_account" THEN "AccountNotFound" ELSE "DBError"

(* What a controller makes of an exception of its RPC call.                *)
Translate(op, e) ==
  CASE op \in {"update_account", "get_accounts"} ->
         IF e \in NotAuthorized THEN "NotAuthorized" ELSE "DBError"
    [] op \in {"create_account", "change_account_level", "get_projects_pay",
               "get_projects_all"} -> "DBError"
    [] op = "delete_account" ->      \* there is no LOG.Warning
         IF e \in NotFound THEN "AttributeError" ELSE "DBError"
    [] op = "get_account" ->
         IF e \in {"AccountNotFound", "GetExternalBalanceFailed"} THEN e
         ELSE "AccountGetFailed"
    [] op = "get_project" -> "ProjectNotFound"
    [] op = "create_project" -> "ProjectCreateFailed"
    [] OTHER -> e

(* The answer finds nobody if the client has given up.                     *)
Respond(i, status) ==
  LET waiting == pc[i] = "sent" IN
  /\ job' = [job EXCEPT ![i] = IF waiting THEN "answered" ELSE "none"]
  /\ response' = [response EXCEPT ![i] = IF waiting THEN status ELSE 0]

(* If keystone lists no project of the user, the answer is [], and the     *)
(* controller does not turn to the conductor.                              *)
MayAnswerAlone(r) == r.op = "get_projects_all"

(* The middleware looks at the token, the controller at the rest.          *)
Receive(i) ==
  LET passes == token[i].ttl > 0 /\ token[i].live
      refusals == Refusals(request[i])
  IN
  /\ job[i] = "coming"
  /\ \/ /\ ~passes
        /\ Respond(i, 401)
        /\ UNCHANGED <<rpc, effects>>
     \/ /\ passes
        /\ \E e \in refusals : Respond(i, Code(e))
        /\ UNCHANGED <<rpc, effects>>
     \/ /\ passes /\ refusals = {}
        /\ job' = [job EXCEPT ![i] = "calling"]
        /\ rpc' = [rpc EXCEPT ![i] = "queued"]
        /\ UNCHANGED <<response, effects>>
     \/ /\ passes /\ refusals = {}
        /\ MayAnswerAlone(request[i])
        /\ Respond(i, 200)
        /\ effects' = [effects EXCEPT ![i] = @ + 1]
        /\ UNCHANGED rpc
  /\ Drop(i)
  /\ UNCHANGED <<catalog, admin, database, plugin, request, pc, reading,
                 outcome, reply, faults>>

(* Rows of the project table come as dictionaries: one branch of get_all   *)
(* treats them as objects, one asks relations for a key they lack, if      *)
(* keystone lists their project.                                           *)
JoinErrors(op, rows) ==
  IF ~rows THEN {}
  ELSE CASE op = "get_projects_simple" -> {"AttributeError"}
         [] op = "get_projects_pay" -> {"KeyError"}
         [] OTHER -> {}

(* The conductor has replied.                                              *)
Answer(i) ==
  LET op == request[i].op
      errors == JoinErrors(op, reply[i] = "rows")
  IN
  /\ job[i] = "calling"
  /\ rpc[i] = "served"
  /\ \/ reply[i] \in {"ok", "rows"} /\ Respond(i, 200)
     \/ \E e \in errors : Respond(i, Code(e))
     \/ /\ reply[i] \notin {"ok", "rows"}
        /\ Respond(i, Code(Translate(op, reply[i])))
  /\ rpc' = [rpc EXCEPT ![i] = "none"]
  /\ reply' = [reply EXCEPT ![i] = "none"]
  /\ UNCHANGED <<catalog, admin, database, plugin, client, effects, faults>>

(* The RPC call times out; the conductor may serve it all the same.        *)
TimeOut(i) ==
  /\ job[i] = "calling"
  /\ \/ /\ rpc[i] = "lost"
        /\ rpc' = [rpc EXCEPT ![i] = "none"]
        /\ UNCHANGED faults
     \/ /\ rpc[i] = "queued"
        /\ Fault
        /\ UNCHANGED rpc
  /\ Respond(i, Code(Translate(request[i].op, "MessagingTimeout")))
  /\ UNCHANGED <<catalog, admin, database, plugin, client, reply, effects>>

-----------------------------------------------------------------------------
(* The conductor.                                                          *)

(* The conductor serves calls in the name of Me, and reaches only his rows *)
(* by model_query.  Domains make no difference: nobody is a domain owner.  *)
Ctx == Received(MakeContext(Me, "domain"))
Reaches(u) == Sees(Ctx, [user_id |-> u, domain_id |-> "domain"])
Mine == project # NoUser /\ Reaches(project)

(* The exceptions of a database call.                                      *)
AccountErrors(r) ==
  LET known == r.user \in accounts IN
  CASE r.op = "create_account" /\ known -> {"DBDuplicateEntry"}
    [] r.op \in {"update_account", "change_account_level"} /\ ~known ->
         {"NoResultFound"}
    [] r.op = "change_account_level" /\ known /\ ~Reaches(r.user) ->
         {"AccountUpdateFailed"}
    [] r.op \in {"delete_account", "get_account"} /\ ~known ->
         {"AccountNotFound"}
    [] OTHER -> {}

ProjectErrors(r) ==
  CASE r.op = "create_project" /\ project # NoUser -> {"DBDuplicateEntry"}
    [] r.op = "get_project" /\ project = NoUser -> {"ProjectNotFound"}
    [] r.op = "get_billing_owner" /\ ~Mine -> {"ProjectNotFound"}
    [] r.op = "get_billing_owner" /\ Mine /\ project \notin accounts ->
         {"AccountNotFound"}
    [] OTHER -> {}

Errors(r) == AccountErrors(r) \cup ProjectErrors(r)

Reply(r) == IF r.op \in {"get_projects_pay", "get_projects_simple"}
                 /\ Mine
            THEN "rows" ELSE "ok"

Write(r) ==
  /\ accounts' = CASE r.op = "create_account" -> accounts \cup {r.user}
                   [] r.op = "delete_account" -> accounts \ {r.user}
                   [] OTHER -> accounts
  /\ project' = CASE r.op = "create_project" -> r.user
                  [] r.op = "delete_account" /\ project = r.user -> NoUser
                  [] OTHER -> project

(* The reply finds nobody if the API has given up.                         *)
Hear(i, what) ==
  LET waiting == job[i] = "calling" IN
  /\ rpc' = [rpc EXCEPT ![i] = IF waiting THEN "served" ELSE "none"]
  /\ reply' = [reply EXCEPT ![i] = IF waiting THEN what ELSE "none"]

Conduct(i) ==
  /\ rpc[i] = "queued"
  /\ \/ /\ Errors(request[i]) = {}
        /\ Write(request[i])
        /\ Hear(i, Reply(request[i]))
        /\ effects' = [effects EXCEPT ![i] = @ + 1]
     \/ /\ \E e \in Errors(request[i]) : Hear(i, Remote(e))
        /\ UNCHANGED <<database, effects>>
  /\ UNCHANGED <<catalog, admin, plugin, client, job, response, faults>>

(* A message that nobody waits for is lost without a trace.                *)
LoseRpc(i) ==
  /\ rpc[i] = "queued"
  /\ Fault
  /\ rpc' = [rpc EXCEPT ![i] = IF job[i] = "calling" THEN "lost" ELSE "none"]
  /\ UNCHANGED <<catalog, admin, database, plugin, client, job, response,
                 reply, effects>>

-----------------------------------------------------------------------------
(* What happens around the calls.                                          *)

UnderWay(i) == pc[i] \in {"asking", "issued"} \/ job[i] = "coming"

Less(t) == [t EXCEPT !.ttl = IF @ > 0 THEN @ - 1 ELSE 0]

Tick ==
  /\ plugin' = Less(plugin)
  /\ token' = [i \in Calls |-> IF UnderWay(i) THEN Less(token[i]) ELSE token[i]]
  /\ waited' = [i \in Calls |-> IF UnderWay(i) /\ waited[i] < Stale
                                THEN waited[i] + 1 ELSE waited[i]]
  /\ UNCHANGED <<catalog, admin, database, request, pc, reading, outcome,
                 server, effects, faults>>

(* Keystone revokes the tokens of the user.                                *)
Revoke ==
  /\ Fault
  /\ plugin' = [plugin EXCEPT !.live = FALSE]
  /\ token' = [i \in Calls |-> [token[i] EXCEPT !.live = FALSE]]
  /\ UNCHANGED <<catalog, admin, database, request, pc, reading, waited, outcome,
                 server, effects>>

(* The endpoint is taken from the catalog, or put there.                   *)
ChangeCatalog ==
  /\ Fault
  /\ catalog' = ~catalog
  /\ UNCHANGED <<admin, database, plugin, client, server, effects>>

Next ==
  \/ \E i \in Calls :
       \/ \E r \in Requests[i] : Begin(i, r)
       \/ Issue(i) \/ Authenticate(i) \/ FailToAuthenticate(i)
       \/ Arrive(i) \/ Break(i) \/ Forget(i)
       \/ Receive(i) \/ Answer(i) \/ TimeOut(i)
       \/ Conduct(i) \/ LoseRpc(i)
  \/ Tick \/ Revoke \/ ChangeCatalog

Spec == Init /\ [][Next]_vars

-----------------------------------------------------------------------------
Outcomes ==
  [raised : {"none", "NotAuthorized", "ConnectionError", "TypeError", "named",
             "HTTPServerError", "HTTPClientError", "HTTPError"},
   status : Nat]

(* The variables have the types that their comments say.                   *)
TypeOK ==
  /\ catalog \in BOOLEAN
  /\ admin \in BOOLEAN
  /\ accounts \subseteq Users
  /\ project \in Users \cup {NoUser}
  /\ plugin \in Token
  /\ request \in [Calls -> Request \cup {NoRequest}]
  /\ pc \in [Calls -> {"idle", "asking", "issued", "sent", "ended"}]
  /\ reading \in [Calls -> {1, 2}]
  /\ token \in [Calls -> Token]
  /\ outcome \in [Calls -> Outcomes]
  /\ job \in [Calls -> {"none", "coming", "calling", "answered"}]
  /\ response \in [Calls -> Nat]
  /\ rpc \in [Calls -> {"none", "queued", "served", "lost"}]
  /\ reply \in [Calls -> {"none", "ok", "rows", "RemoteError"} \cup AllowedRemote]
  /\ effects \in [Calls -> Nat]
  /\ waited \in [Calls -> 0 .. Stale]
  /\ faults \in 0 .. MaxFaults

(* What the client can know: a status of 4xx means that the call was       *)
(* refused, and so does an exception of its own that says that it has no   *)
(* URL.  get_project is the exception: its controller answers 404 whatever *)
(* went wrong (project.py:80).                                             *)
Refused(i) ==
  /\ pc[i] = "ended"
  /\ \/ outcome[i].raised = "NotAuthorized"
     \/ outcome[i].status \in 400 .. 499 /\ request[i].op # "get_project"

Returned(i) == pc[i] = "ended" /\ outcome[i].raised = "none"

(* What the caller of the client is told is true of the database: a call   *)
(* that returns has been carried out, and one that was refused has not     *)
(* been and will not be, although the API gives up RPC calls that are      *)
(* still served later (service.py:182) and translates nearly every         *)
(* exception into another one (account.py, project.py).                    *)
AnswerTellsEffect ==
  \A i \in Calls :
    /\ Returned(i) => effects[i] = 1
    /\ Refused(i) => /\ effects[i] = 0
                     /\ job[i] # "coming"
                     /\ rpc[i] # "queued"

(* The renewal of tokens (token.py:36, 106) does what it is for: the API   *)
(* rejects a token of the client only if keystone has revoked it, or if    *)
(* obtaining and sending it took as long as the stale duration.            *)
FreshTokensPass ==
  [][\A i \in Calls : response[i] = 0 /\ response'[i] = 401 =>
                       ~token[i].live \/ waited[i] >= Stale]_vars

(* What the caller knows of a call.                                        *)
Phase(i) ==
  CASE pc[i] = "idle" -> "idle"
    [] Returned(i) -> "returned"
    [] Refused(i) -> "refused"
    [] pc[i] = "ended" /\ ~Returned(i) /\ ~Refused(i) -> "unknown"
    [] OTHER -> "called"

Once == INSTANCE AtMostOnce WITH
  phase <- [i \in Calls |-> Phase(i)],
  done <- effects

(* Client, API and conductor together carry out a call at most once, and   *)
(* never after they have refused it, whatever is lost, late or given up    *)
(* between them: none of them sends anything twice (client.py:115,         *)
(* service.py:182).                                                        *)
ImplementsAtMostOnce == Once!Spec
=============================================================================
