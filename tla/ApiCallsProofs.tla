--------------------------- MODULE ApiCallsProofs ---------------------------
(***************************************************************************)
(* Proofs about ApiCalls, for any places for calls, requests, users, life  *)
(* of tokens and number of failures: its types, that answers are true and  *)
(* fresh tokens are let in, and that a call is carried out at most once.   *)
(***************************************************************************)
EXTENDS ApiCalls, TLAPS

Statuses == {200, 400, 401, 402, 403, 404, 423, 500}

-----------------------------------------------------------------------------
(* Statuses and exceptions.                                                *)

(* No exception of a controller is answered with 401, or as a success.     *)
LEMMA CodeType == \A e : Code(e) \in {400, 402, 403, 404, 423, 500}
  BY DEF Code

LEMMA RemoteType == \A e : Remote(e) \in AllowedRemote \cup {"RemoteError"}
  BY DEF Remote

(* What a reply says is either that the call was carried out, or the name  *)
(* of an exception.                                                        *)
LEMMA NoErrorIsSuccess ==
  \A e : /\ Remote(e) \notin {"none", "ok", "rows"}
  BY DEF Remote, AllowedRemote, Invalid, Insufficient, NotAuthorized, NotFound,
         Failures

LEMMA ClassType ==
  \A n \in Nat : ErrorClass(n) \in {"named", "HTTPServerError",
                                    "HTTPClientError", "HTTPError"}
  BY DEF ErrorClass

LEMMA FromResponseType ==
  ASSUME NEW n \in Nat, NEW b \in BOOLEAN
  PROVE  LET e == FromResponse([status |-> n, retry_after |-> b]) IN
         /\ e \in Outcomes
         /\ e.raised \notin {"none", "NotAuthorized"}
         /\ e.status \in {0, n}
  BY ClassType DEF FromResponse, Outcomes

(* A call that timed out is answered with 500, but for get_project.        *)
LEMMA TimeOutFails ==
  \A op \in Ops \ {"get_project"} : Code(Translate(op, "MessagingTimeout")) = 500
  <1> SUFFICES ASSUME NEW op \in Ops \ {"get_project"}
               PROVE  Translate(op, "MessagingTimeout") \in
                        {"DBError", "AccountGetFailed", "ProjectCreateFailed",
                         "MessagingTimeout"}
    BY DEF Code, Invalid, Insufficient, NotAuthorized, NotFound
  <1> QED
    BY DEF Translate, Ops, NotAuthorized, NotFound

LEMMA JoinFails ==
  \A op, b : \A e \in JoinErrors(op, b) : Code(e) = 500
  BY DEF JoinErrors, Code, Invalid, Insufficient, NotAuthorized, NotFound

-----------------------------------------------------------------------------
(* Types.                                                                  *)

LEMMA TypeInit == Init => TypeOK
  <1> SUFFICES ASSUME Init PROVE TypeOK
    OBVIOUS
  <1> USE ApiCallsAssumption
  <1>1. plugin \in Token
    <2>1. plugin = [ttl |-> Lifetime, live |-> TRUE, url |-> catalog]
      BY DEF Init
    <2>2. Lifetime \in 0 .. Lifetime /\ catalog \in BOOLEAN
      BY DEF Init
    <2> QED
      BY <2>1, <2>2 DEF Token
  <1>2. NoToken \in Token /\ None \in Outcomes
    BY DEF Token, NoToken, None, Outcomes
  <1> QED
    BY <1>1, <1>2 DEF Init, TypeOK

LEMMA RespondTypes ==
  ASSUME TypeOK, NEW i \in Calls, NEW n \in Nat, Respond(i, n)
  PROVE  /\ job' \in [Calls -> {"none", "coming", "calling", "answered"}]
         /\ response' \in [Calls -> Nat]
  BY DEF Respond, TypeOK

LEMMA SendTypes ==
  ASSUME TypeOK, NEW i \in Calls, NEW t \in Token, Send(i, t)
  PROVE  /\ pc' \in [Calls -> {"idle", "asking", "issued", "sent", "ended"}]
         /\ reading' \in [Calls -> {1, 2}]
         /\ token' \in [Calls -> Token]
         /\ job' \in [Calls -> {"none", "coming", "calling", "answered"}]
  BY DEF Send, TypeOK

LEMMA AuthTokenTypes ==
  ASSUME TypeOK, NEW i \in Calls, NEW t \in Token, NEW n \in {1, 2},
         AuthToken(i, t, n)
  PROVE  /\ pc' \in [Calls -> {"idle", "asking", "issued", "sent", "ended"}]
         /\ reading' \in [Calls -> {1, 2}]
         /\ token' \in [Calls -> Token]
         /\ job' \in [Calls -> {"none", "coming", "calling", "answered"}]
  BY SendTypes DEF AuthToken, TypeOK

LEMMA EndTypes ==
  ASSUME TypeOK, NEW i \in Calls, NEW e \in Outcomes, End(i, e)
  PROVE  /\ pc' \in [Calls -> {"idle", "asking", "issued", "sent", "ended"}]
         /\ outcome' \in [Calls -> Outcomes]
  BY DEF End, TypeOK

LEMMA DropTypes ==
  ASSUME TypeOK, NEW i \in Calls, Drop(i)
  PROVE  /\ token' \in [Calls -> Token]
         /\ waited' \in [Calls -> 0 .. Stale]
  BY ApiCallsAssumption DEF Drop, TypeOK, NoToken, Token

LEMMA FaultTypes ==
  ASSUME TypeOK, Fault
  PROVE  faults' \in 0 .. MaxFaults
  BY ApiCallsAssumption DEF Fault, TypeOK

LEMMA ClientTypes ==
  ASSUME TypeOK, NEW i \in Calls,
         \/ \E r \in Requests[i] : Begin(i, r)
         \/ Issue(i) \/ Authenticate(i) \/ FailToAuthenticate(i)
         \/ Arrive(i) \/ Break(i) \/ Forget(i)
  PROVE  TypeOK'
  <1> USE ApiCallsAssumption
  <1>1. ASSUME NEW r \in Requests[i], Begin(i, r)
        PROVE  TypeOK'
    <2>1. /\ r \in Request /\ plugin \in Token
          /\ Raises("NotAuthorized") \in Outcomes
      BY DEF TypeOK, Raises, Outcomes
    <2>2. request' \in [Calls -> Request \cup {NoRequest}]
      BY <1>1, <2>1 DEF Begin, TypeOK
    <2>3. CASE End(i, Raises("NotAuthorized")) /\ UNCHANGED <<reading, token, job>>
      BY <1>1, <2>1, <2>2, <2>3, EndTypes DEF Begin, TypeOK, database
    <2>4. CASE AuthToken(i, plugin, 1) /\ UNCHANGED outcome
      BY <1>1, <2>1, <2>2, <2>4, AuthTokenTypes DEF Begin, TypeOK, database
    <2> QED
      BY <1>1, <2>3, <2>4 DEF Begin
  <1>2. CASE Issue(i)
    BY <1>2 DEF Issue, TypeOK, database, server, Token
  <1>3. CASE Authenticate(i)
    <2>1. token[i] \in Token
      BY DEF TypeOK
    <2> QED
      BY <1>3, <2>1, AuthTokenTypes, SendTypes DEF Authenticate, TypeOK, database
  <1>4. CASE FailToAuthenticate(i)
    <2>1. PICK e \in {Raises("ConnectionError"), Raises("TypeError"),
                      [raised |-> "named", status |-> 401]} : End(i, e)
      BY <1>4 DEF FailToAuthenticate
    <2>2. e \in Outcomes
      BY DEF Raises, Outcomes
    <2> QED
      BY <1>4, <2>1, <2>2, EndTypes, DropTypes, FaultTypes
      DEF FailToAuthenticate, TypeOK, database, server
  <1>5. CASE Arrive(i)
    <2>1. response[i] \in Nat
      BY DEF TypeOK
    <2>2. /\ [raised |-> "none", status |-> response[i]] \in Outcomes
          /\ FromResponse([status |-> response[i], retry_after |-> FALSE])
               \in Outcomes
      BY <2>1, FromResponseType DEF Outcomes
    <2>3. \E e \in Outcomes : End(i, e)
      BY <1>5, <2>2 DEF Arrive
    <2> QED
      BY <1>5, <2>3, EndTypes DEF Arrive, TypeOK, database
  <1>6. CASE Break(i)
    <2>1. \E e \in Outcomes : End(i, e)
      <3>1. \A b \in BOOLEAN :
              FromResponse([status |-> 503, retry_after |-> b]) \in Outcomes
        BY FromResponseType
      <3>2. \A r \in [status : {503}, retry_after : BOOLEAN] :
              FromResponse(r) \in Outcomes
        <4>1. \A r \in [status : {503}, retry_after : BOOLEAN] :
                r = [status |-> 503, retry_after |-> r.retry_after]
          OBVIOUS
        <4> QED
          BY <3>1, <4>1
      <3>3. Raises("ConnectionError") \in Outcomes
        BY DEF Raises, Outcomes
      <3> QED
        BY <1>6, <3>2, <3>3 DEF Break
    <2>2. /\ job' \in [Calls -> {"none", "coming", "calling", "answered"}]
          /\ response' \in [Calls -> Nat]
      BY <1>6 DEF Break, TypeOK
    <2>3. token' \in [Calls -> Token] /\ waited' \in [Calls -> 0 .. Stale]
      BY <1>6, DropTypes DEF Break, TypeOK
    <2> QED
      BY <1>6, <2>1, <2>2, <2>3, EndTypes, FaultTypes DEF Break, TypeOK, database
  <1>7. CASE Forget(i)
    BY <1>7 DEF Forget, TypeOK, database, server, None, Outcomes
  <1> QED
    BY <1>1, <1>2, <1>3, <1>4, <1>5, <1>6, <1>7

LEMMA ServerTypes ==
  ASSUME TypeOK, NEW i \in Calls, rpc[i] = "queued" => request[i] \in Request,
         Receive(i) \/ Answer(i) \/ TimeOut(i) \/ Conduct(i) \/ LoseRpc(i)
  PROVE  TypeOK'
  <1> USE ApiCallsAssumption
  <1>1. CASE Receive(i)
    <2>1. \/ \E n \in Nat : Respond(i, n) /\ UNCHANGED rpc
          \/ /\ job' = [job EXCEPT ![i] = "calling"]
             /\ rpc' = [rpc EXCEPT ![i] = "queued"]
             /\ UNCHANGED response
      BY <1>1, CodeType DEF Receive
    <2>2. /\ job' \in [Calls -> {"none", "coming", "calling", "answered"}]
          /\ response' \in [Calls -> Nat]
          /\ rpc' \in [Calls -> {"none", "queued", "served", "lost"}]
      BY <2>1, RespondTypes DEF TypeOK
    <2> QED
      BY <1>1, <2>2, DropTypes DEF Receive, TypeOK, database
  <1>2. CASE Answer(i)
    <2>1. \E n \in Nat : Respond(i, n)
      BY <1>2, CodeType DEF Answer
    <2> QED
      BY <1>2, <2>1, RespondTypes DEF Answer, TypeOK, database, client
  <1>3. CASE TimeOut(i)
    <2>1. \E n \in Nat : Respond(i, n)
      BY <1>3, CodeType DEF TimeOut
    <2>2. faults' \in 0 .. MaxFaults
      BY <1>3, FaultTypes DEF TimeOut, TypeOK
    <2>3. rpc' \in [Calls -> {"none", "queued", "served", "lost"}]
      BY <1>3 DEF TimeOut, TypeOK
    <2> QED
      BY <1>3, <2>1, <2>2, <2>3, RespondTypes
      DEF TimeOut, TypeOK, database, client
  <1>4. CASE Conduct(i)
    <2>1. ASSUME NEW what \in {"ok", "rows", "RemoteError"} \cup AllowedRemote,
                 Hear(i, what)
          PROVE  /\ rpc' \in [Calls -> {"none", "queued", "served", "lost"}]
                 /\ reply' \in [Calls -> {"none", "ok", "rows", "RemoteError"}
                                         \cup AllowedRemote]
      BY <2>1 DEF Hear, TypeOK
    <2>2. CASE /\ Write(request[i])
               /\ Hear(i, Reply(request[i]))
               /\ effects' = [effects EXCEPT ![i] = @ + 1]
      <3>1. Reply(request[i]) \in {"ok", "rows"}
        BY DEF Reply
      <3>2. request[i].user \in Users
        BY <1>4 DEF Conduct, Request
      <3> QED
        BY <1>4, <2>1, <2>2, <3>1, <3>2 DEF Conduct, TypeOK, client, Write
    <2>3. CASE /\ \E e \in Errors(request[i]) : Hear(i, Remote(e))
               /\ UNCHANGED <<database, effects>>
      BY <1>4, <2>1, <2>3, RemoteType DEF Conduct, TypeOK, database, client
    <2> QED
      BY <1>4, <2>2, <2>3 DEF Conduct
  <1>5. CASE LoseRpc(i)
    BY <1>5, FaultTypes DEF LoseRpc, TypeOK, database, client
  <1> QED
    BY <1>1, <1>2, <1>3, <1>4, <1>5

LEMMA WorldTypes ==
  ASSUME TypeOK, Tick \/ Revoke \/ ChangeCatalog
  PROVE  TypeOK'
  <1> USE ApiCallsAssumption
  <1>1. CASE Tick
    <2>1. \A t \in Token : Less(t) \in Token
      BY DEF Token, Less
    <2>2. token' \in [Calls -> Token]
      BY <1>1, <2>1 DEF Tick, TypeOK
    <2>3. waited' \in [Calls -> 0 .. Stale]
      BY <1>1 DEF Tick, TypeOK
    <2> QED
      BY <1>1, <2>1, <2>2, <2>3 DEF Tick, TypeOK, database, server
  <1>2. CASE Revoke
    <2>1. plugin' \in Token /\ token' \in [Calls -> Token]
      BY <1>2 DEF Revoke, TypeOK, Token
    <2> QED
      BY <1>2, <2>1, FaultTypes DEF Revoke, TypeOK, database, server
  <1>3. CASE ChangeCatalog
    BY <1>3, FaultTypes DEF ChangeCatalog, TypeOK, database, client, server
  <1> QED
    BY <1>1, <1>2, <1>3

-----------------------------------------------------------------------------
(* The inductive invariant: what is known of one call.                     *)

Asked(i) == pc[i] # "idle" => request[i] \in Request

(* Nothing has reached the API.                                            *)
Early(i) ==
  pc[i] \in {"idle", "asking", "issued"} =>
    job[i] = "none" /\ rpc[i] = "none" /\ effects[i] = 0

(* Nothing has reached the conductor.                                      *)
Coming(i) == job[i] = "coming" => rpc[i] = "none" /\ effects[i] = 0

(* Who waits for an answer gets one, or gives up.                          *)
Waits(i) ==
  /\ pc[i] = "sent" => job[i] # "none"
  /\ job[i] = "answered" => pc[i] = "sent"
  /\ job[i] = "calling" => rpc[i] # "none"
  /\ rpc[i] \in {"served", "lost"} => job[i] = "calling"

(* A request that is queued has not been carried out, and a reply says     *)
(* whether it has.                                                         *)
Told(i) ==
  /\ effects[i] \in {0, 1}
  /\ rpc[i] \in {"queued", "lost"} => effects[i] = 0
  /\ rpc[i] = "served" =>
       effects[i] = IF reply[i] \in {"ok", "rows"} THEN 1 ELSE 0

(* An answer tells the truth, and so does the end of a call.               *)
True(i) ==
  job[i] = "answered" =>
    /\ response[i] \in Statuses
    /\ response[i] = 200 => effects[i] = 1
    /\ response[i] \in 400 .. 499 /\ request[i].op # "get_project" =>
         rpc[i] = "none" /\ effects[i] = 0

Ended(i) ==
  /\ Returned(i) => effects[i] = 1
  /\ Refused(i) => job[i] = "none" /\ rpc[i] = "none" /\ effects[i] = 0

(* What a token lacks of the stale duration has been spent on the network. *)
Fresh(i) ==
  pc[i] = "issued" \/ job[i] = "coming" => token[i].ttl + waited[i] >= Stale

CallInv(i) ==
  /\ Asked(i) /\ Early(i) /\ Coming(i) /\ Waits(i)
  /\ Told(i) /\ True(i) /\ Ended(i) /\ Fresh(i)

IInv == TypeOK /\ \A i \in Calls : CallInv(i)

(* A step leaves a call alone.                                             *)
Same(i) ==
  /\ request'[i] = request[i] /\ pc'[i] = pc[i]
  /\ token'[i] = token[i] /\ waited'[i] = waited[i]
  /\ outcome'[i] = outcome[i]
  /\ job'[i] = job[i] /\ response'[i] = response[i]
  /\ rpc'[i] = rpc[i] /\ reply'[i] = reply[i]
  /\ effects'[i] = effects[i]

LEMMA SameInv == ASSUME NEW i, CallInv(i), Same(i) PROVE CallInv(i)'
  BY DEF CallInv, Same, Asked, Early, Coming, Waits, Told, True, Ended, Fresh,
         Returned, Refused

LEMMA IInit == Init => IInv
  <1> SUFFICES ASSUME Init, NEW i \in Calls PROVE CallInv(i)
    BY TypeInit DEF IInv
  <1> QED
    BY DEF Init, None, CallInv, Asked, Early, Coming, Waits, Told, True, Ended,
           Fresh, Returned, Refused

(* What the client does.                                                   *)
LEMMA ClientInv ==
  ASSUME IInv, NEW i \in Calls,
         \/ \E r \in Requests[i] : Begin(i, r)
         \/ Issue(i) \/ Authenticate(i) \/ FailToAuthenticate(i)
         \/ Arrive(i) \/ Break(i) \/ Forget(i)
  PROVE  CallInv(i)' /\ \A j \in Calls \ {i} : Same(j)
  <1> USE ApiCallsAssumption
  <1>0. TypeOK /\ CallInv(i)
    BY DEF IInv
  <1>1. ASSUME NEW r \in Requests[i], Begin(i, r)
        PROVE  CallInv(i)' /\ \A j \in Calls \ {i} : Same(j)
    <2>0. r \in Request /\ plugin.ttl \in Nat /\ waited[i] \in Nat
      BY <1>0 DEF TypeOK, Token
    <2>1. CASE End(i, Raises("NotAuthorized")) /\ UNCHANGED <<reading, token, job>>
      BY <1>0, <1>1, <2>0, <2>1
      DEF Begin, TypeOK, CallInv, Asked, Early, Coming, Waits, Told, True, Ended,
          Fresh, Returned, Refused, End, Raises, Same
    <2>2. CASE AuthToken(i, plugin, 1) /\ UNCHANGED outcome
      BY <1>0, <1>1, <2>0, <2>2
      DEF Begin, TypeOK, CallInv, Asked, Early, Coming, Waits, Told, True, Ended,
          Fresh, Returned, Refused, AuthToken, Send, WillExpireSoon, Same
    <2> QED
      BY <1>1, <2>1, <2>2 DEF Begin
  <1>2. CASE Issue(i)
    <2>1. waited[i] \in Nat
      BY <1>0 DEF TypeOK
    <2> QED
      BY <1>0, <1>2, <2>1
      DEF Issue, server, TypeOK, CallInv, Asked, Early, Coming, Waits, Told, True,
          Ended, Fresh, Returned, Refused, Same
  <1>3. CASE Authenticate(i)
    <2>1. waited[i] \in Nat /\ token[i] \in Token
      BY <1>0 DEF TypeOK
    <2> QED
      BY <1>0, <1>3, <2>1
      DEF Authenticate, TypeOK, AuthToken, Send, WillExpireSoon, CallInv, Asked,
          Early, Coming, Waits, Told, True, Ended, Fresh, Returned, Refused, Same
  <1>4. CASE FailToAuthenticate(i)
    <2>1. PICK e \in {Raises("ConnectionError"), Raises("TypeError"),
                      [raised |-> "named", status |-> 401]} : End(i, e)
      BY <1>4 DEF FailToAuthenticate
    <2>2. e.raised \notin {"none", "NotAuthorized"}
      BY DEF Raises
    <2> QED
      BY <1>0, <1>4, <2>1, <2>2
      DEF FailToAuthenticate, End, Drop, server, TypeOK, CallInv, Asked, Early,
          Coming, Waits, Told, True, Ended, Fresh, Returned, Refused, Same
  <1>5. CASE Arrive(i)
    <2>1. response[i] \in Statuses
      BY <1>0, <1>5 DEF Arrive, CallInv, True
    <2>2. ASSUME response[i] >= 400,
                 End(i, FromResponse([status |-> response[i],
                                      retry_after |-> FALSE]))
          PROVE  /\ outcome'[i].raised \notin {"none", "NotAuthorized"}
                 /\ outcome'[i].status \in {0, response[i]}
      <3> DEFINE e == FromResponse([status |-> response[i],
                                    retry_after |-> FALSE])
      <3>1. response[i] \in Nat
        BY <1>0 DEF TypeOK
      <3>2. /\ e.raised \notin {"none", "NotAuthorized"}
            /\ e.status \in {0, response[i]}
        BY <3>1, FromResponseType
      <3>3. outcome'[i] = e
        BY <1>0, <2>2 DEF End, TypeOK
      <3> QED
        BY <3>2, <3>3
    <2>3. CASE response[i] < 400
      BY <1>0, <1>5, <2>1, <2>3
      DEF Arrive, End, Statuses, TypeOK, CallInv, Asked, Early,
          Coming, Waits, Told, True, Ended, Fresh, Returned, Refused, Same
    <2>4. CASE response[i] >= 400
      BY <1>0, <1>5, <2>1, <2>2, <2>4
      DEF Arrive, End, Statuses, TypeOK, CallInv, Asked, Early,
          Coming, Waits, Told, True, Ended, Fresh, Returned, Refused, Same
    <2> QED
      BY <2>1, <2>3, <2>4 DEF Statuses
  <1>6. CASE Break(i)
    <2>1. /\ outcome'[i].raised \notin {"none", "NotAuthorized"}
          /\ outcome'[i].status \in {0, 503}
      <3>1. \A b \in BOOLEAN :
              LET e == FromResponse([status |-> 503, retry_after |-> b]) IN
              /\ e.raised \notin {"none", "NotAuthorized"}
              /\ e.status \in {0, 503}
        BY FromResponseType
      <3>2. \A r \in [status : {503}, retry_after : BOOLEAN] :
              r = [status |-> 503, retry_after |-> r.retry_after]
        OBVIOUS
      <3> QED
        BY <1>0, <1>6, <3>1, <3>2 DEF Break, End, Raises, TypeOK
    <2> QED
      BY <1>0, <1>6, <2>1
      DEF Break, End, Drop, TypeOK, CallInv, Asked, Early, Coming, Waits, Told,
          True, Ended, Fresh, Returned, Refused, Same
  <1>7. CASE Forget(i)
    BY <1>0, <1>7
    DEF Forget, None, server, TypeOK, CallInv, Asked, Early, Coming, Waits, Told,
        True, Ended, Fresh, Returned, Refused, Same
  <1> QED
    BY <1>1, <1>2, <1>3, <1>4, <1>5, <1>6, <1>7

LEMMA RespondInv ==
  ASSUME TypeOK, NEW i \in Calls, NEW n, Respond(i, n)
  PROVE  /\ job'[i] = IF pc[i] = "sent" THEN "answered" ELSE "none"
         /\ pc[i] = "sent" => response'[i] = n
         /\ \A j \in Calls \ {i} : job'[j] = job[j] /\ response'[j] = response[j]
  BY DEF Respond, TypeOK

(* What API and conductor do.                                              *)
LEMMA ServerInv ==
  ASSUME IInv, NEW i \in Calls,
         Receive(i) \/ Answer(i) \/ TimeOut(i) \/ Conduct(i) \/ LoseRpc(i)
  PROVE  CallInv(i)' /\ \A j \in Calls \ {i} : Same(j)
  <1>0. TypeOK /\ CallInv(i)
    BY DEF IInv
  <1>1. CASE Receive(i)
    <2>1. CASE /\ \E n \in Statuses \ {200} : Respond(i, n)
               /\ UNCHANGED <<rpc, effects>>
      BY <1>0, <1>1, <2>1, RespondInv
      DEF Receive, Drop, Statuses, TypeOK, CallInv, Asked, Early, Coming, Waits,
          Told, True, Ended, Fresh, Returned, Refused, Same
    <2>2. CASE /\ job' = [job EXCEPT ![i] = "calling"]
               /\ rpc' = [rpc EXCEPT ![i] = "queued"]
               /\ UNCHANGED <<response, effects>>
      BY <1>0, <1>1, <2>2
      DEF Receive, Drop, TypeOK, CallInv, Asked, Early, Coming, Waits,
          Told, True, Ended, Fresh, Returned, Refused, Same
    <2>3. CASE /\ Respond(i, 200)
               /\ effects' = [effects EXCEPT ![i] = @ + 1]
               /\ UNCHANGED rpc
      BY <1>0, <1>1, <2>3, RespondInv
      DEF Receive, Drop, Statuses, TypeOK, CallInv, Asked, Early, Coming, Waits,
          Told, True, Ended, Fresh, Returned, Refused, Same
    <2>4. \A e : Code(e) \in Statuses \ {200}
      BY CodeType DEF Statuses
    <2> QED
      BY <1>1, <2>1, <2>2, <2>3, <2>4 DEF Receive, Statuses
  <1>2. CASE Answer(i)
    <2>1. PICK n \in Statuses :
            /\ Respond(i, n)
            /\ IF reply[i] \in {"ok", "rows"} THEN n \in {200, 500} ELSE n # 200
      <3>1. \A e : Code(e) \in Statuses \ {200}
        BY CodeType DEF Statuses
      <3>2. \A op, b : JoinErrors(op, b) # {} => b
        BY DEF JoinErrors
      <3> QED
        BY <1>2, <3>1, <3>2, JoinFails DEF Answer, Statuses
    <2> QED
      BY <1>0, <1>2, <2>1, RespondInv
      DEF Answer, client, Statuses, TypeOK, CallInv, Asked, Early, Coming, Waits,
          Told, True, Ended, Fresh, Returned, Refused, Same
  <1>3. CASE TimeOut(i)
    <2>1. PICK n \in Statuses \ {200} :
            /\ Respond(i, n)
            /\ request[i].op # "get_project" => n = 500
      <3>1. request[i].op \in Ops
        BY <1>0, <1>3 DEF TimeOut, CallInv, Asked, Early, Request
      <3>2. Code(Translate(request[i].op, "MessagingTimeout")) \in Statuses \ {200}
        BY CodeType DEF Statuses
      <3> QED
        BY <1>3, <3>1, <3>2, TimeOutFails DEF TimeOut
    <2> QED
      BY <1>0, <1>3, <2>1, RespondInv
      DEF TimeOut, client, Statuses, TypeOK, CallInv, Asked, Early, Coming, Waits,
          Told, True, Ended, Fresh, Returned, Refused, Same
  <1>4. CASE Conduct(i)
    <2>1. CASE /\ Hear(i, Reply(request[i]))
               /\ effects' = [effects EXCEPT ![i] = @ + 1]
      <3>1. Reply(request[i]) \in {"ok", "rows"}
        BY DEF Reply
      <3> QED
        BY <1>0, <1>4, <2>1, <3>1
        DEF Conduct, Hear, client, TypeOK, CallInv, Asked, Early, Coming, Waits,
            Told, True, Ended, Fresh, Returned, Refused, Same
    <2>2. ASSUME NEW e, Hear(i, Remote(e)), UNCHANGED effects
          PROVE  CallInv(i)' /\ \A j \in Calls \ {i} : Same(j)
      BY <1>0, <1>4, <2>2, NoErrorIsSuccess
      DEF Conduct, Hear, client, TypeOK, CallInv, Asked, Early, Coming, Waits,
          Told, True, Ended, Fresh, Returned, Refused, Same
    <2> QED
      BY <1>4, <2>1, <2>2 DEF Conduct
  <1>5. CASE LoseRpc(i)
    BY <1>0, <1>5
    DEF LoseRpc, client, TypeOK, CallInv, Asked, Early, Coming, Waits,
        Told, True, Ended, Fresh, Returned, Refused, Same
  <1> QED
    BY <1>1, <1>2, <1>3, <1>4, <1>5

(* What happens around the calls.                                          *)
LEMMA WorldInv ==
  ASSUME IInv, Tick \/ Revoke \/ ChangeCatalog, NEW i \in Calls
  PROVE  CallInv(i)'
  <1>0. TypeOK /\ CallInv(i)
    BY DEF IInv
  <1>1. CASE Tick
    <2>1. /\ token[i].ttl \in Nat /\ waited[i] \in Nat /\ Stale \in Nat
          /\ token[i] \in Token
      BY <1>0, ApiCallsAssumption DEF TypeOK, Token
    <2>2. Less(token[i]).ttl = IF token[i].ttl > 0 THEN token[i].ttl - 1 ELSE 0
      BY <2>1 DEF Less, Token
    <2>3. Fresh(i)'
      BY <1>0, <1>1, <2>1, <2>2
      DEF Tick, server, UnderWay, CallInv, Fresh
    <2> QED
      BY <1>0, <1>1, <2>3
      DEF Tick, server, CallInv, Asked, Early, Coming, Waits, Told, True, Ended,
          Returned, Refused
  <1>2. CASE Revoke
    <2>1. token'[i].ttl = token[i].ttl
      BY <1>0, <1>2 DEF Revoke, TypeOK, Token
    <2> QED
      BY <1>0, <1>2, <2>1
      DEF Revoke, server, CallInv, Asked, Early, Coming, Waits, Told, True, Ended,
          Fresh, Returned, Refused
  <1>3. CASE ChangeCatalog
    BY <1>0, <1>3
    DEF ChangeCatalog, client, server, CallInv, Asked, Early, Coming, Waits, Told,
        True, Ended, Fresh, Returned, Refused
  <1> QED
    BY <1>1, <1>2, <1>3

LEMMA INext == IInv /\ [Next]_vars => IInv'
  <1> SUFFICES ASSUME IInv, [Next]_vars PROVE IInv'
    OBVIOUS
  <1>1. CASE UNCHANGED vars
    <2>1. \A i \in Calls : Same(i)
      BY <1>1 DEF vars, client, server, Same
    <2>2. TypeOK'
      BY <1>1 DEF vars, database, client, server, IInv, TypeOK
    <2> QED
      BY <2>1, <2>2, SameInv DEF IInv
  <1>2. ASSUME NEW i \in Calls,
               \/ \E r \in Requests[i] : Begin(i, r)
               \/ Issue(i) \/ Authenticate(i) \/ FailToAuthenticate(i)
               \/ Arrive(i) \/ Break(i) \/ Forget(i)
        PROVE  IInv'
    <2>1. TypeOK'
      BY <1>2, ClientTypes DEF IInv
    <2> QED
      BY <1>2, <2>1, ClientInv, SameInv DEF IInv
  <1>3. ASSUME NEW i \in Calls,
               Receive(i) \/ Answer(i) \/ TimeOut(i) \/ Conduct(i) \/ LoseRpc(i)
        PROVE  IInv'
    <2>1. rpc[i] = "queued" => request[i] \in Request
      BY DEF IInv, CallInv, Asked, Early
    <2>2. TypeOK'
      BY <1>3, <2>1, ServerTypes DEF IInv
    <2> QED
      BY <1>3, <2>2, ServerInv, SameInv DEF IInv
  <1>4. CASE Tick \/ Revoke \/ ChangeCatalog
    <2>1. TypeOK'
      BY <1>4, WorldTypes DEF IInv
    <2> QED
      BY <1>4, <2>1, WorldInv DEF IInv
  <1> QED
    BY <1>1, <1>2, <1>3, <1>4 DEF Next

LEMMA Invariant == Spec => []IInv
  BY IInit, INext, PTL DEF Spec

-----------------------------------------------------------------------------
(* The theorems.                                                           *)

(* The variables of client, API and conductor keep their types, whoever    *)
(* fails (client/client.py, conductor/service.py).                         *)
THEOREM TypeCorrect == Spec => []TypeOK
<1>1. IInv => TypeOK
  BY DEF IInv
<1> QED
  BY <1>1, Invariant, PTL

(* A call that returns has been carried out, and one that was refused will *)
(* never be (client.py:76, service.py:182, account.py, project.py).        *)
THEOREM AnswersAreTrue == Spec => []AnswerTellsEffect
<1>1. IInv => AnswerTellsEffect
  BY DEF IInv, CallInv, Ended, AnswerTellsEffect
<1> QED
  BY <1>1, Invariant, PTL

(* The API rejects a token of the client only if it was revoked, or was on *)
(* its way for as long as the stale duration (token.py:36, 106).           *)
THEOREM FreshTokensAreLetIn == Spec => FreshTokensPass
<1>1. ASSUME IInv, [Next]_vars, NEW i \in Calls,
             response[i] = 0, response'[i] = 401
      PROVE  ~token[i].live \/ waited[i] >= Stale
  <2>0. TypeOK /\ CallInv(i) /\ Stale \in Nat
    BY <1>1, ApiCallsAssumption DEF IInv
  <2>1. ~ UNCHANGED response
    BY <1>1
  <2>2. ASSUME NEW j \in Calls, NEW n, Respond(j, n), n # 401
        PROVE  FALSE
    BY <1>1, <2>0, <2>2 DEF Respond, TypeOK
  <2>3. ASSUME NEW j \in Calls, Receive(j)
        PROVE  ~token[i].live \/ waited[i] >= Stale
    <3>1. CASE i # j
      <4>1. \E n : Respond(j, n)
        BY <2>1, <2>3 DEF Receive
      <4> QED
        BY <1>1, <2>0, <3>1, <4>1 DEF Respond, TypeOK
    <3>2. CASE i = j
      <4>1. ~(token[i].ttl > 0 /\ token[i].live)
        BY <2>1, <2>2, <2>3, <3>2, CodeType DEF Receive
      <4>2. token[i].ttl \in Nat /\ waited[i] \in Nat
        BY <2>0 DEF TypeOK, Token
      <4>3. token[i].ttl + waited[i] >= Stale
        BY <2>0, <2>3, <3>2 DEF Receive, CallInv, Fresh
      <4> QED
        BY <2>0, <4>1, <4>2, <4>3
    <3> QED
      BY <3>1, <3>2
  <2>4. ASSUME NEW j \in Calls, Answer(j) \/ TimeOut(j)
        PROVE  FALSE
    <3>1. \E n : Respond(j, n) /\ n # 401
      BY <2>4, CodeType DEF Answer, TimeOut
    <3> QED
      BY <2>2, <3>1
  <2>5. ASSUME NEW j \in Calls, Arrive(j) \/ Break(j)
        PROVE  FALSE
    BY <1>1, <2>0, <2>5 DEF Arrive, Break, TypeOK
  <2>6. ASSUME NEW j \in Calls,
               \/ \E r \in Requests[j] : Begin(j, r)
               \/ Issue(j) \/ Authenticate(j) \/ FailToAuthenticate(j)
               \/ Forget(j) \/ Conduct(j) \/ LoseRpc(j)
        PROVE  FALSE
    BY <2>1, <2>6
    DEF Begin, Issue, Authenticate, FailToAuthenticate, Forget, Conduct, LoseRpc,
        server
  <2>7. CASE Tick \/ Revoke \/ ChangeCatalog \/ UNCHANGED vars
    BY <2>1, <2>7 DEF Tick, Revoke, ChangeCatalog, vars, server
  <2> QED
    BY <1>1, <2>3, <2>4, <2>5, <2>6, <2>7 DEF Next
<1>2. IInv /\ [Next]_vars =>
        [\A i \in Calls : response[i] = 0 /\ response'[i] = 401 =>
                            ~token[i].live \/ waited[i] >= Stale]_vars
  BY <1>1
<1> QED
  BY <1>2, Invariant, PTL DEF Spec, FreshTokensPass

-----------------------------------------------------------------------------
(* Client, API and conductor are an AtMostOnce.                            *)

Phases == [i \in Calls |-> Phase(i)]

(* What may happen to one call, as AtMostOnce has it.                      *)
Moves(i) ==
  \/ Phase(i)' = Phase(i) /\ effects'[i] = effects[i]
  \/ /\ Phase(i) = "idle" /\ Phase(i)' \in {"called", "refused"}
     /\ effects'[i] = effects[i]
  \/ /\ Phase(i) \in {"called", "unknown"} /\ Phase(i)' = Phase(i)
     /\ effects[i] = 0 /\ effects'[i] = 1
  \/ /\ Phase(i) = "called" /\ Phase(i)' = "returned"
     /\ effects[i] = 1 /\ effects'[i] = 1
  \/ /\ Phase(i) = "called" /\ Phase(i)' = "refused"
     /\ effects[i] = 0 /\ effects'[i] = 0
  \/ /\ Phase(i) = "called" /\ Phase(i)' = "unknown"
     /\ effects'[i] = effects[i]
  \/ /\ Phase(i) \in {"returned", "refused", "unknown"} /\ Phase(i)' = "idle"
     /\ effects'[i] = 0

LEMMA MovesAreSteps ==
  ASSUME TypeOK, TypeOK', NEW i \in Calls, Moves(i),
         \A j \in Calls \ {i} : Phase(j)' = Phase(j) /\ effects'[j] = effects[j]
  PROVE  [Once!Next]_<<Phases, effects>>
  <1>1. /\ Phases' = [Phases EXCEPT ![i] = Phase(i)']
        /\ Phases[i] = Phase(i)
    BY DEF Phases
  <1>2. effects' = [effects EXCEPT ![i] = effects'[i]]
    BY DEF TypeOK
  <1>3. effects'[i] = effects[i] => effects' = effects
    BY DEF TypeOK
  <1>4. CASE Phase(i)' = Phase(i) /\ effects'[i] = effects[i]
    BY <1>3, <1>4 DEF Phases
  <1>5. CASE /\ Phase(i) = "idle" /\ Phase(i)' \in {"called", "refused"}
             /\ effects'[i] = effects[i]
    BY <1>1, <1>3, <1>5 DEF Once!Next, Once!Call, Phases
  <1>6. CASE /\ Phase(i) \in {"called", "unknown"} /\ Phase(i)' = Phase(i)
             /\ effects[i] = 0 /\ effects'[i] = 1
    <2>1. Phases' = Phases
      BY <1>6 DEF Phases
    <2> QED
      BY <1>1, <1>2, <1>6, <2>1 DEF Once!Next, Once!TakeEffect, Phases
  <1>7. CASE /\ Phase(i) = "called" /\ Phase(i)' = "returned"
             /\ effects[i] = 1 /\ effects'[i] = 1
    BY <1>1, <1>3, <1>7 DEF Once!Next, Once!Return, Phases
  <1>8. CASE /\ Phase(i) = "called" /\ Phase(i)' = "refused"
             /\ effects[i] = 0 /\ effects'[i] = 0
    BY <1>1, <1>3, <1>8 DEF Once!Next, Once!Refuse, Phases
  <1>9. CASE /\ Phase(i) = "called" /\ Phase(i)' = "unknown"
             /\ effects'[i] = effects[i]
    BY <1>1, <1>3, <1>9 DEF Once!Next, Once!GiveUp, Phases
  <1>10. CASE /\ Phase(i) \in {"returned", "refused", "unknown"}
              /\ Phase(i)' = "idle" /\ effects'[i] = 0
    BY <1>1, <1>2, <1>10 DEF Once!Next, Once!Forget, Phases
  <1> QED
    BY <1>4, <1>5, <1>6, <1>7, <1>8, <1>9, <1>10 DEF Moves

LEMMA SamePhase ==
  ASSUME NEW i, Same(i)
  PROVE  Phase(i)' = Phase(i) /\ effects'[i] = effects[i]
  BY DEF Same, Phase, Returned, Refused

(* No call has both returned and been refused.                             *)
LEMMA PhaseIs ==
  IInv => \A i \in Calls :
            /\ pc[i] = "idle" => Phase(i) = "idle"
            /\ Returned(i) => Phase(i) = "returned" /\ effects[i] = 1
            /\ Refused(i) => Phase(i) = "refused" /\ effects[i] = 0
            /\ pc[i] = "ended" /\ ~Returned(i) /\ ~Refused(i) =>
                 Phase(i) = "unknown"
            /\ pc[i] \in {"asking", "issued", "sent"} => Phase(i) = "called"
  BY DEF IInv, CallInv, Ended, Phase, Returned, Refused

LEMMA ClientMoves ==
  ASSUME IInv, IInv', NEW i \in Calls,
         \/ \E r \in Requests[i] : Begin(i, r)
         \/ Issue(i) \/ Authenticate(i) \/ FailToAuthenticate(i)
         \/ Arrive(i) \/ Break(i) \/ Forget(i)
  PROVE  Moves(i)
  <1>0. TypeOK /\ CallInv(i) /\ CallInv(i)'
    BY DEF IInv
  <1>1. /\ pc[i] = "idle" => Phase(i) = "idle"
        /\ pc[i] = "ended" => Phase(i) \in {"returned", "refused", "unknown"}
        /\ pc[i] \in {"asking", "issued", "sent"} => Phase(i) = "called"
    BY PhaseIs
  <1>2. /\ pc'[i] = "idle" => Phase(i)' = "idle"
        /\ Returned(i)' => Phase(i)' = "returned" /\ effects'[i] = 1
        /\ Refused(i)' => Phase(i)' = "refused" /\ effects'[i] = 0
        /\ pc'[i] = "ended" =>
             Returned(i)' \/ Refused(i)' \/ Phase(i)' = "unknown"
        /\ pc'[i] \in {"asking", "issued", "sent"} => Phase(i)' = "called"
    BY <1>0 DEF CallInv, Ended, Phase, Returned, Refused
  <1>3. ASSUME NEW r \in Requests[i], Begin(i, r)
        PROVE  Moves(i)
    <2>1. /\ pc[i] = "idle" /\ effects' = effects
          /\ \/ pc'[i] \in {"asking", "sent"}
             \/ Refused(i)'
      BY <1>0, <1>3
      DEF Begin, AuthToken, Send, End, Raises, Refused, TypeOK
    <2> QED
      BY <1>1, <1>2, <2>1 DEF Moves
  <1>4. CASE Issue(i) \/ Authenticate(i)
    <2>1. /\ pc[i] \in {"asking", "issued"} /\ effects' = effects
          /\ pc'[i] \in {"asking", "issued", "sent"}
      BY <1>0, <1>4 DEF Issue, Authenticate, AuthToken, Send, TypeOK
    <2> QED
      BY <1>1, <1>2, <2>1 DEF Moves
  <1>5. CASE FailToAuthenticate(i) \/ Arrive(i) \/ Break(i)
    <2>1. /\ pc[i] \in {"asking", "issued", "sent"} /\ effects' = effects
          /\ pc'[i] = "ended"
      BY <1>0, <1>5 DEF FailToAuthenticate, Arrive, Break, End, TypeOK
    <2> QED
      BY <1>0, <1>1, <1>2, <2>1 DEF Moves
  <1>6. CASE Forget(i)
    <2>1. pc[i] = "ended" /\ effects'[i] = 0 /\ pc'[i] = "idle"
      BY <1>0, <1>6 DEF Forget, TypeOK
    <2> QED
      BY <1>1, <1>2, <2>1 DEF Moves
  <1> QED
    BY <1>3, <1>4, <1>5, <1>6

LEMMA ServerMoves ==
  ASSUME IInv, NEW i \in Calls,
         Receive(i) \/ Answer(i) \/ TimeOut(i) \/ Conduct(i) \/ LoseRpc(i)
  PROVE  Moves(i)
  <1>1. TypeOK /\ CallInv(i)
    BY DEF IInv
  <1>2. UNCHANGED <<pc, outcome, request>>
    BY DEF Receive, Answer, TimeOut, Conduct, LoseRpc, client
  <1>3. Phase(i)' = Phase(i)
    BY <1>2 DEF Phase, Returned, Refused
  <1>4. CASE effects' = effects
    BY <1>3, <1>4 DEF Moves
  <1>5. CASE (Receive(i) \/ Conduct(i)) /\ effects' # effects
    <2>1. /\ rpc[i] = "queued" \/ job[i] = "coming"
          /\ effects[i] = 0 /\ effects'[i] = 1
      BY <1>1, <1>5 DEF Receive, Conduct, CallInv, Coming, Told, TypeOK
    <2>2. Phase(i) \in {"called", "unknown"}
      BY <1>1, <2>1, PhaseIs DEF CallInv, Early, Ended, TypeOK
    <2> QED
      BY <1>3, <2>1, <2>2 DEF Moves
  <1> QED
    BY <1>4, <1>5 DEF Answer, TimeOut, LoseRpc

LEMMA OnceStep ==
  ASSUME IInv, IInv', [Next]_vars
  PROVE  [Once!Next]_<<Phases, effects>>
  <1>1. TypeOK /\ TypeOK'
    BY DEF IInv
  <1>2. ASSUME NEW i \in Calls,
               \/ \E r \in Requests[i] : Begin(i, r)
               \/ Issue(i) \/ Authenticate(i) \/ FailToAuthenticate(i)
               \/ Arrive(i) \/ Break(i) \/ Forget(i)
        PROVE  [Once!Next]_<<Phases, effects>>
    BY <1>1, <1>2, ClientInv, ClientMoves, SamePhase, MovesAreSteps
  <1>3. ASSUME NEW i \in Calls,
               Receive(i) \/ Answer(i) \/ TimeOut(i) \/ Conduct(i) \/ LoseRpc(i)
        PROVE  [Once!Next]_<<Phases, effects>>
    BY <1>1, <1>3, ServerInv, ServerMoves, SamePhase, MovesAreSteps
  <1>4. CASE Tick \/ Revoke \/ ChangeCatalog \/ UNCHANGED vars
    <2>1. UNCHANGED <<pc, outcome, request, effects>>
      BY <1>4 DEF Tick, Revoke, ChangeCatalog, vars, client
    <2>2. \A i \in Calls : Phase(i)' = Phase(i)
      BY <2>1 DEF Phase, Returned, Refused
    <2> QED
      BY <2>1, <2>2 DEF Phases
  <1> QED
    BY <1>2, <1>3, <1>4 DEF Next

(* Client, API and conductor together carry out a call at most once, and   *)
(* never one that they have refused, although each of them gives up on the *)
(* others (client.py:115, service.py:182).                                 *)
THEOREM CallsTakeEffectOnce == Spec => ImplementsAtMostOnce
<1>1. Init => Once!Init
  BY DEF Init, None, Once!Init, Phase, Returned, Refused
<1>2. IInv /\ IInv' /\ [Next]_vars => [Once!Next]_<<Phases, effects>>
  BY OnceStep
<1> QED
  BY <1>1, <1>2, Invariant, PTL
  DEF Spec, ImplementsAtMostOnce, Once!Spec, Phases
=============================================================================
