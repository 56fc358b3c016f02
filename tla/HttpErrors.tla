----------------------------- MODULE HttpErrors -----------------------------
(***************************************************************************)
(* How a failure of shadowfiend becomes a status of HTTP, and a status an  *)
(* exception of the Python client (common/exception.py), by way of the     *)
(* RPC layer (common/rpc.py).  Exceptions stand for their class.           *)
(***************************************************************************)
EXTENDS Integers

(* Classes that inherit or set the code of a response.                     *)
Invalid ==
  {"Invalid", "InvalidChargeValue", "InvalidTransferMoneyValue",
   "NoBalanceToTransfer", "InvalidUUID", "InvalidIdentity",
   "InvalidParameterValue", "OrderRenewError", "InvalidImageRef",
   "InvalidOutputFormat", "InvalidQuotaParameter", "InvalidDeductParameter",
   "MissingRequiredParams"}
Insufficient == {"NotSufficientFund", "NotSufficientFrozenBalance"}
NotAuthorized ==
  {"NotAuthorized", "AdminRequired", "PolicyNotAuthorized",
   "OperationNotPermitted", "ImageNotAuthorized"}
NotFound ==
  {"NotFound", "EndpointNotFound", "AccountNotFound",
   "AccountByProjectNotFound", "ProjectNotFound", "UserProjectNotFound",
   "OrderBillsNotFound", "ResourceOrderNotFound", "OrderNotFound",
   "NoValidHost"}

(* Classes of the same module that leave it at 500, of those that occur.   *)
Failures ==
  {"DBError", "AccountGetFailed", "AccountUpdateFailed",
   "GetExternalBalanceFailed", "ProjectCreateFailed"}

(* The status the API answers an exception with: its code, or 500 if it    *)
(* has none.                                                               *)
Code(e) ==
  CASE e \in Invalid -> 400
    [] e \in Insufficient -> 402
    [] e \in NotAuthorized -> 403
    [] e \in NotFound -> 404
    [] e = "Overlimit" -> 423
    [] OTHER -> 500

(* The constructor fills in the text of a class, and raises another        *)
(* exception if a field of the text is not given.                          *)
Construct(e, needed, given) == IF needed \subseteq given THEN e ELSE "KeyError"

(* Of the exceptions of the conductor, only those of common/exception.py   *)
(* are raised again under their name by the caller's side.                 *)
AllowedRemote ==
  Invalid \cup Insufficient \cup NotAuthorized \cup NotFound \cup Failures

(* Mutant: the exceptions of every module come back under their names.     *)
RemoteAsIs(e) == e

Remote(e) == IF e \in AllowedRemote THEN e ELSE "RemoteError"

(* Statuses with a class of their own in the client.                       *)
ClientErrors == (400 .. 417) \cup {422}
ServerErrors == 500 .. 505
CodeMap == ClientErrors \cup ServerErrors

ErrorClass(status) ==
  CASE status \in CodeMap -> "named"
    [] status \in (500 .. 599) \ CodeMap -> "HTTPServerError"
    [] status \in (400 .. 499) \ CodeMap -> "HTTPClientError"
    [] OTHER -> "HTTPError"

(* The exception a client raises on a response: only the constructor of    *)
(* RequestEntityTooLarge knows the argument that the header retry-after    *)
(* becomes.                                                                *)
FromResponse(r) ==
  IF r.retry_after /\ r.status # 413
  THEN [raised |-> "TypeError", status |-> 0]
  ELSE [raised |-> ErrorClass(r.status), status |-> r.status]
=============================================================================
