------------------------------- MODULE Access -------------------------------
(***************************************************************************)
(* Whose rows a query reaches: the context of a request as the API makes   *)
(* it (api/hooks.py), as it arrives at the conductor (common/context.py,   *)
(* common/rpc.py), and as model_query reads it (db/sqlalchemy/api.py).     *)
(***************************************************************************)

CONSTANT NoUser  \* a context that names no user

Context(user, domain, admin, owner) ==
  [user_id |-> user, domain_id |-> domain,
   is_admin |-> admin, is_domain_owner |-> owner]

(* The hook takes user and domain from the headers that the check of the   *)
(* token has set; it tells neither administrators nor owners of domains    *)
(* apart.                                                                  *)
MakeContext(user, domain) == Context(user, domain, FALSE, FALSE)

(* Over an RPC call goes to_dict, and it leaves is_domain_owner out.       *)
Received(c) == [c EXCEPT !.is_domain_owner = FALSE]

IsUserContext(c) == ~c.is_admin /\ ~c.is_domain_owner /\ c.user_id # NoUser
IsDomainOwnerContext(c) == ~c.is_admin /\ c.is_domain_owner

(* The filters of model_query.                                             *)
Sees(c, row) ==
  /\ IsDomainOwnerContext(c) => row.domain_id = c.domain_id
  /\ IsUserContext(c) => row.user_id = c.user_id
=============================================================================
