--------------------------- MODULE MCBillingOwner ---------------------------
(***************************************************************************)
(* Small instances of BillingOwner: A and B have accounts, and A owns P;   *)
(* C and Q may be created.                                                 *)
(***************************************************************************)
EXTENDS BillingOwner

CONSTANTS A, B, C, P, Q, T1, T2

MCUsers == {A, B, C}
MCProjects == {P, Q}
MCThreads == {T1, T2}
MCRegistered == {A, B}
MCFirst == [p \in Projects |-> IF p = P THEN A ELSE NoUser]

Put(u, p) == [op |-> "put_role", user |-> u, project |-> p]
Unput(u, p) == [op |-> "delete_role", user |-> u, project |-> p]

AllRequests ==
  {Put(u, P) : u \in Users} \cup {Unput(u, P) : u \in {A, B}}
    \cup {Put(B, Q), [op |-> "put_owner", user |-> B, project |-> P],
          [op |-> "post_user", user |-> C],
          [op |-> "delete_user", user |-> B],
          [op |-> "post_project", project |-> Q],
          [op |-> "delete_project", project |-> Q]}

OnlyPuts == {Put(u, P) : u \in Users}
OnlyApi == {[op |-> "put_owner", user |-> u, project |-> P] : u \in Users}
=============================================================================
