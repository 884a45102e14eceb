------------------------------- MODULE Leases -------------------------------
(***************************************************************************)
(* What Database promises the code that calls it, without saying how: a    *)
(* statement that ends well ran on a connection of its own, which was      *)
(* bound to its caller's tenant from its start to its end, and nothing of  *)
(* the tenant stays on the connection.  Everything else is a failure.      *)
(*                                                                         *)
(* ConnPool implements this specification with sessions, transactions and  *)
(* timers (ConnPool!ImplementsLeases); Gateway's statements keep to it     *)
(* (Gateway!ImplementsLeases).                                             *)
(***************************************************************************)
CONSTANTS
  Users,         \* whoever awaits a statement
  Connections, NoConnection,
  Tenants, NoTenant

VARIABLES
  phase,   \* user -> "idle", "waiting", "running", "served" or "failed"
  tenant,  \* user -> the tenant of its call, or NoTenant when idle
  has,     \* user -> the connection it runs on, or NoConnection
  bound    \* connection -> the tenant its session is bound to, or NoTenant

vars == <<phase, tenant, has, bound>>

Init ==
  /\ phase = [u \in Users |-> "idle"]
  /\ tenant = [u \in Users |-> NoTenant]
  /\ has = [u \in Users |-> NoConnection]
  /\ bound = [k \in Connections |-> NoTenant]

Become(u, next) == phase' = [phase EXCEPT ![u] = next]

Had(k) == \E u \in Users : has[u] = k

Call(u, t) ==
  /\ phase[u] = "idle"
  /\ Become(u, "waiting")
  /\ tenant' = [tenant EXCEPT ![u] = t]
  /\ UNCHANGED <<has, bound>>

\* No connection can be opened.
Refuse(u) ==
  /\ phase[u] = "waiting"
  /\ Become(u, "idle")
  /\ tenant' = [tenant EXCEPT ![u] = NoTenant]
  /\ UNCHANGED <<has, bound>>

\* The statement starts, on a connection nobody has.
Start(u, k) ==
  /\ phase[u] = "waiting" /\ ~Had(k)
  /\ Become(u, "running")
  /\ has' = [has EXCEPT ![u] = k]
  /\ bound' = [bound EXCEPT ![k] = tenant[u]]
  /\ UNCHANGED tenant

\* The connection breaks before the statement starts.
Miss(u, k) ==
  /\ phase[u] = "waiting" /\ ~Had(k)
  /\ Become(u, "failed")
  /\ has' = [has EXCEPT ![u] = k]
  /\ UNCHANGED <<tenant, bound>>

Unbind(u) == bound' = [bound EXCEPT ![has[u]] = NoTenant]

\* The statement ends well: it is still bound to its caller's tenant.
Serve(u) ==
  /\ phase[u] = "running" /\ bound[has[u]] = tenant[u]
  /\ Become(u, "served")
  /\ Unbind(u)
  /\ UNCHANGED <<tenant, has>>

\* An error, a timer, or a connection that breaks.
Fail(u) ==
  /\ phase[u] = "running"
  /\ Become(u, "failed")
  /\ Unbind(u)
  /\ UNCHANGED <<tenant, has>>

\* The connection goes back, and the caller is done or goes on to its next statement, as the
\* same tenant.
Return(u) ==
  /\ phase[u] \in {"served", "failed"}
  /\ has' = [has EXCEPT ![u] = NoConnection]
  /\ \/ Become(u, "idle") /\ tenant' = [tenant EXCEPT ![u] = NoTenant]
     \/ Become(u, "waiting") /\ UNCHANGED tenant
  /\ UNCHANGED bound

\* The database goes away, and every session with it.
Lose ==
  /\ bound' = [k \in Connections |-> NoTenant]
  /\ UNCHANGED <<phase, tenant, has>>

Next ==
  \/ \E u \in Users :
       \/ \E t \in Tenants : Call(u, t)
       \/ \E k \in Connections : Start(u, k) \/ Miss(u, k)
       \/ Refuse(u) \/ Serve(u) \/ Fail(u) \/ Return(u)
  \/ Lose

Spec == Init /\ [][Next]_vars
=============================================================================
