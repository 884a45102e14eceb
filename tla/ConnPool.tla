------------------------------ MODULE ConnPool ------------------------------
(***************************************************************************)
(* Database: asyncpg's pool of sessions, the transaction around every      *)
(* statement, its two timers, and the readiness probe, while the database  *)
(* goes away and comes back.  Gateway takes from here that a statement     *)
(* runs under its caller's tenant and that a connection that is taken      *)
(* comes back.                                                             *)
(*                                                                         *)
(* A statement may be stuck, on a lock say, and is then ended by a timer   *)
(* only: statement_timeout, which init sets in a new session, or           *)
(* command_timeout, which asyncpg keeps for every command.  The database   *)
(* obeys a cancellation, and BEGIN, set_config and COMMIT are not stuck.   *)
(***************************************************************************)
EXTENDS Naturals, FiniteSets

CONSTANTS
  Workers,       \* requests and probes, one call of fetch at a time
  Connections,   \* the pool's holders: max_size
  First,         \* the one that create_pool opens: min_size
  Tenants, NoTenant,
  NoConnection

ASSUME ConnPoolAssumption ==
  First \in Connections /\ NoConnection \notin Connections /\ NoTenant \notin Tenants

VARIABLES
  up,       \* the database accepts connections
  link,     \* connection -> "none", "open", or "lost" until the client notices
  timer,    \* connection -> its session has a statement_timeout
  guc,      \* connection -> app.tenant_id, or NoTenant
  inTx,     \* connection -> it is in a transaction
  step,     \* worker -> what it is about to do
  kind,     \* worker -> "query" or "probe"
  tenant,   \* worker -> get_request_context().tenant_id
  conn,     \* worker -> the connection it holds
  stuck,    \* worker -> its statement does not end by itself
  outcome,  \* worker -> how its last call went
  seen      \* history: worker -> the database was up at some time since it asked

sessions == <<up, link, timer, guc, inTx>>
calls == <<kind, tenant, seen>>
vars == <<sessions, step, calls, conn, stuck, outcome>>

Free(k) == \A w \in Workers : conn[w] # k
Alive(w) == link[conn[w]] = "open"

Goto(w, next) == step' = [step EXCEPT ![w] = next]

-----------------------------------------------------------------------------
(* A call *)

\* fetch, fetchrow or fetchval is called, and waits for a connection.
Ask(w, what, t) ==
  /\ step[w] = "idle"
  /\ Goto(w, "wait")
  /\ kind' = [kind EXCEPT ![w] = what]
  /\ tenant' = [tenant EXCEPT ![w] = t]
  /\ seen' = [seen EXCEPT ![w] = up]
  /\ outcome' = [outcome EXCEPT ![w] = "none"]
  /\ UNCHANGED <<sessions, conn, stuck>>

\* A holder without a live connection opens one first.
Take(w, k) ==
  /\ step[w] = "wait" /\ Free(k)
  /\ Goto(w, IF link[k] = "none" THEN "connect" ELSE "begin")
  /\ conn' = [conn EXCEPT ![w] = k]
  /\ UNCHANGED <<sessions, calls, stuck, outcome>>

\* The new session runs init: SET statement_timeout.
Connect(w) ==
  /\ step[w] = "connect"
  /\ \/ /\ up
        /\ Goto(w, "begin")
        /\ link' = [link EXCEPT ![conn[w]] = "open"]
        /\ timer' = [timer EXCEPT ![conn[w]] = TRUE]
        /\ UNCHANGED <<conn, outcome>>
     \/ /\ ~up
        /\ Goto(w, "idle")
        /\ conn' = [conn EXCEPT ![w] = NoConnection]
        /\ outcome' = [outcome EXCEPT ![w] = "failed"]
        /\ UNCHANGED <<link, timer>>
  /\ UNCHANGED <<up, guc, inTx, calls, stuck>>

\* Mutant of Begin: acquire() opens no transaction.
BeginNothing(w) ==
  /\ step[w] = "begin" /\ Alive(w)
  /\ Goto(w, "bind")
  /\ UNCHANGED <<sessions, calls, conn, stuck, outcome>>

\* conn.transaction().
Begin(w) ==
  /\ step[w] = "begin" /\ Alive(w)
  /\ Goto(w, "bind")
  /\ inTx' = [inTx EXCEPT ![conn[w]] = TRUE]
  /\ UNCHANGED <<up, link, timer, guc, calls, conn, stuck, outcome>>

\* set_config('app.tenant_id', ctx.tenant_id, true): gone outside a transaction.
BindTo(k, t) == IF inTx[k] THEN t ELSE NoTenant

\* _apply_rls_tenant, then the statement is sent; SELECT 1 waits for nothing.
Bind(w) ==
  /\ step[w] = "bind" /\ Alive(w)
  /\ Goto(w, "run")
  /\ guc' = [guc EXCEPT ![conn[w]] = BindTo(conn[w], tenant[w])]
  /\ \E slow \in BOOLEAN :
       /\ kind[w] = "probe" => ~slow
       /\ stuck' = [stuck EXCEPT ![w] = slow]
  /\ UNCHANGED <<up, link, timer, inTx, calls, conn, outcome>>

Run(w) ==
  /\ step[w] = "run" /\ Alive(w) /\ ~stuck[w]
  /\ Goto(w, "commit")
  /\ UNCHANGED <<sessions, calls, conn, stuck, outcome>>

TimedOut(w) ==
  /\ step[w] = "run" /\ Alive(w) /\ stuck[w]
  /\ Goto(w, "rollback")
  /\ stuck' = [stuck EXCEPT ![w] = FALSE]
  /\ UNCHANGED <<sessions, calls, conn, outcome>>

\* QueryCanceledError.
StatementTimeout(w) == TimedOut(w) /\ timer[conn[w]]

\* Mutant of CommandTimeout: create_pool is given none.
NoCommandTimeout(w) == FALSE

\* TimeoutError.
CommandTimeout(w) == TimedOut(w)

\* Mutant of End: the setting is not local to the transaction (set_config with false).
EndBound(w) ==
  /\ step[w] \in {"commit", "rollback"} /\ Alive(w)
  /\ Goto(w, "release")
  /\ inTx' = [inTx EXCEPT ![conn[w]] = FALSE]
  /\ outcome' = [outcome EXCEPT ![w] = IF step[w] = "commit" THEN "ok" ELSE "timeout"]
  /\ UNCHANGED <<up, link, timer, guc, calls, conn, stuck>>

\* The transaction ends, and with it the local setting.
End(w) ==
  /\ step[w] \in {"commit", "rollback"} /\ Alive(w)
  /\ Goto(w, "release")
  /\ guc' = [guc EXCEPT ![conn[w]] = NoTenant]
  /\ inTx' = [inTx EXCEPT ![conn[w]] = FALSE]
  /\ outcome' = [outcome EXCEPT ![w] = IF step[w] = "commit" THEN "ok" ELSE "timeout"]
  /\ UNCHANGED <<up, link, timer, calls, conn, stuck>>

\* Mutant of Broken: the probe's handler of errors answers as if there were none.
BrokenIgnored(w) ==
  /\ step[w] \in {"begin", "bind", "run", "commit", "rollback"} /\ ~Alive(w)
  /\ Goto(w, "release")
  /\ outcome' = [outcome EXCEPT ![w] = IF kind[w] = "probe" THEN "ok" ELSE "failed"]
  /\ stuck' = [stuck EXCEPT ![w] = FALSE]
  /\ UNCHANGED <<sessions, calls, conn>>

\* A command meets a connection that is gone; the probe answers 503.
Broken(w) ==
  /\ step[w] \in {"begin", "bind", "run", "commit", "rollback"} /\ ~Alive(w)
  /\ Goto(w, "release")
  /\ outcome' = [outcome EXCEPT ![w] = "failed"]
  /\ stuck' = [stuck EXCEPT ![w] = FALSE]
  /\ UNCHANGED <<sessions, calls, conn>>

\* Mutant of AfterUse: a connection goes back as it is.
AfterUseUnchecked(k) == link[k]

\* A broken connection is dropped, any other goes back to the pool.
AfterUse(k) == IF link[k] = "open" THEN "open" ELSE "none"

\* The pool's reset of the session, RESET ALL among it, which undoes init as well.
Release(w) ==
  /\ step[w] = "release"
  /\ Goto(w, "idle")
  /\ conn' = [conn EXCEPT ![w] = NoConnection]
  /\ link' = [link EXCEPT ![conn[w]] = AfterUse(conn[w])]
  /\ timer' = [timer EXCEPT ![conn[w]] = FALSE]
  /\ UNCHANGED <<up, guc, inTx, calls, stuck, outcome>>

-----------------------------------------------------------------------------
(* The database and idle connections *)

\* Every session is gone, transactions and settings with it.
Crash ==
  /\ up
  /\ up' = FALSE
  /\ link' = [k \in Connections |-> IF link[k] = "open" THEN "lost" ELSE link[k]]
  /\ guc' = [k \in Connections |-> NoTenant]
  /\ inTx' = [k \in Connections |-> FALSE]
  /\ timer' = [k \in Connections |-> FALSE]
  /\ UNCHANGED <<step, calls, conn, stuck, outcome>>

Recover ==
  /\ ~up
  /\ up' = TRUE
  /\ seen' = [w \in Workers |-> TRUE]
  /\ UNCHANGED <<link, timer, guc, inTx, step, kind, tenant, conn, stuck, outcome>>

\* An idle connection reaches its lifetime, or is seen to be lost.
Expire(k) ==
  /\ Free(k) /\ link[k] # "none"
  /\ link' = [link EXCEPT ![k] = "none"]
  /\ timer' = [timer EXCEPT ![k] = FALSE]
  /\ UNCHANGED <<up, guc, inTx, step, calls, conn, stuck, outcome>>

Init ==
  /\ up = TRUE
  /\ link = [k \in Connections |-> IF k = First THEN "open" ELSE "none"]
  /\ timer = [k \in Connections |-> k = First]
  /\ guc = [k \in Connections |-> NoTenant]
  /\ inTx = [k \in Connections |-> FALSE]
  /\ step = [w \in Workers |-> "idle"]
  /\ kind = [w \in Workers |-> "query"]
  /\ tenant = [w \in Workers |-> NoTenant]
  /\ conn = [w \in Workers |-> NoConnection]
  /\ stuck = [w \in Workers |-> FALSE]
  /\ outcome = [w \in Workers |-> "none"]
  /\ seen = [w \in Workers |-> FALSE]

Serve(w) ==
  \/ Connect(w) \/ Begin(w) \/ Bind(w) \/ Run(w)
  \/ StatementTimeout(w) \/ CommandTimeout(w)
  \/ End(w) \/ Broken(w) \/ Release(w)

Next ==
  \/ \E w \in Workers :
       \/ \E what \in {"query", "probe"}, t \in Tenants : Ask(w, what, t)
       \/ \E k \in Connections : Take(w, k)
       \/ Serve(w)
  \/ Crash \/ Recover
  \/ \E k \in Connections : Expire(k)

\* A call that has its connection goes on, and timers fire.  Waiters owe each other no
\* order, and nobody has to call, to crash or to recover.
Spec == Init /\ [][Next]_vars /\ \A w \in Workers : WF_vars(Serve(w))

-----------------------------------------------------------------------------
(* Properties *)

TypeOK ==
  /\ up \in BOOLEAN
  /\ link \in [Connections -> {"none", "open", "lost"}]
  /\ timer \in [Connections -> BOOLEAN] /\ inTx \in [Connections -> BOOLEAN]
  /\ guc \in [Connections -> Tenants \cup {NoTenant}]
  /\ step \in [Workers -> {"idle", "wait", "connect", "begin", "bind", "run", "commit",
                           "rollback", "release"}]
  /\ kind \in [Workers -> {"query", "probe"}]
  /\ tenant \in [Workers -> Tenants \cup {NoTenant}]
  /\ conn \in [Workers -> Connections \cup {NoConnection}]
  /\ stuck \in [Workers -> BOOLEAN] /\ seen \in [Workers -> BOOLEAN]
  /\ outcome \in [Workers -> {"none", "ok", "timeout", "failed"}]

\* A statement runs in a transaction, under its caller's tenant, on a connection nobody
\* else has; a connection nobody has keeps no tenant, whatever failed under it
\* (db.py:39-52).
StatementsBound ==
  /\ \A w \in Workers : step[w] \in {"run", "commit"} /\ Alive(w) =>
       /\ inTx[conn[w]] /\ guc[conn[w]] = tenant[w]
       /\ \A other \in Workers \ {w} : conn[other] # conn[w]
  /\ \A k \in Connections : Free(k) => guc[k] = NoTenant /\ ~inTx[k]

\* A connection that is taken comes back, stuck statements included: the first use of a
\* session has statement_timeout, but RESET ALL takes it away, and then command_timeout is
\* what ends them.
EveryUseEnds ==
  \A w \in Workers : conn[w] # NoConnection ~> conn[w] = NoConnection

\* The probe says ready only if the database was there during the probe
\* (main.py:135-136).
ReadyMeansUp ==
  \A w \in Workers : kind[w] = "probe" /\ outcome[w] = "ok" => seen[w]

\* Once the database stays up, probes fail no more after a while: connections that broke
\* do not stay in the pool.
ProbesRecover ==
  <>[]up =>
    <>[][\A w \in Workers : kind[w] = "probe" /\ outcome'[w] = "failed" =>
                              outcome[w] = "failed"]_vars

-----------------------------------------------------------------------------
(* The promise to Gateway, and how the pool keeps it *)

\* Until it is bound, a connection that is taken shows to nobody.
PhaseOf(w) ==
  IF step[w] = "idle" THEN "idle"
  ELSE IF step[w] \in {"wait", "connect", "begin", "bind"} THEN "waiting"
  ELSE IF step[w] \in {"run", "commit", "rollback"} THEN "running"
  ELSE IF outcome[w] = "ok" THEN "served" ELSE "failed"

OwnerOf(w) == IF PhaseOf(w) = "idle" THEN NoTenant ELSE tenant[w]

HeldBy(w) == IF PhaseOf(w) \in {"idle", "waiting"} THEN NoConnection ELSE conn[w]

Lease == INSTANCE Leases WITH
  Users <- Workers,
  phase <- [w \in Workers |-> PhaseOf(w)],
  tenant <- [w \in Workers |-> OwnerOf(w)],
  has <- [w \in Workers |-> HeldBy(w)],
  bound <- guc

\* Timers, lost connections, sessions that expire and outages in whatever order: a call of
\* fetch ends well only on a connection of its own that was bound to its tenant throughout,
\* and leaves nothing of it behind (db.py:36-60).
ImplementsLeases == Lease!Spec
=============================================================================
