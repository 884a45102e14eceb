--------------------------- MODULE ConnPool_proofs ---------------------------
(***************************************************************************)
(* ConnPool: statements are bound to their callers' tenants, probes tell   *)
(* the truth, and callers see no more than Leases, for any number of       *)
(* workers, connections and tenants and any failures.                      *)
(***************************************************************************)
EXTENDS ConnPool, TLAPS

\* A worker holds a connection exactly while it uses one, and shares it with nobody.
Held ==
  /\ \A w \in Workers : conn[w] = NoConnection <=> step[w] \in {"idle", "wait"}
  /\ \A w \in Workers : step[w] # "idle" => tenant[w] \in Tenants
  /\ \A w, v \in Workers : conn[w] = conn[v] /\ conn[w] # NoConnection => w = v

\* A live session that runs a statement is in a transaction and bound to its worker's
\* tenant.
Bound ==
  \A w \in Workers : step[w] \in {"bind", "run", "commit", "rollback"} /\ Alive(w) =>
    /\ inTx[conn[w]]
    /\ step[w] # "bind" => guc[conn[w]] = tenant[w]

\* Every other session has neither.
Clean ==
  \A k \in Connections : guc[k] # NoTenant \/ inTx[k] =>
    /\ link[k] = "open"
    /\ \E w \in Workers : conn[w] = k /\ step[w] \in {"bind", "run", "commit", "rollback"}

PoolInv == TypeOK /\ Held /\ Bound /\ Clean

LEMMA InitPool == Init => PoolInv
<1> SUFFICES ASSUME Init PROVE PoolInv
  OBVIOUS
<1>1. TypeOK
  BY ConnPoolAssumption DEF Init, TypeOK
<1>2. Held /\ Bound /\ Clean
  BY DEF Init, Held, Bound, Clean
<1> QED  BY <1>1, <1>2 DEF PoolInv

\* The connection of a worker that uses one.
LEMMA UsersConnection ==
  ASSUME PoolInv, NEW w \in Workers, step[w] \notin {"idle", "wait"}
  PROVE  /\ conn[w] \in Connections
         /\ \A v \in Workers \ {w} : conn[v] # conn[w]
         /\ tenant[w] \in Tenants
  BY DEF PoolInv, TypeOK, Held

LEMMA AskPool ==
  ASSUME PoolInv, NEW w \in Workers, NEW what \in {"query", "probe"}, NEW t \in Tenants,
         Ask(w, what, t)
  PROVE  PoolInv'
<1>1. TypeOK'
  BY DEF PoolInv, TypeOK, Ask, Goto, sessions
<1>2. Held' /\ Bound' /\ Clean'
  BY DEF PoolInv, TypeOK, Held, Bound, Clean, Ask, Goto, sessions, Alive
<1> QED  BY <1>1, <1>2 DEF PoolInv

LEMMA TakePool ==
  ASSUME PoolInv, NEW w \in Workers, NEW k \in Connections, Take(w, k)
  PROVE  PoolInv'
<1>1. TypeOK'
  BY DEF PoolInv, TypeOK, Take, Goto, sessions, calls
<1>2. Held'
  BY ConnPoolAssumption DEF PoolInv, TypeOK, Held, Take, Goto, calls, Free
<1>3. Bound' /\ Clean'
  BY DEF PoolInv, TypeOK, Held, Bound, Clean, Take, Goto, sessions, calls, Alive, Free
<1> QED  BY <1>1, <1>2, <1>3 DEF PoolInv

LEMMA ConnectPool ==
  ASSUME PoolInv, NEW w \in Workers, Connect(w)
  PROVE  PoolInv'
<1>1. /\ step[w] = "connect" /\ conn[w] \in Connections
      /\ \A v \in Workers \ {w} : conn[v] # conn[w]
  BY UsersConnection DEF Connect
<1>2. TypeOK'
  BY <1>1 DEF PoolInv, TypeOK, Connect, Goto, calls
<1>3. Held' /\ Bound' /\ Clean'
  BY <1>1 DEF PoolInv, TypeOK, Held, Bound, Clean, Connect, Goto, calls, Alive
<1> QED  BY <1>2, <1>3 DEF PoolInv

LEMMA BeginPool ==
  ASSUME PoolInv, NEW w \in Workers, Begin(w)
  PROVE  PoolInv'
<1>1. /\ step[w] = "begin" /\ conn[w] \in Connections /\ link[conn[w]] = "open"
      /\ \A v \in Workers \ {w} : conn[v] # conn[w]
  BY UsersConnection DEF Begin, Alive
<1>2. TypeOK'
  BY <1>1 DEF PoolInv, TypeOK, Begin, Goto, calls
<1>3. Held' /\ Bound' /\ Clean'
  BY <1>1 DEF PoolInv, TypeOK, Held, Bound, Clean, Begin, Goto, calls, Alive
<1> QED  BY <1>2, <1>3 DEF PoolInv

LEMMA BindPool ==
  ASSUME PoolInv, NEW w \in Workers, Bind(w)
  PROVE  PoolInv'
<1>1. /\ step[w] = "bind" /\ conn[w] \in Connections /\ link[conn[w]] = "open"
      /\ tenant[w] \in Tenants
      /\ \A v \in Workers \ {w} : conn[v] # conn[w]
  BY UsersConnection DEF Bind, Alive
<1>2. inTx[conn[w]] /\ BindTo(conn[w], tenant[w]) = tenant[w]
  BY <1>1 DEF PoolInv, Bound, BindTo, Alive
<1>3. TypeOK'
  BY <1>1, <1>2 DEF PoolInv, TypeOK, Bind, Goto, calls
<1>4. Held' /\ Bound' /\ Clean'
  BY <1>1, <1>2 DEF PoolInv, TypeOK, Held, Bound, Clean, Bind, Goto, calls, Alive
<1> QED  BY <1>3, <1>4 DEF PoolInv

\* The statement returns, or is cancelled.
LEMMA RunPool ==
  ASSUME PoolInv, NEW w \in Workers, Run(w) \/ TimedOut(w)
  PROVE  PoolInv'
<1>1. step[w] = "run" /\ \E next \in {"commit", "rollback"} : Goto(w, next)
  BY DEF Run, TimedOut
<1>2. UNCHANGED <<up, link, timer, guc, inTx, kind, tenant, seen, conn, outcome>>
  BY DEF Run, TimedOut, sessions, calls
<1>3. TypeOK'
  BY <1>1, <1>2 DEF PoolInv, TypeOK, Run, TimedOut, Goto
<1>4. Held' /\ Bound' /\ Clean'
  BY <1>1, <1>2 DEF PoolInv, TypeOK, Held, Bound, Clean, Goto, Alive
<1> QED  BY <1>3, <1>4 DEF PoolInv

LEMMA EndPool ==
  ASSUME PoolInv, NEW w \in Workers, End(w)
  PROVE  PoolInv'
<1>1. /\ step[w] \in {"commit", "rollback"} /\ conn[w] \in Connections
      /\ link[conn[w]] = "open"
      /\ \A v \in Workers \ {w} : conn[v] # conn[w]
  BY UsersConnection DEF End, Alive
<1>2. TypeOK'
  BY <1>1 DEF PoolInv, TypeOK, End, Goto, calls
<1>3. Held' /\ Bound' /\ Clean'
  BY <1>1 DEF PoolInv, TypeOK, Held, Bound, Clean, End, Goto, calls, Alive
<1> QED  BY <1>2, <1>3 DEF PoolInv

LEMMA BrokenPool ==
  ASSUME PoolInv, NEW w \in Workers, Broken(w)
  PROVE  PoolInv'
<1>1. /\ step[w] \in {"begin", "bind", "run", "commit", "rollback"}
      /\ conn[w] \in Connections /\ link[conn[w]] # "open"
      /\ \A v \in Workers \ {w} : conn[v] # conn[w]
  BY UsersConnection DEF Broken, Alive
<1>2. TypeOK'
  BY <1>1 DEF PoolInv, TypeOK, Broken, Goto, calls, sessions
<1>3. Held' /\ Bound' /\ Clean'
  BY <1>1 DEF PoolInv, TypeOK, Held, Bound, Clean, Broken, Goto, calls, sessions, Alive
<1> QED  BY <1>2, <1>3 DEF PoolInv

LEMMA ReleasePool ==
  ASSUME PoolInv, NEW w \in Workers, Release(w)
  PROVE  PoolInv'
<1>1. /\ step[w] = "release" /\ conn[w] \in Connections
      /\ \A v \in Workers \ {w} : conn[v] # conn[w]
  BY UsersConnection DEF Release
<1>2. guc[conn[w]] = NoTenant /\ ~inTx[conn[w]]
  BY <1>1 DEF PoolInv, Clean
<1>3. AfterUse(conn[w]) \in {"open", "none"}
  BY DEF AfterUse
<1>4. TypeOK'
  BY <1>1, <1>3 DEF PoolInv, TypeOK, Release, Goto, calls
<1>5. Held'
  BY <1>1 DEF PoolInv, TypeOK, Held, Release, Goto, calls
<1>6. Bound' /\ Clean'
  BY <1>1, <1>2 DEF PoolInv, TypeOK, Held, Bound, Clean, Release, Goto, calls, Alive
<1> QED  BY <1>4, <1>5, <1>6 DEF PoolInv

LEMMA DatabasePool ==
  ASSUME PoolInv, Crash \/ Recover \/ \E k \in Connections : Expire(k)
  PROVE  PoolInv'
<1>1. CASE Crash
  <2>1. TypeOK'
    BY <1>1 DEF PoolInv, TypeOK, Crash, calls
  <2>2. Held' /\ Bound' /\ Clean'
    BY <1>1 DEF PoolInv, TypeOK, Held, Bound, Clean, Crash, calls, Alive
  <2> QED  BY <2>1, <2>2 DEF PoolInv
<1>2. CASE Recover
  <2>1. TypeOK'
    BY <1>2 DEF PoolInv, TypeOK, Recover
  <2>2. Held' /\ Bound' /\ Clean'
    BY <1>2 DEF PoolInv, Held, Bound, Clean, Recover, Alive
  <2> QED  BY <2>1, <2>2 DEF PoolInv
<1>3. ASSUME NEW k \in Connections, Expire(k) PROVE PoolInv'
  <2>1. guc[k] = NoTenant /\ ~inTx[k]
    BY <1>3 DEF PoolInv, Clean, Expire, Free
  <2>2. TypeOK'
    BY <1>3 DEF PoolInv, TypeOK, Expire, calls
  <2>3. Held' /\ Bound' /\ Clean'
    BY <1>3, <2>1 DEF PoolInv, TypeOK, Held, Bound, Clean, Expire, Free, calls, Alive
  <2> QED  BY <2>2, <2>3 DEF PoolInv
<1> QED  BY <1>1, <1>2, <1>3

LEMMA NextPool == PoolInv /\ [Next]_vars => PoolInv'
<1> SUFFICES ASSUME PoolInv, [Next]_vars PROVE PoolInv'
  OBVIOUS
<1>1. ASSUME NEW w \in Workers, Serve(w) PROVE PoolInv'
  BY <1>1, ConnectPool, BeginPool, BindPool, RunPool, EndPool, BrokenPool, ReleasePool
     DEF Serve, StatementTimeout, CommandTimeout
<1>2. CASE UNCHANGED vars
  BY <1>2 DEF PoolInv, TypeOK, Held, Bound, Clean, Alive, vars, sessions, calls
<1> QED  BY <1>1, <1>2, AskPool, TakePool, DatabasePool DEF Next

\* Whatever fails, a statement runs in a transaction under its caller's tenant, on a
\* connection nobody else has, and a connection in the pool keeps nothing of its last use.
THEOREM PoolBindsStatements == Spec => []StatementsBound
<1>1. PoolInv => StatementsBound
  <2> SUFFICES ASSUME PoolInv PROVE StatementsBound
    OBVIOUS
  <2>1. \A w \in Workers : step[w] \in {"run", "commit"} /\ Alive(w) =>
          /\ inTx[conn[w]] /\ guc[conn[w]] = tenant[w]
          /\ \A other \in Workers \ {w} : conn[other] # conn[w]
    BY UsersConnection DEF PoolInv, Bound
  <2>2. \A k \in Connections : Free(k) => guc[k] = NoTenant /\ ~inTx[k]
    BY DEF PoolInv, Clean, Free
  <2> QED  BY <2>1, <2>2 DEF StatementsBound
<1>2. PoolInv /\ [Next]_vars => PoolInv'
  BY NextPool
<1> QED  BY InitPool, <1>1, <1>2, PTL DEF Spec

-----------------------------------------------------------------------------
(* The probe *)

\* What a call saw of the database: a session is open only while the database is up, and
\* a call that is under way while it is up has seen it.
Witnessed ==
  /\ \A k \in Connections : link[k] = "open" => up
  /\ \A w \in Workers : up /\ step[w] # "idle" => seen[w]

ProbeInv == PoolInv /\ Witnessed /\ ReadyMeansUp

LEMMA InitProbe == Init => ProbeInv
<1> SUFFICES ASSUME Init PROVE ProbeInv
  OBVIOUS
<1>1. Witnessed /\ ReadyMeansUp
  BY DEF Init, Witnessed, ReadyMeansUp
<1> QED  BY <1>1, InitPool DEF ProbeInv

\* Nobody's account of a call changes, but that of the worker whose turn it is.
LEMMA ServeProbe ==
  ASSUME ProbeInv, NEW w \in Workers, Serve(w)
  PROVE  Witnessed' /\ ReadyMeansUp'
<1>1. UNCHANGED <<up, kind, tenant, seen>>
  BY DEF Serve, Connect, Begin, Bind, Run, StatementTimeout, CommandTimeout, TimedOut, End,
         Broken, Release, sessions, calls
<1>2. step[w] # "idle" /\ \A v \in Workers \ {w} : step'[v] = step[v]
  BY DEF ProbeInv, PoolInv, TypeOK, Serve, Connect, Begin, Bind, Run, StatementTimeout,
         CommandTimeout, TimedOut, End, Broken, Release, Goto
<1>3. \A k \in Connections : link'[k] = "open" => link[k] = "open" \/ up
  <2>1. CASE Connect(w)
    BY <2>1 DEF ProbeInv, PoolInv, TypeOK, Connect
  <2>2. CASE Release(w)
    BY <2>2 DEF ProbeInv, PoolInv, TypeOK, Release, AfterUse
  <2>3. CASE UNCHANGED link
    BY <2>3
  <2> QED
    BY <2>1, <2>2, <2>3 DEF Serve, Begin, Bind, Run, StatementTimeout, CommandTimeout,
                            TimedOut, End, Broken, sessions
<1>4. /\ \A v \in Workers \ {w} : outcome'[v] = outcome[v]
      /\ outcome'[w] = "ok" => outcome[w] = "ok" \/ up
  <2>1. CASE Connect(w)
    BY <2>1 DEF ProbeInv, PoolInv, TypeOK, Connect
  <2>2. CASE End(w)
    <3>1. conn[w] \in Connections
      BY <2>2, UsersConnection DEF ProbeInv, End
    <3>2. up
      BY <2>2, <3>1 DEF ProbeInv, Witnessed, End, Alive
    <3> QED  BY <2>2, <3>2 DEF ProbeInv, PoolInv, TypeOK, End
  <2>3. CASE Broken(w)
    BY <2>3 DEF ProbeInv, PoolInv, TypeOK, Broken
  <2>4. CASE UNCHANGED outcome
    BY <2>4
  <2> QED
    BY <2>1, <2>2, <2>3, <2>4 DEF Serve, Begin, Bind, Run, StatementTimeout,
                                  CommandTimeout, TimedOut, Release
<1>5. Witnessed'
  BY <1>1, <1>2, <1>3 DEF ProbeInv, Witnessed
<1>6. ReadyMeansUp'
  BY <1>1, <1>2, <1>4 DEF ProbeInv, Witnessed, ReadyMeansUp
<1> QED  BY <1>5, <1>6

LEMMA NextProbe == ProbeInv /\ [Next]_vars => ProbeInv'
<1> SUFFICES ASSUME ProbeInv, [Next]_vars PROVE Witnessed' /\ ReadyMeansUp'
  BY NextPool DEF ProbeInv
<1> USE DEF ProbeInv, Witnessed, ReadyMeansUp
<1>1. ASSUME NEW w \in Workers, NEW what \in {"query", "probe"}, NEW t \in Tenants,
             Ask(w, what, t)
      PROVE  Witnessed' /\ ReadyMeansUp'
  BY <1>1 DEF PoolInv, TypeOK, Ask, Goto, sessions
<1>2. ASSUME NEW w \in Workers, NEW k \in Connections, Take(w, k)
      PROVE  Witnessed' /\ ReadyMeansUp'
  BY <1>2 DEF PoolInv, TypeOK, Take, Goto, sessions, calls
<1>3. CASE Crash
  BY <1>3 DEF PoolInv, TypeOK, Crash, calls
<1>4. CASE Recover
  BY <1>4 DEF PoolInv, TypeOK, Recover
<1>5. ASSUME NEW k \in Connections, Expire(k) PROVE Witnessed' /\ ReadyMeansUp'
  BY <1>5 DEF PoolInv, TypeOK, Expire, calls
<1>6. CASE UNCHANGED vars
  BY <1>6 DEF vars, sessions, calls
<1> QED  BY <1>1, <1>2, <1>3, <1>4, <1>5, <1>6, ServeProbe DEF Next

\* However often the database goes away and comes back, a probe answers ready only if the
\* database was there while the probe was under way.
THEOREM ProbesTellTruth == Spec => []ReadyMeansUp
<1>1. ProbeInv => ReadyMeansUp
  BY DEF ProbeInv
<1>2. ProbeInv /\ [Next]_vars => ProbeInv'
  BY NextProbe
<1> QED  BY InitProbe, <1>1, <1>2, PTL DEF Spec

-----------------------------------------------------------------------------
(* The refinement *)

\* The substitutions of ConnPool!Lease.
Phases == [w \in Workers |-> PhaseOf(w)]
Owners == [w \in Workers |-> OwnerOf(w)]
Holds == [w \in Workers |-> HeldBy(w)]

\* The account of a worker whose turn it is not.
Same(v) ==
  /\ step'[v] = step[v] /\ outcome'[v] = outcome[v]
  /\ tenant'[v] = tenant[v] /\ conn'[v] = conn[v]

LEMMA SameShows ==
  ASSUME NEW v \in Workers, Same(v)
  PROVE  PhaseOf(v)' = PhaseOf(v) /\ OwnerOf(v)' = OwnerOf(v) /\ HeldBy(v)' = HeldBy(v)
<1>1. PhaseOf(v)' = PhaseOf(v)
  BY DEF Same, PhaseOf
<1> QED  BY <1>1 DEF Same, OwnerOf, HeldBy

\* A step of one worker, as Leases sees it.
LEMMA OneMoves ==
  ASSUME NEW w \in Workers, \A v \in Workers \ {w} : Same(v)
  PROVE  /\ Phases' = [Phases EXCEPT ![w] = PhaseOf(w)']
         /\ Owners' = [Owners EXCEPT ![w] = OwnerOf(w)']
         /\ Holds' = [Holds EXCEPT ![w] = HeldBy(w)']
BY SameShows DEF Phases, Owners, Holds

\* A step that Leases does not see.
LEMMA Stutter ==
  ASSUME NEW w \in Workers, \A v \in Workers \ {w} : Same(v), UNCHANGED guc,
         PhaseOf(w)' = PhaseOf(w), OwnerOf(w)' = OwnerOf(w), HeldBy(w)' = HeldBy(w)
  PROVE  UNCHANGED Lease!vars
<1>1. Phases' = Phases /\ Owners' = Owners /\ Holds' = Holds
  BY OneMoves DEF Phases, Owners, Holds
<1> QED  BY <1>1 DEF Lease!vars, Phases, Owners, Holds

\* A connection that a worker is about to use shows as had by nobody.
LEMMA NotHad ==
  ASSUME PoolInv, NEW w \in Workers, step[w] \in {"begin", "bind"}
  PROVE  /\ conn[w] \in Connections
         /\ ~ Lease!Had(conn[w])
<1>1. conn[w] \in Connections /\ \A v \in Workers \ {w} : conn[v] # conn[w]
  BY UsersConnection
<1>2. \A v \in Workers : HeldBy(v) # conn[w]
  BY <1>1, ConnPoolAssumption DEF HeldBy, PhaseOf
<1> QED  BY <1>1, <1>2 DEF Lease!Had

LEMMA InitLeases == Init => Lease!Init
BY DEF Init, Lease!Init, PhaseOf, OwnerOf, HeldBy

LEMMA AskLeases ==
  ASSUME PoolInv, NEW w \in Workers, NEW what \in {"query", "probe"}, NEW t \in Tenants,
         Ask(w, what, t)
  PROVE  Lease!Call(w, t)
<1>1. \A v \in Workers \ {w} : Same(v)
  BY DEF PoolInv, TypeOK, Ask, Goto, Same
<1>2. PhaseOf(w) = "idle" /\ HeldBy(w) = NoConnection
  BY DEF Ask, PhaseOf, HeldBy
<1>3. PhaseOf(w)' = "waiting" /\ OwnerOf(w)' = t /\ HeldBy(w)' = NoConnection
  BY DEF PoolInv, TypeOK, Ask, Goto, PhaseOf, OwnerOf, HeldBy
<1>4. /\ Phases' = [Phases EXCEPT ![w] = "waiting"]
      /\ Owners' = [Owners EXCEPT ![w] = t]
      /\ Holds' = Holds
  BY <1>1, <1>2, <1>3, OneMoves DEF Holds
<1>5. guc' = guc
  BY DEF Ask, sessions
<1> QED  BY <1>2, <1>4, <1>5 DEF Lease!Call, Lease!Become, Phases, Owners, Holds

\* Taking a connection, opening it and BEGIN do not show.
LEMMA ApproachLeases ==
  ASSUME PoolInv, NEW w \in Workers,
         (\E k \in Connections : Take(w, k)) \/ (Connect(w) /\ up) \/ Begin(w)
  PROVE  UNCHANGED Lease!vars
<1>1. \A v \in Workers \ {w} : Same(v)
  BY DEF PoolInv, TypeOK, Take, Connect, Begin, Goto, Same, calls
<1>2. /\ step[w] \in {"wait", "connect", "begin"}
      /\ step'[w] \in {"connect", "begin", "bind"}
      /\ tenant'[w] = tenant[w] /\ guc' = guc
  BY DEF PoolInv, TypeOK, Take, Connect, Begin, Goto, calls, sessions
<1>3. PhaseOf(w) = "waiting" /\ PhaseOf(w)' = "waiting"
  BY <1>2 DEF PhaseOf
<1>4. OwnerOf(w)' = OwnerOf(w) /\ HeldBy(w)' = HeldBy(w)
  BY <1>2, <1>3 DEF OwnerOf, HeldBy
<1> QED  BY <1>1, <1>2, <1>3, <1>4, Stutter

LEMMA ConnectLeases ==
  ASSUME PoolInv, NEW w \in Workers, Connect(w), ~up
  PROVE  Lease!Refuse(w)
<1>1. \A v \in Workers \ {w} : Same(v)
  BY DEF PoolInv, TypeOK, Connect, Goto, Same, calls
<1>2. PhaseOf(w) = "waiting" /\ HeldBy(w) = NoConnection
  BY DEF Connect, PhaseOf, HeldBy
<1>3. PhaseOf(w)' = "idle" /\ OwnerOf(w)' = NoTenant /\ HeldBy(w)' = NoConnection
  BY DEF PoolInv, TypeOK, Connect, Goto, PhaseOf, OwnerOf, HeldBy
<1>4. /\ Phases' = [Phases EXCEPT ![w] = "idle"]
      /\ Owners' = [Owners EXCEPT ![w] = NoTenant]
      /\ Holds' = Holds
  BY <1>1, <1>2, <1>3, OneMoves DEF Holds
<1>5. guc' = guc
  BY DEF Connect
<1> QED  BY <1>2, <1>4, <1>5 DEF Lease!Refuse, Lease!Become, Phases, Owners, Holds

LEMMA BindLeases ==
  ASSUME PoolInv, NEW w \in Workers, Bind(w)
  PROVE  conn[w] \in Connections /\ Lease!Start(w, conn[w])
<1>1. \A v \in Workers \ {w} : Same(v)
  BY DEF PoolInv, TypeOK, Bind, Goto, Same, calls
<1>2. PhaseOf(w) = "waiting" /\ OwnerOf(w) = tenant[w]
  BY DEF Bind, PhaseOf, OwnerOf
<1>3. conn[w] \in Connections /\ ~ Lease!Had(conn[w])
  BY NotHad DEF Bind
<1>4. PhaseOf(w)' = "running" /\ OwnerOf(w)' = tenant[w] /\ HeldBy(w)' = conn[w]
  BY DEF PoolInv, TypeOK, Bind, Goto, PhaseOf, OwnerOf, HeldBy, calls
<1>5. /\ Phases' = [Phases EXCEPT ![w] = "running"]
      /\ Owners' = Owners
      /\ Holds' = [Holds EXCEPT ![w] = conn[w]]
  BY <1>1, <1>2, <1>4, OneMoves DEF Owners
<1>6. guc' = [guc EXCEPT ![conn[w]] = Owners[w]]
  <2>1. inTx[conn[w]]
    BY DEF PoolInv, Bound, Bind
  <2> QED  BY <1>2, <2>1 DEF Bind, BindTo, Owners
<1> QED
  BY <1>2, <1>3, <1>5, <1>6 DEF Lease!Start, Lease!Become, Phases, Owners, Holds

\* The statement returns or is cancelled: its transaction is yet to end.
LEMMA RunLeases ==
  ASSUME PoolInv, NEW w \in Workers, Run(w) \/ TimedOut(w)
  PROVE  UNCHANGED Lease!vars
<1>1. \A v \in Workers \ {w} : Same(v)
  BY DEF PoolInv, TypeOK, Run, TimedOut, Goto, Same, calls
<1>2. /\ step[w] = "run" /\ step'[w] \in {"commit", "rollback"}
      /\ tenant'[w] = tenant[w] /\ conn'[w] = conn[w] /\ guc' = guc
  BY DEF PoolInv, TypeOK, Run, TimedOut, Goto, calls, sessions
<1>3. PhaseOf(w) = "running" /\ PhaseOf(w)' = "running"
  BY <1>2 DEF PhaseOf
<1>4. OwnerOf(w)' = OwnerOf(w) /\ HeldBy(w)' = HeldBy(w)
  BY <1>2, <1>3 DEF OwnerOf, HeldBy
<1> QED  BY <1>1, <1>2, <1>3, <1>4, Stutter

\* How a statement that ran ends.
LEMMA EndLeases ==
  ASSUME PoolInv, NEW w \in Workers, End(w)
  PROVE  Lease!Serve(w) \/ Lease!Fail(w)
<1>1. \A v \in Workers \ {w} : Same(v)
  BY DEF PoolInv, TypeOK, End, Goto, Same, calls
<1>2. PhaseOf(w) = "running" /\ OwnerOf(w) = tenant[w] /\ HeldBy(w) = conn[w]
  BY DEF End, PhaseOf, OwnerOf, HeldBy
<1>3. /\ PhaseOf(w)' \in {"served", "failed"}
      /\ OwnerOf(w)' = tenant[w] /\ HeldBy(w)' = conn[w]
  BY DEF PoolInv, TypeOK, End, Goto, PhaseOf, OwnerOf, HeldBy, calls
<1>4. /\ Phases' = [Phases EXCEPT ![w] = PhaseOf(w)']
      /\ Owners' = Owners /\ Holds' = Holds
  BY <1>1, <1>2, <1>3, OneMoves DEF Owners, Holds
<1>5. guc' = [guc EXCEPT ![Holds[w]] = NoTenant]
  BY <1>2 DEF End, Holds
<1>6. guc[Holds[w]] = Owners[w]
  BY <1>2 DEF PoolInv, Bound, End, Holds, Owners
<1> QED
  BY <1>2, <1>3, <1>4, <1>5, <1>6
     DEF Lease!Serve, Lease!Fail, Lease!Become, Lease!Unbind, Phases, Owners, Holds

\* A broken connection: whatever it was bound to went with the session.
LEMMA BrokenLeases ==
  ASSUME PoolInv, NEW w \in Workers, Broken(w)
  PROVE  Lease!Fail(w) \/ (conn[w] \in Connections /\ Lease!Miss(w, conn[w]))
<1>1. \A v \in Workers \ {w} : Same(v)
  BY DEF PoolInv, TypeOK, Broken, Goto, Same, calls
<1>2. conn[w] \in Connections /\ guc[conn[w]] = NoTenant /\ guc' = guc
  BY UsersConnection DEF PoolInv, Clean, Broken, Alive, sessions
<1>3. PhaseOf(w)' = "failed" /\ OwnerOf(w)' = tenant[w] /\ HeldBy(w)' = conn[w]
  BY DEF PoolInv, TypeOK, Broken, Goto, PhaseOf, OwnerOf, HeldBy, calls
<1>4. OwnerOf(w) = tenant[w]
  BY DEF Broken, PhaseOf, OwnerOf
<1>5. /\ Phases' = [Phases EXCEPT ![w] = "failed"]
      /\ Owners' = Owners
      /\ Holds' = [Holds EXCEPT ![w] = conn[w]]
  BY <1>1, <1>3, <1>4, OneMoves DEF Owners
<1>6. CASE step[w] \in {"begin", "bind"}
  <2>1. PhaseOf(w) = "waiting"
    BY <1>6 DEF PhaseOf
  <2>2. ~ Lease!Had(conn[w])
    BY <1>6, NotHad
  <2> QED
    BY <1>2, <1>5, <2>1, <2>2 DEF Lease!Miss, Lease!Become, Phases, Owners, Holds
<1>7. CASE step[w] \in {"run", "commit", "rollback"}
  <2>1. PhaseOf(w) = "running" /\ HeldBy(w) = conn[w]
    BY <1>7 DEF PhaseOf, HeldBy
  <2>2. Holds' = Holds /\ Holds[w] = conn[w]
    BY <1>5, <2>1 DEF Holds
  <2>3. guc' = [guc EXCEPT ![Holds[w]] = NoTenant]
    BY <1>2, <2>2 DEF PoolInv, TypeOK
  <2> QED
    BY <1>5, <2>1, <2>2, <2>3
       DEF Lease!Fail, Lease!Become, Lease!Unbind, Phases, Owners, Holds
<1> QED  BY <1>6, <1>7 DEF Broken

LEMMA ReleaseLeases ==
  ASSUME PoolInv, NEW w \in Workers, Release(w)
  PROVE  Lease!Return(w)
<1>1. \A v \in Workers \ {w} : Same(v)
  BY DEF PoolInv, TypeOK, Release, Goto, Same, calls
<1>2. PhaseOf(w) \in {"served", "failed"}
  BY DEF Release, PhaseOf
<1>3. PhaseOf(w)' = "idle" /\ OwnerOf(w)' = NoTenant /\ HeldBy(w)' = NoConnection
  BY DEF PoolInv, TypeOK, Release, Goto, PhaseOf, OwnerOf, HeldBy
<1>4. /\ Phases' = [Phases EXCEPT ![w] = "idle"]
      /\ Owners' = [Owners EXCEPT ![w] = NoTenant]
      /\ Holds' = [Holds EXCEPT ![w] = NoConnection]
  BY <1>1, <1>3, OneMoves
<1>5. guc' = guc
  BY DEF Release
<1> QED  BY <1>2, <1>4, <1>5 DEF Lease!Return, Lease!Become, Phases, Owners, Holds

LEMMA DatabaseLeases ==
  ASSUME Crash \/ Recover \/ (\E k \in Connections : Expire(k)) \/ UNCHANGED vars
  PROVE  Lease!Lose \/ UNCHANGED Lease!vars
<1>1. \A v \in Workers : Same(v)
  BY DEF Crash, Recover, Expire, vars, calls, Same
<1>2. Phases' = Phases /\ Owners' = Owners /\ Holds' = Holds
  BY <1>1, SameShows DEF Phases, Owners, Holds
<1>3. guc' = guc \/ guc' = [k \in Connections |-> NoTenant]
  BY DEF Crash, Recover, Expire, vars, sessions
<1> QED  BY <1>2, <1>3 DEF Lease!Lose, Lease!vars, Phases, Owners, Holds

LEMMA NextLeases ==
  ASSUME PoolInv, [Next]_vars
  PROVE  [Lease!Next]_(Lease!vars)
<1>1. ASSUME NEW w \in Workers, NEW what \in {"query", "probe"}, NEW t \in Tenants,
             Ask(w, what, t)
      PROVE  Lease!Next
  BY <1>1, AskLeases DEF Lease!Next
<1>2. ASSUME NEW w \in Workers, NEW k \in Connections, Take(w, k)
      PROVE  UNCHANGED Lease!vars
  BY <1>2, ApproachLeases
<1>3. ASSUME NEW w \in Workers, Serve(w)
      PROVE  [Lease!Next]_(Lease!vars)
  <2>1. CASE Connect(w)
    BY <2>1, ApproachLeases, ConnectLeases DEF Lease!Next
  <2>2. CASE Begin(w)
    BY <2>2, ApproachLeases
  <2>3. CASE Bind(w)
    BY <2>3, BindLeases DEF Lease!Next
  <2>4. CASE Run(w) \/ StatementTimeout(w) \/ CommandTimeout(w)
    BY <2>4, RunLeases DEF StatementTimeout, CommandTimeout
  <2>5. CASE End(w)
    BY <2>5, EndLeases DEF Lease!Next
  <2>6. CASE Broken(w)
    BY <2>6, BrokenLeases DEF Lease!Next
  <2>7. CASE Release(w)
    BY <2>7, ReleaseLeases DEF Lease!Next
  <2> QED  BY <1>3, <2>1, <2>2, <2>3, <2>4, <2>5, <2>6, <2>7 DEF Serve
<1>4. ASSUME Crash \/ Recover \/ (\E k \in Connections : Expire(k)) \/ UNCHANGED vars
      PROVE  [Lease!Next]_(Lease!vars)
  BY <1>4, DatabaseLeases DEF Lease!Next
<1> QED  BY <1>1, <1>2, <1>3, <1>4 DEF Next

\* Whatever sessions, timers and outages do, callers see leases: each step of the pool, for
\* every instance, is a step Leases allows or one it does not see.
THEOREM PoolKeepsLeases == Spec => ImplementsLeases
<1>1. PoolInv /\ [Next]_vars => PoolInv'
  BY NextPool
<1>2. ASSUME PoolInv, [Next]_vars PROVE [Lease!Next]_(Lease!vars)
  BY <1>2, NextLeases
<1> QED  BY <1>1, <1>2, InitPool, InitLeases, PTL DEF Spec, ImplementsLeases, Lease!Spec
=============================================================================
