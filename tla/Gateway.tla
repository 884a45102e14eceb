------------------------------- MODULE Gateway -------------------------------
(***************************************************************************)
(* The gateway process at work: requests interleave on one event loop and  *)
(* share the live configuration, a connection pool and the database.       *)
(*                                                                         *)
(* A request runs without interruption between two suspension points, so   *)
(* each action below is the code from one to the next:                     *)
(*                                                                         *)
(*   Admit     RequestContextMiddleware; then, when there is no body to    *)
(*             wait for, routing and the handler up to its first query     *)
(*   Body      the body is in: validation and the handler, likewise        *)
(*   Acquire   Database.acquire: a connection, BEGIN, set_config           *)
(*   Execute   the statement and its COMMIT (or the error it raises)       *)
(*   Fault     a timeout or a lost connection before or during COMMIT      *)
(*   Resume    the connection goes back and the handler continues with     *)
(*             its next query, or answers                                  *)
(*   Apply     a hot reload swaps the configuration (apply_config)         *)
(***************************************************************************)
EXTENDS Handlers

CONSTANTS
  Requests,    \* request slots; each serves one call
  Connections, \* the pool
  NoConnection,
  Versions,    \* names of configurations
  Configs,     \* version -> configuration
  Boot,        \* the version the process started with: routes and request models
  Calls,       \* the calls clients may make
  Table0,      \* what the table holds at first
  MaxReloads,  \* bound: hot reloads
  Faults       \* timeouts and lost connections happen

ASSUME GatewayAssumption ==
  /\ Boot \in Versions
  /\ \A v \in Versions : IsConfig(Configs[v])
  /\ Calls # {}
  /\ \A c \in Calls : IsCall(c) /\ c.res \in DOMAIN Table0
  /\ Table0 \in [DOMAIN Configs[Boot].resources -> Tables]
  /\ \A res \in DOMAIN Table0 : Unique(Table0[res])
  /\ NoConnection \notin Connections
  /\ MaxReloads \in Nat
  /\ Faults \in BOOLEAN

VARIABLES
  live,        \* version behind service, authz, account_tenants and app.state
  reloads,     \* reloads so far
  tbl,         \* resource -> table
  guc,         \* connection -> app.tenant_id in its transaction
  stage,       \* request -> where it stands
  call,        \* request -> the call it serves
  ctx,         \* request -> RequestContext: tenant and dn
  plan,        \* request -> statements still to run
  cols,        \* request -> columns its plan asked for
  conn,        \* request -> the connection it holds
  got,         \* request -> outcome of its last statement
  total,       \* request -> the count a list has fetched
  resp,        \* request -> the response
  \* History, for the properties only:
  authorised,  \* request -> the version that authorised it
  shownBy,     \* request -> the version that filtered its response
  late,        \* request -> rows whose deletion was answered before it was admitted
  effect       \* request -> rows it changed

request == <<stage, call, ctx, plan, cols, conn, got, total, resp>>
history == <<authorised, shownBy, late, effect>>
vars == <<live, reloads, tbl, guc, request, history>>

Config == Configs[live]
BootConfig == Configs[Boot]

NoCtx == [tenant |-> NoTenant, dn |-> ""]
NoOutcome == [rows |-> {}, total |-> 0, err |-> ""]
NoResponse == [status |-> 0, code |-> "", rows |-> {}, shown |-> {}, total |-> 0]
Answer(status, code) == [NoResponse EXCEPT !.status = status, !.code = code]

DeleteOps == {"delete", "bulk_delete"}

\* Rows whose deletion a client has been told of.
Acknowledged(res) ==
  UNION {{x.id : x \in resp[r].rows} :
           r \in {r \in Requests : /\ stage[r] = "done" /\ resp[r].status = 200
                                   /\ call[r].op \in DeleteOps /\ call[r].res = res}}

Codes == Refusals \cup {"", "none", "UNAUTHORIZED", "VALIDATION_ERROR", "NOT_FOUND",
                        "UNIQUE_VIOLATION", "TIMEOUT"}
Contexts == [tenant : Tenants \cup {NoTenant}, dn : {c.dn : c \in Calls} \cup {""}]
Listings == [id : Ids, row : Rows]
Received == [rows : SUBSET Listings, total : Nat, err : {"", "unique", "timeout", "other"}]
Responses == [status : Nat, code : Codes, rows : SUBSET Listings, shown : SUBSET Fields,
              total : Nat]
IsPlan(p) ==
  /\ IsSequence(p)
  /\ \A n \in DOMAIN p : p[n].res \in DOMAIN Table0 /\ IsStatement(p[n])
Stages == {"new", "body", "acquire", "execute", "return", "done"}

TypeOK ==
  /\ live \in Versions
  /\ reloads \in 0..MaxReloads
  /\ tbl \in [DOMAIN Table0 -> Tables]
  /\ guc \in [Connections -> Tenants \cup {NoTenant}]
  /\ stage \in [Requests -> Stages]
  /\ call \in [Requests -> Calls]
  /\ ctx \in [Requests -> Contexts]
  /\ DOMAIN plan = Requests
  /\ \A r \in Requests : IsPlan(plan[r])
  /\ cols \in [Requests -> SUBSET Fields]
  /\ conn \in [Requests -> Connections \cup {NoConnection}]
  /\ got \in [Requests -> Received]
  /\ total \in [Requests -> Nat]
  /\ resp \in [Requests -> Responses]
  /\ authorised \in [Requests -> Versions]
  /\ shownBy \in [Requests -> Versions]
  /\ late \in [Requests -> SUBSET Ids]
  /\ effect \in [Requests -> SUBSET Ids]

-----------------------------------------------------------------------------
(* Steps a request takes *)

Respond(r, response) ==
  /\ stage' = [stage EXCEPT ![r] = "done"]
  /\ resp' = [resp EXCEPT ![r] = response]

\* The handler up to its first suspension: refused, or a plan to run.
Handle(r, c, context) ==
  LET p == Prepare(Config, context, c)
  IN  /\ authorised' = [authorised EXCEPT ![r] = live]
      /\ \/ /\ p.code # ""
            /\ Respond(r, Answer(p.status, p.code))
            /\ UNCHANGED <<plan, cols>>
         \/ /\ p.code = ""
            /\ stage' = [stage EXCEPT ![r] = "acquire"]
            /\ plan' = [plan EXCEPT ![r] = p.plan]
            /\ cols' = [cols EXCEPT ![r] = p.cols]
            /\ UNCHANGED resp

\* The middleware reads the DN's tenant; an unknown DN is 401.  The routes are those
\* of the configuration at start-up, and an unknown one gets the framework's answer.
Admit(r, c) ==
  /\ stage[r] = "new"
  /\ call' = [call EXCEPT ![r] = c]
  /\ late' = [late EXCEPT ![r] = Acknowledged(c.res)]
  /\ \/ /\ c.dn \notin DOMAIN Config.accounts
        /\ Respond(r, Answer(401, "UNAUTHORIZED"))
        /\ UNCHANGED <<ctx, plan, cols, authorised>>
     \/ /\ c.dn \in DOMAIN Config.accounts
        /\ LET context == [tenant |-> Config.accounts[c.dn].tenant, dn |-> c.dn]
           IN  /\ ctx' = [ctx EXCEPT ![r] = context]
               /\ \/ /\ c.op \notin BootConfig.resources[c.res].ops
                     /\ Respond(r, Answer(404, "none"))
                     /\ UNCHANGED <<plan, cols, authorised>>
                  \/ /\ c.op \in BootConfig.resources[c.res].ops \cap BodyOps
                     /\ stage' = [stage EXCEPT ![r] = "body"]
                     /\ UNCHANGED <<plan, cols, resp, authorised>>
                  \/ /\ c.op \in BootConfig.resources[c.res].ops \ BodyOps
                     /\ Handle(r, c, context)
  /\ UNCHANGED <<live, reloads, tbl, guc, conn, got, total, shownBy, effect>>

\* The body has arrived: the request model accepts it or answers 400.
Body(r) ==
  /\ stage[r] = "body"
  /\ \/ /\ ~BodyValid(BootConfig, call[r])
        /\ Respond(r, Answer(400, "VALIDATION_ERROR"))
        /\ UNCHANGED <<call, plan, cols, authorised>>
     \/ /\ BodyValid(BootConfig, call[r])
        /\ LET c == [call[r] EXCEPT !.items = ParsedItems(BootConfig, call[r])]
           IN  Handle(r, c, ctx[r]) /\ UNCHANGED call
  /\ UNCHANGED <<live, reloads, tbl, guc, ctx, conn, got, total, shownBy, late, effect>>

\* Mutant of Acquire: the tenant is looked up again in the live registry.
AcquireLiveTenant(r, k) ==
  /\ stage[r] = "acquire"
  /\ \A q \in Requests : conn[q] # k
  /\ stage' = [stage EXCEPT ![r] = "execute"]
  /\ conn' = [conn EXCEPT ![r] = k]
  /\ guc' = [guc EXCEPT ![k] = IF ctx[r].dn \in DOMAIN Config.accounts
                                  THEN Config.accounts[ctx[r].dn].tenant ELSE NoTenant]
  /\ UNCHANGED <<live, reloads, tbl, call, ctx, plan, cols, got, total, resp, history>>

\* A free connection, BEGIN, and set_config('app.tenant_id', tenant, true).
Acquire(r, k) ==
  /\ stage[r] = "acquire"
  /\ \A q \in Requests : conn[q] # k
  /\ stage' = [stage EXCEPT ![r] = "execute"]
  /\ conn' = [conn EXCEPT ![r] = k]
  /\ guc' = [guc EXCEPT ![k] = ctx[r].tenant]
  /\ UNCHANGED <<live, reloads, tbl, call, ctx, plan, cols, got, total, resp, history>>

\* The transaction ends: the GUC, being local to it, is unset again.
EndTransaction(r, outcome) ==
  /\ stage' = [stage EXCEPT ![r] = "return"]
  /\ got' = [got EXCEPT ![r] = outcome]
  /\ guc' = [guc EXCEPT ![conn[r]] = NoTenant]
  /\ UNCHANGED <<live, reloads, call, ctx, plan, cols, conn, total, resp,
                 authorised, shownBy, late>>

Store(r, t) ==
  LET res == Head(plan[r]).res
  IN  /\ tbl' = [tbl EXCEPT ![res] = t]
      /\ effect' = [effect EXCEPT ![r] = @ \cup {i \in Ids : t[i] # tbl[res][i]}]

Possible(r) ==
  LET q == Head(plan[r]) IN Outcomes(q, guc[conn[r]], tbl[q.res])

\* The statement runs and commits, or fails and is rolled back.
Execute(r) ==
  /\ stage[r] = "execute"
  /\ \E o \in Possible(r) :
       /\ EndTransaction(r, [rows |-> o.rows, total |-> o.total, err |-> o.err])
       /\ Store(r, o.tbl)

\* command_timeout, statement_timeout or a broken connection: rolled back, or, when it
\* strikes during COMMIT, committed all the same.
Fault(r) ==
  /\ Faults
  /\ stage[r] = "execute"
  /\ \E err \in {"timeout", "other"} : EndTransaction(r, [NoOutcome EXCEPT !.err = err])
  /\ \/ UNCHANGED <<tbl, effect>>
     \/ \E o \in Possible(r) : o.err = "" /\ Store(r, o.tbl)

-----------------------------------------------------------------------------
(* The handler after its statement *)

\* Mutant of ErrorAnswer: a timeout as a refusal, which clients take for "not done".
ErrorAnswerRefusing(err) ==
  IF err = "unique" THEN Answer(409, "UNIQUE_VIOLATION")
  ELSE IF err = "timeout" THEN Answer(408, "TIMEOUT")
  ELSE Answer(500, "none")

\* _run maps three exceptions; any other ends as the framework's plain 500.
ErrorAnswer(err) ==
  IF err = "unique" THEN Answer(409, "UNIQUE_VIOLATION")
  ELSE IF err = "timeout" THEN Answer(504, "TIMEOUT")
  ELSE Answer(500, "none")

\* The operations that answer 404 when their statement returned no row.
ByIdOps == {"get", "update", "patch", "delete"}

\* Whether the rows go through _present, which looks the resource up again: those of an
\* aggregate and the keys of deleted rows do not.
Presents(c, q) ==
  c.op \notin {"bulk_delete", "aggregate"} /\ (c.op = "delete" => q.kind # "delete")

SuccessStatus(op) == IF op \in {"create", "batch_create"} THEN 201 ELSE 200

\* Mutant of Shown: the columns chosen when the request was authorised, and no others.
ShownAsAuthorised(r, q) == cols[r]

\* _present: the grant that counts is the one live now.
Shown(r, q) ==
  IF Presents(call[r], q)
    THEN ReadableFields(Config, ctx[r].dn, q.res) \cap cols[r]
    ELSE cols[r]

Present(r, q) ==
  [status |-> SuccessStatus(call[r].op), code |-> "", rows |-> got[r].rows,
   shown |-> Shown(r, q), total |-> total[r] + got[r].total]

Result(r, q) ==
  IF got[r].err # "" THEN ErrorAnswer(got[r].err)
  ELSE IF call[r].op \in ByIdOps /\ got[r].rows = {} THEN Answer(404, "NOT_FOUND")
  ELSE IF Presents(call[r], q) /\ got[r].rows # {} /\ q.res \notin DOMAIN Config.resources
    THEN Answer(404, "NOT_FOUND")
  ELSE Present(r, q)

\* Mutant of Resume: a statement that timed out is tried again.
ResumeRetrying(r) ==
  /\ stage[r] = "return"
  /\ conn' = [conn EXCEPT ![r] = NoConnection]
  /\ \/ /\ got[r].err = "timeout"
        /\ stage' = [stage EXCEPT ![r] = "acquire"]
        /\ UNCHANGED <<plan, total, resp, shownBy>>
     \/ /\ got[r].err = "" /\ Tail(plan[r]) # <<>>
        /\ stage' = [stage EXCEPT ![r] = "acquire"]
        /\ plan' = [plan EXCEPT ![r] = Tail(@)]
        /\ total' = [total EXCEPT ![r] = got[r].total]
        /\ UNCHANGED <<resp, shownBy>>
     \/ /\ got[r].err \notin {"", "timeout"} \/ (got[r].err = "" /\ Tail(plan[r]) = <<>>)
        /\ Respond(r, Result(r, Head(plan[r])))
        /\ shownBy' = [shownBy EXCEPT ![r] = live]
        /\ UNCHANGED <<plan, total>>
  /\ UNCHANGED <<live, reloads, tbl, guc, call, ctx, cols, got, authorised, late, effect>>

Resume(r) ==
  /\ stage[r] = "return"
  /\ conn' = [conn EXCEPT ![r] = NoConnection]
  /\ \/ /\ got[r].err = "" /\ Tail(plan[r]) # <<>>
        /\ stage' = [stage EXCEPT ![r] = "acquire"]
        /\ plan' = [plan EXCEPT ![r] = Tail(@)]
        /\ total' = [total EXCEPT ![r] = got[r].total]
        /\ UNCHANGED <<resp, shownBy>>
     \/ /\ got[r].err # "" \/ Tail(plan[r]) = <<>>
        /\ Respond(r, Result(r, Head(plan[r])))
        /\ shownBy' = [shownBy EXCEPT ![r] = live]
        /\ UNCHANGED <<plan, total>>
  /\ UNCHANGED <<live, reloads, tbl, guc, call, ctx, cols, got, authorised, late, effect>>

\* apply_config, called by poll() in one event-loop step.
Apply(v) ==
  /\ reloads < MaxReloads
  /\ live' = v
  /\ reloads' = reloads + 1
  /\ UNCHANGED <<tbl, guc, request, history>>

\* Every client has its answer: the bounded workload is over.
Finished ==
  /\ \A r \in Requests : stage[r] = "done"
  /\ UNCHANGED vars

-----------------------------------------------------------------------------
Init ==
  /\ live = Boot
  /\ reloads = 0
  /\ tbl = Table0
  /\ guc = [k \in Connections |-> NoTenant]
  /\ stage = [r \in Requests |-> "new"]
  /\ call = [r \in Requests |-> CHOOSE c \in Calls : TRUE]
  /\ ctx = [r \in Requests |-> NoCtx]
  /\ plan = [r \in Requests |-> <<>>]
  /\ cols = [r \in Requests |-> {}]
  /\ conn = [r \in Requests |-> NoConnection]
  /\ got = [r \in Requests |-> NoOutcome]
  /\ total = [r \in Requests |-> 0]
  /\ resp = [r \in Requests |-> NoResponse]
  /\ authorised = [r \in Requests |-> Boot]
  /\ shownBy = [r \in Requests |-> Boot]
  /\ late = [r \in Requests |-> {}]
  /\ effect = [r \in Requests |-> {}]

Serve(r) ==
  \/ \E k \in Connections : Acquire(r, k)
  \/ Execute(r)
  \/ Fault(r)
  \/ Resume(r)

Next ==
  \/ \E r \in Requests, c \in Calls : Admit(r, c)
  \/ \E r \in Requests : Body(r) \/ Serve(r)
  \/ \E v \in Versions : Apply(v)
  \/ Finished

\* The event loop and the pool serve every request that is past its body; clients owe
\* neither a request nor a body, and nobody has to reload.
Spec == Init /\ [][Next]_vars /\ \A r \in Requests : WF_vars(Serve(r))

-----------------------------------------------------------------------------
(* Properties *)

Answered(r) == stage[r] = "done"
Succeeded(r) == Answered(r) /\ resp[r].status \in {200, 201}
RespIds(r) == {x.id : x \in resp[r].rows}

\* No row of another tenant reaches a request, however the others interleave, whatever
\* connection it is given and whatever is reloaded meanwhile (access-control/spec.md:53).
ResponseIsolation ==
  \A r \in Requests : \A x \in got[r].rows \cup resp[r].rows :
    x.row.tenant_id = ctx[r].tenant

\* Every row this step changes belongs, before and after, to the tenant of the request
\* whose statement it is.
ChangesOwnRows ==
  \A res \in DOMAIN tbl : \A i \in Ids : tbl'[res][i] # tbl[res][i] =>
    \E r \in Requests :
      /\ stage[r] = "execute" /\ stage'[r] = "return"
      /\ \A row \in {tbl[res][i], tbl'[res][i]} \cap Rows : row.tenant_id = ctx[r].tenant

\* A row changes only by the statement of a request of its tenant, and stays in it.
WritesStayInTenant == [][ChangesOwnRows]_vars

\* A refusal (4xx) means that nothing was changed, and a success that nothing else was:
\* batches are whole, and only 5xx leaves the client in doubt.  The one exception is a
\* resource that a reload removed between the commit and the answer, which is a 404.
ResponseTellsEffect ==
  \A r \in Requests : Answered(r) =>
    /\ resp[r].status \in 400..499 /\ call[r].res \in DOMAIN Configs[shownBy[r]].resources =>
         effect[r] = {}
    /\ Succeeded(r) => effect[r] \subseteq RespIds(r)
    /\ Succeeded(r) /\ call[r].op \in {"create", "batch_create"} =>
         Cardinality(RespIds(r)) = Len(call[r].items)

\* A row is reported deleted to one request at most, single and bulk deletes alike.
DeletedOnce ==
  \A r, s \in Requests :
    /\ r # s /\ Succeeded(r) /\ Succeeded(s)
    /\ call[r].op \in DeleteOps /\ call[s].op \in DeleteOps
    /\ call[r].res = call[s].res
    => RespIds(r) \cap RespIds(s) = {}

\* Once a client has been told of a deletion, no request admitted later finds the row,
\* to read it or to change it, unless it asks for deleted rows
\* (query-engine/spec.md:38-43).  An upsert may still write to it.
AckedDeleteHides ==
  \A r \in Requests :
    Succeeded(r) /\ ~call[r].withDeleted /\ call[r].op # "upsert" =>
      RespIds(r) \cap late[r] = {}

\* No sequence of calls brings a deleted row back, upserting its key included.
DeletedStaysDeleted ==
  [][\A res \in DOMAIN tbl : \A i \in Ids :
       /\ tbl[res][i] = Erased => tbl'[res][i] = Erased
       /\ tbl[res][i] \in Rows /\ tbl[res][i].deleted_at =>
            tbl'[res][i] \in Rows /\ tbl'[res][i].deleted_at]_vars

\* Whichever way a reload falls between a request's authorisation and its answer:
\*  - rows show only fields that the account may read when they are answered
\*    (access-control/spec.md:37-40), a deletion the key at most besides;
\*  - a read shows none that the grant at its start withheld, if that left it any: one
\*    that leaves none selects every readable column (builder.py:163), and a wider grant
\*    at the answer lets them through;
\*  - an aggregate, which no grant limits, shows only what the resource at its start let
\*    it group by or sum.
ShownGranted ==
  \A r \in Requests : Answered(r) =>
    LET readable(version) == ReadableFields(Configs[version], ctx[r].dn, call[r].res)
    IN  /\ call[r].op # "aggregate" =>
             resp[r].shown \subseteq readable(shownBy[r])
                               \cup (IF call[r].op \in DeleteOps THEN {"id"} ELSE {})
        /\ call[r].op \in {"list", "get"} /\ readable(authorised[r]) # {} =>
             resp[r].shown \subseteq readable(authorised[r])
        /\ call[r].op = "aggregate" /\ resp[r].shown # {} =>
             resp[r].shown \subseteq Configs[authorised[r]].resources[call[r].res].groupBy
                               \cup Configs[authorised[r]].resources[call[r].res].sumFields

\* A request that waits for a connection, however few there are, is answered.
EveryRequestAnswered ==
  \A r \in Requests : stage[r] = "acquire" ~> stage[r] = "done"

\* The tenant a request works for is the one its account has in the configuration that
\* authorised it (design.md:72-75: the swap of grants and tenants is atomic).
AuthorisedTenant ==
  \A r \in Requests : plan[r] # <<>> =>
    ctx[r].tenant = Configs[authorised[r]].accounts[ctx[r].dn].tenant

\* A bulk delete names ids or has a filter that narrows it (builder.py:268-272,
\* tests/unit/test_sql_and_acl.py:175).
BulkDeleteNarrowed ==
  \A r \in Requests : plan[r] # <<>> /\ call[r].op = "bulk_delete" =>
    \/ plan[r][1].ids # Ids
    \/ \E f \in DOMAIN plan[r][1].filters : plan[r][1].filters[f] # {}

-----------------------------------------------------------------------------
(* The promise to clients, and how this specification keeps it *)

PhaseOf(r) ==
  IF stage[r] = "new" THEN "idle"
  ELSE IF stage[r] = "done" THEN "closed"
  ELSE IF stage[r] = "return" /\ Tail(plan[r]) = <<>> THEN "acted"
  ELSE "open"

\* A 4xx is a refusal, but for the 404 of a resource a reload removed before the answer.
VerdictOf(r) ==
  IF Succeeded(r) THEN "done"
  ELSE IF resp[r].status < 500 /\ call[r].res \in DOMAIN Configs[shownBy[r]].resources
    THEN "refused"
  ELSE "unknown"

AnswerOf(r) ==
  IF stage[r] = "done" THEN [verdict |-> VerdictOf(r), rows |-> resp[r].rows]
  ELSE [verdict |-> "none", rows |-> {}]

Promise == INSTANCE TenantStore WITH
  Resources <- DOMAIN Table0,
  Contents <- Rows \cup {Unborn, Erased},
  Store0 <- Table0,
  store <- tbl,
  phase <- [r \in Requests |-> PhaseOf(r)],
  owner <- [r \in Requests |-> ctx[r].tenant],
  target <- [r \in Requests |-> call[r].res],
  touched <- effect,
  view <- [r \in Requests |-> got[r].rows],
  answer <- [r \in Requests |-> AnswerOf(r)]

\* Each request acts at most once, atomically and on its own tenant's rows, and its answer
\* tells what became of them; counts, retries and reloads in between do not show.
ImplementsTenantStore == Promise!Spec

-----------------------------------------------------------------------------
(* What the pool promises, and how requests use it *)

UseOf(r) ==
  IF stage[r] \in {"new", "body", "done"} THEN "idle"
  ELSE IF stage[r] = "acquire" THEN "waiting"
  ELSE IF stage[r] = "execute" THEN "running"
  ELSE IF got[r].err = "" THEN "served" ELSE "failed"

OwnerOf(r) == IF UseOf(r) = "idle" THEN NoTenant ELSE ctx[r].tenant

Lease == INSTANCE Leases WITH
  Users <- Requests,
  phase <- [r \in Requests |-> UseOf(r)],
  tenant <- [r \in Requests |-> OwnerOf(r)],
  has <- conn,
  bound <- guc

\* Requests use connections as ConnPool gives them: one at a time and never two at once,
\* each statement as the tenant the request was admitted for, whatever is reloaded between
\* its statements (db.py:36-60, middleware.py:61-74).
ImplementsLeases == Lease!Spec
=============================================================================
