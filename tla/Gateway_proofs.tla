--------------------------- MODULE Gateway_proofs ---------------------------
(***************************************************************************)
(* Gateway: type correctness, tenant isolation, what responses show and    *)
(* what becomes of deleted rows, for any number of requests, connections,  *)
(* tenants, rows, configurations and reloads.                              *)
(* Either layer isolates alone: the policies of the database, or row       *)
(* filters on every resource of every configuration that is ever loaded.   *)
(***************************************************************************)
EXTENDS Gateway, Handlers_proofs, SequenceTheorems

\* A connection serves one request at a time; while its statement is to run, its
\* transaction is bound to that request's tenant; and there is a statement to run.
Wired ==
  /\ \A q, r \in Requests : conn[q] \in Connections /\ conn[q] = conn[r] => q = r
  /\ \A r \in Requests : stage[r] \in {"execute", "return"} => conn[r] \in Connections
  /\ \A r \in Requests : stage[r] = "execute" => guc[conn[r]] = ctx[r].tenant
  /\ \A r \in Requests : stage[r] \notin {"new", "done"} => ctx[r].tenant \in Tenants
  /\ \A r \in Requests : stage[r] \in {"acquire", "execute", "return"} => plan[r] # <<>>

TypeInv == TypeOK /\ Wired

-----------------------------------------------------------------------------
(* Lemmas *)

\* Dropping unknown fields from a body leaves a call.
LEMMA ParsedCall ==
  ASSUME NEW boot, NEW c, IsCall(c)
  PROVE  IsCall([c EXCEPT !.items = ParsedItems(boot, c)])
<1> DEFINE items == ParsedItems(boot, c)
<1>1. DOMAIN items = DOMAIN c.items /\ items = [k \in DOMAIN items |-> items[k]]
  BY DEF ParsedItems
<1>2. IsSequence(items)
  BY <1>1, MappedSequence DEF IsCall
<1>3. \A k \in DOMAIN items : IsValues(items[k])
  BY DEF ParsedItems, Restrict, IsValues, IsCall
<1>4. Len(c.items) = 1 => Len(items) = 1
  BY <1>1, <1>2 DEF IsCall, IsSequence
<1> HIDE DEF items
<1>5. IsCall([c EXCEPT !.items = items])
  BY <1>2, <1>3, <1>4 DEF IsCall
<1> QED  BY <1>5 DEF items

\* The head and the tail of a plan that is not empty.
LEMMA PlanParts ==
  ASSUME NEW p, IsPlan(p), p # <<>>
  PROVE  /\ 1 \in DOMAIN p /\ Head(p) = p[1]
         /\ Head(p).res \in DOMAIN Table0 /\ IsStatement(Head(p))
         /\ IsPlan(Tail(p))
         /\ \A n \in DOMAIN Tail(p) : n + 1 \in DOMAIN p /\ Tail(p)[n] = p[n + 1]
<1> DEFINE S == Range(p)
<1>1. p \in Seq(S)
  BY DEF IsPlan, IsSequence
<1> HIDE DEF S
<1>2. Len(p) \in Nat /\ DOMAIN p = 1..Len(p)
  BY <1>1
<1>3. Len(p) # 0
  BY <1>1
<1>4. 1 \in DOMAIN p /\ Head(p) = p[1]
  BY <1>1, <1>2, <1>3
<1>5. /\ Tail(p) \in Seq(S) /\ Len(Tail(p)) = Len(p) - 1
      /\ \A n \in 1..Len(Tail(p)) : Tail(p)[n] = p[n + 1]
  BY <1>1, HeadTailProperties
<1>6. Tail(p) \in [1..Len(Tail(p)) -> S] /\ Len(Tail(p)) \in Nat /\ DOMAIN Tail(p) = 1..Len(Tail(p))
  BY <1>5, LenProperties
<1>7. \A n \in DOMAIN Tail(p) : n + 1 \in DOMAIN p /\ Tail(p)[n] = p[n + 1]
  BY <1>2, <1>5, <1>6
<1>8. IsSequence(Tail(p))
  <2>1. Tail(p) \in [1..Len(Tail(p)) -> Range(Tail(p))]
    BY <1>6 DEF Range
  <2>2. ASSUME NEW n \in Nat, NEW f, f \in [1..n -> Range(f)]
        PROVE  IsSequence(f)
    BY <2>2 DEF IsSequence
  <2> QED  BY <1>6, <2>1, <2>2
<1>9. IsPlan(Tail(p))
  BY <1>7, <1>8 DEF IsPlan
<1> QED  BY <1>4, <1>7, <1>9 DEF IsPlan

LEMMA NoPlan == IsPlan(<<>>)
BY SmallSequences, NoValues DEF IsPlan

LEMMA LiveConfig ==
  ASSUME TypeOK
  PROVE  IsConfig(Config)
BY GatewayAssumption DEF TypeOK, Config

\* An error response is a response.
LEMMA AnswerTyped ==
  ASSUME NEW status \in Nat, NEW code \in Codes
  PROVE  Answer(status, code) \in Responses
BY DEF Answer, NoResponse, Responses

LEMMA ErrorAnswerTyped ==
  ASSUME NEW err
  PROVE  ErrorAnswer(err) \in Responses
<1>1. {"UNIQUE_VIOLATION", "TIMEOUT", "none"} \subseteq Codes
  BY DEF Codes
<1>2. 409 \in Nat /\ 504 \in Nat /\ 500 \in Nat
  OBVIOUS
<1>3. /\ Answer(409, "UNIQUE_VIOLATION") \in Responses
      /\ Answer(504, "TIMEOUT") \in Responses
      /\ Answer(500, "none") \in Responses
  BY <1>1, <1>2, AnswerTyped
<1> QED  BY <1>3 DEF ErrorAnswer

\* The rows of an answer are those the last statement returned, or none.
LEMMA ResultRows ==
  ASSUME NEW r, NEW q
  PROVE  Result(r, q).rows \in {{}, got[r].rows}
<1>1. \A status, code : Answer(status, code).rows = {}
  BY DEF Answer, NoResponse
<1>2. Answer(404, "NOT_FOUND").rows = {} /\ Present(r, q).rows = got[r].rows
  BY <1>1 DEF Present
<1>3. ErrorAnswer(got[r].err).rows = {}
  <2>1. /\ Answer(409, "UNIQUE_VIOLATION").rows = {}
        /\ Answer(504, "TIMEOUT").rows = {}
        /\ Answer(500, "none").rows = {}
    BY <1>1
  <2> QED  BY <2>1 DEF ErrorAnswer
<1>4. Result(r, q) \in {ErrorAnswer(got[r].err), Answer(404, "NOT_FOUND"), Present(r, q)}
  BY DEF Result
<1> QED  BY <1>2, <1>3, <1>4

-----------------------------------------------------------------------------
(* Type correctness *)

LEMMA InitTyped == Init => TypeInv
<1> SUFFICES ASSUME Init PROVE TypeInv
  OBVIOUS
<1>1. \A r \in Requests : IsPlan(plan[r])
  BY NoPlan DEF Init
<1>2. call \in [Requests -> Calls]
  BY GatewayAssumption DEF Init
<1>3. ctx \in [Requests -> Contexts]
  BY DEF Init, NoCtx, Contexts
<1>4. got \in [Requests -> Received]
  BY DEF Init, NoOutcome, Received
<1>5. resp \in [Requests -> Responses]
  BY DEF Init, NoResponse, Responses, Codes
<1>6. /\ live \in Versions /\ reloads \in 0..MaxReloads
      /\ tbl \in [DOMAIN Table0 -> Tables]
      /\ authorised \in [Requests -> Versions] /\ shownBy \in [Requests -> Versions]
  BY GatewayAssumption DEF Init
<1>7. TypeOK
  BY <1>1, <1>2, <1>3, <1>4, <1>5, <1>6 DEF Init, TypeOK, Stages
<1>8. Wired
  BY GatewayAssumption DEF Init, Wired
<1> QED  BY <1>7, <1>8 DEF TypeInv

\* The handler leaves a refusal, or a plan of typed statements for its request alone.
LEMMA HandleTyped ==
  ASSUME TypeInv, NEW r \in Requests, NEW c, IsCall(c), c.res \in DOMAIN Table0,
         NEW context, context.tenant \in Tenants, Handle(r, c, context)
  PROVE  /\ authorised' \in [Requests -> Versions]
         /\ stage' \in [Requests -> Stages]
         /\ DOMAIN plan' = Requests /\ \A q \in Requests : IsPlan(plan'[q])
         /\ cols' \in [Requests -> SUBSET Fields]
         /\ resp' \in [Requests -> Responses]
         /\ \A q \in Requests \ {r} : stage'[q] = stage[q] /\ plan'[q] = plan[q]
         /\ stage'[r] \in {"acquire", "done"}
         /\ stage'[r] = "acquire" =>
              /\ plan'[r] # <<>>
              /\ \A n \in DOMAIN plan'[r] : IsBuilt(plan'[r][n], Config, context, c)
<1> DEFINE p == Prepare(Config, context, c)
<1>1. IsPlanned(p, Config, context, c)
  BY LiveConfig, PreparePlanned DEF TypeInv
<1>2. IsPlan(p.plan)
  BY <1>1 DEF IsPlanned, IsBuilt, IsPlan
<1> HIDE DEF p
<1>3. authorised' \in [Requests -> Versions]
  BY DEF Handle, TypeInv, TypeOK
<1>4. CASE /\ p.code # ""
           /\ Respond(r, Answer(p.status, p.code))
           /\ UNCHANGED <<plan, cols>>
  <2>1. Answer(p.status, p.code) \in Responses
    BY <1>1 DEF IsPlanned, Answer, NoResponse, Responses, Codes
  <2> QED  BY <1>3, <1>4, <2>1 DEF Respond, TypeInv, TypeOK, Stages
<1>5. CASE /\ p.code = ""
           /\ stage' = [stage EXCEPT ![r] = "acquire"]
           /\ plan' = [plan EXCEPT ![r] = p.plan]
           /\ cols' = [cols EXCEPT ![r] = p.cols]
           /\ UNCHANGED resp
  BY <1>1, <1>2, <1>3, <1>5 DEF IsPlanned, TypeInv, TypeOK, Stages
<1> QED  BY <1>4, <1>5 DEF Handle, p

LEMMA AcknowledgedTyped ==
  ASSUME TypeOK, NEW res
  PROVE  Acknowledged(res) \subseteq Ids
<1>1. \A r \in Requests : \A x \in resp[r].rows : x.id \in Ids
  BY DEF TypeOK, Responses, Listings
<1> QED  BY <1>1 DEF Acknowledged

LEMMA AdmitTyped ==
  ASSUME TypeInv, NEW r \in Requests, NEW c \in Calls, Admit(r, c)
  PROVE  TypeInv'
<1>1. IsCall(c) /\ c.res \in DOMAIN Table0
  BY GatewayAssumption
<1>2. /\ call' \in [Requests -> Calls]
      /\ late' \in [Requests -> SUBSET Ids]
  BY AcknowledgedTyped DEF Admit, TypeInv, TypeOK
<1>3. /\ stage[r] = "new"
      /\ UNCHANGED <<live, reloads, tbl, guc, conn, got, total, shownBy, effect>>
  BY DEF Admit
<1> DEFINE context == [tenant |-> Config.accounts[c.dn].tenant, dn |-> c.dn]
<1>4. CASE /\ Respond(r, Answer(401, "UNAUTHORIZED"))
           /\ UNCHANGED <<ctx, plan, cols, authorised>>
  <2>1. Answer(401, "UNAUTHORIZED") \in Responses
    <3>1. 401 \in Nat /\ "UNAUTHORIZED" \in Codes
      BY DEF Codes
    <3> QED  BY <3>1, AnswerTyped
  <2>2. TypeOK'
    BY <1>2, <1>3, <1>4, <2>1 DEF TypeInv, TypeOK, Respond, Stages
  <2>3. Wired'
    BY <1>3, <1>4 DEF TypeInv, TypeOK, Wired, Respond
  <2> QED  BY <2>2, <2>3 DEF TypeInv
<1>5. CASE /\ c.dn \in DOMAIN Config.accounts
           /\ ctx' = [ctx EXCEPT ![r] = context]
           /\ \/ /\ Respond(r, Answer(404, "none"))
                 /\ UNCHANGED <<plan, cols, authorised>>
              \/ /\ stage' = [stage EXCEPT ![r] = "body"]
                 /\ UNCHANGED <<plan, cols, resp, authorised>>
              \/ Handle(r, c, context)
  <2>1. context.tenant \in Tenants
    BY <1>5, LiveConfig DEF TypeInv, IsConfig
  <2>2. context \in Contexts
    BY <2>1 DEF Contexts
  <2>3. ctx' \in [Requests -> Contexts] /\ ctx'[r] = context
        /\ \A q \in Requests \ {r} : ctx'[q] = ctx[q]
    BY <1>5, <2>2 DEF TypeInv, TypeOK
  <2> HIDE DEF context
  <2>4. CASE /\ Respond(r, Answer(404, "none"))
             /\ UNCHANGED <<plan, cols, authorised>>
    <3>1. Answer(404, "none") \in Responses
      <4>1. 404 \in Nat /\ "none" \in Codes
        BY DEF Codes
      <4> QED  BY <4>1, AnswerTyped
    <3>2. TypeOK'
      BY <1>2, <1>3, <2>3, <2>4, <3>1 DEF TypeInv, TypeOK, Respond, Stages
    <3>3. Wired'
      BY <1>3, <2>1, <2>3, <2>4 DEF TypeInv, TypeOK, Wired, Respond
    <3> QED  BY <3>2, <3>3 DEF TypeInv
  <2>5. CASE /\ stage' = [stage EXCEPT ![r] = "body"]
             /\ UNCHANGED <<plan, cols, resp, authorised>>
    <3>1. TypeOK'
      BY <1>2, <1>3, <2>3, <2>5 DEF TypeInv, TypeOK, Stages
    <3>2. Wired'
      BY <1>3, <2>1, <2>3, <2>5 DEF TypeInv, TypeOK, Wired
    <3> QED  BY <3>1, <3>2 DEF TypeInv
  <2>6. CASE Handle(r, c, context)
    <3>1. /\ authorised' \in [Requests -> Versions]
          /\ stage' \in [Requests -> Stages]
          /\ DOMAIN plan' = Requests /\ \A q \in Requests : IsPlan(plan'[q])
          /\ cols' \in [Requests -> SUBSET Fields]
          /\ resp' \in [Requests -> Responses]
          /\ \A q \in Requests \ {r} : stage'[q] = stage[q] /\ plan'[q] = plan[q]
          /\ stage'[r] \in {"acquire", "done"}
          /\ stage'[r] = "acquire" => plan'[r] # <<>>
      BY <1>1, <2>1, <2>6, HandleTyped
    <3>2. TypeOK'
      BY <1>2, <1>3, <2>3, <3>1 DEF TypeInv, TypeOK
    <3>3. Wired'
      BY <1>3, <2>1, <2>3, <3>1 DEF TypeInv, TypeOK, Wired
    <3> QED  BY <3>2, <3>3 DEF TypeInv
  <2> QED  BY <1>5, <2>4, <2>5, <2>6
<1> QED  BY <1>4, <1>5 DEF Admit

LEMMA BodyTyped ==
  ASSUME TypeInv, NEW r \in Requests, Body(r)
  PROVE  TypeInv'
<1> DEFINE c == [call[r] EXCEPT !.items = ParsedItems(BootConfig, call[r])]
<1>1. /\ stage[r] = "body" /\ call[r] \in Calls /\ ctx[r].tenant \in Tenants
      /\ UNCHANGED <<live, reloads, tbl, guc, ctx, conn, got, total, shownBy, late, effect>>
  BY DEF Body, TypeInv, TypeOK, Wired
<1>2. IsCall(call[r]) /\ call[r].res \in DOMAIN Table0
  BY <1>1, GatewayAssumption
<1>3. IsCall(c) /\ c.res \in DOMAIN Table0
  BY <1>2, ParsedCall DEF IsCall
<1> HIDE DEF c
<1>4. CASE /\ Respond(r, Answer(400, "VALIDATION_ERROR"))
           /\ UNCHANGED <<call, plan, cols, authorised>>
  <2>1. Answer(400, "VALIDATION_ERROR") \in Responses
    <3>1. 400 \in Nat /\ "VALIDATION_ERROR" \in Codes
      BY DEF Codes
    <3> QED  BY <3>1, AnswerTyped
  <2>2. TypeOK'
    BY <1>1, <1>4, <2>1 DEF TypeInv, TypeOK, Respond, Stages
  <2>3. Wired'
    BY <1>1, <1>4 DEF TypeInv, TypeOK, Wired, Respond
  <2> QED  BY <2>2, <2>3 DEF TypeInv
<1>5. CASE Handle(r, c, ctx[r]) /\ UNCHANGED call
  <2>1. /\ authorised' \in [Requests -> Versions]
        /\ stage' \in [Requests -> Stages]
        /\ DOMAIN plan' = Requests /\ \A q \in Requests : IsPlan(plan'[q])
        /\ cols' \in [Requests -> SUBSET Fields]
        /\ resp' \in [Requests -> Responses]
        /\ \A q \in Requests \ {r} : stage'[q] = stage[q] /\ plan'[q] = plan[q]
        /\ stage'[r] \in {"acquire", "done"}
        /\ stage'[r] = "acquire" => plan'[r] # <<>>
    BY <1>1, <1>3, <1>5, HandleTyped
  <2>2. TypeOK'
    BY <1>1, <1>5, <2>1 DEF TypeInv, TypeOK
  <2>3. Wired'
    BY <1>1, <2>1 DEF TypeInv, TypeOK, Wired
  <2> QED  BY <2>2, <2>3 DEF TypeInv
<1> QED  BY <1>4, <1>5 DEF Body, c

LEMMA AcquireTyped ==
  ASSUME TypeInv, NEW r \in Requests, NEW k \in Connections, Acquire(r, k)
  PROVE  TypeInv'
<1>1. ctx[r].tenant \in Tenants /\ plan[r] # <<>>
  BY DEF Acquire, TypeInv, Wired
<1>2. TypeOK'
  BY <1>1 DEF Acquire, TypeInv, TypeOK, Stages, history
<1>3. Wired'
  BY <1>1 DEF Acquire, TypeInv, TypeOK, Wired
<1> QED  BY <1>2, <1>3 DEF TypeInv

\* Both ways a transaction ends: with an outcome that may be stored, or unstored.
LEMMA EndTyped ==
  ASSUME TypeInv, NEW r \in Requests, stage[r] = "execute",
         NEW outcome \in Received, EndTransaction(r, outcome),
         tbl' \in [DOMAIN Table0 -> Tables], effect' \in [Requests -> SUBSET Ids]
  PROVE  TypeInv'
<1>1. /\ conn[r] \in Connections /\ plan[r] # <<>> /\ ctx[r].tenant \in Tenants
  BY DEF TypeInv, Wired
<1>2. TypeOK'
  BY <1>1 DEF EndTransaction, TypeInv, TypeOK, Stages
<1>3. Wired'
  BY <1>1 DEF EndTransaction, TypeInv, TypeOK, Wired
<1> QED  BY <1>2, <1>3 DEF TypeInv

\* What a request about to execute has at hand.
LEMMA AtExecute ==
  ASSUME TypeInv, NEW r \in Requests, stage[r] = "execute"
  PROVE  LET q == Head(plan[r])
         IN  /\ q.res \in DOMAIN Table0 /\ IsStatement(q)
             /\ tbl[q.res] \in Tables
             /\ guc[conn[r]] = ctx[r].tenant
             /\ \A o \in Possible(r) : IsOutcome(o)
<1>1. IsPlan(plan[r]) /\ plan[r] # <<>> /\ guc[conn[r]] = ctx[r].tenant
  BY DEF TypeInv, TypeOK, Wired
<1>2. Head(plan[r]).res \in DOMAIN Table0 /\ IsStatement(Head(plan[r]))
  BY <1>1, PlanParts
<1>3. tbl[Head(plan[r]).res] \in Tables
  BY <1>2 DEF TypeInv, TypeOK
<1> QED  BY <1>1, <1>2, <1>3, OutcomesTyped DEF Possible

LEMMA StoreTyped ==
  ASSUME TypeInv, NEW r \in Requests, stage[r] = "execute",
         NEW t \in Tables, Store(r, t)
  PROVE  tbl' \in [DOMAIN Table0 -> Tables] /\ effect' \in [Requests -> SUBSET Ids]
<1> DEFINE changed == {i \in Ids : t[i] # tbl[Head(plan[r]).res][i]}
<1>1. effect' = [effect EXCEPT ![r] = @ \cup changed] /\ changed \subseteq Ids
  BY DEF Store
<1> HIDE DEF changed
<1>2. effect' \in [Requests -> SUBSET Ids]
  BY <1>1 DEF TypeInv, TypeOK
<1> QED  BY <1>2 DEF Store, TypeInv, TypeOK

LEMMA ExecuteTyped ==
  ASSUME TypeInv, NEW r \in Requests, Execute(r)
  PROVE  TypeInv'
<1>1. PICK o \in Possible(r) : /\ EndTransaction(r, [rows |-> o.rows, total |-> o.total, err |-> o.err])
                               /\ Store(r, o.tbl)
  BY DEF Execute
<1>2. IsOutcome(o) /\ stage[r] = "execute"
  BY AtExecute DEF Execute
<1>3. [rows |-> o.rows, total |-> o.total, err |-> o.err] \in Received
  BY <1>2 DEF IsOutcome, Received, Listings, Errors
<1>4. tbl' \in [DOMAIN Table0 -> Tables] /\ effect' \in [Requests -> SUBSET Ids]
  BY <1>1, <1>2, StoreTyped DEF IsOutcome
<1> QED  BY <1>1, <1>2, <1>3, <1>4, EndTyped

LEMMA FaultTyped ==
  ASSUME TypeInv, NEW r \in Requests, Fault(r)
  PROVE  TypeInv'
<1>1. PICK err \in {"timeout", "other"} : EndTransaction(r, [NoOutcome EXCEPT !.err = err])
  BY DEF Fault
<1>2. [NoOutcome EXCEPT !.err = err] \in Received
  BY <1>1 DEF NoOutcome, Received
<1>3. stage[r] = "execute"
  BY DEF Fault
<1>4. tbl' \in [DOMAIN Table0 -> Tables] /\ effect' \in [Requests -> SUBSET Ids]
  <2>1. CASE UNCHANGED <<tbl, effect>>
    BY <2>1 DEF TypeInv, TypeOK
  <2>2. CASE \E o \in Possible(r) : o.err = "" /\ Store(r, o.tbl)
    <3>1. PICK o \in Possible(r) : Store(r, o.tbl)
      BY <2>2
    <3>2. o.tbl \in Tables
      BY <1>3, AtExecute DEF IsOutcome
    <3> QED  BY <1>3, <3>1, <3>2, StoreTyped
  <2> QED  BY <2>1, <2>2 DEF Fault
<1> QED  BY <1>1, <1>2, <1>3, <1>4, EndTyped

LEMMA ResumeTyped ==
  ASSUME TypeInv, NEW r \in Requests, Resume(r)
  PROVE  TypeInv'
<1>1. /\ stage[r] = "return"
      /\ conn' = [conn EXCEPT ![r] = NoConnection]
      /\ UNCHANGED <<live, reloads, tbl, guc, call, ctx, cols, got, authorised, late, effect>>
  BY DEF Resume
<1>2. IsPlan(plan[r]) /\ plan[r] # <<>> /\ got[r] \in Received /\ ctx[r].tenant \in Tenants
  BY <1>1 DEF TypeInv, TypeOK, Wired
<1>3. CASE /\ Tail(plan[r]) # <<>>
           /\ stage' = [stage EXCEPT ![r] = "acquire"]
           /\ plan' = [plan EXCEPT ![r] = Tail(@)]
           /\ total' = [total EXCEPT ![r] = got[r].total]
           /\ UNCHANGED <<resp, shownBy>>
  <2>1. IsPlan(Tail(plan[r]))
    BY <1>2, PlanParts
  <2>2. TypeOK'
    BY <1>1, <1>2, <1>3, <2>1 DEF TypeInv, TypeOK, Stages, Received
  <2>3. Wired'
    BY <1>1, <1>2, <1>3, GatewayAssumption DEF TypeInv, TypeOK, Wired
  <2> QED  BY <2>2, <2>3 DEF TypeInv
<1>4. CASE /\ Respond(r, Result(r, Head(plan[r])))
           /\ shownBy' = [shownBy EXCEPT ![r] = live]
           /\ UNCHANGED <<plan, total>>
  <2> DEFINE q == Head(plan[r])
  <2>1. Shown(r, q) \subseteq Fields
    BY DEF Shown, TypeInv, TypeOK
  <2>2. total[r] \in Nat /\ got[r].total \in Nat /\ got[r].rows \in SUBSET Listings
    BY <1>2 DEF TypeInv, TypeOK, Received
  <2>3. Present(r, q) \in Responses
    BY <2>1, <2>2 DEF Present, Responses, SuccessStatus, Codes
  <2>4. \A err : ErrorAnswer(err) \in Responses
    BY ErrorAnswerTyped
  <2>5. Answer(404, "NOT_FOUND") \in Responses
    <3>1. 404 \in Nat /\ "NOT_FOUND" \in Codes
      BY DEF Codes
    <3> QED  BY <3>1, AnswerTyped
  <2>6. Result(r, q) \in Responses
    BY <2>3, <2>4, <2>5 DEF Result
  <2> HIDE DEF q
  <2>7. TypeOK'
    BY <1>1, <1>4, <2>6 DEF TypeInv, TypeOK, Respond, Stages, q
  <2>8. Wired'
    BY <1>1, <1>4, GatewayAssumption DEF TypeInv, TypeOK, Wired, Respond
  <2> QED  BY <2>7, <2>8 DEF TypeInv
<1> QED  BY <1>3, <1>4 DEF Resume

LEMMA ApplyTyped ==
  ASSUME TypeInv, NEW v \in Versions, Apply(v)
  PROVE  TypeInv'
<1>1. TypeOK'
  BY GatewayAssumption DEF Apply, TypeInv, TypeOK, request, history
<1>2. Wired'
  BY DEF Apply, TypeInv, Wired, request, history
<1> QED  BY <1>1, <1>2 DEF TypeInv

LEMMA NextTyped == TypeInv /\ [Next]_vars => TypeInv'
<1> SUFFICES ASSUME TypeInv, [Next]_vars PROVE TypeInv'
  OBVIOUS
<1>1. ASSUME NEW r \in Requests, NEW c \in Calls, Admit(r, c) PROVE TypeInv'
  BY <1>1, AdmitTyped
<1>2. ASSUME NEW r \in Requests, Body(r) PROVE TypeInv'
  BY <1>2, BodyTyped
<1>3. ASSUME NEW r \in Requests, NEW k \in Connections, Acquire(r, k) PROVE TypeInv'
  BY <1>3, AcquireTyped
<1>4. ASSUME NEW r \in Requests, Execute(r) PROVE TypeInv'
  BY <1>4, ExecuteTyped
<1>5. ASSUME NEW r \in Requests, Fault(r) PROVE TypeInv'
  BY <1>5, FaultTyped
<1>6. ASSUME NEW r \in Requests, Resume(r) PROVE TypeInv'
  BY <1>6, ResumeTyped
<1>7. ASSUME NEW v \in Versions, Apply(v) PROVE TypeInv'
  BY <1>7, ApplyTyped
<1>8. CASE UNCHANGED vars
  BY <1>8 DEF TypeInv, TypeOK, Wired, vars, request, history
<1> QED  BY <1>1, <1>2, <1>3, <1>4, <1>5, <1>6, <1>7, <1>8 DEF Next, Serve, Finished

LEMMA AlwaysTyped == Spec => []TypeInv
<1> QED  BY InitTyped, NextTyped, PTL DEF Spec

\* Type correctness, for every instance: no step leaves a variable outside its type, no
\* statement is malformed and no answer carries an unknown code.
THEOREM GatewayTypeOK == Spec => []TypeOK
<1>1. TypeInv => TypeOK
  BY DEF TypeInv
<1> QED  BY <1>1, AlwaysTyped, PTL

-----------------------------------------------------------------------------
(* Isolation *)

Filtered == \A v \in Versions : RowFiltered(Configs[v])
Guarded == Rls \/ Filtered

\* Where there are row filters, every statement a request still has to run is scoped to
\* the tenant it was given when it was admitted.
PlansScoped ==
  Filtered => \A r \in Requests : stage[r] \in {"acquire", "execute", "return"} =>
                \A n \in DOMAIN plan[r] : Scoped(plan[r][n], ctx[r].tenant)

\* A request that has no tenant yet has no rows either.
Blank == \A r \in Requests : stage[r] = "new" => got[r].rows = {} /\ resp[r].rows = {}

IsolationInv == TypeInv /\ PlansScoped /\ Blank /\ ResponseIsolation

LEMMA InitIsolated == Init => IsolationInv
<1> SUFFICES ASSUME Init PROVE IsolationInv
  OBVIOUS
<1>1. \A r \in Requests : stage[r] = "new" /\ got[r].rows = {} /\ resp[r].rows = {}
  BY DEF Init, NoOutcome, NoResponse
<1> QED  BY <1>1, InitTyped DEF IsolationInv, PlansScoped, Blank, ResponseIsolation

\* A request that has nothing yet answers without rows or gets a plan scoped to the
\* tenant of its context; the others are left alone.
LEMMA HandleScoped ==
  ASSUME TypeInv, NEW r \in Requests, NEW c, IsCall(c), c.res \in DOMAIN Table0,
         NEW context, context.tenant \in Tenants, Handle(r, c, context)
  PROVE  /\ \A q \in Requests \ {r} :
              stage'[q] = stage[q] /\ plan'[q] = plan[q] /\ resp'[q] = resp[q]
         /\ resp'[r].rows \in {{}, resp[r].rows}
         /\ stage'[r] \in {"acquire", "done"}
         /\ Filtered /\ stage'[r] = "acquire" =>
              \A n \in DOMAIN plan'[r] : Scoped(plan'[r][n], context.tenant)
<1>1. /\ \A q \in Requests \ {r} : stage'[q] = stage[q] /\ plan'[q] = plan[q]
      /\ stage'[r] \in {"acquire", "done"}
      /\ stage'[r] = "acquire" =>
           \A n \in DOMAIN plan'[r] : IsBuilt(plan'[r][n], Config, context, c)
  BY HandleTyped
<1>2. Filtered => RowFiltered(Config)
  BY DEF Filtered, Config, TypeInv, TypeOK
<1>3. /\ \A q \in Requests \ {r} : resp'[q] = resp[q]
      /\ resp'[r].rows \in {{}, resp[r].rows}
  <2>1. \A status, code : Answer(status, code).rows = {}
    BY DEF Answer, NoResponse
  <2>2. \/ UNCHANGED resp
        \/ \E status, code : resp' = [resp EXCEPT ![r] = Answer(status, code)]
    BY DEF Handle, Respond
  <2> QED  BY <2>1, <2>2 DEF TypeInv, TypeOK
<1> QED  BY <1>1, <1>2, <1>3 DEF IsBuilt

LEMMA AdmitIsolated ==
  ASSUME IsolationInv, NEW r \in Requests, NEW c \in Calls, Admit(r, c)
  PROVE  IsolationInv'
<1> DEFINE context == [tenant |-> Config.accounts[c.dn].tenant, dn |-> c.dn]
<1>1. TypeInv /\ TypeInv'
  BY AdmitTyped DEF IsolationInv
<1>2. /\ stage[r] = "new" /\ got' = got
      /\ got[r].rows = {} /\ resp[r].rows = {}
  BY DEF Admit, IsolationInv, Blank
<1>3. \A status, code : Answer(status, code).rows = {}
  BY DEF Answer, NoResponse
<1>4. ASSUME /\ \A q \in Requests \ {r} :
                  /\ stage'[q] = stage[q] /\ plan'[q] = plan[q] /\ resp'[q] = resp[q]
                  /\ ctx'[q] = ctx[q]
             /\ stage'[r] # "new" /\ resp'[r].rows = {}
             /\ Filtered /\ stage'[r] \in {"acquire", "execute", "return"} =>
                  \A n \in DOMAIN plan'[r] : Scoped(plan'[r][n], ctx'[r].tenant)
      PROVE  IsolationInv'
  <2>1. PlansScoped'
    BY <1>4 DEF IsolationInv, PlansScoped, Filtered
  <2>2. Blank'
    BY <1>2, <1>4 DEF IsolationInv, Blank
  <2>3. ResponseIsolation'
    BY <1>2, <1>4 DEF IsolationInv, ResponseIsolation
  <2> QED  BY <1>1, <2>1, <2>2, <2>3 DEF IsolationInv
<1>5. CASE \E status, code : /\ Respond(r, Answer(status, code))
                             /\ UNCHANGED <<plan, cols, authorised>>
                             /\ UNCHANGED ctx \/ ctx' = [ctx EXCEPT ![r] = context]
  <2> HIDE DEF context
  <2>1. /\ \A q \in Requests \ {r} :
             stage'[q] = stage[q] /\ plan'[q] = plan[q] /\ resp'[q] = resp[q] /\ ctx'[q] = ctx[q]
        /\ stage'[r] = "done" /\ resp'[r].rows = {}
    BY <1>1, <1>3, <1>5 DEF Respond, TypeInv, TypeOK
  <2> QED  BY <1>4, <2>1
<1>6. CASE /\ stage' = [stage EXCEPT ![r] = "body"]
           /\ ctx' = [ctx EXCEPT ![r] = context]
           /\ UNCHANGED <<plan, cols, resp, authorised>>
  <2> HIDE DEF context
  <2>1. /\ \A q \in Requests \ {r} :
             stage'[q] = stage[q] /\ plan'[q] = plan[q] /\ resp'[q] = resp[q] /\ ctx'[q] = ctx[q]
        /\ stage'[r] = "body" /\ resp'[r].rows = {}
    BY <1>1, <1>2, <1>6 DEF TypeInv, TypeOK
  <2> QED  BY <1>4, <2>1
<1>7. CASE /\ c.dn \in DOMAIN Config.accounts
           /\ ctx' = [ctx EXCEPT ![r] = context]
           /\ Handle(r, c, context)
  <2>1. context.tenant \in Tenants
    BY <1>1, <1>7, LiveConfig DEF TypeInv, IsConfig
  <2> HIDE DEF context
  <2>2. IsCall(c) /\ c.res \in DOMAIN Table0
    BY GatewayAssumption
  <2>3. ctx'[r] = context /\ \A q \in Requests \ {r} : ctx'[q] = ctx[q]
    BY <1>1, <1>7 DEF TypeInv, TypeOK
  <2>4. /\ \A q \in Requests \ {r} :
             stage'[q] = stage[q] /\ plan'[q] = plan[q] /\ resp'[q] = resp[q]
        /\ resp'[r].rows \in {{}, resp[r].rows}
        /\ stage'[r] \in {"acquire", "done"}
        /\ Filtered /\ stage'[r] = "acquire" =>
             \A n \in DOMAIN plan'[r] : Scoped(plan'[r][n], context.tenant)
    BY <1>1, <1>7, <2>1, <2>2, HandleScoped
  <2> QED  BY <1>2, <1>4, <2>3, <2>4
<1> QED  BY <1>5, <1>6, <1>7 DEF Admit

LEMMA BodyIsolated ==
  ASSUME IsolationInv, NEW r \in Requests, Body(r)
  PROVE  IsolationInv'
<1> DEFINE c == [call[r] EXCEPT !.items = ParsedItems(BootConfig, call[r])]
<1>1. TypeInv /\ TypeInv'
  BY BodyTyped DEF IsolationInv
<1>2. stage[r] = "body" /\ ctx[r].tenant \in Tenants /\ UNCHANGED <<ctx, got>>
  BY <1>1 DEF Body, TypeInv, Wired
<1>3. ASSUME /\ \A q \in Requests \ {r} :
                  stage'[q] = stage[q] /\ plan'[q] = plan[q] /\ resp'[q] = resp[q]
             /\ stage'[r] # "new" /\ resp'[r].rows \in {{}, resp[r].rows}
             /\ Filtered /\ stage'[r] \in {"acquire", "execute", "return"} =>
                  \A n \in DOMAIN plan'[r] : Scoped(plan'[r][n], ctx[r].tenant)
      PROVE  IsolationInv'
  BY <1>1, <1>2, <1>3 DEF IsolationInv, PlansScoped, Blank, ResponseIsolation, TypeInv, TypeOK
<1>4. CASE /\ Respond(r, Answer(400, "VALIDATION_ERROR"))
           /\ UNCHANGED <<call, plan, cols, authorised>>
  <2>1. Answer(400, "VALIDATION_ERROR").rows = {}
    BY DEF Answer, NoResponse
  <2>2. /\ \A q \in Requests \ {r} :
             stage'[q] = stage[q] /\ plan'[q] = plan[q] /\ resp'[q] = resp[q]
        /\ stage'[r] = "done" /\ resp'[r].rows = {}
    BY <1>1, <1>4, <2>1 DEF Respond, TypeInv, TypeOK
  <2> QED  BY <1>3, <2>2
<1>5. CASE Handle(r, c, ctx[r])
  <2>1. IsCall(call[r]) /\ call[r].res \in DOMAIN Table0
    BY <1>1, GatewayAssumption DEF TypeInv, TypeOK
  <2>2. IsCall(c) /\ c.res \in DOMAIN Table0
    BY <2>1, ParsedCall DEF IsCall
  <2> HIDE DEF c
  <2>3. /\ \A q \in Requests \ {r} :
             stage'[q] = stage[q] /\ plan'[q] = plan[q] /\ resp'[q] = resp[q]
        /\ resp'[r].rows \in {{}, resp[r].rows}
        /\ stage'[r] \in {"acquire", "done"}
        /\ Filtered /\ stage'[r] = "acquire" =>
             \A n \in DOMAIN plan'[r] : Scoped(plan'[r][n], ctx[r].tenant)
    BY <1>1, <1>2, <1>5, <2>2, HandleScoped
  <2> QED  BY <1>3, <2>3
<1> QED  BY <1>4, <1>5 DEF Body

LEMMA AcquireIsolated ==
  ASSUME IsolationInv, NEW r \in Requests, NEW k \in Connections, Acquire(r, k)
  PROVE  IsolationInv'
<1>1. TypeInv /\ TypeInv'
  BY AcquireTyped DEF IsolationInv
<1> QED  BY <1>1 DEF Acquire, IsolationInv, PlansScoped, Blank, ResponseIsolation, TypeInv, TypeOK

\* The heart of it: whichever layer there is, what a statement returns and changes is its
\* tenant's.
LEMMA PossibleOfTenant ==
  ASSUME IsolationInv, Guarded, NEW r \in Requests, stage[r] = "execute",
         NEW o \in Possible(r)
  PROVE  LET res == Head(plan[r]).res
         IN  res \in DOMAIN Table0 /\ OfTenant(o, tbl[res], ctx[r].tenant)
<1> DEFINE q == Head(plan[r])
<1>1. TypeInv /\ IsPlan(plan[r]) /\ plan[r] # <<>> /\ ctx[r].tenant \in Tenants
  BY DEF IsolationInv, TypeInv, TypeOK, Wired
<1>2. q.res \in DOMAIN Table0 /\ IsStatement(q) /\ tbl[q.res] \in Tables
      /\ guc[conn[r]] = ctx[r].tenant
  BY <1>1, AtExecute
<1>3. Filtered => Scoped(q, ctx[r].tenant)
  <2>1. 1 \in DOMAIN plan[r] /\ q = plan[r][1]
    BY <1>1, PlanParts
  <2> QED  BY <2>1 DEF IsolationInv, PlansScoped
<1>4. Confined(q, guc[conn[r]], ctx[r].tenant)
  BY <1>1, <1>2, <1>3, RowStoreAssumption DEF Confined, Guarded
<1>5. o \in Outcomes(q, guc[conn[r]], tbl[q.res])
  BY DEF Possible
<1> HIDE DEF q
<1>6. OfTenant(o, tbl[q.res], ctx[r].tenant)
  BY <1>2, <1>4, <1>5, OutcomesOfTenant
<1> QED  BY <1>2, <1>6 DEF q

\* The two ways a transaction ends.
LEMMA EndIsolated ==
  ASSUME IsolationInv, TypeInv', NEW r \in Requests, stage[r] = "execute", NEW outcome,
         \A x \in outcome.rows : x.row.tenant_id = ctx[r].tenant,
         EndTransaction(r, outcome)
  PROVE  IsolationInv'
<1>1. TypeInv
  BY DEF IsolationInv
<1> QED  BY <1>1 DEF EndTransaction, IsolationInv, PlansScoped, Blank, ResponseIsolation,
                     TypeInv, TypeOK

LEMMA ExecuteIsolated ==
  ASSUME IsolationInv, Guarded, NEW r \in Requests, Execute(r)
  PROVE  IsolationInv'
<1>1. PICK o \in Possible(r) : EndTransaction(r, [rows |-> o.rows, total |-> o.total, err |-> o.err])
  BY DEF Execute
<1>2. stage[r] = "execute" /\ TypeInv'
  BY ExecuteTyped DEF Execute, IsolationInv
<1>3. \A x \in o.rows : x.row.tenant_id = ctx[r].tenant
  BY <1>2, PossibleOfTenant DEF OfTenant
<1> QED  BY <1>1, <1>2, <1>3, EndIsolated

LEMMA FaultIsolated ==
  ASSUME IsolationInv, NEW r \in Requests, Fault(r)
  PROVE  IsolationInv'
<1>1. PICK err \in {"timeout", "other"} : EndTransaction(r, [NoOutcome EXCEPT !.err = err])
  BY DEF Fault
<1>2. stage[r] = "execute" /\ TypeInv'
  BY FaultTyped DEF Fault, IsolationInv
<1>3. [NoOutcome EXCEPT !.err = err].rows = {}
  BY DEF NoOutcome
<1> QED  BY <1>1, <1>2, <1>3, EndIsolated

LEMMA ResumeIsolated ==
  ASSUME IsolationInv, NEW r \in Requests, Resume(r)
  PROVE  IsolationInv'
<1>1. TypeInv /\ TypeInv'
  BY ResumeTyped DEF IsolationInv
<1>2. stage[r] = "return" /\ UNCHANGED <<ctx, got>> /\ IsPlan(plan[r]) /\ plan[r] # <<>>
  BY <1>1 DEF Resume, TypeInv, TypeOK, Wired
<1>3. CASE /\ stage' = [stage EXCEPT ![r] = "acquire"]
           /\ plan' = [plan EXCEPT ![r] = Tail(@)]
           /\ UNCHANGED <<resp, shownBy>>
  <2>1. \A n \in DOMAIN Tail(plan[r]) :
          n + 1 \in DOMAIN plan[r] /\ Tail(plan[r])[n] = plan[r][n + 1]
    BY <1>2, PlanParts
  <2>2. Filtered => \A n \in DOMAIN Tail(plan[r]) : Scoped(Tail(plan[r])[n], ctx[r].tenant)
    BY <1>2, <2>1 DEF IsolationInv, PlansScoped
  <2>3. plan'[r] = Tail(plan[r]) /\ \A q \in Requests \ {r} : plan'[q] = plan[q]
    BY <1>1, <1>3 DEF TypeInv, TypeOK
  <2> QED  BY <1>1, <1>2, <1>3, <2>2, <2>3
           DEF IsolationInv, PlansScoped, Blank, ResponseIsolation, TypeInv, TypeOK
<1>4. CASE /\ Respond(r, Result(r, Head(plan[r])))
           /\ UNCHANGED <<plan, total>>
  <2>1. Result(r, Head(plan[r])).rows \in {{}, got[r].rows}
    BY ResultRows
  <2> QED  BY <1>1, <1>2, <1>4, <2>1
           DEF Respond, IsolationInv, PlansScoped, Blank, ResponseIsolation, TypeInv, TypeOK
<1> QED  BY <1>3, <1>4 DEF Resume

LEMMA ApplyIsolated ==
  ASSUME IsolationInv, NEW v \in Versions, Apply(v)
  PROVE  IsolationInv'
<1>1. TypeInv'
  BY ApplyTyped DEF IsolationInv
<1> QED  BY <1>1 DEF Apply, IsolationInv, PlansScoped, Blank, ResponseIsolation, request, history

LEMMA NextIsolated == ASSUME Guarded PROVE IsolationInv /\ [Next]_vars => IsolationInv'
<1> SUFFICES ASSUME IsolationInv, [Next]_vars PROVE IsolationInv'
  OBVIOUS
<1>1. ASSUME NEW r \in Requests, NEW c \in Calls, Admit(r, c) PROVE IsolationInv'
  BY <1>1, AdmitIsolated
<1>2. ASSUME NEW r \in Requests, Body(r) PROVE IsolationInv'
  BY <1>2, BodyIsolated
<1>3. ASSUME NEW r \in Requests, NEW k \in Connections, Acquire(r, k) PROVE IsolationInv'
  BY <1>3, AcquireIsolated
<1>4. ASSUME NEW r \in Requests, Execute(r) PROVE IsolationInv'
  BY <1>4, ExecuteIsolated
<1>5. ASSUME NEW r \in Requests, Fault(r) PROVE IsolationInv'
  BY <1>5, FaultIsolated
<1>6. ASSUME NEW r \in Requests, Resume(r) PROVE IsolationInv'
  BY <1>6, ResumeIsolated
<1>7. ASSUME NEW v \in Versions, Apply(v) PROVE IsolationInv'
  BY <1>7, ApplyIsolated
<1>8. CASE UNCHANGED vars
  <2>1. TypeInv'
    BY <1>8, NextTyped DEF IsolationInv
  <2> QED  BY <1>8, <2>1 DEF IsolationInv, PlansScoped, Blank, ResponseIsolation, vars, request
<1> QED  BY <1>1, <1>2, <1>3, <1>4, <1>5, <1>6, <1>7, <1>8 DEF Next, Serve, Finished

LEMMA AlwaysIsolated == ASSUME Guarded PROVE Spec => []IsolationInv
<1> QED  BY InitIsolated, NextIsolated, PTL DEF Spec

\* Isolation of reads: whatever is reloaded and however requests share the connections,
\* no request is ever handed, or answers with, a row of a tenant it was not admitted for.
THEOREM ReadsIsolated == ASSUME Guarded PROVE Spec => []ResponseIsolation
<1>1. IsolationInv => ResponseIsolation
  BY DEF IsolationInv
<1> QED  BY <1>1, AlwaysIsolated, PTL

-----------------------------------------------------------------------------
(* Writes *)

\* Storing an outcome of a request's statement changes rows of its tenant only.
LEMMA StoreOwn ==
  ASSUME IsolationInv, Guarded, NEW r \in Requests, stage[r] = "execute",
         NEW o \in Possible(r), Store(r, o.tbl), NEW outcome, EndTransaction(r, outcome)
  PROVE  ChangesOwnRows
<1> DEFINE own == Head(plan[r]).res
<1>1. own \in DOMAIN Table0 /\ OfTenant(o, tbl[own], ctx[r].tenant)
  BY PossibleOfTenant
<1>2. tbl' = [tbl EXCEPT ![own] = o.tbl]
  BY DEF Store
<1> HIDE DEF own
<1>3. DOMAIN tbl = DOMAIN Table0 /\ tbl = [res \in DOMAIN Table0 |-> tbl[res]]
  BY DEF IsolationInv, TypeInv, TypeOK
<1>4. stage'[r] = "return"
  BY DEF EndTransaction, IsolationInv, TypeInv, TypeOK
<1>5. ASSUME NEW res \in DOMAIN tbl, NEW i \in Ids, tbl'[res][i] # tbl[res][i]
      PROVE  \A row \in {tbl[res][i], tbl'[res][i]} \cap Rows : row.tenant_id = ctx[r].tenant
  <2>1. res = own /\ tbl'[res] = o.tbl
    BY <1>2, <1>3, <1>5
  <2> QED  BY <1>1, <1>5, <2>1 DEF OfTenant
<1> QED  BY <1>4, <1>5 DEF ChangesOwnRows

LEMMA StepOwn == ASSUME Guarded PROVE IsolationInv /\ [Next]_vars => [ChangesOwnRows]_vars
<1> SUFFICES ASSUME IsolationInv, Next PROVE ChangesOwnRows
  OBVIOUS
<1>1. CASE tbl' = tbl
  BY <1>1 DEF ChangesOwnRows
<1>2. ASSUME NEW r \in Requests, Execute(r) PROVE ChangesOwnRows
  <2>1. stage[r] = "execute"
    BY <1>2 DEF Execute
  <2>2. PICK o \in Possible(r) : /\ EndTransaction(r, [rows |-> o.rows, total |-> o.total, err |-> o.err])
                                 /\ Store(r, o.tbl)
    BY <1>2 DEF Execute
  <2> QED  BY <2>1, <2>2, StoreOwn
<1>3. ASSUME NEW r \in Requests, Fault(r) PROVE ChangesOwnRows
  <2>1. stage[r] = "execute"
    BY <1>3 DEF Fault
  <2>2. PICK err \in {"timeout", "other"} : EndTransaction(r, [NoOutcome EXCEPT !.err = err])
    BY <1>3 DEF Fault
  <2>3. tbl' = tbl \/ \E o \in Possible(r) : Store(r, o.tbl)
    BY <1>3 DEF Fault
  <2> QED  BY <1>1, <2>1, <2>2, <2>3, StoreOwn
<1>4. \/ tbl' = tbl
      \/ \E r \in Requests : Execute(r) \/ Fault(r)
  BY DEF Next, Serve, Admit, Body, Acquire, Resume, Apply, Finished, vars
<1> QED  BY <1>1, <1>2, <1>3, <1>4

\* Isolation of writes: no statement inserts, changes or deletes a row of another tenant,
\* and none gives a row away to one.
THEOREM WritesIsolated == ASSUME Guarded PROVE Spec => WritesStayInTenant
<1> QED  BY AlwaysIsolated, StepOwn, PTL DEF Spec, WritesStayInTenant

-----------------------------------------------------------------------------
(* What responses show *)

\* What a call's plan p may show as its columns cs, given the configuration that authorised
\* it.
AsksFor(cfg, context, c, p, cs) ==
  /\ c.op \in {"list", "get"} => cs = SelectColumns(cfg, context, c)
  /\ c.op = "aggregate" =>
       cs \subseteq cfg.resources[c.res].groupBy \cup cfg.resources[c.res].sumFields
  /\ c.op = "bulk_delete" => cs = {"id"}
  /\ c.op = "delete" => cs = {"id"} \/ \A n \in DOMAIN p : p[n].kind # "delete"

\* A request at work runs statements about its resource, and asks for what it may.
Chosen(r) ==
  stage[r] \in {"acquire", "execute", "return"} =>
    /\ \A n \in DOMAIN plan[r] : plan[r][n].res = call[r].res
    /\ AsksFor(Configs[authorised[r]], ctx[r], call[r], plan[r], cols[r])

\* The fields that a request's account may read under a version.
Readable(r, version) == ReadableFields(Configs[version], ctx[r].dn, call[r].res)

\* The body of ShownGranted.
Granted(r) ==
  Answered(r) =>
    /\ call[r].op # "aggregate" =>
         resp[r].shown \subseteq Readable(r, shownBy[r])
                           \cup (IF call[r].op \in DeleteOps THEN {"id"} ELSE {})
    /\ call[r].op \in {"list", "get"} /\ Readable(r, authorised[r]) # {} =>
         resp[r].shown \subseteq Readable(r, authorised[r])
    /\ call[r].op = "aggregate" /\ resp[r].shown # {} =>
         resp[r].shown \subseteq Configs[authorised[r]].resources[call[r].res].groupBy
                           \cup Configs[authorised[r]].resources[call[r].res].sumFields

ShownInv == TypeInv /\ \A r \in Requests : Chosen(r) /\ Granted(r)

\* A step of one request leaves alone what another has chosen and shown.
Kept(q) ==
  /\ plan'[q] = plan[q] /\ call'[q] = call[q] /\ ctx'[q] = ctx[q]
  /\ cols'[q] = cols[q] /\ authorised'[q] = authorised[q]
  /\ resp'[q] = resp[q] /\ shownBy'[q] = shownBy[q]

LEMMA KeptShown ==
  ASSUME NEW q, Kept(q)
  PROVE  /\ stage'[q] = stage[q] /\ Chosen(q) /\ Granted(q) => Chosen(q)' /\ Granted(q)'
         /\ stage[q] \in {"acquire", "execute"} /\ stage'[q] \in {"execute", "return"}
              /\ Chosen(q) => Chosen(q)' /\ Granted(q)'
BY DEF Kept, Chosen, Granted, Answered, Readable

LEMMA StepShown ==
  ASSUME ShownInv, TypeInv', NEW r \in Requests, Chosen(r)' /\ Granted(r)',
         \A q \in Requests \ {r} : Kept(q) /\ stage'[q] = stage[q]
  PROVE  ShownInv'
<1>1. ASSUME NEW q \in Requests \ {r} PROVE Chosen(q)' /\ Granted(q)'
  BY <1>1, KeptShown DEF ShownInv
<1> QED  BY <1>1 DEF ShownInv

\* A call that is not refused asks for what it may.
Selects(p, cfg, context, c) == p.code = "" => AsksFor(cfg, context, c, p.plan, p.cols)

LEMMA ReadSelects ==
  ASSUME NEW cfg, NEW context, NEW c, c.op \in {"list", "get"}
  PROVE  /\ Selects(List(cfg, context, c), cfg, context, c)
         /\ Selects(Get(cfg, context, c), cfg, context, c)
<1> DEFINE columns == SelectColumns(cfg, context, c)
<1>1. \A p : Run(p, columns).cols = columns
  BY DEF Run
<1>2. \A p : Selects(Run(p, columns), cfg, context, c)
  BY <1>1 DEF Selects, AsksFor
<1>3. /\ \/ List(cfg, context, c) = Refuse(400, "FILTER_DENIED")
         \/ \E p : List(cfg, context, c) = Run(p, columns)
      /\ \E p : Get(cfg, context, c) = Run(p, columns)
  BY DEF List, Get
<1> HIDE DEF columns
<1>4. Selects(Refuse(400, "FILTER_DENIED"), cfg, context, c)
  BY DEF Selects, Refuse
<1>5. Selects(Get(cfg, context, c), cfg, context, c)
  BY <1>2, <1>3
<1>6. Selects(List(cfg, context, c), cfg, context, c)
  BY <1>2, <1>3, <1>4
<1> QED  BY <1>5, <1>6

LEMMA AggregateSelects ==
  ASSUME NEW cfg, NEW context, NEW c, c.op = "aggregate"
  PROVE  Selects(Aggregate(cfg, context, c), cfg, context, c)
<1> DEFINE grouped == c.groups \cup c.sums
           allowed == cfg.resources[c.res].groupBy \cup cfg.resources[c.res].sumFields
<1>1. \/ Aggregate(cfg, context, c) \in {Refuse(400, "FILTER_DENIED"),
                                        Refuse(400, "GROUP_DENIED"), Refuse(400, "SUM_DENIED")}
      \/ grouped \subseteq allowed /\ \E p : Aggregate(cfg, context, c) = Run(p, grouped)
  BY DEF Aggregate
<1>2. ASSUME NEW p, grouped \subseteq allowed PROVE Selects(Run(p, grouped), cfg, context, c)
  <2>1. Run(p, grouped).cols = grouped
    BY DEF Run
  <2> QED  BY <1>2, <2>1 DEF Selects, AsksFor
<1> HIDE DEF grouped, allowed
<1>3. /\ Selects(Refuse(400, "FILTER_DENIED"), cfg, context, c)
      /\ Selects(Refuse(400, "GROUP_DENIED"), cfg, context, c)
      /\ Selects(Refuse(400, "SUM_DENIED"), cfg, context, c)
  BY DEF Selects, Refuse
<1> QED  BY <1>1, <1>2, <1>3

LEMMA DeleteSelects ==
  ASSUME NEW cfg, NEW context, NEW c
  PROVE  /\ c.op = "delete" => Selects(Delete(cfg, context, c), cfg, context, c)
         /\ c.op = "bulk_delete" => Selects(BulkDelete(cfg, context, c), cfg, context, c)
<1>1. ASSUME c.op = "delete" PROVE Selects(Delete(cfg, context, c), cfg, context, c)
  <2> DEFINE q == DeleteFor(cfg, context, [c EXCEPT !.filters = <<>>], {c.id})
             columns == IF cfg.resources[c.res].softDelete THEN Fields ELSE {"id"}
  <2>1. \/ columns = {"id"}
        \/ cfg.resources[c.res].softDelete
    OBVIOUS
  <2>2. cfg.resources[c.res].softDelete => q.kind = "update"
    BY DEF DeleteFor, UpdateFor, Statement
  <2>3. Delete(cfg, context, c) = Run(<<q>>, columns)
    BY DEF Delete
  <2> HIDE DEF q, columns
  <2>4. /\ Run(<<q>>, columns).plan = <<q>> /\ Run(<<q>>, columns).cols = columns
        /\ DOMAIN <<q>> = {1} /\ <<q>>[1] = q
    BY DEF Run
  <2>5. columns = {"id"} \/ \A n \in DOMAIN <<q>> : <<q>>[n].kind # "delete"
    BY <2>1, <2>2, <2>4
  <2> QED  BY <1>1, <2>3, <2>4, <2>5 DEF Selects, AsksFor
<1>2. ASSUME c.op = "bulk_delete" PROVE Selects(BulkDelete(cfg, context, c), cfg, context, c)
  <2>1. \/ BulkDelete(cfg, context, c) \in {Refuse(400, "FILTER_DENIED"),
                                           Refuse(400, "EMPTY_BULK_DELETE")}
        \/ \E p : BulkDelete(cfg, context, c) = Run(p, {"id"})
    BY DEF BulkDelete
  <2>2. ASSUME NEW p PROVE Selects(Run(p, {"id"}), cfg, context, c)
    <3>1. Run(p, {"id"}).cols = {"id"}
      BY DEF Run
    <3> QED  BY <1>2, <3>1 DEF Selects, AsksFor
  <2>3. /\ Selects(Refuse(400, "FILTER_DENIED"), cfg, context, c)
        /\ Selects(Refuse(400, "EMPTY_BULK_DELETE"), cfg, context, c)
    BY DEF Selects, Refuse
  <2> QED  BY <2>1, <2>2, <2>3
<1> QED  BY <1>1, <1>2

LEMMA PrepareSelects ==
  ASSUME NEW cfg, NEW context, NEW c
  PROVE  Selects(Prepare(cfg, context, c), cfg, context, c)
<1> DEFINE denial == Denial(cfg, context.dn, c.res, c.op)
<1>1. CASE denial # ""
  <2>1. Prepare(cfg, context, c) = Refuse(403, denial)
    BY <1>1 DEF Prepare
  <2> HIDE DEF denial
  <2>2. Selects(Refuse(403, denial), cfg, context, c)
    BY <1>1 DEF Selects, Refuse
  <2> QED  BY <2>1, <2>2
<1>2. CASE denial = ""
  <2>1. /\ c.op = "list" => Prepare(cfg, context, c) = List(cfg, context, c)
        /\ c.op = "get" => Prepare(cfg, context, c) = Get(cfg, context, c)
        /\ c.op = "aggregate" => Prepare(cfg, context, c) = Aggregate(cfg, context, c)
        /\ c.op = "delete" => Prepare(cfg, context, c) = Delete(cfg, context, c)
        /\ c.op = "bulk_delete" => Prepare(cfg, context, c) = BulkDelete(cfg, context, c)
    BY <1>2 DEF Prepare
  <2>2. CASE c.op \notin {"list", "get", "aggregate", "delete", "bulk_delete"}
    BY <2>2 DEF Selects, AsksFor
  <2>3. CASE c.op \in {"list", "get"}
    BY <2>1, <2>3, ReadSelects
  <2>4. CASE c.op \in {"aggregate", "delete", "bulk_delete"}
    BY <2>1, <2>4, AggregateSelects, DeleteSelects
  <2> QED  BY <2>2, <2>3, <2>4
<1> QED  BY <1>1, <1>2

LEMMA HandleShown ==
  ASSUME TypeInv, NEW r \in Requests, NEW c, IsCall(c), c.res \in DOMAIN Table0,
         NEW context, context.tenant \in Tenants, Handle(r, c, context)
  PROVE  /\ \A q \in Requests \ {r} :
              /\ stage'[q] = stage[q] /\ plan'[q] = plan[q] /\ cols'[q] = cols[q]
              /\ resp'[q] = resp[q] /\ authorised'[q] = authorised[q]
         /\ \/ stage'[r] = "done" /\ resp'[r].shown = {}
            \/ /\ stage'[r] = "acquire"
               /\ \A n \in DOMAIN plan'[r] : plan'[r][n].res = c.res
               /\ AsksFor(Configs[authorised'[r]], context, c, plan'[r], cols'[r])
<1> DEFINE p == Prepare(Config, context, c)
<1>1. \A n \in DOMAIN p.plan : p.plan[n].res = c.res
  <2>1. IsPlanned(p, Config, context, c)
    BY LiveConfig, PreparePlanned DEF TypeInv
  <2> HIDE DEF p
  <2> QED  BY <2>1 DEF IsPlanned, IsBuilt
<1>2. Selects(p, Config, context, c)
  BY PrepareSelects
<1> HIDE DEF p
<1>3. /\ Configs[authorised'[r]] = Config
      /\ \A q \in Requests \ {r} : authorised'[q] = authorised[q]
  BY DEF Handle, TypeInv, TypeOK, Config
<1>4. CASE /\ Respond(r, Answer(p.status, p.code))
           /\ UNCHANGED <<plan, cols>>
  <2>1. Answer(p.status, p.code).shown = {}
    BY DEF Answer, NoResponse
  <2> QED  BY <1>3, <1>4, <2>1 DEF Respond, TypeInv, TypeOK
<1>5. CASE /\ p.code = ""
           /\ stage' = [stage EXCEPT ![r] = "acquire"]
           /\ plan' = [plan EXCEPT ![r] = p.plan]
           /\ cols' = [cols EXCEPT ![r] = p.cols]
           /\ UNCHANGED resp
  <2>1. /\ stage'[r] = "acquire" /\ plan'[r] = p.plan /\ cols'[r] = p.cols
        /\ \A q \in Requests \ {r} :
             /\ stage'[q] = stage[q] /\ plan'[q] = plan[q] /\ cols'[q] = cols[q]
             /\ resp'[q] = resp[q]
    BY <1>5 DEF TypeInv, TypeOK
  <2>2. AsksFor(Configs[authorised'[r]], context, c, plan'[r], cols'[r])
    BY <1>2, <1>3, <1>5, <2>1 DEF Selects
  <2> QED  BY <1>1, <1>3, <2>1, <2>2
<1> QED  BY <1>4, <1>5 DEF Handle, p

LEMMA AdmitShown ==
  ASSUME ShownInv, NEW r \in Requests, NEW c \in Calls, Admit(r, c)
  PROVE  ShownInv'
<1> DEFINE context == [tenant |-> Config.accounts[c.dn].tenant, dn |-> c.dn]
<1>1. /\ TypeInv /\ TypeInv' /\ stage[r] = "new"
      /\ UNCHANGED shownBy /\ call'[r] = c
      /\ \A q \in Requests \ {r} : call'[q] = call[q]
  BY AdmitTyped DEF Admit, ShownInv, TypeInv, TypeOK
<1>2. \A status, code : Answer(status, code).shown = {}
  BY DEF Answer, NoResponse
<1>3. CASE /\ Respond(r, Answer(401, "UNAUTHORIZED"))
           /\ UNCHANGED <<ctx, plan, cols, authorised>>
  <2>1. /\ stage'[r] = "done" /\ resp'[r].shown = {}
        /\ \A q \in Requests \ {r} : Kept(q) /\ stage'[q] = stage[q]
    BY <1>1, <1>2, <1>3 DEF Respond, Kept, TypeInv, TypeOK
  <2>2. Chosen(r)' /\ Granted(r)'
    BY <2>1 DEF Chosen, Granted
  <2> QED  BY <1>1, <2>1, <2>2, StepShown
<1>4. CASE /\ c.dn \in DOMAIN Config.accounts
           /\ ctx' = [ctx EXCEPT ![r] = context]
           /\ \/ /\ Respond(r, Answer(404, "none"))
                 /\ UNCHANGED <<plan, cols, authorised>>
              \/ /\ stage' = [stage EXCEPT ![r] = "body"]
                 /\ UNCHANGED <<plan, cols, resp, authorised>>
              \/ Handle(r, c, context)
  <2>1. context.tenant \in Tenants
    BY <1>1, <1>4, LiveConfig DEF TypeInv, IsConfig
  <2> HIDE DEF context
  <2>2. ctx'[r] = context /\ \A q \in Requests \ {r} : ctx'[q] = ctx[q]
    BY <1>1, <1>4 DEF TypeInv, TypeOK
  <2>3. CASE /\ Respond(r, Answer(404, "none"))
             /\ UNCHANGED <<plan, cols, authorised>>
    <3>1. /\ stage'[r] = "done" /\ resp'[r].shown = {}
          /\ \A q \in Requests \ {r} : Kept(q) /\ stage'[q] = stage[q]
      BY <1>1, <1>2, <2>2, <2>3 DEF Respond, Kept, TypeInv, TypeOK
    <3>2. Chosen(r)' /\ Granted(r)'
      BY <3>1 DEF Chosen, Granted
    <3> QED  BY <1>1, <3>1, <3>2, StepShown
  <2>4. CASE /\ stage' = [stage EXCEPT ![r] = "body"]
             /\ UNCHANGED <<plan, cols, resp, authorised>>
    <3>1. /\ stage'[r] = "body"
          /\ \A q \in Requests \ {r} : Kept(q) /\ stage'[q] = stage[q]
      BY <1>1, <2>2, <2>4 DEF Kept, TypeInv, TypeOK
    <3>2. Chosen(r)' /\ Granted(r)'
      BY <3>1 DEF Chosen, Granted, Answered
    <3> QED  BY <1>1, <3>1, <3>2, StepShown
  <2>5. CASE Handle(r, c, context)
    <3>1. IsCall(c) /\ c.res \in DOMAIN Table0
      BY GatewayAssumption
    <3>2. /\ \A q \in Requests \ {r} :
               /\ stage'[q] = stage[q] /\ plan'[q] = plan[q] /\ cols'[q] = cols[q]
               /\ resp'[q] = resp[q] /\ authorised'[q] = authorised[q]
          /\ \/ stage'[r] = "done" /\ resp'[r].shown = {}
             \/ /\ stage'[r] = "acquire"
                /\ \A n \in DOMAIN plan'[r] : plan'[r][n].res = c.res
                /\ AsksFor(Configs[authorised'[r]], context, c, plan'[r], cols'[r])
      BY <1>1, <2>1, <2>5, <3>1, HandleShown
    <3>3. \A q \in Requests \ {r} : Kept(q) /\ stage'[q] = stage[q]
      BY <1>1, <2>2, <3>2 DEF Kept
    <3>4. Chosen(r)' /\ Granted(r)'
      BY <1>1, <2>2, <3>2 DEF Chosen, Granted, Answered
    <3> QED  BY <1>1, <3>3, <3>4, StepShown
  <2> QED  BY <1>4, <2>3, <2>4, <2>5
<1> QED  BY <1>3, <1>4 DEF Admit

LEMMA BodyShown ==
  ASSUME ShownInv, NEW r \in Requests, Body(r)
  PROVE  ShownInv'
<1> DEFINE c == [call[r] EXCEPT !.items = ParsedItems(BootConfig, call[r])]
<1>1. /\ TypeInv /\ TypeInv' /\ stage[r] = "body" /\ ctx[r].tenant \in Tenants
      /\ UNCHANGED <<call, ctx, shownBy>>
  BY BodyTyped DEF Body, ShownInv, TypeInv, Wired
<1>2. CASE /\ Respond(r, Answer(400, "VALIDATION_ERROR"))
           /\ UNCHANGED <<call, plan, cols, authorised>>
  <2>1. Answer(400, "VALIDATION_ERROR").shown = {}
    BY DEF Answer, NoResponse
  <2>2. /\ stage'[r] = "done" /\ resp'[r].shown = {}
        /\ \A q \in Requests \ {r} : Kept(q) /\ stage'[q] = stage[q]
    BY <1>1, <1>2, <2>1 DEF Respond, Kept, TypeInv, TypeOK
  <2>3. Chosen(r)' /\ Granted(r)'
    BY <2>2 DEF Chosen, Granted
  <2> QED  BY <1>1, <2>2, <2>3, StepShown
<1>3. CASE Handle(r, c, ctx[r])
  <2>1. IsCall(call[r]) /\ call[r].res \in DOMAIN Table0
    BY <1>1, GatewayAssumption DEF TypeInv, TypeOK
  <2>2. IsCall(c) /\ c.res = call[r].res /\ c.op = call[r].op
    BY <2>1, ParsedCall DEF IsCall
  <2>3. \A cfg, p, cs : AsksFor(cfg, ctx[r], c, p, cs) => AsksFor(cfg, ctx[r], call[r], p, cs)
    BY <2>2 DEF AsksFor, SelectColumns
  <2> HIDE DEF c
  <2>4. /\ \A q \in Requests \ {r} :
             /\ stage'[q] = stage[q] /\ plan'[q] = plan[q] /\ cols'[q] = cols[q]
             /\ resp'[q] = resp[q] /\ authorised'[q] = authorised[q]
        /\ \/ stage'[r] = "done" /\ resp'[r].shown = {}
           \/ /\ stage'[r] = "acquire"
              /\ \A n \in DOMAIN plan'[r] : plan'[r][n].res = c.res
              /\ AsksFor(Configs[authorised'[r]], ctx[r], c, plan'[r], cols'[r])
    BY <1>1, <1>3, <2>1, <2>2, HandleShown
  <2>5. \A q \in Requests \ {r} : Kept(q) /\ stage'[q] = stage[q]
    BY <1>1, <2>4 DEF Kept
  <2>6. Chosen(r)' /\ Granted(r)'
    BY <1>1, <2>2, <2>3, <2>4 DEF Chosen, Granted, Answered
  <2> QED  BY <1>1, <2>5, <2>6, StepShown
<1> QED  BY <1>2, <1>3 DEF Body

\* A connection is taken, or a transaction ends: nothing is chosen anew.
LEMMA AtWorkShown ==
  ASSUME ShownInv, TypeInv', NEW r \in Requests,
         \/ stage[r] = "acquire" /\ stage' = [stage EXCEPT ![r] = "execute"]
         \/ stage[r] = "execute" /\ stage' = [stage EXCEPT ![r] = "return"],
         UNCHANGED <<call, ctx, plan, cols, resp, authorised, shownBy>>
  PROVE  ShownInv'
<1>1. \A q \in Requests : Kept(q)
  BY DEF Kept
<1>2. \A q \in Requests \ {r} : stage'[q] = stage[q]
  BY DEF ShownInv, TypeInv, TypeOK
<1>3. stage[r] \in {"acquire", "execute"} /\ stage'[r] \in {"execute", "return"}
  BY DEF ShownInv, TypeInv, TypeOK
<1>4. Chosen(r)' /\ Granted(r)'
  BY <1>1, <1>3, KeptShown DEF ShownInv
<1> QED  BY <1>1, <1>2, <1>4, StepShown

\* What an answer shows was asked for and, if it presents rows, passed the live grant.
LEMMA ResultShown ==
  ASSUME NEW r, NEW q
  PROVE  /\ Result(r, q).shown \subseteq cols[r]
         /\ Presents(call[r], q) =>
              Result(r, q).shown \subseteq ReadableFields(Config, ctx[r].dn, q.res)
<1>1. \A status, code : Answer(status, code).shown = {}
  BY DEF Answer, NoResponse
<1>2. \A err : ErrorAnswer(err).shown = {}
  BY <1>1 DEF ErrorAnswer
<1>3. /\ Present(r, q).shown \subseteq cols[r]
      /\ Presents(call[r], q) =>
           Present(r, q).shown \subseteq ReadableFields(Config, ctx[r].dn, q.res)
  BY DEF Present, Shown
<1>4. \/ Result(r, q) = ErrorAnswer(got[r].err)
      \/ Result(r, q) = Answer(404, "NOT_FOUND")
      \/ Result(r, q) = Present(r, q)
  BY DEF Result
<1>5. Answer(404, "NOT_FOUND").shown = {} /\ ErrorAnswer(got[r].err).shown = {}
  BY <1>1, <1>2
<1> QED  BY <1>3, <1>4, <1>5

\* What a request that asks for what it may is shown is granted.
LEMMA AskedGranted ==
  ASSUME NEW cfg, NEW context, NEW c, NEW p, NEW cs, AsksFor(cfg, context, c, p, cs),
         NEW q, NEW n \in DOMAIN p, p[n] = q,
         NEW now, NEW shown, shown \subseteq cs, Presents(c, q) => shown \subseteq now
  PROVE  /\ c.op # "aggregate" =>
              shown \subseteq now \cup (IF c.op \in DeleteOps THEN {"id"} ELSE {})
         /\ c.op \in {"list", "get"} /\ ReadableFields(cfg, context.dn, c.res) # {} =>
              shown \subseteq ReadableFields(cfg, context.dn, c.res)
         /\ c.op = "aggregate" =>
              shown \subseteq cfg.resources[c.res].groupBy \cup cfg.resources[c.res].sumFields
<1>1. CASE c.op \notin {"aggregate", "delete", "bulk_delete"}
  <2>1. Presents(c, q)
    BY <1>1 DEF Presents
  <2> QED  BY <1>1, <2>1 DEF AsksFor, SelectColumns
<1>2. CASE c.op = "delete"
  <2>1. Presents(c, q) \/ cs = {"id"}
    BY <1>2 DEF Presents, AsksFor
  <2> QED  BY <1>2, <2>1 DEF DeleteOps
<1>3. CASE c.op \in {"aggregate", "bulk_delete"}
  BY <1>3 DEF AsksFor, DeleteOps
<1> QED  BY <1>1, <1>2, <1>3

LEMMA ResumeShown ==
  ASSUME ShownInv, NEW r \in Requests, Resume(r)
  PROVE  ShownInv'
<1>1. /\ TypeInv /\ TypeInv' /\ stage[r] = "return" /\ Chosen(r)
      /\ UNCHANGED <<live, call, ctx, cols, authorised>>
  BY ResumeTyped DEF Resume, ShownInv
<1>2. IsPlan(plan[r]) /\ plan[r] # <<>>
  BY <1>1 DEF TypeInv, TypeOK, Wired
<1>3. AsksFor(Configs[authorised[r]], ctx[r], call[r], plan[r], cols[r])
  BY <1>1 DEF Chosen
<1>4. CASE /\ stage' = [stage EXCEPT ![r] = "acquire"]
           /\ plan' = [plan EXCEPT ![r] = Tail(@)]
           /\ UNCHANGED <<resp, shownBy>>
  <2>1. /\ stage'[r] = "acquire" /\ plan'[r] = Tail(plan[r])
        /\ \A q \in Requests \ {r} : Kept(q) /\ stage'[q] = stage[q]
    BY <1>1, <1>4 DEF Kept, TypeInv, TypeOK
  <2>2. \A n \in DOMAIN plan'[r] : n + 1 \in DOMAIN plan[r] /\ plan'[r][n] = plan[r][n + 1]
    BY <1>2, <2>1, PlanParts
  <2>3. \A n \in DOMAIN plan'[r] : plan'[r][n].res = call[r].res
    BY <1>1, <2>2 DEF Chosen
  <2>4. AsksFor(Configs[authorised[r]], ctx[r], call[r], plan'[r], cols[r])
    BY <1>3, <2>2 DEF AsksFor
  <2>5. Chosen(r)' /\ Granted(r)'
    BY <1>1, <2>1, <2>3, <2>4 DEF Chosen, Granted, Answered
  <2> QED  BY <1>1, <2>1, <2>5, StepShown
<1>5. CASE /\ Respond(r, Result(r, Head(plan[r])))
           /\ shownBy' = [shownBy EXCEPT ![r] = live]
           /\ UNCHANGED plan
  <2>1. /\ stage'[r] = "done" /\ resp'[r] = Result(r, Head(plan[r]))
        /\ Configs[shownBy'[r]] = Config
        /\ \A q \in Requests \ {r} : Kept(q) /\ stage'[q] = stage[q]
    BY <1>1, <1>5 DEF Respond, Kept, Config, TypeInv, TypeOK
  <2>2. /\ 1 \in DOMAIN plan[r] /\ plan[r][1] = Head(plan[r])
        /\ Head(plan[r]).res = call[r].res
    BY <1>1, <1>2, PlanParts DEF Chosen
  <2>3. /\ resp'[r].shown \subseteq cols[r]
        /\ Presents(call[r], Head(plan[r])) =>
             resp'[r].shown \subseteq ReadableFields(Config, ctx[r].dn, call[r].res)
    BY <2>1, <2>2, ResultShown
  <2>4. /\ Readable(r, shownBy[r])' = ReadableFields(Config, ctx[r].dn, call[r].res)
        /\ Readable(r, authorised[r])'
             = ReadableFields(Configs[authorised[r]], ctx[r].dn, call[r].res)
    BY <1>1, <2>1 DEF Readable
  <2> DEFINE shown == resp'[r].shown
             now == ReadableFields(Config, ctx[r].dn, call[r].res)
             cfg == Configs[authorised[r]]
             c == call[r]
  <2>5. /\ c.op # "aggregate" =>
             shown \subseteq now \cup (IF c.op \in DeleteOps THEN {"id"} ELSE {})
        /\ c.op \in {"list", "get"} /\ ReadableFields(cfg, ctx[r].dn, c.res) # {} =>
             shown \subseteq ReadableFields(cfg, ctx[r].dn, c.res)
        /\ c.op = "aggregate" =>
             shown \subseteq cfg.resources[c.res].groupBy \cup cfg.resources[c.res].sumFields
    <3>1. /\ AsksFor(cfg, ctx[r], c, plan[r], cols[r]) /\ 1 \in DOMAIN plan[r]
          /\ plan[r][1] = Head(plan[r]) /\ shown \subseteq cols[r]
          /\ Presents(c, Head(plan[r])) => shown \subseteq now
      BY <1>3, <2>2, <2>3
    <3> HIDE DEF shown, now, cfg, c
    <3> QED  BY <3>1, AskedGranted
  <2>6. Granted(r)'
    BY <1>1, <2>4, <2>5 DEF Granted
  <2>7. Chosen(r)'
    BY <2>1 DEF Chosen
  <2> QED  BY <1>1, <2>1, <2>6, <2>7, StepShown
<1> QED  BY <1>4, <1>5 DEF Resume

LEMMA InitShown == Init => ShownInv
<1> SUFFICES ASSUME Init PROVE ShownInv
  OBVIOUS
<1>1. \A r \in Requests : stage[r] = "new"
  BY DEF Init
<1> QED  BY <1>1, InitTyped DEF ShownInv, Chosen, Granted, Answered

LEMMA NextShown == ShownInv /\ [Next]_vars => ShownInv'
<1> SUFFICES ASSUME ShownInv, [Next]_vars PROVE ShownInv'
  OBVIOUS
<1>1. TypeInv'
  BY NextTyped DEF ShownInv
<1>2. ASSUME NEW r \in Requests, NEW c \in Calls, Admit(r, c) PROVE ShownInv'
  BY <1>2, AdmitShown
<1>3. ASSUME NEW r \in Requests, Body(r) PROVE ShownInv'
  BY <1>3, BodyShown
<1>4. ASSUME NEW r \in Requests, NEW k \in Connections, Acquire(r, k) PROVE ShownInv'
  BY <1>1, <1>4, AtWorkShown DEF Acquire, history
<1>5. ASSUME NEW r \in Requests, Execute(r) PROVE ShownInv'
  BY <1>1, <1>5, AtWorkShown DEF Execute, EndTransaction
<1>6. ASSUME NEW r \in Requests, Fault(r) PROVE ShownInv'
  BY <1>1, <1>6, AtWorkShown DEF Fault, EndTransaction
<1>7. ASSUME NEW r \in Requests, Resume(r) PROVE ShownInv'
  BY <1>7, ResumeShown
<1>8. CASE UNCHANGED <<request, history>>
  <2>1. \A q \in Requests : Kept(q) /\ stage'[q] = stage[q]
    BY <1>8 DEF Kept, request, history
  <2> QED  BY <1>1, <2>1, KeptShown DEF ShownInv
<1>9. ASSUME NEW v \in Versions, Apply(v) PROVE ShownInv'
  BY <1>8, <1>9 DEF Apply
<1>10. CASE UNCHANGED vars
  BY <1>8, <1>10 DEF vars
<1> QED
  BY <1>2, <1>3, <1>4, <1>5, <1>6, <1>7, <1>9, <1>10 DEF Next, Serve, Finished

\* Whatever is reloaded while a request is at work, the rows it presents show nothing that
\* the grant live at its end withholds, and those of a read nothing that the one at its
\* start did if that left it any field; a deletion adds the keys, and an aggregate shows no
\* more than the resource at its start let it group by or sum.
THEOREM ResponsesShowGranted == Spec => []ShownGranted
<1>1. ShownInv => ShownGranted
  BY DEF ShownInv, ShownGranted, Granted, Readable
<1> QED  BY InitShown, NextShown, <1>1, PTL DEF Spec

-----------------------------------------------------------------------------
(* Deletions *)

SoftDeleting == \A v \in Versions : SoftDeletes(Configs[v])

\* Every statement a request still has to run is a careful one, on the call's resource.
Tidied(r) ==
  stage[r] \in {"acquire", "execute", "return"} =>
    \A n \in DOMAIN plan[r] : plan[r][n].res = call[r].res /\ Tidy(plan[r][n], call[r])

\* An answer has no row but those of the last statement.
Held(r) ==
  /\ stage[r] = "new" => got[r].rows = {}
  /\ stage[r] # "done" => resp[r].rows = {}
  /\ resp[r].rows \subseteq got[r].rows

\* The rows a request deleted are dead, and so are those it was late for; it met none of
\* the latter, unless it asked for them or upserted.
Buried(r) ==
  /\ \A i \in late[r] : Dead(tbl[call[r].res][i])
  /\ call[r].op \in DeleteOps => \A x \in got[r].rows : Dead(tbl[call[r].res][x.id])
  /\ ~call[r].withDeleted /\ call[r].op # "upsert" => \A x \in got[r].rows : x.id \notin late[r]

\* Two requests that delete from one table do not delete the same row.
Apart(r, s) ==
  /\ r # s
  /\ call[r].op \in DeleteOps /\ call[s].op \in DeleteOps
  /\ call[r].res = call[s].res
  => \A x \in got[r].rows : \A y \in got[s].rows : x.id # y.id

DeletedInv ==
  /\ TypeInv
  /\ \A r \in Requests : Tidied(r) /\ Held(r) /\ Buried(r)
  /\ \A r, s \in Requests : Apart(r, s)

NothingRevived == \A res \in DOMAIN Table0 : StaysDead(tbl[res], tbl'[res])

\* A step of one request leaves another where it was.
Untouched(q) ==
  /\ stage'[q] = stage[q] /\ plan'[q] = plan[q] /\ call'[q] = call[q]
  /\ got'[q] = got[q] /\ resp'[q] = resp[q] /\ late'[q] = late[q]

LEMMA CallResource ==
  ASSUME TypeInv, NEW r \in Requests
  PROVE  IsCall(call[r]) /\ call[r].res \in DOMAIN Table0
BY GatewayAssumption DEF TypeInv, TypeOK

LEMMA DeadStays ==
  ASSUME NEW t, NEW t2, StaysDead(t, t2), NEW i \in Ids, Dead(t[i])
  PROVE  Dead(t2[i])
BY DEF StaysDead, Dead

LEMMA RowsOfIds ==
  ASSUME TypeInv, NEW r \in Requests
  PROVE  /\ \A x \in got[r].rows : x.id \in Ids
         /\ \A i \in late[r] : i \in Ids
<1>1. got[r].rows \in SUBSET Listings /\ late[r] \in SUBSET Ids
  BY DEF TypeInv, TypeOK, Received
<1> QED  BY <1>1 DEF Listings

LEMMA UntouchedBuried ==
  ASSUME DeletedInv, NothingRevived, NEW q \in Requests, Untouched(q)
  PROVE  Tidied(q)' /\ Held(q)' /\ Buried(q)'
<1>1. Tidied(q) /\ Held(q) /\ Buried(q) /\ TypeInv
  BY DEF DeletedInv
<1>2. Tidied(q)' /\ Held(q)'
  BY <1>1 DEF Untouched, Tidied, Held
<1> DEFINE t == tbl[call[q].res]
           t2 == tbl'[call[q].res]
<1>3. StaysDead(t, t2)
  BY <1>1, CallResource DEF NothingRevived
<1>4. /\ \A x \in got[q].rows : x.id \in Ids
      /\ \A i \in late[q] : i \in Ids
  BY <1>1, RowsOfIds
<1>5. \A i \in Ids : Dead(t[i]) => Dead(t2[i])
  <2> HIDE DEF t, t2
  <2> QED  BY <1>3, DeadStays
<1>6. Buried(q)'
  BY <1>1, <1>4, <1>5 DEF Buried, Untouched
<1> QED  BY <1>2, <1>6

LEMMA StepDeleted ==
  ASSUME DeletedInv, TypeInv', NothingRevived, NEW r \in Requests,
         \A q \in Requests \ {r} : Untouched(q),
         Tidied(r)', Held(r)', Buried(r)',
         \A s \in Requests \ {r} : Apart(r, s)'
  PROVE  DeletedInv'
<1>1. \A q \in Requests : Tidied(q)' /\ Held(q)' /\ Buried(q)'
  BY UntouchedBuried
<1>2. ASSUME NEW p \in Requests, NEW q \in Requests PROVE Apart(p, q)'
  <2>1. CASE p # r /\ q # r
    <3>1. Untouched(p) /\ Untouched(q) /\ Apart(p, q)
      BY <2>1 DEF DeletedInv
    <3> QED  BY <3>1 DEF Untouched, Apart
  <2>2. CASE p = r
    BY <2>2 DEF Apart
  <2>3. CASE q = r /\ p # r
    <3>1. Apart(r, p)'
      BY <2>3
    <3> QED  BY <2>3, <3>1 DEF Apart
  <2> QED  BY <2>1, <2>2, <2>3
<1> QED  BY <1>1, <1>2 DEF DeletedInv

\* A step without a statement.
LEMMA QuietDeleted ==
  ASSUME DeletedInv, TypeInv', NEW r \in Requests, UNCHANGED <<tbl, call, got, late>>,
         \A q \in Requests \ {r} :
           stage'[q] = stage[q] /\ plan'[q] = plan[q] /\ resp'[q] = resp[q],
         Tidied(r)', Held(r)'
  PROVE  DeletedInv'
<1>1. NothingRevived
  BY DEF NothingRevived, StaysDead
<1>2. \A q \in Requests \ {r} : Untouched(q)
  BY DEF Untouched
<1>3. Buried(r)' /\ \A s \in Requests \ {r} : Apart(r, s)'
  BY DEF DeletedInv, Buried, Apart
<1> QED  BY <1>1, <1>2, <1>3, StepDeleted

LEMMA InitDeleted == Init => DeletedInv
<1> SUFFICES ASSUME Init PROVE DeletedInv
  OBVIOUS
<1>1. \A r \in Requests : /\ stage[r] = "new" /\ late[r] = {}
                          /\ got[r].rows = {} /\ resp[r].rows = {}
  BY DEF Init, NoOutcome, NoResponse
<1> QED  BY <1>1, InitTyped DEF DeletedInv, Tidied, Held, Buried, Apart

LEMMA HandleTidied ==
  ASSUME SoftDeleting, TypeInv, NEW r \in Requests, NEW c, IsCall(c), c.res \in DOMAIN Table0,
         NEW context, context.tenant \in Tenants, Handle(r, c, context)
  PROVE  /\ \A q \in Requests \ {r} :
              stage'[q] = stage[q] /\ plan'[q] = plan[q] /\ resp'[q] = resp[q]
         /\ resp'[r].rows \in {{}, resp[r].rows}
         /\ stage'[r] \in {"acquire", "done"}
         /\ stage'[r] = "acquire" =>
              \A n \in DOMAIN plan'[r] : plan'[r][n].res = c.res /\ Tidy(plan'[r][n], c)
<1> DEFINE p == Prepare(Config, context, c)
<1>1. TidyPlan(p, c)
  <2>1. IsConfig(Config) /\ SoftDeletes(Config)
    BY LiveConfig DEF SoftDeleting, Config, TypeInv, TypeOK
  <2> QED  BY <2>1, PrepareTidy
<1> HIDE DEF p
<1>2. /\ \A q \in Requests \ {r} :
           stage'[q] = stage[q] /\ plan'[q] = plan[q] /\ resp'[q] = resp[q]
      /\ resp'[r].rows \in {{}, resp[r].rows}
      /\ stage'[r] \in {"acquire", "done"}
  BY HandleScoped
<1>3. stage'[r] = "acquire" => \A n \in DOMAIN plan'[r] : plan'[r][n].res = c.res
  BY HandleTyped DEF IsBuilt
<1>4. stage'[r] = "acquire" => plan'[r] = p.plan
  <2>1. CASE Respond(r, Answer(p.status, p.code))
    BY <2>1 DEF Respond, TypeInv, TypeOK
  <2>2. CASE plan' = [plan EXCEPT ![r] = p.plan]
    BY <2>2 DEF TypeInv, TypeOK
  <2> QED  BY <2>1, <2>2 DEF Handle, p
<1> QED  BY <1>1, <1>2, <1>3, <1>4 DEF TidyPlan

LEMMA AcknowledgedDead ==
  ASSUME DeletedInv, NEW res
  PROVE  \A i \in Acknowledged(res) : Dead(tbl[res][i])
<1>1. ASSUME NEW i \in Acknowledged(res) PROVE Dead(tbl[res][i])
  <2>1. PICK q \in Requests : /\ call[q].op \in DeleteOps /\ call[q].res = res
                              /\ \E x \in resp[q].rows : x.id = i
    BY <1>1 DEF Acknowledged
  <2>2. PICK x \in resp[q].rows : x.id = i
    BY <2>1
  <2>3. x \in got[q].rows
    BY <2>2 DEF DeletedInv, Held
  <2> QED  BY <2>1, <2>2, <2>3 DEF DeletedInv, Buried
<1> QED  BY <1>1

LEMMA AdmitDeleted ==
  ASSUME SoftDeleting, DeletedInv, NEW r \in Requests, NEW c \in Calls, Admit(r, c)
  PROVE  DeletedInv' /\ NothingRevived
<1> DEFINE context == [tenant |-> Config.accounts[c.dn].tenant, dn |-> c.dn]
<1>1. TypeInv /\ TypeInv'
  BY AdmitTyped DEF DeletedInv
<1>2. /\ stage[r] = "new" /\ UNCHANGED <<tbl, got>>
      /\ got[r].rows = {} /\ resp[r].rows = {}
      /\ call'[r] = c /\ late'[r] = Acknowledged(c.res)
      /\ \A q \in Requests \ {r} : call'[q] = call[q] /\ late'[q] = late[q]
  BY <1>1 DEF Admit, DeletedInv, Held, TypeInv, TypeOK
<1>3. \A status, code : Answer(status, code).rows = {}
  BY DEF Answer, NoResponse
<1>4. NothingRevived
  BY <1>2 DEF NothingRevived, StaysDead
<1>5. ASSUME /\ \A q \in Requests \ {r} :
                  stage'[q] = stage[q] /\ plan'[q] = plan[q] /\ resp'[q] = resp[q]
             /\ stage'[r] # "new" /\ resp'[r].rows = {}
             /\ stage'[r] \in {"acquire", "execute", "return"} =>
                  \A n \in DOMAIN plan'[r] : plan'[r][n].res = c.res /\ Tidy(plan'[r][n], c)
      PROVE  DeletedInv'
  <2>1. \A q \in Requests \ {r} : Untouched(q)
    BY <1>2, <1>5 DEF Untouched
  <2>2. Tidied(r)' /\ Held(r)'
    BY <1>2, <1>5 DEF Tidied, Held
  <2>3. Buried(r)' /\ \A s \in Requests \ {r} : Apart(r, s)'
    BY <1>2, AcknowledgedDead DEF Buried, Apart
  <2> QED  BY <1>1, <1>4, <2>1, <2>2, <2>3, StepDeleted
<1>6. CASE \E status, code : /\ Respond(r, Answer(status, code))
                             /\ UNCHANGED plan
  <2>1. /\ \A q \in Requests \ {r} :
             stage'[q] = stage[q] /\ plan'[q] = plan[q] /\ resp'[q] = resp[q]
        /\ stage'[r] = "done" /\ resp'[r].rows = {}
    BY <1>1, <1>3, <1>6 DEF Respond, TypeInv, TypeOK
  <2> QED  BY <1>4, <1>5, <2>1
<1>7. CASE /\ stage' = [stage EXCEPT ![r] = "body"]
           /\ UNCHANGED <<plan, resp>>
  <2>1. /\ \A q \in Requests \ {r} :
             stage'[q] = stage[q] /\ plan'[q] = plan[q] /\ resp'[q] = resp[q]
        /\ stage'[r] = "body" /\ resp'[r].rows = {}
    BY <1>1, <1>2, <1>7 DEF TypeInv, TypeOK
  <2> QED  BY <1>4, <1>5, <2>1
<1>8. CASE /\ c.dn \in DOMAIN Config.accounts
           /\ Handle(r, c, context)
  <2>1. context.tenant \in Tenants
    BY <1>1, <1>8, LiveConfig DEF TypeInv, IsConfig
  <2> HIDE DEF context
  <2>2. IsCall(c) /\ c.res \in DOMAIN Table0
    BY GatewayAssumption
  <2>3. /\ \A q \in Requests \ {r} :
             stage'[q] = stage[q] /\ plan'[q] = plan[q] /\ resp'[q] = resp[q]
        /\ resp'[r].rows \in {{}, resp[r].rows}
        /\ stage'[r] \in {"acquire", "done"}
        /\ stage'[r] = "acquire" =>
             \A n \in DOMAIN plan'[r] : plan'[r][n].res = c.res /\ Tidy(plan'[r][n], c)
    BY <1>1, <1>8, <2>1, <2>2, HandleTidied
  <2> QED  BY <1>2, <1>4, <1>5, <2>3
<1> QED  BY <1>6, <1>7, <1>8 DEF Admit

LEMMA BodyDeleted ==
  ASSUME SoftDeleting, DeletedInv, NEW r \in Requests, Body(r)
  PROVE  DeletedInv' /\ NothingRevived
<1> DEFINE c == [call[r] EXCEPT !.items = ParsedItems(BootConfig, call[r])]
<1>1. TypeInv /\ TypeInv'
  BY BodyTyped DEF DeletedInv
<1>2. /\ stage[r] = "body" /\ ctx[r].tenant \in Tenants /\ resp[r].rows = {}
      /\ UNCHANGED <<tbl, call, got, late>>
  BY <1>1 DEF Body, TypeInv, Wired, DeletedInv, Held
<1>3. NothingRevived
  BY <1>2 DEF NothingRevived, StaysDead
<1>4. ASSUME /\ \A q \in Requests \ {r} :
                  stage'[q] = stage[q] /\ plan'[q] = plan[q] /\ resp'[q] = resp[q]
             /\ stage'[r] # "new" /\ resp'[r].rows = {}
             /\ stage'[r] \in {"acquire", "execute", "return"} =>
                  \A n \in DOMAIN plan'[r] :
                    plan'[r][n].res = call[r].res /\ Tidy(plan'[r][n], call[r])
      PROVE  DeletedInv'
  <2>1. Tidied(r)' /\ Held(r)'
    BY <1>2, <1>4 DEF Tidied, Held
  <2> QED  BY <1>1, <1>2, <1>4, <2>1, QuietDeleted
<1>5. CASE /\ Respond(r, Answer(400, "VALIDATION_ERROR"))
           /\ UNCHANGED <<call, plan, cols, authorised>>
  <2>1. Answer(400, "VALIDATION_ERROR").rows = {}
    BY DEF Answer, NoResponse
  <2>2. /\ \A q \in Requests \ {r} :
             stage'[q] = stage[q] /\ plan'[q] = plan[q] /\ resp'[q] = resp[q]
        /\ stage'[r] = "done" /\ resp'[r].rows = {}
    BY <1>1, <1>5, <2>1 DEF Respond, TypeInv, TypeOK
  <2> QED  BY <1>3, <1>4, <2>2
<1>6. CASE Handle(r, c, ctx[r])
  <2>1. IsCall(call[r]) /\ call[r].res \in DOMAIN Table0
    BY <1>1, CallResource
  <2>2. /\ IsCall(c) /\ c.res = call[r].res /\ c.op = call[r].op
        /\ c.withDeleted = call[r].withDeleted
    BY <2>1, ParsedCall DEF IsCall
  <2> HIDE DEF c
  <2>3. /\ \A q \in Requests \ {r} :
             stage'[q] = stage[q] /\ plan'[q] = plan[q] /\ resp'[q] = resp[q]
        /\ resp'[r].rows \in {{}, resp[r].rows}
        /\ stage'[r] \in {"acquire", "done"}
        /\ stage'[r] = "acquire" =>
             \A n \in DOMAIN plan'[r] : plan'[r][n].res = c.res /\ Tidy(plan'[r][n], c)
    BY <1>1, <1>2, <1>6, <2>1, <2>2, HandleTidied
  <2>4. \A q : Tidy(q, c) => Tidy(q, call[r])
    BY <2>2 DEF Tidy
  <2> QED  BY <1>2, <1>3, <1>4, <2>2, <2>3, <2>4
<1> QED  BY <1>5, <1>6 DEF Body

LEMMA AcquireDeleted ==
  ASSUME DeletedInv, NEW r \in Requests, NEW k \in Connections, Acquire(r, k)
  PROVE  DeletedInv' /\ NothingRevived
<1>1. TypeInv /\ TypeInv'
  BY AcquireTyped DEF DeletedInv
<1>2. /\ UNCHANGED <<tbl, call, plan, got, resp, late>>
      /\ stage[r] = "acquire" /\ stage'[r] = "execute"
      /\ \A q \in Requests \ {r} : stage'[q] = stage[q]
  BY <1>1 DEF Acquire, TypeInv, TypeOK, history
<1>3. NothingRevived
  BY <1>2 DEF NothingRevived, StaysDead
<1>4. Tidied(r)' /\ Held(r)'
  BY <1>2 DEF DeletedInv, Tidied, Held
<1>5. DeletedInv'
  BY <1>1, <1>2, <1>4, QuietDeleted
<1> QED  BY <1>3, <1>5

\* A statement of a request buries what it deletes, whatever else is at work.
LEMMA PossibleBury ==
  ASSUME DeletedInv, NEW r \in Requests, stage[r] = "execute", NEW o \in Possible(r)
  PROVE  LET q == Head(plan[r])
         IN  /\ q.res = call[r].res /\ Tidy(q, call[r])
             /\ Buries(q, o, tbl[call[r].res])
<1> DEFINE q == Head(plan[r])
<1>1. TypeInv /\ IsPlan(plan[r]) /\ plan[r] # <<>>
  BY DEF DeletedInv, TypeInv, TypeOK, Wired
<1>2. IsStatement(q) /\ tbl[q.res] \in Tables
  BY <1>1, AtExecute
<1>3. q.res = call[r].res /\ Tidy(q, call[r])
  <2>1. 1 \in DOMAIN plan[r] /\ q = plan[r][1]
    BY <1>1, PlanParts
  <2> QED  BY <2>1 DEF DeletedInv, Tidied
<1>4. o \in Outcomes(q, guc[conn[r]], tbl[q.res])
  BY DEF Possible
<1> HIDE DEF q
<1>5. Buries(q, o, tbl[q.res])
  BY <1>2, <1>3, <1>4, OutcomesBury DEF Tidy
<1> QED  BY <1>3, <1>5 DEF q

LEMMA StoreBuries ==
  ASSUME DeletedInv, NEW r \in Requests, stage[r] = "execute", NEW o \in Possible(r),
         Store(r, o.tbl)
  PROVE  NothingRevived /\ tbl'[call[r].res] = o.tbl
<1> DEFINE own == Head(plan[r]).res
<1>1. own = call[r].res /\ StaysDead(tbl[own], o.tbl)
  BY PossibleBury DEF Buries
<1>2. tbl' = [tbl EXCEPT ![own] = o.tbl]
  BY DEF Store
<1> HIDE DEF own
<1>3. DOMAIN tbl = DOMAIN Table0 /\ own \in DOMAIN Table0
  BY <1>1, CallResource DEF DeletedInv, TypeInv, TypeOK
<1>4. ASSUME NEW res \in DOMAIN Table0 PROVE StaysDead(tbl[res], tbl'[res])
  <2>1. CASE res = own
    BY <1>1, <1>2, <1>3, <2>1
  <2>2. CASE res # own
    BY <1>2, <1>3, <2>2 DEF StaysDead
  <2> QED  BY <2>1, <2>2
<1> QED  BY <1>1, <1>2, <1>3, <1>4 DEF NothingRevived

\* The end of a transaction, for the request it was.
LEMMA EndHeld ==
  ASSUME DeletedInv, NEW r \in Requests, stage[r] = "execute", NEW outcome,
         EndTransaction(r, outcome)
  PROVE  /\ Tidied(r)' /\ Held(r)'
         /\ \A q \in Requests \ {r} : Untouched(q)
         /\ got'[r] = outcome /\ call' = call /\ late' = late
<1>1. /\ stage'[r] = "return" /\ got'[r] = outcome /\ resp' = resp /\ plan' = plan
      /\ call' = call /\ late' = late
      /\ \A q \in Requests \ {r} : stage'[q] = stage[q] /\ got'[q] = got[q]
  BY DEF EndTransaction, DeletedInv, TypeInv, TypeOK
<1>2. resp[r].rows = {}
  BY DEF DeletedInv, Held
<1> QED  BY <1>1, <1>2 DEF DeletedInv, Tidied, Held, Untouched

LEMMA ExecuteDeleted ==
  ASSUME DeletedInv, NEW r \in Requests, Execute(r)
  PROVE  DeletedInv' /\ NothingRevived
<1> DEFINE q == Head(plan[r])
           res == call[r].res
<1>1. TypeInv /\ TypeInv' /\ stage[r] = "execute"
  BY ExecuteTyped DEF DeletedInv, Execute
<1>2. PICK o \in Possible(r) : /\ EndTransaction(r, [rows |-> o.rows, total |-> o.total, err |-> o.err])
                               /\ Store(r, o.tbl)
  BY DEF Execute
<1>3. Tidy(q, call[r]) /\ Buries(q, o, tbl[res])
  BY <1>1, PossibleBury
<1>4. NothingRevived /\ tbl'[res] = o.tbl
  BY <1>1, <1>2, StoreBuries
<1>5. /\ Tidied(r)' /\ Held(r)'
      /\ \A p \in Requests \ {r} : Untouched(p)
      /\ got'[r].rows = o.rows /\ call' = call /\ late' = late
  BY <1>1, <1>2, EndHeld
<1>6. /\ call[r].op \in DeleteOps => Marks(q)
      /\ call[r].op \in DeleteOps => ~PassesOver(q)
      /\ ~call[r].withDeleted /\ call[r].op # "upsert" => ~PassesOver(q)
  BY <1>3 DEF Tidy, DeleteOps, Marks, PassesOver
<1> HIDE DEF q
<1>7. /\ ~PassesOver(q) => \A x \in o.rows : ~Dead(tbl[res][x.id])
      /\ Marks(q) => \A x \in o.rows : Dead(tbl'[res][x.id])
  BY <1>3, <1>4 DEF Buries
<1>8. \A i \in late[r] : Dead(tbl[res][i]) /\ Dead(tbl'[res][i])
  <2>1. \A i \in late[r] : i \in Ids /\ Dead(tbl[res][i])
    BY <1>1, RowsOfIds DEF DeletedInv, Buried
  <2>2. StaysDead(tbl[res], tbl'[res])
    BY <1>1, <1>4, CallResource DEF NothingRevived
  <2> QED  BY <2>1, <2>2, DeadStays
<1>9. Buried(r)'
  BY <1>5, <1>6, <1>7, <1>8 DEF Buried
<1>10. ASSUME NEW s \in Requests \ {r} PROVE Apart(r, s)'
  <2>1. got'[s] = got[s] /\ Buried(s)
    BY <1>5 DEF DeletedInv, Untouched
  <2> QED  BY <1>5, <1>6, <1>7, <2>1 DEF Apart, Buried
<1>11. DeletedInv'
  BY <1>1, <1>4, <1>5, <1>9, <1>10, StepDeleted
<1> QED  BY <1>4, <1>11

LEMMA FaultDeleted ==
  ASSUME DeletedInv, NEW r \in Requests, Fault(r)
  PROVE  DeletedInv' /\ NothingRevived
<1>1. TypeInv /\ TypeInv' /\ stage[r] = "execute"
  BY FaultTyped DEF DeletedInv, Fault
<1>2. PICK err \in {"timeout", "other"} : EndTransaction(r, [NoOutcome EXCEPT !.err = err])
  BY DEF Fault
<1>3. [NoOutcome EXCEPT !.err = err].rows = {}
  BY DEF NoOutcome
<1>4. NothingRevived
  <2>1. CASE UNCHANGED <<tbl, effect>>
    BY <2>1 DEF NothingRevived, StaysDead
  <2>2. CASE \E o \in Possible(r) : Store(r, o.tbl)
    BY <1>1, <2>2, StoreBuries
  <2> QED  BY <2>1, <2>2 DEF Fault
<1>5. /\ Tidied(r)' /\ Held(r)'
      /\ \A p \in Requests \ {r} : Untouched(p)
      /\ got'[r].rows = {} /\ call' = call /\ late' = late
  BY <1>1, <1>2, <1>3, EndHeld
<1>6. Buried(r)'
  <2>1. \A i \in late[r] : i \in Ids /\ Dead(tbl[call[r].res][i])
    BY <1>1, RowsOfIds DEF DeletedInv, Buried
  <2>2. StaysDead(tbl[call[r].res], tbl'[call[r].res])
    BY <1>1, <1>4, CallResource DEF NothingRevived
  <2>3. \A i \in late[r] : Dead(tbl'[call[r].res][i])
    BY <2>1, <2>2, DeadStays
  <2> QED  BY <1>5, <2>3 DEF Buried
<1>7. \A s \in Requests \ {r} : Apart(r, s)'
  BY <1>5 DEF Apart
<1>8. DeletedInv'
  BY <1>1, <1>4, <1>5, <1>6, <1>7, StepDeleted
<1> QED  BY <1>4, <1>8

LEMMA ResumeDeleted ==
  ASSUME DeletedInv, NEW r \in Requests, Resume(r)
  PROVE  DeletedInv' /\ NothingRevived
<1>1. TypeInv /\ TypeInv'
  BY ResumeTyped DEF DeletedInv
<1>2. /\ stage[r] = "return" /\ UNCHANGED <<tbl, call, got, late>>
      /\ IsPlan(plan[r]) /\ plan[r] # <<>> /\ resp[r].rows = {}
  BY <1>1 DEF Resume, TypeInv, TypeOK, Wired, DeletedInv, Held
<1>3. NothingRevived
  BY <1>2 DEF NothingRevived, StaysDead
<1>4. CASE /\ stage' = [stage EXCEPT ![r] = "acquire"]
           /\ plan' = [plan EXCEPT ![r] = Tail(@)]
           /\ UNCHANGED <<resp, shownBy>>
  <2>1. /\ stage'[r] = "acquire" /\ plan'[r] = Tail(plan[r])
        /\ \A q \in Requests \ {r} :
             stage'[q] = stage[q] /\ plan'[q] = plan[q] /\ resp'[q] = resp[q]
    BY <1>1, <1>4 DEF TypeInv, TypeOK
  <2>2. \A n \in DOMAIN Tail(plan[r]) :
          n + 1 \in DOMAIN plan[r] /\ Tail(plan[r])[n] = plan[r][n + 1]
    BY <1>2, PlanParts
  <2>3. Tidied(r)'
    BY <1>2, <2>1, <2>2 DEF DeletedInv, Tidied
  <2>4. Held(r)'
    BY <1>2, <1>4, <2>1 DEF Held
  <2> QED  BY <1>1, <1>2, <1>3, <2>1, <2>3, <2>4, QuietDeleted
<1>5. CASE /\ Respond(r, Result(r, Head(plan[r])))
           /\ UNCHANGED <<plan, total>>
  <2>1. Result(r, Head(plan[r])).rows \in {{}, got[r].rows}
    BY ResultRows
  <2>2. /\ stage'[r] = "done" /\ resp'[r] = Result(r, Head(plan[r]))
        /\ \A q \in Requests \ {r} :
             stage'[q] = stage[q] /\ plan'[q] = plan[q] /\ resp'[q] = resp[q]
    BY <1>1, <1>5 DEF Respond, TypeInv, TypeOK
  <2>3. Tidied(r)' /\ Held(r)'
    BY <1>2, <2>1, <2>2 DEF Tidied, Held
  <2> QED  BY <1>1, <1>2, <1>3, <2>2, <2>3, QuietDeleted
<1> QED  BY <1>4, <1>5 DEF Resume

LEMMA NextDeleted ==
  ASSUME SoftDeleting
  PROVE  DeletedInv /\ [Next]_vars => DeletedInv' /\ NothingRevived
<1> SUFFICES ASSUME DeletedInv, [Next]_vars PROVE DeletedInv' /\ NothingRevived
  OBVIOUS
<1>1. ASSUME NEW r \in Requests, NEW c \in Calls, Admit(r, c) PROVE DeletedInv' /\ NothingRevived
  BY <1>1, AdmitDeleted
<1>2. ASSUME NEW r \in Requests, Body(r) PROVE DeletedInv' /\ NothingRevived
  BY <1>2, BodyDeleted
<1>3. ASSUME NEW r \in Requests, NEW k \in Connections, Acquire(r, k)
      PROVE  DeletedInv' /\ NothingRevived
  BY <1>3, AcquireDeleted
<1>4. ASSUME NEW r \in Requests, Execute(r) PROVE DeletedInv' /\ NothingRevived
  BY <1>4, ExecuteDeleted
<1>5. ASSUME NEW r \in Requests, Fault(r) PROVE DeletedInv' /\ NothingRevived
  BY <1>5, FaultDeleted
<1>6. ASSUME NEW r \in Requests, Resume(r) PROVE DeletedInv' /\ NothingRevived
  BY <1>6, ResumeDeleted
<1>7. CASE UNCHANGED <<tbl, request, history>>
  <2>1. NothingRevived
    BY <1>7 DEF NothingRevived, StaysDead
  <2>2. TypeInv'
    BY NextTyped DEF DeletedInv
  <2>3. \A q \in Requests : Untouched(q)
    BY <1>7 DEF Untouched, request, history
  <2>4. \A q \in Requests : Tidied(q)' /\ Held(q)' /\ Buried(q)'
    BY <2>1, <2>3, UntouchedBuried
  <2>5. \A r, s \in Requests : Apart(r, s)'
    BY <1>7 DEF DeletedInv, Apart, request
  <2> QED  BY <2>1, <2>2, <2>4, <2>5 DEF DeletedInv
<1>8. ASSUME NEW v \in Versions, Apply(v) PROVE DeletedInv' /\ NothingRevived
  BY <1>7, <1>8 DEF Apply
<1>9. CASE UNCHANGED vars
  BY <1>7, <1>9 DEF vars
<1> QED
  BY <1>1, <1>2, <1>3, <1>4, <1>5, <1>6, <1>8, <1>9 DEF Next, Serve, Finished

LEMMA AlwaysDeleted == ASSUME SoftDeleting PROVE Spec => []DeletedInv
<1>1. DeletedInv /\ [Next]_vars => DeletedInv'
  BY NextDeleted
<1> QED  BY InitDeleted, <1>1, PTL DEF Spec

\* Where every resource deletes by marking, a row is deleted once and for one client, even
\* if single and bulk deletes of any number of clients meet on it.
THEOREM RowsDeletedOnce == ASSUME SoftDeleting PROVE Spec => []DeletedOnce
<1>1. DeletedInv => DeletedOnce
  <2> SUFFICES ASSUME DeletedInv, NEW r \in Requests, NEW s \in Requests,
                      r # s, call[r].op \in DeleteOps, call[s].op \in DeleteOps,
                      call[r].res = call[s].res
               PROVE  RespIds(r) \cap RespIds(s) = {}
    BY DEF DeletedOnce
  <2>1. \A x \in got[r].rows : \A y \in got[s].rows : x.id # y.id
    BY DEF DeletedInv, Apart
  <2>2. resp[r].rows \subseteq got[r].rows /\ resp[s].rows \subseteq got[s].rows
    BY DEF DeletedInv, Held
  <2> QED  BY <2>1, <2>2 DEF RespIds
<1> QED  BY <1>1, AlwaysDeleted, PTL

\* A row whose deletion was answered is out of reach of every later request, but for an
\* upsert and for those that ask for deleted rows.
THEOREM DeletionsHide == ASSUME SoftDeleting PROVE Spec => []AckedDeleteHides
<1>1. DeletedInv => AckedDeleteHides
  <2> SUFFICES ASSUME DeletedInv, NEW r \in Requests, ~call[r].withDeleted,
                      call[r].op # "upsert"
               PROVE  RespIds(r) \cap late[r] = {}
    BY DEF AckedDeleteHides
  <2>1. \A x \in got[r].rows : x.id \notin late[r]
    BY DEF DeletedInv, Buried
  <2>2. resp[r].rows \subseteq got[r].rows
    BY DEF DeletedInv, Held
  <2> QED  BY <2>1, <2>2 DEF RespIds
<1> QED  BY <1>1, AlwaysDeleted, PTL

\* No statement of any plan unmarks a deleted row or reuses an erased id.
THEOREM DeletionsLast == ASSUME SoftDeleting PROVE Spec => DeletedStaysDeleted
<1> DEFINE A == \A res \in DOMAIN tbl : \A i \in Ids :
                  /\ tbl[res][i] = Erased => tbl'[res][i] = Erased
                  /\ tbl[res][i] \in Rows /\ tbl[res][i].deleted_at =>
                       tbl'[res][i] \in Rows /\ tbl'[res][i].deleted_at
<1>1. DeletedInv /\ NothingRevived => A
  BY DEF DeletedInv, TypeInv, TypeOK, NothingRevived, StaysDead, Marked
<1>2. DeletedInv /\ [Next]_vars => [A]_vars
  BY <1>1, NextDeleted
<1> HIDE DEF A
<1>3. Spec => [][A]_vars
  BY <1>2, AlwaysDeleted, PTL DEF Spec
<1> QED  BY <1>3 DEF DeletedStaysDeleted, A
=============================================================================
