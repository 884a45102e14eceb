---------------------------- MODULE Promise_proofs ----------------------------
(***************************************************************************)
(* Gateway keeps the promise of TenantStore, its responses tell what their *)
(* requests did, and it uses connections as Leases has it, for any number  *)
(* of requests, connections, tenants, rows, configurations and reloads.    *)
(***************************************************************************)
EXTENDS Gateway_proofs

IdsIn(rows) == {x.id : x \in rows}

-----------------------------------------------------------------------------
(* What a statement reports *)

\* An error means that nothing was changed; otherwise every changed row is reported, as it
\* is now, or as it was if it is gone.
Reports(o, t) ==
  /\ o.err # "" => o.tbl = t /\ o.rows = {}
  /\ o.err = "" => \A i \in Ids : o.tbl[i] # t[i] => i \in IdsIn(o.rows)
  /\ \A x \in o.rows :
       /\ x = [id |-> x.id, row |-> x.row]
       /\ x.id \in Ids /\ x.row \in Rows
       /\ \/ x.row = o.tbl[x.id]
          \/ x.row = t[x.id] /\ o.tbl[x.id] \notin Rows

LEMMA ListedReports ==
  ASSUME NEW t, NEW t1, NEW t2, NEW n, NEW is \in SUBSET Ids,
         \A i \in is : t1[i] \in Rows,
         \A i \in is : t1[i] = t2[i] \/ (t1[i] = t[i] /\ t2[i] \notin Rows),
         \A i \in Ids : t2[i] # t[i] => i \in is
  PROVE  Reports(Success(t2, Listed(is, t1), n), t)
<1> DEFINE o == Success(t2, Listed(is, t1), n)
<1>1. o.err = "" /\ o.tbl = t2 /\ o.rows = Listed(is, t1)
  BY DEF Success
<1>2. ASSUME NEW x \in o.rows
      PROVE  /\ x = [id |-> x.id, row |-> x.row]
             /\ x.id \in Ids /\ x.row \in Rows
             /\ x.row = t2[x.id] \/ (x.row = t[x.id] /\ t2[x.id] \notin Rows)
  <2>1. PICK i \in is : x = [id |-> i, row |-> t1[i]]
    BY <1>1 DEF Listed
  <2> HIDE DEF o
  <2> QED  BY <2>1
<1>3. ASSUME NEW i \in Ids, t2[i] # t[i] PROVE i \in IdsIn(o.rows)
  <2>1. [id |-> i, row |-> t1[i]] \in o.rows
    BY <1>1, <1>3 DEF Listed
  <2> HIDE DEF o
  <2> QED  BY <2>1 DEF IdsIn
<1> HIDE DEF o
<1>4. Reports(o, t)
  BY <1>1, <1>2, <1>3 DEF Reports
<1> QED  BY <1>4 DEF o

\* What fresh ids leave alone, and what they hold.
LEMMA NewReports ==
  ASSUME NEW q, IsStatement(q), NEW g, Insertable(q, g), NEW t \in Tables,
         NEW ks \in SUBSET (DOMAIN q.items), NEW fresh \in FreshIds(ks, t)
  PROVE  /\ Range(fresh) \in SUBSET Ids
         /\ \A i \in Range(fresh) : WithNew(q, t, fresh)[i] \in Rows /\ t[i] = Unborn
         /\ \A i \in Ids \ Range(fresh) : WithNew(q, t, fresh)[i] = t[i]
<1>1. \A k \in DOMAIN q.items : IsValues(q.items[k]) /\ UniqueKey \subseteq DOMAIN q.items[k]
  BY DEF IsStatement, Insertable
<1>2. fresh \in [ks -> {i \in Ids : t[i] = Unborn}]
  BY DEF FreshIds, Injection
<1>3. \A i \in Ids \ Range(fresh) : WithNew(q, t, fresh)[i] = t[i]
  BY DEF WithNew, Range
<1>4. \A i \in Range(fresh) : i \in Ids /\ t[i] = Unborn
  BY <1>2 DEF Range
<1>5. /\ Range(fresh) \subseteq Ids
      /\ \A i \in Range(fresh) : WithNew(q, t, fresh)[i] \in Rows
  BY <1>1, WithNewTyped
<1> QED  BY <1>3, <1>4, <1>5

LEMMA OutcomesReport ==
  ASSUME NEW q, IsStatement(q), NEW g, NEW t \in Tables, NEW o \in Outcomes(q, g, t)
  PROVE  Reports(o, t)
<1> DEFINE m == Matching(q, g, t)
<1>1. m \in SUBSET Ids /\ \A i \in m : t[i] \in Rows
  BY DEF Matching, IdsOf
<1>2. ASSUME NEW err, err # "" PROVE Reports(Failure(t, err), t)
  BY <1>2 DEF Reports, Failure
<1>3. ASSUME NEW t1, NEW t2, NEW n, NEW is \in SUBSET Ids,
             \A i \in is : t1[i] \in Rows,
             \A i \in is : t1[i] = t2[i] \/ (t1[i] = t[i] /\ t2[i] \notin Rows),
             \A i \in Ids : t2[i] # t[i] => i \in is
      PROVE  Reports(Success(t2, Listed(is, t1), n), t)
  BY <1>3, ListedReports
<1>4. CASE q.kind = "select"
  <2>1. PICK page \in SUBSET m : o = Success(t, Listed(page, t), 0)
    BY <1>4 DEF Outcomes, Selected
  <2>2. page \in SUBSET Ids /\ \A i \in page : t[i] \in Rows
    BY <1>1
  <2> QED  BY <2>1, <2>2, <1>3
<1>5. CASE q.kind = "count"
  <2>1. o = Success(t, {}, Cardinality(m))
    BY <1>5 DEF Outcomes, Counted
  <2> QED  BY <2>1 DEF Success, Reports
<1>6. CASE q.kind = "update"
  <2> DEFINE t2 == [i \in Ids |-> IF i \in m THEN Assign(t[i], q.set) ELSE t[i]]
  <2>1. CASE o \in {Failure(t, "other"), Failure(t, "unique")}
    BY <1>2, <2>1
  <2>2. CASE o = Success(t2, Listed(m, t2), 0)
    <3>1. \A i \in m : t2[i] \in Rows
      <4>1. IsValues(q.set)
        BY DEF IsStatement
      <4> QED  BY <1>1, <4>1, AssignRow
    <3>2. \A i \in Ids : t2[i] # t[i] => i \in m
      OBVIOUS
    <3> HIDE DEF m, t2
    <3> QED  BY <1>1, <2>2, <3>1, <3>2, <1>3
  <2> QED  BY <1>6, <2>1, <2>2 DEF Outcomes, Updated
<1>7. CASE q.kind = "delete"
  <2> DEFINE t2 == [i \in Ids |-> IF i \in m THEN Erased ELSE t[i]]
  <2>1. o = Success(t2, Listed(m, t), 0)
    BY <1>7 DEF Outcomes, Deleted
  <2>2. /\ \A i \in m : t2[i] \notin Rows
        /\ \A i \in Ids : t2[i] # t[i] => i \in m
    BY <1>1, NoSuchRow
  <2> HIDE DEF m, t2
  <2> QED  BY <1>1, <2>1, <2>2, <1>3
<1>8. CASE q.kind = "insert"
  <2>1. CASE o \in {Failure(t, "other"), Failure(t, "unique")}
    BY <1>2, <2>1
  <2>2. ASSUME Insertable(q, g), NEW fresh \in FreshIds(DOMAIN q.items, t),
               o = InsertWith(q, t, fresh)
        PROVE  Reports(o, t)
    <3>1. /\ Range(fresh) \in SUBSET Ids
          /\ \A i \in Range(fresh) : WithNew(q, t, fresh)[i] \in Rows
          /\ \A i \in Ids \ Range(fresh) : WithNew(q, t, fresh)[i] = t[i]
      BY <2>2, NewReports
    <3> QED  BY <2>2, <3>1, <1>3 DEF InsertWith
  <2> QED  BY <1>8, <2>1, <2>2 DEF Outcomes, Inserted
<1>9. CASE q.kind = "upsert"
  <2> DEFINE new == {k \in {k \in DOMAIN q.items : FirstOfKey(q, k)} :
                       Conflicting(q.items[k], t) = {}}
             met == IF q.updates = {} THEN {}
                    ELSE UNION {Conflicting(q.items[k], t) : k \in DOMAIN q.items}
             item(i) == CHOOSE k \in DOMAIN q.items : i \in Conflicting(q.items[k], t)
  <2>1. CASE o = Failure(t, "other")
    BY <1>2, <2>1
  <2>2. ASSUME Insertable(q, g), NEW fresh \in FreshIds(new, t), o = UpsertWith(q, t, fresh)
        PROVE  Reports(o, t)
    <3> DEFINE t2 == WithNew(q, t, fresh)
               t3 == [i \in Ids |-> IF i \in met
                                      THEN Assign(t[i], Restrict(q.items[item(i)], q.updates))
                                      ELSE t2[i]]
    <3>1. /\ Range(fresh) \in SUBSET Ids
          /\ \A i \in Range(fresh) : t2[i] \in Rows
          /\ \A i \in Ids \ Range(fresh) : t2[i] = t[i]
      BY <2>2, NewReports
    <3>2. \A i \in met : i \in Ids /\ t[i] \in Rows /\ item(i) \in DOMAIN q.items
      BY DEF Conflicting, IdsOf
    <3>3. ASSUME NEW i \in met PROVE t3[i] \in Rows
      <4> DEFINE values == Restrict(q.items[item(i)], q.updates)
      <4>1. IsValues(q.items[item(i)]) /\ q.updates \subseteq DOMAIN q.items[item(i)]
        BY <3>2 DEF IsStatement
      <4>2. IsValues(values)
        <5> HIDE DEF item
        <5> QED  BY <4>1 DEF IsValues, Restrict
      <4> HIDE DEF values
      <4>3. Assign(t[i], values) \in Rows
        BY <3>2, <4>2, AssignRow
      <4> QED  BY <3>2, <4>3 DEF values
    <3>4. /\ met \cup Range(fresh) \in SUBSET Ids
          /\ \A i \in met \cup Range(fresh) : t3[i] \in Rows
          /\ \A i \in Ids : t3[i] # t[i] => i \in met \cup Range(fresh)
      BY <3>1, <3>2, <3>3
    <3>5. o = Success(t3, Listed(met \cup Range(fresh), t3), 0)
      BY <2>2 DEF UpsertWith
    <3> HIDE DEF met, t3
    <3> QED  BY <3>4, <3>5, <1>3
  <2> QED  BY <1>9, <2>1, <2>2 DEF Outcomes, Upserted
<1> QED  BY <1>4, <1>5, <1>6, <1>7, <1>8, <1>9 DEF IsStatement

\* A count reports nothing; an insert reports one row for each of its items.
LEMMA OutcomesCounted ==
  ASSUME NEW q, IsStatement(q), NEW g, NEW t \in Tables, NEW o \in Outcomes(q, g, t)
  PROVE  /\ q.kind = "count" => o.tbl = t /\ o.rows = {}
         /\ q.kind = "insert" /\ o.err = "" => Cardinality(IdsIn(o.rows)) = Len(q.items)
<1>1. ASSUME q.kind = "count" PROVE o.tbl = t /\ o.rows = {}
  <2>1. o = Success(t, {}, Cardinality(Matching(q, g, t)))
    BY <1>1 DEF Outcomes, Counted
  <2> QED  BY <2>1 DEF Success
<1>2. ASSUME q.kind = "insert", o.err = ""
      PROVE  Cardinality(IdsIn(o.rows)) = Len(q.items)
  <2>1. PICK fresh \in FreshIds(DOMAIN q.items, t) : o = InsertWith(q, t, fresh)
    <3>1. o \in Inserted(q, g, t)
      BY <1>2 DEF Outcomes
    <3>2. Failure(t, "other").err # "" /\ Failure(t, "unique").err # ""
      BY DEF Failure
    <3> QED  BY <1>2, <3>1, <3>2 DEF Inserted
  <2>2. Len(q.items) \in Nat /\ DOMAIN q.items = 1..Len(q.items)
    BY DEF IsStatement, IsSequence
  <2>3. IdsIn(o.rows) = Range(fresh)
    <3>1. o.rows = Listed(Range(fresh), WithNew(q, t, fresh))
      BY <2>1 DEF InsertWith, Success
    <3>2. \A i \in Range(fresh) : [id |-> i, row |-> WithNew(q, t, fresh)[i]] \in o.rows
      BY <3>1 DEF Listed
    <3>3. \A x \in o.rows : x.id \in Range(fresh)
      BY <3>1 DEF Listed
    <3>4. \A i \in Range(fresh) : \E x \in o.rows : x.id = i
      BY <3>2
    <3> QED  BY <3>3, <3>4 DEF IdsIn
  <2>4. fresh \in Bijection(1..Len(q.items), Range(fresh))
    BY <2>2 DEF FreshIds, Injection, IsInjective, Bijection, Surjection, Range
  <2>5. ExistsBijection(1..Len(q.items), Range(fresh))
    BY <2>4 DEF ExistsBijection
  <2> QED  BY <2>2, <2>3, <2>5, FS_CountingElements
<1> QED  BY <1>1, <1>2

-----------------------------------------------------------------------------
(* What a plan looks like *)

\* One statement, or a count before it; a create inserts each of its items.
Shape(p, c) ==
  \E q : /\ p = <<q>> \/ (\E count : count.kind = "count" /\ p = <<count, q>>)
         /\ c.op \in {"create", "batch_create"} =>
              q.kind = "insert" /\ Len(q.items) = Len(c.items)

\* And a refusal is a 4xx.
Told(p, c) ==
  /\ p.code = "" => Shape(p.plan, c)
  /\ p.code # "" => p.status \in {400, 403}

LEMMA RefuseTold ==
  ASSUME NEW c, NEW code, code # ""
  PROVE  Told(Refuse(400, code), c) /\ Told(Refuse(403, code), c)
BY DEF Told, Refuse

LEMMA RunTold ==
  ASSUME NEW c, NEW q, NEW columns,
         c.op \in {"create", "batch_create"} => q.kind = "insert" /\ Len(q.items) = Len(c.items)
  PROVE  Told(Run(<<q>>, columns), c)
BY DEF Told, Run, Shape

LEMMA CreateTold ==
  ASSUME NEW cfg, NEW who, NEW c, Authorised(cfg, who, c)
  PROVE  Told(Create(cfg, who, c), c)
<1> DEFINE writable == WritableFields(cfg, who.dn, c.res) \cup Stamped(cfg, c.res)
           items == Prepared(cfg, who, c, writable)
           q == InsertFor(cfg, who, c, items)
<1>1. q.kind = "insert" /\ q.items = items
  BY DEF InsertFor, Statement
<1>2. Len(items) = Len(c.items)
  <2>1. IsSequence(items) /\ DOMAIN items = DOMAIN c.items
    BY PreparedTyped DEF Authorised
  <2>2. IsSequence(c.items)
    BY DEF Authorised, IsCall
  <2> HIDE DEF items
  <2> QED  BY <2>1, <2>2 DEF IsSequence
<1>3. Create(cfg, who, c) \in {Refuse(400, "FIELD_DENIED"), Refuse(400, "BATCH_SHAPE_MISMATCH"),
                              Run(<<q>>, Fields)}
  BY DEF Create
<1> HIDE DEF q, items
<1>4. Told(Run(<<q>>, Fields), c)
  BY <1>1, <1>2, RunTold
<1>5. \A code : code # "" => Told(Refuse(400, code), c)
  BY RefuseTold
<1>6. Told(Refuse(400, "FIELD_DENIED"), c) /\ Told(Refuse(400, "BATCH_SHAPE_MISMATCH"), c)
  BY <1>5
<1> QED  BY <1>3, <1>4, <1>6

LEMMA MutateTold ==
  ASSUME NEW cfg, NEW who, NEW c, c.op \notin {"create", "batch_create"}
  PROVE  Told(Mutate(cfg, who, c), c)
<1> DEFINE d == [c EXCEPT !.withDeleted = FALSE]
           q == [SelectFor(cfg, who, d, "select") EXCEPT !.ids = {d.id}, !.filters = <<>>]
           u == UpdateFor(cfg, who, c, {c.id}, c.items[1])
           denial == Denial(cfg, who.dn, c.res, "get")
<1>1. Get(cfg, who, d) = Run(<<q>>, SelectColumns(cfg, who, d))
  BY DEF Get
<1>2. \/ Mutate(cfg, who, c) \in {Refuse(400, "FIELD_DENIED"), Refuse(400, "EMPTY_PAYLOAD"),
                                Run(<<u>>, Fields), Get(cfg, who, d)}
      \/ denial # "" /\ Mutate(cfg, who, c) = Refuse(403, denial)
  BY DEF Mutate
<1> HIDE DEF q, d, u, denial
<1>3. Told(Refuse(400, "FIELD_DENIED"), c) /\ Told(Refuse(400, "EMPTY_PAYLOAD"), c)
  BY RefuseTold
<1>4. denial # "" => Told(Refuse(403, denial), c)
  BY RefuseTold
<1>5. Told(Run(<<u>>, Fields), c) /\ Told(Get(cfg, who, d), c)
  BY <1>1, RunTold
<1>6. CASE denial # "" /\ Mutate(cfg, who, c) = Refuse(403, denial)
  BY <1>4, <1>6
<1>7. CASE Mutate(cfg, who, c) \in {Refuse(400, "FIELD_DENIED"), Refuse(400, "EMPTY_PAYLOAD"),
                                 Run(<<u>>, Fields), Get(cfg, who, d)}
  BY <1>3, <1>5, <1>7
<1> QED  BY <1>2, <1>6, <1>7

LEMMA OthersTold ==
  ASSUME NEW cfg, NEW who, NEW c, c.op \notin {"create", "batch_create"}
  PROVE  /\ Told(List(cfg, who, c), c)
         /\ Told(Get(cfg, who, c), c)
         /\ Told(Upsert(cfg, who, c), c)
         /\ Told(Delete(cfg, who, c), c)
         /\ Told(BulkDelete(cfg, who, c), c)
         /\ Told(Aggregate(cfg, who, c), c)
<1>1. \A q, columns : Told(Run(<<q>>, columns), c)
  BY RunTold
<1>2. \A code : code # "" => Told(Refuse(400, code), c)
  BY RefuseTold
<1>3. Told(List(cfg, who, c), c)
  <2> DEFINE count == SelectFor(cfg, who, c, "count")
             q == [SelectFor(cfg, who, c, "select") EXCEPT !.limit = c.limit, !.offset = c.offset]
             columns == SelectColumns(cfg, who, c)
  <2>1. count.kind = "count"
    BY DEF SelectFor, Statement
  <2>2. List(cfg, who, c) \in {Refuse(400, "FILTER_DENIED"), Run(<<count, q>>, columns)}
    BY DEF List
  <2> HIDE DEF count, q, columns
  <2>3. Told(Run(<<count, q>>, columns), c)
    BY <2>1 DEF Told, Run, Shape
  <2> QED  BY <1>2, <2>2, <2>3
<1>4. Told(Get(cfg, who, c), c)
  BY <1>1 DEF Get
<1>5. Told(Upsert(cfg, who, c), c)
  <2>1. \/ Upsert(cfg, who, c) \in {Refuse(400, "NO_UPSERT_KEYS"), Refuse(400, "UPSERT_SHAPE_MISMATCH")}
        \/ \E q : Upsert(cfg, who, c) = Run(<<q>>, Fields)
    BY DEF Upsert
  <2>2. Told(Refuse(400, "NO_UPSERT_KEYS"), c) /\ Told(Refuse(400, "UPSERT_SHAPE_MISMATCH"), c)
    BY <1>2
  <2> QED  BY <1>1, <2>1, <2>2
<1>6. Told(Delete(cfg, who, c), c)
  BY <1>1 DEF Delete
<1>7. Told(BulkDelete(cfg, who, c), c)
  <2>1. \/ BulkDelete(cfg, who, c) \in {Refuse(400, "FILTER_DENIED"), Refuse(400, "EMPTY_BULK_DELETE")}
        \/ \E q : BulkDelete(cfg, who, c) = Run(<<q>>, {"id"})
    BY DEF BulkDelete
  <2>2. Told(Refuse(400, "FILTER_DENIED"), c) /\ Told(Refuse(400, "EMPTY_BULK_DELETE"), c)
    BY <1>2
  <2> QED  BY <1>1, <2>1, <2>2
<1>8. Told(Aggregate(cfg, who, c), c)
  <2> DEFINE grouped == c.groups \cup c.sums
  <2>1. \/ Aggregate(cfg, who, c) \in {Refuse(400, "FILTER_DENIED"), Refuse(400, "GROUP_DENIED"),
                                       Refuse(400, "SUM_DENIED")}
        \/ \E q : Aggregate(cfg, who, c) = Run(<<q>>, grouped)
    BY DEF Aggregate
  <2>2. /\ Told(Refuse(400, "FILTER_DENIED"), c) /\ Told(Refuse(400, "GROUP_DENIED"), c)
        /\ Told(Refuse(400, "SUM_DENIED"), c)
    BY <1>2
  <2> HIDE DEF grouped
  <2> QED  BY <1>1, <2>1, <2>2
<1> QED  BY <1>3, <1>4, <1>5, <1>6, <1>7, <1>8

LEMMA PrepareTold ==
  ASSUME NEW cfg, IsConfig(cfg), NEW who, who.tenant \in Tenants, NEW c, IsCall(c)
  PROVE  Told(Prepare(cfg, who, c), c)
<1> DEFINE denial == Denial(cfg, who.dn, c.res, c.op)
<1>1. CASE denial # ""
  <2>1. Prepare(cfg, who, c) = Refuse(403, denial)
    BY <1>1 DEF Prepare
  <2> HIDE DEF denial
  <2> QED  BY <1>1, <2>1, RefuseTold
<1>2. CASE denial = ""
  <2>1. Authorised(cfg, who, c)
    BY <1>2 DEF Authorised, Denial, Allow
  <2>2. CASE c.op \in {"create", "batch_create"}
    <3>1. Prepare(cfg, who, c) = Create(cfg, who, c)
      BY <1>2, <2>2 DEF Prepare
    <3> QED  BY <2>1, <3>1, CreateTold
  <2>3. CASE c.op \notin {"create", "batch_create"}
    <3>1. Prepare(cfg, who, c) \in {List(cfg, who, c), Get(cfg, who, c), Upsert(cfg, who, c),
                                   Mutate(cfg, who, c), Delete(cfg, who, c),
                                   BulkDelete(cfg, who, c), Aggregate(cfg, who, c)}
      BY <1>2, <2>3 DEF Prepare
    <3> QED  BY <2>3, <3>1, OthersTold, MutateTold
  <2> QED  BY <2>2, <2>3
<1> QED  BY <1>1, <1>2

-----------------------------------------------------------------------------
(* What a request has done, and what it will answer *)

\* The last statement has run: what it returned accounts for what it changed.
Reported(r) ==
  /\ got[r].err = "" => effect[r] \subseteq IdsIn(got[r].rows)
  /\ got[r].err = "unique" => effect[r] = {}
  /\ got[r].err = "" /\ call[r].op \in {"create", "batch_create"} =>
       Cardinality(IdsIn(got[r].rows)) = Len(call[r].items)

\* The body of ResponseTellsEffect.
Tells(r) ==
  /\ resp[r].status \in 400..499 /\ call[r].res \in DOMAIN Configs[shownBy[r]].resources =>
       effect[r] = {}
  /\ Succeeded(r) => effect[r] \subseteq RespIds(r)
  /\ Succeeded(r) /\ call[r].op \in {"create", "batch_create"} =>
       Cardinality(RespIds(r)) = Len(call[r].items)

Planned(r) ==
  /\ Shape(plan[r], call[r])
  /\ \A n \in DOMAIN plan[r] : plan[r][n].res = call[r].res

Faithful(r) ==
  /\ stage[r] \in {"acquire", "execute", "return"} => Planned(r)
  /\ stage[r] # "done" => shownBy[r] = Boot
  /\ PhaseOf(r) \in {"idle", "open"} => effect[r] = {} /\ got[r].rows = {}
  /\ PhaseOf(r) = "acted" => Reported(r)
  /\ stage[r] = "done" => Tells(r)

PromiseInv == IsolationInv /\ \A r \in Requests : Faithful(r)

\* A step of one request leaves what belongs to the others alone.
Same(q) ==
  /\ stage'[q] = stage[q] /\ plan'[q] = plan[q] /\ call'[q] = call[q] /\ ctx'[q] = ctx[q]
  /\ got'[q] = got[q] /\ effect'[q] = effect[q] /\ resp'[q] = resp[q]
  /\ shownBy'[q] = shownBy[q]

LEMMA SameFaithful ==
  ASSUME NEW q, Same(q)
  PROVE  /\ PhaseOf(q)' = PhaseOf(q)
         /\ AnswerOf(q)' = AnswerOf(q)
         /\ Faithful(q) => Faithful(q)'
<1>1. PhaseOf(q)' = PhaseOf(q)
  BY DEF PhaseOf, Same
<1>2. Tells(q)' = Tells(q)
  BY DEF Tells, Succeeded, Answered, RespIds, Same
<1>3. Reported(q)' = Reported(q)
  BY DEF Reported, Same
<1>4. Planned(q)' = Planned(q)
  BY DEF Planned, Same
<1>5. AnswerOf(q)' = AnswerOf(q)
  BY DEF AnswerOf, VerdictOf, Succeeded, Answered, Same
<1> QED  BY <1>1, <1>2, <1>3, <1>4, <1>5 DEF Faithful, Same

LEMMA PlanShape ==
  ASSUME NEW p, NEW c, Shape(p, c)
  PROVE  /\ Tail(p) = <<>> /\ c.op \in {"create", "batch_create"} =>
              Head(p).kind = "insert" /\ Len(Head(p).items) = Len(c.items)
         /\ Tail(p) # <<>> => Head(p).kind = "count" /\ Shape(Tail(p), c) /\ Tail(Tail(p)) = <<>>
<1>1. PICK q : /\ p = <<q>> \/ (\E count : count.kind = "count" /\ p = <<count, q>>)
               /\ c.op \in {"create", "batch_create"} =>
                    q.kind = "insert" /\ Len(q.items) = Len(c.items)
  BY DEF Shape
<1>2. CASE p = <<q>>
  <2>1. Head(p) = q /\ Tail(p) = <<>>
    BY <1>2
  <2> QED  BY <1>1, <2>1
<1>3. ASSUME NEW count, count.kind = "count", p = <<count, q>>
      PROVE  Head(p) = count /\ Tail(p) = <<q>> /\ Tail(Tail(p)) = <<>> /\ Tail(p) # <<>>
  BY <1>3
<1> QED  BY <1>1, <1>2, <1>3 DEF Shape

\* The handler: a refusal, or a plan that stays to be run.
LEMMA HandleMeans ==
  ASSUME TypeInv, NEW r \in Requests, NEW c, IsCall(c), c.res \in DOMAIN Table0,
         NEW context, context.tenant \in Tenants, Handle(r, c, context)
  PROVE  /\ \A q \in Requests \ {r} :
              stage'[q] = stage[q] /\ plan'[q] = plan[q] /\ resp'[q] = resp[q]
         /\ \/ /\ stage'[r] = "done"
               /\ resp'[r].status \in {400, 403} /\ resp'[r].rows = {}
            \/ /\ stage'[r] = "acquire" /\ resp'[r] = resp[r]
               /\ Shape(plan'[r], c)
               /\ \A n \in DOMAIN plan'[r] : plan'[r][n].res = c.res
<1> DEFINE p == Prepare(Config, context, c)
<1>1. Told(p, c) /\ IsPlanned(p, Config, context, c)
  BY LiveConfig, PrepareTold, PreparePlanned DEF TypeInv
<1>2. \A n \in DOMAIN p.plan : p.plan[n].res = c.res
  BY <1>1 DEF IsPlanned, IsBuilt
<1> HIDE DEF p
<1>3. CASE /\ p.code # ""
           /\ Respond(r, Answer(p.status, p.code))
           /\ UNCHANGED <<plan, cols>>
  <2>1. Answer(p.status, p.code).status \in {400, 403} /\ Answer(p.status, p.code).rows = {}
    BY <1>1, <1>3 DEF Told, Answer, NoResponse
  <2> QED  BY <1>3, <2>1 DEF Respond, TypeInv, TypeOK
<1>4. CASE /\ p.code = ""
           /\ stage' = [stage EXCEPT ![r] = "acquire"]
           /\ plan' = [plan EXCEPT ![r] = p.plan]
           /\ UNCHANGED resp
  BY <1>1, <1>2, <1>4 DEF Told, TypeInv, TypeOK
<1> QED  BY <1>3, <1>4 DEF Handle, p

LEMMA AdmitMeans ==
  ASSUME TypeInv, NEW r \in Requests, NEW c \in Calls, Admit(r, c)
  PROVE  /\ stage[r] = "new" /\ call'[r] = c
         /\ UNCHANGED <<tbl, got, effect, shownBy>>
         /\ \A q \in Requests \ {r} : Same(q)
         /\ \/ /\ stage'[r] = "done" /\ ctx'[r].tenant \in Tenants \cup {NoTenant}
               /\ resp'[r].status \in 400..499 /\ resp'[r].rows = {}
            \/ stage'[r] = "body" /\ ctx'[r].tenant \in Tenants /\ resp'[r] = resp[r]
            \/ /\ stage'[r] = "acquire" /\ ctx'[r].tenant \in Tenants /\ resp'[r] = resp[r]
               /\ Shape(plan'[r], c)
               /\ \A n \in DOMAIN plan'[r] : plan'[r][n].res = c.res
<1> DEFINE context == [tenant |-> Config.accounts[c.dn].tenant, dn |-> c.dn]
<1>1. /\ stage[r] = "new" /\ UNCHANGED <<tbl, got, effect, shownBy>>
      /\ call'[r] = c /\ \A q \in Requests \ {r} : call'[q] = call[q]
  BY DEF Admit, TypeInv, TypeOK
<1>2. \A status, code : Answer(status, code).status = status /\ Answer(status, code).rows = {}
  BY DEF Answer, NoResponse
<1>3. CASE /\ Respond(r, Answer(401, "UNAUTHORIZED"))
           /\ UNCHANGED <<ctx, plan>>
  <2>1. ctx[r].tenant \in Tenants \cup {NoTenant}
    BY DEF TypeInv, TypeOK, Contexts
  <2> QED  BY <1>1, <1>2, <1>3, <2>1 DEF Same, Respond, TypeInv, TypeOK
<1>4. CASE /\ c.dn \in DOMAIN Config.accounts
           /\ ctx' = [ctx EXCEPT ![r] = context]
           /\ \/ /\ Respond(r, Answer(404, "none"))
                 /\ UNCHANGED plan
              \/ /\ stage' = [stage EXCEPT ![r] = "body"]
                 /\ UNCHANGED <<plan, resp>>
              \/ Handle(r, c, context)
  <2>1. context.tenant \in Tenants
    BY <1>4, LiveConfig DEF TypeInv, IsConfig
  <2> HIDE DEF context
  <2>2. ctx'[r] = context /\ \A q \in Requests \ {r} : ctx'[q] = ctx[q]
    BY <1>4 DEF TypeInv, TypeOK
  <2>3. CASE Respond(r, Answer(404, "none")) /\ UNCHANGED plan
    BY <1>1, <1>2, <2>1, <2>2, <2>3 DEF Same, Respond, TypeInv, TypeOK
  <2>4. CASE stage' = [stage EXCEPT ![r] = "body"] /\ UNCHANGED <<plan, resp>>
    BY <1>1, <2>1, <2>2, <2>4 DEF Same, TypeInv, TypeOK
  <2>5. CASE Handle(r, c, context)
    <3>1. IsCall(c) /\ c.res \in DOMAIN Table0
      BY GatewayAssumption
    <3> QED  BY <1>1, <2>1, <2>2, <2>5, <3>1, HandleMeans DEF Same
  <2> QED  BY <1>4, <2>3, <2>4, <2>5
<1> QED  BY <1>3, <1>4 DEF Admit

LEMMA BodyMeans ==
  ASSUME TypeInv, NEW r \in Requests, Body(r)
  PROVE  /\ stage[r] = "body"
         /\ UNCHANGED <<tbl, call, ctx, got, effect, shownBy>>
         /\ \A q \in Requests \ {r} : Same(q)
         /\ \/ /\ stage'[r] = "done"
               /\ resp'[r].status \in 400..499 /\ resp'[r].rows = {}
            \/ stage'[r] = "acquire" /\ Planned(r)'
<1> DEFINE c == [call[r] EXCEPT !.items = ParsedItems(BootConfig, call[r])]
<1>1. /\ stage[r] = "body" /\ ctx[r].tenant \in Tenants
      /\ UNCHANGED <<tbl, call, ctx, got, effect, shownBy>>
  BY DEF Body, TypeInv, Wired
<1>2. CASE Respond(r, Answer(400, "VALIDATION_ERROR")) /\ UNCHANGED plan
  <2>1. Answer(400, "VALIDATION_ERROR").status = 400 /\ Answer(400, "VALIDATION_ERROR").rows = {}
    BY DEF Answer, NoResponse
  <2> QED  BY <1>1, <1>2, <2>1 DEF Same, Respond, TypeInv, TypeOK
<1>3. CASE Handle(r, c, ctx[r])
  <2>1. IsCall(call[r]) /\ call[r].res \in DOMAIN Table0
    BY GatewayAssumption DEF TypeInv, TypeOK
  <2>2. IsCall(c) /\ c.res = call[r].res /\ c.op = call[r].op
    BY <2>1, ParsedCall DEF IsCall
  <2>3. Len(c.items) = Len(call[r].items)
    <3>1. IsSequence(c.items) /\ IsSequence(call[r].items)
      BY <2>1, <2>2 DEF IsCall
    <3>2. DOMAIN c.items = DOMAIN call[r].items
      BY <2>1 DEF ParsedItems, IsCall
    <3> HIDE DEF c
    <3> QED  BY <3>1, <3>2 DEF IsSequence
  <2> HIDE DEF c
  <2>4. /\ \A q \in Requests \ {r} :
             stage'[q] = stage[q] /\ plan'[q] = plan[q] /\ resp'[q] = resp[q]
        /\ \/ /\ stage'[r] = "done"
              /\ resp'[r].status \in {400, 403} /\ resp'[r].rows = {}
           \/ /\ stage'[r] = "acquire"
              /\ Shape(plan'[r], c)
              /\ \A n \in DOMAIN plan'[r] : plan'[r][n].res = c.res
    BY <1>1, <1>3, <2>1, <2>2, HandleMeans
  <2>5. Shape(plan'[r], c) => Shape(plan'[r], call[r])
    BY <2>2, <2>3 DEF Shape
  <2> QED  BY <1>1, <2>2, <2>4, <2>5 DEF Same, Planned
<1> QED  BY <1>2, <1>3 DEF Body

\* The end of a transaction: what it returned and changed, in the request's own terms.
Acted(r) ==
  LET before == tbl[call[r].res]
      after == tbl'[call[r].res]
  IN  /\ \A other \in DOMAIN Table0 \ {call[r].res} : tbl'[other] = tbl[other]
      /\ effect'[r] = {i \in Ids : after[i] # before[i]}
      /\ \A i \in Ids : after[i] # before[i] =>
           \A row \in {before[i], after[i]} \cap Rows : row.tenant_id = ctx[r].tenant
      /\ \A x \in got'[r].rows :
           /\ x = [id |-> x.id, row |-> x.row]
           /\ x.id \in Ids /\ x.row \in Rows /\ x.row.tenant_id = ctx[r].tenant
           /\ \/ x.row = after[x.id]
              \/ x.row = before[x.id] /\ after[x.id] \notin Rows
      /\ effect'[r] \subseteq IdsIn(got'[r].rows) \/ got'[r].rows = {}
      /\ Tail(plan[r]) = <<>> => Reported(r)'

LEMMA EndAlone ==
  ASSUME TypeInv, NEW r \in Requests, stage[r] = "execute",
         NEW outcome, EndTransaction(r, outcome),
         \A q \in Requests \ {r} : effect'[q] = effect[q]
  PROVE  /\ stage'[r] = "return" /\ got'[r] = outcome
         /\ UNCHANGED <<call, ctx, plan, resp, shownBy>>
         /\ \A q \in Requests \ {r} : Same(q)
BY DEF EndTransaction, Same, TypeInv, TypeOK

\* What a request about to execute stands before.
LEMMA BeforeEnd ==
  ASSUME PromiseInv, NEW r \in Requests, stage[r] = "execute"
  PROVE  /\ Head(plan[r]).res = call[r].res /\ call[r].res \in DOMAIN Table0
         /\ IsStatement(Head(plan[r])) /\ tbl[call[r].res] \in Tables
         /\ effect[r] = {} /\ got[r].rows = {}
         /\ Tail(plan[r]) = <<>> /\ call[r].op \in {"create", "batch_create"} =>
              /\ Head(plan[r]).kind = "insert"
              /\ Len(Head(plan[r]).items) = Len(call[r].items)
         /\ Tail(plan[r]) # <<>> => Head(plan[r]).kind = "count"
<1>1. TypeInv /\ IsPlan(plan[r]) /\ plan[r] # <<>>
  BY DEF PromiseInv, IsolationInv, TypeInv, TypeOK, Wired
<1>2. Planned(r) /\ effect[r] = {} /\ got[r].rows = {}
  BY DEF PromiseInv, Faithful, PhaseOf
<1>3. Head(plan[r]) = plan[r][1] /\ 1 \in DOMAIN plan[r]
  BY <1>1, PlanParts
<1>4. Head(plan[r]).res = call[r].res
  BY <1>2, <1>3 DEF Planned
<1>5. call[r].res \in DOMAIN Table0 /\ IsStatement(Head(plan[r])) /\ tbl[call[r].res] \in Tables
  BY <1>1, <1>4, AtExecute
<1>6. Shape(plan[r], call[r])
  BY <1>2 DEF Planned
<1> QED  BY <1>2, <1>4, <1>5, <1>6, PlanShape

LEMMA StoreMeans ==
  ASSUME PromiseInv, Guarded, NEW r \in Requests, stage[r] = "execute",
         NEW o \in Possible(r), Store(r, o.tbl)
  PROVE  /\ Reports(o, tbl[call[r].res])
         /\ OfTenant(o, tbl[call[r].res], ctx[r].tenant)
         /\ tbl'[call[r].res] = o.tbl
         /\ \A other \in DOMAIN Table0 \ {call[r].res} : tbl'[other] = tbl[other]
         /\ effect'[r] = {i \in Ids : o.tbl[i] # tbl[call[r].res][i]}
         /\ \A q \in Requests \ {r} : effect'[q] = effect[q]
         /\ o.tbl = tbl[call[r].res] => tbl' = tbl
         /\ Head(plan[r]).kind = "count" => o.tbl = tbl[call[r].res] /\ o.rows = {}
         /\ Head(plan[r]).kind = "insert" /\ o.err = "" =>
              Cardinality(IdsIn(o.rows)) = Len(Head(plan[r]).items)
<1> DEFINE q == Head(plan[r])
           res == call[r].res
<1>1. /\ q.res = res /\ res \in DOMAIN Table0 /\ IsStatement(q) /\ tbl[res] \in Tables
      /\ effect[r] = {}
  BY BeforeEnd
<1>2. TypeInv /\ IsolationInv
  BY DEF PromiseInv, IsolationInv
<1>3. OfTenant(o, tbl[res], ctx[r].tenant)
  BY <1>1, <1>2, PossibleOfTenant
<1>4. o \in Outcomes(q, guc[conn[r]], tbl[res])
  BY <1>1 DEF Possible
<1>5. /\ tbl' = [tbl EXCEPT ![res] = o.tbl]
      /\ effect' = [effect EXCEPT ![r] = @ \cup {i \in Ids : o.tbl[i] # tbl[res][i]}]
  BY <1>1 DEF Store
<1> HIDE DEF q, res
<1>6. /\ Reports(o, tbl[res])
      /\ q.kind = "count" => o.tbl = tbl[res] /\ o.rows = {}
      /\ q.kind = "insert" /\ o.err = "" => Cardinality(IdsIn(o.rows)) = Len(q.items)
  <2> DEFINE g == guc[conn[r]]
             t == tbl[res]
  <2>1. IsStatement(q) /\ t \in Tables /\ o \in Outcomes(q, g, t)
    BY <1>1, <1>4
  <2> HIDE DEF g, t
  <2>2. Reports(o, t)
    BY <2>1, OutcomesReport
  <2>3. /\ q.kind = "count" => o.tbl = t /\ o.rows = {}
        /\ q.kind = "insert" /\ o.err = "" => Cardinality(IdsIn(o.rows)) = Len(q.items)
    BY <2>1, OutcomesCounted
  <2> QED  BY <2>2, <2>3 DEF t
<1>7. /\ tbl'[res] = o.tbl
      /\ \A other \in DOMAIN Table0 \ {res} : tbl'[other] = tbl[other]
      /\ o.tbl = tbl[res] => tbl' = tbl
  BY <1>1, <1>2, <1>5 DEF TypeInv, TypeOK
<1>8. /\ effect'[r] = {i \in Ids : o.tbl[i] # tbl[res][i]}
      /\ \A p \in Requests \ {r} : effect'[p] = effect[p]
  <2> DEFINE changed == {i \in Ids : o.tbl[i] # tbl[res][i]}
  <2>1. effect' = [effect EXCEPT ![r] = @ \cup changed]
    BY <1>5
  <2> HIDE DEF changed
  <2>2. effect'[r] = changed /\ \A p \in Requests \ {r} : effect'[p] = effect[p]
    BY <1>1, <1>2, <2>1 DEF TypeInv, TypeOK
  <2> QED  BY <2>2 DEF changed
<1> QED  BY <1>3, <1>6, <1>7, <1>8 DEF q, res

LEMMA ExecuteMeans ==
  ASSUME PromiseInv, Guarded, NEW r \in Requests, Execute(r)
  PROVE  /\ stage[r] = "execute" /\ stage'[r] = "return"
         /\ UNCHANGED <<call, ctx, plan, resp, shownBy>>
         /\ \A q \in Requests \ {r} : Same(q)
         /\ Acted(r)
         /\ Tail(plan[r]) # <<>> => UNCHANGED tbl /\ got'[r].rows = {}
<1>1. PICK o \in Possible(r) : /\ EndTransaction(r, [rows |-> o.rows, total |-> o.total, err |-> o.err])
                               /\ Store(r, o.tbl)
  BY DEF Execute
<1>2. stage[r] = "execute" /\ TypeInv
  BY DEF Execute, PromiseInv, IsolationInv
<1>3. /\ Reports(o, tbl[call[r].res])
      /\ OfTenant(o, tbl[call[r].res], ctx[r].tenant)
      /\ tbl'[call[r].res] = o.tbl
      /\ \A other \in DOMAIN Table0 \ {call[r].res} : tbl'[other] = tbl[other]
      /\ effect'[r] = {i \in Ids : o.tbl[i] # tbl[call[r].res][i]}
      /\ \A q \in Requests \ {r} : effect'[q] = effect[q]
      /\ o.tbl = tbl[call[r].res] => tbl' = tbl
      /\ Head(plan[r]).kind = "count" => o.tbl = tbl[call[r].res] /\ o.rows = {}
      /\ Head(plan[r]).kind = "insert" /\ o.err = "" =>
           Cardinality(IdsIn(o.rows)) = Len(Head(plan[r]).items)
  BY <1>1, <1>2, StoreMeans
<1>4. /\ stage'[r] = "return" /\ got'[r] = [rows |-> o.rows, total |-> o.total, err |-> o.err]
      /\ UNCHANGED <<call, ctx, plan, resp, shownBy>>
      /\ \A q \in Requests \ {r} : Same(q)
  BY <1>1, <1>2, <1>3, EndAlone
<1>5. got'[r].rows = o.rows /\ got'[r].err = o.err
  BY <1>4
<1>6. /\ Tail(plan[r]) = <<>> /\ call[r].op \in {"create", "batch_create"} =>
           /\ Head(plan[r]).kind = "insert"
           /\ Len(Head(plan[r]).items) = Len(call[r].items)
      /\ Tail(plan[r]) # <<>> => Head(plan[r]).kind = "count"
  BY <1>2, BeforeEnd
<1>7. Tail(plan[r]) = <<>> => Reported(r)'
  BY <1>3, <1>4, <1>5, <1>6 DEF Reported, Reports
<1>8. Acted(r)
  <2>1. effect'[r] \subseteq IdsIn(got'[r].rows) \/ got'[r].rows = {}
    BY <1>3, <1>5 DEF Reports
  <2> QED  BY <1>3, <1>5, <1>7, <2>1 DEF Acted, Reports, OfTenant
<1> QED  BY <1>2, <1>3, <1>4, <1>5, <1>6, <1>8

LEMMA FaultMeans ==
  ASSUME PromiseInv, Guarded, NEW r \in Requests, Fault(r)
  PROVE  /\ stage[r] = "execute" /\ stage'[r] = "return"
         /\ UNCHANGED <<call, ctx, plan, resp, shownBy>>
         /\ \A q \in Requests \ {r} : Same(q)
         /\ Acted(r)
         /\ Tail(plan[r]) # <<>> => UNCHANGED tbl /\ got'[r].rows = {}
<1>1. PICK err \in {"timeout", "other"} : EndTransaction(r, [NoOutcome EXCEPT !.err = err])
  BY DEF Fault
<1> DEFINE outcome == [NoOutcome EXCEPT !.err = err]
<1>2. stage[r] = "execute" /\ TypeInv /\ EndTransaction(r, outcome)
  BY <1>1 DEF Fault, PromiseInv, IsolationInv
<1>3. outcome.rows = {} /\ outcome.err = err /\ err \notin {"", "unique"}
  BY DEF NoOutcome
<1> HIDE DEF outcome
<1>4. CASE UNCHANGED <<tbl, effect>>
  <2>1. /\ stage'[r] = "return" /\ got'[r] = outcome
        /\ UNCHANGED <<call, ctx, plan, resp, shownBy>>
        /\ \A q \in Requests \ {r} : Same(q)
    BY <1>2, <1>4, EndAlone
  <2>2. effect[r] = {}
    BY <1>2, BeforeEnd
  <2>3. Acted(r)
    BY <1>3, <1>4, <2>1, <2>2 DEF Acted, Reported
  <2> QED  BY <1>2, <1>3, <1>4, <2>1, <2>3
<1>5. ASSUME NEW o \in Possible(r), Store(r, o.tbl)
      PROVE  /\ stage'[r] = "return"
             /\ UNCHANGED <<call, ctx, plan, resp, shownBy>>
             /\ \A q \in Requests \ {r} : Same(q)
             /\ Acted(r)
             /\ Tail(plan[r]) # <<>> => UNCHANGED tbl /\ got'[r].rows = {}
  <2>1. /\ OfTenant(o, tbl[call[r].res], ctx[r].tenant)
        /\ tbl'[call[r].res] = o.tbl
        /\ \A other \in DOMAIN Table0 \ {call[r].res} : tbl'[other] = tbl[other]
        /\ effect'[r] = {i \in Ids : o.tbl[i] # tbl[call[r].res][i]}
        /\ \A q \in Requests \ {r} : effect'[q] = effect[q]
        /\ o.tbl = tbl[call[r].res] => tbl' = tbl
        /\ Head(plan[r]).kind = "count" => o.tbl = tbl[call[r].res]
    BY <1>2, <1>5, StoreMeans
  <2>2. /\ stage'[r] = "return" /\ got'[r] = outcome
        /\ UNCHANGED <<call, ctx, plan, resp, shownBy>>
        /\ \A q \in Requests \ {r} : Same(q)
    BY <1>2, <2>1, EndAlone
  <2>3. Tail(plan[r]) # <<>> => Head(plan[r]).kind = "count"
    BY <1>2, BeforeEnd
  <2>4. Acted(r)
    BY <1>3, <2>1, <2>2 DEF Acted, Reported, OfTenant
  <2> QED  BY <1>3, <2>1, <2>2, <2>3, <2>4
<1> QED  BY <1>2, <1>4, <1>5 DEF Fault

\* A statement that leads to the next one, or an answer.
LEMMA ResumeMeans ==
  ASSUME PromiseInv, NEW r \in Requests, Resume(r)
  PROVE  /\ stage[r] = "return"
         /\ UNCHANGED <<tbl, call, ctx, got, effect>>
         /\ \A q \in Requests \ {r} : Same(q)
         /\ \/ /\ Tail(plan[r]) # <<>> /\ stage'[r] = "acquire" /\ plan'[r] = Tail(plan[r])
               /\ resp'[r] = resp[r] /\ shownBy'[r] = shownBy[r]
            \/ /\ got[r].err # "" \/ Tail(plan[r]) = <<>>
               /\ stage'[r] = "done" /\ shownBy'[r] = live
               /\ resp'[r] = Result(r, Head(plan[r]))
<1>1. TypeInv /\ stage[r] = "return" /\ UNCHANGED <<tbl, call, ctx, got, effect>>
  BY DEF Resume, PromiseInv, IsolationInv
<1>2. CASE /\ Tail(plan[r]) # <<>>
           /\ stage' = [stage EXCEPT ![r] = "acquire"]
           /\ plan' = [plan EXCEPT ![r] = Tail(@)]
           /\ UNCHANGED <<resp, shownBy>>
  BY <1>1, <1>2 DEF Same, TypeInv, TypeOK
<1>3. CASE /\ got[r].err # "" \/ Tail(plan[r]) = <<>>
           /\ Respond(r, Result(r, Head(plan[r])))
           /\ shownBy' = [shownBy EXCEPT ![r] = live]
           /\ UNCHANGED plan
  BY <1>1, <1>3 DEF Respond, Same, TypeInv, TypeOK
<1> QED  BY <1>2, <1>3 DEF Resume

\* What an answer can be, and when.
\* What an answer about resource res tells of the statement that request r ran last.
Meaning(r, res, answer) ==
  \/ got[r].err = "" /\ answer.status \in {200, 201} /\ answer.rows = got[r].rows
  \/ /\ got[r].err = "" /\ answer.status = 404 /\ answer.rows = {}
     /\ (got[r].rows = {} \/ res \notin DOMAIN Config.resources)
  \/ got[r].err = "unique" /\ answer.status = 409 /\ answer.rows = {}
  \/ answer.status \in {500, 504} /\ answer.rows = {}

LEMMA ResultMeans ==
  ASSUME NEW r, NEW q
  PROVE  Meaning(r, q.res, Result(r, q))
<1> USE DEF Meaning
<1>1. /\ Answer(404, "NOT_FOUND").status = 404 /\ Answer(404, "NOT_FOUND").rows = {}
      /\ Answer(409, "UNIQUE_VIOLATION").status = 409 /\ Answer(409, "UNIQUE_VIOLATION").rows = {}
      /\ Answer(504, "TIMEOUT").status = 504 /\ Answer(504, "TIMEOUT").rows = {}
      /\ Answer(500, "none").status = 500 /\ Answer(500, "none").rows = {}
  BY DEF Answer, NoResponse
<1>2. Present(r, q).status \in {200, 201} /\ Present(r, q).rows = got[r].rows
  BY DEF Present, SuccessStatus
<1>3. CASE got[r].err # ""
  <2>1. Result(r, q) = ErrorAnswer(got[r].err)
    BY <1>3 DEF Result
  <2>2. CASE got[r].err = "unique"
    BY <1>1, <2>1, <2>2 DEF ErrorAnswer
  <2>3. CASE got[r].err # "unique"
    <3>1. \/ Result(r, q) = Answer(504, "TIMEOUT")
          \/ Result(r, q) = Answer(500, "none")
      BY <2>1, <2>3 DEF ErrorAnswer
    <3>2. Result(r, q).status \in {500, 504} /\ Result(r, q).rows = {}
      BY <1>1, <3>1
    <3> QED  BY <3>2
  <2> QED  BY <2>2, <2>3
<1>4. CASE got[r].err = "" /\ Result(r, q) = Answer(404, "NOT_FOUND")
           /\ (got[r].rows = {} \/ q.res \notin DOMAIN Config.resources)
  <2>1. Result(r, q).status = 404 /\ Result(r, q).rows = {}
    BY <1>1, <1>4
  <2> QED  BY <1>4, <2>1
<1>5. CASE got[r].err = "" /\ Result(r, q) = Present(r, q)
  BY <1>2, <1>5
<1> QED  BY <1>3, <1>4, <1>5 DEF Result

-----------------------------------------------------------------------------
(* The invariant *)

LEMMA InitPromise == Init => PromiseInv
<1> SUFFICES ASSUME Init PROVE PromiseInv
  OBVIOUS
<1>1. IsolationInv
  BY InitIsolated
<1>2. ASSUME NEW r \in Requests PROVE Faithful(r)
  <2>1. stage[r] = "new" /\ effect[r] = {} /\ got[r].rows = {} /\ shownBy[r] = Boot
    BY DEF Init, NoOutcome
  <2> QED  BY <2>1 DEF Faithful, PhaseOf
<1> QED  BY <1>1, <1>2 DEF PromiseInv

LEMMA StepFaithful ==
  ASSUME PromiseInv, IsolationInv', NEW r \in Requests, Faithful(r)',
         \A q \in Requests \ {r} : Same(q)
  PROVE  PromiseInv'
BY SameFaithful DEF PromiseInv

\* A refusal of a request that changed nothing is true to its effect.
LEMMA RefusalTells ==
  ASSUME NEW r, resp'[r].status \in 400..499, effect'[r] = {}
  PROVE  Tells(r)'
<1>1. resp'[r].status # 200 /\ resp'[r].status # 201
  OBVIOUS
<1>2. ~Succeeded(r)'
  BY <1>1 DEF Succeeded
<1> QED  BY <1>2 DEF Tells

LEMMA AdmitFaithful ==
  ASSUME PromiseInv, NEW r \in Requests, NEW c \in Calls, Admit(r, c)
  PROVE  PromiseInv'
<1>1. IsolationInv /\ TypeInv /\ IsolationInv'
  BY AdmitIsolated DEF PromiseInv, IsolationInv
<1>2. /\ stage[r] = "new" /\ call'[r] = c
      /\ UNCHANGED <<tbl, got, effect, shownBy>>
      /\ \A q \in Requests \ {r} : Same(q)
      /\ \/ stage'[r] = "done" /\ resp'[r].status \in 400..499
         \/ stage'[r] = "body"
         \/ /\ stage'[r] = "acquire" /\ Shape(plan'[r], c)
            /\ \A n \in DOMAIN plan'[r] : plan'[r][n].res = c.res
  BY <1>1, AdmitMeans
<1>3. effect'[r] = {} /\ got'[r].rows = {} /\ shownBy'[r] = Boot
  BY <1>2 DEF PromiseInv, Faithful, PhaseOf
<1>4. stage'[r] = "done" => Tells(r)'
  BY <1>2, <1>3, RefusalTells
<1>5. Faithful(r)'
  BY <1>2, <1>3, <1>4 DEF Faithful, PhaseOf, Planned
<1> QED  BY <1>1, <1>2, <1>5, StepFaithful

LEMMA BodyFaithful ==
  ASSUME PromiseInv, NEW r \in Requests, Body(r)
  PROVE  PromiseInv'
<1>1. IsolationInv /\ TypeInv /\ IsolationInv'
  BY BodyIsolated DEF PromiseInv, IsolationInv
<1>2. /\ stage[r] = "body"
      /\ UNCHANGED <<tbl, call, ctx, got, effect, shownBy>>
      /\ \A q \in Requests \ {r} : Same(q)
      /\ \/ stage'[r] = "done" /\ resp'[r].status \in 400..499
         \/ stage'[r] = "acquire" /\ Planned(r)'
  BY <1>1, BodyMeans
<1>3. effect'[r] = {} /\ got'[r].rows = {} /\ shownBy'[r] = Boot
  BY <1>2 DEF PromiseInv, Faithful, PhaseOf
<1>4. stage'[r] = "done" => Tells(r)'
  BY <1>2, <1>3, RefusalTells
<1>5. Faithful(r)'
  BY <1>2, <1>3, <1>4 DEF Faithful, PhaseOf
<1> QED  BY <1>1, <1>2, <1>5, StepFaithful

LEMMA AcquireMeans ==
  ASSUME TypeInv, NEW r \in Requests, NEW k \in Connections, Acquire(r, k)
  PROVE  /\ stage[r] = "acquire" /\ stage'[r] = "execute"
         /\ UNCHANGED <<tbl, call, ctx, plan, got, effect, resp, shownBy>>
         /\ \A q \in Requests \ {r} : Same(q)
BY DEF Acquire, history, Same, TypeInv, TypeOK

LEMMA AcquireFaithful ==
  ASSUME PromiseInv, NEW r \in Requests, NEW k \in Connections, Acquire(r, k)
  PROVE  PromiseInv'
<1>1. IsolationInv /\ TypeInv /\ IsolationInv'
  BY AcquireIsolated DEF PromiseInv, IsolationInv
<1>2. /\ stage[r] = "acquire" /\ stage'[r] = "execute"
      /\ UNCHANGED <<tbl, call, ctx, plan, got, effect, resp, shownBy>>
      /\ \A q \in Requests \ {r} : Same(q)
  BY <1>1, AcquireMeans
<1>3. Faithful(r)'
  BY <1>2 DEF PromiseInv, Faithful, PhaseOf, Planned
<1> QED  BY <1>1, <1>2, <1>3, StepFaithful

LEMMA EndFaithful ==
  ASSUME PromiseInv, IsolationInv', NEW r \in Requests, stage[r] = "execute",
         stage'[r] = "return", UNCHANGED <<call, ctx, plan, resp, shownBy>>,
         \A q \in Requests \ {r} : Same(q), Acted(r),
         Tail(plan[r]) # <<>> => UNCHANGED tbl /\ got'[r].rows = {}
  PROVE  PromiseInv'
<1>1. Tail(plan[r]) # <<>> => effect'[r] = {} /\ got'[r].rows = {}
  BY DEF Acted
<1>2. Tail(plan[r]) = <<>> => Reported(r)'
  BY DEF Acted
<1>3. Faithful(r)'
  BY <1>1, <1>2 DEF PromiseInv, Faithful, PhaseOf, Planned
<1> QED  BY <1>3, StepFaithful

LEMMA AnswerStatuses ==
  /\ \A st \in {200, 201} : st \notin 400..499
  /\ \A st \in {404, 409} : st \in 400..499 /\ st \notin {200, 201}
  /\ \A st \in {500, 504} : st \notin 400..499 /\ st \notin {200, 201}
<1> QED  OBVIOUS

LEMMA ResumeFaithful ==
  ASSUME PromiseInv, NEW r \in Requests, Resume(r)
  PROVE  PromiseInv'
<1>1. IsolationInv /\ TypeInv /\ IsolationInv'
  BY ResumeIsolated DEF PromiseInv, IsolationInv
<1>2. stage[r] = "return" /\ Planned(r) /\ shownBy[r] = Boot
      /\ IsPlan(plan[r]) /\ plan[r] # <<>> /\ Head(plan[r]) = plan[r][1]
      /\ 1 \in DOMAIN plan[r]
  BY <1>1, ResumeMeans, PlanParts DEF PromiseInv, Faithful, TypeInv, TypeOK, Wired
<1>3. /\ UNCHANGED <<tbl, call, ctx, got, effect>>
      /\ \A q \in Requests \ {r} : Same(q)
      /\ \/ /\ Tail(plan[r]) # <<>> /\ stage'[r] = "acquire" /\ plan'[r] = Tail(plan[r])
            /\ shownBy'[r] = shownBy[r]
         \/ /\ got[r].err # "" \/ Tail(plan[r]) = <<>>
            /\ stage'[r] = "done" /\ shownBy'[r] = live
            /\ resp'[r] = Result(r, Head(plan[r]))
  BY ResumeMeans
<1>4. /\ Tail(plan[r]) # <<>> => effect[r] = {} /\ got[r].rows = {}
      /\ Tail(plan[r]) = <<>> => Reported(r)
  BY <1>2 DEF PromiseInv, Faithful, PhaseOf
<1>5. CASE /\ Tail(plan[r]) # <<>> /\ stage'[r] = "acquire" /\ plan'[r] = Tail(plan[r])
           /\ shownBy'[r] = shownBy[r]
  <2>1. Shape(Tail(plan[r]), call[r])
    BY <1>2, <1>5, PlanShape DEF Planned
  <2>2. \A n \in DOMAIN Tail(plan[r]) : Tail(plan[r])[n].res = call[r].res
    BY <1>2, PlanParts DEF Planned
  <2>3. Planned(r)'
    BY <1>3, <1>5, <2>1, <2>2 DEF Planned
  <2>4. Faithful(r)'
    BY <1>2, <1>3, <1>4, <1>5, <2>3 DEF Faithful, PhaseOf
  <2> QED  BY <1>1, <1>3, <2>4, StepFaithful
<1>6. CASE /\ got[r].err # "" \/ Tail(plan[r]) = <<>>
           /\ stage'[r] = "done" /\ shownBy'[r] = live
           /\ resp'[r] = Result(r, Head(plan[r]))
  <2>1. Head(plan[r]).res = call[r].res
    BY <1>2 DEF Planned
  <2>2. Tells(r)'
    <3> DEFINE st == resp'[r].status
    <3>1. resp'[r] = Result(r, Head(plan[r]))
      BY <1>6
    <3>2. Meaning(r, call[r].res, resp'[r])
      <4>1. Meaning(r, Head(plan[r]).res, Result(r, Head(plan[r])))
        BY ResultMeans
      <4> QED  BY <2>1, <3>1, <4>1
    <3>3. CASE got[r].err = "" /\ st \in {200, 201} /\ resp'[r].rows = got[r].rows
      <4>1. Reported(r)
        BY <1>4, <1>6, <3>3
      <4>2. RespIds(r)' = IdsIn(got[r].rows)
        BY <3>3 DEF RespIds, IdsIn
      <4>3. st \in {200, 201}
        BY <3>3
      <4>4. st \notin 400..499
        BY <4>3, AnswerStatuses
      <4>5. effect[r] \subseteq IdsIn(got[r].rows)
            /\ (call[r].op \in {"create", "batch_create"} =>
                  Cardinality(IdsIn(got[r].rows)) = Len(call[r].items))
        BY <3>3, <4>1 DEF Reported
      <4>6. effect'[r] = effect[r] /\ call'[r] = call[r]
        BY <1>3
      <4>7. ~(resp'[r].status \in 400..499)
        BY <4>4
      <4> HIDE DEF st
      <4> QED  BY <4>2, <4>5, <4>6, <4>7 DEF Tells
    <3>4. CASE got[r].err = "" /\ st = 404
      <4>0. st \in {404, 409}
        BY <3>4
      <4>1. st \in 400..499 /\ st \notin {200, 201}
        BY <4>0, AnswerStatuses
      <4>2. CASE got[r].rows = {}
        <5>1. IdsIn(got[r].rows) = {}
          BY <4>2 DEF IdsIn
        <5>2. effect'[r] = {}
          BY <1>3, <1>4, <1>6, <3>4, <5>1 DEF Reported
        <5> QED  BY <4>1, <5>2, RefusalTells
      <4>3. CASE call[r].res \notin DOMAIN Config.resources
        <5>1. ~Succeeded(r)'
          BY <4>1 DEF Succeeded
        <5>2. ~(call'[r].res \in DOMAIN Configs[shownBy'[r]].resources)
          BY <1>3, <1>6, <4>3 DEF Config
        <5> QED  BY <5>1, <5>2 DEF Tells
      <4>4. got[r].rows = {} \/ call[r].res \notin DOMAIN Config.resources
        <5>1. st \notin {200, 201} /\ st \notin {500, 504} /\ st # 409
          <6>1. st = 404
            BY <3>4
          <6> HIDE DEF st
          <6> QED  BY <6>1
        <5> HIDE DEF st
        <5> QED  BY <3>2, <5>1 DEF Meaning, st
      <4> QED  BY <4>2, <4>3, <4>4
    <3>5. CASE got[r].err = "unique" /\ st = 409
      <4>1. effect'[r] = {}
        BY <1>3, <1>4, <3>5 DEF Reported
      <4>2. st \in 400..499 /\ st \notin {200, 201}
        BY <3>5, AnswerStatuses
      <4> QED  BY <4>1, <4>2, RefusalTells
    <3>6. CASE st \in {500, 504}
      <4>1. st \notin 400..499 /\ st \notin {200, 201}
        BY <3>6, AnswerStatuses
      <4>2. ~Succeeded(r)'
        BY <4>1 DEF Succeeded
      <4> QED  BY <4>1, <4>2 DEF Tells
    <3> QED  BY <3>2, <3>3, <3>4, <3>5, <3>6 DEF Meaning
  <2>3. Faithful(r)'
    BY <1>6, <2>2 DEF Faithful, PhaseOf
  <2> QED  BY <1>1, <1>3, <2>3, StepFaithful
<1> QED  BY <1>3, <1>5, <1>6

LEMMA ApplyFaithful ==
  ASSUME PromiseInv, NEW v \in Versions, Apply(v)
  PROVE  PromiseInv'
<1>1. IsolationInv'
  BY ApplyIsolated DEF PromiseInv
<1>2. \A q \in Requests : Same(q)
  BY DEF Apply, request, history, Same
<1> QED  BY <1>1, <1>2, SameFaithful DEF PromiseInv

LEMMA NextPromise == ASSUME Guarded PROVE PromiseInv /\ [Next]_vars => PromiseInv'
<1> SUFFICES ASSUME PromiseInv, [Next]_vars PROVE PromiseInv'
  OBVIOUS
<1>1. ASSUME NEW r \in Requests, NEW c \in Calls, Admit(r, c) PROVE PromiseInv'
  BY <1>1, AdmitFaithful
<1>2. ASSUME NEW r \in Requests, Body(r) PROVE PromiseInv'
  BY <1>2, BodyFaithful
<1>3. ASSUME NEW r \in Requests, NEW k \in Connections, Acquire(r, k) PROVE PromiseInv'
  BY <1>3, AcquireFaithful
<1>4. ASSUME NEW r \in Requests, Execute(r) PROVE PromiseInv'
  <2>1. IsolationInv'
    BY <1>4, ExecuteIsolated DEF PromiseInv
  <2> QED  BY <1>4, <2>1, ExecuteMeans, EndFaithful
<1>5. ASSUME NEW r \in Requests, Fault(r) PROVE PromiseInv'
  <2>1. IsolationInv'
    BY <1>5, FaultIsolated DEF PromiseInv
  <2> QED  BY <1>5, <2>1, FaultMeans, EndFaithful
<1>6. ASSUME NEW r \in Requests, Resume(r) PROVE PromiseInv'
  BY <1>6, ResumeFaithful
<1>7. ASSUME NEW v \in Versions, Apply(v) PROVE PromiseInv'
  BY <1>7, ApplyFaithful
<1>8. CASE UNCHANGED vars
  <2>1. IsolationInv'
    BY <1>8, NextIsolated DEF PromiseInv
  <2>2. \A q \in Requests : Same(q)
    BY <1>8 DEF vars, request, history, Same
  <2> QED  BY <2>1, <2>2, SameFaithful DEF PromiseInv
<1> QED  BY <1>1, <1>2, <1>3, <1>4, <1>5, <1>6, <1>7, <1>8 DEF Next, Serve, Finished

LEMMA AlwaysPromise == ASSUME Guarded PROVE Spec => []PromiseInv
<1> QED  BY InitPromise, NextPromise, PTL DEF Spec

\* Responses tell what happened: for every instance, a refusal (4xx) means that nothing was
\* changed, a success names every changed row, and a successful batch every item.
THEOREM ResponsesTellEffects == ASSUME Guarded PROVE Spec => []ResponseTellsEffect
<1>1. PromiseInv => ResponseTellsEffect
  BY DEF PromiseInv, Faithful, Tells, ResponseTellsEffect, Answered
<1> QED  BY <1>1, AlwaysPromise, PTL

-----------------------------------------------------------------------------
(* Refinement *)

\* The state of TenantStore that a state of Gateway stands for, but for the table and the
\* effects, which are the same.
Phases == [r \in Requests |-> PhaseOf(r)]
Owners == [r \in Requests |-> ctx[r].tenant]
Targets == [r \in Requests |-> call[r].res]
Views == [r \in Requests |-> got[r].rows]
Answers == [r \in Requests |-> AnswerOf(r)]

LEMMA OneMoves ==
  ASSUME NEW r \in Requests, \A q \in Requests \ {r} : Same(q)
  PROVE  /\ Phases' = [Phases EXCEPT ![r] = PhaseOf(r)']
         /\ Owners' = [Owners EXCEPT ![r] = ctx'[r].tenant]
         /\ Targets' = [Targets EXCEPT ![r] = call'[r].res]
         /\ Views' = [Views EXCEPT ![r] = got'[r].rows]
         /\ Answers' = [Answers EXCEPT ![r] = AnswerOf(r)']
<1>1. \A q \in Requests \ {r} :
        /\ PhaseOf(q)' = PhaseOf(q) /\ AnswerOf(q)' = AnswerOf(q)
        /\ ctx'[q] = ctx[q] /\ call'[q] = call[q] /\ got'[q] = got[q]
  BY SameFaithful DEF Same
<1> QED  BY <1>1 DEF Phases, Owners, Targets, Views, Answers

LEMMA NoneMoves ==
  ASSUME \A q \in Requests : Same(q), UNCHANGED <<tbl, effect>>
  PROVE  UNCHANGED Promise!vars
<1>1. \A q \in Requests :
        /\ PhaseOf(q)' = PhaseOf(q) /\ AnswerOf(q)' = AnswerOf(q)
        /\ ctx'[q] = ctx[q] /\ call'[q] = call[q] /\ got'[q] = got[q]
  BY SameFaithful DEF Same
<1> QED  BY <1>1 DEF Promise!vars

\* A step of one request that TenantStore does not see.
LEMMA Stutter ==
  ASSUME NEW r \in Requests, \A q \in Requests \ {r} : Same(q), UNCHANGED <<tbl, effect>>,
         PhaseOf(r)' = PhaseOf(r), AnswerOf(r)' = AnswerOf(r), ctx'[r] = ctx[r],
         call'[r].res = call[r].res, got'[r].rows = got[r].rows
  PROVE  UNCHANGED Promise!vars
<1>1. \A q \in Requests :
        /\ PhaseOf(q)' = PhaseOf(q) /\ AnswerOf(q)' = AnswerOf(q)
        /\ ctx'[q] = ctx[q] /\ call'[q].res = call[q].res /\ got'[q].rows = got[q].rows
  BY SameFaithful DEF Same
<1> QED  BY <1>1 DEF Promise!vars

\* The answer of a request that has none.
LEMMA Unanswered ==
  ASSUME NEW r
  PROVE  /\ stage[r] # "done" => AnswerOf(r) = [verdict |-> "none", rows |-> {}]
         /\ stage'[r] # "done" => AnswerOf(r)' = [verdict |-> "none", rows |-> {}]
BY DEF AnswerOf

-----------------------------------------------------------------------------
(* A request is answered *)

\* It had a phase in which the answer may be given, and its verdict is deserved.
LEMMA Closes ==
  ASSUME NEW r \in Requests, \A q \in Requests \ {r} : Same(q),
         UNCHANGED <<tbl, call, ctx, got, effect>>, stage'[r] = "done",
         NEW verdict, VerdictOf(r)' = verdict, NEW rows, resp'[r].rows = rows
  PROVE  Promise!Close(r, verdict, rows)
<1>1. PhaseOf(r)' = "closed" /\ AnswerOf(r)' = [verdict |-> verdict, rows |-> rows]
  BY DEF PhaseOf, AnswerOf
<1>2. /\ Phases' = [Phases EXCEPT ![r] = "closed"]
      /\ Answers' = [Answers EXCEPT ![r] = [verdict |-> verdict, rows |-> rows]]
  BY <1>1, OneMoves
<1>3. UNCHANGED <<Owners, Targets, Views>>
  BY DEF Owners, Targets, Views
<1> QED  BY <1>2, <1>3 DEF Promise!Close, Phases, Answers, Owners, Targets, Views

LEMMA Verdicts ==
  ASSUME NEW r, stage'[r] = "done"
  PROVE  /\ resp'[r].status \in {200, 201} => VerdictOf(r)' = "done"
         /\ resp'[r].status \in 400..499 =>
              IF call'[r].res \in DOMAIN Configs[shownBy'[r]].resources
                THEN VerdictOf(r)' = "refused"
                ELSE VerdictOf(r)' = "unknown"
         /\ resp'[r].status \in {500, 504} => VerdictOf(r)' = "unknown"
<1> DEFINE st == resp'[r].status
<1>1. Succeeded(r)' <=> st \in {200, 201}
  BY DEF Succeeded, Answered
<1>2. VerdictOf(r)' =
        IF st \in {200, 201} THEN "done"
        ELSE IF st < 500 /\ call'[r].res \in DOMAIN Configs[shownBy'[r]].resources
          THEN "refused" ELSE "unknown"
  BY <1>1 DEF VerdictOf
<1> HIDE DEF st
<1>3. st \in 400..499 => st \notin {200, 201} /\ st < 500
  OBVIOUS
<1>4. st \in {500, 504} => st \notin {200, 201} /\ ~(st < 500)
  OBVIOUS
<1>5. /\ st \in {200, 201} => VerdictOf(r)' = "done"
      /\ st \in 400..499 =>
           IF call'[r].res \in DOMAIN Configs[shownBy'[r]].resources
             THEN VerdictOf(r)' = "refused"
             ELSE VerdictOf(r)' = "unknown"
      /\ st \in {500, 504} => VerdictOf(r)' = "unknown"
  BY <1>2, <1>3, <1>4
<1> QED  BY <1>5 DEF st

\* The resources a call may name are those of the configuration at start-up.
LEMMA KnownAtBoot ==
  /\ DOMAIN Configs[Boot].resources = DOMAIN Table0
  /\ \A c \in Calls : c.res \in DOMAIN Table0
BY GatewayAssumption

-----------------------------------------------------------------------------
(* Each action is a step of TenantStore or none *)

LEMMA AdmitKeeps ==
  ASSUME PromiseInv, NEW r \in Requests, NEW c \in Calls, Admit(r, c)
  PROVE  Promise!Open(r) \/ Promise!Reject(r)
<1>1. TypeInv
  BY DEF PromiseInv, IsolationInv
<1>2. /\ stage[r] = "new" /\ call'[r] = c
      /\ UNCHANGED <<tbl, got, effect, shownBy>>
      /\ \A q \in Requests \ {r} : Same(q)
      /\ \/ /\ stage'[r] = "done" /\ ctx'[r].tenant \in Tenants \cup {NoTenant}
            /\ resp'[r].status \in 400..499 /\ resp'[r].rows = {}
         \/ /\ stage'[r] \in {"body", "acquire"} /\ ctx'[r].tenant \in Tenants
  BY <1>1, AdmitMeans
<1>3. shownBy'[r] = Boot /\ c.res \in DOMAIN Table0 /\ PhaseOf(r) = "idle"
  BY <1>2, GatewayAssumption DEF PromiseInv, Faithful, PhaseOf
<1>4. /\ Owners' = [Owners EXCEPT ![r] = ctx'[r].tenant]
      /\ Targets' = [Targets EXCEPT ![r] = c.res]
      /\ UNCHANGED Views
  BY <1>2, OneMoves DEF Views
<1>5. CASE stage'[r] \in {"body", "acquire"} /\ ctx'[r].tenant \in Tenants
  <2>1. PhaseOf(r)' = "open" /\ AnswerOf(r)' = AnswerOf(r)
    BY <1>2, <1>5, Unanswered DEF PhaseOf
  <2>2. Phases' = [Phases EXCEPT ![r] = "open"] /\ UNCHANGED Answers
    BY <1>2, <2>1, OneMoves DEF Answers
  <2>3. Promise!Open(r)
    BY <1>2, <1>3, <1>4, <1>5, <2>2
       DEF Promise!Open, Phases, Owners, Targets, Views, Answers
  <2> QED  BY <2>3
<1>6. CASE /\ stage'[r] = "done" /\ ctx'[r].tenant \in Tenants \cup {NoTenant}
           /\ resp'[r].status \in 400..499 /\ resp'[r].rows = {}
  <2>1. VerdictOf(r)' = "refused"
    BY <1>2, <1>3, <1>6, Verdicts, KnownAtBoot
  <2>2. PhaseOf(r)' = "closed" /\ AnswerOf(r)' = [verdict |-> "refused", rows |-> {}]
    BY <1>6, <2>1 DEF PhaseOf, AnswerOf
  <2>3. /\ Phases' = [Phases EXCEPT ![r] = "closed"]
        /\ Answers' = [Answers EXCEPT ![r] = [verdict |-> "refused", rows |-> {}]]
    BY <1>2, <2>2, OneMoves
  <2>4. Promise!Reject(r)
    BY <1>2, <1>3, <1>4, <1>6, <2>3
       DEF Promise!Reject, Phases, Owners, Targets, Views, Answers
  <2> QED  BY <2>4
<1> QED  BY <1>2, <1>5, <1>6

LEMMA BodyKeeps ==
  ASSUME PromiseInv, NEW r \in Requests, Body(r)
  PROVE  Promise!Refuse(r) \/ UNCHANGED Promise!vars
<1>1. TypeInv
  BY DEF PromiseInv, IsolationInv
<1>2. /\ stage[r] = "body"
      /\ UNCHANGED <<tbl, call, ctx, got, effect, shownBy>>
      /\ \A q \in Requests \ {r} : Same(q)
      /\ \/ /\ stage'[r] = "done"
            /\ resp'[r].status \in 400..499 /\ resp'[r].rows = {}
         \/ stage'[r] = "acquire"
  BY <1>1, BodyMeans
<1>3. /\ PhaseOf(r) = "open" /\ effect[r] = {} /\ shownBy'[r] = Boot
      /\ call'[r].res \in DOMAIN Table0
  BY <1>1, <1>2, GatewayAssumption DEF PromiseInv, Faithful, PhaseOf, TypeInv, TypeOK
<1>4. CASE stage'[r] = "acquire"
  <2>1. PhaseOf(r)' = "open" /\ AnswerOf(r)' = AnswerOf(r)
    BY <1>2, <1>4, Unanswered DEF PhaseOf
  <2>2. ctx'[r] = ctx[r] /\ call'[r].res = call[r].res /\ got'[r].rows = got[r].rows
    BY <1>2
  <2> QED  BY <1>2, <1>3, <2>1, <2>2, Stutter
<1>5. CASE stage'[r] = "done" /\ resp'[r].status \in 400..499 /\ resp'[r].rows = {}
  <2>1. VerdictOf(r)' = "refused"
    BY <1>3, <1>5, Verdicts, KnownAtBoot
  <2>2. Promise!Close(r, "refused", {})
    BY <1>2, <1>5, <2>1, Closes
  <2> QED  BY <1>3, <2>2 DEF Promise!Refuse
<1> QED  BY <1>2, <1>4, <1>5

LEMMA AcquireKeeps ==
  ASSUME PromiseInv, NEW r \in Requests, NEW k \in Connections, Acquire(r, k)
  PROVE  UNCHANGED Promise!vars
<1>1. TypeInv
  BY DEF PromiseInv, IsolationInv
<1>2. /\ stage[r] = "acquire" /\ stage'[r] = "execute"
      /\ UNCHANGED <<tbl, call, ctx, plan, got, effect, resp, shownBy>>
      /\ \A q \in Requests \ {r} : Same(q)
  BY <1>1, AcquireMeans
<1>3. PhaseOf(r)' = PhaseOf(r) /\ AnswerOf(r)' = AnswerOf(r)
  BY <1>2, Unanswered DEF PhaseOf
<1>4. ctx'[r] = ctx[r] /\ call'[r].res = call[r].res /\ got'[r].rows = got[r].rows
  BY <1>2
<1> QED  BY <1>2, <1>3, <1>4, Stutter

LEMMA ApplyKeeps ==
  ASSUME NEW v \in Versions, Apply(v)
  PROVE  UNCHANGED Promise!vars
<1>1. (\A q \in Requests : Same(q)) /\ UNCHANGED <<tbl, effect>>
  BY DEF Apply, request, history, Same
<1> QED  BY <1>1, NoneMoves

\* What a transaction returned are rows as they are after it, or as they were.
LEMMA SeenCurrent ==
  ASSUME NEW r \in Requests, Acted(r), NEW x \in got'[r].rows
  PROVE  /\ \/ x \in Promise!RowsOf(tbl'[call[r].res])
            \/ x \in Promise!RowsOf(tbl[call[r].res]) /\ tbl'[call[r].res][x.id] \notin Rows
         /\ x.row.tenant_id = ctx[r].tenant
<1> DEFINE before == tbl[call[r].res]
           after == tbl'[call[r].res]
<1>1. /\ x = [id |-> x.id, row |-> x.row]
      /\ x.id \in Ids /\ x.row \in Rows /\ x.row.tenant_id = ctx[r].tenant
      /\ x.row = after[x.id] \/ (x.row = before[x.id] /\ after[x.id] \notin Rows)
  BY DEF Acted
<1> HIDE DEF before, after
<1>2. CASE x.row = after[x.id]
  <2>1. x = [id |-> x.id, row |-> after[x.id]] /\ after[x.id] \in Rows
    BY <1>1, <1>2
  <2>2. x \in Promise!RowsOf(after)
    BY <1>1, <2>1 DEF Promise!RowsOf
  <2> QED  BY <1>1, <2>2 DEF after
<1>3. CASE x.row = before[x.id] /\ after[x.id] \notin Rows
  <2>1. x = [id |-> x.id, row |-> before[x.id]] /\ before[x.id] \in Rows
    BY <1>1, <1>3
  <2>2. x \in Promise!RowsOf(before)
    BY <1>1, <2>1 DEF Promise!RowsOf
  <2> QED  BY <1>1, <1>3, <2>2 DEF before, after
<1> QED  BY <1>1, <1>2, <1>3

LEMMA EndKeeps ==
  ASSUME PromiseInv, TypeInv', NEW r \in Requests, stage[r] = "execute",
         stage'[r] = "return", UNCHANGED <<call, ctx, plan, resp, shownBy>>,
         \A q \in Requests \ {r} : Same(q), Acted(r),
         Tail(plan[r]) # <<>> => UNCHANGED tbl /\ got'[r].rows = {}
  PROVE  Promise!Act(r) \/ UNCHANGED Promise!vars
<1>1. /\ effect \in [Requests -> SUBSET Ids] /\ effect' \in [Requests -> SUBSET Ids]
      /\ tbl' \in [DOMAIN Table0 -> Tables]
      /\ PhaseOf(r) = "open" /\ effect[r] = {} /\ got[r].rows = {}
      /\ \A q \in Requests \ {r} : effect'[q] = effect[q]
  BY DEF PromiseInv, IsolationInv, TypeInv, TypeOK, Faithful, PhaseOf, Same
<1>2. AnswerOf(r)' = AnswerOf(r)
  BY Unanswered
<1>3. CASE Tail(plan[r]) # <<>>
  <2>1. PhaseOf(r)' = PhaseOf(r) /\ effect'[r] = effect[r] /\ UNCHANGED tbl
    BY <1>1, <1>3 DEF PhaseOf, Acted
  <2>2. UNCHANGED effect
    <3>1. \A q \in Requests : effect'[q] = effect[q]
      BY <1>1, <2>1
    <3> QED  BY <1>1, <3>1
  <2>3. ctx'[r] = ctx[r] /\ call'[r].res = call[r].res /\ got'[r].rows = got[r].rows
    BY <1>1, <1>3
  <2> QED  BY <1>2, <2>1, <2>2, <2>3, Stutter
<1>4. CASE Tail(plan[r]) = <<>>
  <2> DEFINE before == tbl[Targets[r]]
             after == tbl'[Targets[r]]
             changed == {i \in Ids : after[i] # before[i]}
             current == Promise!RowsOf(after)
                          \cup {x \in Promise!RowsOf(before) : after[x.id] \notin Rows}
             seen == got'[r].rows
  <2>0. Targets[r] = call[r].res /\ Owners[r] = ctx[r].tenant /\ Phases[r] = "open"
    BY <1>1 DEF Targets, Owners, Phases
  <2>1. PhaseOf(r)' = "acted"
    BY <1>4 DEF PhaseOf
  <2>2. /\ Phases' = [Phases EXCEPT ![r] = "acted"]
        /\ Views' = [Views EXCEPT ![r] = seen]
        /\ UNCHANGED <<Owners, Targets, Answers>>
    BY <1>2, <2>1, OneMoves DEF Owners, Targets, Answers
  <2>3. tbl' \in [DOMAIN Table0 -> [Ids -> Rows \cup {Unborn, Erased}]]
    BY <1>1 DEF Tables
  <2>4. \A res \in DOMAIN Table0 \ {Targets[r]} : tbl'[res] = tbl[res]
    BY <2>0 DEF Acted
  <2>5. \A i \in changed : /\ Promise!Owned(before[i], Owners[r])
                           /\ Promise!Owned(after[i], Owners[r])
    BY <2>0 DEF Promise!Owned, Acted
  <2>6. effect' = [effect EXCEPT ![r] = changed]
    <3>1. effect'[r] = changed
      BY <2>0 DEF Acted
    <3> HIDE DEF changed
    <3> QED  BY <1>1, <3>1
  <2>7. seen \in SUBSET {x \in current : x.row.tenant_id = Owners[r]}
    <3> SUFFICES ASSUME NEW x \in got'[r].rows
                 PROVE  x \in current /\ x.row.tenant_id = Owners[r]
      OBVIOUS
    <3> QED  BY <2>0, SeenCurrent
  <2>8. changed \subseteq Promise!IdsIn(seen) \/ seen = {}
    <3>1. effect'[r] \subseteq IdsIn(seen) \/ seen = {}
      BY DEF Acted
    <3>2. effect'[r] = changed
      BY <2>0 DEF Acted
    <3> HIDE DEF changed, seen
    <3> QED  BY <3>1, <3>2 DEF Promise!IdsIn, IdsIn
  <2>9. \E some \in SUBSET {x \in current : x.row.tenant_id = Owners[r]} :
          /\ Views' = [Views EXCEPT ![r] = some]
          /\ changed \subseteq Promise!IdsIn(some) \/ some = {}
    <3> HIDE DEF current, changed, seen
    <3> QED  BY <2>2, <2>7, <2>8
  <2>10. Promise!Act(r)
    BY <2>0, <2>2, <2>3, <2>4, <2>5, <2>6, <2>9
       DEF Promise!Act, Phases, Owners, Targets, Views, Answers
  <2> QED  BY <2>10
<1> QED  BY <1>3, <1>4

LEMMA ResumeKeeps ==
  ASSUME PromiseInv, NEW r \in Requests, Resume(r)
  PROVE  Promise!Succeed(r) \/ Promise!Refuse(r) \/ Promise!Doubt(r) \/ UNCHANGED Promise!vars
<1>1. TypeInv
  BY DEF PromiseInv, IsolationInv
<1>2. stage[r] = "return" /\ Planned(r)
      /\ IsPlan(plan[r]) /\ plan[r] # <<>> /\ Head(plan[r]) = plan[r][1]
      /\ 1 \in DOMAIN plan[r]
  BY <1>1, ResumeMeans, PlanParts DEF PromiseInv, Faithful, TypeInv, TypeOK, Wired
<1>3. /\ UNCHANGED <<tbl, call, ctx, got, effect>>
      /\ \A q \in Requests \ {r} : Same(q)
      /\ \/ /\ Tail(plan[r]) # <<>> /\ stage'[r] = "acquire"
         \/ /\ got[r].err # "" \/ Tail(plan[r]) = <<>>
            /\ stage'[r] = "done" /\ shownBy'[r] = live
            /\ resp'[r] = Result(r, Head(plan[r]))
  BY ResumeMeans
<1>4. /\ Tail(plan[r]) # <<>> => PhaseOf(r) = "open" /\ effect[r] = {} /\ got[r].rows = {}
      /\ Tail(plan[r]) = <<>> => PhaseOf(r) = "acted" /\ Reported(r)
  BY <1>2 DEF PromiseInv, Faithful, PhaseOf
<1>5. CASE Tail(plan[r]) # <<>> /\ stage'[r] = "acquire"
  <2>1. PhaseOf(r)' = PhaseOf(r) /\ AnswerOf(r)' = AnswerOf(r)
    BY <1>2, <1>4, <1>5, Unanswered DEF PhaseOf
  <2>2. ctx'[r] = ctx[r] /\ call'[r].res = call[r].res /\ got'[r].rows = got[r].rows
    BY <1>3
  <2> QED  BY <1>3, <2>1, <2>2, Stutter
<1>6. CASE /\ got[r].err # "" \/ Tail(plan[r]) = <<>>
           /\ stage'[r] = "done" /\ shownBy'[r] = live
           /\ resp'[r] = Result(r, Head(plan[r]))
  <2>1. Meaning(r, call[r].res, resp'[r])
    <3>1. Meaning(r, Head(plan[r]).res, Result(r, Head(plan[r])))
      BY ResultMeans
    <3>2. Head(plan[r]).res = call[r].res
      BY <1>2 DEF Planned
    <3> QED  BY <1>6, <3>1, <3>2
  <2>2. PhaseOf(r) \in {"open", "acted"} /\ stage'[r] = "done"
    BY <1>4, <1>6
  <2>3. Config = Configs[shownBy'[r]] /\ call'[r] = call[r]
    BY <1>3, <1>6 DEF Config
  <2>4. ASSUME resp'[r].rows = {}, VerdictOf(r)' = "unknown" PROVE Promise!Doubt(r)
    <3>1. Promise!Close(r, "unknown", {})
      BY <1>3, <1>6, <2>4, Closes
    <3> QED  BY <2>2, <3>1 DEF Promise!Doubt
  <2>5. ASSUME resp'[r].rows = {}, VerdictOf(r)' = "refused", effect[r] = {}
        PROVE  Promise!Refuse(r)
    <3>1. Promise!Close(r, "refused", {})
      BY <1>3, <1>6, <2>5, Closes
    <3> QED  BY <2>2, <2>5, <3>1 DEF Promise!Refuse
  <2>6. CASE got[r].err = "" /\ resp'[r].status \in {200, 201} /\ resp'[r].rows = got[r].rows
    <3>0. resp'[r].status \in {200, 201}
      BY <2>6
    <3>1. VerdictOf(r)' = "done"
      BY <2>2, <3>0, Verdicts
    <3>2. Promise!Close(r, "done", got[r].rows)
      BY <1>3, <1>6, <2>6, <3>1, Closes
    <3>3. PhaseOf(r) = "acted" /\ effect[r] \subseteq IdsIn(got[r].rows)
      BY <1>4, <1>6, <2>6 DEF Reported
    <3>4. Promise!Succeed(r)
      BY <3>2, <3>3 DEF Promise!Succeed, Promise!IdsIn, IdsIn
    <3> QED  BY <3>4
  <2>7. CASE /\ got[r].err = "" /\ resp'[r].status = 404 /\ resp'[r].rows = {}
             /\ (got[r].rows = {} \/ call[r].res \notin DOMAIN Config.resources)
    <3>1. resp'[r].status \in 400..499
      <4>1. resp'[r].status \in {404, 409}
        BY <2>7
      <4> QED  BY <4>1, AnswerStatuses
    <3>2. CASE call[r].res \in DOMAIN Config.resources
      <4>0. got[r].rows = {}
        BY <2>7, <3>2
      <4>1. IdsIn(got[r].rows) = {}
        BY <4>0 DEF IdsIn
      <4>2. effect[r] = {}
        BY <1>4, <1>6, <2>7, <4>1 DEF Reported
      <4>3. VerdictOf(r)' = "refused"
        BY <2>2, <2>3, <3>1, <3>2, Verdicts
      <4> QED  BY <2>5, <2>7, <4>2, <4>3
    <3>3. CASE call[r].res \notin DOMAIN Config.resources
      <4>1. VerdictOf(r)' = "unknown"
        BY <2>2, <2>3, <3>1, <3>3, Verdicts
      <4> QED  BY <2>4, <2>7, <4>1
    <3> QED  BY <3>2, <3>3
  <2>8. CASE got[r].err = "unique" /\ resp'[r].status = 409 /\ resp'[r].rows = {}
    <3>1. resp'[r].status \in 400..499
      <4>1. resp'[r].status \in {404, 409}
        BY <2>8
      <4> QED  BY <4>1, AnswerStatuses
    <3>2. effect[r] = {}
      BY <1>4, <2>8 DEF Reported
    <3>3. VerdictOf(r)' \in {"refused", "unknown"}
      BY <2>2, <3>1, Verdicts
    <3> QED  BY <2>4, <2>5, <2>8, <3>2, <3>3
  <2>9. CASE resp'[r].status \in {500, 504} /\ resp'[r].rows = {}
    <3>1. VerdictOf(r)' = "unknown"
      BY <2>2, <2>9, Verdicts
    <3> QED  BY <2>4, <2>9, <3>1
  <2> QED  BY <2>1, <2>6, <2>7, <2>8, <2>9 DEF Meaning
<1> QED  BY <1>3, <1>5, <1>6

-----------------------------------------------------------------------------
(* The refinement *)

LEMMA InitKeeps == Init => Promise!Init
<1> SUFFICES ASSUME Init PROVE Promise!Init
  OBVIOUS
<1>1. \A r \in Requests : /\ PhaseOf(r) = "idle" /\ ctx[r].tenant = NoTenant
                          /\ call[r].res \in DOMAIN Table0 /\ got[r].rows = {}
                          /\ AnswerOf(r) = [verdict |-> "none", rows |-> {}]
  BY GatewayAssumption DEF Init, PhaseOf, AnswerOf, NoCtx, NoOutcome
<1>2. tbl = Table0 /\ effect = [r \in Requests |-> {}]
  BY DEF Init
<1> QED  BY <1>1, <1>2 DEF Promise!Init, Promise!NoAnswer

LEMMA NextKeeps ==
  ASSUME Guarded, PromiseInv, [Next]_vars
  PROVE  [Promise!Next]_(Promise!vars)
<1>1. ASSUME NEW r \in Requests, NEW c \in Calls, Admit(r, c)
      PROVE  [Promise!Next]_(Promise!vars)
  BY <1>1, AdmitKeeps DEF Promise!Next
<1>2. ASSUME NEW r \in Requests, Body(r) PROVE [Promise!Next]_(Promise!vars)
  BY <1>2, BodyKeeps DEF Promise!Next
<1>3. ASSUME NEW r \in Requests, NEW k \in Connections, Acquire(r, k)
      PROVE  [Promise!Next]_(Promise!vars)
  BY <1>3, AcquireKeeps
<1>4. ASSUME NEW r \in Requests, Execute(r) PROVE [Promise!Next]_(Promise!vars)
  <2>1. TypeInv'
    BY <1>4, ExecuteIsolated DEF PromiseInv, IsolationInv
  <2>2. Promise!Act(r) \/ UNCHANGED Promise!vars
    BY <1>4, <2>1, ExecuteMeans, EndKeeps
  <2> QED  BY <2>2 DEF Promise!Next
<1>5. ASSUME NEW r \in Requests, Fault(r) PROVE [Promise!Next]_(Promise!vars)
  <2>1. TypeInv'
    BY <1>5, FaultIsolated DEF PromiseInv, IsolationInv
  <2>2. Promise!Act(r) \/ UNCHANGED Promise!vars
    BY <1>5, <2>1, FaultMeans, EndKeeps
  <2> QED  BY <2>2 DEF Promise!Next
<1>6. ASSUME NEW r \in Requests, Resume(r) PROVE [Promise!Next]_(Promise!vars)
  BY <1>6, ResumeKeeps DEF Promise!Next
<1>7. ASSUME NEW v \in Versions, Apply(v) PROVE [Promise!Next]_(Promise!vars)
  BY <1>7, ApplyKeeps
<1>8. CASE UNCHANGED vars
  <2>1. (\A q \in Requests : Same(q)) /\ UNCHANGED <<tbl, effect>>
    BY <1>8 DEF vars, request, history, Same
  <2> QED  BY <2>1, NoneMoves
<1> QED  BY <1>1, <1>2, <1>3, <1>4, <1>5, <1>6, <1>7, <1>8 DEF Next, Serve, Finished

\* The gateway is a TenantStore: each of its steps, for every instance, is a step TenantStore
\* allows or one it does not see.
THEOREM GatewayKeepsPromise == ASSUME Guarded PROVE Spec => ImplementsTenantStore
<1>1. ASSUME PromiseInv, [Next]_vars PROVE [Promise!Next]_(Promise!vars)
  BY <1>1, NextKeeps
<1> QED  BY <1>1, InitKeeps, AlwaysPromise, PTL DEF Spec, ImplementsTenantStore, Promise!Spec

-----------------------------------------------------------------------------
(* Connections *)

\* The substitutions of Gateway!Lease.
Uses == [r \in Requests |-> UseOf(r)]
Tenancies == [r \in Requests |-> OwnerOf(r)]

\* A request whose use of connections a step leaves alone.
Unmoved(q) == stage'[q] = stage[q] /\ got'[q] = got[q] /\ ctx'[q] = ctx[q]

LEMMA OneUses ==
  ASSUME NEW r \in Requests, \A q \in Requests \ {r} : Unmoved(q)
  PROVE  /\ Uses' = [Uses EXCEPT ![r] = UseOf(r)']
         /\ Tenancies' = [Tenancies EXCEPT ![r] = OwnerOf(r)']
<1>1. \A q \in Requests \ {r} : UseOf(q)' = UseOf(q) /\ OwnerOf(q)' = OwnerOf(q)
  BY DEF Unmoved, UseOf, OwnerOf
<1> QED  BY <1>1 DEF Uses, Tenancies

LEMMA InitLeases == Init => Lease!Init
BY DEF Init, Lease!Init, UseOf, OwnerOf

\* What arrives takes no connection: it is turned away, waits for its body, or goes on to
\* its first statement as the tenant it was admitted for.
LEMMA ArriveLeases ==
  ASSUME TypeInv', NEW r \in Requests, stage[r] \in {"new", "body"},
         stage'[r] \in {"body", "acquire", "done"},
         \A q \in Requests \ {r} : Unmoved(q), UNCHANGED <<conn, guc>>
  PROVE  (\E t \in Tenants : Lease!Call(r, t)) \/ UNCHANGED Lease!vars
<1>1. UseOf(r) = "idle" /\ OwnerOf(r) = NoTenant
  BY DEF UseOf, OwnerOf
<1>2. CASE stage'[r] = "acquire"
  <2>1. UseOf(r)' = "waiting" /\ OwnerOf(r)' = ctx'[r].tenant /\ ctx'[r].tenant \in Tenants
    BY <1>2 DEF UseOf, OwnerOf, TypeInv, Wired
  <2>2. /\ Uses' = [Uses EXCEPT ![r] = "waiting"]
        /\ Tenancies' = [Tenancies EXCEPT ![r] = ctx'[r].tenant]
    BY <2>1, OneUses
  <2>3. Lease!Call(r, ctx'[r].tenant)
    BY <1>1, <2>2 DEF Lease!Call, Lease!Become, Uses, Tenancies
  <2> QED  BY <2>1, <2>3
<1>3. CASE stage'[r] \in {"body", "done"}
  <2>1. UseOf(r)' = "idle" /\ OwnerOf(r)' = NoTenant
    BY <1>3 DEF UseOf, OwnerOf
  <2>2. Uses' = Uses /\ Tenancies' = Tenancies
    BY <1>1, <2>1, OneUses DEF Uses, Tenancies
  <2> QED  BY <2>2 DEF Lease!vars, Uses, Tenancies
<1> QED  BY <1>2, <1>3

LEMMA AdmitLeases ==
  ASSUME TypeInv, TypeInv', NEW r \in Requests, NEW c \in Calls, Admit(r, c)
  PROVE  (\E t \in Tenants : Lease!Call(r, t)) \/ UNCHANGED Lease!vars
<1>1. stage[r] = "new" /\ UNCHANGED <<conn, guc, got>>
  BY DEF Admit
<1>2. /\ stage'[r] \in {"body", "acquire", "done"}
      /\ \A q \in Requests \ {r} : stage'[q] = stage[q] /\ ctx'[q] = ctx[q]
  BY DEF Admit, Handle, Respond, TypeInv, TypeOK
<1> QED  BY <1>1, <1>2, ArriveLeases DEF Unmoved

LEMMA BodyLeases ==
  ASSUME TypeInv, TypeInv', NEW r \in Requests, Body(r)
  PROVE  (\E t \in Tenants : Lease!Call(r, t)) \/ UNCHANGED Lease!vars
<1>1. stage[r] = "body" /\ UNCHANGED <<conn, guc, got, ctx>>
  BY DEF Body
<1>2. /\ stage'[r] \in {"acquire", "done"}
      /\ \A q \in Requests \ {r} : stage'[q] = stage[q]
  BY DEF Body, Handle, Respond, TypeInv, TypeOK
<1> QED  BY <1>1, <1>2, ArriveLeases DEF Unmoved

LEMMA AcquireLeases ==
  ASSUME TypeInv, NEW r \in Requests, NEW k \in Connections, Acquire(r, k)
  PROVE  Lease!Start(r, k)
<1>1. \A q \in Requests \ {r} : Unmoved(q)
  BY DEF Acquire, Unmoved, TypeInv, TypeOK
<1>2. UseOf(r) = "waiting" /\ OwnerOf(r) = ctx[r].tenant
  BY DEF Acquire, UseOf, OwnerOf
<1>3. UseOf(r)' = "running" /\ OwnerOf(r)' = ctx[r].tenant
  BY DEF Acquire, UseOf, OwnerOf, TypeInv, TypeOK
<1>4. Uses' = [Uses EXCEPT ![r] = "running"] /\ Tenancies' = Tenancies
  BY <1>1, <1>2, <1>3, OneUses DEF Tenancies
<1>5. ~ Lease!Had(k)
  BY DEF Acquire, Lease!Had
<1> QED
  BY <1>2, <1>4, <1>5 DEF Acquire, Lease!Start, Lease!Become, Uses, Tenancies

\* A transaction that ends is still bound to the tenant of its request.
LEMMA EndLeases ==
  ASSUME TypeInv, NEW r \in Requests, Execute(r) \/ Fault(r)
  PROVE  Lease!Serve(r) \/ Lease!Fail(r)
<1>1. stage[r] = "execute" /\ \E outcome : EndTransaction(r, outcome)
  BY DEF Execute, Fault
<1>2. /\ stage' = [stage EXCEPT ![r] = "return"]
      /\ \A q \in Requests \ {r} : got'[q] = got[q]
      /\ guc' = [guc EXCEPT ![conn[r]] = NoTenant]
      /\ UNCHANGED <<ctx, conn>>
  BY <1>1 DEF EndTransaction, TypeInv, TypeOK
<1>3. \A q \in Requests \ {r} : Unmoved(q)
  BY <1>2 DEF Unmoved, TypeInv, TypeOK
<1>4. UseOf(r) = "running" /\ OwnerOf(r) = ctx[r].tenant
  BY <1>1 DEF UseOf, OwnerOf
<1>5. UseOf(r)' \in {"served", "failed"} /\ OwnerOf(r)' = ctx[r].tenant
  BY <1>2 DEF UseOf, OwnerOf, TypeInv, TypeOK
<1>6. Uses' = [Uses EXCEPT ![r] = UseOf(r)'] /\ Tenancies' = Tenancies
  BY <1>3, <1>4, <1>5, OneUses DEF Tenancies
<1>7. guc[conn[r]] = Tenancies[r]
  BY <1>1, <1>4 DEF TypeInv, Wired, Tenancies
<1> QED
  BY <1>2, <1>4, <1>5, <1>6, <1>7
     DEF Lease!Serve, Lease!Fail, Lease!Become, Lease!Unbind, Uses, Tenancies

LEMMA ResumeLeases ==
  ASSUME TypeInv, NEW r \in Requests, Resume(r)
  PROVE  Lease!Return(r)
<1>1. /\ stage[r] = "return" /\ stage'[r] \in {"acquire", "done"}
      /\ conn' = [conn EXCEPT ![r] = NoConnection]
      /\ UNCHANGED <<guc, ctx, got>>
      /\ \A q \in Requests \ {r} : stage'[q] = stage[q]
  BY DEF Resume, Respond, TypeInv, TypeOK
<1>2. \A q \in Requests \ {r} : Unmoved(q)
  BY <1>1 DEF Unmoved
<1>3. UseOf(r) \in {"served", "failed"} /\ OwnerOf(r) = ctx[r].tenant
  BY <1>1 DEF UseOf, OwnerOf
<1>4. \/ UseOf(r)' = "idle" /\ OwnerOf(r)' = NoTenant
      \/ UseOf(r)' = "waiting" /\ OwnerOf(r)' = ctx[r].tenant
  BY <1>1 DEF UseOf, OwnerOf
<1>5. \/ /\ Uses' = [Uses EXCEPT ![r] = "idle"]
         /\ Tenancies' = [Tenancies EXCEPT ![r] = NoTenant]
      \/ /\ Uses' = [Uses EXCEPT ![r] = "waiting"]
         /\ Tenancies' = Tenancies
  BY <1>2, <1>3, <1>4, OneUses DEF Tenancies
<1> QED  BY <1>1, <1>3, <1>5 DEF Lease!Return, Lease!Become, Uses, Tenancies

LEMMA NextLeases ==
  ASSUME TypeInv, TypeInv', [Next]_vars
  PROVE  [Lease!Next]_(Lease!vars)
<1>1. ASSUME NEW r \in Requests, NEW c \in Calls, Admit(r, c)
      PROVE  [Lease!Next]_(Lease!vars)
  BY <1>1, AdmitLeases DEF Lease!Next
<1>2. ASSUME NEW r \in Requests, Body(r) PROVE [Lease!Next]_(Lease!vars)
  BY <1>2, BodyLeases DEF Lease!Next
<1>3. ASSUME NEW r \in Requests, Serve(r) PROVE Lease!Next
  BY <1>3, AcquireLeases, EndLeases, ResumeLeases DEF Serve, Lease!Next
<1>4. ASSUME (\E v \in Versions : Apply(v)) \/ UNCHANGED vars
      PROVE  UNCHANGED Lease!vars
  <2>1. UNCHANGED <<stage, got, ctx, conn, guc>>
    BY <1>4 DEF Apply, vars, request
  <2> QED  BY <2>1 DEF Lease!vars, UseOf, OwnerOf
<1> QED  BY <1>1, <1>2, <1>3, <1>4 DEF Next, Finished

\* Every statement of every request runs as Leases has it, as the tenant the request was
\* admitted for; no hypothesis on policies or row filters is needed.
THEOREM GatewayKeepsLeases == Spec => ImplementsLeases
<1>1. ASSUME TypeInv, TypeInv', [Next]_vars PROVE [Lease!Next]_(Lease!vars)
  BY <1>1, NextLeases
<1> QED  BY <1>1, InitLeases, AlwaysTyped, PTL DEF Spec, ImplementsLeases, Lease!Spec
=============================================================================
