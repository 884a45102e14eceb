--------------------------- MODULE Handlers_proofs ---------------------------
(***************************************************************************)
(* What a statement can return and change, for every statement, table and  *)
(* tenant: outcomes are well typed, under the policies they touch rows of  *)
(* the connection's tenant only, and what is marked deleted stays marked.  *)
(*                                                                         *)
(* What a handler plans, for every configuration, caller and call: typed   *)
(* statements on the resource it was asked about; where every resource     *)
(* filters its rows, confined to the caller's tenant; and where every one  *)
(* deletes by marking, careful of what is deleted.                         *)
(***************************************************************************)
EXTENDS Handlers, FiniteSetTheorems, TLAPS

Errors == {"", "unique", "timeout", "other"}
IsOutcome(o) ==
  /\ o.tbl \in Tables
  /\ o.rows \in SUBSET [id : Ids, row : Rows]
  /\ o.total \in Nat
  /\ o.err \in Errors

-----------------------------------------------------------------------------
(* Helpers *)

\* Assigning typed values to a row gives a row.
LEMMA AssignRow ==
  ASSUME NEW row \in Rows, NEW values, IsValues(values)
  PROVE  Assign(row, values) \in Rows
BY DEF Assign, Rows, IsValues, ColumnType

LEMMA AssignTenant ==
  ASSUME NEW row \in Rows, NEW values
  PROVE  Assign(row, values).tenant_id =
           IF "tenant_id" \in DOMAIN values THEN values.tenant_id ELSE row.tenant_id
BY DEF Assign, Rows

\* An item that names the key columns makes a row.
LEMMA NewRowTyped ==
  ASSUME NEW item, IsValues(item), UniqueKey \subseteq DOMAIN item
  PROVE  NewRow(item) \in Rows
<1>1. item.tenant_id \in Tenants /\ item.email \in Texts
  BY DEF IsValues, ColumnType, UniqueKey
<1>2. "status" \in DOMAIN item => item.status \in Statuses
  BY DEF IsValues, ColumnType
<1> QED  BY <1>1, <1>2, RowStoreAssumption DEF NewRow, Rows

\* A list of rows of a table is well typed.
LEMMA ListedTyped ==
  ASSUME NEW t, NEW is \in SUBSET Ids, \A i \in is : t[i] \in Rows
  PROVE  Listed(is, t) \in SUBSET [id : Ids, row : Rows]
BY DEF Listed

\* Inserting fresh items keeps a table a table.
LEMMA WithNewTyped ==
  ASSUME NEW q, NEW t \in Tables, NEW ks \in SUBSET (DOMAIN q.items),
         NEW fresh \in FreshIds(ks, t),
         \A k \in DOMAIN q.items : IsValues(q.items[k]) /\ UniqueKey \subseteq DOMAIN q.items[k]
  PROVE  /\ WithNew(q, t, fresh) \in Tables
         /\ Range(fresh) \subseteq Ids
         /\ \A i \in Range(fresh) : WithNew(q, t, fresh)[i] \in Rows
<1>1. fresh \in [ks -> {i \in Ids : t[i] = Unborn}]
  BY DEF FreshIds, Injection
<1>2. \A k \in ks : NewRow(q.items[k]) \in Rows
  BY NewRowTyped
<1>3. DOMAIN fresh = ks
  BY <1>1
<1>4. \A i \in Ids : (\E k \in DOMAIN fresh : fresh[k] = i) =>
        (CHOOSE k \in DOMAIN fresh : fresh[k] = i) \in ks
  BY <1>3
<1>5. Range(fresh) \subseteq Ids
  BY <1>1 DEF Range
<1>6. \A i \in Range(fresh) : WithNew(q, t, fresh)[i] \in Rows
  BY <1>2, <1>4, <1>5 DEF WithNew, Range
<1>7. \A i \in Ids : WithNew(q, t, fresh)[i] \in Rows \cup {Unborn, Erased}
  BY <1>2, <1>4 DEF WithNew, Tables
<1> QED  BY <1>5, <1>6, <1>7 DEF WithNew, Tables

-----------------------------------------------------------------------------
(* Outcomes are well typed *)

LEMMA OutcomesTyped ==
  ASSUME NEW q, IsStatement(q), NEW guc, NEW t \in Tables,
         NEW o \in Outcomes(q, guc, t)
  PROVE  IsOutcome(o)
<1> DEFINE m == Matching(q, guc, t)
<1>1. m \subseteq Ids /\ \A i \in m : t[i] \in Rows
  BY DEF Matching, IdsOf
<1>2. ASSUME NEW err \in Errors PROVE IsOutcome(Failure(t, err))
  BY <1>2 DEF IsOutcome, Failure
<1>3. ASSUME NEW t2 \in Tables, NEW is \in SUBSET Ids, \A i \in is : t2[i] \in Rows,
             NEW total \in Nat
      PROVE  IsOutcome(Success(t2, Listed(is, t2), total))
  BY <1>3, ListedTyped DEF IsOutcome, Success, Errors
<1>4. CASE q.kind = "select"
  <2>1. PICK page \in SUBSET m : o = Success(t, Listed(page, t), 0)
    BY <1>4 DEF Outcomes, Selected
  <2> QED  BY <1>1, <1>3, <2>1
<1>5. CASE q.kind = "count"
  <2>1. IsFiniteSet(m)
    BY <1>1, FS_Subset, RowStoreAssumption
  <2>2. Cardinality(m) \in Nat
    BY <2>1, FS_CardinalityType
  <2>3. o = Success(t, {}, Cardinality(m))
    BY <1>5 DEF Outcomes, Counted
  <2> QED  BY <2>2, <2>3 DEF IsOutcome, Success, Errors
<1>6. CASE q.kind = "update"
  <2> DEFINE t2 == [i \in Ids |-> IF i \in m THEN Assign(t[i], q.set) ELSE t[i]]
  <2>1. \A i \in m : Assign(t[i], q.set) \in Rows
    BY <1>1, AssignRow DEF IsStatement
  <2>2. t2 \in Tables /\ \A i \in m : t2[i] \in Rows
    BY <1>1, <2>1 DEF Tables
  <2>3. o \in Updated(q, guc, t)
    BY <1>6 DEF Outcomes
  <2>4. o \in {Failure(t, "other"), Failure(t, "unique"), Success(t2, Listed(m, t2), 0)}
    BY <2>3 DEF Updated
  <2> QED  BY <1>1, <1>2, <1>3, <2>2, <2>4 DEF Errors
<1>7. CASE q.kind = "delete"
  <2> DEFINE t2 == [i \in Ids |-> IF i \in m THEN Erased ELSE t[i]]
  <2>1. t2 \in Tables
    BY DEF Tables
  <2>2. o = Success(t2, Listed(m, t), 0)
    BY <1>7 DEF Outcomes, Deleted
  <2> QED  BY <1>1, <2>1, <2>2, ListedTyped DEF IsOutcome, Success, Errors
<1>8. CASE q.kind = "insert"
  <2>1. o \in Inserted(q, guc, t)
    BY <1>8 DEF Outcomes
  <2>2. CASE o \in {Failure(t, "other"), Failure(t, "unique")}
    BY <1>2, <2>2 DEF Errors
  <2>3. CASE /\ Insertable(q, guc)
             /\ \E fresh \in FreshIds(DOMAIN q.items, t) : o = InsertWith(q, t, fresh)
    <3>1. PICK fresh \in FreshIds(DOMAIN q.items, t) : o = InsertWith(q, t, fresh)
      BY <2>3
    <3>2. \A k \in DOMAIN q.items : IsValues(q.items[k]) /\ UniqueKey \subseteq DOMAIN q.items[k]
      BY <2>3 DEF IsStatement, Insertable
    <3>3. /\ WithNew(q, t, fresh) \in Tables
          /\ Range(fresh) \subseteq Ids
          /\ \A i \in Range(fresh) : WithNew(q, t, fresh)[i] \in Rows
      BY <3>2, WithNewTyped
    <3> QED  BY <1>3, <3>1, <3>3 DEF InsertWith
  <2> QED  BY <2>1, <2>2, <2>3 DEF Inserted
<1>9. CASE q.kind = "upsert"
  <2> DEFINE new == {k \in {k \in DOMAIN q.items : FirstOfKey(q, k)} :
                       Conflicting(q.items[k], t) = {}}
             met == IF q.updates = {} THEN {}
                    ELSE UNION {Conflicting(q.items[k], t) : k \in DOMAIN q.items}
             item(i) == CHOOSE k \in DOMAIN q.items : i \in Conflicting(q.items[k], t)
  <2>1. o \in Upserted(q, guc, t)
    BY <1>9 DEF Outcomes
  <2>2. CASE o = Failure(t, "other")
    BY <1>2, <2>2 DEF Errors
  <2>3. CASE /\ Insertable(q, guc)
             /\ \E fresh \in FreshIds(new, t) : o = UpsertWith(q, t, fresh)
    <3>1. PICK fresh \in FreshIds(new, t) : o = UpsertWith(q, t, fresh)
      BY <2>3
    <3> DEFINE t2 == WithNew(q, t, fresh)
               t3 == [i \in Ids |-> IF i \in met
                                      THEN Assign(t[i], Restrict(q.items[item(i)], q.updates))
                                      ELSE t2[i]]
    <3>2. \A k \in DOMAIN q.items : /\ IsValues(q.items[k]) /\ UniqueKey \subseteq DOMAIN q.items[k]
                                    /\ q.updates \subseteq DOMAIN q.items[k]
      BY <2>3 DEF IsStatement, Insertable
    <3>3. /\ t2 \in Tables
          /\ Range(fresh) \subseteq Ids
          /\ \A i \in Range(fresh) : t2[i] \in Rows
      BY <3>2, WithNewTyped
    <3>4. \A i \in met : i \in Ids /\ t[i] \in Rows /\ item(i) \in DOMAIN q.items
      BY DEF Conflicting, IdsOf
    <3>5. ASSUME NEW i \in met
          PROVE  Assign(t[i], Restrict(q.items[item(i)], q.updates)) \in Rows
      <4>1. IsValues(Restrict(q.items[item(i)], q.updates))
        BY <3>2, <3>4 DEF Restrict, IsValues
      <4> QED  BY <3>4, <4>1, AssignRow
    <3>6. t3 \in Tables /\ \A i \in met \cup Range(fresh) : t3[i] \in Rows
      BY <3>3, <3>4, <3>5 DEF Tables
    <3>7. o = Success(t3, Listed(met \cup Range(fresh), t3), 0)
      BY <3>1 DEF UpsertWith
    <3> HIDE DEF t3, met
    <3>8. met \cup Range(fresh) \in SUBSET Ids
      BY <3>3, <3>4
    <3> QED  BY <1>3, <3>6, <3>7, <3>8
  <2> QED  BY <2>1, <2>2, <2>3 DEF Upserted
<1> QED  BY <1>4, <1>5, <1>6, <1>7, <1>8, <1>9 DEF IsStatement

-----------------------------------------------------------------------------
(* A statement confined to a tenant *)

\* The builder's own layer: a row filter on what is there, a stamp on what is new, and
\* nobody assigns the tenant.
Scoped(q, tenant) ==
  /\ q.tenant = tenant
  /\ "tenant_id" \notin DOMAIN q.set
  /\ \A k \in DOMAIN q.items : "tenant_id" \in DOMAIN q.items[k] => q.items[k].tenant_id = tenant

\* Either layer: the policies with the GUC bound to the tenant, or the builder's.
Confined(q, guc, tenant) == \/ Rls /\ guc = tenant
                            \/ tenant # NoTenant /\ Scoped(q, tenant)

OfTenant(o, t, tenant) ==
  /\ \A x \in o.rows : x.row.tenant_id = tenant
  /\ \A i \in Ids : o.tbl[i] # t[i] =>
       \A row \in {t[i], o.tbl[i]} \cap Rows : row.tenant_id = tenant

LEMMA ConfinedMatching ==
  ASSUME NEW q, NEW guc, NEW tenant, Confined(q, guc, tenant), NEW t,
         NEW i \in Matching(q, guc, t)
  PROVE  t[i].tenant_id = tenant
BY DEF Confined, Scoped, Matching, PolicyPasses

LEMMA ConfinedItems ==
  ASSUME NEW q, NEW guc, NEW tenant, Confined(q, guc, tenant), Insertable(q, guc),
         NEW k \in DOMAIN q.items
  PROVE  q.items[k].tenant_id = tenant
BY DEF Confined, Scoped, Insertable, PolicyPasses, UniqueKey

\* A changed id is a fresh one, and holds a row of an item.
LEMMA ConfinedNew ==
  ASSUME NEW q, IsStatement(q), NEW guc, NEW tenant, Confined(q, guc, tenant),
         Insertable(q, guc), NEW t, NEW ks \in SUBSET (DOMAIN q.items),
         NEW fresh \in FreshIds(ks, t), NEW i \in Ids
  PROVE  /\ i \in Range(fresh) => /\ WithNew(q, t, fresh)[i].tenant_id = tenant
                                 /\ t[i] = Unborn
         /\ i \notin Range(fresh) => WithNew(q, t, fresh)[i] = t[i]
<1>1. fresh \in [ks -> {j \in Ids : t[j] = Unborn}]
  BY DEF FreshIds, Injection
<1>2. CASE i \in Range(fresh)
  <2> DEFINE k == CHOOSE k \in DOMAIN fresh : fresh[k] = i
  <2>1. \E n \in DOMAIN fresh : fresh[n] = i
    BY <1>2 DEF Range
  <2>2. k \in DOMAIN q.items /\ fresh[k] = i
    BY <1>1, <2>1
  <2>3. t[i] = Unborn
    BY <1>1, <2>1
  <2>4. WithNew(q, t, fresh)[i] = NewRow(q.items[k])
    BY <2>1 DEF WithNew
  <2>5. q.items[k].tenant_id = tenant
    BY <2>2, ConfinedItems
  <2> QED  BY <1>2, <2>3, <2>4, <2>5 DEF NewRow
<1>3. CASE i \notin Range(fresh)
  BY <1>3 DEF Range, WithNew
<1> QED  BY <1>2, <1>3

\* Whatever a confined statement returns, and whatever it changes, is its tenant's.
THEOREM OutcomesOfTenant ==
  ASSUME NEW q, IsStatement(q), NEW guc, NEW tenant, Confined(q, guc, tenant),
         NEW t \in Tables, NEW o \in Outcomes(q, guc, t)
  PROVE  OfTenant(o, t, tenant)
<1> DEFINE m == Matching(q, guc, t)
<1>1. \A i \in m : i \in Ids /\ t[i] \in Rows /\ t[i].tenant_id = tenant
  BY ConfinedMatching DEF Matching, IdsOf
<1>2. ASSUME NEW err PROVE OfTenant(Failure(t, err), t, tenant)
  BY DEF OfTenant, Failure
<1>3. ASSUME NEW is \in SUBSET Ids, NEW t1, NEW t2, NEW total,
             \A i \in is : t1[i].tenant_id = tenant,
             \A i \in Ids : t2[i] # t[i] =>
               \A row \in {t[i], t2[i]} \cap Rows : row.tenant_id = tenant
      PROVE  OfTenant(Success(t2, Listed(is, t1), total), t, tenant)
  <2>1. ASSUME NEW x \in Listed(is, t1) PROVE x.row.tenant_id = tenant
    <3>1. PICK i \in is : x = [id |-> i, row |-> t1[i]]
      BY DEF Listed
    <3> QED  BY <1>3, <3>1
  <2> QED  BY <1>3, <2>1 DEF OfTenant, Success
<1>4. CASE q.kind = "select"
  <2>1. PICK page \in SUBSET m : o = Success(t, Listed(page, t), 0)
    BY <1>4 DEF Outcomes, Selected
  <2>2. page \in SUBSET Ids /\ \A i \in page : t[i].tenant_id = tenant
    BY <1>1
  <2> QED  BY <1>3, <2>1, <2>2
<1>5. CASE q.kind = "count"
  <2>1. o = Success(t, {}, Cardinality(m))
    BY <1>5 DEF Outcomes, Counted
  <2>2. o.rows = {} /\ o.tbl = t
    BY <2>1 DEF Success
  <2> QED  BY <2>2 DEF OfTenant
<1>6. CASE q.kind = "update"
  <2> DEFINE t2 == [i \in Ids |-> IF i \in m THEN Assign(t[i], q.set) ELSE t[i]]
  <2>1. o \in Updated(q, guc, t)
    BY <1>6 DEF Outcomes
  <2>2. CASE o \in {Failure(t, "other"), Failure(t, "unique")}
    BY <1>2, <2>2
  <2>3. CASE /\ \A i \in m : PolicyPasses(guc, t2[i].tenant_id)
             /\ o = Success(t2, Listed(m, t2), 0)
    <3>1. ASSUME NEW i \in m PROVE t2[i].tenant_id = tenant
      <4>1. t2[i] = Assign(t[i], q.set)
        BY <1>1
      <4>2. CASE Rls /\ guc = tenant
        BY <2>3, <4>2 DEF PolicyPasses
      <4>3. CASE Scoped(q, tenant)
        BY <1>1, <4>1, <4>3, AssignTenant DEF Scoped
      <4> QED  BY <4>2, <4>3 DEF Confined
    <3>2. \A i \in Ids : t2[i] # t[i] => i \in m
      OBVIOUS
    <3>3. m \in SUBSET Ids
      BY <1>1
    <3> HIDE DEF t2
    <3> QED  BY <1>1, <1>3, <2>3, <3>1, <3>2, <3>3
  <2> QED  BY <2>1, <2>2, <2>3 DEF Updated
<1>7. CASE q.kind = "delete"
  <2> DEFINE t2 == [i \in Ids |-> IF i \in m THEN Erased ELSE t[i]]
  <2>1. o = Success(t2, Listed(m, t), 0)
    BY <1>7 DEF Outcomes, Deleted
  <2>2. \A i \in Ids : t2[i] # t[i] => t2[i] \notin Rows /\ t[i].tenant_id = tenant
    BY <1>1, NoSuchRow
  <2>3. m \in SUBSET Ids
    BY <1>1
  <2> HIDE DEF t2
  <2> QED  BY <1>1, <1>3, <2>1, <2>2, <2>3
<1>8. CASE q.kind = "insert"
  <2>1. o \in Inserted(q, guc, t)
    BY <1>8 DEF Outcomes
  <2>2. CASE o \in {Failure(t, "other"), Failure(t, "unique")}
    BY <1>2, <2>2
  <2>3. CASE /\ Insertable(q, guc)
             /\ \E fresh \in FreshIds(DOMAIN q.items, t) : o = InsertWith(q, t, fresh)
    <3>1. PICK fresh \in FreshIds(DOMAIN q.items, t) : o = InsertWith(q, t, fresh)
      BY <2>3
    <3>2. Range(fresh) \in SUBSET Ids
      BY DEF FreshIds, Injection, Range
    <3>3. \A i \in Ids :
            /\ i \in Range(fresh) => /\ WithNew(q, t, fresh)[i].tenant_id = tenant
                                    /\ t[i] = Unborn
            /\ i \notin Range(fresh) => WithNew(q, t, fresh)[i] = t[i]
      BY <2>3, ConfinedNew
    <3> QED  BY <1>3, <3>1, <3>2, <3>3, NoSuchRow DEF InsertWith
  <2> QED  BY <2>1, <2>2, <2>3 DEF Inserted
<1>9. CASE q.kind = "upsert"
  <2> DEFINE new == {k \in {k \in DOMAIN q.items : FirstOfKey(q, k)} :
                       Conflicting(q.items[k], t) = {}}
             met == IF q.updates = {} THEN {}
                    ELSE UNION {Conflicting(q.items[k], t) : k \in DOMAIN q.items}
             item(i) == CHOOSE k \in DOMAIN q.items : i \in Conflicting(q.items[k], t)
  <2>1. o \in Upserted(q, guc, t)
    BY <1>9 DEF Outcomes
  <2>2. CASE o = Failure(t, "other")
    BY <1>2, <2>2
  <2>3. CASE /\ Insertable(q, guc)
             /\ \E fresh \in FreshIds(new, t) : o = UpsertWith(q, t, fresh)
    <3>1. PICK fresh \in FreshIds(new, t) : o = UpsertWith(q, t, fresh)
      BY <2>3
    <3> DEFINE t2 == WithNew(q, t, fresh)
               t3 == [i \in Ids |-> IF i \in met
                                      THEN Assign(t[i], Restrict(q.items[item(i)], q.updates))
                                      ELSE t2[i]]
    <3>2. \A k \in DOMAIN q.items : q.items[k].tenant_id = tenant
      BY <2>3, ConfinedItems
    <3>3. \A i \in Ids :
            /\ i \in Range(fresh) => t2[i].tenant_id = tenant /\ t[i] = Unborn
            /\ i \notin Range(fresh) => t2[i] = t[i]
      BY <2>3, ConfinedNew
    <3>4. \A i \in met : /\ i \in Ids /\ t[i] \in Rows /\ item(i) \in DOMAIN q.items
                         /\ i \in Conflicting(q.items[item(i)], t)
      BY DEF Conflicting, IdsOf
    <3>5. \A i \in met : t[i].tenant_id = tenant
      BY <3>2, <3>4 DEF Conflicting, SameKey
    <3>6. ASSUME NEW i \in met
          PROVE  Assign(t[i], Restrict(q.items[item(i)], q.updates)).tenant_id = tenant
      <4> DEFINE values == Restrict(q.items[item(i)], q.updates)
      <4>1. "tenant_id" \in DOMAIN values => values.tenant_id = tenant
        <5>1. q.items[item(i)].tenant_id = tenant
          BY <3>2, <3>4
        <5> HIDE DEF item
        <5> QED  BY <5>1 DEF Restrict
      <4> HIDE DEF values
      <4>2. Assign(t[i], values).tenant_id = tenant
        BY <3>4, <3>5, <4>1, AssignTenant
      <4> QED  BY <4>2 DEF values
    <3>7. \A i \in Ids : t3[i] # t[i] => i \in met \/ i \in Range(fresh)
      BY <3>3
    <3>8. \A i \in met : t3[i].tenant_id = tenant
      BY <3>4, <3>6
    <3>9. \A i \in Range(fresh) : i \notin met /\ t3[i].tenant_id = tenant /\ t[i] \notin Rows
      <4>1. Range(fresh) \subseteq Ids
        BY DEF FreshIds, Injection, Range
      <4> QED  BY <3>3, <3>4, <4>1, NoSuchRow
    <3>10. met \cup Range(fresh) \in SUBSET Ids
      BY <3>4 DEF FreshIds, Injection, Range
    <3>11. o = Success(t3, Listed(met \cup Range(fresh), t3), 0)
      BY <3>1 DEF UpsertWith
    <3> HIDE DEF t3, met
    <3> QED  BY <1>3, <3>5, <3>7, <3>8, <3>9, <3>10, <3>11
  <2> QED  BY <2>1, <2>2, <2>3 DEF Upserted
<1> QED  BY <1>4, <1>5, <1>6, <1>7, <1>8, <1>9 DEF IsStatement

-----------------------------------------------------------------------------
(* Deleted rows *)

Marked(content) == content \in Rows /\ content.deleted_at
Dead(content) == content = Erased \/ Marked(content)

\* What is deleted stays so, erased or marked as it was.
StaysDead(t, t2) ==
  \A i \in Ids : /\ t[i] = Erased => t2[i] = Erased
                 /\ Marked(t[i]) => Marked(t2[i])

\* A statement that deletes by marking, if it deletes at all, and never unmarks.
Careful(q) ==
  /\ q.kind # "delete"
  /\ q.kind = "update" =>
       q.live /\ ("deleted_at" \in DOMAIN q.set => q.set["deleted_at"] = TRUE)
  /\ q.kind = "upsert" => \A k \in DOMAIN q.items : "deleted_at" \notin DOMAIN q.items[k]

Marks(q) == q.kind = "update" /\ "deleted_at" \in DOMAIN q.set

\* A statement that returns no row that was deleted before it.
PassesOver(q) == q.kind = "upsert" \/ (q.kind = "select" /\ ~q.live)

LEMMA AssignMark ==
  ASSUME NEW row \in Rows, NEW values, IsValues(values)
  PROVE  Assign(row, values).deleted_at =
           IF "deleted_at" \in DOMAIN values THEN values["deleted_at"] ELSE row.deleted_at
BY DEF Assign, Rows

\* Fresh ids were never used.
LEMMA FreshUnborn ==
  ASSUME NEW q, NEW t \in Tables, NEW ks, NEW fresh \in FreshIds(ks, t)
  PROVE  /\ Range(fresh) \in SUBSET Ids
         /\ \A i \in Range(fresh) : t[i] = Unborn
         /\ \A i \in Ids \ Range(fresh) : WithNew(q, t, fresh)[i] = t[i]
<1>1. fresh \in [ks -> {i \in Ids : t[i] = Unborn}]
  BY DEF FreshIds, Injection
<1>2. \A i \in Range(fresh) : i \in Ids /\ t[i] = Unborn
  BY <1>1 DEF Range
<1>3. \A i \in Ids \ Range(fresh) : WithNew(q, t, fresh)[i] = t[i]
  BY DEF WithNew, Range
<1> QED  BY <1>2, <1>3

\* What a statement on deleted rows may do, given what it returned.
Buries(q, o, t) ==
  /\ StaysDead(t, o.tbl)
  /\ ~PassesOver(q) => \A x \in o.rows : ~Dead(t[x.id])
  /\ Marks(q) => \A x \in o.rows : Dead(o.tbl[x.id])

\* A careful statement leaves what is deleted deleted and, but for an upsert or a read that
\* asks for them, does not return it; one that marks leaves every row it returns marked.
THEOREM OutcomesBury ==
  ASSUME NEW q, IsStatement(q), Careful(q), NEW guc, NEW t \in Tables,
         NEW o \in Outcomes(q, guc, t)
  PROVE  Buries(q, o, t)
<1> DEFINE m == Matching(q, guc, t)
<1>1. m \in SUBSET Ids /\ \A i \in m : t[i] \in Rows /\ (q.live => ~Dead(t[i]))
  BY NoSuchRow DEF Matching, IdsOf, Dead, Marked
<1>2. \A err : Buries(q, Failure(t, err), t)
  BY DEF Buries, Failure, StaysDead
<1>3. ASSUME NEW is \in SUBSET Ids, NEW t1, NEW t2, NEW total, StaysDead(t, t2),
             ~PassesOver(q) => \A i \in is : ~Dead(t[i]),
             Marks(q) => \A i \in is : Dead(t2[i])
      PROVE  Buries(q, Success(t2, Listed(is, t1), total), t)
  <2>1. \A x \in Listed(is, t1) : x.id \in is
    BY DEF Listed
  <2> QED  BY <1>3, <2>1 DEF Buries, Success
<1>4. CASE q.kind = "select"
  <2>1. PICK page \in SUBSET m : o = Success(t, Listed(page, t), 0)
    BY <1>4 DEF Outcomes, Selected
  <2>2. StaysDead(t, t) /\ ~Marks(q)
    BY <1>4 DEF StaysDead, Marks
  <2>3. page \in SUBSET Ids /\ (~PassesOver(q) => \A i \in page : ~Dead(t[i]))
    BY <1>1, <1>4 DEF PassesOver
  <2> HIDE DEF m
  <2> QED  BY <1>3, <2>1, <2>2, <2>3
<1>5. CASE q.kind = "count"
  <2>1. o = Success(t, {}, Cardinality(m))
    BY <1>5 DEF Outcomes, Counted
  <2>2. o.rows = {} /\ o.tbl = t
    BY <2>1 DEF Success
  <2> QED  BY <2>2 DEF Buries, StaysDead
<1>6. CASE q.kind = "update"
  <2> DEFINE t2 == [i \in Ids |-> IF i \in m THEN Assign(t[i], q.set) ELSE t[i]]
  <2>1. o \in {Failure(t, "other"), Failure(t, "unique"), Success(t2, Listed(m, t2), 0)}
    BY <1>6 DEF Outcomes, Updated
  <2>2. \A i \in m : ~Dead(t[i])
    BY <1>1, <1>6 DEF Careful
  <2>3. StaysDead(t, t2)
    BY <2>2 DEF StaysDead, Dead
  <2>4. ASSUME Marks(q), NEW i \in m PROVE Dead(t2[i])
    <3>1. IsValues(q.set) /\ "deleted_at" \in DOMAIN q.set /\ q.set["deleted_at"] = TRUE
      BY <1>6, <2>4 DEF IsStatement, Careful, Marks
    <3>2. t2[i] = Assign(t[i], q.set) /\ t[i] \in Rows
      BY <1>1
    <3>3. Assign(t[i], q.set) \in Rows
      BY <3>1, <3>2, AssignRow
    <3>4. Assign(t[i], q.set).deleted_at = TRUE
      BY <3>1, <3>2, AssignMark
    <3> QED  BY <3>2, <3>3, <3>4 DEF Dead, Marked
  <2> HIDE DEF t2, m
  <2> QED  BY <1>1, <1>2, <1>3, <2>1, <2>2, <2>3, <2>4
<1>7. CASE q.kind = "insert"
  <2>1. o \in {Failure(t, "other"), Failure(t, "unique")}
        \/ \E fresh \in FreshIds(DOMAIN q.items, t) : o = InsertWith(q, t, fresh)
    BY <1>7 DEF Outcomes, Inserted
  <2>2. ASSUME NEW fresh \in FreshIds(DOMAIN q.items, t), o = InsertWith(q, t, fresh)
        PROVE  Buries(q, o, t)
    <3> DEFINE t2 == WithNew(q, t, fresh)
    <3>1. /\ Range(fresh) \in SUBSET Ids
          /\ \A i \in Range(fresh) : t[i] = Unborn
          /\ \A i \in Ids \ Range(fresh) : t2[i] = t[i]
      BY FreshUnborn
    <3>2. o = Success(t2, Listed(Range(fresh), t2), 0)
      BY <2>2 DEF InsertWith
    <3>3. \A i \in Range(fresh) : ~Dead(t[i])
      BY <3>1, NoSuchRow DEF Dead, Marked
    <3>4. ~Marks(q)
      BY <1>7 DEF Marks
    <3> HIDE DEF t2
    <3>5. StaysDead(t, t2)
      BY <3>1, <3>3 DEF StaysDead, Dead
    <3> QED  BY <1>3, <3>1, <3>2, <3>3, <3>4, <3>5
  <2> QED  BY <1>2, <2>1, <2>2
<1>8. CASE q.kind = "upsert"
  <2> DEFINE new == {k \in {k \in DOMAIN q.items : FirstOfKey(q, k)} :
                       Conflicting(q.items[k], t) = {}}
             met == IF q.updates = {} THEN {}
                    ELSE UNION {Conflicting(q.items[k], t) : k \in DOMAIN q.items}
             item(i) == CHOOSE k \in DOMAIN q.items : i \in Conflicting(q.items[k], t)
  <2>1. \/ o = Failure(t, "other")
        \/ \E fresh \in FreshIds(new, t) : o = UpsertWith(q, t, fresh)
    BY <1>8 DEF Outcomes, Upserted
  <2>2. ASSUME NEW fresh \in FreshIds(new, t), o = UpsertWith(q, t, fresh)
        PROVE  Buries(q, o, t)
    <3> DEFINE t2 == WithNew(q, t, fresh)
               values(i) == Restrict(q.items[item(i)], q.updates)
               t3 == [i \in Ids |-> IF i \in met THEN Assign(t[i], values(i)) ELSE t2[i]]
    <3>1. /\ Range(fresh) \in SUBSET Ids
          /\ \A i \in Range(fresh) : t[i] = Unborn
          /\ \A i \in Ids \ Range(fresh) : t2[i] = t[i]
      BY FreshUnborn
    <3>2. o = Success(t3, Listed(met \cup Range(fresh), t3), 0)
      BY <2>2 DEF UpsertWith
    <3>3. \A i \in met : i \in Ids /\ t[i] \in Rows /\ item(i) \in DOMAIN q.items
      BY DEF Conflicting, IdsOf
    <3>4. ASSUME NEW i \in met, Marked(t[i]) PROVE Marked(Assign(t[i], values(i)))
      <4>1. /\ IsValues(q.items[item(i)]) /\ q.updates \subseteq DOMAIN q.items[item(i)]
            /\ "deleted_at" \notin DOMAIN q.items[item(i)]
        BY <1>8, <3>3 DEF IsStatement, Careful
      <4>2. IsValues(values(i)) /\ "deleted_at" \notin DOMAIN values(i)
        <5> HIDE DEF item
        <5> QED  BY <4>1 DEF Restrict, IsValues
      <4> HIDE DEF values
      <4>3. Assign(t[i], values(i)) \in Rows
        BY <3>3, <4>2, AssignRow
      <4>4. Assign(t[i], values(i)).deleted_at = t[i].deleted_at
        BY <3>3, <4>2, AssignMark
      <4> QED  BY <3>4, <4>3, <4>4 DEF Marked
    <3>5. ASSUME NEW i \in Ids
          PROVE  /\ t[i] = Erased => t3[i] = Erased
                 /\ Marked(t[i]) => Marked(t3[i])
      <4>1. CASE i \in met
        <5>1. t3[i] = Assign(t[i], values(i))
          BY <4>1
        <5>2. t[i] # Erased
          BY <3>3, <4>1, NoSuchRow
        <5> HIDE DEF values, met, t3
        <5> QED  BY <3>4, <4>1, <5>1, <5>2
      <4>2. CASE i \notin met
        <5>1. t3[i] = t2[i]
          BY <4>2
        <5> HIDE DEF t2, t3
        <5> QED  BY <3>1, <5>1, NoSuchRow DEF Marked
      <4> QED  BY <4>1, <4>2
    <3>6. met \cup Range(fresh) \in SUBSET Ids
      <4> HIDE DEF met
      <4> QED  BY <3>1, <3>3
    <3>7. PassesOver(q) /\ ~Marks(q)
      BY <1>8 DEF PassesOver, Marks
    <3> HIDE DEF t3, met
    <3>8. StaysDead(t, t3)
      BY <3>5 DEF StaysDead
    <3> QED  BY <1>3, <3>2, <3>6, <3>7, <3>8
  <2> QED  BY <1>2, <2>1, <2>2
<1>9. q.kind # "delete"
  BY DEF Careful
<1> QED  BY <1>4, <1>5, <1>6, <1>7, <1>8, <1>9 DEF IsStatement

-----------------------------------------------------------------------------
(* Plans *)

\* Every resource filters its rows by tenant_id, which nobody may write.
RowFiltered(cfg) ==
  \A res \in DOMAIN cfg.resources :
    cfg.resources[res].rowFilter /\ "tenant_id" \notin cfg.resources[res].write

-----------------------------------------------------------------------------
(* Sequences and payloads *)

LEMMA MappedSequence ==
  ASSUME NEW s, IsSequence(s), NEW f, DOMAIN f = DOMAIN s, f = [k \in DOMAIN f |-> f[k]]
  PROVE  IsSequence(f)
<1>1. DOMAIN s = 1..Len(s) /\ Len(s) \in Nat
  BY DEF IsSequence
<1>2. f \in [1..Len(s) -> Range(f)]
  BY <1>1 DEF Range
<1> QED  BY <1>1, <1>2 DEF IsSequence

LEMMA SmallSequences ==
  /\ IsSequence(<<>>)
  /\ \A a : IsSequence(<<a>>)
  /\ \A a, b : IsSequence(<<a, b>>)
BY DEF IsSequence, Range

\* Stamping and cutting a payload down keeps its values typed; what the row filter
\* stamps is the caller's tenant.
LEMMA PreparedTyped ==
  ASSUME NEW cfg, NEW ctx, ctx.tenant \in Tenants, NEW c, IsCall(c), NEW cols,
         c.res \in DOMAIN cfg.resources
  PROVE  LET items == Prepared(cfg, ctx, c, cols)
         IN  /\ IsSequence(items)
             /\ DOMAIN items = DOMAIN c.items
             /\ \A k \in DOMAIN items : IsValues(items[k])
             /\ cfg.resources[c.res].rowFilter =>
                  \A k \in DOMAIN items :
                    "tenant_id" \in DOMAIN items[k] => items[k].tenant_id = ctx.tenant
<1> DEFINE items == Prepared(cfg, ctx, c, cols)
<1>1. DOMAIN items = DOMAIN c.items /\ items = [k \in DOMAIN items |-> items[k]]
  BY DEF Prepared
<1>2. IsSequence(items)
  BY <1>1, MappedSequence DEF IsCall
<1>3. ASSUME NEW k \in DOMAIN c.items
      PROVE  /\ IsValues(items[k])
             /\ cfg.resources[c.res].rowFilter /\ "tenant_id" \in DOMAIN items[k] =>
                  items[k].tenant_id = ctx.tenant
  <2> DEFINE item == Stamp(cfg, ctx, c.res, c.items[k])
  <2>1. IsValues(item)
    BY DEF Stamp, IsValues, ColumnType, IsCall
  <2>2. cfg.resources[c.res].rowFilter => item.tenant_id = ctx.tenant
    BY DEF Stamp
  <2>3. items[k] = Restrict(item, DOMAIN item \cap cols)
    BY DEF Prepared
  <2> HIDE DEF item, items
  <2> QED  BY <2>1, <2>2, <2>3 DEF Restrict, IsValues
<1> HIDE DEF items
<1> QED  BY <1>1, <1>2, <1>3 DEF items

-----------------------------------------------------------------------------
(* Statements *)

Kinds == {"select", "count", "update", "delete", "insert", "upsert"}

\* A typed statement on the call's resource, confined to the tenant by its row filter.
IsBuilt(q, cfg, ctx, c) ==
  /\ q.res = c.res
  /\ IsStatement(q)
  /\ RowFiltered(cfg) => Scoped(q, ctx.tenant)

\* What every lemma below assumes of a call that has been authorised.
Authorised(cfg, ctx, c) ==
  /\ IsConfig(cfg) /\ IsCall(c)
  /\ ctx.tenant \in Tenants
  /\ c.res \in DOMAIN cfg.resources

LEMMA IdsCounted == Cardinality(Ids) \in Nat
BY RowStoreAssumption, FS_CardinalityType

LEMMA NoValues == IsValues(<<>>) /\ DOMAIN <<>> = {}
BY DEF IsValues

LEMMA StatementBuilt ==
  ASSUME NEW cfg, NEW ctx, NEW c, Authorised(cfg, ctx, c), NEW kind \in Kinds
  PROVE  IsBuilt(Statement(cfg, ctx, c.res, kind), cfg, ctx, c)
<1>1. DOMAIN <<>> = {}
  BY NoValues
<1> QED  BY <1>1, IdsCounted, NoValues, SmallSequences
         DEF IsBuilt, IsStatement, Scoped, RowFiltered, Statement, Kinds, Authorised

LEMMA SelectBuilt ==
  ASSUME NEW cfg, NEW ctx, NEW c, Authorised(cfg, ctx, c), NEW kind \in {"select", "count"},
         NEW limit \in Nat, NEW offset \in Nat, NEW ids \in SUBSET Ids, NEW filters
  PROVE  LET q == SelectFor(cfg, ctx, c, kind)
         IN  /\ IsBuilt(q, cfg, ctx, c)
             /\ IsBuilt([q EXCEPT !.limit = limit, !.offset = offset], cfg, ctx, c)
             /\ IsBuilt([q EXCEPT !.ids = ids, !.filters = filters], cfg, ctx, c)
<1>1. IsBuilt(Statement(cfg, ctx, c.res, kind), cfg, ctx, c)
  BY StatementBuilt DEF Kinds
<1> QED  BY <1>1 DEF IsBuilt, IsStatement, Scoped, Statement, SelectFor

\* An UPDATE whose values are typed and, under row filters, leave the tenant alone.
LEMMA UpdateBuilt ==
  ASSUME NEW cfg, NEW ctx, NEW c, Authorised(cfg, ctx, c), NEW ids \in SUBSET Ids,
         NEW values, IsValues(values),
         RowFiltered(cfg) => "tenant_id" \notin DOMAIN values
  PROVE  IsBuilt(UpdateFor(cfg, ctx, c, ids, values), cfg, ctx, c)
<1>1. IsBuilt(Statement(cfg, ctx, c.res, "update"), cfg, ctx, c)
  BY StatementBuilt DEF Kinds
<1>2. cfg.resources[c.res].softDelete \in BOOLEAN
  BY DEF Authorised, IsConfig
<1> QED  BY <1>1, <1>2 DEF IsBuilt, IsStatement, Scoped, Statement, UpdateFor

LEMMA DeleteBuilt ==
  ASSUME NEW cfg, NEW ctx, NEW c, Authorised(cfg, ctx, c), NEW ids \in SUBSET Ids
  PROVE  IsBuilt(DeleteFor(cfg, ctx, c, ids), cfg, ctx, c)
<1>1. IsBuilt(Statement(cfg, ctx, c.res, "delete"), cfg, ctx, c)
  BY StatementBuilt DEF Kinds
<1> DEFINE mark == [deleted_at |-> TRUE]
<1>2. IsValues(mark) /\ "tenant_id" \notin DOMAIN mark
  <2>1. DOMAIN mark = {"deleted_at"}
    OBVIOUS
  <2>2. mark["deleted_at"] = TRUE
    OBVIOUS
  <2>3. "deleted_at" \in DOMAIN ColumnType /\ ColumnType["deleted_at"] = BOOLEAN
    BY DEF ColumnType
  <2> HIDE DEF mark
  <2>4. mark["deleted_at"] \in ColumnType["deleted_at"]
    BY <2>2, <2>3
  <2> QED  BY <2>1, <2>3, <2>4 DEF IsValues
<1>3. IsBuilt(UpdateFor(cfg, ctx, c, ids, mark), cfg, ctx, c)
  BY <1>2, UpdateBuilt
<1> DEFINE update == UpdateFor(cfg, ctx, c, ids, mark)
<1>4. IsBuilt([update EXCEPT !.filters = c.filters], cfg, ctx, c)
  <2> HIDE DEF mark
  <2> QED  BY <1>3 DEF IsBuilt, IsStatement, Scoped, Statement, UpdateFor
<1>5. IsBuilt([Statement(cfg, ctx, c.res, "delete") EXCEPT !.ids = ids, !.filters = c.filters],
              cfg, ctx, c)
  BY <1>1 DEF IsBuilt, IsStatement, Scoped, Statement
<1> QED  BY <1>4, <1>5 DEF DeleteFor

LEMMA InsertBuilt ==
  ASSUME NEW cfg, NEW ctx, NEW c, Authorised(cfg, ctx, c), NEW cols
  PROVE  IsBuilt(InsertFor(cfg, ctx, c, Prepared(cfg, ctx, c, cols)), cfg, ctx, c)
<1> DEFINE items == Prepared(cfg, ctx, c, cols)
<1>1. IsBuilt(Statement(cfg, ctx, c.res, "insert"), cfg, ctx, c)
  BY StatementBuilt DEF Kinds
<1>2. /\ IsSequence(items)
      /\ \A k \in DOMAIN items : IsValues(items[k])
      /\ cfg.resources[c.res].rowFilter =>
           \A k \in DOMAIN items : "tenant_id" \in DOMAIN items[k] => items[k].tenant_id = ctx.tenant
  BY PreparedTyped DEF Authorised
<1> HIDE DEF items
<1>3. RowFiltered(cfg) => cfg.resources[c.res].rowFilter
  BY DEF RowFiltered, Authorised
<1>4. IsBuilt(InsertFor(cfg, ctx, c, items), cfg, ctx, c)
  BY <1>1, <1>2, <1>3 DEF IsBuilt, IsStatement, Scoped, Statement, InsertFor
<1> QED  BY <1>4 DEF items

\* The same with ON CONFLICT, when the columns to update are columns of every item.
LEMMA UpsertBuilt ==
  ASSUME NEW cfg, NEW ctx, NEW c, NEW items, NEW keys, NEW updates,
         IsBuilt(InsertFor(cfg, ctx, c, items), cfg, ctx, c),
         \A k \in DOMAIN items : updates \subseteq DOMAIN items[k]
  PROVE  IsBuilt([InsertFor(cfg, ctx, c, items) EXCEPT
                    !.kind = "upsert", !.keys = keys, !.updates = updates], cfg, ctx, c)
BY DEF IsBuilt, IsStatement, Scoped, Statement, InsertFor

-----------------------------------------------------------------------------
(* Plans *)

\* A refusal, or a plan of such statements.
IsPlanned(p, cfg, ctx, c) ==
  /\ p.status \in Nat /\ p.code \in Refusals \cup {""}
  /\ IsSequence(p.plan)
  /\ \A n \in DOMAIN p.plan : IsBuilt(p.plan[n], cfg, ctx, c)
  /\ p.code = "" => p.plan # <<>>
  /\ p.cols \subseteq Fields

LEMMA RefusePlanned ==
  ASSUME NEW cfg, NEW ctx, NEW c, NEW code \in Refusals
  PROVE  /\ IsPlanned(Refuse(400, code), cfg, ctx, c)
         /\ IsPlanned(Refuse(403, code), cfg, ctx, c)
<1>1. code # ""
  BY DEF Refusals
<1>2. ASSUME NEW status \in Nat PROVE IsPlanned(Refuse(status, code), cfg, ctx, c)
  BY <1>1, NoValues, SmallSequences DEF IsPlanned, Refuse
<1> QED  BY <1>2

LEMMA RunPlanned ==
  ASSUME NEW cfg, NEW ctx, NEW c, NEW cols \in SUBSET Fields,
         NEW q, IsBuilt(q, cfg, ctx, c)
  PROVE  IsPlanned(Run(<<q>>, cols), cfg, ctx, c)
<1>1. DOMAIN <<q>> = {1} /\ <<q>>[1] = q /\ <<q>> # <<>>
  OBVIOUS
<1> QED  BY <1>1, SmallSequences DEF IsPlanned, Run

LEMMA RunBothPlanned ==
  ASSUME NEW cfg, NEW ctx, NEW c, NEW cols \in SUBSET Fields,
         NEW p, IsBuilt(p, cfg, ctx, c), NEW q, IsBuilt(q, cfg, ctx, c)
  PROVE  IsPlanned(Run(<<p, q>>, cols), cfg, ctx, c)
<1>1. DOMAIN <<p, q>> = {1, 2} /\ <<p, q>>[1] = p /\ <<p, q>>[2] = q /\ <<p, q>> # <<>>
  OBVIOUS
<1> QED  BY <1>1, SmallSequences DEF IsPlanned, Run

LEMMA SelectColumnsTyped ==
  ASSUME NEW cfg, NEW ctx, NEW c, Authorised(cfg, ctx, c)
  PROVE  SelectColumns(cfg, ctx, c) \subseteq Fields
BY DEF SelectColumns, ReadableFields, Limit, Authorised, IsConfig

LEMMA ListPlanned ==
  ASSUME NEW cfg, NEW ctx, NEW c, Authorised(cfg, ctx, c)
  PROVE  IsPlanned(List(cfg, ctx, c), cfg, ctx, c)
<1>1. c.limit \in Nat /\ c.offset \in Nat
  BY DEF Authorised, IsCall
<1> DEFINE p == SelectFor(cfg, ctx, c, "count")
           q == [SelectFor(cfg, ctx, c, "select") EXCEPT !.limit = c.limit, !.offset = c.offset]
           cols == SelectColumns(cfg, ctx, c)
<1>2. IsBuilt(p, cfg, ctx, c) /\ IsBuilt(q, cfg, ctx, c)
  BY <1>1, SelectBuilt
<1>3. cols \in SUBSET Fields
  BY SelectColumnsTyped
<1>4. List(cfg, ctx, c) \in {Refuse(400, "FILTER_DENIED"), Run(<<p, q>>, cols)}
  BY DEF List
<1> HIDE DEF p, q, cols
<1>5. IsPlanned(Run(<<p, q>>, cols), cfg, ctx, c)
  BY <1>2, <1>3, RunBothPlanned
<1>6. IsPlanned(Refuse(400, "FILTER_DENIED"), cfg, ctx, c)
  BY RefusePlanned DEF Refusals
<1> QED  BY <1>4, <1>5, <1>6

LEMMA GetPlanned ==
  ASSUME NEW cfg, NEW ctx, NEW c, Authorised(cfg, ctx, c)
  PROVE  IsPlanned(Get(cfg, ctx, c), cfg, ctx, c)
<1>1. {c.id} \in SUBSET Ids
  BY DEF Authorised, IsCall
<1>2. IsBuilt([SelectFor(cfg, ctx, c, "select") EXCEPT !.ids = {c.id}, !.filters = <<>>],
              cfg, ctx, c)
  BY <1>1, SelectBuilt
<1>3. SelectColumns(cfg, ctx, c) \in SUBSET Fields
  BY SelectColumnsTyped
<1> QED  BY <1>2, <1>3, RunPlanned DEF Get

LEMMA CreatePlanned ==
  ASSUME NEW cfg, NEW ctx, NEW c, Authorised(cfg, ctx, c)
  PROVE  IsPlanned(Create(cfg, ctx, c), cfg, ctx, c)
<1> DEFINE cols == WritableFields(cfg, ctx.dn, c.res) \cup Stamped(cfg, c.res)
<1>1. IsBuilt(InsertFor(cfg, ctx, c, Prepared(cfg, ctx, c, cols)), cfg, ctx, c)
  BY InsertBuilt
<1> DEFINE q == InsertFor(cfg, ctx, c, Prepared(cfg, ctx, c, cols))
<1>2. Create(cfg, ctx, c) \in {Refuse(400, "FIELD_DENIED"), Refuse(400, "BATCH_SHAPE_MISMATCH"),
                              Run(<<q>>, Fields)}
  BY DEF Create
<1> HIDE DEF q
<1>3. IsPlanned(Run(<<q>>, Fields), cfg, ctx, c)
  BY <1>1, RunPlanned DEF q
<1>4. /\ IsPlanned(Refuse(400, "FIELD_DENIED"), cfg, ctx, c)
      /\ IsPlanned(Refuse(400, "BATCH_SHAPE_MISMATCH"), cfg, ctx, c)
  BY RefusePlanned DEF Refusals
<1> QED  BY <1>2, <1>3, <1>4

LEMMA UpsertPlanned ==
  ASSUME NEW cfg, NEW ctx, NEW c, Authorised(cfg, ctx, c)
  PROVE  IsPlanned(Upsert(cfg, ctx, c), cfg, ctx, c)
<1> DEFINE keys == cfg.resources[c.res].upsertKeys
           cols == WritableFields(cfg, ctx.dn, c.res) \cup Stamped(cfg, c.res) \cup keys
           items == Prepared(cfg, ctx, c, cols)
           updates == DOMAIN items[1] \ (keys \cup {"id"})
<1>1. CASE keys = {} \/ ~SameShape(items)
  <2>1. Upsert(cfg, ctx, c) \in {Refuse(400, "NO_UPSERT_KEYS"), Refuse(400, "UPSERT_SHAPE_MISMATCH")}
    BY <1>1 DEF Upsert
  <2>2. /\ IsPlanned(Refuse(400, "NO_UPSERT_KEYS"), cfg, ctx, c)
        /\ IsPlanned(Refuse(400, "UPSERT_SHAPE_MISMATCH"), cfg, ctx, c)
    BY RefusePlanned DEF Refusals
  <2> QED  BY <2>1, <2>2
<1>2. CASE keys # {} /\ SameShape(items)
  <2>1. IsSequence(items)
    BY PreparedTyped DEF Authorised
  <2>2. ASSUME NEW k \in DOMAIN items PROVE updates \subseteq DOMAIN items[k]
    <3> HIDE DEF items, keys
    <3>1. 1 \in DOMAIN items
      BY <2>1 DEF IsSequence
    <3> QED  BY <1>2, <3>1 DEF SameShape
  <2>3. IsBuilt([InsertFor(cfg, ctx, c, items) EXCEPT
                   !.kind = "upsert", !.keys = keys, !.updates = updates], cfg, ctx, c)
    <3>1. IsBuilt(InsertFor(cfg, ctx, c, items), cfg, ctx, c)
      BY InsertBuilt
    <3> HIDE DEF items, keys, updates
    <3> QED  BY <2>2, <3>1, UpsertBuilt
  <2>4. Upsert(cfg, ctx, c) =
          Run(<<[InsertFor(cfg, ctx, c, items) EXCEPT
                   !.kind = "upsert", !.keys = keys, !.updates = updates]>>, Fields)
    BY <1>2 DEF Upsert, Refusals
  <2> QED  BY <2>3, <2>4, RunPlanned
<1> QED  BY <1>1, <1>2

LEMMA MutatePlanned ==
  ASSUME NEW cfg, NEW ctx, NEW c, Authorised(cfg, ctx, c), c.op \in {"update", "patch"}
  PROVE  IsPlanned(Mutate(cfg, ctx, c), cfg, ctx, c)
<1> DEFINE values == c.items[1]
           d == [c EXCEPT !.withDeleted = FALSE]
<1>1. IsPlanned(Get(cfg, ctx, d), cfg, ctx, c)
  <2>1. IsCall(d) /\ d.res = c.res
    BY DEF Authorised, IsCall
  <2>2. IsPlanned(Get(cfg, ctx, d), cfg, ctx, d)
    BY <2>1, GetPlanned DEF Authorised
  <2> QED  BY <2>1, <2>2 DEF IsPlanned, IsBuilt
<1>2. Denial(cfg, ctx.dn, c.res, "get") \in Refusals \cup {""}
  BY DEF Denial, Refusals
<1>3. ASSUME DOMAIN values \subseteq WritableFields(cfg, ctx.dn, c.res)
      PROVE  IsBuilt(UpdateFor(cfg, ctx, c, {c.id}, values), cfg, ctx, c)
  <2>1. IsValues(values)
    BY DEF Authorised, IsCall, IsSequence
  <2>2. RowFiltered(cfg) => "tenant_id" \notin DOMAIN values
    BY <1>3 DEF RowFiltered, WritableFields, Limit, Authorised
  <2>3. {c.id} \in SUBSET Ids
    BY DEF Authorised, IsCall
  <2> HIDE DEF values
  <2> QED  BY <2>1, <2>2, <2>3, UpdateBuilt
<1> DEFINE q == UpdateFor(cfg, ctx, c, {c.id}, values)
           denial == Denial(cfg, ctx.dn, c.res, "get")
<1>4. /\ IsPlanned(Refuse(400, "FIELD_DENIED"), cfg, ctx, c)
      /\ IsPlanned(Refuse(400, "EMPTY_PAYLOAD"), cfg, ctx, c)
      /\ denial # "" => IsPlanned(Refuse(403, denial), cfg, ctx, c)
  <2>1. /\ IsPlanned(Refuse(400, "FIELD_DENIED"), cfg, ctx, c)
        /\ IsPlanned(Refuse(400, "EMPTY_PAYLOAD"), cfg, ctx, c)
    BY RefusePlanned DEF Refusals
  <2>2. ASSUME denial # "" PROVE IsPlanned(Refuse(403, denial), cfg, ctx, c)
    <3>1. denial \in Refusals
      BY <1>2, <2>2
    <3> HIDE DEF denial
    <3> QED  BY <3>1, RefusePlanned
  <2> QED  BY <2>1, <2>2
<1>5. DOMAIN values \subseteq WritableFields(cfg, ctx.dn, c.res) =>
        IsPlanned(Run(<<q>>, Fields), cfg, ctx, c)
  <2> HIDE DEF values
  <2> QED  BY <1>3, RunPlanned
<1> HIDE DEF q, d, denial
<1> QED  BY <1>1, <1>4, <1>5 DEF Mutate, q, d, denial

LEMMA DeletePlanned ==
  ASSUME NEW cfg, NEW ctx, NEW c, Authorised(cfg, ctx, c)
  PROVE  /\ IsPlanned(Delete(cfg, ctx, c), cfg, ctx, c)
         /\ IsPlanned(BulkDelete(cfg, ctx, c), cfg, ctx, c)
<1> DEFINE d == [c EXCEPT !.filters = <<>>]
           ids == IF c.ids = {} THEN Ids ELSE c.ids
           p == DeleteFor(cfg, ctx, d, {c.id})
           q == DeleteFor(cfg, ctx, c, ids)
           cols == IF cfg.resources[c.res].softDelete THEN Fields ELSE {"id"}
<1>1. IsCall(d) /\ d.res = c.res /\ {c.id} \in SUBSET Ids /\ ids \in SUBSET Ids
  BY DEF Authorised, IsCall
<1>2. IsBuilt(DeleteFor(cfg, ctx, d, {c.id}), cfg, ctx, d)
  BY <1>1, DeleteBuilt DEF Authorised
<1>3. IsBuilt(DeleteFor(cfg, ctx, d, {c.id}), cfg, ctx, c)
  BY <1>1, <1>2 DEF IsBuilt
<1>4. IsBuilt(DeleteFor(cfg, ctx, c, ids), cfg, ctx, c)
  BY <1>1, DeleteBuilt
<1>5. /\ Delete(cfg, ctx, c) = Run(<<p>>, cols)
      /\ BulkDelete(cfg, ctx, c) \in {Refuse(400, "FILTER_DENIED"),
                                     Refuse(400, "EMPTY_BULK_DELETE"), Run(<<q>>, {"id"})}
  BY DEF Delete, BulkDelete
<1>6. cols \in SUBSET Fields /\ {"id"} \in SUBSET Fields
  BY DEF Fields
<1> HIDE DEF p, q, cols
<1>7. IsPlanned(Run(<<p>>, cols), cfg, ctx, c) /\ IsPlanned(Run(<<q>>, {"id"}), cfg, ctx, c)
  BY <1>3, <1>4, <1>6, RunPlanned DEF p, q
<1>8. /\ IsPlanned(Refuse(400, "FILTER_DENIED"), cfg, ctx, c)
      /\ IsPlanned(Refuse(400, "EMPTY_BULK_DELETE"), cfg, ctx, c)
  BY RefusePlanned DEF Refusals
<1> QED  BY <1>5, <1>7, <1>8

LEMMA AggregatePlanned ==
  ASSUME NEW cfg, NEW ctx, NEW c, Authorised(cfg, ctx, c)
  PROVE  IsPlanned(Aggregate(cfg, ctx, c), cfg, ctx, c)
<1> DEFINE cols == c.groups \cup c.sums
<1>1. IsBuilt(SelectFor(cfg, ctx, c, "count"), cfg, ctx, c)
  BY SelectBuilt
<1>2. /\ IsPlanned(Refuse(400, "FILTER_DENIED"), cfg, ctx, c)
      /\ IsPlanned(Refuse(400, "GROUP_DENIED"), cfg, ctx, c)
      /\ IsPlanned(Refuse(400, "SUM_DENIED"), cfg, ctx, c)
  BY RefusePlanned DEF Refusals
<1>3. cols \in SUBSET Fields
  BY DEF Authorised, IsCall
<1>4. Aggregate(cfg, ctx, c) \in {Refuse(400, "FILTER_DENIED"), Refuse(400, "GROUP_DENIED"),
                                  Refuse(400, "SUM_DENIED"),
                                  Run(<<SelectFor(cfg, ctx, c, "count")>>, cols)}
  BY DEF Aggregate
<1> HIDE DEF cols
<1>5. IsPlanned(Run(<<SelectFor(cfg, ctx, c, "count")>>, cols), cfg, ctx, c)
  BY <1>1, <1>3, RunPlanned
<1> QED  BY <1>2, <1>4, <1>5

\* Whatever is called, under whatever grants.
THEOREM PreparePlanned ==
  ASSUME NEW cfg, IsConfig(cfg), NEW ctx, ctx.tenant \in Tenants, NEW c, IsCall(c)
  PROVE  IsPlanned(Prepare(cfg, ctx, c), cfg, ctx, c)
<1> DEFINE denial == Denial(cfg, ctx.dn, c.res, c.op)
<1>1. CASE denial # ""
  <2>1. denial \in Refusals
    BY <1>1 DEF Denial, Refusals
  <2>2. Prepare(cfg, ctx, c) = Refuse(403, denial)
    BY <1>1 DEF Prepare
  <2> HIDE DEF denial
  <2>3. IsPlanned(Refuse(403, denial), cfg, ctx, c)
    BY <2>1, RefusePlanned
  <2> QED  BY <2>2, <2>3
<1>2. CASE denial = ""
  <2>1. Authorised(cfg, ctx, c)
    BY <1>2 DEF Authorised, Denial, Allow
  <2>2. \/ Prepare(cfg, ctx, c) \in {List(cfg, ctx, c), Get(cfg, ctx, c), Create(cfg, ctx, c),
                                    Upsert(cfg, ctx, c), Delete(cfg, ctx, c),
                                    BulkDelete(cfg, ctx, c), Aggregate(cfg, ctx, c)}
        \/ c.op \in {"update", "patch"} /\ Prepare(cfg, ctx, c) = Mutate(cfg, ctx, c)
    BY <1>2 DEF Prepare
  <2> QED
    BY <2>1, <2>2, ListPlanned, GetPlanned, CreatePlanned, UpsertPlanned, MutatePlanned,
       DeletePlanned, AggregatePlanned
<1> QED  BY <1>1, <1>2

-----------------------------------------------------------------------------
(* Plans and deleted rows *)

\* Every resource deletes by marking, and its mark is no client's to write.
SoftDeletes(cfg) ==
  \A res \in DOMAIN cfg.resources :
    /\ cfg.resources[res].softDelete
    /\ "deleted_at" \notin cfg.resources[res].write
    /\ "deleted_at" \notin cfg.resources[res].upsertKeys

\* A careful statement that marks if the call is a deletion; only an upsert, or a call that
\* asks for them, gets to see deleted rows.
Tidy(q, c) ==
  /\ Careful(q)
  /\ c.op \in {"delete", "bulk_delete"} => Marks(q)
  /\ q.kind = "upsert" => c.op = "upsert"
  /\ q.kind = "select" => q.live \/ c.withDeleted

TidyPlan(p, c) == \A n \in DOMAIN p.plan : Tidy(p.plan[n], c)

LEMMA TidyRuns ==
  /\ \A status, code, c : TidyPlan(Refuse(status, code), c)
  /\ \A q, cols, c : Tidy(q, c) => TidyPlan(Run(<<q>>, cols), c)
  /\ \A p, q, cols, c : Tidy(p, c) /\ Tidy(q, c) => TidyPlan(Run(<<p, q>>, cols), c)
<1>1. \A status, code, c : TidyPlan(Refuse(status, code), c)
  BY NoValues DEF TidyPlan, Refuse
<1>2. ASSUME NEW q, NEW cols, NEW c, Tidy(q, c) PROVE TidyPlan(Run(<<q>>, cols), c)
  <2>1. DOMAIN <<q>> = {1} /\ <<q>>[1] = q
    OBVIOUS
  <2> QED  BY <1>2, <2>1 DEF TidyPlan, Run
<1>3. ASSUME NEW p, NEW q, NEW cols, NEW c, Tidy(p, c), Tidy(q, c)
      PROVE  TidyPlan(Run(<<p, q>>, cols), c)
  <2>1. DOMAIN <<p, q>> = {1, 2} /\ <<p, q>>[1] = p /\ <<p, q>>[2] = q
    OBVIOUS
  <2> QED  BY <1>3, <2>1 DEF TidyPlan, Run
<1> QED  BY <1>1, <1>2, <1>3

\* The caller of every lemma below.
AuthorisedSoft(cfg, ctx, c) == Authorised(cfg, ctx, c) /\ SoftDeletes(cfg)

LEMMA SelectTidy ==
  ASSUME NEW cfg, NEW ctx, NEW c, AuthorisedSoft(cfg, ctx, c),
         c.op \notin {"delete", "bulk_delete"},
         NEW limit, NEW offset, NEW ids, NEW filters
  PROVE  /\ Tidy(SelectFor(cfg, ctx, c, "count"), c)
         /\ Tidy([SelectFor(cfg, ctx, c, "select") EXCEPT !.limit = limit, !.offset = offset], c)
         /\ Tidy([SelectFor(cfg, ctx, c, "select") EXCEPT !.ids = ids, !.filters = filters], c)
<1>1. cfg.resources[c.res].softDelete
  BY DEF AuthorisedSoft, Authorised, SoftDeletes
<1>2. SelectFor(cfg, ctx, c, "count").kind = "count"
  BY DEF SelectFor, Statement
<1>3. ASSUME NEW q, q.kind = "select", q.live = (cfg.resources[c.res].softDelete /\ ~c.withDeleted)
      PROVE  Tidy(q, c)
  BY <1>1, <1>3 DEF Tidy, Careful, AuthorisedSoft, Authorised, IsCall
<1>4. Tidy(SelectFor(cfg, ctx, c, "count"), c)
  BY <1>2 DEF Tidy, Careful
<1> DEFINE q == SelectFor(cfg, ctx, c, "select")
           page == [q EXCEPT !.limit = limit, !.offset = offset]
           one == [q EXCEPT !.ids = ids, !.filters = filters]
<1>5. /\ page.kind = "select"
      /\ page.live = (cfg.resources[c.res].softDelete /\ ~c.withDeleted)
      /\ one.kind = "select"
      /\ one.live = (cfg.resources[c.res].softDelete /\ ~c.withDeleted)
  BY DEF SelectFor, Statement
<1> HIDE DEF page, one
<1>6. Tidy(page, c) /\ Tidy(one, c)
  BY <1>3, <1>5
<1> QED  BY <1>4, <1>6 DEF page, one

LEMMA ListTidy ==
  ASSUME NEW cfg, NEW ctx, NEW c, AuthorisedSoft(cfg, ctx, c),
         c.op \notin {"delete", "bulk_delete"}
  PROVE  /\ TidyPlan(List(cfg, ctx, c), c)
         /\ TidyPlan(Get(cfg, ctx, c), c)
         /\ TidyPlan(Aggregate(cfg, ctx, c), c)
<1> DEFINE p == SelectFor(cfg, ctx, c, "count")
           q == [SelectFor(cfg, ctx, c, "select") EXCEPT !.limit = c.limit, !.offset = c.offset]
           one == [SelectFor(cfg, ctx, c, "select") EXCEPT !.ids = {c.id}, !.filters = <<>>]
           columns == SelectColumns(cfg, ctx, c)
           grouped == c.groups \cup c.sums
<1>1. Tidy(p, c) /\ Tidy(q, c) /\ Tidy(one, c)
  BY SelectTidy
<1>2. /\ List(cfg, ctx, c) \in {Refuse(400, "FILTER_DENIED"), Run(<<p, q>>, columns)}
      /\ Get(cfg, ctx, c) = Run(<<one>>, columns)
      /\ Aggregate(cfg, ctx, c) \in {Refuse(400, "FILTER_DENIED"), Refuse(400, "GROUP_DENIED"),
                                    Refuse(400, "SUM_DENIED"), Run(<<p>>, grouped)}
  BY DEF List, Get, Aggregate
<1> HIDE DEF p, q, one, columns, grouped
<1>3. /\ TidyPlan(Refuse(400, "FILTER_DENIED"), c) /\ TidyPlan(Run(<<p, q>>, columns), c)
      /\ TidyPlan(Refuse(400, "GROUP_DENIED"), c) /\ TidyPlan(Refuse(400, "SUM_DENIED"), c)
      /\ TidyPlan(Run(<<one>>, columns), c) /\ TidyPlan(Run(<<p>>, grouped), c)
  BY <1>1, TidyRuns
<1> QED  BY <1>2, <1>3

LEMMA CreateTidy ==
  ASSUME NEW cfg, NEW ctx, NEW c, AuthorisedSoft(cfg, ctx, c),
         c.op \notin {"delete", "bulk_delete"}
  PROVE  TidyPlan(Create(cfg, ctx, c), c)
<1> DEFINE writable == WritableFields(cfg, ctx.dn, c.res) \cup Stamped(cfg, c.res)
           q == InsertFor(cfg, ctx, c, Prepared(cfg, ctx, c, writable))
<1>1. q.kind = "insert"
  BY DEF InsertFor, Statement
<1>2. Create(cfg, ctx, c) \in {Refuse(400, "FIELD_DENIED"), Refuse(400, "BATCH_SHAPE_MISMATCH"),
                              Run(<<q>>, Fields)}
  BY DEF Create
<1> HIDE DEF q
<1>3. Tidy(q, c)
  BY <1>1 DEF Tidy, Careful
<1>4. /\ TidyPlan(Refuse(400, "FIELD_DENIED"), c)
      /\ TidyPlan(Refuse(400, "BATCH_SHAPE_MISMATCH"), c)
      /\ TidyPlan(Run(<<q>>, Fields), c)
  BY <1>3, TidyRuns
<1> QED  BY <1>2, <1>4

LEMMA UpsertTidy ==
  ASSUME NEW cfg, NEW ctx, NEW c, AuthorisedSoft(cfg, ctx, c), c.op = "upsert"
  PROVE  TidyPlan(Upsert(cfg, ctx, c), c)
<1> DEFINE keys == cfg.resources[c.res].upsertKeys
           writable == WritableFields(cfg, ctx.dn, c.res) \cup Stamped(cfg, c.res) \cup keys
           items == Prepared(cfg, ctx, c, writable)
           q == [InsertFor(cfg, ctx, c, items) EXCEPT
                   !.kind = "upsert", !.keys = keys,
                   !.updates = DOMAIN items[1] \ (keys \cup {"id"})]
<1>1. "deleted_at" \notin writable
  BY DEF AuthorisedSoft, Authorised, SoftDeletes, WritableFields, Limit, Stamped
<1>2. \A k \in DOMAIN items : "deleted_at" \notin DOMAIN items[k]
  <2> HIDE DEF writable
  <2> QED  BY <1>1 DEF Prepared, Restrict
<1>3. Upsert(cfg, ctx, c) \in {Refuse(400, "NO_UPSERT_KEYS"),
                              Refuse(400, "UPSERT_SHAPE_MISMATCH"), Run(<<q>>, Fields)}
  BY DEF Upsert
<1>4. q.kind = "upsert" /\ q.items = items
  <2> HIDE DEF items
  <2> QED  BY DEF InsertFor, Statement
<1> HIDE DEF q, items
<1>5. Tidy(q, c)
  BY <1>2, <1>4 DEF Tidy, Careful
<1>6. /\ TidyPlan(Refuse(400, "NO_UPSERT_KEYS"), c)
      /\ TidyPlan(Refuse(400, "UPSERT_SHAPE_MISMATCH"), c)
      /\ TidyPlan(Run(<<q>>, Fields), c)
  BY <1>5, TidyRuns
<1> QED  BY <1>3, <1>6

LEMMA MutateTidy ==
  ASSUME NEW cfg, NEW ctx, NEW c, AuthorisedSoft(cfg, ctx, c), c.op \in {"update", "patch"}
  PROVE  TidyPlan(Mutate(cfg, ctx, c), c)
<1> DEFINE values == c.items[1]
           d == [c EXCEPT !.withDeleted = FALSE]
           q == UpdateFor(cfg, ctx, c, {c.id}, values)
           denial == Denial(cfg, ctx.dn, c.res, "get")
<1>1. TidyPlan(Get(cfg, ctx, d), c)
  <2>1. AuthorisedSoft(cfg, ctx, d) /\ d.op = c.op /\ d.withDeleted = FALSE
    BY DEF AuthorisedSoft, Authorised, IsCall
  <2> HIDE DEF d
  <2>2. TidyPlan(Get(cfg, ctx, d), d)
    BY <2>1, ListTidy
  <2>3. \A s : Tidy(s, d) => Tidy(s, c)
    BY <2>1 DEF Tidy
  <2> QED  BY <2>2, <2>3 DEF TidyPlan
<1>2. ASSUME DOMAIN values \subseteq WritableFields(cfg, ctx.dn, c.res)
      PROVE  Tidy(q, c)
  <2>1. "deleted_at" \notin WritableFields(cfg, ctx.dn, c.res)
    BY DEF AuthorisedSoft, Authorised, SoftDeletes, WritableFields, Limit
  <2>2. q.kind = "update" /\ q.live = TRUE /\ q.set = values
    <3>1. cfg.resources[c.res].softDelete = TRUE
      BY DEF AuthorisedSoft, Authorised, SoftDeletes, IsConfig
    <3> HIDE DEF values
    <3> QED  BY <3>1 DEF UpdateFor, Statement
  <2> HIDE DEF values, q
  <2> QED  BY <1>2, <2>1, <2>2 DEF Tidy, Careful
<1>3. /\ TidyPlan(Refuse(400, "FIELD_DENIED"), c) /\ TidyPlan(Refuse(400, "EMPTY_PAYLOAD"), c)
      /\ TidyPlan(Refuse(403, denial), c)
  BY TidyRuns
<1>4. Tidy(q, c) => TidyPlan(Run(<<q>>, Fields), c)
  BY TidyRuns
<1> HIDE DEF q, d, denial
<1> QED  BY <1>1, <1>2, <1>3, <1>4 DEF Mutate, q, d, denial

LEMMA DeleteForTidy ==
  ASSUME NEW cfg, NEW ctx, NEW c, AuthorisedSoft(cfg, ctx, c), NEW ids,
         NEW d, d.op \in {"delete", "bulk_delete"}
  PROVE  Tidy(DeleteFor(cfg, ctx, c, ids), d)
<1> DEFINE mark == [deleted_at |-> TRUE]
           q == [UpdateFor(cfg, ctx, c, ids, mark) EXCEPT !.filters = c.filters]
<1>1. DeleteFor(cfg, ctx, c, ids) = q
  BY DEF DeleteFor, AuthorisedSoft, Authorised, SoftDeletes
<1>2. DOMAIN mark = {"deleted_at"} /\ mark["deleted_at"] = TRUE
  OBVIOUS
<1> HIDE DEF mark
<1>3. q.kind = "update" /\ q.live = TRUE /\ q.set = mark
  <2>1. cfg.resources[c.res].softDelete = TRUE
    BY DEF AuthorisedSoft, Authorised, SoftDeletes, IsConfig
  <2> QED  BY <2>1 DEF UpdateFor, Statement
<1> HIDE DEF q
<1>4. Tidy(q, d)
  BY <1>2, <1>3 DEF Tidy, Careful, Marks
<1> QED  BY <1>1, <1>4

LEMMA DeleteTidy ==
  ASSUME NEW cfg, NEW ctx, NEW c, AuthorisedSoft(cfg, ctx, c), c.op \in {"delete", "bulk_delete"}
  PROVE  TidyPlan(Delete(cfg, ctx, c), c) /\ TidyPlan(BulkDelete(cfg, ctx, c), c)
<1> DEFINE d == [c EXCEPT !.filters = <<>>]
           p == DeleteFor(cfg, ctx, d, {c.id})
           q == DeleteFor(cfg, ctx, c, IF c.ids = {} THEN Ids ELSE c.ids)
           cols == IF cfg.resources[c.res].softDelete THEN Fields ELSE {"id"}
<1>1. AuthorisedSoft(cfg, ctx, d)
  BY DEF AuthorisedSoft, Authorised, IsCall
<1>2. Tidy(p, c) /\ Tidy(q, c)
  <2> HIDE DEF d
  <2> QED  BY <1>1, DeleteForTidy
<1>3. /\ Delete(cfg, ctx, c) = Run(<<p>>, cols)
      /\ BulkDelete(cfg, ctx, c) \in {Refuse(400, "FILTER_DENIED"),
                                     Refuse(400, "EMPTY_BULK_DELETE"), Run(<<q>>, {"id"})}
  BY DEF Delete, BulkDelete
<1> HIDE DEF p, q, cols
<1>4. /\ TidyPlan(Run(<<p>>, cols), c) /\ TidyPlan(Run(<<q>>, {"id"}), c)
      /\ TidyPlan(Refuse(400, "FILTER_DENIED"), c) /\ TidyPlan(Refuse(400, "EMPTY_BULK_DELETE"), c)
  BY <1>2, TidyRuns
<1> QED  BY <1>3, <1>4

\* Whatever is called: a resource that deletes by marking is only ever asked carefully.
THEOREM PrepareTidy ==
  ASSUME NEW cfg, IsConfig(cfg), SoftDeletes(cfg), NEW ctx, ctx.tenant \in Tenants,
         NEW c, IsCall(c)
  PROVE  TidyPlan(Prepare(cfg, ctx, c), c)
<1> DEFINE denial == Denial(cfg, ctx.dn, c.res, c.op)
<1>1. CASE denial # ""
  <2>1. Prepare(cfg, ctx, c) = Refuse(403, denial)
    BY <1>1 DEF Prepare
  <2> HIDE DEF denial
  <2> QED  BY <2>1, TidyRuns
<1>2. CASE denial = ""
  <2>1. AuthorisedSoft(cfg, ctx, c)
    BY <1>2 DEF AuthorisedSoft, Authorised, Denial, Allow
  <2>2. \/ /\ c.op \notin {"delete", "bulk_delete"}
           /\ Prepare(cfg, ctx, c) \in {List(cfg, ctx, c), Get(cfg, ctx, c), Create(cfg, ctx, c),
                                        Aggregate(cfg, ctx, c)}
        \/ c.op = "upsert" /\ Prepare(cfg, ctx, c) = Upsert(cfg, ctx, c)
        \/ c.op \in {"update", "patch"} /\ Prepare(cfg, ctx, c) = Mutate(cfg, ctx, c)
        \/ /\ c.op \in {"delete", "bulk_delete"}
           /\ Prepare(cfg, ctx, c) \in {Delete(cfg, ctx, c), BulkDelete(cfg, ctx, c)}
    BY <1>2 DEF Prepare
  <2> HIDE DEF denial
  <2> QED  BY <2>1, <2>2, ListTidy, CreateTidy, UpsertTidy, MutateTidy, DeleteTidy
<1> QED  BY <1>1, <1>2
=============================================================================
