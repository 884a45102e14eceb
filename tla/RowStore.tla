------------------------------ MODULE RowStore ------------------------------
(***************************************************************************)
(* The database as the gateway uses it: one statement per transaction, run *)
(* by the role "gateway" under the row-level-security policies of          *)
(* db/init.sql, over tables of the shape of users: a generated id, a       *)
(* tenant, a text that is unique per tenant (email), a text with a default *)
(* (status) and a soft-delete mark.                                        *)
(*                                                                         *)
(* A statement is a record: what builder.py rendered, clause by clause.    *)
(*   kind      "select", "count", "update", "delete", "insert", "upsert"   *)
(*   res       the table                                                   *)
(*   tenant    the row-filter clause tenant_id = $n, or NoTenant           *)
(*   live      the clause deleted_at IS NULL is there                      *)
(*   ids       the primary keys it names (all Ids when it names none)      *)
(*   filters   field -> set of clauses, a clause being the set of values   *)
(*             that satisfies it                                           *)
(*   set       column -> value, for an UPDATE                              *)
(*   items     the rows of an INSERT, column -> value                      *)
(*   keys, updates  ON CONFLICT (keys) DO UPDATE SET updates; DO NOTHING   *)
(*             when there are no updates                                   *)
(*   limit, offset  the page                                               *)
(***************************************************************************)
EXTENDS Integers, FiniteSets, Sequences, Functions

CONSTANTS
  Ids,            \* primary keys gen_random_uuid() may return
  Tenants, Texts, Statuses,
  DefaultStatus,  \* the column default of status
  NoTenant,       \* no tenant: an unset GUC, or no row filter
  Unborn, Erased, \* an id not generated yet; an id whose row was deleted
  Rls             \* the policies are installed and the role is subject to them

ASSUME RowStoreAssumption ==
  /\ NoTenant \notin Tenants
  /\ DefaultStatus \in Statuses
  /\ Rls \in BOOLEAN
  /\ IsFiniteSet(Ids)

Rows == [tenant_id : Tenants, email : Texts, status : Statuses, deleted_at : BOOLEAN]

ASSUME NoSuchRow == Unborn \notin Rows /\ Erased \notin Rows /\ Unborn # Erased

Tables == [Ids -> Rows \cup {Unborn, Erased}]

\* UNIQUE (tenant_id, email), soft-deleted rows included.
UniqueKey == {"tenant_id", "email"}

IdsOf(t) == {i \in Ids : t[i] \in Rows}

SameKey(a, b) == a.tenant_id = b.tenant_id /\ a.email = b.email

Unique(t) == \A i, j \in IdsOf(t) : SameKey(t[i], t[j]) => i = j

\* USING and WITH CHECK: an unset GUC passes nothing.
PolicyPasses(guc, tenant) == Rls => guc # NoTenant /\ tenant = guc

\* The rows a WHERE clause selects, among those the policy shows.
Matching(q, guc, t) ==
  {i \in IdsOf(t) \cap q.ids :
     /\ PolicyPasses(guc, t[i].tenant_id)
     /\ q.tenant # NoTenant => t[i].tenant_id = q.tenant
     /\ q.live => ~t[i].deleted_at
     /\ \A f \in DOMAIN q.filters : \A clause \in q.filters[f] : t[i][f] \in clause}

\* Values for some of the columns, each of its column's type.
ColumnType == [tenant_id |-> Tenants, email |-> Texts, status |-> Statuses,
               deleted_at |-> BOOLEAN]
IsValues(v) == \A c \in DOMAIN v : c \in DOMAIN ColumnType /\ v[c] \in ColumnType[c]

IsSequence(s) == s \in Seq(Range(s))

IsStatement(q) ==
  /\ q.kind \in {"select", "count", "update", "delete", "insert", "upsert"}
  /\ q.tenant \in Tenants \cup {NoTenant}
  /\ q.live \in BOOLEAN
  /\ q.ids \subseteq Ids
  /\ IsValues(q.set)
  /\ IsSequence(q.items)
  /\ \A k \in DOMAIN q.items : IsValues(q.items[k]) /\ q.updates \subseteq DOMAIN q.items[k]
  /\ q.limit \in Nat /\ q.offset \in Nat

-----------------------------------------------------------------------------
(* Outcomes of a statement: the table after it, the rows it returns, a count and *)
(* an error.  An error rolls the transaction back.                               *)

Listed(is, t) == {[id |-> i, row |-> t[i]] : i \in is}

Success(t, rows, total) == [tbl |-> t, rows |-> rows, total |-> total, err |-> ""]
Failure(t, err) == [tbl |-> t, rows |-> {}, total |-> 0, err |-> err]

\* LIMIT and OFFSET over n rows.
PageSize(n, limit, offset) ==
  IF n <= offset THEN 0 ELSE IF n - offset <= limit THEN n - offset ELSE limit

\* Any page of the right size: the order of rows is left open.
Selected(q, guc, t) ==
  LET m == Matching(q, guc, t)
      n == PageSize(Cardinality(m), q.limit, q.offset)
  IN  {Success(t, Listed(page, t), 0) : page \in {p \in SUBSET m : Cardinality(p) = n}}

Counted(q, guc, t) == {Success(t, {}, Cardinality(Matching(q, guc, t)))}

Assign(row, values) ==
  [c \in DOMAIN row |-> IF c \in DOMAIN values THEN values[c] ELSE row[c]]

\* Mutant of Updated: a policy that checks the old row only (WITH CHECK (true)).
UpdatedUnchecked(q, guc, t) ==
  LET m == Matching(q, guc, t)
      t2 == [i \in Ids |-> IF i \in m THEN Assign(t[i], q.set) ELSE t[i]]
  IN  IF ~Unique(t2) THEN {Failure(t, "unique")} ELSE {Success(t2, Listed(m, t2), 0)}

Updated(q, guc, t) ==
  LET m == Matching(q, guc, t)
      t2 == [i \in Ids |-> IF i \in m THEN Assign(t[i], q.set) ELSE t[i]]
  IN  IF \E i \in m : ~PolicyPasses(guc, t2[i].tenant_id) THEN {Failure(t, "other")}
      ELSE IF ~Unique(t2) THEN {Failure(t, "unique")}
      ELSE {Success(t2, Listed(m, t2), 0)}

Deleted(q, guc, t) ==
  LET m == Matching(q, guc, t)
  IN  {Success([i \in Ids |-> IF i \in m THEN Erased ELSE t[i]], Listed(m, t), 0)}

NewRow(item) ==
  [tenant_id |-> item.tenant_id,
   email |-> item.email,
   status |-> IF "status" \in DOMAIN item THEN item.status ELSE DefaultStatus,
   deleted_at |-> FALSE]

\* The NOT NULL columns are there and the policy's WITH CHECK passes.
Insertable(q, guc) ==
  \A k \in DOMAIN q.items :
    UniqueKey \subseteq DOMAIN q.items[k] /\ PolicyPasses(guc, q.items[k].tenant_id)

\* Every way to give the items in ks ids that were never used.
FreshIds(ks, t) == Injection(ks, {i \in Ids : t[i] = Unborn})

WithNew(q, t, fresh) ==
  [i \in Ids |-> IF \E k \in DOMAIN fresh : fresh[k] = i
                   THEN NewRow(q.items[CHOOSE k \in DOMAIN fresh : fresh[k] = i])
                   ELSE t[i]]

\* An item meets the row with its key, or an earlier item with it.
Conflicting(item, t) == {i \in IdsOf(t) : SameKey(t[i], item)}
FirstOfKey(q, k) == \A j \in 1..(k - 1) : ~SameKey(q.items[j], q.items[k])

InsertWith(q, t, fresh) ==
  LET t2 == WithNew(q, t, fresh) IN Success(t2, Listed(Range(fresh), t2), 0)

\* Mutant of Inserted: one statement per item, committed one by one until one fails.
InsertedOneByOne(q, guc, t) ==
  LET clashes(k) == ~FirstOfKey(q, k) \/ Conflicting(q.items[k], t) # {}
      stored == {k \in DOMAIN q.items : \A j \in 1..k : ~clashes(j)}
  IN  IF ~Insertable(q, guc) THEN {Failure(t, "other")}
      ELSE IF \E k \in DOMAIN q.items : clashes(k)
        THEN {Failure(WithNew(q, t, fresh), "unique") : fresh \in FreshIds(stored, t)}
      ELSE {InsertWith(q, t, fresh) : fresh \in FreshIds(DOMAIN q.items, t)}

Inserted(q, guc, t) ==
  IF ~Insertable(q, guc) THEN {Failure(t, "other")}
  ELSE IF \E k \in DOMAIN q.items : ~FirstOfKey(q, k) \/ Conflicting(q.items[k], t) # {}
    THEN {Failure(t, "unique")}
  ELSE {InsertWith(q, t, fresh) : fresh \in FreshIds(DOMAIN q.items, t)}

\* Mutant of UpsertWith: DO UPDATE also clears the soft-delete mark.
UpsertReviving(q, t, fresh) ==
  LET t2 == WithNew(q, t, fresh)
      met == IF q.updates = {} THEN {}
             ELSE UNION {Conflicting(q.items[k], t) : k \in DOMAIN q.items}
      newValues(i) == LET k == CHOOSE k \in DOMAIN q.items : i \in Conflicting(q.items[k], t)
                      IN  Restrict(q.items[k], q.updates)
      t3 == [i \in Ids |-> IF i \in met
               THEN [Assign(t[i], newValues(i)) EXCEPT !.deleted_at = FALSE] ELSE t2[i]]
  IN  Success(t3, Listed(met \cup Range(fresh), t3), 0)

UpsertWith(q, t, fresh) ==
  LET t2 == WithNew(q, t, fresh)
      met == IF q.updates = {} THEN {}
             ELSE UNION {Conflicting(q.items[k], t) : k \in DOMAIN q.items}
      newValues(i) == LET k == CHOOSE k \in DOMAIN q.items : i \in Conflicting(q.items[k], t)
                      IN  Restrict(q.items[k], q.updates)
      t3 == [i \in Ids |-> IF i \in met THEN Assign(t[i], newValues(i)) ELSE t2[i]]
  IN  Success(t3, Listed(met \cup Range(fresh), t3), 0)

\* INSERT ... ON CONFLICT: conflict keys without a unique constraint, and DO UPDATE
\* meeting one key twice, are errors.
Upserted(q, guc, t) ==
  LET first == {k \in DOMAIN q.items : FirstOfKey(q, k)}
      new == {k \in first : Conflicting(q.items[k], t) = {}}
  IN  IF \/ ~Insertable(q, guc)
         \/ q.keys # UniqueKey
         \/ q.updates # {} /\ first # DOMAIN q.items
        THEN {Failure(t, "other")}
        ELSE {UpsertWith(q, t, fresh) : fresh \in FreshIds(new, t)}

Outcomes(q, guc, t) ==
  IF q.kind = "select" THEN Selected(q, guc, t)
  ELSE IF q.kind = "count" THEN Counted(q, guc, t)
  ELSE IF q.kind = "update" THEN Updated(q, guc, t)
  ELSE IF q.kind = "delete" THEN Deleted(q, guc, t)
  ELSE IF q.kind = "insert" THEN Inserted(q, guc, t)
  ELSE Upserted(q, guc, t)
=============================================================================
