------------------------------ MODULE Handlers ------------------------------
(***************************************************************************)
(* What a handler of ResourceService decides before its first database     *)
(* call: it authorises the call, checks and stamps the payload and builds  *)
(* its statements, all without yielding to the event loop.  The outcome is *)
(* a refusal (status and code) or a plan: the statements to run in turn,   *)
(* each in a transaction of its own, and the columns asked for.            *)
(*                                                                         *)
(* A call is a record: op, res, dn (the certificate's DN), id, ids, items  *)
(* (the parsed body: a sequence of column -> value), filters, withDeleted, *)
(* limit, offset, and the columns an aggregate groups by and sums (none    *)
(* for a count).  Sorting, and whether a column named by the configuration *)
(* is one it declares, are QueryBuilder's.                                 *)
(***************************************************************************)
EXTENDS AccessRules, RowStore

BodyOps == {"create", "update", "patch", "batch_create", "upsert", "bulk_delete", "aggregate"}

\* Primary key and auto columns, which create skips over instead of refusing them.
Managed == {"id"}

IsCall(c) ==
  /\ DOMAIN c = {"op", "res", "dn", "id", "ids", "items", "filters", "withDeleted",
                 "limit", "offset", "groups", "sums"}
  /\ c.op \in Operations
  /\ c.id \in Ids /\ c.ids \subseteq Ids
  /\ IsSequence(c.items) /\ \A k \in DOMAIN c.items : IsValues(c.items[k])
  /\ c.op \in {"create", "update", "patch"} => Len(c.items) = 1
  /\ c.withDeleted \in BOOLEAN /\ c.limit \in Nat /\ c.offset \in Nat
  /\ c.groups \subseteq Fields /\ c.sums \subseteq Fields

\* What AppConfig's validators guarantee: there are resources, and a grant names known
\* ones, fields that these declare and operations that they enable.
IsConfig(cfg) ==
  /\ DOMAIN cfg.resources # {}
  /\ \A res \in DOMAIN cfg.resources :
       /\ cfg.resources[res].fields \subseteq Fields
       /\ cfg.resources[res].read \cup cfg.resources[res].write
            \subseteq cfg.resources[res].fields
       /\ cfg.resources[res].softDelete \in BOOLEAN
  /\ \A dn \in DOMAIN cfg.accounts : cfg.accounts[dn].tenant \in Tenants
  /\ \A dn \in DOMAIN cfg.accounts : \A res \in DOMAIN cfg.accounts[dn].grants :
       /\ res \in DOMAIN cfg.resources
       /\ \/ Grant(cfg, dn, res).ops = Unrestricted
          \/ Grant(cfg, dn, res).ops \subseteq cfg.resources[res].ops
       /\ \A fields \in {Grant(cfg, dn, res).read, Grant(cfg, dn, res).write} :
            fields = Unrestricted \/ fields \subseteq cfg.resources[res].fields

\* The codes of the refusals below.
Refusals == {"AUTHZ_DENIED", "OPERATION_DISABLED", "OPERATION_DENIED", "FILTER_DENIED",
             "FIELD_DENIED", "BATCH_SHAPE_MISMATCH", "NO_UPSERT_KEYS",
             "UPSERT_SHAPE_MISMATCH", "EMPTY_PAYLOAD", "EMPTY_BULK_DELETE",
             "GROUP_DENIED", "SUM_DENIED"}

Refuse(status, code) == [status |-> status, code |-> code, plan |-> <<>>, cols |-> {}]
Run(plan, cols) == [status |-> 0, code |-> "", plan |-> plan, cols |-> cols]

-----------------------------------------------------------------------------
(* QueryBuilder *)

\* apply_row_filters; every other clause is added by the caller.
Statement(cfg, ctx, res, kind) ==
  [kind |-> kind, res |-> res,
   tenant |-> IF cfg.resources[res].rowFilter THEN ctx.tenant ELSE NoTenant,
   live |-> FALSE, ids |-> Ids, filters |-> <<>>,
   set |-> <<>>, items |-> <<>>, keys |-> {}, updates |-> {},
   limit |-> Cardinality(Ids), offset |-> 0]

\* Mutants of SelectFor: the row filters are forgotten; the soft-delete clause is.
SelectForAnyTenant(cfg, ctx, c, kind) ==
  [Statement(cfg, ctx, c.res, kind) EXCEPT
     !.tenant = NoTenant,
     !.live = cfg.resources[c.res].softDelete /\ ~c.withDeleted,
     !.filters = c.filters]
SelectForDeletedToo(cfg, ctx, c, kind) ==
  [Statement(cfg, ctx, c.res, kind) EXCEPT !.filters = c.filters]

SelectFor(cfg, ctx, c, kind) ==
  [Statement(cfg, ctx, c.res, kind) EXCEPT
     !.live = cfg.resources[c.res].softDelete /\ ~c.withDeleted,
     !.filters = c.filters]

\* Mutant of UpdateFor: the row filters are forgotten.
UpdateForAnyTenant(cfg, ctx, c, ids, values) ==
  [Statement(cfg, ctx, c.res, "update") EXCEPT
     !.tenant = NoTenant,
     !.live = cfg.resources[c.res].softDelete, !.ids = ids, !.set = values]

UpdateFor(cfg, ctx, c, ids, values) ==
  [Statement(cfg, ctx, c.res, "update") EXCEPT
     !.live = cfg.resources[c.res].softDelete, !.ids = ids, !.set = values]

\* Mutant of DeleteFor: a soft delete does not skip rows already deleted.
DeleteForAgain(cfg, ctx, c, ids) ==
  IF cfg.resources[c.res].softDelete
    THEN [UpdateFor(cfg, ctx, c, ids, [deleted_at |-> TRUE]) EXCEPT
            !.live = FALSE, !.filters = c.filters]
    ELSE [Statement(cfg, ctx, c.res, "delete") EXCEPT !.ids = ids, !.filters = c.filters]

\* build_soft_delete and build_hard_delete, and their bulk form.
DeleteFor(cfg, ctx, c, ids) ==
  IF cfg.resources[c.res].softDelete
    THEN [UpdateFor(cfg, ctx, c, ids, [deleted_at |-> TRUE]) EXCEPT !.filters = c.filters]
    ELSE [Statement(cfg, ctx, c.res, "delete") EXCEPT !.ids = ids, !.filters = c.filters]

\* parse_filters refuses a field that is not filterable.  A field with no operator
\* passes and adds no clause.
FiltersDenied(cfg, c) == ~(DOMAIN c.filters \subseteq cfg.resources[c.res].filterable)

-----------------------------------------------------------------------------
(* ResourceService *)

\* build_select falls back to every readable column when the grant leaves none.
SelectColumns(cfg, ctx, c) ==
  LET cols == ReadableFields(cfg, ctx.dn, c.res)
  IN  IF cols = {} THEN cfg.resources[c.res].read ELSE cols

List(cfg, ctx, c) ==
  IF FiltersDenied(cfg, c) THEN Refuse(400, "FILTER_DENIED")
  ELSE Run(<<SelectFor(cfg, ctx, c, "count"),
             [SelectFor(cfg, ctx, c, "select") EXCEPT !.limit = c.limit, !.offset = c.offset]>>,
           SelectColumns(cfg, ctx, c))

Get(cfg, ctx, c) ==
  Run(<<[SelectFor(cfg, ctx, c, "select") EXCEPT !.ids = {c.id}, !.filters = <<>>]>>,
      SelectColumns(cfg, ctx, c))

\* Mutant of Stamp: the principal's DN where its tenant belongs.
StampPrincipal(cfg, ctx, res, item) ==
  IF cfg.resources[res].rowFilter
    THEN [f \in DOMAIN item \cup {"tenant_id"} |->
            IF f = "tenant_id" THEN ctx.dn ELSE item[f]]
    ELSE item

\* _inject_row_context: the context's tenant replaces whatever the payload says.
Stamp(cfg, ctx, res, item) ==
  IF cfg.resources[res].rowFilter
    THEN [f \in DOMAIN item \cup {"tenant_id"} |->
            IF f = "tenant_id" THEN ctx.tenant ELSE item[f]]
    ELSE item

Stamped(cfg, res) == IF cfg.resources[res].rowFilter THEN {"tenant_id"} ELSE {}

\* Each item stamped and cut down to the columns in cols.
Prepared(cfg, ctx, c, cols) ==
  [k \in DOMAIN c.items |->
     LET item == Stamp(cfg, ctx, c.res, c.items[k])
     IN  Restrict(item, DOMAIN item \cap cols)]

SameShape(items) == \A j, k \in DOMAIN items : DOMAIN items[j] = DOMAIN items[k]

InsertFor(cfg, ctx, c, items) ==
  [Statement(cfg, ctx, c.res, "insert") EXCEPT !.items = items]

\* create and batch_create: every field of the payload must be writable.
Create(cfg, ctx, c) ==
  LET writable == WritableFields(cfg, ctx.dn, c.res) \cup Stamped(cfg, c.res)
      items == Prepared(cfg, ctx, c, writable)
  IN  IF \E k \in DOMAIN c.items : ~(DOMAIN c.items[k] \subseteq writable \cup Managed)
        THEN Refuse(400, "FIELD_DENIED")
      ELSE IF ~SameShape(items) THEN Refuse(400, "BATCH_SHAPE_MISMATCH")
      ELSE Run(<<InsertFor(cfg, ctx, c, items)>>, Fields)

\* upsert: fields that are not writable are dropped; the conflict keys always pass.
Upsert(cfg, ctx, c) ==
  LET keys == cfg.resources[c.res].upsertKeys
      writable == WritableFields(cfg, ctx.dn, c.res) \cup Stamped(cfg, c.res) \cup keys
      items == Prepared(cfg, ctx, c, writable)
  IN  IF keys = {} THEN Refuse(400, "NO_UPSERT_KEYS")
      ELSE IF ~SameShape(items) THEN Refuse(400, "UPSERT_SHAPE_MISMATCH")
      ELSE Run(<<[InsertFor(cfg, ctx, c, items) EXCEPT
                    !.kind = "upsert", !.keys = keys,
                    !.updates = DOMAIN items[1] \ (keys \cup {"id"})]>>, Fields)

\* update and patch: an empty patch is answered as a get, with its own authorisation.
Mutate(cfg, ctx, c) ==
  LET values == c.items[1]
      getDenial == Denial(cfg, ctx.dn, c.res, "get")
  IN  IF ~(DOMAIN values \subseteq WritableFields(cfg, ctx.dn, c.res))
        THEN Refuse(400, "FIELD_DENIED")
      ELSE IF DOMAIN values # {}
        THEN Run(<<UpdateFor(cfg, ctx, c, {c.id}, values)>>, Fields)
      ELSE IF c.op = "update" THEN Refuse(400, "EMPTY_PAYLOAD")
      ELSE IF getDenial # "" THEN Refuse(403, getDenial)
      ELSE Get(cfg, ctx, [c EXCEPT !.withDeleted = FALSE])

\* A hard delete answers with the key alone, a soft one with the row.
Delete(cfg, ctx, c) ==
  Run(<<DeleteFor(cfg, ctx, [c EXCEPT !.filters = <<>>], {c.id})>>,
      IF cfg.resources[c.res].softDelete THEN Fields ELSE {"id"})

\* bulk_delete: with no ids the whole table is in scope, narrowed by the filters.  The
\* answer has the keys.
BulkDelete(cfg, ctx, c) ==
  IF FiltersDenied(cfg, c) THEN Refuse(400, "FILTER_DENIED")
  ELSE IF c.ids = {} /\ DOMAIN c.filters = {} THEN Refuse(400, "EMPTY_BULK_DELETE")
  ELSE Run(<<DeleteFor(cfg, ctx, c, IF c.ids = {} THEN Ids ELSE c.ids)>>, {"id"})

\* aggregate: the resource says what may be grouped by and summed; the grant is not asked.
Aggregate(cfg, ctx, c) ==
  IF FiltersDenied(cfg, c) THEN Refuse(400, "FILTER_DENIED")
  ELSE IF ~(c.groups \subseteq cfg.resources[c.res].groupBy) THEN Refuse(400, "GROUP_DENIED")
  ELSE IF ~(c.sums \subseteq cfg.resources[c.res].sumFields) THEN Refuse(400, "SUM_DENIED")
  ELSE Run(<<SelectFor(cfg, ctx, c, "count")>>, c.groups \cup c.sums)

Prepare(cfg, ctx, c) ==
  LET denial == Denial(cfg, ctx.dn, c.res, c.op)
  IN  IF denial # "" THEN Refuse(403, denial)
      ELSE IF c.op = "list" THEN List(cfg, ctx, c)
      ELSE IF c.op = "get" THEN Get(cfg, ctx, c)
      ELSE IF c.op \in {"create", "batch_create"} THEN Create(cfg, ctx, c)
      ELSE IF c.op = "upsert" THEN Upsert(cfg, ctx, c)
      ELSE IF c.op \in {"update", "patch"} THEN Mutate(cfg, ctx, c)
      ELSE IF c.op = "delete" THEN Delete(cfg, ctx, c)
      ELSE IF c.op = "bulk_delete" THEN BulkDelete(cfg, ctx, c)
      ELSE Aggregate(cfg, ctx, c)

-----------------------------------------------------------------------------
(* The request models pydantic builds from the configuration the process started *)
(* with: unknown fields are dropped, required ones must be there.                *)

ParsedItems(boot, c) ==
  [k \in DOMAIN c.items |->
     Restrict(c.items[k], DOMAIN c.items[k] \cap boot.resources[c.res].write)]

Required(boot, c) ==
  IF c.op \in {"create", "batch_create", "upsert"} THEN boot.resources[c.res].required
  ELSE IF c.op = "update" THEN boot.resources[c.res].write
  ELSE {}

BodyValid(boot, c) ==
  /\ c.op \in {"batch_create", "upsert"} => c.items # <<>>
  /\ \A k \in DOMAIN c.items : Required(boot, c) \subseteq DOMAIN c.items[k]
=============================================================================
