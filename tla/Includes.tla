------------------------------ MODULE Includes ------------------------------
(***************************************************************************)
(* A list or get with ?include=...: ResourceService.list_resources or get, *)
(* then _attach_includes, one relation after the other.  Each statement    *)
(* and each wait for it is a suspension point, so reloads and the writes   *)
(* of other requests fall in between: the base rows and the rows of each   *)
(* relation are read at different moments, and authorised by different     *)
(* configurations.                                                         *)
(*                                                                         *)
(* Configurations are those of AccessRules, each resource with             *)
(*   fields     all its declared fields                                    *)
(*   relations  name -> [resource, many, local, foreign]                   *)
(* Rows are functions from columns to values; readable columns exist and   *)
(* no value is NULL, as no key of a relation is in db/init.sql.            *)
(***************************************************************************)
EXTENDS AccessRules, Integers, Sequences, FiniteSets

CONSTANTS
  Versions, Configs, Boot, \* as in Gateway
  Dn,         \* the account the request works for
  Queries,    \* what the client may ask: [op, res, id, include, withDeleted]
  NoTenant,   \* no row filter
  Null,       \* None
  Table0,     \* resource -> set of rows, at first
  Edits,      \* resource -> rows that others may insert, or write over the one of their id
  MaxReloads, MaxWrites, \* bounds
  Rls         \* the database's policies are there

ASSUME IncludesAssumption ==
  /\ Boot \in Versions /\ "" \notin Versions
  /\ \A v \in Versions : DOMAIN Configs[v].resources \subseteq DOMAIN Table0
  /\ Dn \in DOMAIN Configs[Boot].accounts
  /\ \A v \in Versions : \A dn \in DOMAIN Configs[v].accounts :
       Configs[v].accounts[dn].tenant # NoTenant
  /\ \A q \in Queries : q.op \in {"list", "get"} /\ q.include \in Seq(STRING)
  /\ DOMAIN Edits = DOMAIN Table0
  /\ \A res \in DOMAIN Table0 : \A x \in Table0[res] \cup Edits[res] :
       /\ \A c \in DOMAIN x : x[c] # Null
       /\ \A v \in Versions : res \in DOMAIN Configs[v].resources =>
            Configs[v].resources[res].read \subseteq DOMAIN x
  /\ MaxReloads \in Nat /\ MaxWrites \in Nat /\ Rls \in BOOLEAN

VARIABLES
  live, reloads,  \* the live version
  tbl, writes,    \* resource -> set of rows
  stage,          \* "new", "select", "resume", "done"
  query,          \* what the client asked
  tenant,         \* ctx.tenant_id
  wanted,         \* relations still to attach; the first is being fetched
  statement,      \* the statement to run, or that ran: [res, tenant, live, by, keys]
  via,            \* version of related_acl, that filters what the statement returns
  source,         \* version of the config _attach_includes holds on to, "" before it runs
  rows,           \* what the statement returned
  base,           \* rows of the response
  shown,          \* the fields of each that it shows
  attached,       \* relation -> [rel, shown, rows : base row -> set of rows]
  code,           \* "OK", or the code of the refusal
  steady          \* history: resource -> rows nobody wrote since the request came

request == <<stage, query, tenant, wanted, statement, via, source, rows, base, shown,
             attached, code>>
vars == <<live, reloads, tbl, writes, steady, request>>

Config == Configs[live]
Resources == Config.resources

NoStatement == [res |-> "", tenant |-> NoTenant, live |-> FALSE, by |-> "id", keys |-> {}]

-----------------------------------------------------------------------------
(* Statements *)

Matching(q, t) ==
  {x \in t : /\ Rls => x["tenant_id"] = tenant
             /\ q.tenant # NoTenant => x["tenant_id"] = q.tenant
             /\ q.live => ~x["deleted_at"]
             /\ x[q.by] \in q.keys}

IdsOf(res) == {x["id"] : x \in tbl[res] \cup Edits[res]}

\* Mutant of Select: the row filters are forgotten.
SelectOfAnyTenant(res, forTenant, by, keys) ==
  [res |-> res, tenant |-> NoTenant,
   live |-> Resources[res].softDelete /\ ~query.withDeleted, by |-> by, keys |-> keys]

\* apply_row_filters and apply_soft_delete, with one more clause: by IN keys.
Select(res, forTenant, by, keys) ==
  [res |-> res,
   tenant |-> IF Resources[res].rowFilter THEN forTenant ELSE NoTenant,
   live |-> Resources[res].softDelete /\ ~query.withDeleted,
   by |-> by, keys |-> keys]

-----------------------------------------------------------------------------
(* The request *)

Refuse(reason) ==
  /\ stage' = "done"
  /\ code' = reason
  /\ UNCHANGED <<wanted, statement, via>>

\* Authorised, the statement is built; the page of a list is left out.
Start ==
  /\ stage = "new"
  /\ \/ /\ Denial(Config, Dn, query.res, query.op) # ""
        /\ Refuse(Denial(Config, Dn, query.res, query.op))
        /\ UNCHANGED shown
     \/ /\ Denial(Config, Dn, query.res, query.op) = ""
        /\ stage' = "select"
        /\ statement' = Select(query.res, tenant, "id",
                               IF query.op = "get" THEN {query.id} ELSE IdsOf(query.res))
        /\ shown' = IF ReadableFields(Config, Dn, query.res) = {}
                      THEN Resources[query.res].read
                      ELSE ReadableFields(Config, Dn, query.res)
        /\ UNCHANGED <<wanted, via, code>>
  /\ UNCHANGED <<live, reloads, tbl, writes, steady, query, tenant, source, rows, base,
                 attached>>

\* The database answers.
Fetch ==
  /\ stage = "select"
  /\ stage' = "resume"
  /\ rows' = Matching(statement, tbl[statement.res])
  /\ UNCHANGED <<live, reloads, tbl, writes, steady, query, tenant, wanted, statement, via,
                 source, base, shown, attached, code>>

\* What a presented row gives for a column: None when it is not shown.
Cell(x, fields, column) == IF column \in fields THEN x[column] ELSE Null

\* Mutant of LocalKeys: the key of one row only.
LocalKeysOfOne(some, fields, column) ==
  LET keys == {Cell(b, fields, column) : b \in some} \ {Null}
  IN  {k \in keys : k = CHOOSE one \in keys : TRUE}

LocalKeys(some, fields, column) == {Cell(b, fields, column) : b \in some} \ {Null}

\* The next relation of left is looked up in the configuration held since the base query,
\* its resource and its grant in the live one.  With no keys the statement is
\* WHERE FALSE, and the foreign column is not looked at.
Attach(version, some, fields, left) ==
  LET relations == Configs[version].resources[query.res].relations
      name == Head(left)
      rel == relations[name]
      keys == LocalKeys(some, fields, rel.local)
  IN  \/ /\ left = <<>>
         /\ stage' = "done"
         /\ code' = "OK"
         /\ wanted' = left
         /\ UNCHANGED <<statement, via>>
      \/ /\ left # <<>>
         /\ \/ name \notin DOMAIN relations /\ Refuse("BAD_INCLUDE")
            \/ /\ name \in DOMAIN relations
               /\ \/ rel.resource \notin DOMAIN Resources /\ Refuse("NOT_FOUND")
                  \/ /\ rel.resource \in DOMAIN Resources
                     /\ \/ /\ keys # {} /\ rel.foreign \notin Resources[rel.resource].fields
                           /\ Refuse("IDENTIFIER_DENIED")
                        \/ /\ keys = {} \/ rel.foreign \in Resources[rel.resource].fields
                           /\ \/ /\ Denial(Config, Dn, rel.resource, "list") # ""
                                 /\ Refuse(Denial(Config, Dn, rel.resource, "list"))
                              \/ /\ Denial(Config, Dn, rel.resource, "list") = ""
                                 /\ stage' = "select"
                                 /\ wanted' = left
                                 /\ statement' = Select(rel.resource, tenant, rel.foreign, keys)
                                 /\ via' = live
                                 /\ UNCHANGED code

\* The base rows are here: presented under the live grant, as the rows to attach to.
Present ==
  /\ stage = "resume" /\ source = ""
  /\ LET fields == ReadableFields(Config, Dn, query.res) \cap shown
         gone == query.res \notin DOMAIN Resources
     IN  \/ /\ \/ query.op = "get" /\ rows = {}
               \/ gone /\ (rows # {} \/ wanted # <<>>)
            /\ Refuse("NOT_FOUND")
            /\ UNCHANGED <<source, base, shown>>
         \/ /\ ~(query.op = "get" /\ rows = {})
            /\ ~(gone /\ (rows # {} \/ wanted # <<>>))
            /\ source' = live
            /\ base' = rows
            /\ shown' = fields
            /\ Attach(live, rows, fields, wanted)
  /\ UNCHANGED <<live, reloads, tbl, writes, steady, query, tenant, rows, attached>>

\* Mutant of Matches: rows are not told apart by their key.
MatchesAny(b, fields, rel, relFields, some) ==
  {x \in some : Cell(b, fields, rel.local) # Null}

\* by_fk: the related rows are indexed by their key as it is shown.
Matches(b, fields, rel, relFields, some) ==
  {x \in some : Cell(x, relFields, rel.foreign) = Cell(b, fields, rel.local)}

\* The whole list, or its first row.
Chosen(many, matches) ==
  IF many THEN {matches}
  ELSE IF matches = {} THEN {{}}
  ELSE {{x} : x \in matches}

\* related_acl, made before the query.
RelatedFields(rel) == ReadableFields(Configs[via], Dn, rel.resource)

\* The rows of the first wanted relation are here: joined, and on to the next.
Join ==
  /\ stage = "resume" /\ source # ""
  /\ LET name == Head(wanted)
         rel == Configs[source].resources[query.res].relations[name]
         fields == RelatedFields(rel)
         found == [b \in base |-> Matches(b, shown, rel, fields, rows)]
     IN  /\ \E joined \in [base -> SUBSET rows] :
              /\ \A b \in base : joined[b] \in Chosen(rel.many, found[b])
              /\ attached' = [n \in DOMAIN attached \cup {name} |->
                                IF n = name
                                  THEN [rel |-> rel, shown |-> fields, rows |-> joined]
                                  ELSE attached[n]]
         /\ Attach(source, base, shown, Tail(wanted))
  /\ UNCHANGED <<live, reloads, tbl, writes, steady, query, tenant, source, rows, base, shown>>

-----------------------------------------------------------------------------
(* The others *)

Reload(v) ==
  /\ reloads < MaxReloads
  /\ live' = v
  /\ reloads' = reloads + 1
  /\ UNCHANGED <<tbl, writes, steady, request>>

\* Another request writes: the rows of res become t.
Change(res, t) ==
  /\ writes < MaxWrites
  /\ tbl' = [tbl EXCEPT ![res] = t]
  /\ writes' = writes + 1
  /\ steady' = [steady EXCEPT ![res] = @ \cap t]
  /\ UNCHANGED <<live, reloads, request>>

\* The foreign keys of init.sql: the rows that x refers to.
References(x) == {x[c] : c \in DOMAIN x \ {"id", "tenant_id", "deleted_at"}}

Put(res, x) ==
  /\ References(x) \subseteq UNION {{y["id"] : y \in tbl[other]} : other \in DOMAIN tbl}
  /\ Change(res, {y \in tbl[res] : y["id"] # x["id"]} \cup {x})

Erase(res, x) ==
  /\ \A other \in DOMAIN tbl : \A y \in tbl[other] : x["id"] \notin References(y)
  /\ Change(res, tbl[res] \ {x})

Finished == stage = "done" /\ UNCHANGED vars

Init ==
  /\ live = Boot
  /\ reloads = 0
  /\ tbl = Table0
  /\ writes = 0
  /\ stage = "new"
  /\ query \in Queries
  /\ tenant = Configs[Boot].accounts[Dn].tenant
  /\ wanted = query.include
  /\ statement = NoStatement
  /\ via = Boot
  /\ source = ""
  /\ rows = {}
  /\ base = {}
  /\ shown = {}
  /\ attached = <<>>
  /\ code = ""
  /\ steady = Table0

Serve == Start \/ Fetch \/ Present \/ Join

Next ==
  \/ Serve
  \/ \E v \in Versions : Reload(v)
  \/ \E res \in DOMAIN tbl : \E x \in Edits[res] : Put(res, x)
  \/ \E res \in DOMAIN tbl : \E x \in tbl[res] : Erase(res, x)
  \/ Finished

Spec == Init /\ [][Next]_vars

-----------------------------------------------------------------------------
(* Properties *)

Answered == stage = "done" /\ code = "OK"

\* Every row in a response, included ones too, is of the request's tenant, and none was
\* soft-deleted when it was read unless the client asked for such rows
\* (access-control/spec.md:53, query-engine/spec.md:38-43).
IncludedVisible ==
  \A name \in DOMAIN attached : \A b \in base : \A x \in {b} \cup attached[name].rows[b] :
    /\ x["tenant_id"] = tenant
    /\ ~query.withDeleted /\ "deleted_at" \in DOMAIN x => ~x["deleted_at"]

\* A row is attached to the rows it belongs to and to no other, whatever a reload does to
\* grants and relations between the queries (query-engine/spec.md:49-52).
IncludedRelated ==
  \A name \in DOMAIN attached : \A b \in base : \A x \in attached[name].rows[b] :
    x[attached[name].rel.foreign] = b[attached[name].rel.local]

\* A related row that was there from the request's start to its answer is not missing, when
\* the grants show both keys: a relation to many has all of them, one to one has one.
IncludesComplete ==
  Answered => \A name \in DOMAIN attached : \A b \in base :
    LET rel == attached[name].rel
        related == {x \in steady[rel.resource] :
                      /\ x[rel.foreign] = b[rel.local] /\ x["tenant_id"] = tenant
                      /\ "deleted_at" \in DOMAIN x => ~x["deleted_at"]}
    IN  rel.local \in shown /\ rel.foreign \in attached[name].shown =>
          IF rel.many THEN related \subseteq attached[name].rows[b]
          ELSE related # {} => attached[name].rows[b] # {}
=============================================================================
