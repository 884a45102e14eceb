--------------------------- MODULE Includes_proofs ---------------------------
(***************************************************************************)
(* Includes, for any configurations, relations, rows, reloads and writes:  *)
(* what is attached belongs and is visible to the tenant, and nothing that *)
(* nobody writes is missing.                                               *)
(***************************************************************************)
EXTENDS Includes, TLAPS

Pool(res) == Table0[res] \cup Edits[res]

\* Either layer hides other tenants' rows, and a table with a mark for deleted rows is
\* configured for soft deletes.
Guarded ==
  \A v \in Versions : \A res \in DOMAIN Configs[v].resources :
    /\ Rls \/ Configs[v].resources[res].rowFilter
    /\ \/ Configs[v].resources[res].softDelete
       \/ \A x \in Pool(res) : "deleted_at" \notin DOMAIN x

Visible(x) ==
  /\ x["tenant_id"] = tenant
  /\ ~query.withDeleted /\ "deleted_at" \in DOMAIN x => ~x["deleted_at"]

\* The statement shows nothing else.
Hides(q) ==
  /\ Rls \/ q.tenant = tenant
  /\ query.withDeleted \/ q.live \/ \A x \in Pool(q.res) : "deleted_at" \notin DOMAIN x

Rel(version, name) == Configs[version].resources[query.res].relations[name]

World ==
  /\ live \in Versions /\ tenant # NoTenant
  /\ \A res \in DOMAIN Table0 : tbl[res] \subseteq Pool(res)
  /\ DOMAIN tbl = DOMAIN Table0

\* The statement that runs is about a known table and guarded; what it returned is what it
\* asks for.
Running ==
  /\ stage \in {"select", "resume"} => statement.res \in DOMAIN Table0 /\ Hides(statement)
  /\ stage = "resume" =>
       \A x \in rows : /\ x \in Pool(statement.res) /\ Visible(x)
                       /\ x[statement.by] \in statement.keys

\* Before the relations there is the base query.
First ==
  /\ stage = "new" => source = ""
  /\ source = "" => /\ base = {} /\ DOMAIN attached = {}
                    /\ stage \in {"select", "resume"} => statement.res = query.res

\* A base row has every field that is shown.
Based ==
  source # "" => /\ source \in Versions
                 /\ \A b \in base : /\ Visible(b)
                                    /\ \A c \in shown : c \in DOMAIN b /\ b[c] # Null

\* The statement for a relation asks for the keys that the base rows show.
Relating ==
  source # "" /\ stage \in {"select", "resume"} =>
    LET rel == Rel(source, Head(wanted))
    IN  /\ statement.res = rel.resource
        /\ statement.by = rel.foreign
        /\ statement.keys = LocalKeys(base, shown, rel.local)

\* What is attached belongs, and is visible.
Belongs(r) ==
  \A b \in base : \A x \in r.rows[b] : Visible(x) /\ x[r.rel.foreign] = b[r.rel.local]

AllBelong == \A name \in DOMAIN attached : Belongs(attached[name])

IncludesInv == World /\ Running /\ First /\ Based /\ Relating /\ AllBelong

-----------------------------------------------------------------------------

LEMMA PermittedKnown ==
  ASSUME NEW cfg, NEW res, NEW op, Denial(cfg, Dn, res, op) = ""
  PROVE  res \in DOMAIN cfg.resources
<1> SUFFICES ASSUME ~Allow(cfg, Dn, res) PROVE FALSE
  BY DEF Allow
<1>1. Denial(cfg, Dn, res, op) = "AUTHZ_DENIED"
  BY DEF Denial
<1> QED  BY <1>1

\* A built statement shows nothing of another tenant, nor a deleted row.
LEMMA SelectHides ==
  ASSUME Guarded, World, NEW res \in DOMAIN Resources, NEW by, NEW keys
  PROVE  /\ Hides(Select(res, tenant, by, keys))
         /\ Select(res, tenant, by, keys).res = res
         /\ res \in DOMAIN Table0
<1> DEFINE q == Select(res, tenant, by, keys)
<1>1. /\ live \in Versions /\ res \in DOMAIN Table0
  BY IncludesAssumption DEF World, Resources, Config
<1>2. /\ Rls \/ Resources[res].rowFilter
      /\ Resources[res].softDelete \/ \A x \in Pool(res) : "deleted_at" \notin DOMAIN x
  BY <1>1 DEF Guarded, Resources, Config
<1>3. /\ q.res = res
      /\ q.tenant = IF Resources[res].rowFilter THEN tenant ELSE NoTenant
      /\ q.live = (Resources[res].softDelete /\ ~query.withDeleted)
  BY DEF Select
<1> QED  BY <1>1, <1>2, <1>3 DEF Hides

\* What the database returns for such a statement.
LEMMA MatchingVisible ==
  ASSUME World, NEW q, Hides(q), NEW t, t \subseteq Pool(q.res), NEW x \in Matching(q, t)
  PROVE  x \in Pool(q.res) /\ Visible(x) /\ x[q.by] \in q.keys
<1>1. /\ x \in t /\ x[q.by] \in q.keys
      /\ Rls => x["tenant_id"] = tenant
      /\ q.tenant # NoTenant => x["tenant_id"] = q.tenant
      /\ q.live => ~x["deleted_at"]
  BY DEF Matching
<1>2. x["tenant_id"] = tenant
  BY <1>1 DEF Hides, World
<1>3. ~query.withDeleted /\ "deleted_at" \in DOMAIN x => ~x["deleted_at"]
  BY <1>1 DEF Hides
<1> QED  BY <1>1, <1>2, <1>3 DEF Visible

LEMMA InitIncludes == Init => IncludesInv
<1> SUFFICES ASSUME Init PROVE IncludesInv
  OBVIOUS
<1>1. /\ stage = "new" /\ source = ""
      /\ base = {} /\ DOMAIN attached = {}
  <2>1. stage = "new" /\ source = ""
    BY Zenon DEF Init
  <2>2. base = {} /\ attached = <<>>
    BY Zenon DEF Init
  <2>3. DOMAIN <<>> = {}
    OBVIOUS
  <2> QED  BY <2>1, <2>2, <2>3
<1>2. World
  <2>1. /\ live = Boot /\ tbl = Table0 /\ tenant = Configs[Boot].accounts[Dn].tenant
    BY DEF Init
  <2>2. /\ Boot \in Versions /\ Dn \in DOMAIN Configs[Boot].accounts
        /\ \A v \in Versions : \A dn \in DOMAIN Configs[v].accounts :
             Configs[v].accounts[dn].tenant # NoTenant
    BY IncludesAssumption
  <2>3. tenant # NoTenant
    BY <2>1, <2>2
  <2> QED  BY <2>1, <2>2, <2>3 DEF World, Pool
<1>3. Running
  BY <1>1 DEF Running
<1>4. First /\ Based /\ Relating /\ AllBelong
  BY <1>1 DEF First, Based, Relating, AllBelong
<1> QED  BY <1>2, <1>3, <1>4 DEF IncludesInv

-----------------------------------------------------------------------------
(* Steps *)

\* A step that refuses or finishes, and changes neither base rows nor what is attached.
LEMMA DoneIncludes ==
  ASSUME IncludesInv, stage' = "done",
         UNCHANGED <<live, tbl, query, tenant, source, base, attached>>, shown' = shown
  PROVE  IncludesInv'
<1>1. World'
  BY DEF IncludesInv, World
<1>2. Running' /\ First' /\ Relating'
  BY DEF IncludesInv, Running, First, Relating
<1>3. Based'
  BY DEF IncludesInv, Based, Visible
<1>4. AllBelong'
  BY DEF IncludesInv, AllBelong, Belongs, Visible
<1> QED  BY <1>1, <1>2, <1>3, <1>4 DEF IncludesInv

LEMMA StartIncludes == ASSUME Guarded, IncludesInv, Start PROVE IncludesInv'
<1>1. /\ stage = "new" /\ UNCHANGED <<live, tbl, query, tenant, source, base, attached>>
      /\ UNCHANGED rows
  BY DEF Start
<1>2. CASE stage' = "done" /\ UNCHANGED shown
  BY <1>1, <1>2, DoneIncludes
<1>3. CASE /\ query.res \in DOMAIN Resources
           /\ stage' = "select"
           /\ \E by, keys : statement' = Select(query.res, tenant, by, keys)
  <2>1. /\ stage = "new" => source = ""
        /\ source = "" /\ source' = ""
    BY <1>1 DEF IncludesInv, First
  <2>2. /\ statement'.res = query.res /\ Hides(statement')
        /\ query.res \in DOMAIN Table0
    BY <1>3, SelectHides DEF IncludesInv
  <2>3. World'
    BY <1>1 DEF IncludesInv, World
  <2>4. Running'
    BY <1>1, <1>3, <2>2 DEF Running, Hides
  <2>5. First' /\ Based' /\ Relating'
    BY <1>1, <2>1, <2>2 DEF IncludesInv, First, Based, Relating
  <2>6. AllBelong'
    BY <1>1, <2>1 DEF IncludesInv, First, AllBelong
  <2> QED  BY <2>3, <2>4, <2>5, <2>6 DEF IncludesInv
<1> QED
  <2>1. Denial(Config, Dn, query.res, query.op) = "" => query.res \in DOMAIN Resources
    BY PermittedKnown DEF Resources
  <2> QED  BY <1>2, <1>3, <2>1 DEF Start, Refuse

LEMMA FetchIncludes == ASSUME IncludesInv, Fetch PROVE IncludesInv'
<1>1. /\ stage = "select" /\ stage' = "resume"
      /\ rows' = Matching(statement, tbl[statement.res])
      /\ UNCHANGED <<live, tbl, query, tenant, wanted, statement, via, source, base, shown,
                     attached>>
  BY DEF Fetch
<1>2. statement.res \in DOMAIN Table0 /\ Hides(statement)
  BY <1>1 DEF IncludesInv, Running
<1>3. \A x \in rows' : /\ x \in Pool(statement.res) /\ Visible(x)
                       /\ x[statement.by] \in statement.keys
  <2>1. tbl[statement.res] \subseteq Pool(statement.res)
    BY <1>2 DEF IncludesInv, World
  <2> QED  BY <1>1, <1>2, <2>1, MatchingVisible DEF IncludesInv
<1>4. World'
  BY <1>1 DEF IncludesInv, World
<1>5. Running'
  BY <1>1, <1>2, <1>3 DEF Running, Hides, Visible
<1>6. First' /\ Based'
  BY <1>1 DEF IncludesInv, First, Based, Visible
<1>7. Relating'
  BY <1>1 DEF IncludesInv, Relating, Rel
<1>8. AllBelong'
  BY <1>1 DEF IncludesInv, AllBelong, Belongs, Visible
<1> QED  BY <1>4, <1>5, <1>6, <1>7, <1>8 DEF IncludesInv

\* _attach_includes ends, or starts the query of the next relation.
LEMMA Attaching ==
  ASSUME NEW version, NEW some, NEW fields, NEW left, Attach(version, some, fields, left)
  PROVE  LET rel == Rel(version, Head(left)) IN
         \/ stage' = "done"
         \/ /\ stage' = "select"
            /\ wanted' = left
            /\ rel.resource \in DOMAIN Resources
            /\ statement' = Select(rel.resource, tenant, rel.foreign,
                                   LocalKeys(some, fields, rel.local))
  BY Zenon DEF Attach, Rel, Refuse

\* The query it starts is guarded and asks for the keys of the base rows.
LEMMA AttachingQuery ==
  ASSUME Guarded, IncludesInv, NEW version, NEW left, Attach(version, base', shown', left),
         UNCHANGED <<live, tbl, query, tenant>>, source' = version, source' # "",
         stage = "resume"
  PROVE  Running' /\ Relating'
<1> DEFINE rel == Rel(version, Head(left))
<1>1. CASE stage' = "done"
  BY <1>1 DEF Running, Relating
<1>2. CASE /\ stage' = "select"
           /\ wanted' = left
           /\ rel.resource \in DOMAIN Resources
           /\ statement' = Select(rel.resource, tenant, rel.foreign,
                                  LocalKeys(base', shown', rel.local))
  <2>1. /\ Hides(statement') /\ statement'.res \in DOMAIN Table0
    BY <1>2, SelectHides DEF IncludesInv
  <2>2. Running'
    BY <1>2, <2>1 DEF Running, Hides
  <2>3. /\ statement'.res = rel.resource
        /\ statement'.by = rel.foreign
        /\ statement'.keys = LocalKeys(base', shown', rel.local)
    BY <1>2 DEF Select
  <2>4. Rel(source, Head(wanted))' = rel
    BY <1>2 DEF Rel
  <2> HIDE DEF rel
  <2>5. statement'.keys = LocalKeys(base, shown, Rel(source, Head(wanted)).local)'
    BY <2>3, <2>4 DEF LocalKeys, Cell
  <2>6. Relating'
    BY <2>3, <2>4, <2>5 DEF Relating
  <2> QED  BY <2>2, <2>6
<1> QED  BY <1>1, <1>2, Attaching

LEMMA PresentIncludes == ASSUME Guarded, IncludesInv, Present PROVE IncludesInv'
<1> DEFINE fields == ReadableFields(Config, Dn, query.res) \cap shown
<1>1. /\ stage = "resume"
      /\ UNCHANGED <<live, tbl, query, tenant, rows, attached>>
  BY DEF Present
<1>2. source = ""
  BY Zenon DEF Present
<1>3. CASE stage' = "done" /\ UNCHANGED <<source, base, shown>>
  BY <1>1, <1>3, DoneIncludes
<1>4. CASE /\ rows # {} => query.res \in DOMAIN Resources
           /\ source' = live /\ base' = rows /\ shown' = fields
           /\ Attach(live, rows, fields, wanted)
  <2>1. live \in Versions /\ live # ""
    BY IncludesAssumption DEF IncludesInv, World
  <2>2. source' # ""
    BY <1>4, <2>1
  <2>3. /\ DOMAIN attached = {} /\ statement.res = query.res
        /\ \A x \in rows : x \in Pool(query.res) /\ Visible(x)
    BY <1>1, <1>2 DEF IncludesInv, First, Running
  <2>4. Attach(live, base', shown', wanted)
    BY <1>4
  <2>5. Running' /\ Relating'
    BY <1>1, <1>4, <2>2, <2>4, AttachingQuery
  <2>6. World'
    BY <1>1 DEF IncludesInv, World
  <2>7. First'
    <3>1. stage' # "new"
      BY <2>4, Attaching
    <3> QED  BY <3>1, <2>2 DEF First
  <2>8. Based'
    <3>1. ASSUME NEW b \in rows, NEW c \in fields
          PROVE  c \in DOMAIN b /\ b[c] # Null
      <4>1. query.res \in DOMAIN Configs[live].resources
        BY <1>4 DEF Resources, Config
      <4>2. /\ query.res \in DOMAIN Table0
            /\ b \in Table0[query.res] \cup Edits[query.res]
        BY <2>1, <2>3, <4>1, IncludesAssumption DEF Pool
      <4>3. c \in Configs[live].resources[query.res].read
        BY <3>1 DEF ReadableFields, Limit, Config
      <4>4. /\ Configs[live].resources[query.res].read \subseteq DOMAIN b
            /\ \A d \in DOMAIN b : b[d] # Null
        BY <2>1, <4>1, <4>2, IncludesAssumption
      <4> QED  BY <4>3, <4>4
    <3>2. \A b \in base' : Visible(b)'
      BY <1>1, <1>4, <2>3 DEF Visible
    <3> HIDE DEF fields
    <3> QED  BY <1>4, <2>1, <3>1, <3>2 DEF Based
  <2>9. AllBelong'
    BY <1>1, <2>3 DEF AllBelong
  <2> QED  BY <2>5, <2>6, <2>7, <2>8, <2>9 DEF IncludesInv
<1> QED
  <2>1. \/ stage' = "done" /\ UNCHANGED <<source, base, shown>>
        \/ /\ ~(query.res \notin DOMAIN Resources /\ (rows # {} \/ wanted # <<>>))
           /\ source' = live /\ base' = rows /\ shown' = fields
           /\ Attach(live, rows, fields, wanted)
    BY Zenon DEF Present, Refuse
  <2> QED  BY <1>3, <1>4, <2>1

\* Rows that share a key as it is shown share the key: the query asked for keys that the
\* base rows show, so an empty cell matches nothing that came back.
LEMMA JoinedBelong ==
  ASSUME IncludesInv, stage = "resume", source # "",
         NEW b \in base,
         NEW x \in Matches(b, shown, Rel(source, Head(wanted)),
                           RelatedFields(Rel(source, Head(wanted))), rows)
  PROVE  /\ Visible(x)
         /\ x[Rel(source, Head(wanted)).foreign] = b[Rel(source, Head(wanted)).local]
<1> DEFINE rel == Rel(source, Head(wanted))
           fields == RelatedFields(rel)
<1>1. x \in rows /\ Cell(x, fields, rel.foreign) = Cell(b, shown, rel.local)
  BY DEF Matches
<1>2. Visible(x) /\ x[rel.foreign] \in LocalKeys(base, shown, rel.local)
  BY <1>1 DEF IncludesInv, Running, Relating
<1> HIDE DEF rel, fields
<1>3. rel.local \in shown
  BY <1>2 DEF LocalKeys, Cell
<1>4. Cell(b, shown, rel.local) = b[rel.local] /\ b[rel.local] # Null
  BY <1>3 DEF IncludesInv, Based, Cell
<1>5. Cell(x, fields, rel.foreign) = x[rel.foreign]
  BY <1>1, <1>4 DEF Cell
<1>6. x[rel.foreign] = b[rel.local]
  BY <1>1, <1>4, <1>5
<1> QED  BY <1>2, <1>6 DEF rel

LEMMA JoinIncludes == ASSUME Guarded, IncludesInv, Join PROVE IncludesInv'
<1> DEFINE rel == Rel(source, Head(wanted))
           fields == RelatedFields(rel)
           found == [b \in base |-> Matches(b, shown, rel, fields, rows)]
           entry(joined) == [rel |-> rel, shown |-> fields, rows |-> joined]
<1>1. /\ stage = "resume"
      /\ UNCHANGED <<live, tbl, query, tenant, source, rows, base, shown>>
      /\ Attach(source, base, shown, Tail(wanted))
  BY DEF Join
<1>2. source # ""
  BY Zenon DEF Join
<1>3. Attach(source, base', shown', Tail(wanted)) /\ source' = source /\ source' # ""
  BY <1>1, <1>2
<1>4. Running' /\ Relating'
  BY <1>1, <1>3, AttachingQuery
<1>5. World'
  BY <1>1 DEF IncludesInv, World
<1>6. First'
  <2>1. stage' # "new"
    BY <1>3, Attaching
  <2> QED  BY <2>1, <1>3 DEF First
<1>7. Based'
  BY <1>1 DEF IncludesInv, Based, Visible
<1>8. AllBelong'
  <2>1. PICK joined \in [base -> SUBSET rows] :
          /\ \A b \in base : joined[b] \in Chosen(rel.many, found[b])
          /\ attached' = [n \in DOMAIN attached \cup {Head(wanted)} |->
                            IF n = Head(wanted) THEN entry(joined) ELSE attached[n]]
    BY DEF Join, Rel
  <2>2. \A b \in base : joined[b] \subseteq Matches(b, shown, rel, fields, rows)
    BY <2>1 DEF Chosen
  <2>3. \A b \in base : \A x \in joined[b] : Visible(x) /\ x[rel.foreign] = b[rel.local]
    BY <1>1, <1>2, <2>2, JoinedBelong
  <2> HIDE DEF rel, fields
  <2>4. PICK r : r = entry(joined)
    OBVIOUS
  <2>5. Belongs(r)'
    <3>1. r.rel = rel /\ r.rows = joined
      BY <2>4
    <3> QED  BY <1>1, <2>3, <3>1 DEF Belongs, Visible
  <2>6. ASSUME NEW n \in DOMAIN attached, n # Head(wanted)
        PROVE  Belongs(attached[n])'
    <3>1. Belongs(attached[n]) /\ attached'[n] = attached[n]
      BY <2>1, <2>6 DEF IncludesInv, AllBelong
    <3> QED  BY <1>1, <3>1 DEF Belongs, Visible
  <2>7. /\ DOMAIN attached' = DOMAIN attached \cup {Head(wanted)}
        /\ attached'[Head(wanted)] = r
    BY <2>1, <2>4
  <2>8. \A n \in DOMAIN attached' : Belongs(attached[n])'
    <3>1. ASSUME NEW n \in DOMAIN attached' PROVE Belongs(attached[n])'
      <4>1. CASE n = Head(wanted)
        BY <2>7, <2>5, <4>1 DEF Belongs
      <4>2. CASE n # Head(wanted)
        BY <2>6, <2>7, <4>2 DEF Belongs
      <4> QED  BY <4>1, <4>2
    <3> QED  BY <3>1
  <2> QED  BY <2>8 DEF AllBelong
<1> QED  BY <1>4, <1>5, <1>6, <1>7, <1>8 DEF IncludesInv

\* The others leave the request alone, and the tables hold rows of the pool only.
LEMMA OthersInclude ==
  ASSUME IncludesInv, World', UNCHANGED request
  PROVE  IncludesInv'
<1>1. UNCHANGED <<stage, query, tenant, wanted, statement, via, source, rows, base, shown,
                  attached>>
  BY DEF request
<1>2. Running' /\ First' /\ Based'
  BY <1>1 DEF IncludesInv, Running, First, Based, Hides, Visible
<1>3. Relating'
  BY <1>1 DEF IncludesInv, Relating, Rel
<1>4. AllBelong'
  BY <1>1 DEF IncludesInv, AllBelong, Belongs, Visible
<1> QED  BY <1>2, <1>3, <1>4 DEF IncludesInv

LEMMA NextIncludes == ASSUME Guarded PROVE IncludesInv /\ [Next]_vars => IncludesInv'
<1> SUFFICES ASSUME IncludesInv, [Next]_vars PROVE IncludesInv'
  OBVIOUS
<1>1. CASE Serve
  BY <1>1, StartIncludes, FetchIncludes, PresentIncludes, JoinIncludes DEF Serve
<1>2. ASSUME NEW v \in Versions, Reload(v) PROVE IncludesInv'
  <2>1. World'
    BY <1>2 DEF IncludesInv, World, Reload, request
  <2> QED  BY <1>2, <2>1, OthersInclude DEF Reload
<1>3. ASSUME NEW res \in DOMAIN tbl, NEW t \in SUBSET Pool(res), Change(res, t)
      PROVE  IncludesInv'
  <2>1. World'
    BY <1>3 DEF IncludesInv, World, Change, request
  <2> QED  BY <1>3, <2>1, OthersInclude DEF Change
<1>4. ASSUME NEW res \in DOMAIN tbl, NEW x \in Edits[res], Put(res, x) PROVE IncludesInv'
  <2>1. {y \in tbl[res] : y["id"] # x["id"]} \cup {x} \subseteq Pool(res)
    BY DEF IncludesInv, World, Pool
  <2> QED  BY <1>3, <1>4, <2>1 DEF Put
<1>5. ASSUME NEW res \in DOMAIN tbl, NEW x \in tbl[res], Erase(res, x) PROVE IncludesInv'
  <2>1. tbl[res] \ {x} \subseteq Pool(res)
    BY DEF IncludesInv, World
  <2> QED  BY <1>3, <1>5, <2>1 DEF Erase
<1>6. CASE UNCHANGED vars
  <2>1. UNCHANGED <<live, tbl>> /\ UNCHANGED request
    BY <1>6 DEF vars
  <2>2. UNCHANGED tenant
    BY <2>1 DEF request
  <2>3. World'
    BY <2>1, <2>2 DEF IncludesInv, World
  <2> QED  BY <2>1, <2>3, OthersInclude
<1> QED  BY <1>1, <1>2, <1>4, <1>5, <1>6 DEF Next, Finished

LEMMA AlwaysIncludes == ASSUME Guarded PROVE Spec => []IncludesInv
<1>1. IncludesInv /\ [Next]_vars => IncludesInv'
  BY NextIncludes
<1> QED  BY InitIncludes, <1>1, PTL DEF Spec

-----------------------------------------------------------------------------

\* Whatever reloads and writes fall between the queries, every row of a response is of the
\* request's tenant and not deleted.
THEOREM IncludesVisible == ASSUME Guarded PROVE Spec => []IncludedVisible
<1>1. IncludesInv => IncludedVisible
  <2>1. IncludesInv => \A b \in base : Visible(b) \/ DOMAIN attached = {}
    BY DEF IncludesInv, First, Based
  <2>2. IncludesInv => \A name \in DOMAIN attached : \A b \in base :
                         \A x \in attached[name].rows[b] : Visible(x)
    BY DEF IncludesInv, AllBelong, Belongs
  <2> QED  BY <2>1, <2>2 DEF IncludedVisible, Visible
<1> QED  BY AlwaysIncludes, <1>1, PTL

\* A related row is attached to the rows it belongs to and to no other.
THEOREM IncludesRelated == ASSUME Guarded PROVE Spec => []IncludedRelated
<1>1. IncludesInv => IncludedRelated
  BY DEF IncludesInv, AllBelong, Belongs, IncludedRelated
<1> QED  BY AlwaysIncludes, <1>1, PTL

-----------------------------------------------------------------------------
(* Nothing is missing *)

\* A table that is configured for soft deletes has a mark for deleted rows.
DeletesMarked ==
  \A v \in Versions : \A res \in DOMAIN Configs[v].resources :
    Configs[v].resources[res].softDelete =>
      \A x \in Pool(res) : "deleted_at" \in DOMAIN x

Undeleted(x) == "deleted_at" \in DOMAIN x => ~x["deleted_at"]

Related(rel, b) ==
  {x \in steady[rel.resource] :
     x[rel.foreign] = b[rel.local] /\ x["tenant_id"] = tenant /\ Undeleted(x)}

Untouched ==
  /\ DOMAIN steady = DOMAIN Table0
  /\ \A res \in DOMAIN Table0 : steady[res] \subseteq tbl[res]

\* The statement hides none of the tenant's rows but deleted ones.
Finds(q) ==
  /\ q.tenant \in {NoTenant, tenant}
  /\ q.live => \A x \in Pool(q.res) : "deleted_at" \in DOMAIN x

\* What it asks for and nobody wrote is among what it returned.
Returned ==
  /\ stage = "select" => Finds(statement)
  /\ stage = "resume" =>
       \A x \in steady[statement.res] :
         x["tenant_id"] = tenant /\ Undeleted(x) /\ x[statement.by] \in statement.keys =>
           x \in rows

Whole(r) ==
  /\ r.rel.resource \in DOMAIN Table0
  /\ \A b \in base : r.rel.local \in shown /\ r.rel.foreign \in r.shown =>
       IF r.rel.many THEN Related(r.rel, b) \subseteq r.rows[b]
       ELSE Related(r.rel, b) # {} => r.rows[b] # {}

AllWhole == \A name \in DOMAIN attached : Whole(attached[name])

CompleteInv == IncludesInv /\ Untouched /\ Returned /\ AllWhole

LEMMA InitComplete == Init => CompleteInv
<1> SUFFICES ASSUME Init PROVE CompleteInv
  OBVIOUS
<1>1. IncludesInv
  BY InitIncludes
<1>2. stage = "new" /\ steady = Table0 /\ tbl = Table0
  BY Zenon DEF Init
<1>3. DOMAIN attached = {}
  <2>1. attached = <<>>
    BY Zenon DEF Init
  <2> QED  BY <2>1
<1> QED  BY <1>1, <1>2, <1>3 DEF CompleteInv, Untouched, Returned, AllWhole

LEMMA SelectFinds ==
  ASSUME DeletesMarked, World, NEW res \in DOMAIN Resources, NEW by, NEW keys
  PROVE  Finds(Select(res, tenant, by, keys))
<1> DEFINE q == Select(res, tenant, by, keys)
<1>1. live \in Versions
  BY DEF World
<1>2. /\ q.res = res
      /\ q.tenant \in {NoTenant, tenant}
      /\ q.live => Resources[res].softDelete
  BY DEF Select
<1>3. Resources[res].softDelete => \A x \in Pool(res) : "deleted_at" \in DOMAIN x
  BY <1>1 DEF DeletesMarked, Resources, Config
<1> QED  BY <1>2, <1>3 DEF Finds

\* The next statement, if there is one, hides nothing.
LEMMA AttachReturns ==
  ASSUME DeletesMarked, World, UNCHANGED tenant,
         NEW version, NEW some, NEW fields, NEW left, Attach(version, some, fields, left)
  PROVE  Returned'
<1> DEFINE rel == Rel(version, Head(left))
<1>1. CASE stage' = "done"
  BY <1>1 DEF Returned
<1>2. CASE /\ stage' = "select"
           /\ rel.resource \in DOMAIN Resources
           /\ statement' = Select(rel.resource, tenant, rel.foreign,
                                  LocalKeys(some, fields, rel.local))
  <2>1. Finds(statement')
    BY <1>2, SelectFinds
  <2> QED  BY <1>2, <2>1 DEF Returned, Finds
<1> QED  BY <1>1, <1>2, Attaching

LEMMA StartComplete ==
  ASSUME DeletesMarked, CompleteInv, Start
  PROVE  Untouched' /\ Returned' /\ AllWhole'
<1>1. /\ stage = "new"
      /\ UNCHANGED <<tbl, steady, tenant, source, base, attached>>
  BY DEF Start
<1>2. DOMAIN attached = {}
  BY <1>1 DEF CompleteInv, IncludesInv, First
<1>3. Untouched' /\ AllWhole'
  BY <1>1, <1>2 DEF CompleteInv, Untouched, AllWhole
<1>4. Returned'
  <2>1. CASE stage' = "done"
    BY <2>1 DEF Returned
  <2>2. CASE /\ query.res \in DOMAIN Resources
             /\ stage' = "select"
             /\ \E by, keys : statement' = Select(query.res, tenant, by, keys)
    <3>1. Finds(statement')
      BY <2>2, SelectFinds DEF CompleteInv, IncludesInv
    <3> QED  BY <1>1, <2>2, <3>1 DEF Returned, Finds
  <2>3. Denial(Config, Dn, query.res, query.op) = "" => query.res \in DOMAIN Resources
    BY PermittedKnown DEF Resources
  <2> QED  BY <2>1, <2>2, <2>3 DEF Start, Refuse
<1> QED  BY <1>3, <1>4

LEMMA FetchComplete ==
  ASSUME CompleteInv, Fetch
  PROVE  Untouched' /\ Returned' /\ AllWhole'
<1>1. /\ stage = "select" /\ stage' = "resume"
      /\ rows' = Matching(statement, tbl[statement.res])
      /\ UNCHANGED <<tbl, steady, tenant, statement, base, shown, attached>>
  BY DEF Fetch
<1>2. statement.res \in DOMAIN Table0 /\ Finds(statement)
  BY <1>1 DEF CompleteInv, IncludesInv, Running, Returned
<1>3. ASSUME NEW x \in steady[statement.res], x["tenant_id"] = tenant, Undeleted(x),
             x[statement.by] \in statement.keys
      PROVE  x \in Matching(statement, tbl[statement.res])
  <2>1. x \in tbl[statement.res] /\ x \in Pool(statement.res)
    BY <1>2 DEF CompleteInv, Untouched, IncludesInv, World
  <2>2. statement.live => ~x["deleted_at"]
    BY <1>2, <1>3, <2>1 DEF Finds, Undeleted
  <2>3. statement.tenant # NoTenant => x["tenant_id"] = statement.tenant
    BY <1>2, <1>3 DEF Finds
  <2> QED  BY <1>3, <2>1, <2>2, <2>3 DEF Matching
<1>4. Returned'
  BY <1>1, <1>3 DEF Returned, Undeleted
<1>5. Untouched' /\ AllWhole'
  BY <1>1 DEF CompleteInv, Untouched, AllWhole, Whole, Related, Undeleted
<1> QED  BY <1>4, <1>5

LEMMA PresentComplete ==
  ASSUME DeletesMarked, CompleteInv, Present
  PROVE  Untouched' /\ Returned' /\ AllWhole'
<1>1. UNCHANGED <<tbl, steady, tenant, attached>>
  BY DEF Present
<1>2. source = ""
  BY Zenon DEF Present
<1>3. DOMAIN attached = {}
  BY <1>2 DEF CompleteInv, IncludesInv, First
<1>4. Returned'
  <2>1. \/ stage' = "done"
        \/ \E fields : Attach(live, rows, fields, wanted)
    BY Zenon DEF Present, Refuse
  <2>2. CASE stage' = "done"
    BY <2>2 DEF Returned
  <2> QED  BY <1>1, <2>1, <2>2, AttachReturns DEF CompleteInv, IncludesInv
<1> QED  BY <1>1, <1>3, <1>4 DEF CompleteInv, Untouched, AllWhole

\* A row related to b was asked for, with the key that b shows, and is found by that key.
LEMMA RelatedMatch ==
  ASSUME CompleteInv, stage = "resume", source # "", NEW b \in base,
         Rel(source, Head(wanted)).local \in shown,
         Rel(source, Head(wanted)).foreign \in RelatedFields(Rel(source, Head(wanted))),
         NEW x \in Related(Rel(source, Head(wanted)), b)
  PROVE  x \in Matches(b, shown, Rel(source, Head(wanted)),
                       RelatedFields(Rel(source, Head(wanted))), rows)
<1> DEFINE rel == Rel(source, Head(wanted))
           fields == RelatedFields(rel)
<1>1. /\ statement.res = rel.resource /\ statement.by = rel.foreign
      /\ statement.keys = LocalKeys(base, shown, rel.local)
  BY DEF CompleteInv, IncludesInv, Relating
<1> HIDE DEF rel, fields
<1>2. /\ x \in steady[rel.resource]
      /\ x[rel.foreign] = b[rel.local] /\ x["tenant_id"] = tenant /\ Undeleted(x)
  BY DEF Related, rel
<1>3. rel.local \in shown /\ rel.foreign \in fields
  BY DEF rel, fields
<1>4. Cell(b, shown, rel.local) = b[rel.local] /\ b[rel.local] # Null
  BY <1>3 DEF CompleteInv, IncludesInv, Based, Cell
<1>5. x[rel.foreign] \in LocalKeys(base, shown, rel.local)
  BY <1>2, <1>4 DEF LocalKeys
<1>6. x \in rows
  BY <1>1, <1>2, <1>5 DEF CompleteInv, Returned
<1>7. Cell(x, fields, rel.foreign) = Cell(b, shown, rel.local)
  BY <1>2, <1>3, <1>4 DEF Cell
<1>8. x \in Matches(b, shown, rel, fields, rows)
  BY <1>6, <1>7 DEF Matches
<1> QED  BY <1>8 DEF rel, fields

LEMMA JoinComplete ==
  ASSUME DeletesMarked, CompleteInv, Join
  PROVE  Untouched' /\ Returned' /\ AllWhole'
<1> DEFINE rel == Rel(source, Head(wanted))
           fields == RelatedFields(rel)
           found == [b \in base |-> Matches(b, shown, rel, fields, rows)]
           entry(joined) == [rel |-> rel, shown |-> fields, rows |-> joined]
<1>1. /\ stage = "resume"
      /\ UNCHANGED <<tbl, steady, tenant, source, base, shown>>
      /\ Attach(source, base, shown, Tail(wanted))
  BY DEF Join
<1>2. source # ""
  BY Zenon DEF Join
<1>3. Untouched' /\ Returned'
  BY <1>1, AttachReturns DEF CompleteInv, IncludesInv, Untouched
<1>4. rel.resource \in DOMAIN Table0
  BY <1>1, <1>2 DEF CompleteInv, IncludesInv, Running, Relating
<1>5. PICK joined \in [base -> SUBSET rows] :
        /\ \A b \in base : joined[b] \in Chosen(rel.many, found[b])
        /\ attached' = [n \in DOMAIN attached \cup {Head(wanted)} |->
                          IF n = Head(wanted) THEN entry(joined) ELSE attached[n]]
  BY DEF Join, Rel
<1>6. ASSUME NEW b \in base, rel.local \in shown, rel.foreign \in fields
      PROVE  IF rel.many THEN Related(rel, b) \subseteq joined[b]
             ELSE Related(rel, b) # {} => joined[b] # {}
  <2>1. Related(rel, b) \subseteq found[b]
    BY <1>1, <1>2, <1>6, RelatedMatch
  <2>2. joined[b] \in Chosen(rel.many, found[b])
    BY <1>5
  <2> HIDE DEF rel, fields, found
  <2> QED  BY <2>1, <2>2 DEF Chosen
<1> HIDE DEF rel, fields
<1>7. PICK r : r = entry(joined)
  OBVIOUS
<1>8. Whole(r)'
  <2>1. r.rel = rel /\ r.shown = fields /\ r.rows = joined
    BY <1>7
  <2> QED  BY <1>1, <1>4, <1>6, <2>1 DEF Whole, Related, Undeleted
<1>9. ASSUME NEW n \in DOMAIN attached, n # Head(wanted) PROVE Whole(attached[n])'
  <2>1. Whole(attached[n]) /\ attached'[n] = attached[n]
    BY <1>5, <1>9 DEF CompleteInv, AllWhole
  <2> QED  BY <1>1, <2>1 DEF Whole, Related, Undeleted
<1>10. /\ DOMAIN attached' = DOMAIN attached \cup {Head(wanted)}
       /\ attached'[Head(wanted)] = r
  BY <1>5, <1>7
<1>11. ASSUME NEW n \in DOMAIN attached' PROVE Whole(attached[n])'
  <2>1. CASE n = Head(wanted)
    BY <1>8, <1>10, <2>1 DEF Whole, Related
  <2>2. CASE n # Head(wanted)
    BY <1>9, <1>10, <2>2
  <2> QED  BY <2>1, <2>2
<1> QED  BY <1>3, <1>11 DEF AllWhole

\* A write only takes rows from those nobody wrote.
LEMMA OthersComplete ==
  ASSUME CompleteInv, UNCHANGED request, Untouched',
         \A res \in DOMAIN Table0 : steady'[res] \subseteq steady[res]
  PROVE  Returned' /\ AllWhole'
<1>1. UNCHANGED <<stage, tenant, statement, rows, base, shown, attached>>
  BY DEF request
<1>2. Returned'
  <2>1. stage \in {"select", "resume"} => statement.res \in DOMAIN Table0
    BY DEF CompleteInv, IncludesInv, Running
  <2> QED  BY <1>1, <2>1 DEF CompleteInv, Returned, Finds, Undeleted
<1>3. ASSUME NEW r, Whole(r) PROVE Whole(r)'
  <2>1. \A b : Related(r.rel, b)' \subseteq Related(r.rel, b)
    BY <1>1, <1>3 DEF Whole, Related, Undeleted
  <2> QED  BY <1>1, <1>3, <2>1 DEF Whole
<1>4. AllWhole'
  <2>1. ASSUME NEW n \in DOMAIN attached PROVE Whole(attached[n])'
    <3>1. PICK r : r = attached[n]
      OBVIOUS
    <3>2. Whole(r)
      BY <3>1 DEF CompleteInv, AllWhole
    <3> QED  BY <1>1, <1>3, <3>1, <3>2 DEF Whole, Related
  <2> QED  BY <1>1, <2>1 DEF AllWhole
<1> QED  BY <1>2, <1>4

LEMMA NextComplete ==
  ASSUME Guarded, DeletesMarked
  PROVE  CompleteInv /\ [Next]_vars => CompleteInv'
<1> SUFFICES ASSUME CompleteInv, [Next]_vars
             PROVE  Untouched' /\ Returned' /\ AllWhole'
  BY NextIncludes DEF CompleteInv
<1>1. CASE Serve
  BY <1>1, StartComplete, FetchComplete, PresentComplete, JoinComplete DEF Serve
<1>2. CASE UNCHANGED <<tbl, steady>> /\ UNCHANGED request
  <2>1. Untouched'
    BY <1>2 DEF CompleteInv, Untouched
  <2> QED  BY <1>2, <2>1, OthersComplete
<1>3. ASSUME NEW res \in DOMAIN tbl, NEW t, Change(res, t)
      PROVE  Untouched' /\ Returned' /\ AllWhole'
  <2>1. /\ tbl' = [tbl EXCEPT ![res] = t]
        /\ steady' = [steady EXCEPT ![res] = @ \cap t]
        /\ UNCHANGED request
    BY <1>3 DEF Change
  <2>2. DOMAIN tbl = DOMAIN Table0 /\ DOMAIN steady = DOMAIN Table0
    BY DEF CompleteInv, IncludesInv, World, Untouched
  <2>3. Untouched' /\ \A other \in DOMAIN Table0 : steady'[other] \subseteq steady[other]
    BY <2>1, <2>2 DEF CompleteInv, Untouched
  <2> QED  BY <2>1, <2>3, OthersComplete
<1> QED  BY <1>1, <1>2, <1>3 DEF Next, Reload, Put, Erase, Finished, vars

\* Whatever reloads and writes fall between the queries, a related row of the tenant that
\* nobody writes meanwhile is attached, where the grants show both keys.
THEOREM IncludesMissNothing == ASSUME Guarded, DeletesMarked PROVE Spec => []IncludesComplete
<1>1. CompleteInv => IncludesComplete
  BY DEF CompleteInv, AllWhole, Whole, Related, Undeleted, IncludesComplete
<1>2. CompleteInv /\ [Next]_vars => CompleteInv'
  BY NextComplete
<1> QED  BY InitComplete, <1>1, <1>2, PTL DEF Spec
=============================================================================
