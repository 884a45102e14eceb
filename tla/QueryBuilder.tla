---------------------------- MODULE QueryBuilder ----------------------------
(***************************************************************************)
(* QueryBuilder: how a request becomes a statement and its argument list.  *)
(* Each build_* method is the sequence of pieces it adds, in its order; a  *)
(* piece names a column and carries values, and _next_arg gives each value *)
(* the next placeholder.  asyncpg sends the two apart, so nothing but the  *)
(* numbers holds them together.                                            *)
(*                                                                         *)
(* Two methods throw a first attempt away, with its arguments: its pieces  *)
(* are the Draft.  A piece that is not allowed refuses the whole           *)
(* statement.  The text is left out: a statement is its bound pieces, in   *)
(* any order.  Columns hold integers or NULL.                              *)
(***************************************************************************)
EXTENDS Integers, Sequences, SequencesExt

CONSTANTS
  Requests,      \* what the service asks to build, each with its resource's config:
                 \*  [table, fields, read, pk, rowFilters, softDelete, filterable,
                 \*   sortable, groupBy, sumFields, functions, upsertKeys]
  Samples,       \* rows the statements may meet
  Tenant,        \* ctx.tenant_id
  Now,           \* the time of a soft delete
  Null, Blank,   \* None; an empty item of a list in a query string
  Identifiers,   \* names that _IDENT_RE matches
  DefaultLimit, MaxLimit,
  Like(_, _), ILike(_, _), \* the database's pattern matching
  Truthy(_)      \* "1", "true" or "yes"

\* No name, or an empty one.
NoField == "no field"

\* What a request may bring; a column holds no Blank.
Scalars == Int \cup {Null, Blank}

\* The operators of one field: each has one value, but "in" a list or a text.
IsFilter(f) ==
  /\ f.field \in STRING
  /\ f.ops \in Seq([op : STRING, form : {"scalar", "text", "list"}, values : Seq(Scalars)])
  /\ \A g \in Range(f.ops) : /\ g.op # "in" => Len(g.values) = 1
                             /\ g.op # "in" \/ g.form # "text" => Blank \notin Range(g.values)
                             /\ g.op = "is_null" => Truthy(Head(g.values)) \in BOOLEAN

ByKey == {"get", "update", "soft_delete", "hard_delete"}
Bulk == {"bulk_soft_delete", "bulk_hard_delete"}
Inserts == {"insert", "upsert"}
Queried == {"count", "list", "aggregate"}

IsConfig(c) ==
  /\ {c.table, c.pk, c.softDelete} \subseteq STRING
  /\ {c.fields, c.read, c.rowFilters, c.upsertKeys} \subseteq Seq(STRING)
  /\ c.pk \in Range(c.fields) /\ NoField \notin Range(c.fields)

\* The parameters of a build_* method are those it has.
IsRequest(r) ==
  /\ r.kind \in ByKey \cup Bulk \cup Inserts \cup Queried \cup {"related"}
  /\ IsConfig(r.config)
  /\ r.id \in Scalars /\ (r.id # Null <=> r.kind \in ByKey)
  /\ r.ids \in Seq(Scalars) /\ (r.ids # <<>> => r.kind \in Bulk)
  /\ r.local \in Seq(Scalars \ {Null}) /\ (r.local # <<>> => r.kind = "related")
  /\ r.foreign \in STRING
  /\ r.filters \in Seq(Range(r.filters)) /\ \A f \in Range(r.filters) : IsFilter(f)
  /\ r.filters # <<>> => r.kind \in Bulk \cup Queried
  /\ r.values \in Seq([col : STRING, value : Scalars])
  /\ r.values # <<>> => r.kind = "update"
  /\ r.rows \in Seq(Range(r.rows)) /\ (r.rows # <<>> => r.kind \in Inserts)
  /\ \A row \in Range(r.rows) : \A c \in DOMAIN row : row[c] \in Scalars
  /\ r.sort \in Seq([sign : {"", "+", "-"}, name : STRING])
  /\ {r.columns, r.groups} \subseteq Seq(STRING) /\ r.field \in STRING
  /\ r.limit \in Int \cup {Null} /\ r.offset \in Int /\ r.withDeleted \in BOOLEAN
  /\ r.kind \in {"hard_delete", "bulk_hard_delete"} => r.config.softDelete = NoField
  /\ r.kind \in {"soft_delete", "bulk_soft_delete"} => r.config.softDelete # NoField

ASSUME QueryBuilderAssumption ==
  /\ DefaultLimit \in Nat /\ MaxLimit \in Nat \ {0}
  /\ Null \notin Int /\ Blank \notin Int /\ Null # Blank
  /\ NoField \notin Identifiers
  /\ Tenant \in Scalars \ {Null} /\ Now \in Scalars
  /\ \A r \in Requests : IsRequest(r)
  /\ \A row \in Samples :
       /\ \A c \in DOMAIN row : row[c] \in Int \cup {Null}
       /\ \A r \in Requests : /\ Range(r.config.fields) \subseteq DOMAIN row
                              /\ row[r.config.pk] # Null

VARIABLES
  request,
  todo,    \* pieces still to be added
  bound,   \* pieces added, each with the placeholders of its values
  args,    \* BoundQuery.args
  refusal  \* "new", "draft", "none", or the code of the refusal

vars == <<request, todo, bound, args, refusal>>

Resource == request.config

-----------------------------------------------------------------------------
(* Pieces *)

Piece(part, col, op, values) == [part |-> part, col |-> col, op |-> op, values |-> values]
Where(col, op, values) == <<Piece("where", col, op, values)>>

RowFilters ==
  [n \in DOMAIN Resource.rowFilters |->
     Piece("where", Resource.rowFilters[n], "=", <<Tenant>>)]

SoftDelete ==
  IF Resource.softDelete # NoField /\ ~request.withDeleted
    THEN Where(Resource.softDelete, "IS NULL", <<>>)
    ELSE <<>>

ByPk == Where(Resource.pk, "=", <<request.id>>)
ByIds == IF request.ids = <<>> THEN <<>> ELSE Where(Resource.pk, "IN", request.ids)

\* The rows related to others by their keys; with no key, WHERE FALSE.
ByForeign ==
  IF request.local = <<>> THEN <<>> ELSE Where(request.foreign, "IN", request.local)
NoRow == <<Piece("never", NoField, "FALSE", <<>>)>>

\* Mutant of OpSql: the bounds are confused.
OpSqlStrict(op) ==
  CASE op = "eq" -> "=" [] op = "ne" -> "<>" [] op = "gt" -> ">" [] op = "gte" -> ">"
    [] op = "lt" -> "<" [] op = "lte" -> "<=" [] op = "like" -> "LIKE"
    [] op = "ilike" -> "ILIKE"

OpSql(op) ==
  CASE op = "eq" -> "=" [] op = "ne" -> "<>" [] op = "gt" -> ">" [] op = "gte" -> ">="
    [] op = "lt" -> "<" [] op = "lte" -> "<=" [] op = "like" -> "LIKE"
    [] op = "ilike" -> "ILIKE"

FilterOps == {"eq", "ne", "gt", "gte", "lt", "lte", "in", "like", "ilike", "is_null"}

\* A text is split at commas and loses its blanks, a list is taken as it is.
Items(f) ==
  IF f.form = "text"
    THEN FlattenSeq([n \in DOMAIN f.values |->
                       IF f.values[n] = Blank THEN <<>> ELSE <<f.values[n]>>])
    ELSE f.values

\* One operator of one field: [op, form, values].
FilterPiece(col, f) ==
  CASE f.op = "is_null" ->
         Piece("where", col, IF Truthy(Head(f.values)) THEN "IS NULL" ELSE "IS NOT NULL", <<>>)
    [] f.op = "in" /\ (f.form = "scalar" \/ Items(f) = <<>>) ->
         Piece("refuse", col, "BAD_FILTER", <<>>)
    [] f.op = "in" /\ f.form # "scalar" /\ Items(f) # <<>> -> Piece("where", col, "IN", Items(f))
    [] f.op \notin FilterOps -> Piece("refuse", col, "BAD_FILTER_OP", <<>>)
    [] OTHER -> Piece("where", col, OpSql(f.op), f.values)

\* parse_filters looks at each field, and then at its operators.
Filters ==
  FlattenSeq([n \in DOMAIN request.filters |->
    LET f == request.filters[n]
    IN  <<Piece("filter", f.field, "", <<>>)>>
          \o [m \in DOMAIN f.ops |-> FilterPiece(f.field, f.ops[m])]])

Assignments ==
  [n \in DOMAIN request.values |->
     Piece("set", request.values[n].col, "", <<request.values[n].value>>)]
Stamp == <<Piece("set", Resource.softDelete, "", <<Now>>)>>

\* row.get(c) for each row and column.
Cell(row, c) == IF c \in DOMAIN row THEN row[c] ELSE Null
Groups ==
  FlattenSeq([n \in DOMAIN request.rows |->
    [m \in DOMAIN request.columns |->
       Piece("value", request.columns[m], n, <<Cell(request.rows[n], request.columns[m])>>)]])

Columns(part, op, cols) == [n \in DOMAIN cols |-> Piece(part, cols[n], op, <<>>)]

\* Every declared field; a hard delete returns the key.
Returning == Columns("show", "", Resource.fields)
ReturningPk == Columns("show", "", <<Resource.pk>>)

\* columns or the readable fields, when the list is empty.
Shown == IF request.columns = <<>> THEN Resource.read ELSE request.columns

\* parse_sort_param: blank parts are dropped, a minus means descending.  A sign with
\* nothing behind it is a part, with an empty name.
Sort ==
  FlattenSeq([n \in DOMAIN request.sort |->
    LET p == request.sort[n]
    IN  IF p.sign = "" /\ p.name = NoField THEN <<>>
        ELSE <<Piece("order", p.name, IF p.sign = "-" THEN "DESC" ELSE "ASC", <<>>)>>])

Clamp(limit) ==
  LET asked == IF limit = Null THEN DefaultLimit ELSE limit
  IN  IF asked < 1 THEN 1 ELSE IF asked > MaxLimit THEN MaxLimit ELSE asked

Page == <<Piece("limit", NoField, "", <<Clamp(request.limit)>>),
          Piece("offset", NoField, "", <<request.offset>>)>>

Refusing(code) == <<Piece("refuse", NoField, code, <<>>)>>
Unless(condition, code) == IF condition THEN <<>> ELSE Refusing(code)

Summed ==
  IF request.function = "count" THEN <<>>
  ELSE IF request.function # "sum" THEN Refusing("AGG_DENIED")
  ELSE IF request.field = NoField THEN Refusing("SUM_DENIED")
  ELSE Columns("sum", "", <<request.field>>)

\* build_insert.
Insert ==
  Unless(request.rows # <<>>, "EMPTY_PAYLOAD")
    \o Columns("into", "", request.columns) \o Groups \o Returning

Clauses ==
  CASE request.kind = "count" -> RowFilters \o SoftDelete \o Filters
    [] request.kind = "list" ->
         RowFilters \o SoftDelete \o Filters \o Columns("show", "", Shown) \o Sort \o Page
    [] request.kind = "get" ->
         RowFilters \o SoftDelete \o ByPk \o Columns("show", "", Shown)
    [] request.kind = "insert" -> Insert
    [] request.kind = "upsert" ->
         Columns("into", "", request.columns) \o Groups
           \o Columns("conflict", "", Resource.upsertKeys) \o Returning
    [] request.kind = "update" ->
         Unless(request.values # <<>>, "EMPTY_PAYLOAD")
           \o Assignments \o RowFilters \o SoftDelete \o ByPk \o Returning
    [] request.kind = "soft_delete" ->
         Stamp \o RowFilters \o SoftDelete \o ByPk \o Returning
    [] request.kind = "hard_delete" -> RowFilters \o ByPk \o ReturningPk
    [] request.kind = "bulk_soft_delete" ->
         RowFilters \o SoftDelete \o ByIds \o Filters
           \o Unless(request.ids # <<>> \/ request.filters # <<>>, "EMPTY_BULK_DELETE")
           \o Returning \o Stamp
    [] request.kind = "bulk_hard_delete" ->
         RowFilters \o ByIds \o Filters
           \o Unless(request.ids # <<>> \/ request.filters # <<>>, "EMPTY_BULK_DELETE")
           \o ReturningPk
    [] request.kind = "aggregate" ->
         Unless(request.function \in Resource.functions, "AGG_DENIED")
           \o RowFilters \o SoftDelete \o Filters
           \o Columns("group", "", request.groups) \o Summed
    [] request.kind = "related" /\ request.local # <<>> ->
         RowFilters \o SoftDelete \o ByForeign \o Returning
    [] request.kind = "related" /\ request.local = <<>> -> Returning \o NoRow

Target == <<Piece("table", Resource.table, "", <<>>)>>
Pieces == Target \o Clauses

\* What is added and given up: build_upsert calls build_insert, for its checks, and
\* writes the statement anew; build_related_select has its filters before it sees that
\* there is no key.
Draft ==
  IF request.kind = "upsert"
    THEN Target \o Unless(Resource.upsertKeys # <<>>, "NO_UPSERT_KEYS") \o Insert
  ELSE IF request.kind = "related" /\ request.local = <<>>
    THEN Target \o RowFilters \o SoftDelete
  ELSE <<>>

-----------------------------------------------------------------------------
(* The builder *)

\* QueryBuilder.allowed.
Allowed ==
  Range(Resource.fields) \cup {Resource.table, Resource.pk} \cup Range(Resource.rowFilters)
    \cup (IF Resource.softDelete = NoField THEN {} ELSE {Resource.softDelete})

\* Parts whose column does not go into the text by way of quote_ident.
Unquoted == {"refuse", "filter", "limit", "offset", "never"}

\* Mutant of Denied: ORDER BY takes any column of the table.
DeniedButOrder(p) ==
  IF p.part = "refuse" THEN p.op
  ELSE IF p.part = "filter" /\ p.col \notin Resource.filterable THEN "FILTER_DENIED"
  ELSE IF p.part \notin Unquoted /\ p.col \notin Allowed THEN "IDENTIFIER_DENIED"
  ELSE "none"

\* The code of a refusal: a column must be in the list of what is done with it, known and
\* well-formed.  An "in" without items names its column first.
Denied(p) ==
  IF p.part = "refuse" /\ p.op = "BAD_FILTER" /\ p.col \notin Identifiers
    THEN "INVALID_IDENTIFIER"
  ELSE IF p.part = "refuse" THEN p.op
  ELSE IF p.part = "filter" /\ p.col \notin Resource.filterable THEN "FILTER_DENIED"
  ELSE IF p.part = "filter" /\ p.col \notin Range(Resource.fields) THEN "UNKNOWN_FIELD"
  ELSE IF p.part = "order" /\ p.col \notin Resource.sortable THEN "SORT_DENIED"
  ELSE IF p.part = "group" /\ p.col \notin Resource.groupBy THEN "GROUP_DENIED"
  ELSE IF p.part = "sum" /\ p.col \notin Resource.sumFields THEN "SUM_DENIED"
  ELSE IF p.part = "into" /\ p.col \notin Allowed THEN "COLUMN_DENIED"
  ELSE IF p.part \notin Unquoted /\ p.col \notin Identifiers THEN "INVALID_IDENTIFIER"
  ELSE IF p.part \notin Unquoted /\ p.col \notin Allowed THEN "IDENTIFIER_DENIED"
  ELSE "none"

\* Mutant of Placeholders: an assignment, first in the text, is numbered from one.
PlaceholdersAsWritten(p) ==
  [n \in DOMAIN p.values |-> IF p.part = "set" THEN n ELSE Len(args) + n]

\* _next_arg, for each value.
Placeholders(p) == [n \in DOMAIN p.values |-> Len(args) + n]

Start ==
  /\ refusal = "new"
  /\ todo' = Draft
  /\ refusal' = "draft"
  /\ UNCHANGED <<request, bound, args>>

\* Mutant of StartOver: the arguments of the first attempt are kept.
StartOverKeepingArgs ==
  /\ refusal = "draft" /\ todo = <<>>
  /\ todo' = Pieces
  /\ bound' = <<>>
  /\ refusal' = "none"
  /\ UNCHANGED <<request, args>>

\* The statement that is sent begins, with no argument yet.
StartOver ==
  /\ refusal = "draft" /\ todo = <<>>
  /\ todo' = Pieces
  /\ bound' = <<>>
  /\ args' = <<>>
  /\ refusal' = "none"
  /\ UNCHANGED request

Add ==
  /\ refusal \in {"draft", "none"} /\ todo # <<>>
  /\ Denied(Head(todo)) = "none"
  /\ bound' = Append(bound, [part |-> Head(todo).part, col |-> Head(todo).col,
                             op |-> Head(todo).op, at |-> Placeholders(Head(todo))])
  /\ args' = args \o Head(todo).values
  /\ todo' = Tail(todo)
  /\ UNCHANGED <<request, refusal>>

Refuse ==
  /\ refusal \in {"draft", "none"} /\ todo # <<>>
  /\ Denied(Head(todo)) # "none"
  /\ refusal' = Denied(Head(todo))
  /\ UNCHANGED <<request, todo, bound, args>>

Init ==
  /\ request \in Requests
  /\ todo = <<>>
  /\ bound = <<>>
  /\ args = <<>>
  /\ refusal = "new"

Built == todo = <<>> /\ refusal = "none"
Refused == refusal \notin {"new", "draft", "none"}

Finished == (Built \/ Refused) /\ UNCHANGED vars

Next == Start \/ StartOver \/ Add \/ Refuse \/ Finished

Spec == Init /\ [][Next]_vars
-----------------------------------------------------------------------------
(* Properties *)

Parts(part) == {bound[n] : n \in {i \in DOMAIN bound : bound[i].part = part}}
Values(b) == [n \in DOMAIN b.at |-> args[b.at[n]]]

Compare(op, x, v) ==
  CASE op = "=" -> x = v [] op = "<>" -> x # v [] op = ">" -> x > v [] op = ">=" -> x >= v
    [] op = "<" -> x < v [] op = "<=" -> x <= v [] op = "LIKE" -> Like(x, v)
    [] op = "ILIKE" -> ILike(x, v)

\* What the database makes of a clause: with NULL, only IS tells anything.
Holds(op, x, vs) ==
  CASE op = "IS NULL" -> x = Null
    [] op = "IS NOT NULL" -> x # Null
    [] op = "IN" -> x # Null /\ x \in Range(vs)
    [] OTHER -> x # Null /\ Head(vs) # Null /\ Compare(op, x, Head(vs))

\* What a client means by a filter.
Satisfies(x, f) ==
  CASE f.op = "is_null" -> (x = Null) = Truthy(Head(f.values))
    [] f.op = "in" -> x # Null /\ x \in Range(f.values)
    [] OTHER ->
         LET v == Head(f.values)
         IN  x # Null /\ v # Null /\
               CASE f.op = "eq" -> x = v [] f.op = "ne" -> ~(x = v)
                 [] f.op = "gt" -> v < x [] f.op = "lt" -> x < v
                 [] f.op = "gte" -> ~(x < v) [] f.op = "lte" -> ~(v < x)
                 [] f.op = "like" -> Like(x, v) [] f.op = "ilike" -> ILike(x, v)

Selected(row) ==
  Parts("never") = {} /\ \A b \in Parts("where") : Holds(b.op, row[b.col], Values(b))

Wanted(row) ==
  /\ \A c \in Range(Resource.rowFilters) : row[c] = Tenant
  /\ Resource.softDelete = NoField \/ request.withDeleted \/ row[Resource.softDelete] = Null
  /\ request.id = Null \/ row[Resource.pk] = request.id
  /\ request.ids = <<>> \/ row[Resource.pk] \in Range(request.ids)
  /\ request.kind = "related" => \E v \in Range(request.local) : row[request.foreign] = v
  /\ \A f \in Range(request.filters) : \A g \in Range(f.ops) : Satisfies(row[f.field], g)

\* A statement selects the rows that were asked for, of the tenant and not deleted, and
\* no other, whichever clauses it has (query-engine/spec.md:27-43).
SelectsWanted ==
  Built /\ request.kind \notin Inserts =>
    \A row \in Samples : Selected(row) <=> Wanted(row)

\* Values that are written, and the page, arrive where they belong: PostgreSQL sees only
\* the numbers.  The limit is never above the maximum (query-engine/spec.md:20-25).
ValuesPlaced ==
  Built =>
    /\ {<<b.col, Values(b)>> : b \in Parts("set")} =
         {<<v.col, <<v.value>>>> : v \in Range(request.values)}
           \cup (IF request.kind \in {"soft_delete", "bulk_soft_delete"}
                   THEN {<<Resource.softDelete, <<Now>>>>} ELSE {})
    /\ {<<b.op, b.col, Values(b)>> : b \in Parts("value")} =
         {<<n, c, <<Cell(request.rows[n], c)>>>> :
            n \in DOMAIN request.rows, c \in Range(request.columns)}
    /\ \A b \in Parts("limit") :
         /\ Head(Values(b)) \in 1..MaxLimit
         /\ request.limit \in 1..MaxLimit => Head(Values(b)) = request.limit
    /\ \A b \in Parts("offset") : Head(Values(b)) = request.offset

\* Every argument has one placeholder and every placeholder an argument, also where a
\* method starts over (builder.py:300-309) or answers WHERE FALSE (builder.py:387-391):
\* the database refuses a statement with an argument too many or too few.
EveryArgumentUsed ==
  /\ \A n \in DOMAIN bound : \A m \in DOMAIN bound[n].at : bound[n].at[m] \in DOMAIN args
  /\ \A k \in DOMAIN args : \E n \in DOMAIN bound : \E m \in DOMAIN bound[n].at :
       /\ bound[n].at[m] = k
       /\ \A i \in DOMAIN bound : \A j \in DOMAIN bound[i].at :
            bound[i].at[j] = k => i = n /\ j = m

FilterAcceptable(f) ==
  /\ f.field \in Resource.filterable \cap Range(Resource.fields)
  /\ \A g \in Range(f.ops) :
       /\ g.op \in FilterOps
       /\ g.op = "in" => /\ g.form # "scalar"
                         /\ \E v \in Range(g.values) : g.form = "text" => v # Blank

\* What the documents let a request ask, whatever its kind makes of it.
Acceptable ==
  /\ \A f \in Range(request.filters) : FilterAcceptable(f)
  /\ request.kind \in Bulk => request.ids # <<>> \/ request.filters # <<>>
  /\ request.kind \in Inserts =>
       /\ request.rows # <<>> /\ Range(request.columns) \subseteq Allowed
       /\ request.kind = "upsert" =>
            Resource.upsertKeys # <<>> /\ Range(Resource.upsertKeys) \subseteq Allowed
  /\ request.kind = "update" =>
       request.values # <<>> /\ \A v \in Range(request.values) : v.col \in Allowed
  /\ request.kind \in {"list", "get"} => Range(Shown) \subseteq Allowed
  /\ request.kind = "list" => \A s \in Range(request.sort) :
       s.sign # "" \/ s.name # NoField => s.name \in Resource.sortable \cap Allowed
  /\ request.kind = "aggregate" =>
       /\ request.function \in Resource.functions \cap {"count", "sum"}
       /\ Range(request.groups) \subseteq Resource.groupBy \cap Allowed
       /\ request.function = "sum" => request.field \in Resource.sumFields \cap Allowed
  /\ request.kind = "related" /\ request.local # <<>> => request.foreign \in Allowed

\* A request is refused exactly when it asks for what its resource does not let it: a
\* column nobody declared does not get into a statement by way of any list, and no
\* request is refused for nothing (query-engine/spec.md:11-16, 56).  The table's own name
\* passes for a column (builder.py:51).
RefusedForCause ==
  /\ Built => Acceptable
  /\ Refused /\ Allowed \subseteq Identifiers => ~Acceptable
=============================================================================
