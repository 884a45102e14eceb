--------------------------- MODULE MCQueryBuilder ---------------------------
(***************************************************************************)
(* A resource like users of config/config.yaml, with and without soft      *)
(* deletes: two columns of data, one of them nullable, and lists that name *)
(* the table, a column nobody declared and one that is no identifier.      *)
(***************************************************************************)
EXTENDS QueryBuilder

MCLike(x, v) == x = v
\* 3 is 1 in capitals.
MCILike(x, v) == x = v \/ {x, v} = {1, 3}
MCTruthy(v) == v = 1

Data == <<"id", "tenant", "a", "b">>
MCIdentifiers == Range(Data) \cup {"data", "deleted", "typo"}
Aside == {"data", "typo", "a b"}
Table(softDelete, rowFilters) ==
  [table |-> "data", fields |-> Data, read |-> <<"id", "a">>, pk |-> "id", rowFilters |-> rowFilters,
   softDelete |-> softDelete, filterable |-> {"a", "b"} \cup Aside,
   sortable |-> {"a", "id"} \cup Aside, groupBy |-> {"b"} \cup Aside,
   sumFields |-> {"a"} \cup Aside,
   functions |-> {"count", "sum", "avg"}, upsertKeys |-> <<"tenant", "a">>]
Soft == Table("deleted", <<"tenant">>)
Hard == [Table(NoField, <<"tenant">>) EXCEPT !.upsertKeys = <<>>]
Open == Table("deleted", <<>>)
\* A declared column that is no identifier.
Odd == [Soft EXCEPT !.fields = @ \o <<"a b">>]

MCSamples ==
  LET data == [id : {1, 2}, tenant : {1, 2}, a : {1, 2, 3}, b : {1, Null},
               deleted : {Null, 3}]
  IN  {[c \in DOMAIN row \cup {"a b"} |-> IF c = "a b" THEN Null ELSE row[c]] : row \in data}

Base(config, kind) ==
  [config |-> config, kind |-> kind, id |-> Null, ids |-> <<>>, filters |-> <<>>,
   values |-> <<>>, rows |-> <<>>, columns |-> <<>>, sort |-> <<>>, limit |-> Null,
   offset |-> 0, withDeleted |-> FALSE, function |-> "count", field |-> NoField,
   groups |-> <<>>, local |-> <<>>, foreign |-> "a"]

Test(op, form, values) == [op |-> op, form |-> form, values |-> values]
Scalar(op, v) == Test(op, "scalar", <<v>>)
On(field, ops) == [field |-> field, ops |-> ops]

Tests ==
  { Scalar(op, v) : op \in FilterOps \ {"in"}, v \in {1, 2} }
    \cup { Scalar("ne", Null), Scalar("in", 1), Scalar("between", 1),
           Test("in", "text", <<1, Blank, 2>>), Test("in", "text", <<Blank>>),
           Test("in", "list", <<3, Null>>), Test("in", "list", <<>>) }

FilterSets ==
  { <<>>, <<On("b", <<Scalar("eq", 1)>>), On("a", <<Scalar("gt", 1), Scalar("lte", 2)>>)>>,
    <<On("a", <<Test("in", "list", <<1, 2>>)>>), On("b", <<Scalar("is_null", 1)>>)>>,
    <<On("tenant", <<Scalar("eq", 2)>>)>>, <<On("typo", <<>>)>>, <<On("a", <<>>)>>, <<On("data", <<>>)>> }
    \cup { <<On("a", <<t>>)>> : t \in Tests } \cup { <<On("b", <<t>>)>> : t \in Tests }

Deleted(requests) ==
  requests \cup { [r EXCEPT !.withDeleted = TRUE] : r \in requests }

Reads ==
  Deleted({ [Base(c, kind) EXCEPT !.filters = f] :
              c \in {Soft, Hard, Open}, kind \in {"count", "list", "aggregate"},
              f \in FilterSets }
    \cup { [Base(c, "get") EXCEPT !.id = 2] : c \in {Soft, Hard, Open} })

Sorts ==
  LET By(sign, name) == [sign |-> sign, name |-> name]
  IN  { <<By("-", "a"), By("", NoField), By("+", "id")>>, <<By("", "b")>>, <<By("", "typo")>>,
        <<By("", "data")>>, <<By("-", NoField)>>, <<By("-", "a b")>> }

Pages ==
  { [Base(Soft, "list") EXCEPT !.sort = s, !.limit = l, !.offset = o, !.columns = cols,
                               !.filters = <<On("b", <<Scalar("eq", 1)>>)>>] :
      s \in Sorts, l \in {Null, 0, 1, 9}, o \in {0, 7},
      cols \in {<<>>, <<"b">>, <<"typo">>} }

Aggregates ==
  { [Base(Hard, "aggregate") EXCEPT !.function = f, !.field = c, !.groups = g,
                                    !.filters = <<On("b", <<Scalar("ne", 2)>>)>>] :
      f \in {"count", "sum", "avg", "max"}, c \in {NoField, "a", "b", "typo", "data"},
      g \in {<<>>, <<"b">>, <<"a">>, <<"typo">>, <<"data">>} }

Relations ==
  Deleted({ [Base(c, "related") EXCEPT !.local = l, !.foreign = f] :
              c \in {Soft, Hard, Open, Odd}, l \in {<<>>, <<2>>, <<3, 1, 3>>},
              f \in {"a", "id", "typo"} })

\* Each kind of statement over a resource with an odd column.
Oddities ==
  { [Base(Odd, kind) EXCEPT !.filters = f] :
      kind \in {"count", "list", "aggregate", "bulk_soft_delete"},
      f \in {<<On("a b", <<>>)>>, <<On("a b", <<Scalar("eq", 1)>>)>>,
             <<On("a b", <<Scalar("between", 1)>>)>>, <<On("a b", <<Scalar("in", 1)>>)>>} }
  \cup { [Base(Odd, "update") EXCEPT !.id = 1, !.values = <<[col |-> "a", value |-> 3]>>],
         [Base(Odd, "get") EXCEPT !.id = 1] }

Set(col, v) == [col |-> col, value |-> v]
Writes ==
  { [Base(c, "update") EXCEPT !.id = 1, !.values = vs] :
      c \in {Soft, Hard, Open},
      vs \in {<<>>, <<Set("a", 3)>>, <<Set("b", Null), Set("a", 1)>>, <<Set("typo", 1)>>} }
  \cup { [Base(Soft, "soft_delete") EXCEPT !.id = 1], [Base(Hard, "hard_delete") EXCEPT !.id = 1] }
  \cup { [Base(Soft, "bulk_soft_delete") EXCEPT !.ids = i, !.filters = f] :
           i \in {<<>>, <<2>>, <<2, 1>>}, f \in FilterSets }
  \cup { [Base(Hard, "bulk_hard_delete") EXCEPT !.ids = i, !.filters = f] :
           i \in {<<>>, <<2, 1>>}, f \in FilterSets }
  \cup { [Base(c, kind) EXCEPT !.columns = cols, !.rows = rows] :
           c \in {Soft, Hard}, kind \in {"insert", "upsert"},
           cols \in {<<"a", "b">>, <<"b", "a", "tenant">>, <<"typo">>},
           rows \in {<<>>, <<[a |-> 1, b |-> Null]>>, <<[a |-> 1, b |-> 2], [a |-> 2]>>} }

MCRequests == Reads \cup Pages \cup Aggregates \cup Writes \cup Relations \cup Oddities
=============================================================================
