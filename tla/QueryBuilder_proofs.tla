------------------------- MODULE QueryBuilder_proofs -------------------------
(***************************************************************************)
(* QueryBuilder, for every request: a statement is made of the pieces of   *)
(* its kind, each with the values it was given, and so it selects, writes  *)
(* and names what was asked for.                                           *)
(***************************************************************************)
EXTENDS QueryBuilder, SequenceTheorems, WellFoundedInduction, TLAPS

-----------------------------------------------------------------------------
(* Flattening *)

\* Every set of naturals has a least element.
LEMMA Least ==
  ASSUME NEW T, T \subseteq Nat, T # {}
  PROVE  \E n \in T : \A m \in T : n <= m
<1>1. PICK n \in T : \A m \in T : ~ (<<m, n>> \in OpToRel(<, Nat))
  BY NatLessThanWellFounded, WFMin
<1>2. \A m \in T : ~ (m < n)
  BY <1>1 DEF OpToRel
<1> QED  BY <1>2

\* What FlattenSeq makes of the first i sequences, given what it makes of fewer.
Joined(seqs, f, i) == IF i = 1 THEN seqs[i] ELSE f[i-1] \o seqs[i]

Joins(S, seqs, n) ==
  \E f \in [1..n -> Seq(S)] : \A i \in 1..n : f[i] = Joined(seqs, f, i)

\* By induction: a smallest n without such a function would have one.
LEMMA PrefixesJoin ==
  ASSUME NEW S, NEW seqs \in Seq(Seq(S)), NEW n \in 0..Len(seqs)
  PROVE  Joins(S, seqs, n)
<1> DEFINE Bad == {k \in 0..Len(seqs) : ~ Joins(S, seqs, k)}
<1> SUFFICES ASSUME n \in Bad PROVE FALSE
  OBVIOUS
<1>1. Len(seqs) \in Nat /\ \A i \in 1..Len(seqs) : seqs[i] \in Seq(S)
  OBVIOUS
<1>2. PICK k \in Bad : \A m \in Bad : k <= m
  <2>1. Bad \subseteq Nat /\ Bad # {}
    BY <1>1
  <2> HIDE DEF Bad
  <2> QED  BY <2>1, Least
<1>3. k # 0
  <2> DEFINE e == [i \in 1..0 |-> <<>>]
  <2>1. e \in [1..0 -> Seq(S)] /\ \A i \in 1..0 : e[i] = Joined(seqs, e, i)
    OBVIOUS
  <2>2. Joins(S, seqs, 0)
    <3> HIDE DEF e
    <3> QED  BY <2>1 DEF Joins
  <2> QED  BY <2>2
<1>4. k \in 1..Len(seqs) /\ k - 1 \in 0..Len(seqs) /\ k - 1 \notin Bad
  BY <1>1, <1>2, <1>3
<1>5. PICK f \in [1..(k-1) -> Seq(S)] : \A i \in 1..(k-1) : f[i] = Joined(seqs, f, i)
  BY <1>4 DEF Joins
<1> DEFINE g == [i \in 1..k |-> IF i = k THEN Joined(seqs, f, k) ELSE f[i]]
<1>6. Joined(seqs, f, k) \in Seq(S)
  <2>1. seqs[k] \in Seq(S)
    BY <1>1, <1>4
  <2>2. k # 1 => f[k-1] \in Seq(S)
    BY <1>4, <1>5
  <2> QED  BY <2>1, <2>2, ConcatProperties DEF Joined
<1>7. g \in [1..k -> Seq(S)]
  <2>1. \A i \in 1..k : i # k => i \in 1..(k-1)
    BY <1>4
  <2>2. \A i \in 1..k : i # k => f[i] \in Seq(S)
    BY <1>5, <2>1
  <2> QED  BY <1>6, <2>2
<1>8. ASSUME NEW i \in 1..k PROVE g[i] = Joined(seqs, g, i)
  <2>1. i # 1 => i-1 \in 1..k /\ i-1 # k
    BY <1>4
  <2>2. i # 1 => g[i-1] = f[i-1]
    BY <2>1
  <2> HIDE DEF g
  <2>3. Joined(seqs, g, i) = Joined(seqs, f, i)
    BY <2>2 DEF Joined
  <2>4. i # k => f[i] = Joined(seqs, f, i)
    BY <1>4, <1>5
  <2> QED  BY <2>3, <2>4 DEF g
<1>9. Joins(S, seqs, k)
  <2> HIDE DEF g
  <2> QED  BY <1>7, <1>8 DEF Joins
<1> QED  BY <1>2, <1>9

\* The function FlattenSeq chooses is the one of PrefixesJoin.
LEMMA FlattenJoined ==
  ASSUME NEW S, NEW seqs \in Seq(Seq(S)), seqs # <<>>
  PROVE  \E f \in [1..Len(seqs) -> Seq(S)] :
           /\ FlattenSeq(seqs) = f[Len(seqs)]
           /\ \A i \in 1..Len(seqs) : f[i] = Joined(seqs, f, i)
<1> DEFINE L == Len(seqs)
           Steps(h) == h = [i \in 1..L |-> Joined(seqs, h, i)]
           flatten == CHOOSE h : Steps(h)
<1>1. L \in Nat /\ L # 0 /\ L <= Len(seqs)
  OBVIOUS
<1>2. PICK f \in [1..L -> Seq(S)] : \A i \in 1..L : f[i] = Joined(seqs, f, i)
  <2>1. Joins(S, seqs, L)
    BY <1>1, PrefixesJoin
  <2> QED  BY <2>1 DEF Joins
<1>3. Steps(f)
  BY <1>2
<1>4. Steps(flatten)
  BY <1>3
<1>5. FlattenSeq(seqs) = flatten[L]
  BY <1>1 DEF FlattenSeq, Joined
<1>6. DOMAIN flatten = 1..L /\ \A i \in 1..L : flatten[i] = Joined(seqs, flatten, i)
  BY <1>4
<1> HIDE DEF flatten
<1>7. flatten[L] = f[L]
  <2> DEFINE Diff == {i \in 1..L : flatten[i] # f[i]}
  <2> SUFFICES ASSUME flatten[L] # f[L] PROVE FALSE
    OBVIOUS
  <2>1. PICK i \in Diff : \A j \in Diff : i <= j
    <3>1. Diff \subseteq Nat /\ Diff # {}
      BY <1>1
    <3> HIDE DEF Diff
    <3> QED  BY <3>1, Least
  <2>2. i # 1 => i-1 \in 1..L /\ i-1 \notin Diff
    BY <1>1, <2>1
  <2>3. Joined(seqs, flatten, i) = Joined(seqs, f, i)
    BY <2>2 DEF Joined
  <2> QED  BY <1>2, <1>6, <2>1, <2>3
<1> QED  BY <1>2, <1>5, <1>7

\* A comprehension over a sequence.
LEMMA MappedSequence ==
  ASSUME NEW S, NEW s \in Seq(S), NEW T, NEW f \in [DOMAIN s -> T]
  PROVE  f \in Seq(T) /\ DOMAIN f = DOMAIN s
  OBVIOUS

LEMMA FlattenElements ==
  ASSUME NEW S, NEW seqs \in Seq(Seq(S))
  PROVE  /\ FlattenSeq(seqs) \in Seq(S)
         /\ Range(FlattenSeq(seqs)) = UNION {Range(seqs[i]) : i \in DOMAIN seqs}
<1>1. CASE seqs = <<>>
  <2>1. FlattenSeq(seqs) = <<>> /\ DOMAIN seqs = {} /\ Range(<<>>) = {}
    BY <1>1 DEF FlattenSeq, Range
  <2> QED  BY <2>1
<1>2. CASE seqs # <<>>
  <2> DEFINE L == Len(seqs)
             Among(n) == UNION {Range(seqs[i]) : i \in 1..n}
  <2>1. PICK f \in [1..L -> Seq(S)] :
          /\ FlattenSeq(seqs) = f[L]
          /\ \A i \in 1..L : f[i] = Joined(seqs, f, i)
    BY <1>2, FlattenJoined
  <2>2. L \in Nat /\ L # 0 /\ DOMAIN seqs = 1..L /\ \A i \in 1..L : seqs[i] \in Seq(S)
    BY <1>2
  <2>3. \A n \in 1..L : Range(f[n]) = Among(n)
    <3> DEFINE Bad == {n \in 1..L : Range(f[n]) # Among(n)}
    <3> SUFFICES ASSUME Bad # {} PROVE FALSE
      OBVIOUS
    <3>1. PICK n \in Bad : \A m \in Bad : n <= m
      <4>1. Bad \subseteq Nat
        BY <2>2
      <4> HIDE DEF Bad
      <4> QED  BY <4>1, Least
    <3>2. CASE n = 1
      BY <2>1, <2>2, <3>1, <3>2 DEF Joined
    <3>3. CASE n # 1
      <4>1. n-1 \in 1..L /\ n-1 \notin Bad /\ n \in 1..L
        <5>1. n \in 1..L /\ n-1 \in 1..L
          BY <2>2, <3>3
        <5> HIDE DEF L, Bad
        <5> QED  BY <2>2, <3>1, <5>1
      <4>2. Range(f[n-1]) = Among(n-1)
        BY <4>1
      <4>3. Range(f[n]) = Range(f[n-1]) \cup Range(seqs[n])
        <5>1. f[n] = f[n-1] \o seqs[n] /\ f[n-1] \in Seq(S) /\ seqs[n] \in Seq(S)
          BY <2>1, <2>2, <3>3, <4>1 DEF Joined
        <5> QED  BY <5>1, RangeConcatenation
      <4>4. 1..n = 1..(n-1) \cup {n}
        BY <4>1
      <4>5. Among(n) = Among(n-1) \cup Range(seqs[n])
        BY <4>4
      <4> QED  BY <3>1, <4>2, <4>3, <4>5
    <3> QED  BY <3>2, <3>3
  <2>4. f[L] \in Seq(S) /\ Range(f[L]) = Among(L)
    <3> HIDE DEF L, Among
    <3> QED  BY <2>1, <2>2, <2>3
  <2> QED  BY <2>1, <2>2, <2>4
<1> QED  BY <1>1, <1>2

-----------------------------------------------------------------------------
(* Pieces *)

PartNames ==
  {"where", "filter", "set", "value", "show", "order", "limit", "offset", "into", "conflict",
   "group", "sum", "table", "never", "refuse"}
OpNames ==
  {"", "=", "<>", ">", ">=", "<", "<=", "LIKE", "ILIKE", "IN", "IS NULL", "IS NOT NULL",
   "ASC", "DESC", "FALSE"}
Codes ==
  {"BAD_FILTER", "BAD_FILTER_OP", "EMPTY_PAYLOAD", "NO_UPSERT_KEYS", "EMPTY_BULK_DELETE",
   "AGG_DENIED", "SUM_DENIED"}
ColumnNames == STRING \cup {NoField}

\* A refusal has a code.
AllPieces ==
  {p \in [part : PartNames, col : ColumnNames, op : OpNames \cup Codes \cup Nat,
          values : Seq(Scalars)] :
     p.part = "refuse" => p.op \in Codes}

LEMMA PieceTyped ==
  ASSUME NEW part \in PartNames, NEW col \in ColumnNames,
         NEW op \in OpNames \cup Codes \cup Nat, NEW values \in Seq(Scalars),
         part = "refuse" => op \in Codes
  PROVE  Piece(part, col, op, values) \in AllPieces
  BY DEF Piece, AllPieces

LEMMA ShortSequences ==
  \A S : <<>> \in Seq(S) /\ \A v \in S : <<v>> \in Seq(S)
  OBVIOUS

LEMMA ElementsOf ==
  \A S : \A s \in Seq(S) : \A n \in DOMAIN s : s[n] \in S
  OBVIOUS

LEMMA PieceParts ==
  \A part, col, op, values :
    /\ Piece(part, col, op, values).part = part
    /\ Piece(part, col, op, values).col = col
    /\ Piece(part, col, op, values).op = op
    /\ Piece(part, col, op, values).values = values
  BY DEF Piece

\* A sequence of at most one piece.
LEMMA OnePiece ==
  ASSUME NEW p \in AllPieces
  PROVE  <<p>> \in Seq(AllPieces) /\ Range(<<p>>) = {p}
<1>1. DOMAIN <<p>> = {1} /\ <<p>>[1] = p
  OBVIOUS
<1> QED  BY <1>1 DEF Range

LEMMA NoPiece == <<>> \in Seq(AllPieces) /\ Range(<<>>) = {}
<1>1. DOMAIN <<>> = {}
  OBVIOUS
<1> QED  BY <1>1 DEF Range

LEMMA JoinedPieces ==
  \A s, t \in Seq(AllPieces) : /\ s \o t \in Seq(AllPieces)
                               /\ Range(s \o t) = Range(s) \cup Range(t)
  BY RangeConcatenation, ConcatProperties

LEMMA RequestTyped ==
  ASSUME request \in Requests
  PROVE  IsRequest(request) /\ IsConfig(Resource)
  BY QueryBuilderAssumption DEF IsRequest, Resource

\* What WHERE gets, apart from the client's filters.
LEMMA RowFilterPieces ==
  ASSUME request \in Requests
  PROVE  /\ RowFilters \in Seq(AllPieces)
         /\ Range(RowFilters) =
              {Piece("where", c, "=", <<Tenant>>) : c \in Range(Resource.rowFilters)}
<1>1. Resource.rowFilters \in Seq(STRING)
  BY RequestTyped DEF IsConfig
<1>2. \A c \in STRING : Piece("where", c, "=", <<Tenant>>) \in AllPieces
  <2>1. <<Tenant>> \in Seq(Scalars)
    BY QueryBuilderAssumption, ShortSequences
  <2> QED  BY <2>1, PieceTyped DEF PartNames, OpNames, ColumnNames
<1>3. /\ RowFilters \in [DOMAIN Resource.rowFilters -> AllPieces]
      /\ \A n \in DOMAIN Resource.rowFilters :
           RowFilters[n] = Piece("where", Resource.rowFilters[n], "=", <<Tenant>>)
  <2>1. \A n \in DOMAIN Resource.rowFilters : Resource.rowFilters[n] \in STRING
    BY <1>1
  <2> QED  BY <1>2, <2>1 DEF RowFilters
<1>4. RowFilters \in Seq(AllPieces)
  BY <1>1, <1>3, MappedSequence
<1> QED  BY <1>3, <1>4 DEF Range

LEMMA SoftDeletePieces ==
  ASSUME request \in Requests
  PROVE  /\ SoftDelete \in Seq(AllPieces)
         /\ Range(SoftDelete) =
              IF Resource.softDelete # NoField /\ ~request.withDeleted
                THEN {Piece("where", Resource.softDelete, "IS NULL", <<>>)}
                ELSE {}
<1>1. Piece("where", Resource.softDelete, "IS NULL", <<>>) \in AllPieces
  <2>1. Resource.softDelete \in STRING /\ <<>> \in Seq(Scalars)
    BY RequestTyped, ShortSequences DEF IsConfig
  <2> QED  BY <2>1, PieceTyped DEF PartNames, OpNames, ColumnNames
<1> QED  BY <1>1, OnePiece, NoPiece DEF SoftDelete, Where

LEMMA KeyPieces ==
  ASSUME request \in Requests
  PROVE  /\ ByPk \in Seq(AllPieces) /\ ByIds \in Seq(AllPieces)
         /\ Range(ByPk) = {Piece("where", Resource.pk, "=", <<request.id>>)}
         /\ Range(ByIds) = IF request.ids = <<>> THEN {}
                           ELSE {Piece("where", Resource.pk, "IN", request.ids)}
<1>1. /\ Resource.pk \in STRING /\ request.id \in Scalars /\ request.ids \in Seq(Scalars)
  BY RequestTyped DEF IsConfig, IsRequest
<1>2. /\ Piece("where", Resource.pk, "=", <<request.id>>) \in AllPieces
      /\ Piece("where", Resource.pk, "IN", request.ids) \in AllPieces
  <2>1. <<request.id>> \in Seq(Scalars)
    BY <1>1, ShortSequences
  <2> QED  BY <1>1, <2>1, PieceTyped DEF PartNames, OpNames, ColumnNames
<1> QED  BY <1>2, OnePiece, NoPiece DEF ByPk, ByIds, Where

LEMMA ForeignPieces ==
  ASSUME request \in Requests
  PROVE  /\ ByForeign \in Seq(AllPieces)
         /\ Range(ByForeign) = IF request.local = <<>> THEN {}
                               ELSE {Piece("where", request.foreign, "IN", request.local)}
<1>1. request.foreign \in STRING /\ request.local \in Seq(Scalars)
  <2>1. request.foreign \in STRING /\ request.local \in Seq(Scalars \ {Null})
    BY RequestTyped DEF IsRequest
  <2>2. Seq(Scalars \ {Null}) \subseteq Seq(Scalars)
    OBVIOUS
  <2> QED  BY <2>1, <2>2
<1>2. Piece("where", request.foreign, "IN", request.local) \in AllPieces
  BY <1>1, PieceTyped DEF PartNames, OpNames, ColumnNames
<1> QED  BY <1>2, OnePiece, NoPiece DEF ByForeign, Where

LEMMA NoRowPieces == NoRow \in Seq(AllPieces) /\ Range(NoRow) = {Piece("never", NoField, "FALSE", <<>>)}
<1>1. Piece("never", NoField, "FALSE", <<>>) \in AllPieces
  BY ShortSequences, PieceTyped DEF PartNames, OpNames, ColumnNames
<1> QED  BY <1>1, OnePiece DEF NoRow

\* The values of "in": those that came, a text's blanks apart.
LEMMA ItemsKept ==
  ASSUME NEW g \in [op : STRING, form : {"scalar", "text", "list"}, values : Seq(Scalars)]
  PROVE  /\ Items(g) \in Seq(Scalars)
         /\ Range(Items(g)) = IF g.form = "text" THEN Range(g.values) \ {Blank}
                              ELSE Range(g.values)
<1>1. CASE g.form = "text"
  <2> DEFINE kept == [n \in DOMAIN g.values |->
                        IF g.values[n] = Blank THEN <<>> ELSE <<g.values[n]>>]
  <2>1. g.values \in Seq(Scalars)
    OBVIOUS
  <2>2. kept \in Seq(Seq(Scalars)) /\ DOMAIN kept = DOMAIN g.values
    <3>1. \A n \in DOMAIN g.values : g.values[n] \in Scalars
      BY <2>1
    <3>2. kept \in [DOMAIN g.values -> Seq(Scalars)]
      BY <3>1, ShortSequences
    <3> HIDE DEF kept
    <3> QED  BY <2>1, <3>2, MappedSequence
  <2>3. FlattenSeq(kept) \in Seq(Scalars)
        /\ Range(FlattenSeq(kept)) = UNION {Range(kept[n]) : n \in DOMAIN g.values}
    <3> HIDE DEF kept
    <3> QED  BY <2>2, FlattenElements
  <2>4. \A n \in DOMAIN g.values :
          Range(kept[n]) = IF g.values[n] = Blank THEN {} ELSE {g.values[n]}
    <3>1. \A v : DOMAIN <<v>> = {1} /\ <<v>>[1] = v
      OBVIOUS
    <3>2. \A v : Range(<<v>>) = {v}
      BY <3>1 DEF Range
    <3> QED  BY <3>2, NoPiece
  <2>5. UNION {Range(kept[n]) : n \in DOMAIN g.values} = Range(g.values) \ {Blank}
    <3> HIDE DEF kept
    <3>1. \A v : v \in UNION {Range(kept[n]) : n \in DOMAIN g.values} <=>
                 \E n \in DOMAIN g.values : v \in Range(kept[n])
      OBVIOUS
    <3>2. \A n \in DOMAIN g.values : \A v :
            v \in Range(kept[n]) <=> v = g.values[n] /\ v # Blank
      BY <2>4
    <3>3. \A v : v \in Range(g.values) <=> \E n \in DOMAIN g.values : v = g.values[n]
      BY DEF Range
    <3>4. \A v : v \in UNION {Range(kept[n]) : n \in DOMAIN g.values} <=>
                 v \in Range(g.values) \ {Blank}
      BY <3>1, <3>2, <3>3
    <3> QED  BY <3>4
  <2> QED  BY <1>1, <2>3, <2>5 DEF Items
<1>2. CASE g.form # "text"
  BY <1>2 DEF Items
<1> QED  BY <1>1, <1>2

\* A client's filters, in the order of the request.
LEMMA FilterPieceTyped ==
  ASSUME NEW f, IsFilter(f), NEW g \in Range(f.ops)
  PROVE  FilterPiece(f.field, g) \in AllPieces
<1>1. /\ g \in [op : STRING, form : {"scalar", "text", "list"}, values : Seq(Scalars)]
      /\ f.field \in ColumnNames
  <2>1. f.ops \in Seq([op : STRING, form : {"scalar", "text", "list"}, values : Seq(Scalars)])
    BY DEF IsFilter
  <2>2. PICK i \in DOMAIN f.ops : g = f.ops[i]
    BY DEF Range
  <2>3. f.field \in ColumnNames
    BY DEF IsFilter, ColumnNames
  <2> QED  BY ONLY <2>1, <2>2, <2>3, ElementsOf
<1>2. <<>> \in Seq(Scalars) /\ Items(g) \in Seq(Scalars) /\ g.values \in Seq(Scalars)
  BY <1>1, ItemsKept, ShortSequences
<1>3. /\ Piece("where", f.field, "IS NULL", <<>>) \in AllPieces
      /\ Piece("where", f.field, "IS NOT NULL", <<>>) \in AllPieces
      /\ Piece("refuse", f.field, "BAD_FILTER", <<>>) \in AllPieces
      /\ Piece("refuse", f.field, "BAD_FILTER_OP", <<>>) \in AllPieces
      /\ Piece("where", f.field, "IN", Items(g)) \in AllPieces
  BY <1>1, <1>2, PieceTyped DEF PartNames, OpNames, Codes
<1>4. ASSUME g.op \in FilterOps, g.op \notin {"in", "is_null"}
      PROVE  Piece("where", f.field, OpSql(g.op), g.values) \in AllPieces
  <2>1. OpSql(g.op) \in OpNames
    BY <1>4 DEF OpSql, FilterOps, OpNames
  <2> QED  BY <1>1, <1>2, <2>1, PieceTyped DEF PartNames
<1> QED  BY <1>3, <1>4 DEF FilterPiece

PieceOf(f, p) ==
  \/ p = Piece("filter", f.field, "", <<>>)
  \/ \E g \in Range(f.ops) : p = FilterPiece(f.field, g)

LEMMA FilterPieces ==
  ASSUME request \in Requests
  PROVE  /\ Filters \in Seq(AllPieces)
         /\ \A p : p \in Range(Filters) <=> \E f \in Range(request.filters) : PieceOf(f, p)
<1> DEFINE list == request.filters
           tests(f) == [m \in DOMAIN f.ops |-> FilterPiece(f.field, f.ops[m])]
           own(f) == <<Piece("filter", f.field, "", <<>>)>> \o tests(f)
           all == [n \in DOMAIN list |-> own(list[n])]
<1>1. list \in Seq(Range(list)) /\ \A f \in Range(list) : IsFilter(f)
  BY RequestTyped DEF IsRequest
<1>2. ASSUME NEW f \in Range(list)
      PROVE  /\ own(f) \in Seq(AllPieces)
             /\ \A p : p \in Range(own(f)) <=> PieceOf(f, p)
  <2>1. IsFilter(f)
    BY <1>1
  <2>2. f.ops \in Seq([op : STRING, form : {"scalar", "text", "list"}, values : Seq(Scalars)])
        /\ f.field \in ColumnNames
    BY <2>1 DEF IsFilter, ColumnNames
  <2>3. \A m \in DOMAIN f.ops : FilterPiece(f.field, f.ops[m]) \in AllPieces
    BY <2>1, FilterPieceTyped DEF Range
  <2>4. tests(f) \in [DOMAIN f.ops -> AllPieces]
    BY <2>3
  <2>5. tests(f) \in Seq(AllPieces) /\ DOMAIN tests(f) = DOMAIN f.ops
    <3> HIDE DEF tests
    <3> QED  BY <2>2, <2>4, MappedSequence
  <2>6. Piece("filter", f.field, "", <<>>) \in AllPieces
    BY <2>2, ShortSequences, PieceTyped DEF PartNames, OpNames
  <2>7. \A p : p \in Range(tests(f)) <=> \E g \in Range(f.ops) : p = FilterPiece(f.field, g)
    BY DEF Range
  <2> HIDE DEF tests
  <2>8. /\ <<Piece("filter", f.field, "", <<>>)>> \in Seq(AllPieces)
        /\ Range(<<Piece("filter", f.field, "", <<>>)>>) = {Piece("filter", f.field, "", <<>>)}
    BY <2>6, OnePiece
  <2>9. own(f) \in Seq(AllPieces)
        /\ Range(own(f)) = {Piece("filter", f.field, "", <<>>)} \cup Range(tests(f))
    BY <2>5, <2>8, JoinedPieces
  <2> QED  BY <2>7, <2>9 DEF PieceOf
<1> HIDE DEF own
<1>3. \A n \in DOMAIN list : list[n] \in Range(list)
  BY DEF Range
<1>4. all \in [DOMAIN list -> Seq(AllPieces)]
  BY <1>2, <1>3
<1>5. all \in Seq(Seq(AllPieces)) /\ DOMAIN all = DOMAIN list
  <2> HIDE DEF all
  <2> QED  BY <1>1, <1>4, MappedSequence
<1>6. \A n \in DOMAIN list : all[n] = own(list[n])
  OBVIOUS
<1> HIDE DEF all
<1>7. Filters = FlattenSeq(all)
  BY DEF Filters, all, own
<1>8. Filters \in Seq(AllPieces) /\ Range(Filters) = UNION {Range(all[n]) : n \in DOMAIN all}
  BY <1>5, <1>7, FlattenElements
<1>9. \A p : p \in Range(Filters) <=> \E n \in DOMAIN list : p \in Range(own(list[n]))
  BY <1>5, <1>6, <1>8
<1>10. \A p : p \in Range(Filters) <=> \E f \in Range(list) : p \in Range(own(f))
  BY <1>9 DEF Range
<1> QED  BY <1>2, <1>8, <1>10

-----------------------------------------------------------------------------
(* What is written, and how a page looks *)

\* A sequence of pieces for the parts named.
For(s, parts) == s \in Seq(AllPieces) /\ \A p \in Range(s) : p.part \in parts

LEMMA ForLess ==
  ASSUME NEW s, NEW A, NEW B, For(s, A), A \subseteq B
  PROVE  For(s, B)
  BY DEF For

LEMMA ForOne ==
  ASSUME NEW p \in AllPieces, NEW A, p.part \in A
  PROVE  For(<<p>>, A)
  BY OnePiece DEF For

LEMMA ForNone == \A A : For(<<>>, A)
  BY NoPiece DEF For

LEMMA ForMapped ==
  ASSUME NEW S, NEW s \in Seq(S), NEW f \in [DOMAIN s -> AllPieces], NEW A,
         \A n \in DOMAIN s : f[n].part \in A
  PROVE  For(f, A)
<1>1. f \in Seq(AllPieces) /\ DOMAIN f = DOMAIN s
  BY MappedSequence
<1> QED  BY <1>1 DEF For, Range

LEMMA AssignmentPieces ==
  ASSUME request \in Requests
  PROVE  /\ For(Assignments, {"set"})
         /\ Range(Assignments) =
              {Piece("set", v.col, "", <<v.value>>) : v \in Range(request.values)}
<1> DEFINE values == request.values
<1>1. values \in Seq([col : STRING, value : Scalars])
  BY RequestTyped DEF IsRequest
<1>2. \A n \in DOMAIN values : values[n].col \in ColumnNames /\ values[n].value \in Scalars
  <2>1. \A n \in DOMAIN values : values[n] \in [col : STRING, value : Scalars]
    BY ONLY <1>1, ElementsOf
  <2> QED  BY <2>1 DEF ColumnNames
<1>3. \A n \in DOMAIN values :
        Piece("set", values[n].col, "", <<values[n].value>>) \in AllPieces
  <2>1. \A n \in DOMAIN values : <<values[n].value>> \in Seq(Scalars)
    BY <1>2, ShortSequences
  <2> QED  BY <1>2, <2>1, PieceTyped DEF PartNames, OpNames
<1>4. /\ Assignments \in [DOMAIN values -> AllPieces]
      /\ \A n \in DOMAIN values :
           Assignments[n] = Piece("set", values[n].col, "", <<values[n].value>>)
  BY <1>3 DEF Assignments
<1> HIDE DEF values
<1>5. ASSUME NEW n \in DOMAIN values PROVE Assignments[n].part \in {"set"}
  <2>1. Piece("set", values[n].col, "", <<values[n].value>>).part = "set"
    BY DEF Piece
  <2> QED  BY <1>4, <2>1
<1>6. For(Assignments, {"set"})
  BY <1>1, <1>4, <1>5, ForMapped
<1>7. Range(Assignments) = {Piece("set", v.col, "", <<v.value>>) : v \in Range(values)}
  BY <1>4 DEF Range
<1> QED  BY <1>6, <1>7 DEF values

LEMMA StampPieces ==
  ASSUME request \in Requests
  PROVE  /\ For(Stamp, {"set"})
         /\ Range(Stamp) = {Piece("set", Resource.softDelete, "", <<Now>>)}
<1>1. Piece("set", Resource.softDelete, "", <<Now>>) \in AllPieces
  <2>1. <<Now>> \in Seq(Scalars) /\ Resource.softDelete \in ColumnNames
    BY RequestTyped, QueryBuilderAssumption, ShortSequences DEF IsConfig, ColumnNames
  <2> QED  BY <2>1, PieceTyped DEF PartNames, OpNames
<1>2. Piece("set", Resource.softDelete, "", <<Now>>).part \in {"set"}
  BY DEF Piece
<1> QED  BY <1>1, <1>2, OnePiece, ForOne DEF Stamp

LEMMA ColumnPieces ==
  ASSUME NEW part \in PartNames \ {"refuse"}, NEW op \in OpNames,
         NEW cols \in Seq(ColumnNames)
  PROVE  For(Columns(part, op, cols), {part})
<1>1. \A n \in DOMAIN cols : Piece(part, cols[n], op, <<>>) \in AllPieces
  <2>1. \A n \in DOMAIN cols : cols[n] \in ColumnNames
    OBVIOUS
  <2> QED  BY <2>1, ShortSequences, PieceTyped
<1>2. /\ Columns(part, op, cols) \in [DOMAIN cols -> AllPieces]
      /\ \A n \in DOMAIN cols : Columns(part, op, cols)[n].part \in {part}
  BY <1>1, PieceParts DEF Columns
<1> QED  BY <1>2, ForMapped

LEMMA ColumnLists ==
  ASSUME request \in Requests
  PROVE  /\ {Shown, request.columns, request.groups, Resource.upsertKeys} \subseteq Seq(ColumnNames)
         /\ {Resource.fields, <<Resource.pk>>} \subseteq Seq(ColumnNames)
<1>1. /\ {Resource.read, request.columns, request.groups, Resource.upsertKeys} \subseteq Seq(STRING)
      /\ Resource.fields \in Seq(STRING) /\ Resource.pk \in STRING
  BY RequestTyped DEF IsRequest, IsConfig
<1>2. Seq(STRING) \subseteq Seq(ColumnNames)
  BY DEF ColumnNames
<1>3. <<Resource.pk>> \in Seq(STRING)
  BY <1>1, ShortSequences
<1> QED  BY <1>1, <1>2, <1>3 DEF Shown

CellPiece(n, c) == Piece("value", c, n, <<Cell(request.rows[n], c)>>)

LEMMA GroupPieces ==
  ASSUME request \in Requests
  PROVE  /\ For(Groups, {"value"})
         /\ \A p : p \in Range(Groups) <=>
              \E n \in DOMAIN request.rows, c \in Range(request.columns) : p = CellPiece(n, c)
<1> DEFINE rows == request.rows
           cols == request.columns
           group(n) == [m \in DOMAIN cols |-> CellPiece(n, cols[m])]
           all == [n \in DOMAIN rows |-> group(n)]
<1>1. /\ rows \in Seq(Range(rows)) /\ cols \in Seq(ColumnNames)
      /\ \A row \in Range(rows) : \A c \in DOMAIN row : row[c] \in Scalars
  BY RequestTyped, ColumnLists DEF IsRequest
<1>2. DOMAIN rows \subseteq Nat
  BY <1>1
<1>3. ASSUME NEW n \in DOMAIN rows, NEW c \in ColumnNames
      PROVE  CellPiece(n, c) \in AllPieces /\ CellPiece(n, c).part = "value"
  <2>1. Cell(rows[n], c) \in Scalars
    BY <1>1 DEF Cell, Range, Scalars
  <2>2. <<Cell(rows[n], c)>> \in Seq(Scalars) /\ n \in Nat
    BY <1>2, <2>1, ShortSequences
  <2>3. CellPiece(n, c).part = "value"
    BY DEF CellPiece, Piece
  <2>4. CellPiece(n, c) \in AllPieces
    BY <2>2, PieceTyped DEF CellPiece, PartNames
  <2> QED  BY <2>3, <2>4
<1>4. \A n \in DOMAIN rows : \A m \in DOMAIN cols :
        CellPiece(n, cols[m]) \in AllPieces /\ CellPiece(n, cols[m]).part = "value"
  <2>1. \A m \in DOMAIN cols : cols[m] \in ColumnNames
    BY <1>1
  <2> QED  BY <1>3, <2>1
<1>5. ASSUME NEW n \in DOMAIN rows
      PROVE  /\ group(n) \in Seq(AllPieces)
             /\ \A p : p \in Range(group(n)) <=> \E c \in Range(cols) : p = CellPiece(n, c)
  <2>1. group(n) \in [DOMAIN cols -> AllPieces]
    BY <1>4
  <2>2. \A p : p \in Range(group(n)) <=> \E c \in Range(cols) : p = CellPiece(n, c)
    BY DEF Range
  <2> HIDE DEF group, cols
  <2> QED  BY <1>1, <2>1, <2>2, MappedSequence
<1>6. \A n \in DOMAIN rows : all[n] = group(n)
  OBVIOUS
<1>7. Groups = FlattenSeq(all)
  BY DEF Groups, CellPiece
<1> HIDE DEF group
<1>8. all \in [DOMAIN rows -> Seq(AllPieces)]
  BY <1>5
<1> HIDE DEF all, rows
<1>9. all \in Seq(Seq(AllPieces)) /\ DOMAIN all = DOMAIN rows
  BY <1>1, <1>8, MappedSequence
<1>10. Groups \in Seq(AllPieces) /\ Range(Groups) = UNION {Range(all[n]) : n \in DOMAIN all}
  BY <1>7, <1>9, FlattenElements
<1>11. \A p : p \in Range(Groups) <=> \E n \in DOMAIN rows : p \in Range(group(n))
  BY <1>6, <1>9, <1>10
<1>12. \A p : p \in Range(Groups) <=>
         \E n \in DOMAIN rows, c \in Range(cols) : p = CellPiece(n, c)
  BY <1>5, <1>11
<1>13. \A c \in Range(cols) : c \in ColumnNames
  BY <1>1 DEF Range
<1> QED  BY <1>3, <1>10, <1>12, <1>13 DEF For, rows

OrderPiece(q) == Piece("order", q.name, IF q.sign = "-" THEN "DESC" ELSE "ASC", <<>>)

LEMMA SortPieces ==
  ASSUME request \in Requests
  PROVE  /\ For(Sort, {"order"})
         /\ \A p : p \in Range(Sort) <=> \E q \in Range(request.sort) :
                     (q.sign # "" \/ q.name # NoField) /\ p = OrderPiece(q)
<1> DEFINE list == request.sort
           own(q) == IF q.sign = "" /\ q.name = NoField THEN <<>> ELSE <<OrderPiece(q)>>
           all == [n \in DOMAIN list |-> own(list[n])]
<1>1. list \in Seq([sign : {"", "+", "-"}, name : STRING])
  BY RequestTyped DEF IsRequest
<1>2. \A n \in DOMAIN list : list[n].name \in ColumnNames
  <2>1. \A n \in DOMAIN list : list[n] \in [sign : {"", "+", "-"}, name : STRING]
    BY ONLY <1>1, ElementsOf
  <2> QED  BY <2>1 DEF ColumnNames
<1>3. ASSUME NEW q \in Range(list)
      PROVE  /\ For(own(q), {"order"})
             /\ \A p : p \in Range(own(q)) <=>
                         (q.sign # "" \/ q.name # NoField) /\ p = OrderPiece(q)
  <2>1. q.name \in ColumnNames
    BY <1>2 DEF Range
  <2>2. OrderPiece(q) \in AllPieces /\ OrderPiece(q).part = "order"
    <3>1. \A op \in {"DESC", "ASC"} : Piece("order", q.name, op, <<>>) \in AllPieces
      BY <2>1, ShortSequences, PieceTyped DEF PartNames, OpNames
    <3> QED  BY <3>1, PieceParts DEF OrderPiece
  <2>3. For(<<OrderPiece(q)>>, {"order"}) /\ Range(<<OrderPiece(q)>>) = {OrderPiece(q)}
    BY <2>2, ForOne, OnePiece
  <2> QED  BY <2>3, ForNone, NoPiece
<1>4. \A n \in DOMAIN list : all[n] = own(list[n]) /\ list[n] \in Range(list)
  BY DEF Range
<1>5. Sort = FlattenSeq(all)
  BY DEF Sort, OrderPiece
<1> HIDE DEF own
<1>6. all \in [DOMAIN list -> Seq(AllPieces)]
  BY <1>3, <1>4 DEF For
<1> HIDE DEF all
<1>7. all \in Seq(Seq(AllPieces)) /\ DOMAIN all = DOMAIN list
  <2> HIDE DEF list
  <2> QED  BY <1>1, <1>6, MappedSequence
<1>8. Sort \in Seq(AllPieces) /\ Range(Sort) = UNION {Range(all[n]) : n \in DOMAIN all}
  BY <1>5, <1>7, FlattenElements
<1>9. \A p : p \in Range(Sort) <=> \E n \in DOMAIN list : p \in Range(own(list[n]))
  BY <1>4, <1>7, <1>8
<1>10. \A p : p \in Range(Sort) <=> \E q \in Range(list) : p \in Range(own(q))
  BY <1>9 DEF Range
<1> QED  BY <1>3, <1>8, <1>10 DEF For

LEMMA Clamped ==
  ASSUME request \in Requests
  PROVE  /\ Clamp(request.limit) \in 1..MaxLimit
         /\ request.limit \in 1..MaxLimit => Clamp(request.limit) = request.limit
<1>1. request.limit \in Int \cup {Null} /\ DefaultLimit \in Nat /\ MaxLimit \in Nat \ {0}
      /\ Null \notin Int
  BY RequestTyped, QueryBuilderAssumption DEF IsRequest
<1> QED  BY <1>1 DEF Clamp

LEMMA PagePieces ==
  ASSUME request \in Requests
  PROVE  /\ For(Page, {"limit", "offset"})
         /\ Range(Page) = {Piece("limit", NoField, "", <<Clamp(request.limit)>>),
                           Piece("offset", NoField, "", <<request.offset>>)}
<1> DEFINE l == Piece("limit", NoField, "", <<Clamp(request.limit)>>)
           o == Piece("offset", NoField, "", <<request.offset>>)
<1>1. Clamp(request.limit) \in Scalars /\ request.offset \in Scalars
  <2>1. request.offset \in Int /\ MaxLimit \in Nat
    BY RequestTyped, QueryBuilderAssumption DEF IsRequest
  <2>2. Clamp(request.limit) \in 1..MaxLimit
    BY Clamped
  <2> QED  BY <2>1, <2>2 DEF Scalars
<1>2. l \in AllPieces /\ o \in AllPieces
  <2>1. <<Clamp(request.limit)>> \in Seq(Scalars) /\ <<request.offset>> \in Seq(Scalars)
    BY <1>1, ShortSequences
  <2> QED  BY <2>1, PieceTyped DEF PartNames, OpNames, ColumnNames
<1>3. l.part = "limit" /\ o.part = "offset"
  BY DEF Piece
<1>4. Page = <<l, o>>
  BY DEF Page
<1> HIDE DEF l, o
<1>5. <<l, o>> \in Seq(AllPieces) /\ DOMAIN <<l, o>> = {1, 2}
  BY <1>2
<1>6. Range(<<l, o>>) = {l, o}
  BY <1>5 DEF Range
<1> QED  BY <1>3, <1>4, <1>5, <1>6 DEF For, l, o

LEMMA RefusalPieces ==
  ASSUME NEW code \in Codes
  PROVE  /\ For(Refusing(code), {"refuse"})
         /\ \A condition : For(Unless(condition, code), {"refuse"})
<1>1. Piece("refuse", NoField, code, <<>>) \in AllPieces
  BY ShortSequences, PieceTyped DEF PartNames, ColumnNames
<1> QED  BY <1>1, ForOne, ForNone, PieceParts DEF Refusing, Unless

LEMMA SummedPieces ==
  ASSUME request \in Requests
  PROVE  For(Summed, {"sum", "refuse"})
<1>1. <<request.field>> \in Seq(ColumnNames)
  BY RequestTyped, ShortSequences DEF IsRequest, ColumnNames
<1>2. For(Columns("sum", "", <<request.field>>), {"sum"})
  BY <1>1, ColumnPieces DEF PartNames, OpNames
<1>3. For(Refusing("AGG_DENIED"), {"refuse"}) /\ For(Refusing("SUM_DENIED"), {"refuse"})
  BY RefusalPieces DEF Codes
<1>4. \A s : For(s, {"sum"}) \/ For(s, {"refuse"}) => For(s, {"sum", "refuse"})
  BY DEF For
<1> QED  BY <1>2, <1>3, <1>4, ForNone DEF Summed

-----------------------------------------------------------------------------
(* The pieces of each kind of statement *)

ShownPieces == Columns("show", "", Shown)
IntoPieces == Columns("into", "", request.columns)
GroupByPieces == Columns("group", "", request.groups)
ConflictPieces == Columns("conflict", "", Resource.upsertKeys)
SomeRow == Unless(request.rows # <<>>, "EMPTY_PAYLOAD")
SomeValue == Unless(request.values # <<>>, "EMPTY_PAYLOAD")
SomeKey == Unless(Resource.upsertKeys # <<>>, "NO_UPSERT_KEYS")
SomeTarget == Unless(request.ids # <<>> \/ request.filters # <<>>, "EMPTY_BULK_DELETE")
SomeFunction == Unless(request.function \in Resource.functions, "AGG_DENIED")

Stamped == {"soft_delete", "bulk_soft_delete"}
Others == {"show", "order", "into", "conflict", "group", "sum", "table", "refuse"}
Keyless == request.kind = "related" /\ request.local = <<>>

Conditions ==
  IF request.kind \in Inserts \/ Keyless THEN {}
  ELSE Range(RowFilters) \cup Range(SoftDelete) \cup Range(ByIds) \cup Range(Filters)
         \cup (IF request.kind \in ByKey THEN Range(ByPk) ELSE {}) \cup Range(ByForeign)
Written == Range(Assignments) \cup (IF request.kind \in Stamped THEN Range(Stamp) ELSE {})
Paged == IF request.kind = "list" THEN Range(Page) ELSE {}
Never == IF Keyless THEN Range(NoRow) ELSE {}

\* A statement has its conditions, what it writes, its page, and pieces without values.
Composed(s) ==
  /\ s \in Seq(AllPieces)
  /\ \E rest : /\ \A p \in rest : p.part \in Others
               /\ Range(s) = Conditions \cup Written \cup Range(Groups) \cup Paged
                                \cup Never \cup rest

\* What is left out: a block whose parameter the method does not have is empty.
LEMMA EmptyBlocks ==
  ASSUME request \in Requests
  PROVE  /\ request.kind \notin Bulk => Range(ByIds) = {}
         /\ request.kind \notin Bulk \cup Queried => Range(Filters) = {}
         /\ request.kind # "related" => Range(ByForeign) = {}
         /\ request.kind # "update" => Range(Assignments) = {}
         /\ request.kind \notin Inserts => Range(Groups) = {}
         /\ request.kind \in {"hard_delete", "bulk_hard_delete"} => Range(SoftDelete) = {}
<1>1. IsRequest(request)
  BY RequestTyped
<1>2. Range(<<>>) = {} /\ DOMAIN <<>> = {}
  BY NoPiece
<1>3. request.kind \notin Bulk => Range(ByIds) = {}
  BY <1>1, KeyPieces DEF IsRequest
<1>4. request.kind \notin Bulk \cup Queried => Range(Filters) = {}
  <2>1. request.kind \notin Bulk \cup Queried => request.filters = <<>>
    BY <1>1 DEF IsRequest
  <2> QED  BY <1>2, <2>1, FilterPieces
<1>5. request.kind # "update" => Range(Assignments) = {}
  <2>1. request.kind # "update" => request.values = <<>>
    BY <1>1 DEF IsRequest
  <2> QED  BY <1>2, <2>1, AssignmentPieces
<1>6. request.kind \notin Inserts => Range(Groups) = {}
  <2>1. request.kind \notin Inserts => request.rows = <<>>
    BY <1>1 DEF IsRequest
  <2> QED  BY <1>2, <2>1, GroupPieces
<1>7. request.kind \in {"hard_delete", "bulk_hard_delete"} => Range(SoftDelete) = {}
  BY <1>1, SoftDeletePieces DEF IsRequest, Resource
<1>8. request.kind # "related" => Range(ByForeign) = {}
  BY <1>1, ForeignPieces DEF IsRequest
<1> QED  BY <1>3, <1>4, <1>5, <1>6, <1>7, <1>8

\* Several blocks, one after the other.
LEMMA JoinedThree ==
  \A a, b, c \in Seq(AllPieces) :
    /\ a \o b \o c \in Seq(AllPieces)
    /\ Range(a \o b \o c) =
         Range(a) \cup Range(b) \cup Range(c)
<1> TAKE a, b, c \in Seq(AllPieces)
<1> DEFINE s == a \o b
<1>1. /\ s \in Seq(AllPieces)
      /\ Range(s) = Range(a) \cup Range(b)
  BY JoinedPieces
<1> HIDE DEF s
<1>2. s \o c \in Seq(AllPieces) /\ Range(s \o c) = Range(s) \cup Range(c)
  BY <1>1, JoinedPieces
<1> QED  BY <1>1, <1>2 DEF s

LEMMA JoinedFour ==
  \A a, b, c, d \in Seq(AllPieces) :
    /\ a \o b \o c \o d \in Seq(AllPieces)
    /\ Range(a \o b \o c \o d) =
         Range(a) \cup Range(b) \cup Range(c) \cup Range(d)
<1> TAKE a, b, c, d \in Seq(AllPieces)
<1> DEFINE s == a \o b \o c
<1>1. /\ s \in Seq(AllPieces)
      /\ Range(s) = Range(a) \cup Range(b) \cup Range(c)
  BY JoinedThree
<1> HIDE DEF s
<1>2. s \o d \in Seq(AllPieces) /\ Range(s \o d) = Range(s) \cup Range(d)
  BY <1>1, JoinedPieces
<1> QED  BY <1>1, <1>2 DEF s

LEMMA JoinedFive ==
  \A a, b, c, d, e \in Seq(AllPieces) :
    /\ a \o b \o c \o d \o e \in Seq(AllPieces)
    /\ Range(a \o b \o c \o d \o e) =
         Range(a) \cup Range(b) \cup Range(c) \cup Range(d) \cup Range(e)
<1> TAKE a, b, c, d, e \in Seq(AllPieces)
<1> DEFINE s == a \o b \o c \o d
<1>1. /\ s \in Seq(AllPieces)
      /\ Range(s) = Range(a) \cup Range(b) \cup Range(c) \cup Range(d)
  BY JoinedFour
<1> HIDE DEF s
<1>2. s \o e \in Seq(AllPieces) /\ Range(s \o e) = Range(s) \cup Range(e)
  BY <1>1, JoinedPieces
<1> QED  BY <1>1, <1>2 DEF s

\* The blocks that bind no value.
LEMMA OtherBlocks ==
  ASSUME request \in Requests
  PROVE  /\ \A s \in {ShownPieces, IntoPieces, GroupByPieces, ConflictPieces, Sort, Summed} :
              For(s, Others)
         /\ \A s \in {SomeRow, SomeValue, SomeKey, SomeTarget, SomeFunction} : For(s, Others)
         /\ \A s \in {Returning, ReturningPk, Target} : For(s, Others)
<1>1. ASSUME NEW part \in {"show", "into", "group", "conflict"}, NEW cols \in Seq(ColumnNames)
      PROVE  For(Columns(part, "", cols), Others)
  <2>1. For(Columns(part, "", cols), {part})
    BY <1>1, ColumnPieces DEF PartNames, OpNames
  <2> QED  BY <2>1 DEF For, Others
<1>2. /\ Shown \in Seq(ColumnNames) /\ request.columns \in Seq(ColumnNames)
      /\ request.groups \in Seq(ColumnNames) /\ Resource.upsertKeys \in Seq(ColumnNames)
      /\ Resource.fields \in Seq(ColumnNames) /\ <<Resource.pk>> \in Seq(ColumnNames)
  BY ColumnLists
<1>3. /\ For(ShownPieces, Others) /\ For(IntoPieces, Others) /\ For(GroupByPieces, Others)
      /\ For(ConflictPieces, Others) /\ For(Returning, Others) /\ For(ReturningPk, Others)
  BY <1>1, <1>2 DEF ShownPieces, IntoPieces, GroupByPieces, ConflictPieces, Returning, ReturningPk
<1>4. For(Sort, Others) /\ For(Summed, Others)
  BY SortPieces, SummedPieces DEF For, Others
<1>5. ASSUME NEW condition, NEW code \in Codes PROVE For(Unless(condition, code), Others)
  BY RefusalPieces DEF For, Others
<1>6. {"EMPTY_PAYLOAD", "NO_UPSERT_KEYS", "EMPTY_BULK_DELETE", "AGG_DENIED"} \subseteq Codes
  BY DEF Codes
<1>7. /\ For(SomeRow, Others) /\ For(SomeValue, Others) /\ For(SomeKey, Others)
      /\ For(SomeTarget, Others) /\ For(SomeFunction, Others)
  BY <1>5, <1>6 DEF SomeRow, SomeValue, SomeKey, SomeTarget, SomeFunction
<1>8. For(Target, Others)
  <2>1. Piece("table", Resource.table, "", <<>>) \in AllPieces
    BY RequestTyped, ShortSequences, PieceTyped DEF IsConfig, PartNames, OpNames, ColumnNames
  <2>2. For(<<Piece("table", Resource.table, "", <<>>)>>, {"table"})
    <3>1. Piece("table", Resource.table, "", <<>>).part \in {"table"}
      BY DEF Piece
    <3> QED  BY <2>1, <3>1, ForOne
  <2> QED  BY <2>2 DEF Target, For, Others
<1> QED  BY <1>3, <1>4, <1>7, <1>8

\* Every block is a sequence of pieces.
LEMMA AllBlocks ==
  ASSUME request \in Requests
  PROVE  /\ {RowFilters, SoftDelete, ByIds, ByPk, Filters, ByForeign} \subseteq Seq(AllPieces)
         /\ {Assignments, Stamp, Groups, Page, NoRow} \subseteq Seq(AllPieces)
         /\ {ShownPieces, IntoPieces, GroupByPieces, ConflictPieces} \subseteq Seq(AllPieces)
         /\ {Sort, Summed, Returning, ReturningPk, Target} \subseteq Seq(AllPieces)
         /\ {SomeRow, SomeValue, SomeKey, SomeTarget, SomeFunction} \subseteq Seq(AllPieces)
<1>1. {RowFilters, SoftDelete, ByIds, ByPk, Filters, ByForeign} \subseteq Seq(AllPieces)
  BY RowFilterPieces, SoftDeletePieces, KeyPieces, FilterPieces, ForeignPieces
<1>2. {Assignments, Stamp, Groups, Page, NoRow} \subseteq Seq(AllPieces)
  BY AssignmentPieces, StampPieces, GroupPieces, PagePieces, NoRowPieces DEF For
<1> QED  BY <1>1, <1>2, OtherBlocks DEF For

\* What the statement of each kind is made of.
LEMMA ClausesOf ==
  ASSUME request \in Requests
  PROVE  /\ Clauses \in Seq(AllPieces)
         /\ request.kind = "count" =>
              Range(Clauses) =
                Range(RowFilters) \cup Range(SoftDelete) \cup Range(Filters)
         /\ request.kind = "list" =>
              Range(Clauses) =
                Range(RowFilters) \cup Range(SoftDelete) \cup Range(Filters)
                \cup Range(ShownPieces) \cup Range(Sort) \cup Range(Page)
         /\ request.kind = "get" =>
              Range(Clauses) =
                Range(RowFilters) \cup Range(SoftDelete) \cup Range(ByPk)
                \cup Range(ShownPieces)
         /\ request.kind = "insert" =>
              Range(Clauses) =
                Range(SomeRow) \cup Range(IntoPieces) \cup Range(Groups)
                \cup Range(Returning)
         /\ request.kind = "upsert" =>
              Range(Clauses) =
                Range(IntoPieces) \cup Range(Groups) \cup Range(ConflictPieces)
                \cup Range(Returning)
         /\ request.kind = "update" =>
              Range(Clauses) =
                Range(SomeValue) \cup Range(Assignments) \cup Range(RowFilters)
                \cup Range(SoftDelete) \cup Range(ByPk) \cup Range(Returning)
         /\ request.kind = "soft_delete" =>
              Range(Clauses) =
                Range(Stamp) \cup Range(RowFilters) \cup Range(SoftDelete)
                \cup Range(ByPk) \cup Range(Returning)
         /\ request.kind = "hard_delete" =>
              Range(Clauses) =
                Range(RowFilters) \cup Range(ByPk) \cup Range(ReturningPk)
         /\ request.kind = "bulk_soft_delete" =>
              Range(Clauses) =
                Range(RowFilters) \cup Range(SoftDelete) \cup Range(ByIds)
                \cup Range(Filters) \cup Range(SomeTarget) \cup Range(Returning)
                \cup Range(Stamp)
         /\ request.kind = "bulk_hard_delete" =>
              Range(Clauses) =
                Range(RowFilters) \cup Range(ByIds) \cup Range(Filters)
                \cup Range(SomeTarget) \cup Range(ReturningPk)
         /\ request.kind = "aggregate" =>
              Range(Clauses) =
                Range(SomeFunction) \cup Range(RowFilters) \cup Range(SoftDelete)
                \cup Range(Filters) \cup Range(GroupByPieces) \cup Range(Summed)
         /\ request.kind = "related" /\ request.local # <<>> =>
              Range(Clauses) =
                Range(RowFilters) \cup Range(SoftDelete) \cup Range(ByForeign)
                \cup Range(Returning)
         /\ request.kind = "related" /\ request.local = <<>> =>
              Range(Clauses) =
                Range(Returning) \cup Range(NoRow)
<1>1. request.kind \in ByKey \cup Bulk \cup Inserts \cup Queried \cup {"related"}
  BY RequestTyped DEF IsRequest
<1>2. ASSUME request.kind = "count"
      PROVE  /\ Clauses \in Seq(AllPieces)
             /\ Range(Clauses) =
                  Range(RowFilters) \cup Range(SoftDelete) \cup Range(Filters)
  <2>1. Clauses = RowFilters \o SoftDelete \o Filters
    BY <1>2 DEF Clauses
  <2>2. RowFilters \in Seq(AllPieces) /\ SoftDelete \in Seq(AllPieces)
        /\ Filters \in Seq(AllPieces)
    BY AllBlocks
  <2> QED  BY ONLY <2>1, <2>2, JoinedThree
<1>3. ASSUME request.kind = "list"
      PROVE  /\ Clauses \in Seq(AllPieces)
             /\ Range(Clauses) =
                  Range(RowFilters) \cup Range(SoftDelete) \cup Range(Filters)
                  \cup Range(ShownPieces) \cup Range(Sort) \cup Range(Page)
  <2>1. Clauses = RowFilters \o SoftDelete \o Filters \o ShownPieces \o Sort \o Page
    BY <1>3 DEF Clauses, ShownPieces
  <2>2. RowFilters \in Seq(AllPieces) /\ SoftDelete \in Seq(AllPieces)
        /\ Filters \in Seq(AllPieces) /\ ShownPieces \in Seq(AllPieces)
        /\ Sort \in Seq(AllPieces) /\ Page \in Seq(AllPieces)
    BY AllBlocks
  <2> DEFINE five == RowFilters \o SoftDelete \o Filters \o ShownPieces \o Sort
  <2>3. /\ five \in Seq(AllPieces)
        /\ Range(five) = Range(RowFilters) \cup Range(SoftDelete) \cup Range(Filters)
                         \cup Range(ShownPieces) \cup Range(Sort)
    BY ONLY <2>2, JoinedFive
  <2>4. Clauses = five \o Page
    BY <2>1
  <2> HIDE DEF five
  <2> QED  BY ONLY <2>2, <2>3, <2>4, JoinedPieces
<1>4. ASSUME request.kind = "get"
      PROVE  /\ Clauses \in Seq(AllPieces)
             /\ Range(Clauses) =
                  Range(RowFilters) \cup Range(SoftDelete) \cup Range(ByPk)
                  \cup Range(ShownPieces)
  <2>1. Clauses = RowFilters \o SoftDelete \o ByPk \o ShownPieces
    BY <1>4 DEF Clauses, ShownPieces
  <2>2. RowFilters \in Seq(AllPieces) /\ SoftDelete \in Seq(AllPieces)
        /\ ByPk \in Seq(AllPieces) /\ ShownPieces \in Seq(AllPieces)
    BY AllBlocks
  <2> QED  BY ONLY <2>1, <2>2, JoinedFour
<1>5. ASSUME request.kind = "insert"
      PROVE  /\ Clauses \in Seq(AllPieces)
             /\ Range(Clauses) =
                  Range(SomeRow) \cup Range(IntoPieces) \cup Range(Groups)
                  \cup Range(Returning)
  <2>1. Clauses = SomeRow \o IntoPieces \o Groups \o Returning
    BY <1>5 DEF Clauses, Insert, SomeRow, IntoPieces
  <2>2. SomeRow \in Seq(AllPieces) /\ IntoPieces \in Seq(AllPieces)
        /\ Groups \in Seq(AllPieces) /\ Returning \in Seq(AllPieces)
    BY AllBlocks
  <2> QED  BY ONLY <2>1, <2>2, JoinedFour
<1>6. ASSUME request.kind = "upsert"
      PROVE  /\ Clauses \in Seq(AllPieces)
             /\ Range(Clauses) =
                  Range(IntoPieces) \cup Range(Groups) \cup Range(ConflictPieces)
                  \cup Range(Returning)
  <2>1. Clauses = IntoPieces \o Groups \o ConflictPieces \o Returning
    BY <1>6 DEF Clauses, IntoPieces, ConflictPieces
  <2>2. IntoPieces \in Seq(AllPieces) /\ Groups \in Seq(AllPieces)
        /\ ConflictPieces \in Seq(AllPieces) /\ Returning \in Seq(AllPieces)
    BY AllBlocks
  <2> QED  BY ONLY <2>1, <2>2, JoinedFour
<1>7. ASSUME request.kind = "update"
      PROVE  /\ Clauses \in Seq(AllPieces)
             /\ Range(Clauses) =
                  Range(SomeValue) \cup Range(Assignments) \cup Range(RowFilters)
                  \cup Range(SoftDelete) \cup Range(ByPk) \cup Range(Returning)
  <2>1. Clauses = SomeValue \o Assignments \o RowFilters \o SoftDelete \o ByPk
                  \o Returning
    BY <1>7 DEF Clauses, SomeValue
  <2>2. SomeValue \in Seq(AllPieces) /\ Assignments \in Seq(AllPieces)
        /\ RowFilters \in Seq(AllPieces) /\ SoftDelete \in Seq(AllPieces)
        /\ ByPk \in Seq(AllPieces) /\ Returning \in Seq(AllPieces)
    BY AllBlocks
  <2> DEFINE five == SomeValue \o Assignments \o RowFilters \o SoftDelete \o ByPk
  <2>3. /\ five \in Seq(AllPieces)
        /\ Range(five) = Range(SomeValue) \cup Range(Assignments) \cup Range(RowFilters)
                         \cup Range(SoftDelete) \cup Range(ByPk)
    BY ONLY <2>2, JoinedFive
  <2>4. Clauses = five \o Returning
    BY <2>1
  <2> HIDE DEF five
  <2> QED  BY ONLY <2>2, <2>3, <2>4, JoinedPieces
<1>8. ASSUME request.kind = "soft_delete"
      PROVE  /\ Clauses \in Seq(AllPieces)
             /\ Range(Clauses) =
                  Range(Stamp) \cup Range(RowFilters) \cup Range(SoftDelete)
                  \cup Range(ByPk) \cup Range(Returning)
  <2>1. Clauses = Stamp \o RowFilters \o SoftDelete \o ByPk \o Returning
    BY <1>8 DEF Clauses
  <2>2. Stamp \in Seq(AllPieces) /\ RowFilters \in Seq(AllPieces)
        /\ SoftDelete \in Seq(AllPieces) /\ ByPk \in Seq(AllPieces)
        /\ Returning \in Seq(AllPieces)
    BY AllBlocks
  <2> QED  BY ONLY <2>1, <2>2, JoinedFive
<1>9. ASSUME request.kind = "hard_delete"
      PROVE  /\ Clauses \in Seq(AllPieces)
             /\ Range(Clauses) =
                  Range(RowFilters) \cup Range(ByPk) \cup Range(ReturningPk)
  <2>1. Clauses = RowFilters \o ByPk \o ReturningPk
    BY <1>9 DEF Clauses
  <2>2. RowFilters \in Seq(AllPieces) /\ ByPk \in Seq(AllPieces)
        /\ ReturningPk \in Seq(AllPieces)
    BY AllBlocks
  <2> QED  BY ONLY <2>1, <2>2, JoinedThree
<1>10. ASSUME request.kind = "bulk_soft_delete"
      PROVE  /\ Clauses \in Seq(AllPieces)
             /\ Range(Clauses) =
                  Range(RowFilters) \cup Range(SoftDelete) \cup Range(ByIds)
                  \cup Range(Filters) \cup Range(SomeTarget) \cup Range(Returning)
                  \cup Range(Stamp)
  <2>1. Clauses = RowFilters \o SoftDelete \o ByIds \o Filters \o SomeTarget
                  \o Returning \o Stamp
    BY <1>10 DEF Clauses, SomeTarget
  <2>2. RowFilters \in Seq(AllPieces) /\ SoftDelete \in Seq(AllPieces)
        /\ ByIds \in Seq(AllPieces) /\ Filters \in Seq(AllPieces)
        /\ SomeTarget \in Seq(AllPieces) /\ Returning \in Seq(AllPieces)
        /\ Stamp \in Seq(AllPieces)
    BY AllBlocks
  <2> DEFINE five == RowFilters \o SoftDelete \o ByIds \o Filters \o SomeTarget
  <2>3. /\ five \in Seq(AllPieces)
        /\ Range(five) = Range(RowFilters) \cup Range(SoftDelete) \cup Range(ByIds)
                         \cup Range(Filters) \cup Range(SomeTarget)
    BY ONLY <2>2, JoinedFive
  <2>4. Clauses = five \o Returning \o Stamp
    BY <2>1
  <2> HIDE DEF five
  <2> QED  BY ONLY <2>2, <2>3, <2>4, JoinedThree
<1>11. ASSUME request.kind = "bulk_hard_delete"
      PROVE  /\ Clauses \in Seq(AllPieces)
             /\ Range(Clauses) =
                  Range(RowFilters) \cup Range(ByIds) \cup Range(Filters)
                  \cup Range(SomeTarget) \cup Range(ReturningPk)
  <2>1. Clauses = RowFilters \o ByIds \o Filters \o SomeTarget \o ReturningPk
    BY <1>11 DEF Clauses, SomeTarget
  <2>2. RowFilters \in Seq(AllPieces) /\ ByIds \in Seq(AllPieces)
        /\ Filters \in Seq(AllPieces) /\ SomeTarget \in Seq(AllPieces)
        /\ ReturningPk \in Seq(AllPieces)
    BY AllBlocks
  <2> QED  BY ONLY <2>1, <2>2, JoinedFive
<1>12. ASSUME request.kind = "aggregate"
      PROVE  /\ Clauses \in Seq(AllPieces)
             /\ Range(Clauses) =
                  Range(SomeFunction) \cup Range(RowFilters) \cup Range(SoftDelete)
                  \cup Range(Filters) \cup Range(GroupByPieces) \cup Range(Summed)
  <2>1. Clauses = SomeFunction \o RowFilters \o SoftDelete \o Filters \o GroupByPieces
                  \o Summed
    BY <1>12 DEF Clauses, SomeFunction, GroupByPieces
  <2>2. SomeFunction \in Seq(AllPieces) /\ RowFilters \in Seq(AllPieces)
        /\ SoftDelete \in Seq(AllPieces) /\ Filters \in Seq(AllPieces)
        /\ GroupByPieces \in Seq(AllPieces) /\ Summed \in Seq(AllPieces)
    BY AllBlocks
  <2> DEFINE five == SomeFunction \o RowFilters \o SoftDelete \o Filters \o GroupByPieces
  <2>3. /\ five \in Seq(AllPieces)
        /\ Range(five) = Range(SomeFunction) \cup Range(RowFilters)
                         \cup Range(SoftDelete) \cup Range(Filters)
                         \cup Range(GroupByPieces)
    BY ONLY <2>2, JoinedFive
  <2>4. Clauses = five \o Summed
    BY <2>1
  <2> HIDE DEF five
  <2> QED  BY ONLY <2>2, <2>3, <2>4, JoinedPieces
<1>13. ASSUME request.kind = "related", request.local # <<>>
      PROVE  /\ Clauses \in Seq(AllPieces)
             /\ Range(Clauses) =
                  Range(RowFilters) \cup Range(SoftDelete) \cup Range(ByForeign)
                  \cup Range(Returning)
  <2>1. Clauses = RowFilters \o SoftDelete \o ByForeign \o Returning
    BY <1>13 DEF Clauses
  <2>2. RowFilters \in Seq(AllPieces) /\ SoftDelete \in Seq(AllPieces)
        /\ ByForeign \in Seq(AllPieces) /\ Returning \in Seq(AllPieces)
    BY AllBlocks
  <2> QED  BY ONLY <2>1, <2>2, JoinedFour
<1>14. ASSUME request.kind = "related", request.local = <<>>
      PROVE  /\ Clauses \in Seq(AllPieces)
             /\ Range(Clauses) =
                  Range(Returning) \cup Range(NoRow)
  <2>1. Clauses = Returning \o NoRow
    BY <1>14 DEF Clauses
  <2>2. Returning \in Seq(AllPieces) /\ NoRow \in Seq(AllPieces)
    BY AllBlocks
  <2> QED  BY ONLY <2>1, <2>2, JoinedPieces
<1> QED  BY <1>1, <1>2, <1>3, <1>4, <1>5, <1>6, <1>7, <1>8, <1>9, <1>10, <1>11, <1>12, <1>13, <1>14
        DEF ByKey, Bulk, Inserts, Queried

LEMMA PiecesComposed ==
  ASSUME request \in Requests
  PROVE  /\ Composed(Pieces)
         /\ Range(Pieces) = Range(Target) \cup Range(Clauses)
<1>1. /\ Pieces \in Seq(AllPieces)
      /\ Range(Pieces) = Range(Target) \cup Range(Clauses)
  <2>1. Target \in Seq(AllPieces) /\ Clauses \in Seq(AllPieces)
    BY AllBlocks, ClausesOf
  <2> QED  BY <2>1, JoinedPieces DEF Pieces
<1> DEFINE Made(rest) == Range(Clauses) = Conditions \cup Written \cup Range(Groups)
                                            \cup Paged \cup Never \cup rest
<1>2. ASSUME NEW rest, \A p \in rest : p.part \in Others, Made(rest)
      PROVE  Composed(Pieces)
  <2> DEFINE more == rest \cup Range(Target)
  <2>1. \A p \in Range(Target) : p.part \in Others
    BY OtherBlocks DEF For
  <2>2. \A p \in more : p.part \in Others
    BY <1>2, <2>1
  <2>3. Range(Pieces) = Conditions \cup Written \cup Range(Groups) \cup Paged
                          \cup Never \cup more
    BY <1>1, <1>2
  <2> HIDE DEF more
  <2> QED  BY <1>1, <2>2, <2>3 DEF Composed
<1>3. request.kind \in ByKey \cup Bulk \cup Inserts \cup Queried \cup {"related"}
  BY RequestTyped DEF IsRequest
<1>4. /\ \A s \in {ShownPieces, IntoPieces, GroupByPieces, ConflictPieces, Sort, Summed} :
           \A p \in Range(s) : p.part \in Others
      /\ \A s \in {SomeRow, SomeValue, SomeKey, SomeTarget, SomeFunction} :
           \A p \in Range(s) : p.part \in Others
      /\ \A s \in {Returning, ReturningPk, Target} : \A p \in Range(s) : p.part \in Others
  BY OtherBlocks DEF For
<1>5. ASSUME request.kind = "count"
      PROVE  Made({})
  BY <1>5, ClausesOf, EmptyBlocks
     DEF Conditions, Written, Paged, Never, Keyless, Inserts, Bulk, ByKey, Queried, Stamped
<1>6. ASSUME request.kind = "list"
      PROVE  Made(Range(ShownPieces) \cup Range(Sort))
  BY <1>6, ClausesOf, EmptyBlocks
     DEF Conditions, Written, Paged, Never, Keyless, Inserts, Bulk, ByKey, Queried, Stamped
<1>7. ASSUME request.kind = "get"
      PROVE  Made(Range(ShownPieces))
  BY <1>7, ClausesOf, EmptyBlocks
     DEF Conditions, Written, Paged, Never, Keyless, Inserts, Bulk, ByKey, Queried, Stamped
<1>8. ASSUME request.kind = "insert"
      PROVE  Made(Range(SomeRow) \cup Range(IntoPieces) \cup Range(Returning))
  BY <1>8, ClausesOf, EmptyBlocks
     DEF Conditions, Written, Paged, Never, Keyless, Inserts, Bulk, ByKey, Queried, Stamped
<1>9. ASSUME request.kind = "upsert"
      PROVE  Made(Range(IntoPieces) \cup Range(ConflictPieces) \cup Range(Returning))
  BY <1>9, ClausesOf, EmptyBlocks
     DEF Conditions, Written, Paged, Never, Keyless, Inserts, Bulk, ByKey, Queried, Stamped
<1>10. ASSUME request.kind = "update"
      PROVE  Made(Range(SomeValue) \cup Range(Returning))
  BY <1>10, ClausesOf, EmptyBlocks
     DEF Conditions, Written, Paged, Never, Keyless, Inserts, Bulk, ByKey, Queried, Stamped
<1>11. ASSUME request.kind = "soft_delete"
      PROVE  Made(Range(Returning))
  BY <1>11, ClausesOf, EmptyBlocks
     DEF Conditions, Written, Paged, Never, Keyless, Inserts, Bulk, ByKey, Queried, Stamped
<1>12. ASSUME request.kind = "hard_delete"
      PROVE  Made(Range(ReturningPk))
  BY <1>12, ClausesOf, EmptyBlocks
     DEF Conditions, Written, Paged, Never, Keyless, Inserts, Bulk, ByKey, Queried, Stamped
<1>13. ASSUME request.kind = "bulk_soft_delete"
      PROVE  Made(Range(SomeTarget) \cup Range(Returning))
  BY <1>13, ClausesOf, EmptyBlocks
     DEF Conditions, Written, Paged, Never, Keyless, Inserts, Bulk, ByKey, Queried, Stamped
<1>14. ASSUME request.kind = "bulk_hard_delete"
      PROVE  Made(Range(SomeTarget) \cup Range(ReturningPk))
  BY <1>14, ClausesOf, EmptyBlocks
     DEF Conditions, Written, Paged, Never, Keyless, Inserts, Bulk, ByKey, Queried, Stamped
<1>15. ASSUME request.kind = "aggregate"
      PROVE  Made(Range(SomeFunction) \cup Range(GroupByPieces) \cup Range(Summed))
  BY <1>15, ClausesOf, EmptyBlocks
     DEF Conditions, Written, Paged, Never, Keyless, Inserts, Bulk, ByKey, Queried, Stamped
<1>16. ASSUME request.kind = "related", request.local # <<>>
      PROVE  Made(Range(Returning))
  BY <1>16, ClausesOf, EmptyBlocks
     DEF Conditions, Written, Paged, Never, Keyless, Inserts, Bulk, ByKey, Queried, Stamped
<1>17. ASSUME request.kind = "related", request.local = <<>>
      PROVE  Made(Range(Returning))
  BY <1>17, ClausesOf, EmptyBlocks
     DEF Conditions, Written, Paged, Never, Keyless, Inserts, Bulk, ByKey, Queried, Stamped
<1> HIDE DEF Made
<1>18. ASSUME request.kind = "count"
      PROVE  Composed(Pieces)
  <2>1. \A p \in {} : p.part \in Others
    BY <1>4
  <2> QED  BY <1>5, <1>18, <1>2, <2>1
<1>19. ASSUME request.kind = "list"
      PROVE  Composed(Pieces)
  <2>1. \A p \in Range(ShownPieces) \cup Range(Sort) : p.part \in Others
    BY <1>4
  <2> QED  BY <1>6, <1>19, <1>2, <2>1
<1>20. ASSUME request.kind = "get"
      PROVE  Composed(Pieces)
  <2>1. \A p \in Range(ShownPieces) : p.part \in Others
    BY <1>4
  <2> QED  BY <1>7, <1>20, <1>2, <2>1
<1>21. ASSUME request.kind = "insert"
      PROVE  Composed(Pieces)
  <2>1. \A p \in Range(SomeRow) \cup Range(IntoPieces) \cup Range(Returning) : p.part \in Others
    BY <1>4
  <2> QED  BY <1>8, <1>21, <1>2, <2>1
<1>22. ASSUME request.kind = "upsert"
      PROVE  Composed(Pieces)
  <2>1. \A p \in Range(IntoPieces) \cup Range(ConflictPieces) \cup Range(Returning) : p.part \in Others
    BY <1>4
  <2> QED  BY <1>9, <1>22, <1>2, <2>1
<1>23. ASSUME request.kind = "update"
      PROVE  Composed(Pieces)
  <2>1. \A p \in Range(SomeValue) \cup Range(Returning) : p.part \in Others
    BY <1>4
  <2> QED  BY <1>10, <1>23, <1>2, <2>1
<1>24. ASSUME request.kind = "soft_delete"
      PROVE  Composed(Pieces)
  <2>1. \A p \in Range(Returning) : p.part \in Others
    BY <1>4
  <2> QED  BY <1>11, <1>24, <1>2, <2>1
<1>25. ASSUME request.kind = "hard_delete"
      PROVE  Composed(Pieces)
  <2>1. \A p \in Range(ReturningPk) : p.part \in Others
    BY <1>4
  <2> QED  BY <1>12, <1>25, <1>2, <2>1
<1>26. ASSUME request.kind = "bulk_soft_delete"
      PROVE  Composed(Pieces)
  <2>1. \A p \in Range(SomeTarget) \cup Range(Returning) : p.part \in Others
    BY <1>4
  <2> QED  BY <1>13, <1>26, <1>2, <2>1
<1>27. ASSUME request.kind = "bulk_hard_delete"
      PROVE  Composed(Pieces)
  <2>1. \A p \in Range(SomeTarget) \cup Range(ReturningPk) : p.part \in Others
    BY <1>4
  <2> QED  BY <1>14, <1>27, <1>2, <2>1
<1>28. ASSUME request.kind = "aggregate"
      PROVE  Composed(Pieces)
  <2>1. \A p \in Range(SomeFunction) \cup Range(GroupByPieces) \cup Range(Summed) : p.part \in Others
    BY <1>4
  <2> QED  BY <1>15, <1>28, <1>2, <2>1
<1>29. ASSUME request.kind = "related", request.local # <<>>
      PROVE  Composed(Pieces)
  <2>1. \A p \in Range(Returning) : p.part \in Others
    BY <1>4
  <2> QED  BY <1>16, <1>29, <1>2, <2>1
<1>30. ASSUME request.kind = "related", request.local = <<>>
      PROVE  Composed(Pieces)
  <2>1. \A p \in Range(Returning) : p.part \in Others
    BY <1>4
  <2> QED  BY <1>17, <1>30, <1>2, <2>1
<1> QED  BY <1>1, <1>3, <1>18, <1>19, <1>20, <1>21, <1>22, <1>23,
            <1>24, <1>25, <1>26, <1>27, <1>28, <1>29, <1>30 DEF ByKey, Bulk, Inserts, Queried

\* What is tried first.
LEMMA DraftOf ==
  ASSUME request \in Requests
  PROVE  /\ Draft \in Seq(AllPieces)
         /\ request.kind = "upsert" =>
              Range(Draft) = Range(Target) \cup Range(SomeKey) \cup Range(SomeRow)
                \cup Range(IntoPieces) \cup Range(Groups) \cup Range(Returning)
         /\ Keyless => Range(Draft) = Range(Target) \cup Range(RowFilters) \cup Range(SoftDelete)
         /\ request.kind # "upsert" /\ ~ Keyless => Range(Draft) = {}
<1>1. ASSUME request.kind = "upsert"
      PROVE  /\ Draft \in Seq(AllPieces)
             /\ Range(Draft) = Range(Target) \cup Range(SomeKey) \cup Range(SomeRow)
                  \cup Range(IntoPieces) \cup Range(Groups) \cup Range(Returning)
  <2>1. Draft = Target \o SomeKey \o Insert
    BY <1>1 DEF Draft, SomeKey
  <2>2. Insert = SomeRow \o IntoPieces \o Groups \o Returning
    BY DEF Insert, SomeRow, IntoPieces
  <2>3. /\ Target \in Seq(AllPieces) /\ SomeKey \in Seq(AllPieces) /\ SomeRow \in Seq(AllPieces)
        /\ IntoPieces \in Seq(AllPieces) /\ Groups \in Seq(AllPieces)
        /\ Returning \in Seq(AllPieces)
    BY AllBlocks
  <2>4. /\ Insert \in Seq(AllPieces)
        /\ Range(Insert) = Range(SomeRow) \cup Range(IntoPieces) \cup Range(Groups)
                             \cup Range(Returning)
    BY ONLY <2>2, <2>3, JoinedFour
  <2>5. /\ Draft \in Seq(AllPieces)
        /\ Range(Draft) = Range(Target) \cup Range(SomeKey) \cup Range(Insert)
    BY ONLY <2>1, <2>3, <2>4, JoinedThree
  <2> QED  BY <2>4, <2>5
<1>2. ASSUME Keyless
      PROVE  /\ Draft \in Seq(AllPieces)
             /\ Range(Draft) = Range(Target) \cup Range(RowFilters) \cup Range(SoftDelete)
  <2>1. Draft = Target \o RowFilters \o SoftDelete
    BY <1>2 DEF Draft, Keyless
  <2>2. /\ Target \in Seq(AllPieces) /\ RowFilters \in Seq(AllPieces)
        /\ SoftDelete \in Seq(AllPieces)
    BY AllBlocks
  <2> QED  BY ONLY <2>1, <2>2, JoinedThree
<1>3. ASSUME request.kind # "upsert", ~ Keyless
      PROVE  Draft \in Seq(AllPieces) /\ Range(Draft) = {}
  <2>1. Draft = <<>>
    BY <1>3 DEF Draft, Keyless
  <2> QED  BY <2>1, NoPiece
<1> QED  BY <1>1, <1>2, <1>3 DEF Keyless

-----------------------------------------------------------------------------
(* The inductive invariant *)

\* A piece that was added is one of the request's, its values where its placeholders say.
Matches(b, p) ==
  /\ b.part = p.part /\ b.col = p.col /\ b.op = p.op
  /\ Values(b) = p.values
  /\ Denied(p) = "none"

BoundPieces ==
  [part : PartNames, col : ColumnNames, op : OpNames \cup Codes \cup Nat, at : Seq(Nat)]

BuilderTyped ==
  /\ request \in Requests
  /\ args \in Seq(Scalars)
  /\ bound \in Seq(BoundPieces)
  /\ todo \in Seq(AllPieces)
  /\ refusal = "new" => todo = <<>> /\ bound = <<>> /\ args = <<>>

\* What is bound and what is still to do make up a list of pieces, in its order.
InOrder(pieces) ==
  /\ Len(bound) + Len(todo) = Len(pieces)
  /\ \A i \in 1..Len(todo) : todo[i] = pieces[Len(bound) + i]
  /\ \A i \in 1..Len(bound) : Matches(bound[i], pieces[i])

\* A first attempt that was given up had nothing to refuse; a refusal has its piece.
BuilderInv ==
  /\ BuilderTyped
  /\ refusal = "draft" => InOrder(Draft)
  /\ refusal = "none" => InOrder(Pieces) /\ \A p \in Range(Draft) : Denied(p) = "none"
  /\ Refused => \E p \in Range(Draft) \cup Range(Pieces) : Denied(p) # "none"
  /\ EveryArgumentUsed

LEMMA SamePieces ==
  ASSUME request' = request
  PROVE  Pieces' = Pieces /\ Draft' = Draft /\ \A p : Denied(p)' = Denied(p)
<1>1. Resource' = Resource
  BY DEF Resource
<1>2. /\ RowFilters' = RowFilters /\ SoftDelete' = SoftDelete /\ ByPk' = ByPk /\ ByIds' = ByIds
      /\ ByForeign' = ByForeign /\ Target' = Target
  BY <1>1 DEF RowFilters, SoftDelete, ByPk, ByIds, ByForeign, Target
<1>3. /\ Filters' = Filters /\ Assignments' = Assignments /\ Stamp' = Stamp /\ Groups' = Groups
      /\ Returning' = Returning /\ ReturningPk' = ReturningPk
  BY <1>1 DEF Filters, Assignments, Stamp, Groups, Returning, ReturningPk
<1>4. Shown' = Shown /\ Sort' = Sort /\ Page' = Page /\ Summed' = Summed
  BY <1>1 DEF Shown, Sort, Page, Summed
<1>5. Insert' = Insert
  BY <1>3 DEF Insert
<1>6. Clauses' = Clauses
  BY <1>1, <1>2, <1>3, <1>4, <1>5 DEF Clauses
<1>7. Pieces' = Pieces
  BY <1>2, <1>6 DEF Pieces
<1>8. Draft' = Draft
  BY <1>1, <1>2, <1>5 DEF Draft
<1>9. Allowed' = Allowed
  BY <1>1 DEF Allowed
<1>10. \A p : Denied(p)' = Denied(p)
  BY <1>1, <1>9 DEF Denied
<1> QED  BY <1>7, <1>8, <1>10

LEMMA Codings == \A p \in AllPieces : Denied(p) \notin {"new", "draft"}
  BY DEF Denied, AllPieces, Codes

LEMMA BuilderInit ==
  ASSUME Init
  PROVE  BuilderInv
<1>1. BuilderTyped
  BY NoPiece DEF Init, BuilderTyped
<1>2. EveryArgumentUsed
  BY DEF Init, EveryArgumentUsed
<1> QED  BY <1>1, <1>2 DEF BuilderInv, Init, Refused

LEMMA BuilderStart ==
  ASSUME BuilderInv, Start
  PROVE  BuilderInv'
<1>1. request' = request /\ bound' = <<>> /\ args' = args /\ todo' = Draft /\ refusal' = "draft"
  BY DEF Start, BuilderInv, BuilderTyped
<1>2. Draft' = Draft /\ Draft \in Seq(AllPieces)
  BY <1>1, SamePieces, DraftOf DEF BuilderInv, BuilderTyped
<1>3. BuilderTyped'
  BY <1>1, <1>2 DEF BuilderInv, BuilderTyped
<1>4. InOrder(Draft)'
  BY <1>1, <1>2 DEF InOrder
<1>5. EveryArgumentUsed'
  BY DEF BuilderInv, Start, EveryArgumentUsed
<1> QED  BY <1>1, <1>3, <1>4, <1>5 DEF BuilderInv, Refused

\* When a list of pieces is used up, all of it was bound.
LEMMA AllBound ==
  ASSUME NEW pieces \in Seq(AllPieces), InOrder(pieces), bound \in Seq(BoundPieces), todo = <<>>
  PROVE  /\ DOMAIN bound = DOMAIN pieces
         /\ \A n \in DOMAIN bound : Matches(bound[n], pieces[n])
         /\ \A p \in Range(pieces) : Denied(p) = "none"
<1>1. DOMAIN bound = DOMAIN pieces /\ DOMAIN bound = 1..Len(bound)
  <2>1. Len(todo) = 0 /\ Len(bound) \in Nat /\ Len(pieces) \in Nat
    OBVIOUS
  <2>2. Len(bound) = Len(pieces)
    BY <2>1 DEF InOrder
  <2> QED  BY <2>2
<1>2. \A n \in DOMAIN bound : Matches(bound[n], pieces[n])
  BY <1>1 DEF InOrder
<1>3. ASSUME NEW p \in Range(pieces) PROVE Denied(p) = "none"
  <2>1. PICK n \in DOMAIN pieces : p = pieces[n]
    BY DEF Range
  <2> QED  BY <1>1, <1>2, <2>1 DEF Matches
<1> QED  BY <1>1, <1>2, <1>3

LEMMA BuilderStartOver ==
  ASSUME BuilderInv, StartOver
  PROVE  BuilderInv'
<1>1. /\ request' = request /\ bound' = <<>> /\ args' = <<>> /\ todo' = Pieces
      /\ refusal' = "none" /\ refusal = "draft" /\ todo = <<>>
  BY DEF StartOver
<1>2. /\ Pieces' = Pieces /\ Pieces \in Seq(AllPieces)
      /\ Draft' = Draft /\ Draft \in Seq(AllPieces) /\ \A p : Denied(p)' = Denied(p)
  BY <1>1, SamePieces, PiecesComposed, DraftOf DEF Composed, BuilderInv, BuilderTyped
<1>3. BuilderTyped'
  BY <1>1, <1>2 DEF BuilderInv, BuilderTyped
<1>4. InOrder(Pieces)'
  BY <1>1, <1>2 DEF InOrder
<1>5. EveryArgumentUsed'
  BY <1>1 DEF EveryArgumentUsed
<1>6. \A p \in Range(Draft) : Denied(p) = "none"
  BY <1>1, <1>2, AllBound DEF BuilderInv, BuilderTyped
<1>7. (\A p \in Range(Draft) : Denied(p) = "none")'
  <2>1. Range(Draft)' = Range(Draft)
    BY <1>2 DEF Range
  <2> QED  BY <1>2, <1>6, <2>1
<1> QED  BY <1>1, <1>3, <1>4, <1>5, <1>7 DEF BuilderInv, Refused

LEMMA BuilderRefuse ==
  ASSUME BuilderInv, Refuse
  PROVE  BuilderInv'
<1>1. /\ request' = request /\ bound' = bound /\ args' = args /\ todo' = todo
      /\ refusal \in {"draft", "none"} /\ refusal' = Denied(Head(todo)) /\ todo # <<>>
      /\ refusal' # "none"
  BY DEF Refuse
<1>2. /\ Pieces' = Pieces /\ Draft' = Draft /\ \A p : Denied(p)' = Denied(p)
      /\ Pieces \in Seq(AllPieces) /\ Draft \in Seq(AllPieces)
  BY <1>1, SamePieces, PiecesComposed, DraftOf DEF Composed, BuilderInv, BuilderTyped
<1>3. refusal' \notin {"new", "draft"}
  <2>1. Head(todo) \in AllPieces
    BY <1>1 DEF BuilderInv, BuilderTyped
  <2> QED  BY <1>1, <2>1, Codings
<1>4. BuilderTyped'
  BY <1>1, <1>3 DEF BuilderInv, BuilderTyped
<1>5. EveryArgumentUsed'
  BY <1>1 DEF BuilderInv, EveryArgumentUsed
<1>6. ASSUME NEW pieces \in Seq(AllPieces), InOrder(pieces)
      PROVE  Head(todo) \in Range(pieces)
  <2>1. /\ bound \in Seq(BoundPieces) /\ todo \in Seq(AllPieces) /\ Len(todo) >= 1
        /\ Head(todo) = todo[1]
    BY <1>1 DEF BuilderInv, BuilderTyped
  <2>2. Len(bound) + 1 \in 1..Len(pieces) /\ Head(todo) = pieces[Len(bound) + 1]
    BY <1>6, <2>1 DEF InOrder
  <2> QED  BY <2>2 DEF Range
<1>7. Head(todo) \in Range(Draft) \cup Range(Pieces)
  BY <1>1, <1>2, <1>6 DEF BuilderInv
<1>8. \E p \in Range(Draft)' \cup Range(Pieces)' : Denied(p)' # "none"
  <2>1. Range(Draft)' = Range(Draft) /\ Range(Pieces)' = Range(Pieces)
    BY <1>2 DEF Range
  <2> QED  BY <1>1, <1>2, <1>7, <2>1
<1> QED  BY <1>1, <1>3, <1>4, <1>5, <1>8 DEF BuilderInv

LEMMA BuilderStutter ==
  ASSUME BuilderInv, UNCHANGED vars
  PROVE  BuilderInv'
<1>1. /\ request' = request /\ bound' = bound /\ args' = args /\ todo' = todo
      /\ refusal' = refusal
  BY DEF vars
<1>2. Pieces' = Pieces /\ Draft' = Draft /\ \A p : Denied(p)' = Denied(p)
  BY <1>1, SamePieces
<1>3. BuilderTyped' /\ EveryArgumentUsed' /\ Refused' = Refused
  BY <1>1 DEF BuilderInv, BuilderTyped, EveryArgumentUsed, Refused
<1>4. InOrder(Draft)' = InOrder(Draft) /\ InOrder(Pieces)' = InOrder(Pieces)
  BY <1>1, <1>2 DEF InOrder, Matches, Values
<1>5. Range(Draft)' = Range(Draft) /\ Range(Pieces)' = Range(Pieces)
  BY <1>2 DEF Range
<1> QED  BY <1>1, <1>2, <1>3, <1>4, <1>5 DEF BuilderInv

LEMMA PlacesOf ==
  ASSUME NEW p, p.values \in Seq(Scalars), args \in Seq(Scalars)
  PROVE  /\ Placeholders(p) \in Seq(Nat) /\ DOMAIN Placeholders(p) = 1..Len(p.values)
         /\ \A m \in 1..Len(p.values) : Placeholders(p)[m] = Len(args) + m
<1> DEFINE places == [m \in 1..Len(p.values) |-> Len(args) + m]
<1>1. Len(p.values) \in Nat /\ DOMAIN p.values = 1..Len(p.values) /\ Len(args) \in Nat
  OBVIOUS
<1>2. Placeholders(p) = places
  BY <1>1 DEF Placeholders
<1>3. places \in [1..Len(p.values) -> Nat]
  BY <1>1
<1>4. places \in Seq(Nat)
  BY <1>1, <1>3
<1> QED  BY <1>2, <1>4

\* A new piece, at the end, has the last arguments; what was there stays where it was.
LEMMA AddKeepsOrder ==
  ASSUME BuilderTyped, EveryArgumentUsed, Add
  PROVE  /\ BuilderTyped' /\ EveryArgumentUsed'
         /\ \A pieces : InOrder(pieces) => InOrder(pieces)'
<1> DEFINE p == Head(todo)
           b == [part |-> p.part, col |-> p.col, op |-> p.op, at |-> Placeholders(p)]
           n == Len(bound)
           k == Len(args)
<1>1. /\ request' = request /\ refusal' = refusal /\ refusal # "new" /\ todo # <<>>
      /\ bound' = Append(bound, b) /\ args' = args \o p.values /\ todo' = Tail(todo)
      /\ Denied(p) = "none"
  BY DEF Add
<1>2. BuilderTyped /\ EveryArgumentUsed
  OBVIOUS
<1>3. \A q : Denied(q)' = Denied(q)
  BY <1>1, SamePieces
<1>4. /\ args \in Seq(Scalars) /\ bound \in Seq(BoundPieces) /\ todo \in Seq(AllPieces)
      /\ n \in Nat /\ k \in Nat
  BY <1>2 DEF BuilderTyped
<1>5. p \in AllPieces
  BY <1>1, <1>4
<1>6. p.values \in Seq(Scalars) /\ b.at = Placeholders(p)
  BY <1>5 DEF AllPieces
<1>7. /\ DOMAIN b.at = 1..Len(p.values) /\ b.at \in Seq(Nat)
      /\ \A m \in 1..Len(p.values) : b.at[m] = k + m
  BY <1>4, <1>6, PlacesOf
<1>8. b \in BoundPieces
  BY <1>5, <1>6, <1>7 DEF AllPieces, BoundPieces
<1> HIDE DEF b
<1>9. /\ bound' \in Seq(BoundPieces) /\ Len(bound') = n + 1 /\ bound'[n + 1] = b
      /\ \A i \in 1..n : bound'[i] = bound[i]
  BY <1>1, <1>4, <1>8
<1>10. /\ args' \in Seq(Scalars) /\ Len(args') = k + Len(p.values)
       /\ \A i \in 1..k : args'[i] = args[i]
       /\ \A m \in 1..Len(p.values) : args'[k + m] = p.values[m]
  BY <1>1, <1>4, <1>6
<1>11. /\ todo' \in Seq(AllPieces) /\ Len(todo') = Len(todo) - 1 /\ Len(todo) >= 1
       /\ \A i \in 1..Len(todo') : todo'[i] = todo[i + 1]
       /\ p = todo[1]
  BY <1>1, <1>4
<1>12. BuilderTyped'
  BY <1>1, <1>2, <1>9, <1>10, <1>11 DEF BuilderTyped
<1>13. \A i \in 1..n : \A j \in DOMAIN bound[i].at : bound[i].at[j] \in 1..k
  BY <1>2, <1>4 DEF EveryArgumentUsed
<1>14. ASSUME NEW pieces, InOrder(pieces) PROVE InOrder(pieces)'
  <2>1. Len(bound') + Len(todo') = Len(pieces)
    <3>1. n + Len(todo) = Len(pieces)
      BY <1>14 DEF InOrder
    <3>2. Len(bound') = n + 1 /\ Len(todo') = Len(todo) - 1 /\ Len(todo) \in Nat
      BY <1>4, <1>9, <1>11
    <3>3. Len(bound') + Len(todo') = n + Len(todo)
      BY ONLY <1>4, <3>2
    <3> QED  BY ONLY <3>1, <3>3
  <2>2. ASSUME NEW i \in 1..Len(todo') PROVE todo'[i] = pieces[Len(bound') + i]
    <3>1. \A j \in 1..Len(todo) : todo[j] = pieces[n + j]
      BY <1>14 DEF InOrder
    <3>2. i + 1 \in 1..Len(todo) /\ todo'[i] = todo[i + 1] /\ n + (i + 1) = Len(bound') + i
      BY <1>4, <1>9, <1>11
    <3> QED  BY <3>1, <3>2
  <2>3. ASSUME NEW i \in 1..n PROVE Matches(bound[i], pieces[i])'
    <3>1. Values(bound[i])' = Values(bound[i])
      BY <1>9, <1>10, <1>13 DEF Values
    <3>2. Matches(bound[i], pieces[i])
      BY <1>14 DEF InOrder
    <3>3. bound'[i] = bound[i]
      BY <1>9
    <3> QED  BY <1>3, <3>1, <3>2, <3>3 DEF Matches
  <2>4. ASSUME NEW i \in 1..Len(bound'), i = n + 1 PROVE Matches(bound[i], pieces[i])'
    <3>1. pieces[i] = p
      BY <1>4, <1>11, <1>14, <2>4 DEF InOrder
    <3>2. Values(bound[i])' = p.values
      <4> DEFINE values == [m \in 1..Len(p.values) |-> args'[k + m]]
      <4>1. Len(p.values) \in Nat /\ p.values \in [1..Len(p.values) -> Scalars]
        BY <1>6
      <4>2. values \in [1..Len(p.values) -> Scalars]
        BY <1>10, <4>1
      <4>3. \A m \in 1..Len(p.values) : values[m] = p.values[m]
        BY <1>10
      <4>4. values = p.values
        <5> HIDE DEF values, p
        <5> QED  BY <4>1, <4>2, <4>3
      <4>5. [m \in DOMAIN b.at |-> args'[b.at[m]]] = values
        BY <1>7
      <4>6. Values(bound[i])' = [m \in DOMAIN b.at |-> args'[b.at[m]]]
        BY <1>9, <2>4 DEF Values
      <4> QED  BY <4>4, <4>5, <4>6
    <3>3. /\ b.part = p.part /\ b.col = p.col /\ b.op = p.op
          /\ bound'[i] = b
      BY <1>9, <2>4 DEF b
    <3> HIDE DEF p
    <3> QED  BY <1>1, <1>3, <3>1, <3>2, <3>3 DEF Matches
  <2>5. ASSUME NEW i \in 1..Len(bound') PROVE Matches(bound[i], pieces[i])'
    <3>1. i \in 1..n \/ i = n + 1
      BY <1>4, <1>9
    <3> QED  BY <2>3, <2>4, <3>1
  <2> QED  BY <2>1, <2>2, <2>5 DEF InOrder
<1>15. EveryArgumentUsed'
  <2>1. DOMAIN bound' = 1..(n+1) /\ DOMAIN args' = 1..(k + Len(p.values))
    BY <1>9, <1>10
  <2>2. ASSUME NEW i \in DOMAIN bound', NEW j \in DOMAIN bound'[i].at
        PROVE  /\ i # n + 1 => bound'[i].at[j] \in 1..k
               /\ i = n + 1 => bound'[i].at[j] = k + j /\ j \in 1..Len(p.values)
    <3>1. CASE i = n + 1
      BY <1>4, <1>7, <1>9, <3>1
    <3>2. CASE i # n + 1
      <4>1. i \in 1..n
        BY <1>4, <2>1, <3>2
      <4>2. bound'[i] = bound[i]
        BY <1>9, <4>1
      <4> QED  BY <1>13, <3>2, <4>1, <4>2
    <3> QED  BY <3>1, <3>2
  <2>3. ASSUME NEW i \in DOMAIN bound', NEW j \in DOMAIN bound'[i].at
        PROVE  bound'[i].at[j] \in DOMAIN args'
    <3>1. Len(p.values) \in Nat
      BY <1>6
    <3> QED  BY <1>4, <2>1, <2>2, <3>1
  <2>4. ASSUME NEW a \in DOMAIN args'
        PROVE  \E i \in DOMAIN bound' : \E j \in DOMAIN bound'[i].at :
                 /\ bound'[i].at[j] = a
                 /\ \A i1 \in DOMAIN bound' : \A j1 \in DOMAIN bound'[i1].at :
                      bound'[i1].at[j1] = a => i1 = i /\ j1 = j
    <3>1. CASE a \in 1..k
      <4>1. PICK i \in DOMAIN bound : \E j \in DOMAIN bound[i].at :
              /\ bound[i].at[j] = a
              /\ \A i1 \in DOMAIN bound : \A j1 \in DOMAIN bound[i1].at :
                   bound[i1].at[j1] = a => i1 = i /\ j1 = j
        <5>1. a \in DOMAIN args
          BY <1>4, <3>1
        <5> QED  BY <1>2, <5>1 DEF EveryArgumentUsed
      <4>2. PICK j \in DOMAIN bound[i].at :
              /\ bound[i].at[j] = a
              /\ \A i1 \in DOMAIN bound : \A j1 \in DOMAIN bound[i1].at :
                   bound[i1].at[j1] = a => i1 = i /\ j1 = j
        BY <4>1
      <4>3. i \in 1..n /\ bound'[i] = bound[i] /\ i \in DOMAIN bound'
        BY <1>4, <1>9, <2>1
      <4>4. ASSUME NEW i1 \in DOMAIN bound', NEW j1 \in DOMAIN bound'[i1].at,
                   bound'[i1].at[j1] = a
            PROVE  i1 = i /\ j1 = j
        <5>1. i1 # n + 1
          BY <1>4, <2>2, <3>1, <4>4
        <5>2. i1 \in DOMAIN bound /\ bound'[i1] = bound[i1]
          BY <1>4, <1>9, <2>1, <5>1
        <5> QED  BY <4>2, <4>4, <5>2
      <4> QED  BY <4>2, <4>3, <4>4
    <3>2. CASE a \notin 1..k
      <4>1. a - k \in 1..Len(p.values) /\ n + 1 \in DOMAIN bound'
        BY <1>4, <1>6, <2>1, <3>2
      <4>2. a - k \in DOMAIN bound'[n+1].at /\ bound'[n+1].at[a - k] = a
        BY <1>4, <1>7, <1>9, <2>1, <4>1
      <4>3. ASSUME NEW i1 \in DOMAIN bound', NEW j1 \in DOMAIN bound'[i1].at,
                   bound'[i1].at[j1] = a
            PROVE  i1 = n + 1 /\ j1 = a - k
        <5>1. i1 = n + 1
          BY <2>2, <3>2, <4>3
        <5> QED  BY <1>4, <1>6, <2>2, <4>3, <5>1
      <4> QED  BY <4>1, <4>2, <4>3
    <3> QED  BY <3>1, <3>2
  <2> QED  BY <2>3, <2>4 DEF EveryArgumentUsed
<1> QED  BY <1>12, <1>14, <1>15

LEMMA BuilderAdd ==
  ASSUME BuilderInv, Add
  PROVE  BuilderInv'
<1>1. request' = request /\ refusal' = refusal /\ refusal \in {"draft", "none"}
  BY DEF Add
<1>2. Pieces' = Pieces /\ Draft' = Draft /\ \A p : Denied(p)' = Denied(p)
  BY <1>1, SamePieces
<1>3. BuilderTyped' /\ EveryArgumentUsed' /\ \A pieces : InOrder(pieces) => InOrder(pieces)'
  BY AddKeepsOrder DEF BuilderInv
<1>4. ASSUME refusal = "draft" PROVE InOrder(Draft)'
  <2>1. PICK pieces : pieces = Draft
    OBVIOUS
  <2>2. InOrder(pieces) /\ pieces = Draft'
    BY <1>2, <1>4, <2>1 DEF BuilderInv
  <2> QED  BY <1>3, <2>2
<1>5. ASSUME refusal = "none" PROVE InOrder(Pieces)'
  <2>1. PICK pieces : pieces = Pieces
    OBVIOUS
  <2>2. InOrder(pieces) /\ pieces = Pieces'
    BY <1>2, <1>5, <2>1 DEF BuilderInv
  <2> QED  BY <1>3, <2>2
<1>6. Range(Draft)' = Range(Draft)
  BY <1>2 DEF Range
<1> QED  BY <1>1, <1>2, <1>3, <1>4, <1>5, <1>6 DEF BuilderInv, Refused

LEMMA BuilderInvariant == Spec => []BuilderInv
<1>1. BuilderInv /\ [Next]_vars => BuilderInv'
  BY BuilderStart, BuilderStartOver, BuilderAdd, BuilderRefuse, BuilderStutter
     DEF Next, Finished
<1> QED  BY <1>1, BuilderInit, PTL DEF Spec

\* Every argument has one placeholder and every placeholder an argument: _next_arg takes
\* the number after the value is appended, and what build_upsert and build_related_select
\* give up takes its arguments with it.
THEOREM ArgumentsUsed == Spec => []EveryArgumentUsed
<1>1. BuilderInv => EveryArgumentUsed
  BY DEF BuilderInv
<1> QED  BY <1>1, BuilderInvariant, PTL

-----------------------------------------------------------------------------
(* What a finished statement is made of *)

LEMMA PartsBuilt ==
  ASSUME BuilderInv, Built
  PROVE  /\ \A n \in DOMAIN bound : \E p \in Range(Pieces) : Matches(bound[n], p)
         /\ \A p \in Range(Pieces) : /\ p \in AllPieces /\ Denied(p) = "none"
                                     /\ \E b \in Parts(p.part) : Matches(b, p)
         /\ \A part : \A b \in Parts(part) :
              \E p \in Range(Pieces) : p.part = part /\ Matches(b, p)
<1>1. /\ request \in Requests /\ bound \in Seq(BoundPieces) /\ InOrder(Pieces) /\ todo = <<>>
  BY DEF BuilderInv, BuilderTyped, Built
<1>2. Pieces \in Seq(AllPieces)
  BY <1>1, PiecesComposed DEF Composed
<1>3. DOMAIN bound = DOMAIN Pieces
  BY <1>1, <1>2, AllBound
<1>4. \A n \in DOMAIN bound : Matches(bound[n], Pieces[n])
  BY <1>1, <1>2, AllBound
<1>5. \A n \in DOMAIN bound : Pieces[n] \in Range(Pieces) /\ Pieces[n] \in AllPieces
  BY <1>2, <1>3 DEF Range
<1>6. \A n \in DOMAIN bound : bound[n].part = Pieces[n].part /\ Denied(Pieces[n]) = "none"
  BY <1>4 DEF Matches
<1>7. ASSUME NEW p \in Range(Pieces)
      PROVE  p \in AllPieces /\ Denied(p) = "none" /\ \E b \in Parts(p.part) : Matches(b, p)
  <2>1. PICK n \in DOMAIN bound : p = Pieces[n]
    BY <1>3 DEF Range
  <2>2. bound[n] \in Parts(p.part)
    BY <1>6, <2>1 DEF Parts
  <2> QED  BY <1>4, <1>5, <1>6, <2>1, <2>2
<1>8. ASSUME NEW part, NEW b \in Parts(part)
      PROVE  \E p \in Range(Pieces) : p.part = part /\ Matches(b, p)
  <2>1. PICK n \in DOMAIN bound : b = bound[n] /\ bound[n].part = part
    BY DEF Parts
  <2> QED  BY <1>4, <1>5, <1>6, <2>1
<1> QED  BY <1>4, <1>5, <1>7, <1>8

LEMMA AllowedPiece ==
  ASSUME NEW p \in AllPieces, Denied(p) = "none"
  PROVE  /\ p.part # "refuse"
         /\ p.part \notin Unquoted => p.col \in Allowed
         /\ p.part = "filter" => p.col \in Resource.filterable \cap Range(Resource.fields)
         /\ p.part = "order" => p.col \in Resource.sortable
         /\ p.part = "group" => p.col \in Resource.groupBy
         /\ p.part = "sum" => p.col \in Resource.sumFields
<1>1. p.part # "refuse"
  BY DEF Denied, AllPieces, Codes
<1> QED  BY <1>1 DEF Denied, Unquoted

\* What FilterPiece makes of each operator.
LEMMA FilterPieceCases ==
  ASSUME NEW col, NEW g
  PROVE  /\ g.op = "is_null" =>
              FilterPiece(col, g) =
                Piece("where", col, IF Truthy(Head(g.values)) THEN "IS NULL" ELSE "IS NOT NULL", <<>>)
         /\ g.op = "in" =>
              \/ FilterPiece(col, g) = Piece("refuse", col, "BAD_FILTER", <<>>)
              \/ FilterPiece(col, g) = Piece("where", col, "IN", Items(g))
         /\ g.op \notin FilterOps => FilterPiece(col, g) = Piece("refuse", col, "BAD_FILTER_OP", <<>>)
         /\ g.op \in FilterOps \ {"is_null", "in"} =>
              FilterPiece(col, g) = Piece("where", col, OpSql(g.op), g.values)
<1>1. {"is_null", "in"} \subseteq FilterOps
  BY DEF FilterOps
<1>2. CASE g.op = "is_null"
  BY <1>1, <1>2 DEF FilterPiece
<1>3. CASE g.op = "in"
  <2>1. CASE g.form = "scalar" \/ Items(g) = <<>>
    BY <1>1, <1>3, <2>1 DEF FilterPiece
  <2>2. CASE ~ (g.form = "scalar" \/ Items(g) = <<>>)
    BY <1>1, <1>3, <2>2 DEF FilterPiece
  <2> QED  BY <2>1, <2>2
<1>4. CASE g.op \notin FilterOps
  BY <1>1, <1>4 DEF FilterPiece
<1>5. CASE g.op \in FilterOps \ {"is_null", "in"}
  BY <1>5 DEF FilterPiece
<1> QED  BY <1>1, <1>2, <1>3, <1>4, <1>5

\* A filter is refused or tests its column.
LEMMA FilterPieceParts ==
  ASSUME NEW col, NEW g
  PROVE  /\ FilterPiece(col, g).part \in {"where", "refuse"}
         /\ FilterPiece(col, g).col = col
<1>1. \A op, values : /\ Piece("where", col, op, values).part = "where"
                      /\ Piece("where", col, op, values).col = col
                      /\ Piece("refuse", col, op, values).part = "refuse"
                      /\ Piece("refuse", col, op, values).col = col
  BY DEF Piece
<1>2. \E op, values : \/ FilterPiece(col, g) = Piece("where", col, op, values)
                      \/ FilterPiece(col, g) = Piece("refuse", col, op, values)
  BY FilterPieceCases
<1> QED  BY <1>1, <1>2

\* Which block a piece comes from can be told by its part.
LEMMA PartSources ==
  ASSUME request \in Requests
  PROVE  /\ \A p : p \in Range(Pieces) /\ p.part = "set" <=> p \in Written
         /\ \A p : p \in Range(Pieces) /\ p.part = "value" <=> p \in Range(Groups)
         /\ \A p \in Range(Pieces) : p.part \in {"limit", "offset"} => p \in Paged
         /\ \A p \in Range(Pieces) : p.part = "where" => p \in Conditions
         /\ Conditions \subseteq Range(Pieces)
         /\ (\E p \in Range(Pieces) : p.part = "never") <=> Keyless
<1>1. PICK rest : /\ \A p \in rest : p.part \in Others
                  /\ Range(Pieces) = Conditions \cup Written \cup Range(Groups) \cup Paged
                                     \cup Never \cup rest
  BY PiecesComposed DEF Composed
<1>2. \A p \in Conditions : p.part \in {"where", "filter", "refuse"}
  <2>1. \A col, op, values : Piece("where", col, op, values).part = "where"
    BY DEF Piece
  <2>2. /\ \A p \in Range(RowFilters) : p.part = "where"
        /\ \A p \in Range(SoftDelete) : p.part = "where"
        /\ \A p \in Range(ByPk) : p.part = "where"
        /\ \A p \in Range(ByIds) : p.part = "where"
        /\ \A p \in Range(ByForeign) : p.part = "where"
    <3>1. \A p \in Range(RowFilters) : p.part = "where"
      BY <2>1, RowFilterPieces
    <3>2. \A p \in Range(SoftDelete) : p.part = "where"
      <4>1. \A p \in Range(SoftDelete) : p = Piece("where", Resource.softDelete, "IS NULL", <<>>)
        BY SoftDeletePieces
      <4> QED  BY <2>1, <4>1
    <3>3. \A p \in Range(ByPk) : p.part = "where"
      BY <2>1, KeyPieces
    <3>4. \A p \in Range(ByIds) : p.part = "where"
      BY <2>1, KeyPieces
    <3>5. \A p \in Range(ByForeign) : p.part = "where"
      BY <2>1, ForeignPieces
    <3> QED  BY <3>1, <3>2, <3>3, <3>4, <3>5
  <2>3. ASSUME NEW p \in Range(Filters) PROVE p.part \in {"where", "filter", "refuse"}
    <3>1. PICK f \in Range(request.filters) : PieceOf(f, p)
      BY FilterPieces
    <3>2. Piece("filter", f.field, "", <<>>).part = "filter"
      BY DEF Piece
    <3>3. CASE p = Piece("filter", f.field, "", <<>>)
      BY <3>2, <3>3
    <3>4. CASE \E g \in Range(f.ops) : p = FilterPiece(f.field, g)
      BY <3>4, FilterPieceParts
    <3> QED  BY <3>1, <3>3, <3>4 DEF PieceOf
  <2> QED  BY <2>2, <2>3 DEF Conditions
<1>3. \A p \in Written : p.part = "set"
  BY AssignmentPieces, StampPieces DEF Written, For
<1>4. \A p \in Range(Groups) : p.part = "value"
  BY GroupPieces DEF For
<1>5. \A p \in Paged : p.part \in {"limit", "offset"}
  BY PagePieces DEF Paged, For
<1>6. /\ \A p \in Never : p.part = "never"
      /\ (\E p \in Never : TRUE) <=> Keyless
  <2>1. Piece("never", NoField, "FALSE", <<>>).part = "never"
    BY DEF Piece
  <2> QED  BY <2>1, NoRowPieces DEF Never
<1> QED  BY <1>1, <1>2, <1>3, <1>4, <1>5, <1>6 DEF Others

-----------------------------------------------------------------------------
(* What is refused *)

Judged(pieces) == \A p \in pieces : Denied(p) = "none"
WellFormed == Allowed \subseteq Identifiers

Listed(part, col) ==
  /\ part = "order" => col \in Resource.sortable
  /\ part = "group" => col \in Resource.groupBy
  /\ part = "sum" => col \in Resource.sumFields

LEMMA QuotedJudged ==
  ASSUME NEW part \in PartNames \ Unquoted, NEW col, NEW op, NEW values
  PROVE  /\ Denied(Piece(part, col, op, values)) = "none" => col \in Allowed /\ Listed(part, col)
         /\ WellFormed /\ col \in Allowed /\ Listed(part, col) =>
              Denied(Piece(part, col, op, values)) = "none"
<1> DEFINE p == Piece(part, col, op, values)
<1>1. p.part = part /\ p.col = col /\ p.part # "refuse" /\ p.part # "filter"
  BY DEF Piece, Unquoted
<1> HIDE DEF p
<1>2. Denied(p) = "none" => col \in Allowed /\ Listed(part, col)
  BY <1>1 DEF Denied, Listed
<1>3. WellFormed /\ col \in Allowed /\ Listed(part, col) => Denied(p) = "none"
  BY <1>1 DEF Denied, Listed, WellFormed
<1> QED  BY <1>2, <1>3 DEF p

LEMMA ColumnsJudged ==
  ASSUME NEW part \in PartNames \ Unquoted, NEW cols
  PROVE  /\ Judged(Range(Columns(part, "", cols))) =>
              \A c \in Range(cols) : c \in Allowed /\ Listed(part, c)
         /\ WellFormed /\ (\A c \in Range(cols) : c \in Allowed /\ Listed(part, c)) =>
              Judged(Range(Columns(part, "", cols)))
<1> DEFINE piece(c) == Piece(part, c, "", <<>>)
<1>1. \A p : p \in Range(Columns(part, "", cols)) <=> \E c \in Range(cols) : p = piece(c)
  BY DEF Range, Columns
<1>2. \A c : /\ Denied(piece(c)) = "none" => c \in Allowed /\ Listed(part, c)
             /\ WellFormed /\ c \in Allowed /\ Listed(part, c) => Denied(piece(c)) = "none"
  BY QuotedJudged
<1> HIDE DEF piece
<1> QED  BY <1>1, <1>2 DEF Judged

LEMMA UnlessJudged ==
  ASSUME NEW condition \in BOOLEAN, NEW code \in Codes
  PROVE  Judged(Range(Unless(condition, code))) <=> condition
<1>1. Piece("refuse", NoField, code, <<>>) \in AllPieces
  BY ShortSequences, PieceTyped DEF PartNames, ColumnNames
<1>2. Denied(Piece("refuse", NoField, code, <<>>)) # "none"
  BY DEF Denied, Piece, Codes
<1> QED  BY <1>1, <1>2, OnePiece, NoPiece DEF Judged, Unless, Refusing

LEMMA DeclaredAllowed ==
  ASSUME request \in Requests
  PROVE  /\ Range(Resource.fields) \subseteq Allowed /\ Range(Resource.rowFilters) \subseteq Allowed
         /\ Resource.pk \in Allowed /\ Resource.table \in Allowed
         /\ Resource.softDelete # NoField => Resource.softDelete \in Allowed
  BY DEF Allowed

\* What the resource brings along is never refused, if its names are well-formed.
LEMMA OwnJudged ==
  ASSUME request \in Requests, WellFormed
  PROVE  /\ Judged(Range(RowFilters)) /\ Judged(Range(SoftDelete))
         /\ Judged(Range(ByPk)) /\ Judged(Range(ByIds))
         /\ request.kind \in Stamped => Judged(Range(Stamp))
         /\ Judged(Range(Page)) /\ Judged(Range(NoRow))
         /\ Judged(Range(Returning)) /\ Judged(Range(ReturningPk)) /\ Judged(Range(Target))
<1>1. \A part \in {"where", "set", "table", "show"} : \A col \in Allowed : \A op, values :
        Denied(Piece(part, col, op, values)) = "none"
  BY QuotedJudged DEF PartNames, Unquoted, Listed
<1>2. Judged(Range(RowFilters)) /\ Judged(Range(SoftDelete))
  <2>1. ASSUME NEW p \in Range(RowFilters) PROVE Denied(p) = "none"
    <3>1. PICK c \in Range(Resource.rowFilters) : p = Piece("where", c, "=", <<Tenant>>)
      BY RowFilterPieces
    <3> QED  BY <1>1, <3>1, DeclaredAllowed
  <2>2. ASSUME NEW p \in Range(SoftDelete) PROVE Denied(p) = "none"
    <3>1. /\ Resource.softDelete # NoField
          /\ p = Piece("where", Resource.softDelete, "IS NULL", <<>>)
      BY SoftDeletePieces
    <3> QED  BY <1>1, <3>1, DeclaredAllowed
  <2> QED  BY <2>1, <2>2 DEF Judged
<1>3. Judged(Range(ByPk)) /\ Judged(Range(ByIds))
  <2>1. Resource.pk \in Allowed
    BY DeclaredAllowed
  <2>2. \A p \in Range(ByPk) \cup Range(ByIds) : \E op, values : p = Piece("where", Resource.pk, op, values)
    BY KeyPieces
  <2> QED  BY <1>1, <2>1, <2>2 DEF Judged
<1>4. request.kind \in Stamped => Judged(Range(Stamp))
  <2>1. request.kind \in Stamped => Resource.softDelete # NoField
    BY RequestTyped DEF IsRequest, Resource, Stamped
  <2>2. \A p \in Range(Stamp) : p = Piece("set", Resource.softDelete, "", <<Now>>)
    BY StampPieces
  <2>3. request.kind \in Stamped => Resource.softDelete \in Allowed
    BY <2>1, DeclaredAllowed
  <2> QED  BY <1>1, <2>2, <2>3 DEF Judged
<1>5. Judged(Range(Page)) /\ Judged(Range(NoRow))
  <2>1. \A part \in {"limit", "offset", "never"} : \A op, values :
          Denied(Piece(part, NoField, op, values)) = "none"
    BY DEF Denied, Piece, Unquoted
  <2> QED  BY <2>1, PagePieces, NoRowPieces DEF Judged
<1>6. Judged(Range(Returning)) /\ Judged(Range(ReturningPk)) /\ Judged(Range(Target))
  <2>1. Range(<<Resource.pk>>) = {Resource.pk}
    BY DEF Range
  <2>2. ASSUME NEW cols, Range(cols) \subseteq Allowed
        PROVE  Judged(Range(Columns("show", "", cols)))
    <3>1. "show" \in PartNames \ Unquoted /\ \A c : Listed("show", c)
      BY DEF PartNames, Unquoted, Listed
    <3> QED  BY <2>2, <3>1, ColumnsJudged
  <2>3. Range(Resource.fields) \subseteq Allowed /\ Resource.pk \in Allowed
        /\ Resource.table \in Allowed
    BY DeclaredAllowed
  <2>4. Judged(Range(Returning)) /\ Judged(Range(ReturningPk))
    BY <2>1, <2>2, <2>3 DEF Returning, ReturningPk
  <2>5. Range(Target) = {Piece("table", Resource.table, "", <<>>)}
    <3>1. PICK p : p = Piece("table", Resource.table, "", <<>>)
      OBVIOUS
    <3>2. DOMAIN <<p>> = {1} /\ <<p>>[1] = p
      OBVIOUS
    <3>3. Range(<<p>>) = {p}
      BY <3>2 DEF Range
    <3> QED  BY <3>1, <3>3 DEF Target
  <2>6. Denied(Piece("table", Resource.table, "", <<>>)) = "none"
    BY <1>1, <2>3
  <2> QED  BY <2>4, <2>5, <2>6 DEF Judged
<1> QED  BY <1>2, <1>3, <1>4, <1>5, <1>6

\* A filter is refused for its field, its operator, or a list of nothing.
LEMMA FilterJudged ==
  ASSUME NEW f, IsFilter(f), NEW g \in Range(f.ops)
  PROVE  /\ Denied(FilterPiece(f.field, g)) = "none" =>
              /\ g.op \in FilterOps
              /\ g.op = "in" => /\ g.form # "scalar"
                                /\ \E v \in Range(g.values) : g.form = "text" => v # Blank
         /\ /\ WellFormed
            /\ FilterAcceptable(f)
            => Denied(FilterPiece(f.field, g)) = "none"
<1> DEFINE some == \E v \in Range(g.values) : g.form = "text" => v # Blank
           piece == FilterPiece(f.field, g)
<1>1. g \in [op : STRING, form : {"scalar", "text", "list"}, values : Seq(Scalars)]
  <2>1. f.ops \in Seq([op : STRING, form : {"scalar", "text", "list"}, values : Seq(Scalars)])
    BY DEF IsFilter
  <2>2. PICK i \in DOMAIN f.ops : g = f.ops[i]
    BY DEF Range
  <2> QED  BY ONLY <2>1, <2>2, ElementsOf
<1>2. Items(g) # <<>> <=> some
  <2>1. /\ Items(g) \in Seq(Scalars)
        /\ Range(Items(g)) = IF g.form = "text" THEN Range(g.values) \ {Blank} ELSE Range(g.values)
    BY <1>1, ItemsKept
  <2>2. Items(g) # <<>> <=> Range(Items(g)) # {}
    <3>1. \A s \in Seq(Scalars) : s # <<>> => 1 \in DOMAIN s
      OBVIOUS
    <3> QED  BY <2>1, <3>1, NoPiece DEF Range
  <2> QED  BY <2>1, <2>2
<1>3. FilterAcceptable(f) => f.field \in Allowed
  BY DEF FilterAcceptable, Allowed
<1>4. \A op, values : WellFormed /\ f.field \in Allowed =>
        Denied(Piece("where", f.field, op, values)) = "none"
  BY QuotedJudged DEF PartNames, Unquoted, Listed
<1>5. \A code \in {"BAD_FILTER", "BAD_FILTER_OP"} : \A values :
        Denied(Piece("refuse", f.field, code, values)) # "none"
  BY DEF Denied, Piece
<1>6. FilterAcceptable(f) => g.op \in FilterOps /\ (g.op = "in" => g.form # "scalar" /\ some)
  BY DEF FilterAcceptable
<1>7. g.op = "in" =>
        IF g.form = "scalar" \/ ~ some
          THEN piece = Piece("refuse", f.field, "BAD_FILTER", <<>>)
          ELSE piece = Piece("where", f.field, "IN", Items(g))
  <2>1. ASSUME g.op = "in", g.form = "scalar" \/ Items(g) = <<>>
        PROVE  piece = Piece("refuse", f.field, "BAD_FILTER", <<>>)
    BY <2>1 DEF FilterPiece, FilterOps
  <2>2. ASSUME g.op = "in", g.form # "scalar", Items(g) # <<>>
        PROVE  piece = Piece("where", f.field, "IN", Items(g))
    BY <2>2 DEF FilterPiece, FilterOps
  <2> HIDE DEF some, piece
  <2> QED  BY <1>2, <2>1, <2>2
<1>8. /\ g.op \notin FilterOps => piece = Piece("refuse", f.field, "BAD_FILTER_OP", <<>>)
      /\ g.op \in FilterOps \ {"in"} => \E op, values : piece = Piece("where", f.field, op, values)
  BY FilterPieceCases
<1> HIDE DEF piece, some
<1>9. Denied(piece) = "none" => g.op \in FilterOps /\ (g.op = "in" => g.form # "scalar" /\ some)
  BY <1>5, <1>7, <1>8
<1>10. WellFormed /\ FilterAcceptable(f) => Denied(piece) = "none"
  BY <1>3, <1>4, <1>6, <1>7, <1>8
<1> QED  BY <1>9, <1>10 DEF piece, some

LEMMA FiltersJudged ==
  ASSUME request \in Requests
  PROVE  /\ Judged(Range(Filters)) => \A f \in Range(request.filters) : FilterAcceptable(f)
         /\ WellFormed /\ (\A f \in Range(request.filters) : FilterAcceptable(f)) =>
              Judged(Range(Filters))
<1>1. \A f \in Range(request.filters) : IsFilter(f)
  BY RequestTyped DEF IsRequest
<1>2. \A p : p \in Range(Filters) <=> \E f \in Range(request.filters) : PieceOf(f, p)
  BY FilterPieces
<1>3. \A col : Denied(Piece("filter", col, "", <<>>)) = "none" <=>
               col \in Resource.filterable \cap Range(Resource.fields)
  BY DEF Denied, Piece, Unquoted
<1>4. ASSUME Judged(Range(Filters)), NEW f \in Range(request.filters)
      PROVE  FilterAcceptable(f)
  <2>1. Denied(Piece("filter", f.field, "", <<>>)) = "none"
    BY <1>2, <1>4 DEF PieceOf, Judged
  <2>2. \A g \in Range(f.ops) : Denied(FilterPiece(f.field, g)) = "none"
    BY <1>2, <1>4 DEF PieceOf, Judged
  <2> QED  BY <1>1, <1>3, <2>1, <2>2, FilterJudged DEF FilterAcceptable
<1>5. ASSUME WellFormed, NEW f \in Range(request.filters), FilterAcceptable(f), NEW p, PieceOf(f, p)
      PROVE  Denied(p) = "none"
  <2>1. Denied(Piece("filter", f.field, "", <<>>)) = "none"
    BY <1>3, <1>5 DEF FilterAcceptable
  <2>2. \A g \in Range(f.ops) : Denied(FilterPiece(f.field, g)) = "none"
    BY <1>1, <1>5, FilterJudged
  <2> QED  BY <1>5, <2>1, <2>2 DEF PieceOf
<1> QED  BY <1>2, <1>4, <1>5 DEF Judged

\* What the request names, in each place.
LEMMA NamesJudged ==
  ASSUME request \in Requests
  PROVE  /\ Judged(Range(ShownPieces)) => Range(Shown) \subseteq Allowed
         /\ WellFormed /\ Range(Shown) \subseteq Allowed => Judged(Range(ShownPieces))
         /\ Judged(Range(IntoPieces)) => Range(request.columns) \subseteq Allowed
         /\ WellFormed /\ Range(request.columns) \subseteq Allowed =>
              Judged(Range(IntoPieces)) /\ Judged(Range(Groups))
         /\ Judged(Range(ConflictPieces)) => Range(Resource.upsertKeys) \subseteq Allowed
         /\ WellFormed /\ Range(Resource.upsertKeys) \subseteq Allowed =>
              Judged(Range(ConflictPieces))
         /\ Judged(Range(GroupByPieces)) =>
              Range(request.groups) \subseteq Resource.groupBy \cap Allowed
         /\ WellFormed /\ Range(request.groups) \subseteq Resource.groupBy \cap Allowed =>
              Judged(Range(GroupByPieces))
<1>1. \A part \in {"show", "into", "conflict"} : \A cols :
        /\ Judged(Range(Columns(part, "", cols))) => Range(cols) \subseteq Allowed
        /\ WellFormed /\ Range(cols) \subseteq Allowed => Judged(Range(Columns(part, "", cols)))
  BY ColumnsJudged DEF PartNames, Unquoted, Listed
<1>2. \A cols :
        /\ Judged(Range(Columns("group", "", cols))) =>
             Range(cols) \subseteq Resource.groupBy \cap Allowed
        /\ WellFormed /\ Range(cols) \subseteq Resource.groupBy \cap Allowed =>
             Judged(Range(Columns("group", "", cols)))
  BY ColumnsJudged DEF PartNames, Unquoted, Listed
<1>3. ASSUME WellFormed, Range(request.columns) \subseteq Allowed
      PROVE  Judged(Range(Groups))
  <2>1. \A n : \A c \in Allowed : Denied(CellPiece(n, c)) = "none"
    BY <1>3, QuotedJudged DEF CellPiece, PartNames, Unquoted, Listed
  <2> QED  BY <1>3, <2>1, GroupPieces DEF Judged
<1> QED  BY <1>1, <1>2, <1>3 DEF ShownPieces, IntoPieces, ConflictPieces, GroupByPieces

LEMMA WritesJudged ==
  ASSUME request \in Requests
  PROVE  /\ Judged(Range(Assignments)) => \A v \in Range(request.values) : v.col \in Allowed
         /\ WellFormed /\ (\A v \in Range(request.values) : v.col \in Allowed) =>
              Judged(Range(Assignments))
<1> DEFINE piece(v) == Piece("set", v.col, "", <<v.value>>)
<1>1. \A p : p \in Range(Assignments) <=> \E v \in Range(request.values) : p = piece(v)
  BY AssignmentPieces
<1>2. \A v : /\ Denied(piece(v)) = "none" => v.col \in Allowed
             /\ WellFormed /\ v.col \in Allowed => Denied(piece(v)) = "none"
  BY QuotedJudged DEF PartNames, Unquoted, Listed
<1> HIDE DEF piece
<1> QED  BY <1>1, <1>2 DEF Judged

LEMMA ForeignJudged ==
  ASSUME request \in Requests, request.local # <<>>
  PROVE  /\ Judged(Range(ByForeign)) => request.foreign \in Allowed
         /\ WellFormed /\ request.foreign \in Allowed => Judged(Range(ByForeign))
<1>1. \A values : LET p == Piece("where", request.foreign, "IN", values) IN
        /\ Denied(p) = "none" => request.foreign \in Allowed
        /\ WellFormed /\ request.foreign \in Allowed => Denied(p) = "none"
  BY QuotedJudged DEF PartNames, Unquoted, Listed
<1> QED  BY <1>1, ForeignPieces DEF Judged

SortAcceptable ==
  \A q \in Range(request.sort) :
    q.sign # "" \/ q.name # NoField => q.name \in Resource.sortable \cap Allowed

LEMMA SortJudged ==
  ASSUME request \in Requests
  PROVE  /\ Judged(Range(Sort)) => SortAcceptable
         /\ WellFormed /\ SortAcceptable => Judged(Range(Sort))
<1>1. \A q : /\ Denied(OrderPiece(q)) = "none" => q.name \in Resource.sortable \cap Allowed
             /\ WellFormed /\ q.name \in Resource.sortable \cap Allowed =>
                  Denied(OrderPiece(q)) = "none"
  BY QuotedJudged DEF OrderPiece, PartNames, Unquoted, Listed
<1> QED  BY <1>1, SortPieces DEF Judged, SortAcceptable

SumAcceptable ==
  /\ request.function \in {"count", "sum"}
  /\ request.function = "sum" => request.field \in Resource.sumFields \cap Allowed

LEMMA SumJudged ==
  ASSUME request \in Requests
  PROVE  /\ Judged(Range(Summed)) => SumAcceptable
         /\ WellFormed /\ SumAcceptable => Judged(Range(Summed))
<1>1. \A code \in {"AGG_DENIED", "SUM_DENIED"} : ~ Judged(Range(Refusing(code)))
  <2>1. {"AGG_DENIED", "SUM_DENIED"} \subseteq Codes
    BY DEF Codes
  <2>2. \A code : Unless(FALSE, code) = Refusing(code)
    BY DEF Unless
  <2> QED  BY <2>1, <2>2, UnlessJudged
<1>2. Range(<<request.field>>) = {request.field}
  BY DEF Range
<1>3. /\ Judged(Range(Columns("sum", "", <<request.field>>))) =>
           request.field \in Resource.sumFields \cap Allowed
      /\ WellFormed /\ request.field \in Resource.sumFields \cap Allowed =>
           Judged(Range(Columns("sum", "", <<request.field>>)))
  <2>1. "sum" \in PartNames \ Unquoted /\ \A c : Listed("sum", c) <=> c \in Resource.sumFields
    BY DEF PartNames, Unquoted, Listed
  <2>2. /\ Judged(Range(Columns("sum", "", <<request.field>>))) =>
             \A c \in Range(<<request.field>>) : c \in Allowed /\ Listed("sum", c)
        /\ WellFormed /\ (\A c \in Range(<<request.field>>) : c \in Allowed /\ Listed("sum", c)) =>
             Judged(Range(Columns("sum", "", <<request.field>>)))
    BY ONLY <2>1, ColumnsJudged
  <2> QED  BY <1>2, <2>1, <2>2
<1>4. Judged(Range(<<>>))
  BY NoPiece DEF Judged
<1>5. WellFormed => NoField \notin Allowed
  BY QueryBuilderAssumption DEF WellFormed
<1> QED  BY <1>1, <1>3, <1>4, <1>5 DEF Summed, SumAcceptable

\* The conditions that have a refusal of their own.
LEMMA ConditionsJudged ==
  /\ Judged(Range(SomeRow)) <=> request.rows # <<>>
  /\ Judged(Range(SomeValue)) <=> request.values # <<>>
  /\ Judged(Range(SomeKey)) <=> Resource.upsertKeys # <<>>
  /\ Judged(Range(SomeTarget)) <=> request.ids # <<>> \/ request.filters # <<>>
  /\ Judged(Range(SomeFunction)) <=> request.function \in Resource.functions
<1>1. {"EMPTY_PAYLOAD", "NO_UPSERT_KEYS", "EMPTY_BULK_DELETE", "AGG_DENIED"} \subseteq Codes
  BY DEF Codes
<1>2. ASSUME NEW code \in Codes, NEW x, NEW y
      PROVE  Judged(Range(Unless(x # y, code))) <=> x # y
  <2>1. (x # y) \in BOOLEAN
    OBVIOUS
  <2> QED  BY <2>1, UnlessJudged
<1>3. Judged(Range(SomeTarget)) <=> request.ids # <<>> \/ request.filters # <<>>
  <2>1. (request.ids # <<>> \/ request.filters # <<>>) \in BOOLEAN
    OBVIOUS
  <2> QED  BY <1>1, <2>1, UnlessJudged DEF SomeTarget
<1>4. Judged(Range(SomeFunction)) <=> request.function \in Resource.functions
  <2>1. (request.function \in Resource.functions) \in BOOLEAN
    OBVIOUS
  <2> QED  BY <1>1, <2>1, UnlessJudged DEF SomeFunction
<1>5. /\ Judged(Range(SomeRow)) <=> request.rows # <<>>
      /\ Judged(Range(SomeValue)) <=> request.values # <<>>
      /\ Judged(Range(SomeKey)) <=> Resource.upsertKeys # <<>>
  BY <1>1, <1>2 DEF SomeRow, SomeValue, SomeKey
<1> QED  BY <1>3, <1>4, <1>5

\* A request is acceptable when nothing that is made of it is refused.
LEMMA Accepted ==
  ASSUME request \in Requests, Judged(Range(Draft)), Judged(Range(Pieces))
  PROVE  Acceptable
<1>1. Judged(Range(Clauses))
  BY PiecesComposed DEF Judged
<1>2. \A f \in Range(request.filters) : FilterAcceptable(f)
  <2>1. CASE request.kind \in Bulk \cup Queried
    <3>1. Range(Filters) \subseteq Range(Clauses)
      BY <2>1, ClausesOf DEF Bulk, Queried
    <3> QED  BY <1>1, <3>1, FiltersJudged DEF Judged
  <2>2. CASE request.kind \notin Bulk \cup Queried
    <3>1. request.filters = <<>>
      BY <2>2, RequestTyped DEF IsRequest
    <3> QED  BY <3>1, NoPiece
  <2> QED  BY <2>1, <2>2
<1>3. request.kind \in Bulk => request.ids # <<>> \/ request.filters # <<>>
  <2>1. request.kind \in Bulk => Range(SomeTarget) \subseteq Range(Clauses)
    BY ClausesOf DEF Bulk
  <2> QED  BY <1>1, <2>1, ConditionsJudged DEF Judged
<1>4. ASSUME request.kind \in Inserts
      PROVE  /\ request.rows # <<>> /\ Range(request.columns) \subseteq Allowed
             /\ request.kind = "upsert" =>
                  Resource.upsertKeys # <<>> /\ Range(Resource.upsertKeys) \subseteq Allowed
  <2>1. CASE request.kind = "insert"
    <3>1. Range(SomeRow) \subseteq Range(Clauses) /\ Range(IntoPieces) \subseteq Range(Clauses)
      BY <2>1, ClausesOf
    <3> QED  BY <1>1, <2>1, <3>1, ConditionsJudged, NamesJudged DEF Judged
  <2>2. CASE request.kind = "upsert"
    <3>1. Range(IntoPieces) \subseteq Range(Clauses) /\ Range(ConflictPieces) \subseteq Range(Clauses)
      BY <2>2, ClausesOf
    <3>2. Range(SomeKey) \subseteq Range(Draft) /\ Range(SomeRow) \subseteq Range(Draft)
      BY <2>2, DraftOf
    <3> QED  BY <1>1, <3>1, <3>2, ConditionsJudged, NamesJudged DEF Judged
  <2> QED  BY <1>4, <2>1, <2>2 DEF Inserts
<1>5. request.kind = "update" =>
        request.values # <<>> /\ \A v \in Range(request.values) : v.col \in Allowed
  <2>1. request.kind = "update" =>
          Range(SomeValue) \subseteq Range(Clauses) /\ Range(Assignments) \subseteq Range(Clauses)
    BY ClausesOf
  <2> QED  BY <1>1, <2>1, ConditionsJudged, WritesJudged DEF Judged
<1>6. request.kind \in {"list", "get"} => Range(Shown) \subseteq Allowed
  <2>1. request.kind \in {"list", "get"} => Range(ShownPieces) \subseteq Range(Clauses)
    BY ClausesOf
  <2> QED  BY <1>1, <2>1, NamesJudged DEF Judged
<1>7. request.kind = "list" => SortAcceptable
  <2>1. request.kind = "list" => Range(Sort) \subseteq Range(Clauses)
    BY ClausesOf
  <2> QED  BY <1>1, <2>1, SortJudged DEF Judged
<1>8. request.kind = "aggregate" =>
        /\ request.function \in Resource.functions /\ SumAcceptable
        /\ Range(request.groups) \subseteq Resource.groupBy \cap Allowed
  <2>1. request.kind = "aggregate" =>
          /\ Range(SomeFunction) \subseteq Range(Clauses)
          /\ Range(GroupByPieces) \subseteq Range(Clauses) /\ Range(Summed) \subseteq Range(Clauses)
    BY ClausesOf
  <2> QED  BY <1>1, <2>1, ConditionsJudged, NamesJudged, SumJudged DEF Judged
<1>9. request.kind = "related" /\ request.local # <<>> => request.foreign \in Allowed
  <2>1. request.kind = "related" /\ request.local # <<>> =>
          Range(ByForeign) \subseteq Range(Clauses)
    BY ClausesOf
  <2> QED  BY <1>1, <2>1, ForeignJudged DEF Judged
<1> QED  BY <1>2, <1>3, <1>4, <1>5, <1>6, <1>7, <1>8, <1>9
         DEF Acceptable, SortAcceptable, SumAcceptable

\* And nothing that is made of an acceptable request is refused.
LEMMA NotRefused ==
  ASSUME request \in Requests, WellFormed, Acceptable
  PROVE  Judged(Range(Draft)) /\ Judged(Range(Pieces))
<1>1. Judged(Range(Filters))
  BY FiltersJudged DEF Acceptable
<1>2. /\ Judged(Range(RowFilters)) /\ Judged(Range(SoftDelete))
      /\ Judged(Range(ByPk)) /\ Judged(Range(ByIds))
      /\ request.kind \in Stamped => Judged(Range(Stamp))
      /\ Judged(Range(Page)) /\ Judged(Range(NoRow))
      /\ Judged(Range(Returning)) /\ Judged(Range(ReturningPk)) /\ Judged(Range(Target))
  BY OwnJudged
<1>3. request.kind \in Inserts =>
        Judged(Range(SomeRow)) /\ Judged(Range(IntoPieces)) /\ Judged(Range(Groups))
  BY ConditionsJudged, NamesJudged DEF Acceptable
<1>4. request.kind = "upsert" => Judged(Range(SomeKey)) /\ Judged(Range(ConflictPieces))
  BY ConditionsJudged, NamesJudged DEF Acceptable, Inserts
<1>5. request.kind = "update" => Judged(Range(SomeValue)) /\ Judged(Range(Assignments))
  BY ConditionsJudged, WritesJudged DEF Acceptable
<1>6. request.kind \in {"list", "get"} => Judged(Range(ShownPieces))
  BY NamesJudged DEF Acceptable
<1>7. request.kind = "list" => Judged(Range(Sort))
  BY SortJudged DEF Acceptable, SortAcceptable
<1>8. request.kind \in Bulk => Judged(Range(SomeTarget))
  BY ConditionsJudged DEF Acceptable
<1>9. request.kind = "aggregate" =>
        Judged(Range(SomeFunction)) /\ Judged(Range(GroupByPieces)) /\ Judged(Range(Summed))
  BY ConditionsJudged, NamesJudged, SumJudged DEF Acceptable, SumAcceptable
<1>10. request.kind = "related" /\ request.local # <<>> => Judged(Range(ByForeign))
  BY ForeignJudged DEF Acceptable
<1>11. request.kind \in ByKey \cup Bulk \cup Inserts \cup Queried \cup {"related"}
  BY RequestTyped DEF IsRequest
<1>12. Judged(Range(Clauses))
  <2>1. ASSUME request.kind = "count" PROVE Judged(Range(Clauses))
    <3>1. Range(Clauses) = Range(RowFilters) \cup Range(SoftDelete) \cup Range(Filters)
      BY <2>1, ClausesOf
    <3>2. Judged(Range(RowFilters)) /\ Judged(Range(SoftDelete)) /\ Judged(Range(Filters))
      BY <2>1, <1>1, <1>2
    <3> QED  BY ONLY <3>1, <3>2 DEF Judged
  <2>2. ASSUME request.kind = "list" PROVE Judged(Range(Clauses))
    <3>1. Range(Clauses) = Range(RowFilters) \cup Range(SoftDelete) \cup Range(Filters)
                           \cup Range(ShownPieces) \cup Range(Sort) \cup Range(Page)
      BY <2>2, ClausesOf
    <3>2. Judged(Range(RowFilters)) /\ Judged(Range(SoftDelete)) /\ Judged(Range(Filters))
          /\ Judged(Range(ShownPieces)) /\ Judged(Range(Sort)) /\ Judged(Range(Page))
      BY <2>2, <1>1, <1>2, <1>6, <1>7
    <3> QED  BY ONLY <3>1, <3>2 DEF Judged
  <2>3. ASSUME request.kind = "get" PROVE Judged(Range(Clauses))
    <3>1. Range(Clauses) = Range(RowFilters) \cup Range(SoftDelete) \cup Range(ByPk)
                           \cup Range(ShownPieces)
      BY <2>3, ClausesOf
    <3>2. Judged(Range(RowFilters)) /\ Judged(Range(SoftDelete)) /\ Judged(Range(ByPk))
          /\ Judged(Range(ShownPieces))
      BY <2>3, <1>2, <1>6
    <3> QED  BY ONLY <3>1, <3>2 DEF Judged
  <2>4. ASSUME request.kind = "insert" PROVE Judged(Range(Clauses))
    <3>1. Range(Clauses) = Range(SomeRow) \cup Range(IntoPieces) \cup Range(Groups)
                           \cup Range(Returning)
      BY <2>4, ClausesOf
    <3>2. Judged(Range(SomeRow)) /\ Judged(Range(IntoPieces)) /\ Judged(Range(Groups))
          /\ Judged(Range(Returning))
      BY <2>4, <1>2, <1>3 DEF Inserts
    <3> QED  BY ONLY <3>1, <3>2 DEF Judged
  <2>5. ASSUME request.kind = "upsert" PROVE Judged(Range(Clauses))
    <3>1. Range(Clauses) = Range(IntoPieces) \cup Range(Groups) \cup Range(ConflictPieces)
                           \cup Range(Returning)
      BY <2>5, ClausesOf
    <3>2. Judged(Range(IntoPieces)) /\ Judged(Range(Groups))
          /\ Judged(Range(ConflictPieces)) /\ Judged(Range(Returning))
      BY <2>5, <1>2, <1>3, <1>4 DEF Inserts
    <3> QED  BY ONLY <3>1, <3>2 DEF Judged
  <2>6. ASSUME request.kind = "update" PROVE Judged(Range(Clauses))
    <3>1. Range(Clauses) = Range(SomeValue) \cup Range(Assignments) \cup Range(RowFilters)
                           \cup Range(SoftDelete) \cup Range(ByPk) \cup Range(Returning)
      BY <2>6, ClausesOf
    <3>2. Judged(Range(SomeValue)) /\ Judged(Range(Assignments))
          /\ Judged(Range(RowFilters)) /\ Judged(Range(SoftDelete)) /\ Judged(Range(ByPk))
          /\ Judged(Range(Returning))
      BY <2>6, <1>2, <1>5
    <3> QED  BY ONLY <3>1, <3>2 DEF Judged
  <2>7. ASSUME request.kind = "soft_delete" PROVE Judged(Range(Clauses))
    <3>1. Range(Clauses) = Range(Stamp) \cup Range(RowFilters) \cup Range(SoftDelete)
                           \cup Range(ByPk) \cup Range(Returning)
      BY <2>7, ClausesOf
    <3>2. Judged(Range(Stamp)) /\ Judged(Range(RowFilters)) /\ Judged(Range(SoftDelete))
          /\ Judged(Range(ByPk)) /\ Judged(Range(Returning))
      BY <2>7, <1>2 DEF Stamped
    <3> QED  BY ONLY <3>1, <3>2 DEF Judged
  <2>8. ASSUME request.kind = "hard_delete" PROVE Judged(Range(Clauses))
    <3>1. Range(Clauses) = Range(RowFilters) \cup Range(ByPk) \cup Range(ReturningPk)
      BY <2>8, ClausesOf
    <3>2. Judged(Range(RowFilters)) /\ Judged(Range(ByPk)) /\ Judged(Range(ReturningPk))
      BY <2>8, <1>2
    <3> QED  BY ONLY <3>1, <3>2 DEF Judged
  <2>9. ASSUME request.kind = "bulk_soft_delete" PROVE Judged(Range(Clauses))
    <3>1. Range(Clauses) = Range(RowFilters) \cup Range(SoftDelete) \cup Range(ByIds)
                           \cup Range(Filters) \cup Range(SomeTarget) \cup Range(Returning)
                           \cup Range(Stamp)
      BY <2>9, ClausesOf
    <3>2. Judged(Range(RowFilters)) /\ Judged(Range(SoftDelete)) /\ Judged(Range(ByIds))
          /\ Judged(Range(Filters)) /\ Judged(Range(SomeTarget)) /\ Judged(Range(Returning))
          /\ Judged(Range(Stamp))
      BY <2>9, <1>1, <1>2, <1>8 DEF Stamped, Bulk
    <3> QED  BY ONLY <3>1, <3>2 DEF Judged
  <2>10. ASSUME request.kind = "bulk_hard_delete" PROVE Judged(Range(Clauses))
    <3>1. Range(Clauses) = Range(RowFilters) \cup Range(ByIds) \cup Range(Filters)
                           \cup Range(SomeTarget) \cup Range(ReturningPk)
      BY <2>10, ClausesOf
    <3>2. Judged(Range(RowFilters)) /\ Judged(Range(ByIds)) /\ Judged(Range(Filters))
          /\ Judged(Range(SomeTarget)) /\ Judged(Range(ReturningPk))
      BY <2>10, <1>1, <1>2, <1>8 DEF Bulk
    <3> QED  BY ONLY <3>1, <3>2 DEF Judged
  <2>11. ASSUME request.kind = "aggregate" PROVE Judged(Range(Clauses))
    <3>1. Range(Clauses) = Range(SomeFunction) \cup Range(RowFilters) \cup Range(SoftDelete)
                           \cup Range(Filters) \cup Range(GroupByPieces) \cup Range(Summed)
      BY <2>11, ClausesOf
    <3>2. Judged(Range(SomeFunction)) /\ Judged(Range(RowFilters))
          /\ Judged(Range(SoftDelete)) /\ Judged(Range(Filters))
          /\ Judged(Range(GroupByPieces)) /\ Judged(Range(Summed))
      BY <2>11, <1>1, <1>2, <1>9
    <3> QED  BY ONLY <3>1, <3>2 DEF Judged
  <2>12. ASSUME request.kind = "related", request.local # <<>> PROVE Judged(Range(Clauses))
    <3>1. Range(Clauses) = Range(RowFilters) \cup Range(SoftDelete) \cup Range(ByForeign)
                           \cup Range(Returning)
      BY <2>12, ClausesOf
    <3>2. Judged(Range(RowFilters)) /\ Judged(Range(SoftDelete)) /\ Judged(Range(ByForeign))
          /\ Judged(Range(Returning))
      BY <2>12, <1>2, <1>10
    <3> QED  BY ONLY <3>1, <3>2 DEF Judged
  <2>13. ASSUME request.kind = "related", request.local = <<>> PROVE Judged(Range(Clauses))
    <3>1. Range(Clauses) = Range(Returning) \cup Range(NoRow)
      BY <2>13, ClausesOf
    <3>2. Judged(Range(Returning)) /\ Judged(Range(NoRow))
      BY <2>13, <1>2
    <3> QED  BY ONLY <3>1, <3>2 DEF Judged
  <2> QED  BY <1>11, <2>1, <2>2, <2>3, <2>4, <2>5, <2>6, <2>7,
              <2>8, <2>9, <2>10, <2>11, <2>12, <2>13
           DEF Inserts, Queried, ByKey, Bulk
<1>13. Judged(Range(Pieces))
  <2>1. Range(Pieces) = Range(Target) \cup Range(Clauses)
    BY PiecesComposed
  <2> QED  BY <1>2, <1>12, <2>1 DEF Judged
<1>14. Judged(Range(Draft))
  <2>1. ASSUME request.kind = "upsert" PROVE Judged(Range(Draft))
    <3>1. Range(Draft) = Range(Target) \cup Range(SomeKey) \cup Range(SomeRow)
                         \cup Range(IntoPieces) \cup Range(Groups) \cup Range(Returning)
      BY <2>1, DraftOf
    <3>2. Judged(Range(Target)) /\ Judged(Range(SomeKey)) /\ Judged(Range(SomeRow))
          /\ Judged(Range(IntoPieces)) /\ Judged(Range(Groups)) /\ Judged(Range(Returning))
      BY <2>1, <1>2, <1>3, <1>4 DEF Inserts
    <3> QED  BY ONLY <3>1, <3>2 DEF Judged
  <2>2. ASSUME Keyless PROVE Judged(Range(Draft))
    <3>1. Range(Draft) = Range(Target) \cup Range(RowFilters) \cup Range(SoftDelete)
      BY <2>2, DraftOf
    <3>2. Judged(Range(Target)) /\ Judged(Range(RowFilters)) /\ Judged(Range(SoftDelete))
      BY <2>2, <1>2
    <3> QED  BY ONLY <3>1, <3>2 DEF Judged
  <2>3. ASSUME request.kind # "upsert", ~ Keyless PROVE Judged(Range(Draft))
    <3>1. Range(Draft) = {}
      BY <2>3, DraftOf
    <3> QED  BY <3>1 DEF Judged
  <2> QED  BY <2>1, <2>2, <2>3
<1> QED  BY <1>13, <1>14

\* A statement is built only of an acceptable request, and of every one, if the resource's
\* own names are identifiers: the lists of the configuration, the whitelist and quote_ident
\* together refuse what they should and nothing else.
THEOREM RefusesForCause == Spec => []RefusedForCause
<1>1. ASSUME BuilderInv, Built PROVE Acceptable
  <2>1. request \in Requests /\ Judged(Range(Draft))
    BY <1>1 DEF BuilderInv, BuilderTyped, Built, Judged
  <2>2. Judged(Range(Pieces))
    BY <1>1, PartsBuilt DEF Judged
  <2> QED  BY <2>1, <2>2, Accepted
<1>2. ASSUME BuilderInv, Refused, Allowed \subseteq Identifiers PROVE ~ Acceptable
  <2>1. request \in Requests /\ ~ (Judged(Range(Draft)) /\ Judged(Range(Pieces)))
    BY <1>2 DEF BuilderInv, BuilderTyped, Judged
  <2> QED  BY <1>2, <2>1, NotRefused DEF WellFormed
<1>3. BuilderInv => RefusedForCause
  BY <1>1, <1>2 DEF RefusedForCause
<1> QED  BY <1>3, BuilderInvariant, PTL

-----------------------------------------------------------------------------
(* The values that are written, and the page *)

LEMMA SetPlaced ==
  ASSUME BuilderInv, Built
  PROVE  {<<b.col, Values(b)>> : b \in Parts("set")} =
           {<<v.col, <<v.value>>>> : v \in Range(request.values)}
             \cup (IF request.kind \in {"soft_delete", "bulk_soft_delete"}
                     THEN {<<Resource.softDelete, <<Now>>>>} ELSE {})
<1> DEFINE placed == {<<b.col, Values(b)>> : b \in Parts("set")}
           asked == {<<v.col, <<v.value>>>> : v \in Range(request.values)}
           stamp == IF request.kind \in {"soft_delete", "bulk_soft_delete"}
                      THEN {<<Resource.softDelete, <<Now>>>>} ELSE {}
<1>1. request \in Requests
  BY DEF BuilderInv, BuilderTyped
<1>2. \A x : x \in placed <=> \E p \in Written : x = <<p.col, p.values>>
  <2>1. ASSUME NEW b \in Parts("set")
        PROVE  \E p \in Written : <<b.col, Values(b)>> = <<p.col, p.values>>
    <3>1. PICK p \in Range(Pieces) : p.part = "set" /\ Matches(b, p)
      BY PartsBuilt
    <3> QED  BY <1>1, <3>1, PartSources DEF Matches
  <2>2. ASSUME NEW p \in Written
        PROVE  \E b \in Parts("set") : <<b.col, Values(b)>> = <<p.col, p.values>>
    <3>1. p \in Range(Pieces) /\ p.part = "set"
      BY <1>1, PartSources
    <3>2. PICK b \in Parts("set") : Matches(b, p)
      BY <3>1, PartsBuilt
    <3> QED  BY <3>2 DEF Matches
  <2> QED  BY <2>1, <2>2
<1>3. \A c, v : /\ Piece("set", c, "", <<v>>).col = c
                /\ Piece("set", c, "", <<v>>).values = <<v>>
  BY DEF Piece
<1>4. \A x : (\E p \in Range(Assignments) : x = <<p.col, p.values>>) <=> x \in asked
  <2>1. \A p : p \in Range(Assignments) <=>
               \E v \in Range(request.values) : p = Piece("set", v.col, "", <<v.value>>)
    BY <1>1, AssignmentPieces
  <2> DEFINE piece(v) == Piece("set", v.col, "", <<v.value>>)
             pair(p) == <<p.col, p.values>>
             own(v) == <<v.col, <<v.value>>>>
  <2>2. \A v : pair(piece(v)) = own(v)
    BY <1>3
  <2>3. \A p : p \in Range(Assignments) <=> \E v \in Range(request.values) : p = piece(v)
    BY <2>1
  <2>4. \A x : x \in asked <=> \E v \in Range(request.values) : x = own(v)
    OBVIOUS
  <2> HIDE DEF piece, pair, own, asked
  <2>5. \A x : (\E p \in Range(Assignments) : x = pair(p)) <=> x \in asked
    BY <2>2, <2>3, <2>4
  <2> QED  BY <2>5 DEF pair
<1>5. \A x : (\E p \in Range(Stamp) : x = <<p.col, p.values>>) <=>
             x = <<Resource.softDelete, <<Now>>>>
  <2>1. \A p : p \in Range(Stamp) <=> p = Piece("set", Resource.softDelete, "", <<Now>>)
    BY <1>1, StampPieces
  <2> DEFINE p == Piece("set", Resource.softDelete, "", <<Now>>)
  <2>2. <<p.col, p.values>> = <<Resource.softDelete, <<Now>>>>
    BY <1>3
  <2> HIDE DEF p
  <2> QED  BY <2>1, <2>2 DEF p
<1>6. \A x : (\E p \in Written : x = <<p.col, p.values>>) <=> x \in asked \/ x \in stamp
  <2>1. CASE request.kind \in Stamped
    <3>1. stamp = {<<Resource.softDelete, <<Now>>>>} /\ Written = Range(Assignments) \cup Range(Stamp)
      BY <2>1 DEF Stamped, Written
    <3> HIDE DEF stamp, asked
    <3> QED  BY <1>4, <1>5, <3>1
  <2>2. CASE request.kind \notin Stamped
    <3>1. stamp = {} /\ Written = Range(Assignments)
      BY <2>2 DEF Stamped, Written
    <3> HIDE DEF stamp, asked
    <3> QED  BY <1>4, <3>1
  <2> QED  BY <2>1, <2>2
<1> HIDE DEF placed, asked, stamp
<1>7. placed = asked \cup stamp
  BY <1>2, <1>6
<1> QED  BY <1>7 DEF placed, asked, stamp

LEMMA CellsPlaced ==
  ASSUME BuilderInv, Built
  PROVE  {<<b.op, b.col, Values(b)>> : b \in Parts("value")} =
           {<<n, c, <<Cell(request.rows[n], c)>>>> :
              n \in DOMAIN request.rows, c \in Range(request.columns)}
<1> DEFINE placed == {<<b.op, b.col, Values(b)>> : b \in Parts("value")}
           asked == {<<n, c, <<Cell(request.rows[n], c)>>>> :
                       n \in DOMAIN request.rows, c \in Range(request.columns)}
<1>1. request \in Requests
  BY DEF BuilderInv, BuilderTyped
<1>2. \A x : x \in placed <=> \E p \in Range(Groups) : x = <<p.op, p.col, p.values>>
  <2>1. ASSUME NEW b \in Parts("value")
        PROVE  \E p \in Range(Groups) : <<b.op, b.col, Values(b)>> = <<p.op, p.col, p.values>>
    <3>1. PICK p \in Range(Pieces) : p.part = "value" /\ Matches(b, p)
      BY PartsBuilt
    <3> QED  BY <1>1, <3>1, PartSources DEF Matches
  <2>2. ASSUME NEW p \in Range(Groups)
        PROVE  \E b \in Parts("value") : <<b.op, b.col, Values(b)>> = <<p.op, p.col, p.values>>
    <3>1. p \in Range(Pieces) /\ p.part = "value"
      BY <1>1, PartSources
    <3>2. PICK b \in Parts("value") : Matches(b, p)
      BY <3>1, PartsBuilt
    <3> QED  BY <3>2 DEF Matches
  <2> QED  BY <2>1, <2>2
<1>3. \A n, c : /\ CellPiece(n, c).op = n /\ CellPiece(n, c).col = c
                /\ CellPiece(n, c).values = <<Cell(request.rows[n], c)>>
  BY DEF CellPiece, Piece
<1>4. \A x : (\E p \in Range(Groups) : x = <<p.op, p.col, p.values>>) <=>
             \E n \in DOMAIN request.rows, c \in Range(request.columns) :
               x = <<n, c, <<Cell(request.rows[n], c)>>>>
  <2>1. \A p : p \in Range(Groups) <=>
          \E n \in DOMAIN request.rows, c \in Range(request.columns) : p = CellPiece(n, c)
    BY <1>1, GroupPieces
  <2> DEFINE triple(p) == <<p.op, p.col, p.values>>
  <2>2. \A n, c : triple(CellPiece(n, c)) = <<n, c, <<Cell(request.rows[n], c)>>>>
    BY <1>3
  <2> HIDE DEF triple
  <2>3. \A x : (\E p \in Range(Groups) : x = triple(p)) <=>
               \E n \in DOMAIN request.rows, c \in Range(request.columns) :
                 x = <<n, c, <<Cell(request.rows[n], c)>>>>
    BY <2>1, <2>2
  <2> QED  BY <2>3 DEF triple
<1>5. \A x : x \in asked <=>
             \E n \in DOMAIN request.rows, c \in Range(request.columns) :
               x = <<n, c, <<Cell(request.rows[n], c)>>>>
  OBVIOUS
<1> HIDE DEF placed, asked
<1>6. placed = asked
  BY <1>2, <1>4, <1>5
<1> QED  BY <1>6 DEF placed, asked

LEMMA PagePlaced ==
  ASSUME BuilderInv, Built
  PROVE  /\ \A b \in Parts("limit") : Values(b) = <<Clamp(request.limit)>>
         /\ \A b \in Parts("offset") : Values(b) = <<request.offset>>
<1> DEFINE l == Piece("limit", NoField, "", <<Clamp(request.limit)>>)
           o == Piece("offset", NoField, "", <<request.offset>>)
<1>1. request \in Requests
  BY DEF BuilderInv, BuilderTyped
<1>2. /\ l.part = "limit" /\ l.values = <<Clamp(request.limit)>>
      /\ o.part = "offset" /\ o.values = <<request.offset>>
  BY DEF Piece
<1>3. \A p \in Paged : p = l \/ p = o
  BY <1>1, PagePieces DEF Paged
<1> HIDE DEF l, o
<1>4. ASSUME NEW b \in Parts("limit") PROVE Values(b) = <<Clamp(request.limit)>>
  <2>1. PICK p \in Range(Pieces) : p.part = "limit" /\ Matches(b, p)
    BY PartsBuilt
  <2>2. p = l
    BY <1>1, <1>2, <1>3, <2>1, PartSources
  <2> QED  BY <1>2, <2>1, <2>2 DEF Matches
<1>5. ASSUME NEW b \in Parts("offset") PROVE Values(b) = <<request.offset>>
  <2>1. PICK p \in Range(Pieces) : p.part = "offset" /\ Matches(b, p)
    BY PartsBuilt
  <2>2. p = o
    BY <1>1, <1>2, <1>3, <2>1, PartSources
  <2> QED  BY <1>2, <2>1, <2>2 DEF Matches
<1> QED  BY <1>4, <1>5

\* Each value that is written goes to its column and its row, the page has the limit,
\* clamped, and the offset.
THEOREM WritesPlaced == Spec => []ValuesPlaced
<1>1. ASSUME BuilderInv, Built PROVE ValuesPlaced
  <2>1. request \in Requests
    BY <1>1 DEF BuilderInv, BuilderTyped
  <2>2. ASSUME NEW b \in Parts("limit")
        PROVE  /\ Head(Values(b)) \in 1..MaxLimit
               /\ request.limit \in 1..MaxLimit => Head(Values(b)) = request.limit
    <3>1. Head(Values(b)) = Clamp(request.limit)
      BY <1>1, PagePlaced
    <3> QED  BY <2>1, <3>1, Clamped
  <2>3. \A b \in Parts("offset") : Head(Values(b)) = request.offset
    BY <1>1, PagePlaced
  <2> QED  BY <1>1, <2>2, <2>3, SetPlaced, CellsPlaced DEF ValuesPlaced
<1>2. BuilderInv => ValuesPlaced
  BY <1>1 DEF ValuesPlaced
<1> QED  BY <1>2, BuilderInvariant, PTL

-----------------------------------------------------------------------------
(* The rows that are selected *)

Test(row, p) == Holds(p.op, row[p.col], p.values)

\* A row is selected when it passes every test of the conditions.
LEMMA SelectedByConditions ==
  ASSUME BuilderInv, Built, NEW row
  PROVE  Selected(row) <=>
           ~ Keyless /\ \A p \in Conditions : p.part = "where" => Test(row, p)
<1>1. request \in Requests
  BY DEF BuilderInv, BuilderTyped
<1>2. \A b, p : Matches(b, p) => Holds(b.op, row[b.col], Values(b)) = Test(row, p)
  BY DEF Matches, Test
<1>3. ASSUME Selected(row), NEW p \in Conditions, p.part = "where" PROVE Test(row, p)
  <2>1. p \in Range(Pieces)
    BY <1>1, PartSources
  <2>2. PICK b \in Parts("where") : Matches(b, p)
    BY <1>3, <2>1, PartsBuilt
  <2> QED  BY <1>2, <1>3, <2>2 DEF Selected
<1>4. ASSUME \A p \in Conditions : p.part = "where" => Test(row, p),
             NEW b \in Parts("where")
      PROVE  Holds(b.op, row[b.col], Values(b))
  <2>1. PICK p \in Range(Pieces) : p.part = "where" /\ Matches(b, p)
    BY PartsBuilt
  <2>2. p \in Conditions
    BY <1>1, <2>1, PartSources
  <2> QED  BY <1>2, <1>4, <2>1, <2>2
<1>5. Parts("never") = {} <=> ~ Keyless
  <2>1. (\E p \in Range(Pieces) : p.part = "never") <=> Keyless
    BY <1>1, PartSources
  <2>2. ASSUME NEW p \in Range(Pieces), p.part = "never" PROVE Parts("never") # {}
    BY <2>2, PartsBuilt
  <2>3. ASSUME NEW b \in Parts("never") PROVE \E p \in Range(Pieces) : p.part = "never"
    BY PartsBuilt
  <2> QED  BY <2>1, <2>2, <2>3
<1> QED  BY <1>3, <1>4, <1>5 DEF Selected

LEMMA TestOf ==
  \A row, part, col, op, values : Test(row, Piece(part, col, op, values)) = Holds(op, row[col], values)
  BY DEF Test, Piece

LEMMA HeadOfOne == \A v : Head(<<v>>) = v
  OBVIOUS

LEMMA OnlyElement ==
  ASSUME NEW S, NEW s \in Seq(S), Len(s) = 1
  PROVE  Head(s) \in S /\ Head(s) \in Range(s)
<1>1. DOMAIN s = 1..Len(s) /\ \A i \in 1..Len(s) : s[i] \in S
  OBVIOUS
<1>2. 1 \in DOMAIN s /\ s[1] \in S
  BY <1>1
<1>3. Head(s) = s[1]
  BY <1>2
<1> QED  BY <1>2, <1>3 DEF Range

LEMMA EqualHolds ==
  ASSUME NEW x, NEW v, v # Null
  PROVE  Holds("=", x, <<v>>) <=> x # Null /\ x = v
  BY HeadOfOne DEF Holds, Compare

LEMMA RowFilterTests ==
  ASSUME request \in Requests, NEW row
  PROVE  (\A p \in Range(RowFilters) : Test(row, p))
           <=> \A c \in Range(Resource.rowFilters) : row[c] = Tenant
<1>1. Tenant # Null
  BY QueryBuilderAssumption
<1>2. \A x : Holds("=", x, <<Tenant>>) <=> x = Tenant
  BY <1>1, EqualHolds
<1> DEFINE piece(c) == Piece("where", c, "=", <<Tenant>>)
<1>3. \A c : Test(row, piece(c)) <=> row[c] = Tenant
  BY <1>2, TestOf
<1>4. \A p : p \in Range(RowFilters) <=> \E c \in Range(Resource.rowFilters) : p = piece(c)
  BY RowFilterPieces
<1> HIDE DEF piece
<1> QED  BY <1>3, <1>4

LEMMA SoftDeleteTests ==
  ASSUME request \in Requests, NEW row
  PROVE  (\A p \in Range(SoftDelete) : Test(row, p))
           <=> \/ Resource.softDelete = NoField
               \/ request.withDeleted
               \/ row[Resource.softDelete] = Null
<1> DEFINE piece == Piece("where", Resource.softDelete, "IS NULL", <<>>)
<1>1. Test(row, piece) <=> row[Resource.softDelete] = Null
  <2>1. \A x : Holds("IS NULL", x, <<>>) <=> x = Null
    BY DEF Holds
  <2>2. Test(row, piece) = Holds("IS NULL", row[Resource.softDelete], <<>>)
    BY TestOf
  <2> QED  BY <2>1, <2>2
<1>2. Range(SoftDelete) =
        IF Resource.softDelete # NoField /\ ~request.withDeleted THEN {piece} ELSE {}
  BY SoftDeletePieces
<1> HIDE DEF piece
<1> QED  BY <1>1, <1>2

LEMMA KeyTests ==
  ASSUME request \in Requests, NEW row \in Samples
  PROVE  /\ request.id # Null =>
              ((\A p \in Range(ByPk) : Test(row, p)) <=> row[Resource.pk] = request.id)
         /\ (\A p \in Range(ByIds) : Test(row, p))
              <=> request.ids = <<>> \/ row[Resource.pk] \in Range(request.ids)
<1> DEFINE one == Piece("where", Resource.pk, "=", <<request.id>>)
           many == Piece("where", Resource.pk, "IN", request.ids)
           x == row[Resource.pk]
<1>1. x # Null
  BY QueryBuilderAssumption DEF Resource
<1>2. request.id # Null => (Test(row, one) <=> x = request.id)
  BY <1>1, EqualHolds, TestOf
<1>3. Test(row, many) <=> x \in Range(request.ids)
  <2>1. Holds("IN", x, request.ids) <=> x # Null /\ x \in Range(request.ids)
    BY DEF Holds
  <2>2. Test(row, many) = Holds("IN", x, request.ids)
    BY TestOf
  <2> QED  BY <1>1, <2>1, <2>2
<1>4. Range(ByPk) = {one} /\ Range(ByIds) = IF request.ids = <<>> THEN {} ELSE {many}
  BY KeyPieces
<1> HIDE DEF one, many
<1> QED  BY <1>2, <1>3, <1>4

LEMMA ForeignTests ==
  ASSUME request \in Requests, request.local # <<>>, NEW row
  PROVE  (\A p \in Range(ByForeign) : Test(row, p))
           <=> \E v \in Range(request.local) : row[request.foreign] = v
<1> DEFINE piece == Piece("where", request.foreign, "IN", request.local)
           x == row[request.foreign]
<1>1. Null \notin Range(request.local)
  <2>1. request.local \in Seq(Scalars \ {Null})
    BY RequestTyped DEF IsRequest
  <2> QED  BY <2>1 DEF Range
<1>2. Test(row, piece) <=> x # Null /\ x \in Range(request.local)
  <2>1. Holds("IN", x, request.local) <=> x # Null /\ x \in Range(request.local)
    BY DEF Holds
  <2>2. Test(row, piece) = Holds("IN", x, request.local)
    BY TestOf
  <2> QED  BY <2>1, <2>2
<1>3. Range(ByForeign) = {piece}
  BY ForeignPieces
<1> HIDE DEF piece
<1> QED  BY <1>1, <1>2, <1>3

\* What a filter of one operator means to the database, and to the client.
LEMMA FilterMeans ==
  ASSUME NEW f, IsFilter(f), NEW g \in Range(f.ops), NEW row,
         row[f.field] \in Int \cup {Null}, FilterPiece(f.field, g).part = "where"
  PROVE  Test(row, FilterPiece(f.field, g)) <=> Satisfies(row[f.field], g)
<1> DEFINE x == row[f.field]
           v == Head(g.values)
           piece == FilterPiece(f.field, g)
<1>1. g \in [op : STRING, form : {"scalar", "text", "list"}, values : Seq(Scalars)]
  <2>1. f.ops \in Seq([op : STRING, form : {"scalar", "text", "list"}, values : Seq(Scalars)])
    BY DEF IsFilter
  <2>2. PICK i \in DOMAIN f.ops : g = f.ops[i]
    BY DEF Range
  <2> QED  BY ONLY <2>1, <2>2, ElementsOf
<1>2. g.values \in Seq(Scalars)
  BY <1>1
<1>3. /\ g.op # "in" => Len(g.values) = 1 /\ Blank \notin Range(g.values)
      /\ g.op = "is_null" => Truthy(v) \in BOOLEAN
  BY DEF IsFilter
<1>4. g.op # "in" => v \in Int \cup {Null}
  <2>2. g.op # "in" => v \in Scalars /\ v \in Range(g.values)
    BY <1>2, <1>3, OnlyElement
  <2> QED  BY <1>3, <2>2 DEF Scalars
<1>5. Null \notin Int /\ Blank \notin Int /\ Null # Blank
  BY QueryBuilderAssumption
<1>6. /\ \A op, values : Test(row, Piece("where", f.field, op, values)) = Holds(op, x, values)
      /\ \A code, values : piece # Piece("refuse", f.field, code, values)
  <2>1. \A code, values : Piece("refuse", f.field, code, values).part = "refuse"
    BY DEF Piece
  <2> QED  BY <2>1, TestOf
<1>7. CASE g.op = "is_null"
  <2>1. piece = Piece("where", f.field, IF Truthy(v) THEN "IS NULL" ELSE "IS NOT NULL", <<>>)
    BY <1>7, FilterPieceCases
  <2>2. Test(row, piece) = Holds(IF Truthy(v) THEN "IS NULL" ELSE "IS NOT NULL", x, <<>>)
    BY <1>6, <2>1
  <2>3. (Holds("IS NULL", x, <<>>) <=> x = Null) /\ (Holds("IS NOT NULL", x, <<>>) <=> x # Null)
    BY DEF Holds
  <2>4. Satisfies(x, g) <=> ((x = Null) = Truthy(v))
    BY <1>7 DEF Satisfies
  <2> HIDE DEF x, v, piece
  <2>5. ASSUME Truthy(v) PROVE Test(row, piece) <=> Satisfies(x, g)
    <3>1. Test(row, piece) <=> x = Null
      BY <2>2, <2>3, <2>5
    <3>2. Truthy(v) = TRUE
      BY <1>3, <1>7, <2>5
    <3>3. Satisfies(x, g) <=> x = Null
      BY <2>4, <3>2
    <3> QED  BY <3>1, <3>3
  <2>6. ASSUME ~ Truthy(v) PROVE Test(row, piece) <=> Satisfies(x, g)
    <3>1. Test(row, piece) <=> x # Null
      BY <2>2, <2>3, <2>6
    <3>2. Truthy(v) = FALSE
      BY <1>3, <1>7, <2>6
    <3>3. Satisfies(x, g) <=> x # Null
      BY <2>4, <3>2
    <3> QED  BY <3>1, <3>3
  <2>7. Test(row, piece) <=> Satisfies(x, g)
    BY <2>5, <2>6
  <2> QED  BY <2>7 DEF x, piece
<1>8. CASE g.op = "in"
  <2>1. piece = Piece("where", f.field, "IN", Items(g))
    <3>1. \/ piece = Piece("refuse", f.field, "BAD_FILTER", <<>>)
          \/ piece = Piece("where", f.field, "IN", Items(g))
      BY <1>8, FilterPieceCases
    <3> HIDE DEF piece
    <3> QED  BY <1>6, <3>1
  <2>2. Test(row, piece) <=> x # Null /\ x \in Range(Items(g))
    <3>1. Holds("IN", x, Items(g)) <=> x # Null /\ x \in Range(Items(g))
      BY DEF Holds
    <3> QED  BY <1>6, <2>1, <3>1
  <2>3. Satisfies(x, g) <=> x # Null /\ x \in Range(g.values)
    BY <1>8 DEF Satisfies
  <2>4. x # Null => x # Blank
    BY <1>5
  <2>5. x # Null => (x \in Range(Items(g)) <=> x \in Range(g.values))
    <3> HIDE DEF x
    <3>1. Range(Items(g)) = IF g.form = "text" THEN Range(g.values) \ {Blank} ELSE Range(g.values)
      BY <1>1, ItemsKept
    <3> QED  BY <2>4, <3>1
  <2> HIDE DEF x, piece
  <2>6. Test(row, piece) <=> Satisfies(x, g)
    BY <2>2, <2>3, <2>5
  <2> QED  BY <2>6 DEF x, piece
<1>9. CASE g.op \notin FilterOps
  BY <1>6, <1>9, FilterPieceCases
<1>10. CASE g.op \in FilterOps \ {"is_null", "in"}
  <2>1. piece = Piece("where", f.field, OpSql(g.op), g.values)
    BY <1>10, FilterPieceCases
  <2>2. Test(row, piece) = Holds(OpSql(g.op), x, g.values)
    BY <1>6, <2>1
  <2>3. x \in Int \cup {Null} /\ v \in Int \cup {Null}
    BY <1>4, <1>10
  <2>4. g.op \in {"eq", "ne", "gt", "gte", "lt", "lte", "like", "ilike"}
    BY <1>10 DEF FilterOps
  <2> HIDE DEF x, piece
  <2>5. OpSql(g.op) \in {"=", "<>", ">", ">=", "<", "<=", "LIKE", "ILIKE"}
    BY <2>4 DEF OpSql
  <2>6. Holds(OpSql(g.op), x, g.values) <=>
          x # Null /\ v # Null /\ Compare(OpSql(g.op), x, v)
    BY <2>5 DEF Holds
  <2> HIDE DEF v
  <2>7. ASSUME x # Null, v # Null
        PROVE  Compare(OpSql(g.op), x, v) <=> Satisfies(x, g)
    <3>1. x \in Int /\ v \in Int
      BY <2>3, <2>7
    <3>2. CASE g.op = "eq"
      BY <2>7, <3>1, <3>2 DEF Compare, OpSql, Satisfies, v
    <3>3. CASE g.op = "ne"
      BY <2>7, <3>1, <3>3 DEF Compare, OpSql, Satisfies, v
    <3>4. CASE g.op = "gt"
      BY <2>7, <3>1, <3>4 DEF Compare, OpSql, Satisfies, v
    <3>5. CASE g.op = "gte"
      BY <2>7, <3>1, <3>5 DEF Compare, OpSql, Satisfies, v
    <3>6. CASE g.op = "lt"
      BY <2>7, <3>1, <3>6 DEF Compare, OpSql, Satisfies, v
    <3>7. CASE g.op = "lte"
      BY <2>7, <3>1, <3>7 DEF Compare, OpSql, Satisfies, v
    <3>8. CASE g.op = "like"
      BY <2>7, <3>1, <3>8 DEF Compare, OpSql, Satisfies, v
    <3>9. CASE g.op = "ilike"
      BY <2>7, <3>1, <3>9 DEF Compare, OpSql, Satisfies, v
    <3> QED  BY <2>4, <3>2, <3>3, <3>4, <3>5, <3>6, <3>7, <3>8, <3>9
  <2>8. Satisfies(x, g) => x # Null /\ v # Null
    BY <2>4 DEF Satisfies, v
  <2>9. Test(row, piece) <=> Satisfies(x, g)
    BY <2>2, <2>6, <2>7, <2>8
  <2> QED  BY <2>9 DEF x, piece
<1> QED  BY <1>7, <1>8, <1>9, <1>10 DEF FilterOps

FiltersMean(row) ==
  \A f \in Range(request.filters) : \A g \in Range(f.ops) : Satisfies(row[f.field], g)

\* No filter of a finished statement was refused: each has a column of the table, and a test.
LEMMA FilterTests ==
  ASSUME BuilderInv, Built, request.kind \notin Inserts, ~ Keyless, NEW row \in Samples
  PROVE  (\A p \in Range(Filters) : p.part = "where" => Test(row, p)) <=> FiltersMean(row)
<1>1. request \in Requests
  BY DEF BuilderInv, BuilderTyped
<1>2. \A f \in Range(request.filters) : IsFilter(f)
  BY <1>1, RequestTyped DEF IsRequest
<1>3. \A p \in Range(Filters) : p \in AllPieces /\ Denied(p) = "none"
  <2>1. Range(Filters) \subseteq Range(Pieces)
    BY <1>1, PartSources DEF Conditions
  <2> QED  BY <2>1, PartsBuilt
<1>4. \A p : p \in Range(Filters) <=> \E f \in Range(request.filters) : PieceOf(f, p)
  BY <1>1, FilterPieces
<1>5. ASSUME NEW f \in Range(request.filters)
      PROVE  row[f.field] \in Int \cup {Null}
  <2> DEFINE named == Piece("filter", f.field, "", <<>>)
  <2>1. named.part = "filter" /\ named.col = f.field
    BY DEF Piece
  <2>2. named \in Range(Filters)
    BY <1>4 DEF PieceOf
  <2> HIDE DEF named
  <2>3. f.field \in Range(Resource.fields)
    BY <1>3, <2>1, <2>2, AllowedPiece
  <2>4. /\ Range(Resource.fields) \subseteq DOMAIN row
        /\ \A c \in DOMAIN row : row[c] \in Int \cup {Null}
    BY <1>1, QueryBuilderAssumption DEF Resource
  <2> QED  BY <2>3, <2>4
<1>6. ASSUME NEW f \in Range(request.filters), NEW g \in Range(f.ops)
      PROVE  /\ FilterPiece(f.field, g) \in Range(Filters)
             /\ FilterPiece(f.field, g).part = "where"
             /\ Test(row, FilterPiece(f.field, g)) <=> Satisfies(row[f.field], g)
  <2>1. FilterPiece(f.field, g) \in Range(Filters)
    BY <1>4 DEF PieceOf
  <2>2. FilterPiece(f.field, g).part # "refuse"
    BY <1>3, <2>1, AllowedPiece
  <2>3. FilterPiece(f.field, g).part = "where"
    BY <2>2, FilterPieceParts
  <2>4. IsFilter(f) /\ row[f.field] \in Int \cup {Null}
    BY <1>2, <1>5
  <2>5. Test(row, FilterPiece(f.field, g)) <=> Satisfies(row[f.field], g)
    BY <2>3, <2>4, FilterMeans
  <2> QED  BY <2>1, <2>3, <2>5
<1>7. ASSUME NEW p \in Range(Filters), p.part = "where"
      PROVE  \E f \in Range(request.filters) : \E g \in Range(f.ops) : p = FilterPiece(f.field, g)
  <2>1. PICK f \in Range(request.filters) : PieceOf(f, p)
    BY <1>4
  <2>2. Piece("filter", f.field, "", <<>>).part = "filter"
    BY DEF Piece
  <2>3. p # Piece("filter", f.field, "", <<>>)
    BY <1>7, <2>2
  <2> QED  BY <2>1, <2>3 DEF PieceOf
<1>8. ASSUME \A p \in Range(Filters) : p.part = "where" => Test(row, p),
             NEW f \in Range(request.filters), NEW g \in Range(f.ops)
      PROVE  Satisfies(row[f.field], g)
  BY <1>6, <1>8
<1>9. ASSUME FiltersMean(row), NEW p \in Range(Filters), p.part = "where"
      PROVE  Test(row, p)
  BY <1>6, <1>7, <1>9 DEF FiltersMean
<1> QED  BY <1>8, <1>9 DEF FiltersMean

\* A statement selects the rows of the tenant that are not deleted and that were asked for,
\* by key, by keys, by filters or as related to others, and no other.
THEOREM SelectsTheRowsAskedFor == Spec => []SelectsWanted
<1>1. ASSUME BuilderInv, Built, request.kind \notin Inserts, ~ Keyless, NEW row \in Samples
      PROVE  Selected(row) <=> Wanted(row)
  <2>1. request \in Requests
    BY <1>1 DEF BuilderInv, BuilderTyped
  <2>2. request.id # Null <=> request.kind \in ByKey
    BY <2>1, RequestTyped DEF IsRequest
  <2> DEFINE Passes(pieces) == \A p \in pieces : p.part = "where" => Test(row, p)
             key == IF request.kind \in ByKey THEN Range(ByPk) ELSE {}
  <2>3. Selected(row) <=> Passes(Conditions)
    BY <1>1, SelectedByConditions
  <2>4. Conditions = Range(RowFilters) \cup Range(SoftDelete) \cup Range(ByIds)
                       \cup Range(Filters) \cup key \cup Range(ByForeign)
    BY <1>1 DEF Conditions
  <2>5. \A col, op, values : Piece("where", col, op, values).part = "where"
    BY DEF Piece
  <2>6. Passes(Range(RowFilters)) <=> \A c \in Range(Resource.rowFilters) : row[c] = Tenant
    <3>1. \A p \in Range(RowFilters) : p.part = "where"
      BY <2>1, <2>5, RowFilterPieces
    <3> QED  BY <2>1, <3>1, RowFilterTests
  <2>7. Passes(Range(SoftDelete)) <=> \/ Resource.softDelete = NoField
                                      \/ request.withDeleted
                                      \/ row[Resource.softDelete] = Null
    <3>1. \A p \in Range(SoftDelete) : p = Piece("where", Resource.softDelete, "IS NULL", <<>>)
      BY <2>1, SoftDeletePieces
    <3>2. \A p \in Range(SoftDelete) : p.part = "where"
      BY <2>5, <3>1
    <3> QED  BY <2>1, <3>2, SoftDeleteTests
  <2>8. Passes(Range(ByIds)) <=> request.ids = <<>> \/ row[Resource.pk] \in Range(request.ids)
    <3>1. \A p \in Range(ByIds) : p.part = "where"
      BY <2>1, <2>5, KeyPieces
    <3> QED  BY <1>1, <2>1, <3>1, KeyTests
  <2>9. Passes(key) <=> request.id = Null \/ row[Resource.pk] = request.id
    <3>1. CASE request.id = Null
      BY <2>2, <3>1
    <3>2. CASE request.id # Null
      <4>1. \A p \in Range(ByPk) : p.part = "where"
        BY <2>1, <2>5, KeyPieces
      <4>2. (\A p \in Range(ByPk) : Test(row, p)) <=> row[Resource.pk] = request.id
        BY <1>1, <2>1, <3>2, KeyTests
      <4>3. key = Range(ByPk)
        BY <2>2, <3>2
      <4> HIDE DEF key
      <4>4. Passes(key) <=> row[Resource.pk] = request.id
        BY <4>1, <4>2, <4>3
      <4> QED  BY <3>2, <4>4 DEF key
    <3> QED  BY <3>1, <3>2
  <2>10. Passes(Range(Filters)) <=> FiltersMean(row)
    BY <1>1, FilterTests
  <2>11. Passes(Conditions) <=> /\ Passes(Range(RowFilters)) /\ Passes(Range(SoftDelete))
                                /\ Passes(Range(ByIds)) /\ Passes(Range(Filters))
                                /\ Passes(key) /\ Passes(Range(ByForeign))
    <3> HIDE DEF key
    <3> QED  BY <2>4
  <2>12. Wanted(row) <=>
           /\ \A c \in Range(Resource.rowFilters) : row[c] = Tenant
           /\ Resource.softDelete = NoField \/ request.withDeleted
                \/ row[Resource.softDelete] = Null
           /\ request.id = Null \/ row[Resource.pk] = request.id
           /\ request.ids = <<>> \/ row[Resource.pk] \in Range(request.ids)
           /\ request.kind = "related" =>
                \E v \in Range(request.local) : row[request.foreign] = v
           /\ FiltersMean(row)
    BY DEF Wanted, FiltersMean
  <2>13. Passes(Range(ByForeign)) <=>
           (request.kind = "related" =>
              \E v \in Range(request.local) : row[request.foreign] = v)
    <3>1. CASE request.kind = "related"
      <4>1. request.local # <<>>
        BY <1>1, <3>1 DEF Keyless
      <4>2. \A p \in Range(ByForeign) : p.part = "where"
        BY <2>1, <2>5, ForeignPieces
      <4> QED  BY <2>1, <3>1, <4>1, <4>2, ForeignTests
    <3>2. CASE request.kind # "related"
      BY <2>1, <3>2, EmptyBlocks
    <3> QED  BY <3>1, <3>2
  <2> HIDE DEF Passes, key
  <2> QED  BY <1>1, <2>3, <2>6, <2>7, <2>8, <2>9, <2>10, <2>11, <2>12, <2>13
<1>2. ASSUME BuilderInv, Built, Keyless, NEW row \in Samples
      PROVE  Selected(row) <=> Wanted(row)
  <2>1. ~ Selected(row)
    BY <1>2, SelectedByConditions
  <2>2. Range(request.local) = {} /\ request.kind = "related"
    BY <1>2, NoPiece DEF Keyless
  <2> QED  BY <2>1, <2>2 DEF Wanted
<1>3. BuilderInv => SelectsWanted
  BY <1>1, <1>2 DEF SelectsWanted
<1> QED  BY <1>3, BuilderInvariant, PTL
=============================================================================
