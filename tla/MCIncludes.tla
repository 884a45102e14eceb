----------------------------- MODULE MCIncludes -----------------------------
(***************************************************************************)
(* Users, orders and items related as in config/config.yaml: a user has    *)
(* orders, an order has a user and items.  An order of tenant A may name a *)
(* user of tenant B: its foreign key does not see the policies.            *)
(***************************************************************************)
EXTENDS Includes

CONSTANTS tA, tB

User(id, t, deleted) == [id |-> id, tenant_id |-> t, deleted_at |-> deleted]
Order(id, t, user, deleted) ==
  [id |-> id, tenant_id |-> t, user_id |-> user, deleted_at |-> deleted]
Item(id, t, order) == [id |-> id, tenant_id |-> t, order_id |-> order]

MCTable ==
  [users |-> {User("u1", tA, FALSE), User("u2", tA, FALSE), User("v1", tB, FALSE)},
   orders |-> {Order("o1", tA, "u1", FALSE), Order("o2", tA, "u2", FALSE),
               Order("o3", tA, "v1", FALSE), Order("p1", tB, "u1", FALSE)},
   items |-> {Item("n1", tA, "o1"), Item("n2", tA, "o2")}]

\* Others delete a user, move or delete an order, move an item and add one.
MCEdits ==
  [users |-> {User("u1", tA, TRUE)},
   orders |-> {Order("o1", tA, "u2", FALSE), Order("o1", tA, "u1", TRUE)},
   items |-> {Item("n1", tA, "o2"), Item("n3", tA, "o1")}]

Relation(res, many, local, foreign) ==
  [resource |-> res, many |-> many, local |-> local, foreign |-> foreign]
Resource(fields, softDelete, relations) ==
  [ops |-> Operations, read |-> fields, fields |-> fields, rowFilter |-> TRUE,
   softDelete |-> softDelete, relations |-> relations]

Shop(grants) ==
  [resources |->
     [users |-> Resource({"id", "tenant_id", "deleted_at"}, TRUE,
                         [orders |-> Relation("orders", TRUE, "id", "user_id")]),
      orders |-> Resource({"id", "tenant_id", "user_id", "deleted_at"}, TRUE,
                          [user |-> Relation("users", FALSE, "user_id", "id"),
                           items |-> Relation("items", TRUE, "id", "order_id")]),
      items |-> Resource({"id", "tenant_id", "order_id"}, FALSE, <<>>)],
   accounts |-> [admin |-> [tenant |-> tA, grants |-> grants]]]

Read(fields) == [ops |-> Unrestricted, read |-> fields, write |-> {}]
All == Read(Unrestricted)
Everything == [users |-> All, orders |-> All, items |-> All]

\* The keys are hidden; users may not be listed and items are not granted; a relation uses
\* other columns, one of them undeclared; the items are gone.
MCConfigs ==
  [boot |-> Shop(Everything),
   hidden |-> Shop([Everything EXCEPT !.orders = Read({"id", "deleted_at"}),
                                      !.items = Read({"id", "tenant_id"})]),
   denied |-> Shop([users |-> [All EXCEPT !.ops = {"get"}], orders |-> All]),
   rewired |-> [Shop(Everything) EXCEPT
                  !.resources.users.relations.orders.foreign = "owner_id",
                  !.resources.orders.relations.user.local = "id",
                  !.resources.orders.relations.items.many = FALSE],
   dropped |-> [Shop([users |-> All, orders |-> All]) EXCEPT
                  !.resources = [users |-> @.users, orders |-> @.orders]]]

Query(op, res, id, include, withDeleted) ==
  [op |-> op, res |-> res, id |-> id, include |-> include, withDeleted |-> withDeleted]

MCQueries ==
  { Query("list", "orders", "", <<"user", "items">>, FALSE),
    Query("list", "orders", "", <<"items">>, TRUE),
    Query("get", "orders", "o1", <<"items", "user">>, FALSE),
    Query("list", "users", "", <<"orders">>, FALSE),
    Query("get", "users", "u1", <<"orders", "nothing">>, FALSE),
    Query("list", "items", "", <<>>, FALSE),
    Query("get", "users", "u1", <<"nothing">>, FALSE) }
=============================================================================
