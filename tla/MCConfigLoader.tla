---------------------------- MODULE MCConfigLoader ----------------------------
(***************************************************************************)
(* Two resources like those of config/config.yaml, and overlays in the     *)
(* manner of config/accounts.example.yaml, right and wrong in each section *)
(* on its own.                                                             *)
(***************************************************************************)
EXTENDS ConfigLoader, TLC

MCTrim ==
  ("" :> "") @@ (" " :> "") @@ ("CN=a" :> "CN=a") @@ (" CN=a" :> "CN=a") @@ ("CN=b" :> "CN=b")
  @@ ("A" :> "A") @@ ("A " :> "A") @@ ("B" :> "B")
MCWords == DOMAIN MCTrim

\* A file without the sections, or the settings, that are Absent.
CONSTANT Absent
Given(f) == [key \in {key \in DOMAIN f : f[key] # Absent} |-> f[key]]

Column == {"read", "write"}
UserFields ==
  [id |-> {"read", "write", "primary_key"}, email |-> Column \cup {"required"},
   status |-> Column, deleted_at |-> {"read", "auto"}]
Users == [table |-> "users", fields |-> UserFields, operations |-> [delete |-> FALSE],
          row_filters |-> TRUE, soft_delete |-> TRUE, filterable |-> {"email"},
          aggregate |-> [group_by |-> {"status"}]]
Orders == [table |-> "orders", fields |-> [id |-> Column, status |-> Column]]

Only(key, value) == key :> value
Granted(res, parts) == Only(res, parts)
Entry(dn, tenant, grants) == [dn |-> dn, account |-> [tenant |-> tenant, grants |-> grants]]

BaseResources ==
  { Absent, Malformed, <<>>,
    [users |-> Users, orders |-> Orders],
    [users |-> [Users EXCEPT !.fields = Only("email", Column)], orders |-> Orders],
    [users |-> Users, orders |-> Malformed],
    [users |-> Users, orders |-> Only("fields", UserFields)],
    [users |-> Users, orders |-> Orders @@ Only("pk", "status")] }
BaseAccounts == { Absent, <<Entry("CN=b", "B", Granted("users", <<>>))>> }

MCBases ==
  { Given([resources |-> r, accounts |-> a, authz |-> Absent, typo |-> t]) :
      r \in BaseResources, a \in BaseAccounts, t \in {Absent} }
  \cup { Given([resources |-> [users |-> Users], typo |-> <<>>]),
         [resources |-> [users |-> Users], authz |-> Malformed] }

OverlayAccounts ==
  { Absent, Malformed, <<>>,
    <<Entry("CN=a", "A ", Granted("users", Only("operations", {"list", "delete"})))>>,
    <<Entry("CN=a", "A", Granted("users", Only("operations", {"list"})
                                            @@ Only("read", {"email", "status"})))>>,
    <<Entry("CN=a", "A", Granted("orders", Only("write", {"email"})))>>,
    <<Entry("CN=a", "A", Granted("items", <<>>))>>,
    <<Entry("CN=a", "A", Granted("users", Only("write", Malformed)))>>,
    <<Entry("CN=a", " ", <<>>)>>, <<Entry(" ", "A", <<>>)>>,
    \* One DN twice; the first entry would not do by itself.
    <<Entry("CN=a", " ", Malformed), Entry("CN=b", "B", <<>>),
      Entry(" CN=a", "A", Granted("orders", <<>>))>> }

OverlayResources ==
  { Absent, Malformed, [users |-> Malformed], [items |-> Orders],
    [users |-> [operations |-> [list |-> FALSE]]],
    [users |-> [operations |-> <<>>, row_filters |-> FALSE]],
    [users |-> [fields |-> [id |-> Column, email |-> Column]]],
    [users |-> [fields |-> [email |-> Column]], orders |-> <<>>],
    [users |-> [table |-> "people", fields |-> UserFields]] }

MCOverlays ==
  { Given([accounts |-> a, resources |-> r, authz |-> z, typo |-> Absent]) :
      a \in OverlayAccounts, r \in OverlayResources, z \in {Absent, Malformed} }
  \cup { [authz |-> <<>>, typo |-> <<>>] }
=============================================================================
