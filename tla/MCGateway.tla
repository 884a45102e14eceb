------------------------------ MODULE MCGateway ------------------------------
(***************************************************************************)
(* Small instances of Gateway: one table, users, with the columns of       *)
(* config/config.yaml, two tenants and the accounts of                     *)
(* config/accounts.example.yaml that matter, before and after a change of  *)
(* the registry.                                                           *)
(***************************************************************************)
EXTENDS Gateway

CONSTANTS
  i1, i2, i3, i4,   \* ids
  tA, tB,           \* tenants
  ann, bob, eve,    \* emails
  active, paused    \* statuses

Users(softDelete, rowFilter, write) ==
  [ops |-> Operations,
   fields |-> Fields,
   read |-> Fields,
   write |-> write,
   required |-> {"email"},
   filterable |-> {"email", "status"},
   upsertKeys |-> {"tenant_id", "email"},
   groupBy |-> {"status"},
   sumFields |-> {},
   rowFilter |-> rowFilter,
   softDelete |-> softDelete]

SoftUsers == Users(TRUE, TRUE, {"email", "status"})
HardUsers == Users(FALSE, TRUE, {"email", "status"})
\* No row filter, and a tenant_id that clients write: the policies are alone.
OpenUsers == Users(TRUE, FALSE, {"tenant_id", "email", "status"})

Full == [ops |-> Unrestricted, read |-> Unrestricted, write |-> Unrestricted]
Reader == [ops |-> {"list", "get"}, read |-> Fields \ {"deleted_at"}, write |-> {}]
StatusOnly == [ops |-> Unrestricted, read |-> {"id", "status"}, write |-> {"status"}]
Nothing == [ops |-> Unrestricted, read |-> {}, write |-> {}]

Account(tenant, grant) == [tenant |-> tenant, grants |-> [users |-> grant]]
NoGrant(tenant) == [tenant |-> tenant, grants |-> <<>>]

Registry(users, admin, other) ==
  [resources |-> [users |-> users], accounts |-> [admin |-> admin, other |-> other]]

Soft == Registry(SoftUsers, Account(tA, Full), Account(tB, Full))
Hard == Registry(HardUsers, Account(tA, Full), Account(tB, Full))
\* The accounts change tenants, and admin loses most of its grant.
Moved == Registry(SoftUsers, Account(tB, StatusOnly), Account(tA, Full))
Swapped == Registry(SoftUsers, Account(tB, Full), Account(tA, Full))
\* The same with the policies alone, without the route of an operation.
OpenPart == Registry([OpenUsers EXCEPT !.ops = @ \ {"update"}],
                     Account(tA, Full), Account(tB, Full))
\* Nobody may delete or count, and admin may read only part of what it could; or it may
\* read nothing; or it is gone.
OpenMoved == Registry([OpenUsers EXCEPT !.ops = @ \ {"delete", "aggregate"}],
                      Account(tB, StatusOnly), Account(tA, Full))
OpenMuted == Registry(OpenUsers, Account(tA, Nothing), Account(tB, Reader))
OpenRevoked == [OpenPart EXCEPT !.accounts = [other |-> Account(tA, Reader)]]
\* The resource itself is gone; another, orders, is there.
Dropped == [resources |-> [orders |-> HardUsers],
            accounts |-> [admin |-> NoGrant(tA), other |-> NoGrant(tB)]]

Row(tenant, email, status, deleted) ==
  [tenant_id |-> tenant, email |-> email, status |-> status, deleted_at |-> deleted]

\* Ann of tenant A and Ann of tenant B.
MCTable == [users |-> [i \in Ids |->
  CASE i = i1 -> Row(tA, ann, active, FALSE)
    [] i = i2 -> Row(tB, ann, active, FALSE)
    [] OTHER -> Unborn]]
\* Ann and a soft-deleted Bob, both of tenant A.
MCTableDeleted == [users |-> [MCTable.users EXCEPT ![i2] = Row(tA, bob, active, TRUE)]]

Base(op, dn) ==
  [op |-> op, res |-> "users", dn |-> dn, id |-> i1, ids |-> {}, items |-> <<>>,
   filters |-> <<>>, withDeleted |-> FALSE, limit |-> 2, offset |-> 0,
   groups |-> {}, sums |-> {}]
With(op, dn, items) == [Base(op, dn) EXCEPT !.items = items]
ById(op, dn, id, items) == [With(op, dn, items) EXCEPT !.id = id]
ByStatus(op, dn, status) == [Base(op, dn) EXCEPT !.filters = [status |-> {{status}}]]

NewUser(email) == [email |-> email]
WholeUser(email, status) == [email |-> email, status |-> status]
UserOf(tenant, email) == [tenant_id |-> tenant, email |-> email]
NoField == <<>>

-----------------------------------------------------------------------------
MCIds == {i1, i2, i3, i4}

\* Filters.cfg: every kind of statement, from both tenants, at the same two emails.
IsolationCalls ==
  { Base("list", "admin"), Base("list", "other"), Base("get", "other"),
    With("patch", "other", <<[status |-> paused]>>),
    With("create", "admin", <<NewUser(bob)>>),
    With("upsert", "other", <<WholeUser(ann, paused)>>),
    ByStatus("bulk_delete", "admin", active),
    Base("get", "nobody") }
IsolationConfigs == [boot |-> Soft, after |-> Moved]

\* Policies.cfg: payloads that name a tenant, and what accounts see while their grants and
\* their tenants change.
PolicyCalls ==
  { Base("list", "admin"), Base("get", "other"), Base("delete", "other"),
    [Base("aggregate", "admin") EXCEPT !.groups = {"status"}],
    [Base("aggregate", "other") EXCEPT !.groups = {"email"}],
    [Base("list", "other") EXCEPT !.filters = [deleted_at |-> {{TRUE}}]],
    With("update", "other", <<UserOf(tB, eve)>>),
    With("patch", "admin", <<UserOf(tB, eve)>>),
    With("create", "admin", <<UserOf(tB, bob)>>),
    With("create", "other", <<UserOf(tB, bob)>>),
    With("upsert", "other", <<UserOf(tA, ann)>>),
    ByStatus("bulk_delete", "admin", active) }
PolicyConfigs == [boot |-> OpenPart, moved |-> OpenMoved, muted |-> OpenMuted,
                  revoked |-> OpenRevoked]

\* Deletes.cfg: three requests over a live and a soft-deleted row.
DeleteCalls ==
  { Base("delete", "admin"), ByStatus("bulk_delete", "admin", active),
    Base("get", "admin"), Base("list", "admin"),
    [Base("list", "admin") EXCEPT !.withDeleted = TRUE],
    With("patch", "admin", <<[status |-> paused]>>),
    With("patch", "admin", <<NoField>>),
    With("upsert", "admin", <<WholeUser(ann, active)>>),
    With("upsert", "admin", <<NewUser(bob)>>) }
DeleteConfigs == [boot |-> Soft]

\* Batches.cfg: payloads that collide with rows, with each other and with themselves, and
\* a list, whose two statements take the only connection twice.
BatchCalls ==
  { With("batch_create", "admin", <<NewUser(eve), NewUser(bob)>>),
    With("batch_create", "admin", <<NewUser(eve), NewUser(eve)>>),
    With("batch_create", "admin", <<NewUser(eve), WholeUser(bob, paused)>>),
    With("batch_create", "admin", <<>>),
    With("create", "admin", <<NewUser(eve)>>),
    With("upsert", "admin", <<NewUser(eve), NewUser(eve)>>),
    With("upsert", "admin", <<WholeUser(eve, paused), WholeUser(ann, paused)>>),
    With("update", "admin", <<WholeUser(bob, active)>>),
    With("update", "admin", <<NewUser(bob)>>),
    Base("delete", "admin"), Base("list", "admin"),
    [Base("bulk_delete", "admin") EXCEPT !.ids = {i1, i2}],
    Base("bulk_delete", "admin") }
BatchConfigs == [boot |-> Hard, after |-> Dropped]

\* The violation runs: one call each.
UnfilteredDelete == { [Base("bulk_delete", "admin") EXCEPT !.filters = [status |-> {}]] }
LateBody == { With("create", "admin", <<NewUser(bob)>>) }
BootOnly == [boot |-> Soft]
SwapConfigs == [boot |-> Soft, after |-> Swapped]
=============================================================================
