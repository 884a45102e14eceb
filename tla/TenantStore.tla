----------------------------- MODULE TenantStore -----------------------------
(***************************************************************************)
(* What the gateway promises its clients, without saying how: every request *)
(* that is let in acts at most once, in one atomic step, on rows of its     *)
(* own tenant; what it is shown is what that step saw or did; and its       *)
(* answer does not mislead it about what was changed.                       *)
(*                                                                         *)
(* Gateway implements this specification (Gateway!ImplementsTenantStore).  *)
(***************************************************************************)
CONSTANTS
  Requests,
  Tenants, NoTenant,
  Resources,
  Ids,
  Rows,     \* records with a tenant_id; an id may also hold no row at all
  Contents, \* what an id may hold: a row, or a mark that there is none
  Store0    \* resource -> id -> contents, at first

VARIABLES
  store,    \* resource -> id -> contents
  phase,    \* request -> "idle", "open", "acted" or "closed"
  owner,    \* request -> the tenant it works for
  target,   \* request -> the resource it is about
  touched,  \* request -> ids whose contents its step changed
  view,     \* request -> rows its step saw, wrote or removed
  answer    \* request -> verdict and rows

vars == <<store, phase, owner, target, touched, view, answer>>

NoAnswer == [verdict |-> "none", rows |-> {}]

RowsOf(contents) ==
  {[id |-> i, row |-> contents[i]] : i \in {i \in Ids : contents[i] \in Rows}}

IdsIn(rows) == {x.id : x \in rows}

\* Whatever row there is, it is the tenant's.
Owned(content, tenant) == content \in Rows => content.tenant_id = tenant

Init ==
  /\ store = Store0
  /\ phase = [r \in Requests |-> "idle"]
  /\ owner = [r \in Requests |-> NoTenant]
  /\ target \in [Requests -> Resources]
  /\ touched = [r \in Requests |-> {}]
  /\ view = [r \in Requests |-> {}]
  /\ answer = [r \in Requests |-> NoAnswer]

\* A request arrives and is let in, for one tenant and one resource.
Open(r) ==
  /\ phase[r] = "idle"
  /\ phase' = [phase EXCEPT ![r] = "open"]
  /\ \E tenant \in Tenants : owner' = [owner EXCEPT ![r] = tenant]
  /\ \E res \in Resources : target' = [target EXCEPT ![r] = res]
  /\ UNCHANGED <<store, touched, view, answer>>

\* A request is refused as it arrives, whether or not its tenant is known.
Reject(r) ==
  /\ phase[r] = "idle"
  /\ phase' = [phase EXCEPT ![r] = "closed"]
  /\ \E tenant \in Tenants \cup {NoTenant} : owner' = [owner EXCEPT ![r] = tenant]
  /\ \E res \in Resources : target' = [target EXCEPT ![r] = res]
  /\ answer' = [answer EXCEPT ![r] = [verdict |-> "refused", rows |-> {}]]
  /\ UNCHANGED <<store, touched, view>>

\* The one step that reads or writes: only rows of the owner, in the target.  It sees rows
\* as they are after it, or as they were if it removed them, and every row it changed;
\* if the connection breaks it sees nothing.
Act(r) ==
  LET before == store[target[r]]
      after == store'[target[r]]
      changed == {i \in Ids : after[i] # before[i]}
      current == RowsOf(after) \cup {x \in RowsOf(before) : after[x.id] \notin Rows}
  IN  /\ phase[r] = "open"
      /\ phase' = [phase EXCEPT ![r] = "acted"]
      /\ store' \in [Resources -> [Ids -> Contents]]
      /\ \A res \in Resources \ {target[r]} : store'[res] = store[res]
      /\ \A i \in changed : Owned(before[i], owner[r]) /\ Owned(after[i], owner[r])
      /\ touched' = [touched EXCEPT ![r] = changed]
      /\ \E seen \in SUBSET {x \in current : x.row.tenant_id = owner[r]} :
           /\ view' = [view EXCEPT ![r] = seen]
           /\ changed \subseteq IdsIn(seen) \/ seen = {}
      /\ UNCHANGED <<owner, target, answer>>

Close(r, verdict, rows) ==
  /\ phase' = [phase EXCEPT ![r] = "closed"]
  /\ answer' = [answer EXCEPT ![r] = [verdict |-> verdict, rows |-> rows]]
  /\ UNCHANGED <<store, owner, target, touched, view>>

\* Success reports every row that was changed, and rows as the step saw them.
Succeed(r) ==
  /\ phase[r] = "acted"
  /\ touched[r] \subseteq IdsIn(view[r])
  /\ Close(r, "done", view[r])

\* A refusal changed nothing.
Refuse(r) ==
  /\ phase[r] \in {"open", "acted"}
  /\ touched[r] = {}
  /\ Close(r, "refused", {})

\* Only this answer leaves the client in doubt.
Doubt(r) ==
  /\ phase[r] \in {"open", "acted"}
  /\ Close(r, "unknown", {})

Next ==
  \E r \in Requests :
    Open(r) \/ Reject(r) \/ Act(r) \/ Succeed(r) \/ Refuse(r) \/ Doubt(r)

Spec == Init /\ [][Next]_vars
=============================================================================
