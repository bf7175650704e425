------------------------------- MODULE Tenancy -------------------------------
(***************************************************************************)
(* Tenants and their Postgres schemas (mypalace/tenancy.py, database.py,   *)
(* auth/middleware.py, auth/context.py, api/tenants.py, api/portability.py *)
(* and the worker's way into a handler, workers/runner.py).  A context     *)
(* variable names the tenant of the running task; every transaction begins *)
(* with SET LOCAL search_path "<tenant>", public, so a table is the        *)
(* tenant's if its schema exists and the one in public if not.             *)
(***************************************************************************)
EXTENDS Integers, FiniteSets

CONSTANTS
  Tenants,    \* tenants that are created and deleted
  Requests,   \* tasks of the API process: requests and what they spawn
  Workers,    \* worker processes
  Rows,       \* data rows, each written once
  Checked,    \* those in the tables that delete_tenant looks at
  Apart,      \* whether operators keep creating and deleting apart
  Faults,     \* faults that may strike: "ddl", "crash"
  MaxFaults   \* bound: how many of them strike in one behaviour

ASSUME TenancyAssumption ==
  /\ Requests \cap Workers = {}
  /\ Tenants \cap {"none", "any", "public", "unwritten", "gone"} = {}
  /\ Checked \subseteq Rows
  /\ Apart \in BOOLEAN
  /\ Faults \subseteq {"ddl", "crash"}
  /\ MaxFaults \in Nat

Tasks == Requests \cup Workers

VARIABLES
  listed,    \* tenants with a row in public.tenants
  schemas,   \* tenants whose schema exists
  keyed,     \* tenants that keys in public.api_keys are bound to
  jobs,      \* tenants with a queued job in public.reflection_jobs
  owner,     \* tenant_id of a row
  place,     \* the schema a row is in
  stage,     \* how far a task is
  key,       \* the tenant its key is bound to, "any" for a cross-tenant key
  ctx,       \* its context variable
  aim,       \* the tenant_id it passes to what it calls
  ready,     \* auxiliary: tenants created with success and not deleted since
  may,       \* auxiliary: the checked rows that a delete may take: all if forced,
             \* or else what was written to its tenant since it looked
  faults     \* faults so far

tables == <<listed, keyed, jobs>>
data == <<owner, place>>
tasks == <<stage, key, ctx, aim>>
vars == <<tables, schemas, data, tasks, ready, may, faults>>

Strike(kind) ==
  /\ kind \in Faults
  /\ faults < MaxFaults
  /\ faults' = faults + 1

(* Where "<t>", public leads. *)
Path(t) == IF t \in schemas THEN t ELSE "public"

Seen(t) == {r \in Rows : place[r] = Path(t) /\ owner[r] = t}

Creating == {"create", "import"}
Deleting == {"checked", "dropping"}
Nobody(work) == Apart => \A b \in Tasks : stage[b] \notin work

Init ==
  /\ listed = {} /\ schemas = {} /\ keyed = {} /\ jobs = {}
  /\ owner = [r \in Rows |-> "none"]
  /\ place = [r \in Rows |-> "unwritten"]
  /\ stage = [a \in Tasks |-> "idle"]
  /\ key = [a \in Tasks |-> "none"]
  /\ ctx = [a \in Tasks |-> "none"]
  /\ aim = [a \in Tasks |-> "none"]
  /\ ready = {}
  /\ may = [a \in Tasks |-> {}]
  /\ faults = 0

-----------------------------------------------------------------------------
(* A task is over, and its context with it. *)
End(a) ==
  /\ stage' = [stage EXCEPT ![a] = "idle"]
  /\ key' = [key EXCEPT ![a] = "none"]
  /\ ctx' = [ctx EXCEPT ![a] = "none"]
  /\ aim' = [aim EXCEPT ![a] = "none"]
  /\ may' = [may EXCEPT ![a] = {}]

Move(a, next) ==
  /\ stage' = [stage EXCEPT ![a] = next]
  /\ UNCHANGED <<key, ctx, may>>

(* A request and its tenant. *)

MintKey(t) ==
  /\ t \notin keyed
  /\ keyed' = keyed \cup {t}
  /\ UNCHANGED <<listed, jobs, schemas, data, tasks, ready, may, faults>>

(* AuthMiddleware: a bound key sets the tenant, a cross-tenant key leaves   *)
(* the variable at its default.                                             *)
Arrive(a, k) ==
  /\ stage[a] = "idle"
  /\ stage' = [stage EXCEPT ![a] = "routed"]
  /\ key' = [key EXCEPT ![a] = k]
  /\ ctx' = [ctx EXCEPT ![a] = IF k = "any" THEN "none" ELSE k]
  /\ aim' = [aim EXCEPT ![a] = "none"]
  /\ UNCHANGED <<tables, schemas, data, ready, may, faults>>

Resolved(a, t) ==
  /\ stage[a] \in {"routed", "resolved"}
  /\ key[a] \in {"any", t}
  /\ stage' = [stage EXCEPT ![a] = "resolved"]
  /\ aim' = [aim EXCEPT ![a] = t]
  /\ UNCHANGED <<tables, schemas, data, key, ready, may, faults>>

(* Slips: a tenant once set is kept; setting it is left to the middleware. *)
ResolveOnce(a, t) ==
  /\ Resolved(a, t)
  /\ ctx' = [ctx EXCEPT ![a] = IF @ = "none" THEN t ELSE @]

ResolveUnset(a, t) ==
  /\ Resolved(a, t)
  /\ UNCHANGED ctx

(* resolve_tenant: the tenant of the key, or any for a cross-tenant key,    *)
(* which may resolve one after another; the variable follows.               *)
Resolve(a, t) ==
  /\ Resolved(a, t)
  /\ ctx' = [ctx EXCEPT ![a] = t]

(* A handler inserts a row: one transaction on the search path of its task. *)
Write(a, r) ==
  /\ stage[a] = "resolved"
  /\ place[r] = "unwritten"
  /\ owner' = [owner EXCEPT ![r] = aim[a]]
  /\ place' = [place EXCEPT ![r] = Path(ctx[a])]
  /\ may' = [b \in Tasks |-> IF stage[b] \in Deleting /\ place'[r] = aim[b]
                             THEN may[b] \cup ({r} \cap Checked) ELSE may[b]]
  /\ UNCHANGED <<tables, schemas, tasks, ready, faults>>

(* asyncio.create_task: the task runs in a copy of the context. *)
Spawn(a, b) ==
  /\ stage[a] = "resolved" /\ stage[b] = "idle"
  /\ stage' = [stage EXCEPT ![b] = "resolved"]
  /\ key' = [key EXCEPT ![b] = aim[a]]
  /\ ctx' = [ctx EXCEPT ![b] = ctx[a]]
  /\ aim' = [aim EXCEPT ![b] = aim[a]]
  /\ UNCHANGED <<tables, schemas, data, ready, may, faults>>

Enqueue(a) ==
  /\ stage[a] = "resolved"
  /\ jobs' = jobs \cup {aim[a]}
  /\ UNCHANGED <<listed, keyed, schemas, data, tasks, ready, may, faults>>

(* process_one: the handler is called with the tenant_id of the job; the    *)
(* context variable of a worker is never set.                               *)
Claim(w, t) ==
  /\ stage[w] = "idle" /\ t \in jobs
  /\ jobs' = jobs \ {t}
  /\ stage' = [stage EXCEPT ![w] = "resolved"]
  /\ key' = [key EXCEPT ![w] = t]
  /\ aim' = [aim EXCEPT ![w] = t]
  /\ ctx' = [ctx EXCEPT ![w] = "none"]
  /\ UNCHANGED <<listed, keyed, schemas, data, ready, may, faults>>

Finish(a) ==
  /\ stage[a] \in {"routed", "resolved"}
  /\ End(a)
  /\ UNCHANGED <<tables, schemas, data, ready, faults>>

-----------------------------------------------------------------------------
(* create_tenant and the import of a dump. *)

Create(a, t) ==
  /\ stage[a] = "routed" /\ Nobody(Deleting)
  /\ t \notin listed
  /\ listed' = listed \cup {t}
  /\ aim' = [aim EXCEPT ![a] = t]
  /\ Move(a, "create")
  /\ UNCHANGED <<keyed, jobs, schemas, data, ready, faults>>

(* A slip: the dump is taken in before the tenant is resolved. *)
ImportUnresolved(a) ==
  /\ stage[a] \in {"routed", "resolved"} /\ a \in Requests /\ Nobody(Deleting)
  /\ listed' = listed \cup {aim[a]}
  /\ Move(a, "import")
  /\ UNCHANGED <<keyed, jobs, schemas, data, aim, ready, faults>>

(* import_dump adds the row when it is missing and goes on in any case. *)
Import(a) ==
  /\ stage[a] = "resolved" /\ a \in Requests /\ Nobody(Deleting)
  /\ listed' = listed \cup {aim[a]}
  /\ Move(a, "import")
  /\ UNCHANGED <<keyed, jobs, schemas, data, aim, ready, faults>>

Answer(a) ==
  \/ stage[a] = "create" /\ End(a)
  \/ stage[a] = "import" /\ Move(a, "resolved") /\ UNCHANGED aim

(* A slip: a schema that could not be made is only logged. *)
ProvisionAnyway(a) ==
  /\ stage[a] \in Creating
  /\ \E made \in BOOLEAN : schemas' = IF made THEN schemas \cup {aim[a]} ELSE schemas
  /\ ready' = ready \cup {aim[a]}
  /\ Answer(a)
  /\ UNCHANGED <<tables, data, faults>>

(* CREATE SCHEMA and its tables IF NOT EXISTS, in one transaction. *)
Provision(a) ==
  /\ stage[a] \in Creating
  /\ schemas' = schemas \cup {aim[a]}
  /\ ready' = ready \cup {aim[a]}
  /\ Answer(a)
  /\ UNCHANGED <<tables, data, faults>>

(* The DDL fails: 500, and the row of the tenant stays. *)
ProvisionFails(a) ==
  /\ Strike("ddl")
  /\ stage[a] \in Creating
  /\ End(a)
  /\ UNCHANGED <<tables, schemas, data, ready>>

-----------------------------------------------------------------------------
(* delete_tenant. *)

Check(a, t, force, found) ==
  /\ stage[a] = "routed" /\ Nobody(Creating)
  /\ t \in listed
  /\ force \/ (found = {} /\ t \notin keyed)
  /\ aim' = [aim EXCEPT ![a] = t]
  /\ may' = [may EXCEPT ![a] = IF force THEN Checked ELSE {}]
  /\ stage' = [stage EXCEPT ![a] = "checked"]
  /\ UNCHANGED <<tables, schemas, data, key, ctx, ready, faults>>

(* A slip: the data is looked for on the search path of the request. *)
CheckUnscoped(a, t, force) ==
  Check(a, t, force, {r \in Checked : owner[r] = t /\ place[r] = Path(ctx[a])})

(* Inside tenant_scope: without force a row in one of five tables refuses   *)
(* (409); the rows of the other tables are not looked at.                   *)
CheckDelete(a, t, force) == Check(a, t, force, Seen(t) \cap Checked)

(* The row of the tenant is deleted and the transaction ends; what was      *)
(* written since the check goes unnoticed.  If another delete was first,    *)
(* the session only warns and the request goes on.                          *)
Unlist(a) ==
  /\ stage[a] = "checked"
  /\ listed' = listed \ {aim[a]}
  /\ ready' = ready \ {aim[a]}
  /\ Move(a, "dropping")
  /\ UNCHANGED <<keyed, jobs, schemas, data, aim, faults>>

(* DROP SCHEMA CASCADE in a transaction of its own. *)
Drop(a) ==
  /\ stage[a] = "dropping"
  /\ schemas' = schemas \ {aim[a]}
  /\ place' = [r \in Rows |-> IF place[r] = aim[a] THEN "gone" ELSE place[r]]
  /\ End(a)
  /\ UNCHANGED <<tables, owner, ready, faults>>

(* The failure is logged and the answer is 200 all the same. *)
DropFails(a) ==
  /\ Strike("ddl")
  /\ stage[a] = "dropping"
  /\ End(a)
  /\ UNCHANGED <<tables, schemas, data, ready>>

(* The process of a task dies: its transactions are over or rolled back. *)
Crash(a) ==
  /\ Strike("crash")
  /\ stage[a] # "idle"
  /\ End(a)
  /\ UNCHANGED <<tables, schemas, data, ready>>

-----------------------------------------------------------------------------
Operate(a) ==
  \/ \E t \in Tenants : Create(a, t)
  \/ Import(a) \/ Provision(a) \/ ProvisionFails(a)
  \/ \E t \in Tenants, force \in BOOLEAN : CheckDelete(a, t, force)
  \/ Unlist(a) \/ Drop(a) \/ DropFails(a)

Next ==
  \/ \E t \in Tenants : MintKey(t)
  \/ \E a \in Requests : \/ \E k \in keyed \cup {"any"} : Arrive(a, k)
                         \/ \E t \in Tenants : Resolve(a, t)
                         \/ \E b \in Requests : Spawn(a, b)
                         \/ Enqueue(a) \/ Operate(a)
  \/ \E w \in Workers, t \in Tenants : Claim(w, t)
  \/ \E a \in Tasks : \E r \in Rows : Write(a, r)
  \/ \E a \in Tasks : Finish(a) \/ Crash(a)

Spec == Init /\ [][Next]_vars
-----------------------------------------------------------------------------
(* Every variable stays within its range; a task in the middle of something *)
(* knows for whom.                                                          *)
TypeOK ==
  /\ listed \subseteq Tenants /\ schemas \subseteq Tenants
  /\ keyed \subseteq Tenants /\ jobs \subseteq Tenants
  /\ owner \in [Rows -> Tenants \cup {"none"}]
  /\ place \in [Rows -> Tenants \cup {"public", "unwritten", "gone"}]
  /\ stage \in [Tasks -> {"idle", "routed", "resolved"} \cup Creating \cup Deleting]
  /\ key \in [Tasks -> Tenants \cup {"none", "any"}]
  /\ ctx \in [Tasks -> Tenants \cup {"none"}]
  /\ aim \in [Tasks -> Tenants \cup {"none"}]
  /\ \A a \in Tasks : stage[a] \in {"resolved"} \cup Creating \cup Deleting => aim[a] \in Tenants
  /\ ready \subseteq Tenants
  /\ may \in [Tasks -> SUBSET Checked]
  /\ faults \in 0 .. MaxFaults

(* A row in the schema of a tenant is that tenant's, though one request may *)
(* act for several tenants in turn and leave tasks behind.                  *)
RowsInOwnSchema == \A r \in Rows : place[r] \in Tenants => owner[r] = place[r]

(* A tenant whose creation was answered with success has its schema until   *)
(* it is deleted, if nobody creates while another deletes: no delete that   *)
(* overlaps with another or died half-way takes the schema of the tenant    *)
(* that is created next.                                                    *)
ReadyHaveSchemas == ready \subseteq schemas

(* What a request writes for such a tenant lands in its schema and never    *)
(* falls through to public, where later requests would not find it.         *)
RequestsReachTheSchema ==
  [][\A a \in Requests, r \in Rows :
       Write(a, r) /\ aim[a] \in ready => place'[r] = aim[a]]_vars

(* The same of workers, as docs/per-tenant-schemas-design.md:101 has it:    *)
(* process_one sets the search path before it calls the handler.            *)
WorkersReachTheSchema ==
  [][\A w \in Workers, r \in Rows :
       Write(w, r) /\ aim[w] \in ready => place'[r] = aim[w]]_vars

(* A row of the checked tables is lost only with the schema that a delete   *)
(* drops, and then that delete was forced or the row was written to its     *)
(* tenant after it had looked: delete_tenant checks in one transaction and  *)
(* drops in another.  A row that was there it does not take, whoever called *)
(* it and whichever deletes and creations went before.                      *)
OnlyForceDropsData ==
  [][\A r \in Checked : place'[r] = "gone" /\ place[r] # "gone" =>
       \E a \in Tasks : stage[a] = "dropping" /\ stage'[a] = "idle" /\ r \in may[a]]_vars
=============================================================================
