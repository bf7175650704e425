------------------------------- MODULE Startup -------------------------------
(***************************************************************************)
(* How a deployment comes up and is upgraded: the lifespan of an API       *)
(* process (mypalace/main.py), which creates what tables are missing       *)
(* (init_db of mypalace/database.py), the default tenant and the first     *)
(* admin key; the Alembic revisions an operator applies; and the tenants,  *)
(* whose tables move from public to a schema each.  Several processes      *)
(* start at once, on one database.                                         *)
(***************************************************************************)
EXTENDS Integers, FiniteSets

CONSTANTS
  Servers,     \* API processes
  Tenants,     \* tenants; one of them is the default
  Default,     \* settings.default_tenant_id
  Releases,    \* images that get deployed, by their latest revision;
               \* 0 is one from before Alembic
  MaxMishaps   \* bound: faults and revoked keys in one behaviour

LastRevision == 13
SchemaMode(r) == r >= 13

ASSUME StartupAssumption ==
  /\ Default \in Tenants
  /\ Releases \subseteq 0 .. LastRevision
  /\ MaxMishaps \in Nat

-----------------------------------------------------------------------------
(* What the revisions make, by name.  "memories" stands for all tables of   *)
(* the baseline that belong to tenants.                                     *)

Baseline == {"tenants", "api_keys", "reflection_jobs", "memories"}
CompositeIndexes == {"ix_memories_tenant_user"}
WorkerLease == {"reflection_jobs.attempts", "ix_reflection_jobs_claim"}
MemoryExpiresAt == {"memories.expires_at", "ix_memories_expires_not_null"}
AuditLogs == {"audit_logs"}
MemoryVersions == {"memory_versions"}
EntityAliases == {"entity_aliases"}
PersonalityTraits == {"personality_traits"}
MessagesFts == {"ix_messages_content_tsv"}
EmotionalContexts == {"emotional_contexts"}
TopicMentions == {"topic_mentions"}

(* What a revision makes with a plain CREATE or ADD: it must not be there.  *)
Makes(n) ==
  <<Baseline, CompositeIndexes, WorkerLease, MemoryExpiresAt, AuditLogs, MemoryVersions,
    EntityAliases, PersonalityTraits, {}, {}, EmotionalContexts, TopicMentions, {}>>[n]

(* What it makes IF NOT EXISTS. *)
Ensures(n) == IF n = 9 THEN MessagesFts ELSE {}

Columns == {"reflection_jobs.attempts", "memories.expires_at"}
Indexes == CompositeIndexes \cup MessagesFts
             \cup {"ix_reflection_jobs_claim", "ix_memories_expires_not_null"}
Host(c) == IF c = "memories.expires_at" THEN "memories" ELSE "reflection_jobs"

UpTo(r) == UNION {Makes(n) : n \in 1 .. r}

(* SQLModel.metadata of a release: tables, and the columns in them.  The    *)
(* models do not declare the indexes.                                       *)
Declared(r) == IF r = 0 THEN Baseline ELSE UpTo(r) \ Indexes
Tables(r) == Declared(r) \ Columns
Shared == {"tenants", "api_keys", "reflection_jobs", "audit_logs"}
PerTenant(r) == Tables(r) \ Shared

VARIABLES
  image,    \* the release that processes start from; -1: none yet
  running,  \* the release a process runs
  stage,    \* where its lifespan stands
  plan,     \* the tables it found missing
  things,   \* what there is in public
  stamped,  \* alembic_version; 0: none
  known,    \* the rows of tenants
  schema,   \* the tables in each tenant's schema
  legacy,   \* tenants with rows in public
  admins,   \* the bootstrap key, and one minted later: absent, active, revoked
  refused,  \* auxiliary: why upgrades failed
  early,    \* auxiliary: a process met a database older than itself
  mishaps   \* faults and revocations so far

tenancy == <<known, schema, legacy>>
database == <<things, stamped>>
process == <<running, stage, plan>>
startupVars == <<image, process, database, tenancy, admins, refused, early, mishaps>>

StartupInit ==
  /\ image = -1
  /\ running = [p \in Servers |-> -1]
  /\ stage = [p \in Servers |-> "off"]
  /\ plan = [p \in Servers |-> {}]
  /\ things = {} /\ stamped = 0
  /\ known = {} /\ legacy = {}
  /\ schema = [t \in Tenants |-> {}]
  /\ admins = [boot |-> "absent", staff |-> "absent"]
  /\ refused = {}
  /\ early = FALSE
  /\ mishaps = 0

Stage(p, s) == stage' = [stage EXCEPT ![p] = s]

-----------------------------------------------------------------------------
(* The lifespan of a process. *)

(* init_db: create_all looks which tables there are... *)
FindTables(p) ==
  /\ stage[p] = "off" /\ image >= 0
  /\ running' = [running EXCEPT ![p] = image]
  /\ plan' = [plan EXCEPT ![p] = Tables(image) \ things]
  /\ Stage(p, "creating")
  /\ UNCHANGED <<image, database, tenancy, admins, refused, early, mishaps>>

(* Something is missing in a database that is in use, or it has no version  *)
(* though the release stamps one.                                           *)
MeetsOlder(p) == things # {} /\ (plan[p] # {} \/ (stamped = 0 /\ running[p] > 0))

(* A slip: every start stamps the database. *)
CreateAndRestamp(p) ==
  /\ stage[p] = "creating"
  /\ plan[p] \cap things = {}
  /\ things' = things \cup plan[p]
                 \cup {c \in Declared(running[p]) \cap Columns : Host(c) \in plan[p]}
  /\ stamped' = running[p]
  /\ early' = (early \/ MeetsOlder(p))
  /\ Stage(p, "tenant")
  /\ UNCHANGED <<image, running, plan, tenancy, admins, refused, mishaps>>

(* ... and creates the others, without IF NOT EXISTS: a process that was    *)
(* overtaken fails.  Columns come with a new table, not to an old one.  A   *)
(* database with no version is stamped with this release's.                 *)
CreateTables(p) ==
  /\ stage[p] = "creating"
  /\ IF plan[p] \cap things # {}
     THEN Stage(p, "down") /\ UNCHANGED <<database, early>>
     ELSE /\ things' = things \cup plan[p]
                         \cup {c \in Declared(running[p]) \cap Columns : Host(c) \in plan[p]}
          /\ stamped' = IF stamped = 0 THEN running[p] ELSE stamped
          /\ early' = (early \/ MeetsOlder(p))
          /\ Stage(p, "tenant")
  /\ UNCHANGED <<image, running, plan, tenancy, admins, refused, mishaps>>

(* replicate_per_tenant_schema: CREATE ... IF NOT EXISTS throughout. *)
Replicated(t, r) == [schema EXCEPT ![t] = @ \cup PerTenant(r)]

(* _ensure_default_tenant. *)
EnsureTenant(p) ==
  /\ stage[p] = "tenant"
  /\ known' = known \cup {Default}
  /\ schema' = IF SchemaMode(running[p]) THEN Replicated(Default, running[p]) ELSE schema
  /\ Stage(p, "keys")
  /\ UNCHANGED <<image, running, plan, database, legacy, admins, refused, early, mishaps>>

(* memory_service.init, episode_service.init: the collections in Qdrant;    *)
(* bootstrap_if_needed reads the keys.                                      *)
FindKeys(p) ==
  /\ stage[p] = "keys"
  /\ Stage(p, IF admins.boot = "active" \/ admins.staff = "active" THEN "up" ELSE "minting")
  /\ UNCHANGED <<image, running, plan, database, tenancy, admins, refused, early, mishaps>>

(* The key's prefix is unique: where its row is there already, minted       *)
(* meanwhile or revoked long ago, the process fails.                        *)
MintBootKey(p) ==
  /\ stage[p] = "minting"
  /\ IF admins.boot = "absent"
     THEN admins' = [admins EXCEPT !.boot = "active"] /\ Stage(p, "up")
     ELSE Stage(p, "down") /\ UNCHANGED admins
  /\ UNCHANGED <<image, running, plan, database, tenancy, refused, early, mishaps>>

(* A store does not answer: the process does not come up. *)
StartFails(p) ==
  /\ mishaps < MaxMishaps
  /\ mishaps' = mishaps + 1
  /\ stage[p] \in {"creating", "tenant", "keys", "minting"}
  /\ Stage(p, "down")
  /\ UNCHANGED <<image, running, plan, database, tenancy, admins, refused, early>>

(* It is started again, or stopped for a new release. *)
Restart(p) ==
  /\ stage[p] = "down" \/ (stage[p] = "up" /\ running[p] # image)
  /\ Stage(p, "off")
  /\ UNCHANGED <<image, running, plan, database, tenancy, admins, refused, early, mishaps>>

-----------------------------------------------------------------------------
(* The operator. *)

Deploy(r) ==
  /\ r > image
  /\ image' = r
  /\ UNCHANGED <<process, database, tenancy, admins, refused, early, mishaps>>

(* alembic stamp 0001_baseline, as README.md:188 has it. *)
StampBaseline ==
  /\ stamped = 0 /\ Baseline \subseteq things
  /\ stamped' = 1
  /\ UNCHANGED <<image, process, things, tenancy, admins, refused, early, mishaps>>

(* The steps to take, in a transaction of all of them. *)
Pending == stamped + 1 .. image

Existing == \E n \in Pending : Makes(n) \cap things # {}

(* _shadow_copy_tenant leaves tenant_id out, which is NOT NULL in the table *)
(* it copies into: with rows to copy, the INSERT fails.                     *)
CopyFails == 10 \in Pending /\ legacy \cap known # {}

(* alembic upgrade head; revision 10 also makes the tenants' schemas, with  *)
(* the tables that the image declares.                                      *)
Upgrade ==
  /\ Pending # {} /\ ~Existing /\ ~CopyFails
  /\ things' = things \cup UNION {Makes(n) \cup Ensures(n) : n \in Pending}
  /\ stamped' = image
  /\ schema' = [t \in Tenants |-> IF 10 \in Pending /\ t \in known
                                  THEN schema[t] \cup PerTenant(image) ELSE schema[t]]
  /\ UNCHANGED <<image, process, known, legacy, admins, refused, early, mishaps>>

(* Without the stamp that README.md:188 asks for, revision 1 already fails   *)
(* on the tables of a database from before Alembic.                         *)
UpgradeFails ==
  /\ Existing \/ CopyFails
  /\ refused' = refused \cup {CASE stamped = 0 -> "unstamped"
                                [] stamped > 0 /\ Existing -> "exists"
                                [] OTHER -> "copy"}
  /\ UNCHANGED <<image, process, database, tenancy, admins, early, mishaps>>

-----------------------------------------------------------------------------
(* What running processes do to all this. *)

AddTenant(p, t) ==
  /\ stage[p] = "up" /\ t \notin known
  /\ known' = known \cup {t}
  /\ schema' = IF SchemaMode(running[p]) THEN Replicated(t, running[p]) ELSE schema
  /\ UNCHANGED <<image, process, database, legacy, admins, refused, early, mishaps>>

(* Rows go to the tenant's schema as far as that has the table: a tenant    *)
(* from before a table was added has its rows of it in public.              *)
WriteRows(p, t) ==
  /\ stage[p] = "up" /\ t \in known
  /\ ~SchemaMode(running[p]) \/ PerTenant(running[p]) \ schema[t] # {}
  /\ legacy' = legacy \cup {t}
  /\ UNCHANGED <<image, process, database, known, schema, admins, refused, early, mishaps>>

MintStaffKey ==
  /\ \E p \in Servers : stage[p] = "up"
  /\ admins.staff = "absent"
  /\ admins' = [admins EXCEPT !.staff = "active"]
  /\ UNCHANGED <<image, process, database, tenancy, refused, early, mishaps>>

RevokeKey(k) ==
  /\ mishaps < MaxMishaps
  /\ mishaps' = mishaps + 1
  /\ \E p \in Servers : stage[p] = "up"
  /\ admins[k] = "active"
  /\ admins' = [admins EXCEPT ![k] = "revoked"]
  /\ UNCHANGED <<image, process, database, tenancy, refused, early>>

StartStep(p) ==
  \/ FindTables(p) \/ CreateTables(p) \/ EnsureTenant(p) \/ FindKeys(p)
  \/ MintBootKey(p) \/ Restart(p)

StartupNext ==
  \/ \E p \in Servers :
       \/ StartStep(p) \/ StartFails(p)
       \/ \E t \in Tenants : AddTenant(p, t) \/ WriteRows(p, t)
  \/ \E r \in Releases : Deploy(r)
  \/ StampBaseline \/ Upgrade \/ UpgradeFails
  \/ MintStaffKey \/ (\E k \in {"boot", "staff"} : RevokeKey(k))

StartupSpec == StartupInit /\ [][StartupNext]_startupVars

-----------------------------------------------------------------------------
(* Every variable stays within its range. *)
Things == Declared(LastRevision) \cup Indexes

StartupTypeOK ==
  /\ image \in Releases \cup {-1}
  /\ running \in [Servers -> Releases \cup {-1}]
  /\ stage \in [Servers -> {"off", "creating", "tenant", "keys", "minting", "up", "down"}]
  /\ plan \in [Servers -> SUBSET Things]
  /\ things \subseteq Things
  /\ stamped \in 0 .. LastRevision
  /\ known \subseteq Tenants /\ legacy \subseteq Tenants
  /\ schema \in [Tenants -> SUBSET Things]
  /\ admins \in [boot : {"absent", "active", "revoked"}, staff : {"absent", "active", "revoked"}]
  /\ refused \subseteq {"unstamped", "exists", "copy"}
  /\ early \in BOOLEAN
  /\ mishaps \in 0 .. MaxMishaps

(* As long as no process starts on a database older than itself, whatever   *)
(* starts beside what, a version in alembic_version is true: the tables and *)
(* columns of all revisions up to it are there, and no upgrade finds what   *)
(* it is to make.  What only migrations make, the indexes, is exempt: a     *)
(* fresh database is stamped without them.                                  *)
OrderlyUpgradesWork ==
  ~early =>
    /\ "exists" \notin refused
    /\ UpTo(stamped) \ Indexes \subseteq things
=============================================================================
