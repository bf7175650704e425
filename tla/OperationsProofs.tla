--------------------------- MODULE OperationsProofs ---------------------------
(***************************************************************************)
(* Proofs about the parts that start, keep and summarise, one after the    *)
(* other, and about their composition.                                     *)
(* Startup: while no process met a database older than itself, what is     *)
(* there is what the revisions up to the stamped one make, and no more     *)
(* (VersionTells).  Reembed: the pages read so far hold every memory that  *)
(* comes before their end (Progress).  Backups: a file is sound because,   *)
(* table by table, what the export has read so far covers the rows that    *)
(* were there all along (Covers), and a tenant keeps one because pruning   *)
(* looks at the day in which the last was published (Dated).  Exchanges: a *)
(* job quotes messages of one session, since a message's session is there  *)
(* while it is (Housed).  Narratives: an attempt has written what bears    *)
(* its moment (Attempts), and an arc that a synthesis does not know of,    *)
(* though it is about to write about its story, is of a doubtful story     *)
(* (Overlaps).                                                             *)
(***************************************************************************)
EXTENDS MCOperations, SequenceTheorems, FiniteSetTheorems, WellFoundedInduction, TLAPS

-----------------------------------------------------------------------------
(* Startup                                                                 *)

(* A revision makes what it is listed with, and no other does. *)
LEMMA WhoMakes ==
  ASSUME NEW n \in 1 .. LastRevision, NEW x
  PROVE  x \in Makes(n) <=>
           \/ n = 1 /\ x \in {"tenants", "api_keys", "reflection_jobs", "memories"}
           \/ n = 2 /\ x = "ix_memories_tenant_user"
           \/ n = 3 /\ x \in {"reflection_jobs.attempts", "ix_reflection_jobs_claim"}
           \/ n = 4 /\ x \in {"memories.expires_at", "ix_memories_expires_not_null"}
           \/ n = 5 /\ x = "audit_logs"
           \/ n = 6 /\ x = "memory_versions"
           \/ n = 7 /\ x = "entity_aliases"
           \/ n = 8 /\ x = "personality_traits"
           \/ n = 11 /\ x = "emotional_contexts"
           \/ n = 12 /\ x = "topic_mentions"
<1>1. n \in 1 .. 13
  BY DEF LastRevision
<1>2. \/ n = 1 \/ n = 2 \/ n = 3 \/ n = 4 \/ n = 5 \/ n = 6 \/ n = 7
      \/ n = 8 \/ n = 9 \/ n = 10 \/ n = 11 \/ n = 12 \/ n = 13
  BY <1>1
<1> QED
  BY <1>2 DEF Makes, Baseline, CompositeIndexes, WorkerLease, MemoryExpiresAt, AuditLogs,
              MemoryVersions, EntityAliases, PersonalityTraits, EmotionalContexts, TopicMentions

LEMMA OneMaker ==
  ASSUME NEW m \in 1 .. LastRevision, NEW n \in 1 .. LastRevision, m # n
  PROVE  Makes(m) \cap Makes(n) = {}
<1> SUFFICES ASSUME NEW x \in Makes(m), x \in Makes(n)
             PROVE  FALSE
  OBVIOUS
<1> QED
  BY WhoMakes

LEMMA NobodyMakesTheSearch ==
  ASSUME NEW n \in 1 .. LastRevision
  PROVE  Makes(n) \cap MessagesFts = {}
BY WhoMakes DEF MessagesFts

LEMMA RevisionsMakeThings ==
  ASSUME NEW r \in 0 .. LastRevision
  PROVE  /\ Makes(1) = Baseline
         /\ UpTo(r) \subseteq UpTo(LastRevision)
         /\ UpTo(LastRevision) \subseteq Things /\ Baseline \subseteq Things
         /\ MessagesFts \subseteq Things
         /\ Tables(r) \subseteq Things /\ Declared(r) \subseteq Things
         /\ r # 0 => Baseline \subseteq Tables(r)
         /\ Baseline \subseteq Declared(r)
<1>1. LastRevision = 13
  BY DEF LastRevision
<1>2. Makes(1) = Baseline
  BY DEF Makes
<1>3. UpTo(r) \subseteq UpTo(LastRevision)
  BY <1>1 DEF UpTo
<1>4. UpTo(LastRevision) \subseteq Things
  BY <1>1 DEF Things, Declared
<1>5. r # 0 => Baseline \subseteq UpTo(r)
  BY <1>1, <1>2 DEF UpTo
<1>6. Baseline \subseteq UpTo(LastRevision)
  BY <1>1, <1>2 DEF UpTo
<1>7. MessagesFts \subseteq Things
  BY DEF Things, Indexes
<1>8. Baseline \cap Indexes = {} /\ Baseline \cap Columns = {}
  BY DEF Baseline, Indexes, CompositeIndexes, MessagesFts, Columns
<1>9. Declared(r) \subseteq Things
  BY <1>3, <1>4, <1>6 DEF Declared
<1> QED
  BY <1>2, <1>3, <1>4, <1>5, <1>6, <1>7, <1>8, <1>9 DEF Tables, Declared

(* What a process creates: its plan, and the columns of new tables. *)
Created(p) == plan[p] \cup {c \in Declared(running[p]) \cap Columns : Host(c) \in plan[p]}

(* A process that creates what it found missing knows its release; what it  *)
(* does not create of its release's tables is there.                        *)
PlansCover ==
  \A p \in Servers : stage[p] = "creating" =>
    /\ running[p] \in Releases
    /\ plan[p] \subseteq Tables(running[p])
    /\ Tables(running[p]) \subseteq plan[p] \cup things

(* A version that is there is true, and nothing of a later one is there.    *)
VersionTells ==
  ~early =>
    /\ "exists" \notin refused
    /\ UpTo(stamped) \ Indexes \subseteq things
    /\ things \subseteq UpTo(stamped) \cup Baseline \cup MessagesFts

StartupInv == StartupTypeOK /\ PlansCover /\ VersionTells

LEMMA StartupBegins == StartupInit => StartupInv
<1> SUFFICES ASSUME StartupInit
             PROVE  StartupInv
  OBVIOUS
<1>1. StartupTypeOK
  <2>1. schema \in [Tenants -> SUBSET Things] /\ plan \in [Servers -> SUBSET Things]
    BY DEF StartupInit
  <2>2. running \in [Servers -> Releases \cup {-1}] /\ image \in Releases \cup {-1}
    BY DEF StartupInit
  <2>3. stamped \in 0 .. LastRevision /\ mishaps \in 0 .. MaxMishaps
    BY StartupAssumption DEF StartupInit, LastRevision
  <2>4. things \subseteq Things /\ known \subseteq Tenants /\ legacy \subseteq Tenants
    BY DEF StartupInit
  <2> QED
    BY <2>1, <2>2, <2>3, <2>4 DEF StartupInit, StartupTypeOK
<1>2. PlansCover
  BY DEF StartupInit, PlansCover
<1>3. VersionTells
  BY DEF StartupInit, VersionTells, UpTo
<1> QED
  BY <1>1, <1>2, <1>3 DEF StartupInv

LEMMA ReleasesAreRevisions == \A r \in Releases : r \in 0 .. LastRevision /\ r \in Int
BY StartupAssumption DEF LastRevision

(* What the steps of a process do that are not about tables. *)
Elsewhere == UNCHANGED <<things, stamped, early, refused>>

LEMMA ElsewhereKeeps ==
  ASSUME StartupInv, Elsewhere,
         \A p \in Servers : stage'[p] = "creating" =>
           stage[p] = "creating" /\ running'[p] = running[p] /\ plan'[p] = plan[p]
  PROVE  PlansCover' /\ VersionTells'
<1>1. PlansCover'
  BY DEF StartupInv, PlansCover, Elsewhere
<1>2. VersionTells'
  BY DEF StartupInv, VersionTells, Elsewhere
<1> QED
  BY <1>1, <1>2

LEMMA FindingKeeps ==
  ASSUME StartupInv, NEW p \in Servers, FindTables(p)
  PROVE  StartupInv'
<1> USE DEF StartupInv
<1>1. image \in Releases /\ image \in 0 .. LastRevision
  BY StartupAssumption DEF FindTables, StartupTypeOK
<1>2. Tables(image) \subseteq Things
  BY <1>1, RevisionsMakeThings
<1>3. StartupTypeOK'
  BY <1>1, <1>2 DEF FindTables, Stage, StartupTypeOK, database, tenancy
<1>4. PlansCover'
  BY <1>1 DEF FindTables, Stage, StartupTypeOK, PlansCover, database
<1>5. VersionTells'
  BY DEF FindTables, VersionTells, database
<1> QED
  BY <1>3, <1>4, <1>5

LEMMA CreatedAreThings ==
  ASSUME StartupInv, NEW p \in Servers, stage[p] = "creating"
  PROVE  /\ running[p] \in 0 .. LastRevision /\ running[p] \in Releases
         /\ Created(p) \subseteq Declared(running[p])
         /\ Created(p) \subseteq Things
         /\ plan[p] = Tables(running[p]) => Created(p) = Declared(running[p])
<1>1. running[p] \in Releases /\ running[p] \in 0 .. LastRevision
  BY ReleasesAreRevisions DEF StartupInv, PlansCover
<1>2. plan[p] \subseteq Tables(running[p])
  BY DEF StartupInv, PlansCover
<1>3. Created(p) \subseteq Declared(running[p])
  BY <1>2 DEF Created, Tables
<1>4. Declared(running[p]) \subseteq Things /\ Baseline \subseteq Declared(running[p])
  BY <1>1, RevisionsMakeThings
<1>5. ASSUME plan[p] = Tables(running[p])
      PROVE  Declared(running[p]) \subseteq Created(p)
  <2>1. \A c \in Columns : Host(c) \in Baseline /\ Host(c) \notin Columns
    BY DEF Columns, Host, Baseline
  <2>2. \A c \in Columns : Host(c) \in plan[p]
    BY <1>4, <1>5, <2>1 DEF Tables
  <2> QED
    BY <1>5, <2>2 DEF Created, Tables
<1> QED
  BY <1>1, <1>3, <1>4, <1>5

LEMMA CreatingKeeps ==
  ASSUME StartupInv, NEW p \in Servers, CreateTables(p)
  PROVE  StartupInv'
<1> USE DEF StartupInv
<1>1. running[p] \in 0 .. LastRevision /\ Created(p) \subseteq Declared(running[p])
      /\ Created(p) \subseteq Things
      /\ (plan[p] = Tables(running[p]) => Created(p) = Declared(running[p]))
  BY CreatedAreThings DEF CreateTables
<1>2. CASE plan[p] \cap things # {}
  <2>1. Elsewhere /\ stage' = [stage EXCEPT ![p] = "down"]
        /\ UNCHANGED <<image, running, plan, tenancy, admins, mishaps>>
    BY <1>2 DEF CreateTables, Elsewhere, Stage, database
  <2>2. StartupTypeOK'
    BY <2>1 DEF StartupTypeOK, Elsewhere, tenancy
  <2>3. \A q \in Servers : stage'[q] = "creating" =>
          stage[q] = "creating" /\ running'[q] = running[q] /\ plan'[q] = plan[q]
    BY <2>1 DEF StartupTypeOK
  <2> QED
    BY <2>1, <2>2, <2>3, ElsewhereKeeps
<1>3. CASE plan[p] \cap things = {}
  <2>1. /\ things' = things \cup Created(p)
        /\ stamped' = (IF stamped = 0 THEN running[p] ELSE stamped)
        /\ early' = (early \/ MeetsOlder(p))
        /\ stage' = [stage EXCEPT ![p] = "tenant"]
        /\ UNCHANGED <<image, running, plan, tenancy, admins, refused, mishaps>>
    BY <1>3 DEF CreateTables, Created, Stage
  <2>2. early' \in BOOLEAN
    BY <2>1 DEF StartupTypeOK, MeetsOlder
  <2>3. StartupTypeOK'
    BY <1>1, <2>1, <2>2 DEF StartupTypeOK, tenancy
  <2>4. PlansCover'
    BY <2>1 DEF PlansCover, StartupTypeOK
  <2>5. VersionTells'
    <3> SUFFICES ASSUME ~early'
                 PROVE  VersionTells'
      BY DEF VersionTells
    <3>1. ~early /\ ~MeetsOlder(p)
      BY <2>1
    <3>2. "exists" \notin refused'
      BY <2>1, <3>1 DEF VersionTells
    <3>3. CASE things = {}
      <4>1. stamped = 0
        <5>1. SUFFICES ASSUME stamped # 0
                       PROVE  FALSE
          OBVIOUS
        <5>2. "tenants" \in Makes(1) /\ 1 \in 1 .. stamped /\ "tenants" \notin Indexes
          BY <5>1 DEF Makes, Baseline, StartupTypeOK, Indexes, CompositeIndexes, MessagesFts,
                      LastRevision
        <5> QED
          BY <3>1, <3>3, <5>2 DEF VersionTells, UpTo
      <4>2. plan[p] = Tables(running[p])
        BY <3>3 DEF PlansCover, CreateTables
      <4>3. things' = Declared(running[p]) /\ stamped' = running[p]
        BY <1>1, <2>1, <3>3, <4>1, <4>2
      <4>4. UpTo(stamped') \ Indexes \subseteq things'
        BY <4>3 DEF Declared, UpTo
      <4>5. things' \subseteq UpTo(stamped') \cup Baseline
        BY <4>3 DEF Declared
      <4> QED
        BY <3>2, <4>4, <4>5 DEF VersionTells
    <3>4. CASE things # {}
      <4>1. plan[p] = {} /\ (stamped # 0 \/ running[p] = 0)
        BY <1>1, <3>1, <3>4 DEF MeetsOlder, LastRevision
      <4>2. Created(p) = {}
        BY <4>1 DEF Created
      <4>3. things' = things /\ stamped' = stamped
        BY <2>1, <4>1, <4>2
      <4> QED
        BY <3>1, <3>2, <4>3 DEF VersionTells
    <3> QED
      BY <3>3, <3>4
  <2> QED
    BY <2>3, <2>4, <2>5
<1> QED
  BY <1>2, <1>3

(* The steps of processes that do not touch tables or the version. *)
LEMMA LifespanKeeps ==
  ASSUME StartupInv, NEW p \in Servers,
         \/ EnsureTenant(p) \/ FindKeys(p) \/ MintBootKey(p) \/ Restart(p) \/ StartFails(p)
         \/ \E t \in Tenants : AddTenant(p, t) \/ WriteRows(p, t)
  PROVE  StartupInv'
<1> USE DEF StartupInv
<1>1. running[p] \in Releases => PerTenant(running[p]) \subseteq Things
  BY ReleasesAreRevisions, RevisionsMakeThings DEF PerTenant
<1>2. stage[p] \in {"tenant", "up"} /\ SchemaMode(running[p]) => running[p] \in Releases
  BY DEF StartupTypeOK, SchemaMode
<1>3. CASE EnsureTenant(p)
  <2>1. \A t \in Tenants : SchemaMode(running[p]) =>
          Replicated(t, running[p]) \in [Tenants -> SUBSET Things]
    BY <1>1, <1>2, <1>3 DEF EnsureTenant, Replicated, StartupTypeOK
  <2>2. StartupTypeOK'
    BY <1>3, <2>1, StartupAssumption DEF EnsureTenant, Stage, StartupTypeOK, database
  <2> QED
    BY <1>3, <2>2, ElsewhereKeeps DEF EnsureTenant, Stage, StartupTypeOK, database, Elsewhere
<1>4. CASE FindKeys(p)
  <2>1. StartupTypeOK'
    BY <1>4 DEF FindKeys, Stage, StartupTypeOK, database, tenancy
  <2> QED
    BY <1>4, <2>1, ElsewhereKeeps DEF FindKeys, Stage, StartupTypeOK, database, Elsewhere
<1>5. CASE MintBootKey(p)
  <2>1. StartupTypeOK'
    BY <1>5 DEF MintBootKey, Stage, StartupTypeOK, database, tenancy
  <2> QED
    BY <1>5, <2>1, ElsewhereKeeps DEF MintBootKey, Stage, StartupTypeOK, database, Elsewhere
<1>6. CASE Restart(p)
  <2>1. StartupTypeOK'
    BY <1>6 DEF Restart, Stage, StartupTypeOK, database, tenancy
  <2> QED
    BY <1>6, <2>1, ElsewhereKeeps DEF Restart, Stage, StartupTypeOK, database, Elsewhere
<1>7. CASE StartFails(p)
  <2>1. StartupTypeOK'
    BY <1>7, StartupAssumption DEF StartFails, Stage, StartupTypeOK, database, tenancy
  <2> QED
    BY <1>7, <2>1, ElsewhereKeeps DEF StartFails, Stage, StartupTypeOK, database, Elsewhere
<1>8. CASE \E t \in Tenants : AddTenant(p, t)
  <2>1. PICK t \in Tenants : AddTenant(p, t)
    BY <1>8
  <2>2. SchemaMode(running[p]) => Replicated(t, running[p]) \in [Tenants -> SUBSET Things]
    BY <1>1, <1>2, <2>1 DEF AddTenant, Replicated, StartupTypeOK
  <2>3. StartupTypeOK'
    BY <2>1, <2>2 DEF AddTenant, StartupTypeOK, process, database
  <2> QED
    BY <2>1, <2>3, ElsewhereKeeps DEF AddTenant, process, database, Elsewhere
<1>9. CASE \E t \in Tenants : WriteRows(p, t)
  <2>1. PICK t \in Tenants : WriteRows(p, t)
    BY <1>9
  <2>2. StartupTypeOK'
    BY <2>1 DEF WriteRows, StartupTypeOK, process, database
  <2> QED
    BY <2>1, <2>2, ElsewhereKeeps DEF WriteRows, process, database, Elsewhere
<1> QED
  BY <1>3, <1>4, <1>5, <1>6, <1>7, <1>8, <1>9

(* Deployments and keys. *)
LEMMA OthersKeep ==
  ASSUME StartupInv,
         \/ \E r \in Releases : Deploy(r)
         \/ MintStaffKey
         \/ \E k \in {"boot", "staff"} : RevokeKey(k)
  PROVE  StartupInv'
<1> USE DEF StartupInv
<1>1. CASE \E r \in Releases : Deploy(r)
  <2>1. StartupTypeOK'
    BY <1>1 DEF Deploy, StartupTypeOK, process, database, tenancy
  <2> QED
    BY <1>1, <2>1, ElsewhereKeeps DEF Deploy, process, database, Elsewhere
<1>2. CASE MintStaffKey
  <2>1. StartupTypeOK'
    BY <1>2 DEF MintStaffKey, StartupTypeOK, process, database, tenancy
  <2> QED
    BY <1>2, <2>1, ElsewhereKeeps DEF MintStaffKey, process, database, Elsewhere
<1>3. CASE \E k \in {"boot", "staff"} : RevokeKey(k)
  <2>1. StartupTypeOK'
    BY <1>3, StartupAssumption DEF RevokeKey, StartupTypeOK, process, database, tenancy
  <2> QED
    BY <1>3, <2>1, ElsewhereKeeps DEF RevokeKey, process, database, Elsewhere
<1> QED
  BY <1>1, <1>2, <1>3

LEMMA StampingKeeps ==
  ASSUME StartupInv, StampBaseline
  PROVE  StartupInv'
<1> USE DEF StartupInv
<1>1. UpTo(1) = Baseline
  BY DEF UpTo, Makes
<1>2. stamped' = 1 /\ UNCHANGED <<things, early, refused>> /\ stamped = 0
      /\ Baseline \subseteq things
  BY DEF StampBaseline
<1>3. UpTo(0) = {}
  BY DEF UpTo
<1>4. StartupTypeOK'
  BY DEF StampBaseline, StartupTypeOK, process, tenancy, LastRevision
<1>5. PlansCover'
  BY DEF StampBaseline, PlansCover, process
<1>6. VersionTells'
  BY <1>1, <1>2, <1>3 DEF VersionTells
<1> QED
  BY <1>4, <1>5, <1>6

LEMMA UpgradingKeeps ==
  ASSUME StartupInv, Upgrade
  PROVE  StartupInv'
<1> USE DEF StartupInv
<1> DEFINE made == UNION {Makes(n) \cup Ensures(n) : n \in Pending}
<1>1. PICK n \in Pending : TRUE
  BY DEF Upgrade
<1>2. image \in Releases /\ image \in 0 .. LastRevision /\ image > stamped
  BY <1>1, StartupAssumption DEF Pending, StartupTypeOK, LastRevision
<1>3. Pending \subseteq 1 .. LastRevision
  BY <1>2 DEF Pending, StartupTypeOK, LastRevision
<1>4. 1 .. image = (1 .. stamped) \cup Pending
  BY <1>2 DEF Pending, StartupTypeOK, LastRevision
<1>5. UpTo(image) = UpTo(stamped) \cup UNION {Makes(m) : m \in Pending}
  BY <1>4 DEF UpTo
<1>6. \A m \in Pending : Ensures(m) \subseteq MessagesFts
  BY DEF Ensures
<1>7. UNION {Makes(m) : m \in Pending} \subseteq made
      /\ made \subseteq (UNION {Makes(m) : m \in Pending}) \cup MessagesFts
  BY <1>6
<1>8. UpTo(image) \subseteq Things /\ MessagesFts \subseteq Things
      /\ PerTenant(image) \subseteq Things
  BY <1>2, RevisionsMakeThings DEF PerTenant
<1>9. things' = things \cup made /\ stamped' = image
      /\ UNCHANGED <<image, process, known, legacy, admins, refused, early, mishaps>>
  BY DEF Upgrade
<1>10. schema' \in [Tenants -> SUBSET Things]
  BY <1>8 DEF Upgrade, StartupTypeOK
<1> HIDE DEF made
<1>11. StartupTypeOK'
  BY <1>2, <1>5, <1>7, <1>8, <1>9, <1>10 DEF StartupTypeOK, process
<1>12. PlansCover'
  BY <1>9 DEF PlansCover, process
<1>13. VersionTells'
  BY <1>5, <1>7, <1>9 DEF VersionTells
<1> QED
  BY <1>11, <1>12, <1>13

LEMMA RefusingKeeps ==
  ASSUME StartupInv, UpgradeFails
  PROVE  StartupInv'
<1> USE DEF StartupInv
<1>1. UNCHANGED <<image, process, database, tenancy, admins, early, mishaps>>
  BY DEF UpgradeFails
<1>2. PICK why : why \in {"unstamped", "exists", "copy"} /\ refused' = refused \cup {why}
                 /\ (why = "exists" => stamped > 0 /\ Existing)
  <2>1. CASE stamped = 0
    <3>1. refused' = refused \cup {"unstamped"}
      BY <2>1 DEF UpgradeFails, StartupTypeOK
    <3> QED
      BY <3>1
  <2>2. CASE stamped # 0 /\ Existing
    <3>1. stamped > 0
      BY <2>2 DEF StartupTypeOK, LastRevision
    <3>2. refused' = refused \cup {"exists"}
      BY <2>2, <3>1, Zenon DEF UpgradeFails
    <3> QED
      BY <2>2, <3>1, <3>2
  <2>3. CASE stamped # 0 /\ ~Existing
    <3>1. refused' = refused \cup {"copy"}
      BY <2>3, Zenon DEF UpgradeFails
    <3> QED
      BY <3>1
  <2> QED
    BY <2>1, <2>2, <2>3
<1>3. StartupTypeOK'
  BY <1>1, <1>2 DEF StartupTypeOK, process, database, tenancy
<1>4. PlansCover'
  BY <1>1 DEF PlansCover, process, database
<1>5. VersionTells'
  <2> SUFFICES ASSUME ~early', why = "exists"
               PROVE  FALSE
    BY <1>1, <1>2 DEF VersionTells, database
  <2>1. stamped > 0 /\ Existing /\ ~early
    BY <1>1, <1>2
  <2>2. PICK n \in Pending : Makes(n) \cap things # {}
    BY <2>1 DEF Existing
  <2>3. PICK x \in Makes(n) : x \in things
    BY <2>2
  <2>4. n \in 2 .. LastRevision /\ n > stamped /\ stamped \in 1 .. LastRevision
    BY <2>1, <2>2, StartupAssumption DEF Pending, StartupTypeOK, LastRevision
  <2>5. CASE x \in UpTo(stamped)
    <3>1. PICK m \in 1 .. stamped : x \in Makes(m)
      BY <2>5 DEF UpTo
    <3> QED
      BY <2>3, <2>4, <3>1, OneMaker DEF LastRevision
  <2>6. CASE x \in Baseline
    <3>1. x \in Makes(1) /\ 1 \in 1 .. LastRevision
      BY <2>6 DEF Makes, LastRevision
    <3>2. n \in 1 .. LastRevision /\ n # 1
      BY <2>4 DEF LastRevision
    <3> QED
      BY <2>3, <3>1, <3>2, OneMaker
  <2>7. CASE x \in MessagesFts
    <3>1. n \in 1 .. LastRevision
      BY <2>4 DEF LastRevision
    <3> QED
      BY <2>3, <2>7, <3>1, NobodyMakesTheSearch
  <2> QED
    BY <2>1, <2>3, <2>5, <2>6, <2>7 DEF VersionTells
<1> QED
  BY <1>3, <1>4, <1>5

LEMMA StartupStaysPut ==
  ASSUME StartupInv, UNCHANGED startupVars
  PROVE  StartupInv'
BY DEF StartupInv, StartupTypeOK, PlansCover, VersionTells, startupVars, process, database,
       tenancy

LEMMA StartupKeeps ==
  ASSUME StartupInv, [StartupNext]_startupVars
  PROVE  StartupInv'
<1>1. CASE \E p \in Servers : FindTables(p)
  BY <1>1, FindingKeeps
<1>2. CASE \E p \in Servers : CreateTables(p)
  BY <1>2, CreatingKeeps
<1>3. CASE \E p \in Servers :
             \/ EnsureTenant(p) \/ FindKeys(p) \/ MintBootKey(p) \/ Restart(p)
             \/ StartFails(p)
             \/ \E t \in Tenants : AddTenant(p, t) \/ WriteRows(p, t)
  BY <1>3, LifespanKeeps
<1>4. CASE (\E r \in Releases : Deploy(r)) \/ MintStaffKey
             \/ (\E k \in {"boot", "staff"} : RevokeKey(k))
  BY <1>4, OthersKeep
<1>5. CASE StampBaseline
  BY <1>5, StampingKeeps
<1>6. CASE Upgrade
  BY <1>6, UpgradingKeeps
<1>7. CASE UpgradeFails
  BY <1>7, RefusingKeeps
<1>8. CASE UNCHANGED startupVars
  BY <1>8, StartupStaysPut
<1> QED
  BY <1>1, <1>2, <1>3, <1>4, <1>5, <1>6, <1>7, <1>8, Zenon DEF StartupNext, StartStep

(* Every variable stays within its range, whatever the deployment does:     *)
(* versions are revisions, and only tables, columns and indexes that some   *)
(* revision makes get created.                                              *)
THEOREM StartupTypeAlways == StartupSpec => []StartupTypeOK
<1>1. StartupInv => StartupTypeOK
  BY DEF StartupInv
<1> QED
  BY <1>1, StartupBegins, StartupKeeps, PTL DEF StartupSpec

(* For any processes, tenants and releases: as long as none starts on a     *)
(* database older than itself, a version in alembic_version is true and     *)
(* alembic upgrade head (a revision's op.create_table) never finds what it  *)
(* is to make.                                                              *)
THEOREM OrderlyUpgradesWorkAlways == StartupSpec => []OrderlyUpgradesWork
<1>1. StartupInv => OrderlyUpgradesWork
  BY DEF StartupInv, VersionTells, OrderlyUpgradesWork
<1> QED
  BY <1>1, StartupBegins, StartupKeeps, PTL DEF StartupSpec

-----------------------------------------------------------------------------
(* Reembed                                                                 *)

(* A set of numbers has a least one. *)
LEMMA Least ==
  ASSUME NEW S, S \subseteq Nat, S # {}
  PROVE  \E n \in S : \A m \in S : n <= m
<1> DEFINE R == {p \in Nat \X Nat : p[1] < p[2]}
<1>1. IsWellFoundedOn(R, Nat)
  BY NatLessThanWellFounded DEF OpToRel
<1>2. \E x \in S : \A y \in S : ~(<<y, x>> \in R)
  <2> HIDE DEF R
  <2> QED
    BY <1>1, WFMin
<1>3. ASSUME NEW x \in S, NEW y \in S, ~(<<y, x>> \in R) PROVE x <= y
  <2>1. <<y, x>> \in Nat \X Nat /\ <<y, x>>[1] = y /\ <<y, x>>[2] = x
    OBVIOUS
  <2>2. ~(y < x)
    BY <1>3, <2>1
  <2> QED
    BY <2>2
<1> HIDE DEF R
<1> QED
  BY <1>2, <1>3

-----------------------------------------------------------------------------
(* How many memories come before m, in the order of the pages. *)
Prior(m) == {n \in Present : n < m}
Rank(m) == Cardinality(Prior(m))

LEMMA RankNat == \A m : IsFiniteSet(Prior(m)) /\ Rank(m) \in Nat
BY ReembedAssumption, FS_Subset, FS_CardinalityType DEF Prior, Rank, Present

LEMMA PageByRank == \A skip : PageAt(skip) = {m \in Present : Rank(m) \in skip .. skip + BatchSize - 1}
BY DEF PageAt, Rank, Prior

(* A page is empty only beyond the last memory. *)
LEMMA NoGap ==
  ASSUME offset \in Nat, PageAt(offset) = {}, NEW m \in Present
  PROVE  Rank(m) < offset
<1> SUFFICES ASSUME Rank(m) >= offset PROVE FALSE
  BY RankNat
<1>1. Present \subseteq Nat /\ BatchSize \in Nat \ {0}
  BY ReembedAssumption DEF Present
<1> DEFINE Beyond == {n \in Present : Rank(n) >= offset}
<1>2. PICK x \in Beyond : \A y \in Beyond : x <= y
  BY Least, <1>1
<1>3. Rank(x) > offset
  <2>1. Rank(x) \notin offset .. offset + BatchSize - 1
    BY <1>2, PageByRank
  <2> QED
    BY <2>1, <1>1, <1>2, RankNat
<1>4. Prior(x) # {}
  BY <1>3, FS_EmptySet, RankNat DEF Rank
<1> DEFINE Gaps == {x - n : n \in Prior(x)}
<1>5. \A n \in Prior(x) : n \in Nat /\ x - n \in Nat
  BY <1>1, <1>2 DEF Prior
<1>6. PICK g \in Gaps : \A h \in Gaps : g <= h
  <2>1. Gaps \subseteq Nat /\ Gaps # {}
    BY <1>4, <1>5
  <2> HIDE DEF Gaps
  <2> QED
    BY <2>1, Least
<1>7. PICK p \in Prior(x) : g = x - p
  BY <1>6
<1>8. \A n \in Prior(x) : n <= p
  BY <1>1, <1>2, <1>5, <1>6, <1>7
<1>9. p \in Present /\ p < x /\ p \in Nat
  BY <1>5 DEF Prior
<1>10. Prior(x) = Prior(p) \cup {p} /\ p \notin Prior(p)
  <2>1. x \in Nat
    BY <1>1, <1>2
  <2>2. ASSUME NEW n \in Present PROVE n < x <=> n < p \/ n = p
    <3>1. n \in Nat
      BY <1>1
    <3>2. n < x => n <= p
      BY <1>8 DEF Prior
    <3> QED
      BY <1>9, <2>1, <3>1, <3>2
  <2>3. ~(p < p)
    BY <1>9
  <2> HIDE DEF Beyond, Gaps
  <2> QED
    BY <1>9, <2>2, <2>3 DEF Prior
<1>11. Rank(x) = Rank(p) + 1
  BY <1>10, RankNat, FS_AddElement DEF Rank
<1>12. p \in Beyond
  <2>1. Rank(p) \in Nat /\ offset \in Nat /\ Rank(p) + 1 > offset
    BY <1>3, <1>11, RankNat
  <2>2. Rank(p) >= offset
    BY <2>1
  <2> QED
    BY <2>2, <1>9
<1> QED
  BY <1>1, <1>2, <1>9, <1>12

(* As long as none is deleted, none moves forward. *)
LEMMA RankGrows ==
  ASSUME NEW m, Present \subseteq Present'
  PROVE  Rank(m) <= Rank(m)'
<1>1. Prior(m) \subseteq Prior(m)'
  BY DEF Prior
<1>2. IsFiniteSet(Prior(m)')
  BY ReembedAssumption, FS_Subset DEF Prior, Present
<1> QED
  BY <1>1, <1>2, FS_Subset DEF Rank

LEMMA RankSame ==
  ASSUME NEW m, UNCHANGED text
  PROVE  Rank(m)' = Rank(m)
BY DEF Rank, Prior, Present

-----------------------------------------------------------------------------
(* Nothing more is to be done about m. *)
Seen(m) == m \in failed \cup touched \/ point[m] = [of |-> text[m], model |-> "new"]
Reach == IF job = "paging" THEN offset ELSE offset + BatchSize

(* What the job has in its hands: a copy that is not that of the row any    *)
(* more is one of a memory written meanwhile.                               *)
Copies ==
  /\ job \in {"idle", "paging", "done"} => page = {}
  /\ job = "idle" => held = {} /\ offset = 0
  /\ \A r \in page : r.id \in crossed \/ r.text = text[r.id]
  /\ \A r \in held : r.text = text[r.id] \/ r.id \in touched \/ r.id \notin since

(* The memories there all along are there, and a write under way to one is  *)
(* one made since the job began.                                            *)
Onlookers ==
  /\ since \subseteq Present
  /\ job # "idle" => \A m \in pending : m \in touched \/ m \notin since

Vectors ==
  \A m \in Places \ (crossed \cup pending) :
    point[m].of = IF text[m] > 0 THEN text[m] ELSE 0

(* The pages read so far hold every memory that comes before their end. *)
Progress ==
  job # "idle" /\ ~moved =>
    \A m \in since : job = "done" \/ Rank(m) < Reach => Seen(m) \/ m \in OnPage

RInv == ReembedTypeOK /\ Copies /\ Onlookers /\ Vectors /\ Progress

LEMMA ReembedStart == ReembedInit => RInv
<1> SUFFICES ASSUME ReembedInit PROVE RInv
  OBVIOUS
<1>1. ReembedTypeOK
  <2>1. 0 \in 0 .. MaxText /\ 1 \in 0 .. MaxText /\ 0 \in -1 .. MaxText /\ 1 \in -1 .. MaxText
        /\ 0 \in 0 .. MaxWrites /\ 0 \in 0 .. MaxStumbles
    BY ReembedAssumption
  <2>2. text \in [Places -> -1 .. MaxText]
    BY <2>1 DEF ReembedInit
  <2>3. point \in [Places -> [of : 0 .. MaxText, model : {"none", "old", "new"}]]
    <3> DEFINE Vecs == [of : 0 .. MaxText, model : {"none", "old", "new"}]
    <3>1. NoPoint \in Vecs /\ [of |-> 1, model |-> "old"] \in Vecs
      BY <2>1 DEF NoPoint
    <3> HIDE DEF Vecs
    <3>2. point \in [Places -> Vecs]
      BY <3>1 DEF ReembedInit
    <3> QED
      BY <3>2 DEF Vecs
  <2> QED
    BY <2>1, <2>2, <2>3 DEF ReembedInit, ReembedTypeOK
<1>2. Vectors
  BY DEF ReembedInit, Vectors, NoPoint
<1> QED
  BY <1>1, <1>2 DEF ReembedInit, RInv, Copies, Onlookers, Progress

LEMMA WriteRowKeeps == ASSUME RInv, NEW m \in Places, WriteRow(m) PROVE RInv'
<1>1. ReembedTypeOK'
  BY ReembedAssumption DEF RInv, ReembedTypeOK, WriteRow, OneWrite, paging
<1>2. \A n \in Places : text'[n] = IF n = m THEN text[m] + 1 ELSE text[n]
  BY DEF RInv, ReembedTypeOK, WriteRow
<1>3. text[m] \in Nat /\ Present \subseteq Present' /\ (\A r \in held : r.id \in Places) /\ page \subseteq held
  BY <1>2 DEF RInv, ReembedTypeOK, WriteRow, Present
<1>4. Copies'
  BY <1>2, <1>3 DEF RInv, Copies, WriteRow, paging, OnPage
<1>5. Onlookers'
  BY <1>3 DEF RInv, Onlookers, WriteRow, paging
<1>6. Vectors'
  BY <1>2 DEF RInv, Vectors, WriteRow
<1>7. Progress'
  <2> SUFFICES ASSUME job # "idle", ~moved, NEW n \in since, job = "done" \/ Rank(n)' < Reach'
               PROVE  Seen(n)' \/ n \in OnPage'
    BY DEF Progress, WriteRow, paging
  <2>1. Reach' = Reach /\ Reach \in Int /\ OnPage' = OnPage
    BY ReembedAssumption DEF RInv, ReembedTypeOK, WriteRow, paging, Reach, OnPage
  <2>2. Rank(n) <= Rank(n)' /\ Rank(n) \in Nat /\ Rank(n)' \in Nat
    <3>1. Rank(n) <= Rank(n)'
      BY <1>3, RankGrows
    <3>2. IsFiniteSet(Prior(n)')
      BY ReembedAssumption, FS_Subset DEF Prior, Present
    <3> QED
      BY <3>1, <3>2, RankNat, FS_CardinalityType DEF Rank
  <2>3. job = "done" \/ Rank(n) < Reach
    BY <2>1, <2>2
  <2>4. Seen(n) \/ n \in OnPage
    BY <2>3 DEF RInv, Progress
  <2>5. n \in Places
    BY DEF RInv, ReembedTypeOK
  <2> QED
    BY <1>2, <2>1, <2>4, <2>5 DEF Seen, WriteRow, paging
<1> QED
  BY <1>1, <1>4, <1>5, <1>6, <1>7 DEF RInv

LEMMA DeleteRowKeeps == ASSUME RInv, NEW m \in Places, DeleteRow(m) PROVE RInv'
<1>1. ReembedTypeOK'
  BY ReembedAssumption DEF RInv, ReembedTypeOK, DeleteRow, OneWrite, paging
<1>2. \A n \in Places : text'[n] = IF n = m THEN -1 ELSE text[n]
  BY DEF RInv, ReembedTypeOK, DeleteRow
<1>3. (\A r \in held : r.id \in Places) /\ page \subseteq held
  BY DEF RInv, ReembedTypeOK
<1>4. Copies'
  BY <1>2, <1>3 DEF RInv, Copies, DeleteRow, paging, OnPage
<1>5. Onlookers'
  BY <1>2 DEF RInv, ReembedTypeOK, Onlookers, DeleteRow, paging, Present
<1>6. Vectors'
  BY <1>2 DEF RInv, Vectors, DeleteRow
<1>7. Progress'
  <2> SUFFICES ASSUME job = "done", ~moved, NEW n \in since \ {m}
               PROVE  Seen(n)' \/ n \in OnPage'
    BY DEF Progress, DeleteRow, paging
  <2>1. Seen(n) \/ n \in OnPage
    BY DEF RInv, Progress
  <2>2. n \in Places /\ n # m
    BY DEF RInv, ReembedTypeOK
  <2> QED
    BY <1>2, <2>1, <2>2 DEF Seen, DeleteRow, paging, OnPage
<1> QED
  BY <1>1, <1>4, <1>5, <1>6, <1>7 DEF RInv

LEMMA SettleKeeps == ASSUME RInv, NEW m \in Places, Settle(m) PROVE RInv'
<1>1. ReembedTypeOK'
  <2> DEFINE Vecs == [of : 0 .. MaxText, model : {"none", "old", "new"}]
             settled == IF text[m] > 0 THEN [of |-> text[m], model |-> "old"] ELSE NoPoint
  <2>1. settled \in Vecs
    BY ReembedAssumption DEF RInv, ReembedTypeOK, NoPoint
  <2>2. point \in [Places -> Vecs] /\ point' = [point EXCEPT ![m] = settled]
    BY DEF RInv, ReembedTypeOK, Settle
  <2>3. point' \in [Places -> Vecs]
    <3> HIDE DEF Vecs, settled
    <3> QED
      BY <2>1, <2>2
  <2> QED
    BY <2>3 DEF RInv, ReembedTypeOK, Settle, paging
<1>2. \A n \in Places :
        point'[n] = IF n # m THEN point[n]
                    ELSE IF text[m] > 0 THEN [of |-> text[m], model |-> "old"] ELSE NoPoint
  BY DEF RInv, ReembedTypeOK, Settle
<1>3. Copies'
  BY DEF RInv, Copies, Settle, paging
<1>4. Onlookers'
  BY DEF RInv, Onlookers, Settle, paging, Present
<1>5. Vectors'
  BY <1>2 DEF RInv, Vectors, Settle, NoPoint
<1>6. Progress'
  <2> SUFFICES ASSUME job # "idle", ~moved, NEW n \in since, job = "done" \/ Rank(n)' < Reach'
               PROVE  Seen(n)' \/ n \in OnPage'
    BY DEF Progress, Settle, paging
  <2>1. Rank(n)' = Rank(n)
    BY RankSame DEF Settle
  <2>2. Seen(n) \/ n \in OnPage
    BY <2>1 DEF RInv, Progress, Reach, Settle, paging
  <2>3. n \in Places /\ (n = m => n \in touched)
    BY DEF RInv, ReembedTypeOK, Onlookers, Settle
  <2> QED
    BY <1>2, <2>2, <2>3 DEF Seen, Settle, paging, OnPage
<1> QED
  BY <1>1, <1>3, <1>4, <1>5, <1>6 DEF RInv

LEMMA LoseKeeps == ASSUME RInv, NEW m \in Places, Lose(m) PROVE RInv'
<1>1. ReembedTypeOK'
  BY ReembedAssumption DEF RInv, ReembedTypeOK, Lose, Stumble, paging
<1>2. Copies' /\ Vectors'
  BY DEF RInv, Copies, Vectors, Lose, paging
<1>3. Onlookers'
  BY DEF RInv, Onlookers, Lose, paging, Present
<1>4. Progress'
  BY RankSame DEF RInv, Progress, Reach, Seen, OnPage, Lose, paging
<1> QED
  BY <1>1, <1>2, <1>3, <1>4 DEF RInv

LEMMA StartReembedKeeps == ASSUME RInv, StartReembed PROVE RInv'
<1>1. ReembedTypeOK'
  BY DEF RInv, ReembedTypeOK, StartReembed, memory, Present
<1>2. Copies' /\ Vectors'
  BY DEF RInv, Copies, Vectors, StartReembed, memory
<1>3. Onlookers'
  BY DEF RInv, Onlookers, StartReembed, memory, Present
<1>4. Progress'
  <2>1. Reach' = 0
    BY DEF RInv, Copies, Reach, StartReembed
  <2>2. \A n : ~(Rank(n)' < Reach')
    BY <2>1, RankSame, RankNat DEF StartReembed, memory
  <2> QED
    BY <2>2 DEF Progress, StartReembed
<1> QED
  BY <1>1, <1>2, <1>3, <1>4 DEF RInv

LEMMA ReadPageKeeps == ASSUME RInv, ReadPage PROVE RInv'
<1> USE DEF RInv
<1>1. /\ Present' = Present /\ OnPage' = PageAt(offset) /\ PageAt(offset) \subseteq Places
      /\ \A m \in PageAt(offset) : text[m] \in 1 .. MaxText
  <2>1. \A m \in PageAt(offset) : m \in Places /\ text[m] \in 1 .. MaxText
    BY ReembedAssumption DEF ReembedTypeOK, PageAt, Present
  <2>2. {r.id : r \in held'} = PageAt(offset)
    <3> DEFINE kept == {r \in held : r.id \in PageAt(offset)}
               missing == PageAt(offset) \ {r.id : r \in held}
               read == {[id |-> m, text |-> text[m]] : m \in missing}
    <3>1. held' = kept \cup read
      BY DEF ReadPage
    <3>2. \A r \in kept \cup read : r.id \in PageAt(offset)
      OBVIOUS
    <3>3. ASSUME NEW m \in PageAt(offset) PROVE \E r \in kept \cup read : r.id = m
      <4>1. CASE m \in missing
        <5>1. [id |-> m, text |-> text[m]] \in read
          BY <4>1
        <5> QED
          BY <5>1
      <4>2. CASE m \notin missing
        BY <4>2
      <4> QED
        BY <4>1, <4>2
    <3> HIDE DEF kept, read
    <3> QED
      BY <3>1, <3>2, <3>3
  <2> QED
    BY <2>1, <2>2 DEF ReadPage, memory, Present, OnPage
<1>2. ReembedTypeOK'
  <2>1. held' \subseteq [id : Places, text : 1 .. MaxText] /\ page' \subseteq held'
    BY <1>1 DEF ReembedTypeOK, ReadPage
  <2>2. crossed' \subseteq Places
    BY <1>1, <2>1 DEF ReembedTypeOK, ReadPage
  <2> QED
    BY <2>1, <2>2 DEF ReembedTypeOK, ReadPage, memory
<1>3. Copies'
  <2>1. job' \in {"idle", "paging", "done"} => page' = {}
    BY <1>1 DEF ReadPage, OnPage
  <2>2. job' # "idle"
    BY DEF ReadPage
  <2>3. \A r \in page' : r.id \in crossed' \/ r.text = text'[r.id]
    BY DEF ReadPage, memory
  <2>4. \A r \in held' : r.text = text'[r.id] \/ r.id \in touched' \/ r.id \notin since'
    BY DEF Copies, ReadPage, memory
  <2> QED
    BY <2>1, <2>2, <2>3, <2>4 DEF Copies
<1>4. Onlookers'
  BY <1>1 DEF Onlookers, ReadPage, memory
<1>5. Vectors'
  BY DEF Vectors, ReadPage, memory
<1>6. Progress'
  <2> SUFFICES ASSUME ~moved, NEW m \in since, job' = "done" \/ Rank(m)' < Reach'
               PROVE  Seen(m)' \/ m \in OnPage'
    BY DEF Progress, ReadPage
  <2>1. Rank(m)' = Rank(m) /\ Rank(m) \in Nat /\ m \in Present
    BY RankSame, RankNat DEF Onlookers, ReadPage, memory
  <2>2. Seen(m)' <=> Seen(m)
    BY DEF Seen, ReadPage, memory
  <2>3. offset \in Nat /\ BatchSize \in Nat
    BY ReembedAssumption DEF ReembedTypeOK
  <2>4. CASE Rank(m) < offset
    BY <2>2, <2>4 DEF Progress, Reach, ReadPage, Copies, OnPage
  <2>5. CASE Rank(m) >= offset
    <3>1. PageAt(offset) # {}
      BY <2>1, <2>3, <2>5, NoGap
    <3>2. job' = "embedding" /\ Reach' = offset + BatchSize
      BY <3>1 DEF ReadPage, Reach
    <3>3. Rank(m) \in offset .. offset + BatchSize - 1
      BY <2>1, <2>3, <2>5, <3>2
    <3> QED
      BY <1>1, <2>1, <3>3, PageByRank
  <2> QED
    BY <2>1, <2>3, <2>4, <2>5
<1> QED
  BY <1>2, <1>3, <1>4, <1>5, <1>6

LEMMA EmbedPageKeeps == ASSUME RInv, EmbedPage PROVE RInv'
<1>1. ReembedTypeOK' /\ Copies' /\ Onlookers' /\ Vectors'
  BY DEF RInv, ReembedTypeOK, Copies, Onlookers, Vectors, EmbedPage, memory, observed, Present
<1>2. Progress'
  BY RankSame DEF RInv, Progress, Reach, Seen, OnPage, EmbedPage, memory, observed
<1> QED
  BY <1>1, <1>2 DEF RInv

LEMMA EmbedFailsKeeps == ASSUME RInv, EmbedFails PROVE RInv'
<1>1. ReembedTypeOK'
  <2>1. OnPage \subseteq Places
    BY DEF RInv, ReembedTypeOK, OnPage
  <2>2. offset' \in Nat /\ stumbles' \in 0 .. MaxStumbles
    BY ReembedAssumption DEF RInv, ReembedTypeOK, EmbedFails, Stumble
  <2> QED
    BY <2>1, <2>2 DEF RInv, ReembedTypeOK, EmbedFails, memory, observed
<1>2. Copies' /\ Onlookers' /\ Vectors'
  BY DEF RInv, Copies, Onlookers, Vectors, EmbedFails, memory, observed, Present
<1>3. Progress'
  BY RankSame DEF RInv, Progress, Reach, Seen, OnPage, EmbedFails, memory, observed
<1> QED
  BY <1>1, <1>2, <1>3 DEF RInv

LEMMA WritePointKeeps == ASSUME RInv, WritePoint PROVE RInv'
<1> USE DEF RInv
<1>1. PICK r \in page :
        /\ page' = page \ {r}
        /\ \/ point' = [point EXCEPT ![r.id] = [of |-> r.text, model |-> "new"]]
              /\ UNCHANGED <<failed, stumbles>>
           \/ /\ stumbles' = stumbles \/ Stumble
              /\ failed' = failed \cup {r.id} /\ UNCHANGED point
  BY DEF WritePoint
<1>2. /\ job = "writing"
      /\ \/ page' = {} /\ job' = "paging" /\ offset' = offset + BatchSize
         \/ page' # {} /\ UNCHANGED <<job, offset>>
      /\ UNCHANGED <<text, pending, held, fits, since, moved, crossed, touched, writes>>
  BY DEF WritePoint, observed
<1>3. r.id \in Places /\ r.text \in 1 .. MaxText /\ r \in held
  BY DEF ReembedTypeOK
<1>4. \A m \in Places : point'[m] = point[m] \/ (m = r.id /\ point'[m] = [of |-> r.text, model |-> "new"])
  <2> DEFINE Vecs == [of : 0 .. MaxText, model : {"none", "old", "new"}]
             new == [of |-> r.text, model |-> "new"]
  <2>1. point \in [Places -> Vecs]
    BY DEF ReembedTypeOK
  <2>2. point' = [point EXCEPT ![r.id] = new] \/ point' = point
    BY <1>1
  <2> SUFFICES ASSUME NEW m \in Places PROVE point'[m] = point[m] \/ (m = r.id /\ point'[m] = new)
    OBVIOUS
  <2> HIDE DEF Vecs, new
  <2> QED
    BY <1>3, <2>1, <2>2
<1>5. ReembedTypeOK'
  <2> DEFINE Vecs == [of : 0 .. MaxText, model : {"none", "old", "new"}]
  <2>1. [of |-> r.text, model |-> "new"] \in Vecs
    BY <1>3, ReembedAssumption
  <2>2. point \in [Places -> Vecs]
    BY DEF ReembedTypeOK
  <2>3. point' \in [Places -> Vecs]
    <3> HIDE DEF Vecs
    <3> QED
      BY <1>1, <1>3, <2>1, <2>2
  <2>4. stumbles' \in 0 .. MaxStumbles
    BY <1>1, ReembedAssumption DEF ReembedTypeOK, Stumble
  <2>5. failed' \subseteq Places /\ page' \subseteq held'
    BY <1>1, <1>2, <1>3 DEF ReembedTypeOK
  <2>6. job' \in {"paging", "writing"} /\ offset' \in Nat
    BY <1>2, ReembedAssumption DEF ReembedTypeOK
  <2> QED
    BY <1>2, <2>3, <2>4, <2>5, <2>6 DEF ReembedTypeOK
<1>6. Copies'
  BY <1>1, <1>2 DEF Copies
<1>7. Onlookers'
  BY <1>2 DEF Onlookers, Present
<1>8. Vectors'
  BY <1>1, <1>2, <1>3, <1>4 DEF Vectors, Copies
<1>9. Progress'
  <2> SUFFICES ASSUME ~moved, NEW m \in since, Rank(m)' < Reach'
               PROVE  Seen(m)' \/ m \in OnPage'
    BY <1>2 DEF Progress
  <2>1. Rank(m)' = Rank(m) /\ Reach' = Reach
    BY <1>2, RankSame DEF Reach
  <2>2. Seen(m) \/ m \in OnPage
    BY <1>2, <2>1 DEF Progress
  <2>3. m \in Places
    BY DEF ReembedTypeOK
  <2>4. CASE m = r.id
    <3>1. point'[m] = [of |-> r.text, model |-> "new"] \/ m \in failed'
      BY <1>1, <1>3, <2>4 DEF ReembedTypeOK
    <3>2. r.text = text[m] \/ m \in touched
      BY <1>3, <2>4 DEF Copies
    <3> QED
      BY <1>2, <3>1, <3>2 DEF Seen
  <2>5. CASE m # r.id
    <3>1. Seen(m) => Seen(m)'
      BY <1>1, <1>2, <1>4, <2>3, <2>5 DEF Seen
    <3>2. m \in OnPage => m \in OnPage'
      BY <1>1, <2>5 DEF OnPage
    <3> QED
      BY <2>2, <3>1, <3>2
  <2> QED
    BY <2>4, <2>5
<1> QED
  BY <1>5, <1>6, <1>7, <1>8, <1>9

LEMMA ReembedStep == RInv /\ [ReembedNext]_reembedVars => RInv'
<1> SUFFICES ASSUME RInv, [ReembedNext]_reembedVars PROVE RInv'
  OBVIOUS
<1>1. ASSUME NEW m \in Places, WriteRow(m) \/ DeleteRow(m) \/ Settle(m) \/ Lose(m) PROVE RInv'
  BY <1>1, WriteRowKeeps, DeleteRowKeeps, SettleKeeps, LoseKeeps
<1>2. CASE StartReembed \/ ReadPage \/ EmbedPage \/ EmbedFails \/ WritePoint
  BY <1>2, StartReembedKeeps, ReadPageKeeps, EmbedPageKeeps, EmbedFailsKeeps, WritePointKeeps
<1>3. CASE UNCHANGED reembedVars
  <2>1. ReembedTypeOK' /\ Copies' /\ Onlookers' /\ Vectors'
    BY <1>3 DEF RInv, ReembedTypeOK, Copies, Onlookers, Vectors, Present,
       reembedVars, memory, paging, observed
  <2>2. Progress'
    BY <1>3, RankSame DEF RInv, Progress, Reach, Seen, OnPage,
       reembedVars, memory, paging, observed
  <2> QED
    BY <2>1, <2>2 DEF RInv
<1> QED
  BY <1>1, <1>2, <1>3 DEF ReembedNext

(* Every variable stays within its range, for any number of memories, texts *)
(* and writes.                                                              *)
THEOREM ReembedTypeAlways == ReembedSpec => []ReembedTypeOK
<1>1. RInv => ReembedTypeOK
  BY DEF RInv
<1> QED
  BY ReembedStart, ReembedStep, <1>1, PTL DEF ReembedSpec

(* A finished re-embedding has reached every memory that was there all      *)
(* along, and vectors follow their rows, for any number of memories and any *)
(* size of the pages: _reembed_handler reads a page by its offset in the    *)
(* order of the ids, and rows that are only added move it backwards.        *)
THEOREM ReembeddingHoldsAlways == ReembedSpec => []ReembeddingHolds
<1>1. RInv => ReembeddingHolds
  <2> SUFFICES ASSUME RInv PROVE ReembeddingHolds
    OBVIOUS
  <2>1. EveryoneReembedded
    BY DEF RInv, EveryoneReembedded, Progress, Seen, Copies, OnPage
  <2>2. VectorsFollowRows
    BY DEF RInv, VectorsFollowRows, Vectors
  <2> QED
    BY <2>1, <2>2 DEF ReembeddingHolds
<1> QED
  BY ReembedStart, ReembedStep, <1>1, PTL DEF ReembedSpec

-----------------------------------------------------------------------------
(* Backups                                                                 *)

(* What the export has of its tenant's rows after the tables read so far. *)
Covers ==
  current # Nobody =>
    /\ whole \subseteq stored
    /\ \A r \in whole : OwnerOf[r] = current
    /\ \A r \in stored : OwnerOf[r] = current => r \in ever
    /\ \A r \in dump : r \in ever /\ OwnerOf[r] = current
    /\ \A r \in whole : TableOf[r] < nextTable => r \in dump

(* The last file of a tenant bears the day that good remembers. *)
Dated ==
  \A t \in Owners :
    good[t] >= 0 /\ good[t] >= day - Retain =>
      \E b \in backups : b.tenant = t /\ b.day = good[t]

BInv == BackupsTypeOK /\ Covers /\ PublishedAreSound /\ Dated

-----------------------------------------------------------------------------
LEMMA BackupsBegin == BackupsInit => BInv
BY BackupsAssumption DEF BackupsInit, BInv, BackupsTypeOK, Covers, PublishedAreSound, Dated

(* Requests change rows and tenants, and nothing of the worker but what it  *)
(* is to be measured by.                                                    *)
LEMMA RequestsKeepIt ==
  ASSUME BInv,
         \/ \E r \in Records : Store(r) \/ RemoveRow(r)
         \/ \E b \in backups, declined \in BOOLEAN : Import(b, declined)
         \/ \E t \in Owners : Evict(t)
  PROVE  BInv'
<1> USE DEF BInv
<1>1. CASE \E r \in Records : Store(r)
  BY <1>1, BackupsAssumption
  DEF Store, Arriving, schedule, BackupsTypeOK, Covers, PublishedAreSound, Dated
<1>2. CASE \E r \in Records : RemoveRow(r)
  BY <1>2, BackupsAssumption
  DEF RemoveRow, schedule, BackupsTypeOK, Covers, PublishedAreSound, Dated
<1>3. CASE \E b \in backups, declined \in BOOLEAN : Import(b, declined)
  <2>1. PICK b \in backups, declined \in BOOLEAN : Import(b, declined)
    BY <1>3
  <2>2. b.rows \subseteq Records /\ b.tenant \in Owners
    BY DEF BackupsTypeOK
  <2> QED
    BY <2>1, <2>2, BackupsAssumption
    DEF Import, Arriving, schedule, BackupsTypeOK, Covers, PublishedAreSound, Dated
<1>4. CASE \E t \in Owners : Evict(t)
  BY <1>4, BackupsAssumption
  DEF Evict, RowsOf, schedule, BackupsTypeOK, Covers, PublishedAreSound, Dated
<1> QED
  BY <1>1, <1>2, <1>3, <1>4

(* The worker before and while it reads. *)
LEMMA ReadingKeepsIt ==
  ASSUME BInv,
         \/ StartPass \/ ReadTable
         \/ \E t \in Owners : BeginExport(t)
  PROVE  BInv'
<1> USE DEF BInv
<1>1. CASE StartPass
  BY <1>1, BackupsAssumption
  DEF StartPass, export, BackupsTypeOK, Covers, PublishedAreSound, Dated
<1>2. CASE ReadTable
  <2>1. BackupsTypeOK'
    BY <1>2, BackupsAssumption DEF ReadTable, RowsOf, schedule, BackupsTypeOK
  <2>2. Covers'
    <3>1. \A r \in whole : TableOf[r] \in 1 .. LastTable /\ nextTable \in 1 .. LastTable
      BY <1>2, BackupsAssumption DEF ReadTable, BackupsTypeOK
    <3> QED
      BY <1>2, <3>1, BackupsAssumption DEF ReadTable, RowsOf, schedule, BackupsTypeOK, Covers
  <2>3. PublishedAreSound' /\ Dated'
    BY <1>2 DEF ReadTable, PublishedAreSound, Dated
  <2> QED
    BY <2>1, <2>2, <2>3
<1>3. CASE \E t \in Owners : BeginExport(t)
  <2>1. PICK t \in Owners : BeginExport(t)
    BY <1>3
  <2>2. \A r \in Records : TableOf[r] >= 1
    BY BackupsAssumption
  <2> QED
    BY <2>1, <2>2, BackupsAssumption
    DEF BeginExport, RowsOf, BackupsTypeOK, Covers, PublishedAreSound, Dated
<1> QED
  BY <1>1, <1>2, <1>3

(* The worker when it publishes, fails, prunes or dies, and the clock. *)
LEMMA EndingsKeepIt ==
  ASSUME BInv, PublishFile \/ ExportFails \/ PruneFiles \/ Crash \/ NextDay
  PROVE  BInv'
<1> USE DEF BInv
<1>1. CASE PublishFile
  <2> DEFINE f == File(Sound)
  <2>1. current \in Owners /\ day \in 0 .. MaxDay
    BY <1>1 DEF PublishFile, BackupsTypeOK
  <2>2. f.sound
    <3>1. \A r \in whole : TableOf[r] < nextTable
      BY <1>1, BackupsAssumption DEF PublishFile, BackupsTypeOK
    <3> QED
      BY <1>1, <3>1 DEF PublishFile, Covers, File, Sound, BackupsTypeOK
  <2>3. f \in [tenant : Owners, rows : SUBSET Records, day : 0 .. MaxDay, sound : BOOLEAN]
    BY <2>1 DEF File, Sound, BackupsTypeOK
  <2>4. f.tenant = current /\ f.day = day
    BY DEF File
  <2>5. backups' = backups \cup {f} /\ good' = [good EXCEPT ![current] = day] /\ NoExport
        /\ UNCHANGED <<stored, lodged, pass, woke, waiting, day, slips>>
    BY <1>1 DEF PublishFile
  <2> HIDE DEF f
  <2>6. BackupsTypeOK'
    BY <2>1, <2>3, <2>5, BackupsAssumption DEF BackupsTypeOK, NoExport
  <2>7. Covers'
    BY <2>5 DEF Covers, NoExport
  <2>8. PublishedAreSound'
    BY <2>2, <2>5 DEF PublishedAreSound
  <2>9. Dated'
    <3> SUFFICES ASSUME NEW t \in Owners, good'[t] >= 0, good'[t] >= day - Retain
                 PROVE  \E b \in backups' : b.tenant = t /\ b.day = good'[t]
      BY <2>5 DEF Dated
    <3>1. CASE t = current
      BY <2>1, <2>4, <2>5, <3>1 DEF BackupsTypeOK
    <3>2. CASE t # current
      BY <2>1, <2>5, <3>2 DEF BackupsTypeOK, Dated
    <3> QED
      BY <3>1, <3>2
  <2> QED
    BY <2>6, <2>7, <2>8, <2>9
<1>2. CASE ExportFails
  BY <1>2, BackupsAssumption
  DEF ExportFails, Slip, NoExport, BackupsTypeOK, Covers, PublishedAreSound, Dated
<1>3. CASE PruneFiles
  <2>1. BackupsTypeOK' /\ Covers' /\ PublishedAreSound'
    BY <1>3 DEF PruneFiles, export, BackupsTypeOK, Covers, PublishedAreSound
  <2>2. Dated'
    BY <1>3 DEF PruneFiles, Dated
  <2> QED
    BY <2>1, <2>2
<1>4. CASE Crash
  BY <1>4, BackupsAssumption
  DEF Crash, Slip, NoExport, BackupsTypeOK, Covers, PublishedAreSound, Dated
<1>5. CASE NextDay
  <2>1. BackupsTypeOK' /\ Covers' /\ PublishedAreSound'
    BY <1>5, BackupsAssumption
    DEF NextDay, worker, schedule, export, BackupsTypeOK, Covers, PublishedAreSound
  <2>2. Dated'
    BY <1>5, BackupsAssumption DEF NextDay, Dated, BackupsTypeOK
  <2> QED
    BY <2>1, <2>2
<1> QED
  BY <1>1, <1>2, <1>3, <1>4, <1>5

(* The invariant holds throughout. *)
LEMMA BInvAlways == BackupsSpec => []BInv
<1>1. BInv /\ [BackupsNext]_backupVars => BInv'
  <2> SUFFICES ASSUME BInv, [BackupsNext]_backupVars PROVE BInv'
    OBVIOUS
  <2>1. CASE BackupsNext
    BY <2>1, RequestsKeepIt, ReadingKeepsIt, EndingsKeepIt DEF BackupsNext
  <2>2. CASE UNCHANGED backupVars
    BY <2>2 DEF backupVars, worker, schedule, export, BInv, BackupsTypeOK, Covers,
                PublishedAreSound, Dated
  <2> QED
    BY <2>1, <2>2
<1> QED
  BY BackupsBegin, <1>1, PTL DEF BackupsSpec

-----------------------------------------------------------------------------
(* Every variable stays within its range, for every number of tenants,      *)
(* rows, tables and days.                                                   *)
THEOREM BackupsTypeAlways == BackupsSpec => []BackupsTypeOK
<1>1. BInv => BackupsTypeOK
  BY DEF BInv
<1> QED
  BY BInvAlways, <1>1, PTL

(* Whatever requests, failures and crashes do beside it, a file that bears  *)
(* its name has all rows of its tenant that were there throughout and no    *)
(* others (workers/backup.py:56-74), and pruning leaves a tenant whose      *)
(* exports work with a file (workers/backup.py:77-95).                     *)
THEOREM BackupsHoldAlways == BackupsSpec => []BackupsHold
<1>1. BInv => BackupsHold
  BY DEF BInv, Dated, BackupsHold, PruneLeavesOne
<1> QED
  BY BInvAlways, <1>1, PTL

-----------------------------------------------------------------------------
(* Exchanges                                                               *)

(* The states of a message that has its session's row. *)
Kept == {"inserted", "committed", "asking"}

(* A message that is stored has a session that is there; one that went, went *)
(* with its session.                                                        *)
Housed ==
  /\ \A m \in Messages :
       /\ post[m] # "none" => place[m] \in Sessions
       /\ post[m] \in Kept => session[place[m]] = "live"
       /\ post[m] = "gone" => session[place[m]] = "gone"
       /\ post[m] = "asking" => said[m] = "assistant"
  /\ \A d \in Removals :
       /\ removal[d].at \in {"messages", "session"} => removal[d].of \in Sessions
       /\ spent[d] # {} => removal[d].at = "session"
       /\ \A m \in spent[d] : /\ m \in Messages /\ place[m] = removal[d].of
                              /\ post[m] \in {"committed", "asking", "gone"}

HInv == ExchangesTypeOK /\ Housed

LEMMA HousedInit == ExchangesInit => HInv
BY ExchangesAssumption, SMT DEF ExchangesInit, HInv, ExchangesTypeOK, Housed, Off, Kept

LEMMA HousedInsert ==
  ASSUME HInv, NEW m \in Messages, NEW s \in Sessions, NEW role \in {"user", "assistant"},
         InsertMessage(m, s, role)
  PROVE  HInv'
<1>1. ExchangesTypeOK'
  <2>1. UsersIn(s) \in SUBSET Messages
    BY DEF UsersIn, Committed, Of
  <2>2. order' \in Seq(Messages)
    BY DEF InsertMessage, HInv, ExchangesTypeOK
  <2> QED
    BY <2>1, <2>2 DEF InsertMessage, HInv, ExchangesTypeOK, personality
<1>2. Housed'
  BY DEF InsertMessage, HInv, ExchangesTypeOK, Housed, Kept, personality
<1> QED
  BY <1>1, <1>2 DEF HInv

LEMMA HousedRemove ==
  ASSUME HInv, NEW d \in Removals, RemoveSession(d)
  PROVE  HInv'
<1> DEFINE s == removal[d].of
<1>1. s \in Sessions /\ removal[d].at = "session" /\ \A m \in Of(s) : post[m] # "inserted"
  BY DEF RemoveSession, HInv, Housed
<1>2. ExchangesTypeOK'
  <2>1. spent' \in [Removals -> SUBSET Messages]
    BY DEF RemoveSession, HInv, ExchangesTypeOK
  <2>2. removal' \in [Removals -> [at : {"none", "messages", "session", "done"},
                                   of : Sessions \cup {NoSession}]]
    BY SMT DEF RemoveSession, HInv, ExchangesTypeOK
  <2>3. /\ session' \in [Sessions -> {"absent", "live", "gone"}]
        /\ post' \in [Messages -> {"none", "inserted", "committed", "asking", "refused", "gone"}]
    BY <1>1 DEF RemoveSession, Spend, HInv, ExchangesTypeOK
  <2> QED
    BY <2>1, <2>2, <2>3 DEF RemoveSession, HInv, ExchangesTypeOK, personality
<1>3. /\ spent' = [spent EXCEPT ![d] = {}]
      /\ removal' = [removal EXCEPT ![d].at = "done"]
      /\ UNCHANGED <<place, said, order, before, evolve, personality>>
  BY DEF RemoveSession
<1>4. \A e \in Removals \ {d} : spent'[e] = spent[e] /\ removal'[e] = removal[e]
  BY <1>3 DEF HInv, ExchangesTypeOK
<1>5. spent'[d] = {} /\ removal'[d].at = "done"
  BY <1>3, SMT DEF HInv, ExchangesTypeOK
<1>6. \A m \in Messages : post'[m] = post[m] \/ (m \in spent[d] /\ post'[m] = "gone")
  BY DEF RemoveSession, Spend, HInv, ExchangesTypeOK
<1>7. \A e \in Removals :
        /\ removal'[e].at \in {"messages", "session"} => removal'[e].of \in Sessions
        /\ spent'[e] # {} => removal'[e].at = "session"
        /\ \A m \in spent'[e] : /\ m \in Messages /\ place'[m] = removal'[e].of
                                /\ post'[m] \in {"committed", "asking", "gone"}
  BY <1>3, <1>4, <1>5, <1>6 DEF HInv, Housed
<1>8. \A m \in Messages :
        /\ post'[m] # "none" => place'[m] \in Sessions
        /\ post'[m] \in Kept => session'[place'[m]] = "live"
        /\ post'[m] = "gone" => session'[place'[m]] = "gone"
        /\ post'[m] = "asking" => said'[m] = "assistant"
  <2>1. CASE session' = session /\ post' = post
    BY <2>1, <1>3 DEF HInv, Housed
  <2>2. CASE Spend(d, s) /\ ~(session[s] = "live" /\ (Committed \cap Of(s)) \ spent[d] # {})
    <3> SUFFICES ASSUME NEW m \in Messages
                 PROVE  /\ post'[m] # "none" => place[m] \in Sessions
                        /\ post'[m] \in Kept => session'[place[m]] = "live"
                        /\ post'[m] = "gone" => session'[place[m]] = "gone"
                        /\ post'[m] = "asking" => said[m] = "assistant"
      BY <1>3
    <3>1. /\ session' = [session EXCEPT ![s] = "gone"]
          /\ post'[m] = IF m \in spent[d] THEN "gone" ELSE post[m]
      BY <2>2 DEF Spend
    <3>2. CASE m \in spent[d]
      BY <3>1, <3>2, <1>1 DEF HInv, Housed, Kept, ExchangesTypeOK
    <3>3. CASE m \notin spent[d] /\ place[m] = s
      <4>1. post[m] \notin Kept
        BY <3>3, <2>2, <1>1 DEF HInv, Housed, Kept, Committed, Of
      <4> QED
        BY <4>1, <3>1, <3>3, <1>1 DEF HInv, Housed, Kept, ExchangesTypeOK
    <3>4. CASE m \notin spent[d] /\ place[m] # s
      BY <3>1, <3>4, <1>1 DEF HInv, Housed, ExchangesTypeOK
    <3> QED
      BY <3>2, <3>3, <3>4
  <2> QED
    BY <2>1, <2>2 DEF RemoveSession
<1> QED
  BY <1>2, <1>7, <1>8 DEF HInv, Housed

LEMMA HousedRest ==
  ASSUME HInv,
         \/ \E s \in Sessions : CreateSession(s)
         \/ \E m \in Messages : CommitMessage(m) \/ AbandonMessage(m) \/ Ask(m)
         \/ \E s \in Sessions, d \in Removals : BeginRemoval(d, s)
         \/ \E d \in Removals : RemoveMessages(d)
         \/ \E t \in Traits : EditTrait(t)
         \/ \E r \in Runs : Evaluate(r) \/ Apply(r)
         \/ UNCHANGED exchangeVars
  PROVE  HInv'
<1>1. ASSUME NEW s \in Sessions, CreateSession(s) PROVE HInv'
  BY <1>1 DEF CreateSession, HInv, ExchangesTypeOK, Housed, Kept, personality
<1>2. ASSUME NEW m \in Messages, CommitMessage(m) \/ AbandonMessage(m) PROVE HInv'
  BY <1>2 DEF CommitMessage, AbandonMessage, HInv, ExchangesTypeOK, Housed, Kept, personality
<1>3. ASSUME NEW m \in Messages, Ask(m) PROVE HInv'
  <2>1. evolve' \subseteq Messages \X Messages
    BY <1>3 DEF Ask, LatestOf, UsersIn, Committed, HInv, ExchangesTypeOK
  <2> QED
    BY <1>3, <2>1 DEF Ask, HInv, ExchangesTypeOK, Housed, Kept, personality
<1>4. ASSUME NEW s \in Sessions, NEW d \in Removals, BeginRemoval(d, s) PROVE HInv'
  <2>1. /\ removal' = [removal EXCEPT ![d] = [at |-> "messages", of |-> s]]
        /\ spent[d] = {}
        /\ UNCHANGED <<session, post, place, said, order, spent, before, evolve, personality>>
    BY <1>4 DEF BeginRemoval, HInv, Housed
  <2>2. removal'[d] = [at |-> "messages", of |-> s] /\ \A e \in Removals \ {d} : removal'[e] = removal[e]
    BY <2>1 DEF HInv, ExchangesTypeOK
  <2>3. ExchangesTypeOK'
    BY <2>1 DEF HInv, ExchangesTypeOK, personality
  <2>4. Housed'
    BY <2>1, <2>2 DEF HInv, Housed
  <2> QED
    BY <2>3, <2>4 DEF HInv
<1>5. ASSUME NEW d \in Removals, RemoveMessages(d) PROVE HInv'
  <2>1. /\ Committed \cap Of(removal[d].of) \subseteq Messages
        /\ \A m \in Committed \cap Of(removal[d].of) :
              place[m] = removal[d].of /\ post[m] \in {"committed", "asking"}
    BY DEF Committed, Of
  <2>2. /\ spent' = [spent EXCEPT ![d] = Committed \cap Of(removal[d].of)]
        /\ removal' = [removal EXCEPT ![d].at = "session"]
        /\ UNCHANGED <<session, post, place, said, order, before, evolve, personality>>
    BY <1>5 DEF RemoveMessages
  <2>3. removal[d].of \in Sessions
    BY <1>5 DEF RemoveMessages, HInv, Housed
  <2>4. spent' \in [Removals -> SUBSET Messages]
    BY <2>1, <2>2 DEF HInv, ExchangesTypeOK
  <2>5. /\ removal' \in [Removals -> [at : {"none", "messages", "session", "done"},
                                      of : Sessions \cup {NoSession}]]
        /\ removal'[d].at = "session" /\ removal'[d].of = removal[d].of
        /\ \A e \in Removals \ {d} : removal'[e] = removal[e]
    BY <2>2, SMT DEF HInv, ExchangesTypeOK
  <2>6. /\ spent'[d] = Committed \cap Of(removal[d].of)
        /\ \A e \in Removals \ {d} : spent'[e] = spent[e]
    BY <2>2 DEF HInv, ExchangesTypeOK
  <2>7. ExchangesTypeOK'
    BY <2>2, <2>4, <2>5 DEF HInv, ExchangesTypeOK, personality
  <2>8. Housed'
    BY <2>1, <2>2, <2>3, <2>5, <2>6 DEF HInv, Housed
  <2> QED
    BY <2>7, <2>8 DEF HInv
<1>6. ASSUME NEW t \in Traits, EditTrait(t) PROVE HInv'
  <2>1. trait' \in [Traits -> {"absent", "active", "inactive"}] /\ edits' \in 0 .. MaxEdits
    BY <1>6, ExchangesAssumption DEF EditTrait, AddTrait, RemoveTrait, HInv, ExchangesTypeOK
  <2> QED
    BY <1>6, <2>1 DEF EditTrait, conversation, HInv, ExchangesTypeOK, Housed
<1>7. ASSUME NEW r \in Runs, Evaluate(r) \/ Apply(r) PROVE HInv'
  <2>1. run' \in [Runs -> [at : {"off", "model"}, shown : SUBSET Traits]]
    BY <1>7 DEF Evaluate, Apply, Active, Off, HInv, ExchangesTypeOK
  <2>2. trait' \in [Traits -> {"absent", "active", "inactive"}]
    <3>1. CASE Evaluate(r)
      BY <3>1 DEF Evaluate, HInv, ExchangesTypeOK
    <3>2. CASE Apply(r)
      <4>1. trait' = trait \/ \E t \in Traits \cup run[r].shown, v \in {"active", "inactive"} :
                               trait' = [trait EXCEPT ![t] = v]
        BY <3>2 DEF Apply, AddTrait, RemoveTrait
      <4> QED
        BY <4>1 DEF HInv, ExchangesTypeOK
    <3> QED
      BY <1>7, <3>1, <3>2
  <2> QED
    BY <1>7, <2>1, <2>2 DEF Evaluate, Apply, conversation, HInv, ExchangesTypeOK, Housed
<1>8. CASE UNCHANGED exchangeVars
  BY <1>8 DEF exchangeVars, conversation, personality, HInv, ExchangesTypeOK, Housed
<1> QED
  BY <1>1, <1>2, <1>3, <1>4, <1>5, <1>6, <1>7, <1>8

LEMMA HousedNext == HInv /\ [ExchangesNext]_exchangeVars => HInv'
BY HousedInsert, HousedRemove, HousedRest DEF ExchangesNext

-----------------------------------------------------------------------------
(* The messages inserted so far are in the order, once each. *)
Ordered ==
  /\ \A k \in 1 .. Len(order) : order[k] \in Messages /\ post[order[k]] # "none"
  /\ \A k, l \in 1 .. Len(order) : order[k] = order[l] => k = l
  /\ \A m \in Messages : post[m] # "none" => \E k \in 1 .. Len(order) : order[k] = m

Stored == {"committed", "asking", "gone"}

(* What a reply found when it was inserted, and what the jobs quote of it. *)
Quoted ==
  /\ \A m \in Messages : \A b \in before[m] :
       /\ b \in Messages /\ post[m] # "none" /\ post[b] \in Stored
       /\ place[b] = place[m] /\ said[b] = "user"
  /\ \A e \in evolve : e[1] \in Messages /\ e[2] \in Messages
                        /\ post[e[1]] # "none" /\ post[e[2]] # "none"
  /\ JobsQuoteTheExchange

XInv == HInv /\ Ordered /\ Quoted

LEMMA IndexUnique ==
  ASSUME HInv, Ordered, NEW k \in 1 .. Len(order)
  PROVE  Index(order[k]) = k
<1>1. DOMAIN order = 1 .. Len(order)
  BY LenProperties DEF HInv, ExchangesTypeOK
<1>2. \E l \in DOMAIN order : order[l] = order[k]
  BY <1>1
<1>3. Index(order[k]) \in DOMAIN order /\ order[Index(order[k])] = order[k]
  BY <1>2 DEF Index
<1> QED
  BY <1>1, <1>3 DEF Ordered

LEMMA QuotedInit == ExchangesInit => XInv
<1> SUFFICES ASSUME ExchangesInit PROVE XInv
  OBVIOUS
<1>1. Len(order) = 0
  BY DEF ExchangesInit
<1>2. 1 .. 0 = {}
  OBVIOUS
<1> QED
  BY <1>1, <1>2, HousedInit DEF ExchangesInit, XInv, Ordered, Quoted, JobsQuoteTheExchange

(* A step that inserts no message and quotes none. *)
LEMMA QuotedStay ==
  ASSUME XInv, UNCHANGED <<place, said, order, before, evolve>>,
         \A m \in Messages : /\ post'[m] = "none" <=> post[m] = "none"
                             /\ post[m] \in Stored => post'[m] \in Stored
  PROVE  Ordered' /\ Quoted'
<1>1. Ordered'
  BY DEF XInv, Ordered
<1>2. \A m : Index(m)' = Index(m)
  BY DEF Index
<1>3. JobsQuoteTheExchange'
  BY <1>2 DEF XInv, Quoted, JobsQuoteTheExchange
<1> QED
  BY <1>1, <1>3 DEF XInv, Quoted

LEMMA QuotedInsert ==
  ASSUME XInv, HInv', NEW m \in Messages, NEW s \in Sessions, NEW role \in {"user", "assistant"},
         InsertMessage(m, s, role)
  PROVE  Ordered' /\ Quoted'
<1>1. /\ post[m] = "none" /\ post'[m] # "none"
      /\ \A n \in Messages \ {m} : /\ post'[n] = post[n] /\ place'[n] = place[n]
                                    /\ said'[n] = said[n] /\ before'[n] = before[n]
      /\ place'[m] = s /\ before'[m] = UsersIn(s)
      /\ order' = Append(order, m) /\ evolve' = evolve
  BY DEF InsertMessage, XInv, HInv, ExchangesTypeOK
<1>2. /\ Len(order') = Len(order) + 1 /\ Len(order) \in Nat
      /\ \A k \in 1 .. Len(order) : order'[k] = order[k]
      /\ order'[Len(order) + 1] = m
  BY <1>1, AppendProperties, LenProperties DEF XInv, HInv, ExchangesTypeOK
<1>3. \A k \in 1 .. Len(order) : order[k] # m
  BY <1>1 DEF XInv, Ordered
<1>4. 1 .. Len(order') = 1 .. Len(order) \cup {Len(order) + 1}
  BY <1>2
<1>5. Ordered'
  <2>1. \A k \in 1 .. Len(order') : order'[k] \in Messages /\ post'[order'[k]] # "none"
    BY <1>1, <1>2, <1>3, <1>4 DEF XInv, Ordered
  <2>2. \A k, l \in 1 .. Len(order') : order'[k] = order'[l] => k = l
    BY <1>2, <1>3, <1>4 DEF XInv, Ordered
  <2>3. \A n \in Messages : post'[n] # "none" => \E k \in 1 .. Len(order') : order'[k] = n
    BY <1>1, <1>2, <1>4 DEF XInv, Ordered
  <2> QED
    BY <2>1, <2>2, <2>3 DEF Ordered
<1>6. \A n \in Messages : post[n] # "none" => Index(n)' = Index(n)
  <2> SUFFICES ASSUME NEW n \in Messages, post[n] # "none" PROVE Index(n)' = Index(n)
    OBVIOUS
  <2>1. PICK k \in 1 .. Len(order) : order[k] = n
    BY DEF XInv, Ordered
  <2>2. Index(n) = k
    BY <2>1, IndexUnique DEF XInv
  <2>3. k \in 1 .. Len(order') /\ order'[k] = n
    BY <2>1, <1>2, <1>4
  <2>4. DOMAIN order' = 1 .. Len(order')
    BY LenProperties DEF HInv, ExchangesTypeOK
  <2>5. Index(n)' = CHOOSE j \in DOMAIN order' : order'[j] = n
    BY DEF Index
  <2>6. Index(n)' \in 1 .. Len(order') /\ order'[Index(n)'] = n
    BY <2>3, <2>4, <2>5
  <2> QED
    BY <2>2, <2>3, <2>6, <1>5 DEF Ordered
<1>7. \A b \in UsersIn(s) : b \in Messages \ {m} /\ post[b] \in Stored /\ place[b] = s /\ said[b] = "user"
  BY <1>1 DEF UsersIn, Committed, Of, Stored
<1>8. \A n \in Messages : \A b \in before'[n] :
         /\ b \in Messages /\ post'[n] # "none" /\ post'[b] \in Stored
         /\ place'[b] = place'[n] /\ said'[b] = "user"
  <2> SUFFICES ASSUME NEW n \in Messages, NEW b \in before'[n]
               PROVE  /\ b \in Messages /\ post'[n] # "none" /\ post'[b] \in Stored
                      /\ place'[b] = place'[n] /\ said'[b] = "user"
    OBVIOUS
  <2>1. CASE n = m
    BY <2>1, <1>1, <1>7
  <2>2. CASE n # m
    <3>1. /\ b \in Messages /\ post[n] # "none" /\ post[b] \in Stored
          /\ place[b] = place[n] /\ said[b] = "user"
      BY <2>2, <1>1 DEF XInv, Quoted
    <3>2. b # m
      BY <3>1, <1>1 DEF Stored
    <3> QED
      BY <3>1, <3>2, <2>2, <1>1
  <2> QED
    BY <2>1, <2>2
<1>9. \A e \in evolve : /\ e[1] \in Messages \ {m} /\ e[2] \in Messages \ {m}
                         /\ post[e[1]] # "none" /\ post[e[2]] # "none"
  BY <1>1 DEF XInv, Quoted
<1>10. JobsQuoteTheExchange'
  <2> SUFFICES ASSUME NEW e \in evolve
               PROVE  /\ place'[e[1]] = place'[e[2]]
                      /\ said'[e[1]] = "user" /\ said'[e[2]] = "assistant"
                      /\ \A u \in before'[e[2]] : Index(u)' <= Index(e[1])'
    BY <1>1, Zenon DEF JobsQuoteTheExchange
  <2>1. /\ place[e[1]] = place[e[2]]
        /\ said[e[1]] = "user" /\ said[e[2]] = "assistant"
        /\ \A u \in before[e[2]] : Index(u) <= Index(e[1])
    BY DEF XInv, Quoted, JobsQuoteTheExchange
  <2>2. \A u \in before[e[2]] : u \in Messages /\ post[u] # "none"
    BY <1>9 DEF XInv, Quoted, Stored
  <2>3. \A u \in before'[e[2]] : Index(u)' <= Index(e[1])'
    BY <2>1, <2>2, <1>1, <1>6, <1>9
  <2> QED
    BY <2>1, <2>3, <1>1, <1>9
<1> QED
  BY <1>1, <1>5, <1>8, <1>9, <1>10 DEF Quoted

LEMMA QuotedAsk ==
  ASSUME XInv, NEW m \in Messages, Ask(m)
  PROVE  Ordered' /\ Quoted'
<1>1. /\ post[m] = "asking" /\ post'[m] = "committed"
      /\ \A n \in Messages \ {m} : post'[n] = post[n]
      /\ UNCHANGED <<place, said, order, before>>
  BY DEF Ask, XInv, HInv, ExchangesTypeOK
<1>2. \A n \in Messages : /\ post'[n] = "none" <=> post[n] = "none"
                          /\ post[n] \in Stored => post'[n] \in Stored
  BY <1>1 DEF Stored
<1>3. CASE evolve' = evolve
  BY <1>1, <1>2, <1>3, QuotedStay
<1>4. ASSUME NEW u \in LatestOf(UsersIn(place[m])), evolve' = evolve \cup {<<u, m>>}
      PROVE  Ordered' /\ Quoted'
  <2>1. /\ u \in Messages /\ post[u] # "none" /\ place[u] = place[m] /\ said[u] = "user"
        /\ \A n \in UsersIn(place[m]) : Index(n) <= Index(u)
    BY <1>4 DEF LatestOf, UsersIn, Committed, Of
  <2>2. \A b \in before[m] : Index(b) <= Index(u)
    <3> SUFFICES ASSUME NEW b \in before[m] PROVE b \in UsersIn(place[m])
      BY <2>1
    <3>1. b \in Messages /\ post[b] \in Stored /\ place[b] = place[m] /\ said[b] = "user"
      BY DEF XInv, Quoted
    <3>2. session[place[m]] = "live"
      BY <1>1 DEF XInv, HInv, Housed, Kept
    <3>3. post[b] # "gone"
      BY <3>1, <3>2 DEF XInv, HInv, Housed
    <3> QED
      BY <3>1, <3>3 DEF UsersIn, Committed, Of, Stored
  <2>3. said[m] = "assistant"
    BY <1>1 DEF XInv, HInv, Housed
  <2>4. \A n : Index(n)' = Index(n)
    BY <1>1 DEF Index
  <2>5. <<u, m>>[1] = u /\ <<u, m>>[2] = m
    OBVIOUS
  <2>6. Ordered'
    BY <1>1, <1>2 DEF XInv, Ordered
  <2>7. \A e \in evolve' : \/ e \in evolve
                           \/ e[1] = u /\ e[2] = m
    BY <1>4, <2>5
  <2>8. JobsQuoteTheExchange'
    BY <1>1, <2>1, <2>2, <2>3, <2>4, <2>7 DEF XInv, Quoted, JobsQuoteTheExchange
  <2> QED
    BY <1>1, <1>2, <2>1, <2>6, <2>7, <2>8 DEF XInv, Quoted
<1> QED
  BY <1>3, <1>4 DEF Ask

LEMMA QuotedNext == XInv /\ [ExchangesNext]_exchangeVars => XInv'
<1> SUFFICES ASSUME XInv, [ExchangesNext]_exchangeVars PROVE XInv'
  OBVIOUS
<1>1. HInv'
  BY HousedNext DEF XInv
<1>2. ASSUME NEW m \in Messages, NEW s \in Sessions, NEW role \in {"user", "assistant"},
             InsertMessage(m, s, role)
      PROVE  Ordered' /\ Quoted'
  BY <1>1, <1>2, QuotedInsert
<1>3. ASSUME NEW m \in Messages, Ask(m) PROVE Ordered' /\ Quoted'
  BY <1>3, QuotedAsk
<1>4. ASSUME UNCHANGED <<post, place, said, order, before, evolve>> PROVE Ordered' /\ Quoted'
  BY <1>4, QuotedStay
<1>5. ASSUME NEW m \in Messages, CommitMessage(m) \/ AbandonMessage(m) PROVE Ordered' /\ Quoted'
  <2>1. \A n \in Messages : /\ post'[n] = "none" <=> post[n] = "none"
                            /\ post[n] \in Stored => post'[n] \in Stored
    BY <1>5 DEF CommitMessage, AbandonMessage, Stored, XInv, HInv, ExchangesTypeOK
  <2> QED
    BY <1>5, <2>1, QuotedStay DEF CommitMessage, AbandonMessage
<1>6. ASSUME NEW d \in Removals, RemoveSession(d) PROVE Ordered' /\ Quoted'
  <2>1. \A n \in Messages : post'[n] = post[n] \/ (n \in spent[d] /\ post'[n] = "gone")
    BY <1>6 DEF RemoveSession, Spend, XInv, HInv, ExchangesTypeOK
  <2>2. \A n \in Messages : /\ post'[n] = "none" <=> post[n] = "none"
                            /\ post[n] \in Stored => post'[n] \in Stored
    BY <2>1 DEF Stored, XInv, HInv, Housed
  <2> QED
    BY <1>6, <2>2, QuotedStay DEF RemoveSession
<1>7. \/ \E m \in Messages, s \in Sessions, role \in {"user", "assistant"} :
           InsertMessage(m, s, role)
      \/ \E m \in Messages : CommitMessage(m) \/ AbandonMessage(m) \/ Ask(m)
      \/ \E d \in Removals : RemoveSession(d)
      \/ UNCHANGED <<post, place, said, order, before, evolve>>
  BY DEF ExchangesNext, exchangeVars, conversation, CreateSession, BeginRemoval, RemoveMessages,
         EditTrait, Evaluate, Apply
<1> QED
  BY <1>1, <1>2, <1>3, <1>4, <1>5, <1>6, <1>7 DEF XInv

LEMMA QuotedAlways == ExchangesSpec => []XInv
BY QuotedInit, QuotedNext, PTL DEF ExchangesSpec

(* Every variable stays within its range, for any number of sessions,       *)
(* messages and jobs.                                                       *)
THEOREM ExchangesTypeAlways == ExchangesSpec => []ExchangesTypeOK
<1>1. XInv => ExchangesTypeOK
  BY DEF XInv, HInv
<1> QED
  BY QuotedAlways, <1>1, PTL

(* However messages, deletions and jobs overlap: no message outlives its    *)
(* session (session_service.py), and an evolution job quotes a reply with   *)
(* what it answers (api/sessions.py).                                       *)
THEOREM ExchangesHoldAlways == ExchangesSpec => []ExchangesHold
<1>1. XInv => ExchangesHold
  BY DEF XInv, HInv, Housed, Kept, Quoted, ExchangesHold, NoOrphans, Committed
<1> QED
  BY QuotedAlways, <1>1, PTL

-----------------------------------------------------------------------------
(* Narratives                                                              *)

(* What is written is about a story, at a moment that was. *)
Told ==
  /\ \A e \in WrittenEpisodes : episode[e].story \in Stories /\ episode[e].time \in 1 .. moment
  /\ \A a \in Made : arc[a].story \in Stories
  /\ announced \cap Points \subseteq WrittenEpisodes

(* An attempt has written what bears its moment, and announced none of it;  *)
(* the first has not written yet about what it has left.                    *)
Attempts ==
  \A j \in Reflections :
    /\ reflect[j].at = "off" => \A e \in WrittenEpisodes : episode[e].job # j
    /\ reflect[j].at = "failed" => j \in breaks
    /\ reflect[j].at = "writing" =>
         /\ reflect[j].known \subseteq 1 .. moment
         /\ reflect[j].wrote = {e \in WrittenEpisodes : /\ episode[e].job = j
                                                       /\ episode[e].time \in reflect[j].known}
         /\ reflect[j].wrote \cap announced = {}
         /\ j \notin breaks => \A e \in WrittenEpisodes :
                                 episode[e].job = j => episode[e].story \notin reflect[j].left

(* An arc that a synthesis does not know of, though it is about to write    *)
(* about its story, is one of a doubtful story.                             *)
Overlaps ==
  \A k \in Syntheses : InTheMiddle(k) =>
    \A a \in Made \ synth[k].known :
      arc[a].story \in synth[k].left => arc[a].story \in doubtful

Counted == IsFiniteSet(WrittenEpisodes) /\ FewAreRecent

(* The user's episodes are in the collection of the user's tenant.          *)
Shelved ==
  collections = [t \in TenantIds |-> IF t = tenantId THEN WrittenEpisodes ELSE {}]

(* The records of an attempt, of a reflection and of a synthesis.           *)
Attempt(stages, stories, knows, wrotes) ==
  [at : stages, left : SUBSET stories, known : SUBSET knows, wrote : SUBSET wrotes]

NInv ==
  /\ NarrativesTypeOK /\ Told /\ Attempts /\ EpisodesOnce /\ Overlaps /\ OneArcPerStory
  /\ Counted /\ Shelved

LEMMA NarrativesBegin == NarrativesInit => NInv
<1> SUFFICES ASSUME NarrativesInit
             PROVE  NInv
  OBVIOUS
<1>1. WrittenEpisodes = {} /\ Made = {}
  BY DEF NarrativesInit, WrittenEpisodes, Made
<1>2. NarrativesTypeOK
  BY NarrativesAssumption DEF NarrativesInit, NarrativesTypeOK, NoEpisode, NoArc, Unstarted
<1>3. Told /\ EpisodesOnce /\ OneArcPerStory
  BY <1>1 DEF NarrativesInit, Told, EpisodesOnce, OneArcPerStory
<1>4. Attempts
  BY <1>1 DEF NarrativesInit, Attempts, Unstarted
<1>5. Overlaps
  BY DEF NarrativesInit, Overlaps, InTheMiddle, Unstarted
<1>6. IsFiniteSet(WrittenEpisodes)
  BY <1>1, FS_EmptySet
<1>7. FewAreRecent
  BY DEF NarrativesInit, FewAreRecent, RecentAreNewest
<1>8. Shelved
  BY <1>1 DEF NarrativesInit, Shelved
<1> QED
  BY <1>2, <1>3, <1>4, <1>5, <1>6, <1>7, <1>8 DEF NInv, Counted

(* What reflection does leaves the arcs alone, and what synthesis does the  *)
(* episodes.                                                                *)
LEMMA ArcsKept ==
  ASSUME NInv, UNCHANGED arcs
  PROVE  Overlaps' /\ OneArcPerStory' /\ Made' = Made
BY DEF NInv, arcs, Overlaps, InTheMiddle, OneArcPerStory, Made

LEMMA EpisodesKept ==
  ASSUME NInv, UNCHANGED episodes, announced \subseteq announced',
         announced' \subseteq announced \cup ArcIds
  PROVE  Attempts' /\ EpisodesOnce' /\ Shelved' /\ WrittenEpisodes' = WrittenEpisodes
<1>1. WrittenEpisodes' = WrittenEpisodes
  BY DEF episodes, WrittenEpisodes
<1>2. \A e \in Points : e \in announced' <=> e \in announced
  BY NarrativesAssumption
<1>3. WrittenEpisodes \subseteq Points
  BY DEF WrittenEpisodes
<1>4. \A j \in Reflections : reflect[j].wrote \subseteq Points
  BY DEF NInv, NarrativesTypeOK
<1>5. Attempts'
  <2> SUFFICES ASSUME NEW j \in Reflections
               PROVE  /\ reflect[j].at = "off" => \A e \in WrittenEpisodes : episode[e].job # j
                      /\ reflect[j].at = "failed" => j \in breaks
                      /\ reflect[j].at = "writing" =>
                           /\ reflect[j].known \subseteq 1 .. moment
                           /\ reflect[j].wrote =
                                {e \in WrittenEpisodes : /\ episode[e].job = j
                                                         /\ episode[e].time \in reflect[j].known}
                           /\ reflect[j].wrote \cap announced' = {}
                           /\ j \notin breaks => \A e \in WrittenEpisodes :
                                episode[e].job = j => episode[e].story \notin reflect[j].left
    BY <1>1 DEF Attempts, episodes
  <2> QED
    BY <1>2, <1>4 DEF NInv, Attempts
<1>6. EpisodesOnce'
  BY <1>1, <1>2, <1>3 DEF NInv, EpisodesOnce, episodes
<1>7. Shelved'
  BY <1>1 DEF NInv, Shelved, episodes
<1> QED
  BY <1>1, <1>5, <1>6, <1>7

LEMMA ReflectKeeps ==
  ASSUME NInv, NEW j \in Reflections, Reflect(j)
  PROVE  NInv'
<1> USE DEF NInv
<1>1. PICK tale \in SUBSET Stories :
        reflect' = [reflect EXCEPT ![j] = [at |-> "writing", left |-> tale, known |-> {moment + 1},
                                           wrote |-> {}]]
  BY DEF Reflect
<1>2. UNCHANGED <<tenantId, collections, episode, breaks, announced, broken>> /\ UNCHANGED arcs /\ moment' = moment + 1
      /\ reflect[j].at \in {"off", "failed"} /\ moment \in Nat
  BY DEF Reflect, NarrativesTypeOK
<1>3. WrittenEpisodes' = WrittenEpisodes /\ WrittenEpisodes \subseteq Points
  BY <1>2 DEF WrittenEpisodes
<1>4. NarrativesTypeOK'
  BY <1>1, <1>2 DEF NarrativesTypeOK, arcs
<1>5. Overlaps' /\ OneArcPerStory' /\ Made' = Made
  BY <1>2, ArcsKept
<1>6. Told'
  BY <1>2, <1>3, <1>5 DEF Told, arcs
<1>7. Attempts'
  <2> SUFFICES ASSUME NEW i \in Reflections
               PROVE  /\ reflect'[i].at = "off" => \A e \in WrittenEpisodes : episode[e].job # i
                      /\ reflect'[i].at = "failed" => i \in breaks
                      /\ reflect'[i].at = "writing" =>
                           /\ reflect'[i].known \subseteq 1 .. moment'
                           /\ reflect'[i].wrote =
                                {e \in WrittenEpisodes : /\ episode[e].job = i
                                                         /\ episode[e].time \in reflect'[i].known}
                           /\ reflect'[i].wrote \cap announced = {}
                           /\ i \notin breaks => \A e \in WrittenEpisodes :
                                episode[e].job = i => episode[e].story \notin reflect'[i].left
    BY <1>2, <1>3 DEF Attempts
  <2>1. CASE i = j
    <3>1. reflect'[i] = [at |-> "writing", left |-> tale, known |-> {moment + 1}, wrote |-> {}]
      BY <1>1, <2>1 DEF NarrativesTypeOK
    <3>2. \A e \in WrittenEpisodes : episode[e].time # moment + 1
      BY <1>2 DEF Told
    <3>3. i \notin breaks => reflect[i].at = "off"
      BY <1>2, <2>1 DEF Attempts
    <3>4. reflect'[i].known \subseteq 1 .. moment'
      BY <1>2, <3>1
    <3>5. reflect'[i].wrote = {e \in WrittenEpisodes : /\ episode[e].job = i
                                                      /\ episode[e].time \in reflect'[i].known}
      BY <3>1, <3>2
    <3>6. i \notin breaks => \A e \in WrittenEpisodes : episode[e].job # i
      BY <3>3 DEF Attempts
    <3> QED
      BY <3>1, <3>4, <3>5, <3>6
  <2>2. CASE i # j
    <3>1. reflect'[i] = reflect[i]
      BY <1>1, <2>2 DEF NarrativesTypeOK
    <3>2. 1 .. moment \subseteq 1 .. moment'
      BY <1>2
    <3> QED
      BY <3>1, <3>2 DEF Attempts
  <2> QED
    BY <2>1, <2>2
<1>8. EpisodesOnce' /\ Counted' /\ Shelved'
  BY <1>2, <1>3 DEF EpisodesOnce, Counted, Shelved, FewAreRecent, RecentAreNewest, arcs
<1> QED
  BY <1>4, <1>5, <1>6, <1>7, <1>8

LEMMA WriteEpisodeKeeps ==
  ASSUME NInv, NEW j \in Reflections, WriteEpisode(j)
  PROVE  NInv'
<1> USE DEF NInv
<1> DEFINE r == reflect[j]
<1>1. PICK s \in r.left, p \in Points \ WrittenEpisodes, now \in r.known :
        /\ episode' = [episode EXCEPT ![p] = [story |-> s, job |-> j, time |-> now]]
        /\ collections' = [collections EXCEPT ![tenantId] = @ \cup {p}]
        /\ reflect' = [reflect EXCEPT ![j].left = @ \ {s}, ![j].wrote = @ \cup {p}]
  BY DEF WriteEpisode
<1>2. UNCHANGED <<tenantId, moment, breaks, announced, broken>> /\ UNCHANGED arcs /\ r.at = "writing"
  BY DEF WriteEpisode
<1>3. s \in Stories /\ now \in 1 .. moment /\ moment \in Nat /\ p \in Points
  BY <1>1, <1>2 DEF NarrativesTypeOK, Attempts
<1>4. WrittenEpisodes' = WrittenEpisodes \cup {p}
  BY <1>1, <1>3, NarrativesAssumption DEF WrittenEpisodes, NoEpisode, NarrativesTypeOK
<1>5. p \notin announced
  BY <1>1, <1>3 DEF Told
<1>6. episode'[p] = [story |-> s, job |-> j, time |-> now]
      /\ \A e \in WrittenEpisodes : episode'[e] = episode[e] /\ e # p
  BY <1>1, <1>3 DEF NarrativesTypeOK, WrittenEpisodes
<1>7. /\ reflect'[j].at = "writing" /\ reflect'[j].left = r.left \ {s}
      /\ reflect'[j].known = r.known /\ reflect'[j].wrote = r.wrote \cup {p}
      /\ \A i \in Reflections \ {j} : reflect'[i] = reflect[i]
  BY <1>1, <1>2 DEF NarrativesTypeOK
<1>8. NarrativesTypeOK'
  <2>1. episode' \in [Points -> [story : Stories \cup {NoStory}, job : Reflections \cup {NoStory},
                                 time : Nat]]
    BY <1>1, <1>3 DEF NarrativesTypeOK
  <2>2. reflect' \in [Reflections -> [at : {"off", "writing", "done", "failed"},
                                      left : SUBSET Stories, known : SUBSET Nat,
                                      wrote : SUBSET Points]]
    <3>1. r \in Attempt({"off", "writing", "done", "failed"}, Stories, Nat, Points)
      BY DEF NarrativesTypeOK, Attempt
    <3> DEFINE rec == [r EXCEPT !.left = @ \ {s}, !.wrote = @ \cup {p}]
    <3>2. rec \in Attempt({"off", "writing", "done", "failed"}, Stories, Nat, Points)
      BY <1>3, <3>1 DEF Attempt
    <3>3. reflect' = [reflect EXCEPT ![j] = rec]
      BY <1>1
    <3> HIDE DEF rec
    <3> QED
      BY <3>2, <3>3 DEF NarrativesTypeOK, Attempt
  <2>3. collections' \in [TenantIds -> SUBSET Points]
    BY <1>1, <1>3 DEF NarrativesTypeOK
  <2> QED
    BY <1>2, <2>1, <2>2, <2>3 DEF NarrativesTypeOK, arcs
<1>9. Overlaps' /\ OneArcPerStory' /\ Made' = Made
  BY <1>2, ArcsKept
<1>10. Told'
  BY <1>2, <1>3, <1>4, <1>6, <1>9 DEF Told, arcs
<1>11. Attempts'
  <2> SUFFICES ASSUME NEW i \in Reflections
               PROVE  /\ reflect'[i].at = "off" => \A e \in WrittenEpisodes' : episode'[e].job # i
                      /\ reflect'[i].at = "failed" => i \in breaks
                      /\ reflect'[i].at = "writing" =>
                           /\ reflect'[i].known \subseteq 1 .. moment
                           /\ reflect'[i].wrote =
                                {e \in WrittenEpisodes' : /\ episode'[e].job = i
                                                          /\ episode'[e].time \in reflect'[i].known}
                           /\ reflect'[i].wrote \cap announced = {}
                           /\ i \notin breaks => \A e \in WrittenEpisodes' :
                                episode'[e].job = i => episode'[e].story \notin reflect'[i].left
    BY <1>2 DEF Attempts
  <2>1. CASE i = j
    <3>1. r.wrote = {e \in WrittenEpisodes : episode[e].job = j /\ episode[e].time \in r.known}
          /\ r.wrote \cap announced = {} /\ r.known \subseteq 1 .. moment
          /\ (j \notin breaks => \A e \in WrittenEpisodes :
                                   episode[e].job = j => episode[e].story \notin r.left)
      BY <1>2 DEF Attempts
    <3>2. reflect'[j].wrote = {e \in WrittenEpisodes' : episode'[e].job = j
                                                        /\ episode'[e].time \in reflect'[j].known}
      <4>1. \A e \in WrittenEpisodes :
              e \in r.wrote <=> episode'[e].job = j /\ episode'[e].time \in r.known
        BY <1>6, <3>1
      <4>2. episode'[p].job = j /\ episode'[p].time \in r.known
        BY <1>1, <1>6
      <4>3. r.wrote \subseteq WrittenEpisodes
        BY <3>1
      <4> QED
        BY <1>4, <1>7, <4>1, <4>2, <4>3
    <3>3. j \notin breaks => \A e \in WrittenEpisodes' :
                               episode'[e].job = j => episode'[e].story \notin reflect'[j].left
      BY <1>4, <1>6, <1>7, <3>1
    <3> QED
      BY <1>5, <1>7, <2>1, <3>1, <3>2, <3>3
  <2>2. CASE i # j
    <3>1. reflect'[i] = reflect[i]
      BY <1>7, <2>2
    <3> QED
      BY <1>4, <1>6, <2>2, <3>1 DEF Attempts
  <2> QED
    BY <2>1, <2>2
<1>12. EpisodesOnce'
  <2> SUFFICES ASSUME NEW d \in WrittenEpisodes', NEW e \in WrittenEpisodes'
               PROVE  /\ d # e /\ episode'[d].job = episode'[e].job
                         /\ episode'[d].story = episode'[e].story => episode'[d].job \in breaks
                      /\ e \in announced /\ episode'[d].job = episode'[e].job
                         /\ episode'[d].time = episode'[e].time => d \in announced
    BY <1>2 DEF EpisodesOnce
  <2>1. \A f \in WrittenEpisodes :
          /\ episode[f].job = j /\ j \notin breaks => episode[f].story # s
          /\ episode[f].job = j /\ episode[f].time = now => f \notin announced
    BY <1>1, <1>2 DEF Attempts
  <2> QED
    BY <1>4, <1>5, <1>6, <2>1 DEF EpisodesOnce
<1>13. Counted'
  <2>1. IsFiniteSet(WrittenEpisodes') /\ Cardinality(WrittenEpisodes') = Cardinality(WrittenEpisodes) + 1
    BY <1>1, <1>4, FS_AddElement DEF Counted
  <2>2. Cardinality(WrittenEpisodes) \in Nat /\ Scroll \in Nat
    BY FS_CardinalityType, NarrativesAssumption DEF Counted
  <2> QED
    BY <1>2, <2>1, <2>2 DEF Counted, FewAreRecent, RecentAreNewest, arcs
<1>14. Shelved'
  BY <1>1, <1>2, <1>4 DEF Shelved, NarrativesTypeOK
<1> QED
  BY <1>8, <1>9, <1>10, <1>11, <1>12, <1>13, <1>14

LEMMA TellEpisodesKeeps ==
  ASSUME NInv, NEW j \in Reflections, TellEpisodes(j)
  PROVE  NInv'
<1> USE DEF NInv
<1> DEFINE r == reflect[j]
<1>1. /\ announced' = announced \cup r.wrote /\ reflect' = [reflect EXCEPT ![j].at = "done"]
      /\ UNCHANGED <<tenantId, collections, episode, moment, breaks, broken>> /\ UNCHANGED arcs /\ r.at = "writing"
  BY DEF TellEpisodes
<1>2. r.wrote = {e \in WrittenEpisodes : episode[e].job = j /\ episode[e].time \in r.known}
  BY <1>1 DEF Attempts
<1>3. WrittenEpisodes' = WrittenEpisodes /\ WrittenEpisodes \subseteq Points
  BY <1>1 DEF WrittenEpisodes
<1>4. NarrativesTypeOK'
  <2>1. reflect' \in [Reflections -> Attempt({"off", "writing", "done", "failed"}, Stories, Nat, Points)]
    <3>1. reflect[j] \in Attempt({"off", "writing", "done", "failed"}, Stories, Nat, Points)
      BY DEF NarrativesTypeOK, Attempt
    <3> DEFINE rec == [reflect[j] EXCEPT !.at = "done"]
    <3>2. rec \in Attempt({"off", "writing", "done", "failed"}, Stories, Nat, Points)
      BY <3>1 DEF Attempt
    <3>3. reflect' = [reflect EXCEPT ![j] = rec]
      BY <1>1
    <3> HIDE DEF rec
    <3> QED
      BY <3>2, <3>3 DEF NarrativesTypeOK, Attempt
  <2> QED
    BY <1>1, <1>2, <1>3, <2>1 DEF NarrativesTypeOK, Attempt, arcs
<1>5. Overlaps' /\ OneArcPerStory' /\ Made' = Made
  BY <1>1, ArcsKept
<1>6. Told'
  BY <1>1, <1>2, <1>3, <1>5 DEF Told, arcs
<1>7. reflect'[j].at = "done" /\ \A i \in Reflections \ {j} : reflect'[i] = reflect[i]
  BY <1>1 DEF NarrativesTypeOK
<1>8. Attempts'
  <2> SUFFICES ASSUME NEW i \in Reflections, i # j
               PROVE  /\ reflect'[i].at = "off" => \A e \in WrittenEpisodes : episode[e].job # i
                      /\ reflect'[i].at = "failed" => i \in breaks
                      /\ reflect'[i].at = "writing" =>
                           /\ reflect'[i].known \subseteq 1 .. moment
                           /\ reflect'[i].wrote =
                                {e \in WrittenEpisodes : /\ episode[e].job = i
                                                         /\ episode[e].time \in reflect'[i].known}
                           /\ reflect'[i].wrote \cap announced' = {}
                           /\ i \notin breaks => \A e \in WrittenEpisodes :
                                episode[e].job = i => episode[e].story \notin reflect'[i].left
    BY <1>1, <1>3, <1>7 DEF Attempts
  <2>1. reflect'[i] = reflect[i]
    BY <1>7
  <2>2. reflect[i].at = "writing" => reflect[i].wrote \cap r.wrote = {}
    BY <1>2 DEF Attempts
  <2> QED
    BY <1>1, <2>1, <2>2 DEF Attempts
<1>9. EpisodesOnce'
  BY <1>1, <1>2, <1>3 DEF EpisodesOnce
<1>10. Counted' /\ Shelved'
  BY <1>1, <1>3 DEF Counted, Shelved, FewAreRecent, RecentAreNewest, arcs
<1> QED
  BY <1>4, <1>5, <1>6, <1>8, <1>9, <1>10

LEMMA BreakReflectionKeeps ==
  ASSUME NInv, NEW j \in Reflections, BreakReflection(j)
  PROVE  NInv'
<1> USE DEF NInv
<1>1. /\ reflect' = [reflect EXCEPT ![j].at = "failed"] /\ breaks' = breaks \cup {j}
      /\ broken < MaxBreaks /\ broken' = broken + 1
      /\ UNCHANGED <<tenantId, collections, episode, moment, announced>> /\ UNCHANGED arcs
  BY DEF BreakReflection
<1>2. WrittenEpisodes' = WrittenEpisodes
  BY <1>1 DEF WrittenEpisodes
<1>3. NarrativesTypeOK'
  <2>1. reflect' \in [Reflections -> Attempt({"off", "writing", "done", "failed"}, Stories, Nat, Points)]
    <3>1. reflect[j] \in Attempt({"off", "writing", "done", "failed"}, Stories, Nat, Points)
      BY DEF NarrativesTypeOK, Attempt
    <3> DEFINE rec == [reflect[j] EXCEPT !.at = "failed"]
    <3>2. rec \in Attempt({"off", "writing", "done", "failed"}, Stories, Nat, Points)
      BY <3>1 DEF Attempt
    <3>3. reflect' = [reflect EXCEPT ![j] = rec]
      BY <1>1
    <3> HIDE DEF rec
    <3> QED
      BY <3>2, <3>3 DEF NarrativesTypeOK, Attempt
  <2> QED
    BY <1>1, <2>1, NarrativesAssumption DEF NarrativesTypeOK, Attempt, arcs
<1>4. Overlaps' /\ OneArcPerStory' /\ Made' = Made
  BY <1>1, ArcsKept
<1>5. Told' /\ EpisodesOnce' /\ Counted' /\ Shelved'
  BY <1>1, <1>2, <1>4 DEF Told, EpisodesOnce, Counted, Shelved, FewAreRecent, RecentAreNewest, arcs
<1>6. reflect'[j].at = "failed" /\ \A i \in Reflections \ {j} : reflect'[i] = reflect[i]
  BY <1>1 DEF NarrativesTypeOK
<1>7. Attempts'
  BY <1>1, <1>2, <1>6 DEF Attempts
<1> QED
  BY <1>3, <1>4, <1>5, <1>7

(* Of a set that is small enough the first are all. *)
LEMMA FewAreFirst ==
  ASSUME NEW set, set \subseteq Nat, IsFiniteSet(set), NEW n \in Nat, Cardinality(set) <= n,
         NEW x \in set
  PROVE  Cardinality({y \in set : y < x}) < n
<1> DEFINE below == {y \in set : y < x}
<1>1. below \subseteq set /\ x \notin below
  OBVIOUS
<1>2. IsFiniteSet(below) /\ Cardinality(below) < Cardinality(set)
  <2>1. below # set
    BY <1>1
  <2>2. IsFiniteSet(below) /\ Cardinality(below) <= Cardinality(set)
        /\ (Cardinality(below) = Cardinality(set) => below = set)
    BY <1>1, FS_Subset
  <2>3. Cardinality(below) \in Nat /\ Cardinality(set) \in Nat
    BY <2>2, FS_CardinalityType
  <2> HIDE DEF below
  <2> QED
    BY <2>1, <2>2, <2>3
<1>3. Cardinality(below) \in Nat /\ Cardinality(set) \in Nat
  BY <1>2, FS_CardinalityType
<1> QED
  BY <1>2, <1>3

LEMMA ReadEpisodesKeeps ==
  ASSUME NInv, NEW k \in Syntheses, ReadEpisodes(k)
  PROVE  NInv'
<1> USE DEF NInv
<1> DEFINE passed == {e \in Newest(WrittenEpisodes) : \A d \in Recent : Newer(e, d)}
<1>1. /\ synth' = [synth EXCEPT ![k] = [at |-> "reading",
                                        left |-> {episode[e].story : e \in Recent},
                                        known |-> {}, wrote |-> {}]]
      /\ missed' = missed \cup passed
      /\ UNCHANGED <<arc, stir, doubtful, announced, broken>> /\ UNCHANGED episodes
  BY DEF ReadEpisodes
<1>2. \A set : Newest(set) \subseteq set
  BY DEF Newest, FirstBy
<1>3. Recent \subseteq WrittenEpisodes /\ WrittenEpisodes \subseteq Points
      /\ (tenantId = DefaultTenantId => Collection = WrittenEpisodes)
  <2>1. Collection \subseteq WrittenEpisodes
        /\ (tenantId = DefaultTenantId => Collection = WrittenEpisodes)
    BY NarrativesAssumption DEF Collection, Shelved
  <2>2. Recent \subseteq Collection
    BY <1>2 DEF Recent, FirstBy
  <2> QED
    BY <2>1, <2>2 DEF WrittenEpisodes
<1>4. {episode[e].story : e \in Recent} \subseteq Stories
  BY <1>3 DEF Told
<1>5. passed \subseteq Points
  BY <1>2, <1>3
<1>6. tenantId = DefaultTenantId /\ passed # {} => Cardinality(WrittenEpisodes) > Scroll
  <2> SUFFICES ASSUME ~(Cardinality(WrittenEpisodes) > Scroll), tenantId = DefaultTenantId
               PROVE  passed = {}
    OBVIOUS
  <2>1. Cardinality(WrittenEpisodes) \in Nat /\ Scroll \in Nat /\ WrittenEpisodes \subseteq Nat
        /\ IsFiniteSet(WrittenEpisodes)
    BY <1>3, FS_CardinalityType, NarrativesAssumption DEF Counted
  <2>2. \A x \in WrittenEpisodes : Cardinality({y \in WrittenEpisodes : y < x}) < Scroll
    <3> SUFFICES ASSUME NEW x \in WrittenEpisodes
                 PROVE  Cardinality({y \in WrittenEpisodes : y < x}) < Scroll
      OBVIOUS
    <3>1. Cardinality(WrittenEpisodes) <= Scroll
      BY <2>1
    <3> QED
      BY <2>1, <3>1, FewAreFirst
  <2>3. Recent = Newest(WrittenEpisodes)
    <3>1. {x \in WrittenEpisodes : Cardinality({y \in WrittenEpisodes : y < x}) < Scroll}
            = WrittenEpisodes
      BY <2>2
    <3> QED
      BY <1>3, <3>1 DEF Recent, FirstBy
  <2>4. \A e \in WrittenEpisodes : ~Newer(e, e)
    BY <1>3 DEF Newer, NarrativesTypeOK
  <2> QED
    BY <1>2, <2>3, <2>4
<1> HIDE DEF passed
<1>7. NarrativesTypeOK'
  BY <1>1, <1>4, <1>5 DEF NarrativesTypeOK, episodes
<1>8. Attempts' /\ EpisodesOnce' /\ Shelved' /\ WrittenEpisodes' = WrittenEpisodes
  BY <1>1, EpisodesKept
<1>9. Told' /\ OneArcPerStory' /\ Made' = Made
  BY <1>1, <1>8 DEF Told, Made, OneArcPerStory, episodes
<1>10. Overlaps'
  BY <1>1, <1>9 DEF Overlaps, InTheMiddle, NarrativesTypeOK
<1>11. Counted'
  BY <1>1, <1>6, <1>8 DEF Counted, FewAreRecent, RecentAreNewest, episodes
<1> QED
  BY <1>7, <1>8, <1>9, <1>10, <1>11

LEMMA ReadArcsKeeps ==
  ASSUME NInv, NEW k \in Syntheses, ReadArcs(k)
  PROVE  NInv'
<1> USE DEF NInv
<1>1. PICK chosen \in SUBSET synth[k].left :
        synth' = [synth EXCEPT ![k].at = "writing", ![k].left = chosen, ![k].known = ActiveArcs]
  BY DEF ReadArcs
<1>2. /\ doubtful' = doubtful \cup {arc[a].story : a \in Made \ ActiveArcs}
      /\ UNCHANGED <<arc, stir, missed, announced, broken>> /\ UNCHANGED episodes
  BY DEF ReadArcs
<1>3. ActiveArcs \subseteq Made /\ Made \subseteq ArcIds
  BY DEF ActiveArcs, FirstBy, Made
<1>4. {arc[a].story : a \in Made \ ActiveArcs} \subseteq Stories
  BY <1>3 DEF Told
<1>5. NarrativesTypeOK'
  <2>1. synth' \in [Syntheses ->
                   Attempt({"off", "reading", "writing", "done", "failed"}, Stories, ArcIds, ArcIds)]
    <3>1. synth[k] \in Attempt({"off", "reading", "writing", "done", "failed"}, Stories, ArcIds, ArcIds)
      BY DEF NarrativesTypeOK, Attempt
    <3> DEFINE rec == [synth[k] EXCEPT !.at = "writing", !.left = chosen, !.known = ActiveArcs]
    <3>2. rec \in Attempt({"off", "reading", "writing", "done", "failed"}, Stories, ArcIds, ArcIds)
      BY <1>3, <3>1 DEF Attempt
    <3>3. synth' = [synth EXCEPT ![k] = rec]
      BY <1>1
    <3> HIDE DEF rec
    <3> QED
      BY <3>2, <3>3 DEF NarrativesTypeOK, Attempt
  <2> QED
    BY <1>2, <1>4, <2>1 DEF NarrativesTypeOK, Attempt, episodes
<1>6. Attempts' /\ EpisodesOnce' /\ Shelved' /\ WrittenEpisodes' = WrittenEpisodes
  BY <1>2, EpisodesKept
<1>7. Told' /\ OneArcPerStory' /\ Made' = Made /\ Counted'
  BY <1>2, <1>6 DEF Told, Made, OneArcPerStory, Counted, FewAreRecent, RecentAreNewest, episodes
<1>8. Overlaps'
  <2>1. synth'[k].known = ActiveArcs /\ \A o \in Syntheses \ {k} : synth'[o] = synth[o]
    BY <1>1 DEF NarrativesTypeOK
  <2> QED
    BY <1>2, <1>7, <2>1 DEF Overlaps, InTheMiddle
<1> QED
  BY <1>5, <1>6, <1>7, <1>8

LEMMA PutArcKeeps ==
  ASSUME NInv, NEW k \in Syntheses, PutArc(k)
  PROVE  NInv'
<1> USE DEF NInv
<1>1. PICK s \in synth[k].left, status \in {"active", "closed"} :
        LET old == {a \in synth[k].known : arc[a].story = s} IN
        \E a \in IF old # {} THEN old ELSE ArcIds \ Made :
          /\ arc' = [arc EXCEPT ![a] = [story |-> s, status |-> status, time |-> stir + 1]]
          /\ synth' = [synth EXCEPT ![k].left = @ \ {s}, ![k].wrote = @ \cup {a}]
          /\ doubtful' = IF old = {} /\ \E o \in Syntheses \ {k} : InTheMiddle(o)
                         THEN doubtful \cup {s} ELSE doubtful
  BY DEF PutArc
<1> DEFINE old == {a \in synth[k].known : arc[a].story = s}
<1>2. PICK a \in IF old # {} THEN old ELSE ArcIds \ Made :
          /\ arc' = [arc EXCEPT ![a] = [story |-> s, status |-> status, time |-> stir + 1]]
          /\ synth' = [synth EXCEPT ![k].left = @ \ {s}, ![k].wrote = @ \cup {a}]
          /\ doubtful' = IF old = {} /\ \E o \in Syntheses \ {k} : InTheMiddle(o)
                         THEN doubtful \cup {s} ELSE doubtful
  BY <1>1
<1>3. /\ UNCHANGED <<missed, announced, broken>> /\ UNCHANGED episodes
      /\ stir' = stir + 1 /\ InTheMiddle(k)
  BY DEF PutArc
<1>4. s \in Stories /\ a \in ArcIds /\ s # NoStory
      /\ (a \notin Made => old = {}) /\ (a \in Made => arc[a].story = s)
  <2>1. s \in Stories /\ synth[k].known \subseteq ArcIds
    BY <1>1 DEF NarrativesTypeOK
  <2>2. old \subseteq ArcIds
    BY <2>1
  <2>3. a \in old => a \in Made
    <3>1. ASSUME a \in old
          PROVE  a \in Made
      <4>1. arc[a].story = s /\ a \in ArcIds
        BY <2>2, <3>1
      <4> QED
        BY <2>1, <4>1, NarrativesAssumption DEF Made, NoArc
    <3> QED
      BY <3>1
  <2>4. CASE old = {}
    BY <1>2, <2>1, <2>4, NarrativesAssumption
  <2>5. CASE old # {}
    BY <1>2, <2>1, <2>2, <2>3, <2>5, NarrativesAssumption
  <2> QED
    BY <2>4, <2>5
<1>5. /\ arc'[a].story = s
      /\ \A b \in ArcIds \ {a} : arc'[b] = arc[b]
      /\ Made' = Made \cup {a}
  BY <1>2, <1>4 DEF NarrativesTypeOK, Made, NoArc
<1>6. /\ synth'[k].left = synth[k].left \ {s} /\ synth'[k].known = synth[k].known
      /\ synth'[k].at = synth[k].at
      /\ \A o \in Syntheses \ {k} : synth'[o] = synth[o]
  BY <1>2 DEF NarrativesTypeOK
<1>7. /\ doubtful \subseteq doubtful' /\ doubtful' \subseteq doubtful \cup {s}
      /\ (a \notin Made /\ \E o \in Syntheses \ {k} : InTheMiddle(o)) => s \in doubtful'
  BY <1>2, <1>4
<1>8. NarrativesTypeOK'
  <2>1. arc' \in [ArcIds -> [story : Stories \cup {NoStory}, status : {"none", "active", "closed"},
                             time : Nat]]
    BY <1>2, <1>4 DEF NarrativesTypeOK
  <2>2. synth' \in [Syntheses ->
                   Attempt({"off", "reading", "writing", "done", "failed"}, Stories, ArcIds, ArcIds)]
    <3>1. synth[k] \in Attempt({"off", "reading", "writing", "done", "failed"}, Stories, ArcIds, ArcIds)
      BY DEF NarrativesTypeOK, Attempt
    <3> DEFINE rec == [synth[k] EXCEPT !.left = @ \ {s}, !.wrote = @ \cup {a}]
    <3>2. rec \in Attempt({"off", "reading", "writing", "done", "failed"}, Stories, ArcIds, ArcIds)
      BY <1>4, <3>1 DEF Attempt
    <3>3. synth' = [synth EXCEPT ![k] = rec]
      BY <1>2
    <3> HIDE DEF rec
    <3> QED
      BY <3>2, <3>3 DEF NarrativesTypeOK, Attempt
  <2> QED
    BY <1>3, <1>4, <1>7, <2>1, <2>2 DEF NarrativesTypeOK, Attempt, episodes
<1>9. Attempts' /\ EpisodesOnce' /\ Shelved' /\ WrittenEpisodes' = WrittenEpisodes
  BY <1>3, EpisodesKept
<1>10. Told' /\ Counted'
  BY <1>3, <1>4, <1>5, <1>9 DEF Told, Made, Counted, FewAreRecent, RecentAreNewest, episodes
<1>11. Made \subseteq ArcIds
  BY DEF Made
<1>12. Overlaps'
  <2> SUFFICES ASSUME NEW o \in Syntheses, InTheMiddle(o)', NEW b \in Made' \ synth'[o].known,
                      arc'[b].story \in synth'[o].left
               PROVE  arc'[b].story \in doubtful'
    BY DEF Overlaps
  <2>1. InTheMiddle(o) /\ synth'[o].left \subseteq synth[o].left /\ synth'[o].known = synth[o].known
    BY <1>6 DEF InTheMiddle
  <2>2. CASE b \in Made
    <3>1. arc'[b].story = arc[b].story
      BY <1>4, <1>5, <1>11, <2>2
    <3> QED
      BY <1>7, <2>1, <2>2, <3>1 DEF Overlaps
  <2>3. CASE b \notin Made
    <3>1. b = a /\ a \notin Made
      BY <1>5, <2>3
    <3>2. o # k
      BY <1>5, <1>6, <3>1
    <3> QED
      BY <1>5, <1>7, <2>1, <3>1, <3>2
  <2> QED
    BY <2>2, <2>3
<1>13. OneArcPerStory'
  <2>1. \A b \in Made : arc'[b].story = arc[b].story
    BY <1>4, <1>5, <1>11
  <2>2. a \notin Made => \A b \in Made : arc[b].story = s => s \in doubtful
    <3> SUFFICES ASSUME a \notin Made, NEW b \in Made, arc[b].story = s
                 PROVE  s \in doubtful
      OBVIOUS
    <3>1. b \notin synth[k].known
      BY <1>4
    <3> QED
      BY <1>1, <1>3, <3>1 DEF Overlaps
  <2> QED
    BY <1>5, <1>7, <2>1, <2>2 DEF OneArcPerStory
<1> QED
  BY <1>8, <1>9, <1>10, <1>12, <1>13

LEMMA SynthesisEndsKeep ==
  ASSUME NInv, NEW k \in Syntheses, TellArcs(k) \/ BreakSynthesis(k)
  PROVE  NInv'
<1> USE DEF NInv
<1>1. /\ UNCHANGED <<arc, stir, missed, doubtful>> /\ UNCHANGED episodes
      /\ announced \subseteq announced' /\ announced' \subseteq announced \cup ArcIds
      /\ broken' \in 0 .. MaxBreaks
      /\ \E where \in {"done", "failed"} : synth' = [synth EXCEPT ![k].at = where]
  BY NarrativesAssumption DEF TellArcs, BreakSynthesis, NarrativesTypeOK
<1>2. NarrativesTypeOK'
  <2>1. PICK where \in {"done", "failed"} : synth' = [synth EXCEPT ![k].at = where]
    BY <1>1
  <2>2. synth' \in [Syntheses ->
                   Attempt({"off", "reading", "writing", "done", "failed"}, Stories, ArcIds, ArcIds)]
    <3>1. synth[k] \in Attempt({"off", "reading", "writing", "done", "failed"}, Stories, ArcIds, ArcIds)
      BY DEF NarrativesTypeOK, Attempt
    <3> DEFINE rec == [synth[k] EXCEPT !.at = where]
    <3>2. rec \in Attempt({"off", "reading", "writing", "done", "failed"}, Stories, ArcIds, ArcIds)
      BY <3>1 DEF Attempt
    <3>3. synth' = [synth EXCEPT ![k] = rec]
      BY <2>1
    <3> HIDE DEF rec
    <3> QED
      BY <3>2, <3>3 DEF NarrativesTypeOK, Attempt
  <2> QED
    BY <1>1, <2>2 DEF NarrativesTypeOK, Attempt, episodes
<1>3. Attempts' /\ EpisodesOnce' /\ Shelved' /\ WrittenEpisodes' = WrittenEpisodes
  BY <1>1, EpisodesKept
<1>4. Made' = Made /\ OneArcPerStory' /\ Counted'
  BY <1>1, <1>3 DEF Made, OneArcPerStory, Counted, FewAreRecent, RecentAreNewest, episodes
<1>5. Told'
  BY <1>1, <1>3, <1>4, NarrativesAssumption DEF Told, episodes
<1>6. Overlaps'
  BY <1>1, <1>4 DEF Overlaps, InTheMiddle, NarrativesTypeOK
<1> QED
  BY <1>2, <1>3, <1>4, <1>5, <1>6

LEMMA NarrativesStayPut ==
  ASSUME NInv, UNCHANGED narrativeVars
  PROVE  NInv'
<1> USE DEF NInv
<1>1. UNCHANGED episodes /\ UNCHANGED arcs /\ UNCHANGED <<announced, broken>>
  BY DEF narrativeVars
<1>2. Attempts' /\ EpisodesOnce' /\ Shelved' /\ WrittenEpisodes' = WrittenEpisodes
  BY <1>1, EpisodesKept
<1>3. Overlaps' /\ OneArcPerStory' /\ Made' = Made
  BY <1>1, ArcsKept
<1> QED
  BY <1>1, <1>2, <1>3 DEF NarrativesTypeOK, Told, Counted, FewAreRecent, RecentAreNewest, episodes, arcs

LEMMA NarrativesKeep ==
  ASSUME NInv, [NarrativesNext]_narrativeVars
  PROVE  NInv'
BY ReflectKeeps, WriteEpisodeKeeps, TellEpisodesKeeps, BreakReflectionKeeps, ReadEpisodesKeeps,
   ReadArcsKeeps, PutArcKeeps, SynthesisEndsKeep, NarrativesStayPut, Zenon DEF NarrativesNext

(* Every variable stays within its range: no episode or arc is about        *)
(* anything but a story of the model's answer, and an announcement is of an *)
(* id that there is.                                                        *)
THEOREM NarrativesTypeAlways == NarrativesSpec => []NarrativesTypeOK
<1>1. NInv => NarrativesTypeOK
  BY DEF NInv
<1> QED
  BY <1>1, NarrativesBegin, NarrativesKeep, PTL DEF NarrativesSpec

(* For any number of jobs, points, stories and arcs: reflection writes a    *)
(* story twice only after it broke off, and announces the episodes of an    *)
(* attempt together (reflect_session); a story gets a second arc only where *)
(* two syntheses overlapped or get_active did not show its arc; and, for a  *)
(* user of the default tenant, whose collection it reads, get_recent passes *)
(* over a newer episode only beyond Scroll of them.                         *)
THEOREM NarrativesHoldAlways == NarrativesSpec => []NarrativesHold
<1>1. NInv => NarrativesHold
  BY DEF NInv, Counted, NarrativesHold
<1> QED
  BY <1>1, NarrativesBegin, NarrativesKeep, PTL DEF NarrativesSpec

-----------------------------------------------------------------------------
(* All of them                                                             *)

(* The parts share no state: a step of the composition is one of one part   *)
(* and a stutter of the others.                                             *)
LEMMA StepsAreOfParts ==
  ASSUME [Next]_<<part, startupVars, reembedVars, backupVars, exchangeVars, narrativeVars>>
  PROVE  /\ [StartupNext]_startupVars /\ [ReembedNext]_reembedVars /\ [BackupsNext]_backupVars
         /\ [ExchangesNext]_exchangeVars /\ [NarrativesNext]_narrativeVars
BY Zenon DEF Next

(* The composition implements each of its parts, so that what is proved of  *)
(* a part holds in it.                                                      *)
THEOREM OperationsAreParts ==
  Spec => StartupSpec /\ ReembedSpec /\ BackupsSpec /\ ExchangesSpec /\ NarrativesSpec
<1>1. Init => StartupInit /\ ReembedInit /\ BackupsInit /\ ExchangesInit /\ NarrativesInit
  BY DEF Init
<1> QED
  BY <1>1, StepsAreOfParts, PTL
  DEF Spec, StartupSpec, ReembedSpec, BackupsSpec, ExchangesSpec, NarrativesSpec

(* Every variable of every part stays within its range, whichever runs.     *)
THEOREM OperationsTypeAlways == Spec => []TypeOK
<1>1. TypeOK <=> /\ StartupTypeOK /\ ReembedTypeOK /\ BackupsTypeOK /\ ExchangesTypeOK
                 /\ NarrativesTypeOK
  BY DEF TypeOK
<1> QED
  BY <1>1, OperationsAreParts, StartupTypeAlways, ReembedTypeAlways, BackupsTypeAlways,
     ExchangesTypeAlways, NarrativesTypeAlways, PTL
=============================================================================
