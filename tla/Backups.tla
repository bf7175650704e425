------------------------------- MODULE Backups -------------------------------
(***************************************************************************)
(* Dumps of a tenant: exported table by table (mypalace/api/               *)
(* portability.py), written to files by the backup worker, which also      *)
(* prunes old files (mypalace/workers/backup.py), and imported again.      *)
(* Requests change the rows all the while, and the export's reads see each *)
(* table as it is at that moment (READ COMMITTED).                         *)
(***************************************************************************)
EXTENDS Integers, FiniteSets

CONSTANTS
  Owners,     \* tenants
  Records,    \* rows of the exported tables
  OwnerOf,    \* the tenant of a row
  TableOf,    \* the position of its table in EXPORTABLE
  LastTable,  \* how many tables there are (7 in the code)
  Nobody,     \* no tenant
  Retain,     \* backup_retain_days
  MaxDay,     \* bound: the clock, in days
  MaxSlips    \* bound: faults in one behaviour

ASSUME BackupsAssumption ==
  /\ OwnerOf \in [Records -> Owners]
  /\ LastTable \in Nat \ {0}
  /\ TableOf \in [Records -> 1 .. LastTable]
  /\ Nobody \notin Owners
  /\ Retain \in Nat /\ MaxDay \in Nat /\ MaxSlips \in Nat

VARIABLES
  stored,    \* the rows
  lodged,    \* the rows of tenants
  pass,      \* the backup worker: asleep, at work, or crashed
  woke,      \* the day it began its last pass
  waiting,   \* the tenants of this pass it has not come to
  current,   \* the tenant it is exporting
  nextTable,     \* the next table to read
  dump,      \* what it has of the rows
  backups,   \* the files published, with their age's day
  day,       \* the clock
  whole,     \* auxiliary: rows there since this export began
  ever,      \* auxiliary: rows there at some time since
  good,      \* auxiliary: the day of a tenant's last published file; -1: none
  slips      \* faults so far

export == <<current, nextTable, dump, whole, ever>>
schedule == <<pass, woke, waiting>>
worker == <<schedule, export>>
backupVars == <<stored, lodged, worker, backups, day, good, slips>>

BackupsInit ==
  /\ stored = {} /\ lodged = Owners
  /\ pass = "crashed" /\ woke = 0 /\ waiting = {}
  /\ current = Nobody /\ nextTable = 1 /\ dump = {} /\ whole = {} /\ ever = {}
  /\ backups = {}
  /\ day = 0
  /\ good = [t \in Owners |-> -1]
  /\ slips = 0

Slip == slips < MaxSlips /\ slips' = slips + 1
RowsOf(t) == {r \in stored : OwnerOf[r] = t}

-----------------------------------------------------------------------------
(* Requests. *)

(* New rows, or those of a dump: merged by their ids, in one transaction    *)
(* that also brings the tenant back.                                        *)
Arriving(rows) ==
  /\ stored' = stored \cup rows
  /\ ever' = ever \cup rows

Store(r) ==
  /\ r \notin stored /\ OwnerOf[r] \in lodged
  /\ Arriving({r})
  /\ UNCHANGED <<lodged, schedule, current, nextTable, dump, whole, backups, day, good, slips>>

RemoveRow(r) ==
  /\ r \in stored
  /\ stored' = stored \ {r}
  /\ whole' = whole \ {r}
  /\ UNCHANGED <<lodged, schedule, current, nextTable, dump, ever, backups, day, good, slips>>

(* What the import does with a dump; one record that the database refuses   *)
(* fails all of it, and only the tenant stays.                              *)
Import(b, refused) ==
  /\ lodged' = lodged \cup {b.tenant}
  /\ IF refused THEN UNCHANGED <<stored, ever>> ELSE Arriving(b.rows)
  /\ <<lodged', stored'>> # <<lodged, stored>>
  /\ UNCHANGED <<schedule, current, nextTable, dump, whole, backups, day, good, slips>>

(* DELETE /v1/admin/tenants/{id}?force=true. *)
Evict(t) ==
  /\ t \in lodged
  /\ lodged' = lodged \ {t}
  /\ stored' = stored \ RowsOf(t)
  /\ whole' = whole \ RowsOf(t)
  /\ UNCHANGED <<schedule, current, nextTable, dump, ever, backups, day, good, slips>>

-----------------------------------------------------------------------------
(* run_once. *)

(* It wakes up after the interval, here a day, or as soon as it is started. *)
StartPass ==
  /\ pass = "crashed" \/ (pass = "asleep" /\ day > woke)
  /\ pass' = "working"
  /\ woke' = day
  /\ waiting' = lodged
  /\ UNCHANGED <<stored, lodged, export, backups, day, good, slips>>

BeginExport(t) ==
  /\ pass = "working" /\ current = Nobody
  /\ t \in waiting
  /\ waiting' = waiting \ {t}
  /\ current' = t /\ nextTable' = 1 /\ dump' = {}
  /\ whole' = RowsOf(t) /\ ever' = RowsOf(t)
  /\ UNCHANGED <<stored, lodged, pass, woke, backups, day, good, slips>>

(* A slip: the reading goes on after the last table. *)
ReadTableAgain ==
  /\ current # Nobody
  /\ dump' = dump \cup {r \in RowsOf(current) : TableOf[r] = nextTable}
  /\ nextTable' = nextTable + 1
  /\ UNCHANGED <<stored, lodged, schedule, current, whole, ever, backups, day, good, slips>>

ReadTable ==
  /\ current # Nobody /\ nextTable <= LastTable
  /\ dump' = dump \cup {r \in RowsOf(current) : TableOf[r] = nextTable}
  /\ nextTable' = nextTable + 1
  /\ UNCHANGED <<stored, lodged, schedule, current, whole, ever, backups, day, good, slips>>

NoExport ==
  /\ current' = Nobody /\ nextTable' = 1 /\ dump' = {} /\ whole' = {} /\ ever' = {}

File(sound) == [tenant |-> current, rows |-> dump, day |-> day, sound |-> sound]
Sound == whole \subseteq dump /\ dump \subseteq {r \in ever : OwnerOf[r] = current}

(* A slip: the file has its name from the start, and shows when the last    *)
(* table is not read yet.                                                   *)
PublishFileEarly ==
  /\ current # Nobody /\ nextTable >= LastTable
  /\ backups' = backups \cup {File(Sound)}
  /\ good' = [good EXCEPT ![current] = day]
  /\ NoExport
  /\ UNCHANGED <<stored, lodged, pass, woke, waiting, day, slips>>

(* All is written: the file gets its name. *)
PublishFile ==
  /\ current # Nobody /\ nextTable > LastTable
  /\ backups' = backups \cup {File(Sound)}
  /\ good' = [good EXCEPT ![current] = day]
  /\ NoExport
  /\ UNCHANGED <<stored, lodged, pass, woke, waiting, day, slips>>

(* One tenant's failure is logged; its .tmp file stays. *)
ExportFails ==
  /\ Slip
  /\ current # Nobody
  /\ NoExport
  /\ UNCHANGED <<stored, lodged, pass, woke, waiting, backups, day, good>>

(* prune_old_backups, whatever became of the exports. *)
PruneFiles ==
  /\ pass = "working" /\ waiting = {} /\ current = Nobody
  /\ backups' = {b \in backups : b.day >= day - Retain}
  /\ pass' = "asleep"
  /\ UNCHANGED <<stored, lodged, woke, waiting, export, day, good, slips>>

Crash ==
  /\ Slip
  /\ pass # "crashed"
  /\ pass' = "crashed" /\ waiting' = {} /\ NoExport
  /\ UNCHANGED <<stored, lodged, woke, backups, day, good>>

NextDay ==
  /\ day < MaxDay
  /\ day' = day + 1
  /\ UNCHANGED <<stored, lodged, worker, backups, good, slips>>

BackupsNext ==
  \/ \E r \in Records : Store(r) \/ RemoveRow(r)
  \/ \E b \in backups, refused \in BOOLEAN : Import(b, refused)
  \/ \E t \in Owners : Evict(t) \/ BeginExport(t)
  \/ StartPass \/ ReadTable \/ PublishFile \/ ExportFails \/ PruneFiles \/ Crash \/ NextDay

BackupsSpec == BackupsInit /\ [][BackupsNext]_backupVars

-----------------------------------------------------------------------------
(* Every variable stays within its range. *)
BackupsTypeOK ==
  /\ stored \subseteq Records /\ lodged \subseteq Owners
  /\ pass \in {"asleep", "working", "crashed"}
  /\ woke \in 0 .. MaxDay
  /\ waiting \subseteq Owners
  /\ current \in Owners \cup {Nobody}
  /\ nextTable \in 1 .. LastTable + 1
  /\ dump \subseteq Records /\ whole \subseteq Records /\ ever \subseteq Records
  /\ backups \subseteq
       [tenant : Owners, rows : SUBSET Records, day : 0 .. MaxDay, sound : BOOLEAN]
  /\ day \in 0 .. MaxDay
  /\ good \in [Owners -> -1 .. MaxDay]
  /\ slips \in 0 .. MaxSlips

(* A file that bears its name has every row that its tenant had throughout  *)
(* the export, and none that was not the tenant's.                          *)
PublishedAreSound == \A b \in backups : b.sound

(* A tenant that ever had a backup has one, unless none of its exports in   *)
(* the last Retain days succeeded; then pruning takes the last one too.     *)
PruneLeavesOne ==
  \A t \in Owners :
    good[t] >= 0 /\ good[t] >= day - Retain => \E b \in backups : b.tenant = t

BackupsHold == PublishedAreSound /\ PruneLeavesOne
=============================================================================
