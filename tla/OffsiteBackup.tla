---------------------------- MODULE OffsiteBackup ----------------------------
(***************************************************************************)
(* Off-site recovery (infra/scripts/offsite_backup.py): database snapshots *)
(* and closure checkpoints in one remote repository, their retention, and  *)
(* the recovery of a lost database, in which closed accounts must stay     *)
(* closed (app/account_closure.py).                                        *)
(*                                                                         *)
(* Of a database the model keeps which accounts are closed and when that   *)
(* was requested; a manifest is a function from accounts to that time.     *)
(* Operations hold one lock on the host; requests of closure, the clock    *)
(* and the loss of the database interleave with their steps.               *)
(***************************************************************************)
EXTENDS Integers, Sequences

CONSTANTS
    Users,         \* the accounts
    DatabaseDays,  \* 35 in the code: database snapshots are kept within it
    ClosureDays,   \* 65 in the code: a marker is kept for it at least
    MaxDay,        \* bound: days
    MaxSnapshots   \* bound: snapshots of each kind in the repository

ASSUME BackupAssumption ==
    /\ DatabaseDays \in Nat /\ ClosureDays \in Nat /\ ClosureDays >= DatabaseDays
    /\ MaxDay \in Nat \ {0} /\ MaxSnapshots \in Nat

VARIABLES
    day,          \* the clock, in the repository and in the application
    live,         \* the application's database: its closures, or Lost
    databases,    \* database snapshots, oldest first
    checkpoints,  \* closure checkpoints, oldest first
    task,         \* the holder of the host's lock
    fetched,      \* what an operator has downloaded to recover from
    inForce       \* history: when the closure was requested that a checkpoint confirmed first,
                  \* or that a recovery has revived its account

backupVars == <<day, live, databases, checkpoints, task, fetched, inForce>>

Days     == 1 .. MaxDay
NotAsked == 0
Revived  == -1
Manifest == [Users -> Days \cup {NotAsked}]
Empty    == [u \in Users |-> NotAsked]
Lost     == <<>>
Nothing  == [fetched |-> FALSE]

\* exported is when the bundle's manifest was read from the database, day is
\* when the repository has saved the snapshot.
Snapshot   == [day : Days, exported : Days, dump : Manifest, manifest : Manifest]
Checkpoint == [day : Days, markers : Manifest]
Task == [at : {"idle", "stage", "export", "checkpoint", "upload", "inventory", "filter", "forget"},
         kind : {"database", "closures"}, previous : Manifest, dump : Manifest,
         markers : Manifest, exported : Days, days : SUBSET Days]
NoTask == [at |-> "idle", kind |-> "closures", previous |-> Empty, dump |-> Empty,
           markers |-> Empty, exported |-> 1, days |-> {}]

BackupTypeOK ==
    /\ day \in Days
    /\ live \in Manifest \cup {Lost}
    /\ databases \in Seq(Snapshot) /\ checkpoints \in Seq(Checkpoint)
    /\ task \in Task
    /\ fetched \in [dump : Manifest, markers : Manifest] \cup {Nothing}
    /\ inForce \in [Users -> Days \cup {NotAsked, Revived}]

-----------------------------------------------------------------------------
(* Manifests and what is kept.                                             *)

\* Mutant: the database's own export replaces what was known.
MergeCurrent(known, current) == current

\* merge_markers: every known closure, at the earlier of its times.
Merge(known, current) ==
    [u \in Users |-> IF known[u] = NotAsked THEN current[u]
                     ELSE IF current[u] = NotAsked \/ known[u] <= current[u] THEN known[u]
                     ELSE current[u]]

\* saved_markers: of the newest checkpoint.
Known == IF checkpoints = <<>> THEN Empty ELSE checkpoints[Len(checkpoints)].markers

\* restic forget --keep-within: what is older than so many days before the newest
\* snapshot goes, and i is the first that stays.
KeptFrom(i, snapshots, days) ==
    LET keeps(j) == snapshots[j].day + days >= snapshots[Len(snapshots)].day IN
    i \in DOMAIN snapshots /\ keeps(i) /\ (i > 1 => ~keeps(i - 1))
From(i, snapshots) == SubSeq(snapshots, i, Len(snapshots))

\* Mutant: time alone decides.
RetainedByAge(markers, days) ==
    [u \in Users |-> IF markers[u] + ClosureDays >= day THEN markers[u] ELSE NotAsked]

\* retained_markers: a marker goes after its horizon and after every database
\* snapshot that was saved before the closure was requested.
Retained(markers, days) ==
    [u \in Users |-> IF markers[u] + ClosureDays >= day \/ \E d \in days : d <= markers[u]
                     THEN markers[u] ELSE NotAsked]

\* reapply_markers on a restored database.
Reapplied(dump, markers) == [u \in Users |-> IF dump[u] # NotAsked THEN dump[u] ELSE markers[u]]

-----------------------------------------------------------------------------

BackupInit ==
    /\ day = 1 /\ live = Empty
    /\ databases = <<>> /\ checkpoints = <<>>
    /\ task = NoTask /\ fetched = Nothing /\ inForce = Empty

On(step) == task.at = step
Up == live # Lost
Saving(what) == Len(what) < MaxSnapshots

\* request_closure.
RequestClosing(u) ==
    /\ Up /\ live[u] = NotAsked
    /\ live' = [live EXCEPT ![u] = day]
    /\ UNCHANGED <<day, databases, checkpoints, task, fetched, inForce>>

\* backup: nothing is saved unless the known closures could be read.
BeginBackup(kind) ==
    /\ On("idle")
    /\ task' = [NoTask EXCEPT !.at = IF kind = "database" THEN "stage" ELSE "export",
                              !.kind = kind, !.previous = Known]
    /\ UNCHANGED <<day, live, databases, checkpoints, fetched, inForce>>

\* stage: pg_dump.
StageDump ==
    /\ On("stage") /\ Up
    /\ task' = [task EXCEPT !.at = "export", !.dump = live]
    /\ UNCHANGED <<day, live, databases, checkpoints, fetched, inForce>>

\* stage: the export follows the dump, so that it holds what was closed meanwhile.
StageExport ==
    /\ On("export") /\ Up
    /\ task' = [task EXCEPT !.at = "checkpoint", !.markers = Merge(task.previous, live), !.exported = day]
    /\ UNCHANGED <<day, live, databases, checkpoints, fetched, inForce>>

\* The independent checkpoint comes before the database's snapshot.
SaveCheckpoint ==
    /\ On("checkpoint") /\ Saving(checkpoints)
    /\ checkpoints' = Append(checkpoints, [day |-> day, markers |-> task.markers])
    /\ inForce' = [u \in Users |-> IF inForce[u] = NotAsked THEN task.markers[u] ELSE inForce[u]]
    /\ task' = IF task.kind = "database" THEN [task EXCEPT !.at = "upload"] ELSE NoTask
    /\ UNCHANGED <<day, live, databases, fetched>>

SaveDatabase ==
    /\ On("upload") /\ Saving(databases)
    /\ databases' = Append(databases, [day |-> day, exported |-> task.exported,
                                       dump |-> task.dump, manifest |-> task.markers])
    /\ task' = NoTask
    /\ UNCHANGED <<day, live, checkpoints, fetched, inForce>>

\* apply_retention: database snapshots first, then their inventory.
ForgetDatabases ==
    /\ On("idle") /\ databases # <<>>
    /\ \E i \in DOMAIN databases : KeptFrom(i, databases, DatabaseDays) /\ databases' = From(i, databases)
    /\ task' = [NoTask EXCEPT !.at = "inventory"]
    /\ UNCHANGED <<day, live, checkpoints, fetched, inForce>>

TakeInventory ==
    /\ On("inventory")
    /\ task' = [task EXCEPT !.at = "filter", !.days = {databases[i].day : i \in DOMAIN databases}]
    /\ UNCHANGED <<day, live, databases, checkpoints, fetched, inForce>>

FilterMarkers ==
    /\ On("filter")
    /\ LET retained == Retained(Known, task.days) IN
       \/ retained = Known /\ UNCHANGED checkpoints
       \/ /\ retained # Known /\ Saving(checkpoints)
          /\ checkpoints' = Append(checkpoints, [day |-> day, markers |-> retained])
    /\ task' = [task EXCEPT !.at = "forget"]
    /\ UNCHANGED <<day, live, databases, fetched, inForce>>

ForgetCheckpoints ==
    /\ On("forget")
    /\ \/ checkpoints = <<>> /\ UNCHANGED checkpoints
       \/ \E i \in DOMAIN checkpoints :
             KeptFrom(i, checkpoints, ClosureDays) /\ checkpoints' = From(i, checkpoints)
    /\ task' = NoTask
    /\ UNCHANGED <<day, live, databases, fetched, inForce>>

\* An operation fails, times out or its process dies: the lock is released.
FailTask ==
    /\ ~On("idle")
    /\ task' = NoTask
    /\ UNCHANGED <<day, live, databases, checkpoints, fetched, inForce>>

\* fetch, of the newest snapshot or one that the operator names.
Fetch(i) ==
    /\ On("idle") /\ ~Up /\ fetched = Nothing
    /\ i \in DOMAIN databases /\ checkpoints # <<>>
    /\ fetched' = [dump |-> databases[i].dump, markers |-> Merge(databases[i].manifest, Known)]
    /\ UNCHANGED <<day, live, databases, checkpoints, task, inForce>>

\* restore.sh into a new database, reapply, and the operator's promotion.
Promote ==
    /\ fetched # Nothing
    /\ live' = Reapplied(fetched.dump, fetched.markers)
    /\ fetched' = Nothing
    /\ inForce' = [u \in Users |->
          IF inForce[u] # NotAsked /\ live'[u] = NotAsked THEN Revived ELSE inForce[u]]
    /\ UNCHANGED <<day, databases, checkpoints, task>>

\* The database is lost.
Disaster ==
    /\ Up /\ databases # <<>> /\ checkpoints # <<>>
    /\ live' = Lost
    /\ UNCHANGED <<day, databases, checkpoints, task, fetched, inForce>>

Tick ==
    /\ day < MaxDay
    /\ day' = day + 1
    /\ UNCHANGED <<live, databases, checkpoints, task, fetched, inForce>>

Backup == StageDump \/ StageExport \/ SaveCheckpoint \/ SaveDatabase
Retention == ForgetDatabases \/ TakeInventory \/ FilterMarkers \/ ForgetCheckpoints

BackupNext ==
    \/ \E u \in Users : RequestClosing(u)
    \/ \E kind \in {"database", "closures"} : BeginBackup(kind)
    \/ Backup \/ Retention \/ FailTask
    \/ \E i \in DOMAIN databases : Fetch(i)
    \/ Promote \/ Disaster \/ Tick

BackupSpec == BackupInit /\ [][BackupNext]_backupVars

-----------------------------------------------------------------------------
(* Properties.                                                             *)

\* Requested after the bundle's manifest was read and before the repository had
\* saved the snapshot: retained_markers takes the snapshot for a later one.
Between(asked, s) == s.exported <= asked /\ asked < s.day

\* No snapshot that an operator can still choose revives an account whose closure
\* a checkpoint has confirmed: its dump, its manifest or the newest checkpoint
\* knows of it, whatever was forgotten, failed or recovered in between.
NothingRevived ==
    \A u \in Users : inForce[u] \in Days =>
        \A i \in DOMAIN databases :
            LET s == databases[i] IN
            Between(inForce[u], s) \/ Reapplied(s.dump, Merge(s.manifest, Known))[u] # NotAsked
==============================================================================
