------------------------------- MODULE Backup ------------------------------
(***************************************************************************)
(* Snapshots of the message store (backup.go): one goroutine that takes a  *)
(* snapshot shortly after a start if one is due, then every Interval; each *)
(* is written beside the others under a temporary name, renamed, and       *)
(* followed by retention.  The process may stop between any two steps, and *)
(* VACUUM, the rename or a listing of the directory may fail.              *)
(*                                                                         *)
(* The clock does not run while a snapshot is taken, and is never set      *)
(* back: stamps are the instants at which snapshots are begun.  Files that *)
(* others leave under the snapshots' prefix take places in the retention;  *)
(* they are fewer than the places, or nothing new would survive it.        *)
(***************************************************************************)
EXTENDS Integers, FiniteSets

CONSTANTS
  Interval,  \* WHATSAPP_BACKUP_INTERVAL_HOURS
  Delay,     \* the two minutes before a snapshot at start
  Keep,      \* WHATSAPP_BACKUP_KEEP, at least 1
  Foreign,   \* files of other origin whose names, messages-<...>.db, sort last
  MaxTime    \* bound: the last instant of a behaviour

ASSUME BackupAssumption ==
  /\ Interval \in Nat /\ Delay \in Nat /\ Delay < Interval
  /\ Keep \in Nat \ {0} /\ Foreign \in Nat /\ Foreign < Keep /\ MaxTime \in Nat

VARIABLES
  now,     \* the wall clock
  files,   \* published snapshots: messages-<stamp>.db
  temps,   \* files under a temporary name: .tmp-<stamp>.db
  phase,   \* where Run is
  wake,    \* when its timer or ticker fires
  bootAt,  \* when the process started
  failed,  \* observer: an inspection or a snapshot of this run failed
  latest   \* observer: the stamp of the last snapshot published, -1 for none

backupVars == <<now, files, temps, phase, wake, bootAt, failed, latest>>

Stamps == 0 .. MaxTime
Snapshots == [stamp : Stamps, whole : BOOLEAN]
StampsOf(set) == {f.stamp : f \in set}
Down == phase = "off"

BackupInit ==
  /\ now = 0 /\ bootAt = 0 /\ wake = 0
  /\ files = {} /\ temps = {}
  /\ phase = "off"
  /\ failed = FALSE
  /\ latest = -1

\* A bug: nothing is due at a start; only the ticker takes snapshots.
DueAtStartupByTicker == FALSE

\* dueAtStartup: no snapshot is younger than an interval.
DueAtStartup == \A s \in StampsOf(files) : now - s >= Interval

\* Run, up to its first wait.  A directory that cannot be listed is logged,
\* and the ticker decides.
Start ==
  /\ Down
  /\ bootAt' = now
  /\ \/ /\ DueAtStartup /\ phase' = "delay" /\ wake' = now + Delay /\ failed' = FALSE
     \/ /\ ~DueAtStartup /\ phase' = "wait" /\ wake' = now + Interval /\ failed' = FALSE
     \/ /\ phase' = "wait" /\ wake' = now + Interval /\ failed' = TRUE
  /\ UNCHANGED <<now, files, temps, latest>>

\* A bug: VACUUM INTO writes the final name.
BeginSnapshotInPlace ==
  /\ phase \in {"delay", "wait"} /\ now = wake
  /\ files' = files \cup {[stamp |-> now, whole |-> FALSE]}
  /\ phase' = "writing"
  /\ UNCHANGED <<now, temps, wake, bootAt, failed, latest>>

\* A temporary file of the same name, from a run that was interrupted, is
\* removed first.
BeginSnapshot ==
  /\ phase \in {"delay", "wait"} /\ now = wake
  /\ temps' = {t \in temps : t.stamp # now} \cup {[stamp |-> now, whole |-> FALSE]}
  /\ phase' = "writing"
  /\ UNCHANGED <<now, files, wake, bootAt, failed, latest>>

\* The ticker starts after the snapshot at start, and fires an interval after
\* each of its own.
Wait == phase' = "wait" /\ wake' = now + Interval

\* VACUUM, the check of its size or the rename fails: the temporary file goes,
\* nothing is published or pruned, and the next attempt is an interval away.
SnapshotFails ==
  /\ phase \in {"writing", "written"}
  /\ temps' = {t \in temps : t.stamp # now}
  /\ failed' = TRUE
  /\ Wait
  /\ UNCHANGED <<now, files, bootAt, latest>>

VacuumEnds ==
  /\ phase = "writing"
  /\ temps' = {t \in temps : t.stamp # now} \cup {[stamp |-> now, whole |-> TRUE]}
  /\ phase' = "written"
  /\ UNCHANGED <<now, files, wake, bootAt, failed, latest>>

\* The rename.
Publish ==
  /\ phase = "written"
  /\ LET done == {t \in temps : t.stamp = now} IN
       /\ temps' = temps \ done
       /\ files' = {f \in files : f.stamp # now} \cup done
  /\ latest' = now
  /\ failed' = FALSE
  /\ phase' = "prune"
  /\ UNCHANGED <<now, wake, bootAt>>

\* All but the newest Keep by name.  A foreign name takes a place among them,
\* although dueAtStartup, which parses the stamp, does not count it.
Expired ==
  {f \in files : Foreign + Cardinality({g \in files : g.stamp > f.stamp}) >= Keep}

\* Prune: every temporary file and every expired snapshot, or nothing if the
\* directory cannot be listed.
Prune ==
  /\ phase = "prune"
  /\ \/ files' = files \ Expired /\ temps' = {}
     \/ UNCHANGED <<files, temps>>
  /\ Wait
  /\ UNCHANGED <<now, bootAt, failed, latest>>

ProcessStops ==
  /\ ~Down
  /\ phase' = "off" /\ wake' = 0 /\ bootAt' = 0 /\ failed' = FALSE
  /\ UNCHANGED <<now, files, temps, latest>>

\* Time passes while the process is down or waits for a later instant.
Tick ==
  /\ now < MaxTime
  /\ Down \/ (phase \in {"delay", "wait"} /\ now < wake)
  /\ now' = now + 1
  /\ UNCHANGED <<files, temps, phase, wake, bootAt, failed, latest>>

BackupNext ==
  \/ Start \/ BeginSnapshot \/ SnapshotFails \/ VacuumEnds \/ Publish \/ Prune
  \/ ProcessStops \/ Tick

BackupSpec == BackupInit /\ [][BackupNext]_backupVars

(***************************************************************************)
(* Properties                                                              *)
(***************************************************************************)
\* Whatever was interrupted and whatever retention removed, every snapshot
\* under a final name is complete and the last one published is among them
\* (backup.go:131-137, 182-183).
SnapshotsRestore ==
  /\ \A f \in files : f.whole
  /\ latest >= 0 => latest \in StampsOf(files)

\* However often the process restarts, once it has been up longer than the
\* delay its newest snapshot is younger than two intervals, unless a snapshot
\* or the inspection of this very run failed (backup.go:73-79).
SnapshotsAreFresh ==
  ~Down /\ ~failed /\ now - bootAt > Delay =>
    \E f \in files : now - f.stamp < 2 * Interval

----------------------------------------------------------------------------
(* Why they hold: the inductive invariant.                                 *)

BackupTypeOK ==
  /\ now \in Stamps /\ bootAt \in Stamps /\ wake \in Nat
  /\ files \subseteq Snapshots /\ temps \subseteq Snapshots
  /\ phase \in {"off", "delay", "wait", "writing", "written", "prune"}
  /\ failed \in BOOLEAN
  /\ latest \in Stamps \cup {-1}

\* No file is newer than the last one published, which is there; a temporary
\* file is whole when it is about to be renamed.
FilesShape ==
  /\ bootAt <= now /\ latest <= now
  /\ \A f \in files : f.whole /\ f.stamp <= latest
  /\ latest >= 0 => latest \in StampsOf(files)
  /\ phase = "written" =>
       /\ now \in StampsOf(temps)
       /\ \A t \in temps : t.stamp = now => t.whole

\* How long a run that has not failed may go on without a snapshot: to the end
\* of the delay, or to a tick that comes before the last one is too old.
ClockShape ==
  /\ phase \in {"delay", "wait"} => now <= wake
  /\ phase = "prune" => latest = now
  /\ ~Down /\ ~failed =>
       \/ phase # "wait" /\ now <= bootAt + Delay
       \/ phase \in {"wait", "writing", "written"} /\ latest >= 0 /\ now <= wake
             /\ wake < latest + 2 * Interval
       \/ phase = "prune"
  /\ phase = "delay" => wake = bootAt + Delay

BackupInv == BackupTypeOK /\ FilesShape /\ ClockShape
=============================================================================
