------------------------------- MODULE Backup -------------------------------
(***************************************************************************)
(* Backup and recovery of ordinary artifacts (artifact_backup.py and       *)
(* artifact_backup_admin.py) beside the handlers and retention workers     *)
(* that write what it reads.  The command locks nothing: it reads the      *)
(* rows, copies file after file, and compares rows and dump once more at   *)
(* the end; --writers-stopped is only an acknowledgement.                  *)
(*                                                                         *)
(* The dump is what pg_dump wrote of the database, and its digest stands   *)
(* for its content.  A snapshot is told apart by its manifest: the dump's  *)
(* digest, the rows, and for each row whether a blob was copied.  Bytes    *)
(* and manifests that changed after they were written fail a digest, and   *)
(* the commands refuse them without effect.                                *)
(***************************************************************************)
EXTENDS Retention

VARIABLES
  dump,       \* the operator's last database dump, or NoDump
  phase,      \* the create command: "none", "copying", or "accepted" (it exited with 0)
  manifest,   \* the dump whose digest it holds and the rows it read, with their sizes
  left,       \* rows not yet copied
  blobs,      \* keys whose bytes are in the snapshot
  recovered   \* a restored root has been put into service (bound: one)

snapshot == <<phase, manifest, left, blobs>>
backupVars == <<dump, snapshot, recovered>>

Database == [row |-> row, size |-> size, stage |-> stage, console |-> console,
             fenced |-> fenced, cursor |-> cursor]
NoDump == [row |-> "no dump"]
NoManifest == [dump |-> NoDump, row |-> [a \in Artifacts |-> "absent"],
               size |-> [a \in Artifacts |-> FileSize[KeyOf[a]]]]

BackupInit ==
  /\ Init
  /\ dump = NoDump
  /\ phase = "none"
  /\ manifest = NoManifest
  /\ left = {}
  /\ blobs = {}
  /\ recovered = FALSE

Stored == { a \in Artifacts : row[a] # "absent" }

-----------------------------------------------------------------------------
\* pg_dump, as often as the operator likes
TakeDump ==
  /\ ~recovered
  /\ dump' = Database
  /\ UNCHANGED <<vars, snapshot, recovered>>

\* records: no expiration may be pending, and aliases must agree, on their size too.
Recordable(status, sizes) ==
  \A a, b \in Artifacts :
    /\ status[a] # "expired"
    /\ KeyOf[a] = KeyOf[b] /\ "absent" \notin { status[a], status[b] } =>
         status[a] = status[b] /\ sizes[a] = sizes[b]

\* execute reads the rows and the dump's digest; create_snapshot makes its destination.
BeginCreate ==
  /\ phase = "none" /\ dump # NoDump
  /\ Recordable(row, size)
  /\ phase' = "copying"
  /\ manifest' = [dump |-> dump, row |-> row, size |-> size]
  /\ left' = Stored
  /\ UNCHANGED <<vars, dump, blobs, recovered>>

\* read_artifact_content for what is kept, of the size the row says; verify_absent for what
\* is purged
CopyAgrees(a) ==
  IF manifest.row[a] = "purged" THEN ~file[KeyOf[a]]
  ELSE file[KeyOf[a]] /\ manifest.size[a] = FileSize[KeyOf[a]]
Copied(a) == IF manifest.row[a] = "kept" /\ file[KeyOf[a]] THEN { KeyOf[a] } ELSE {}

\* A failed command leaves a directory nobody may use; the next one takes a new name.
NoSnapshot ==
  /\ phase' = "none"
  /\ manifest' = NoManifest
  /\ left' = {}
  /\ blobs' = {}

\* create_snapshot takes the rows in the order of their ids; the first that does not
\* agree ends the command.
Copy ==
  /\ phase = "copying" /\ left # {}
  /\ IF CopyAgrees(First(left))
     THEN /\ left' = left \ { First(left) }
          /\ blobs' = blobs \cup Copied(First(left))
          /\ UNCHANGED <<phase, manifest>>
     ELSE NoSnapshot
  /\ UNCHANGED <<vars, dump, recovered>>

\* execute compares the rows and the dump with those it began with.
Recheck ==
  /\ phase = "copying" /\ left = {}
  /\ IF row = manifest.row /\ size = manifest.size /\ dump = manifest.dump
     THEN phase' = "accepted" /\ UNCHANGED <<manifest, left, blobs>>
     ELSE NoSnapshot
  /\ UNCHANGED <<vars, dump, recovered>>

\* An accepted snapshot gives way to the next one.
Discard ==
  /\ phase = "accepted"
  /\ NoSnapshot
  /\ UNCHANGED <<vars, dump, recovered>>

\* Restoring whatever database the digest belongs to.
ManifestMatchesDigestOnly(db) == db = manifest.dump

\* checked_manifest: the trusted digest of this dump, and the very rows it restored.
ManifestMatches(db) ==
  /\ db = manifest.dump
  /\ Recordable(db.row, db.size)
  /\ db.row = manifest.row /\ db.size = manifest.size

\* Operators stop every service, restore the dump into a new database and the snapshot
\* into a new root (restore_snapshot, verify_restored), and start over from both, with
\* the dump and the snapshot out of the way.
Recover ==
  /\ phase = "accepted" /\ ~recovered
  /\ ManifestMatches(dump)
  /\ recovered' = TRUE
  /\ row' = dump.row
  /\ size' = dump.size
  /\ stage' = dump.stage
  /\ console' = dump.console
  /\ fenced' = dump.fenced
  /\ cursor' = dump.cursor
  /\ file' = [k \in Keys |-> k \in blobs]
  /\ at' = [p \in Sweepers |-> "idle"]
  /\ fresh' = [p \in Sweepers |-> FALSE]
  /\ after' = [p \in Sweepers |-> 0]
  /\ todo' = [p \in Sweepers |-> {}]
  /\ next' = [p \in Sweepers |-> 0]
  /\ failed' = [p \in Sweepers |-> FALSE]
  /\ owed' = {}
  /\ dump' = NoDump
  /\ NoSnapshot
  /\ UNCHANGED <<missed, faults>>

-----------------------------------------------------------------------------
BackupStep == TakeDump \/ BeginCreate \/ Copy \/ Recheck \/ Discard \/ Recover

BackupNext == BackupStep \/ (Next /\ UNCHANGED backupVars)

BackupSpec == BackupInit /\ [][BackupNext]_<<vars, backupVars>>

-----------------------------------------------------------------------------
(* Properties.                                                             *)

\* The root that goes into service is the one its database describes: bytes of the size it
\* says for every row that is kept, none for a row that is purged, no expiration half done,
\* and no bytes without a row, whatever handlers and retention did while the files were
\* copied and whenever the dump was taken (artifact-backup.md: "binds ordinary files in
\* local ARTIFACT_ROOT to a matching database dump").
RecoveredRootMatches ==
  [][recovered' # recovered =>
       /\ \A a \in Artifacts : row'[a] # "absent" =>
            \/ row'[a] = "kept" /\ file'[KeyOf[a]] /\ size'[a] = FileSize[KeyOf[a]]
            \/ row'[a] = "purged" /\ ~file'[KeyOf[a]]
       /\ \A k \in Keys : file'[k] => \E a \in Artifacts : KeyOf[a] = k /\ row'[a] = "kept"
    ]_<<vars, backupVars>>
=============================================================================
