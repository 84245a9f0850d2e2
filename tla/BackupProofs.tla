---------------------------- MODULE BackupProofs ----------------------------
(***************************************************************************)
(* Proofs about Backup: whatever handlers and retention workers do between *)
(* a dump, the copy of each file and the last look at the rows, a recovery *)
(* ends with a root that its database describes, and retention's own       *)
(* guarantees outlive it.                                                  *)
(***************************************************************************)
EXTENDS Backup, RetentionProofs

RowStatus == { "absent", "kept", "expired", "purged" }

-----------------------------------------------------------------------------
(* The inductive invariant.                                                *)

\* A dump is a database the handlers and retention workers could have left.
DumpStage ==
  dump # NoDump =>
    /\ dump.row \in [Artifacts -> RowStatus]
    /\ dump.size \in [Artifacts -> Sizes]
    /\ dump.stage \in [Works -> { "leased", "settled", "aged" }]
    /\ dump.console \in [Works -> { "none", "open", "closed" }]
    /\ dump.fenced \in BOOLEAN
    /\ dump.cursor \in Artifacts \cup { 0 }
    /\ \A a \in Artifacts : dump.row[a] \in { "expired", "purged" } => dump.stage[Work(a)] = "aged"

\* The rows of a snapshot had no expiration pending and agreeing aliases; each kept one is
\* either still to be copied or in it, with the size it says, and nothing else is in it.
SnapshotStage ==
  /\ phase = "none" => blobs = {}
  /\ phase # "none" =>
       /\ manifest.dump # NoDump
       /\ manifest.row \in [Artifacts -> RowStatus]
       /\ Recordable(manifest.row, manifest.size)
       /\ left \subseteq Artifacts
       /\ \A a \in Artifacts : manifest.row[a] = "kept" =>
            a \in left \/ (KeyOf[a] \in blobs /\ manifest.size[a] = FileSize[KeyOf[a]])
       /\ \A k \in blobs : \E a \in Artifacts : KeyOf[a] = k /\ manifest.row[a] = "kept"
       /\ phase = "accepted" => left = {}

\* The inductive invariant, which contains that of Retention.
BackupInv == IInv /\ DumpStage /\ SnapshotStage

\* What a recovery has to achieve.
RootMatches ==
  /\ \A a \in Artifacts : row[a] # "absent" =>
       \/ row[a] = "kept" /\ file[KeyOf[a]] /\ size[a] = FileSize[KeyOf[a]]
       \/ row[a] = "purged" /\ ~file[KeyOf[a]]
  /\ \A k \in Keys : file[k] => \E a \in Artifacts : KeyOf[a] = k /\ row[a] = "kept"

-----------------------------------------------------------------------------
(* The steps.                                                              *)

\* A recovered root matches its database.
LEMMA RecoverMatches ==
  ASSUME BackupInv, Recover
  PROVE  RootMatches'
<1>1. /\ manifest.row \in [Artifacts -> RowStatus]
      /\ Recordable(manifest.row, manifest.size)
      /\ \A a \in Artifacts : manifest.row[a] = "kept" =>
           KeyOf[a] \in blobs /\ manifest.size[a] = FileSize[KeyOf[a]]
      /\ \A k \in blobs : \E a \in Artifacts : KeyOf[a] = k /\ manifest.row[a] = "kept"
  BY DEF BackupInv, SnapshotStage, Recover
<1>2. /\ row' = manifest.row /\ size' = manifest.size
      /\ \A k \in Keys : file'[k] = (k \in blobs)
  BY DEF Recover, ManifestMatches
<1>3. ASSUME NEW a \in Artifacts, row'[a] # "absent"
      PROVE  \/ row'[a] = "kept" /\ file'[KeyOf[a]] /\ size'[a] = FileSize[KeyOf[a]]
             \/ row'[a] = "purged" /\ ~file'[KeyOf[a]]
  <2>1. row'[a] \in { "kept", "purged" }
    BY <1>1, <1>2, <1>3 DEF Recordable, RowStatus
  <2>2. KeyOf[a] \in Keys
    BY KeysAssumption
  <2>3. CASE KeyOf[a] \in blobs
    <3>1. PICK b \in Artifacts : KeyOf[b] = KeyOf[a] /\ manifest.row[b] = "kept"
      BY <1>1, <2>3
    <3>2. manifest.row[a] = "kept"
      BY <1>1, <1>2, <1>3, <3>1 DEF Recordable
    <3>3. file'[KeyOf[a]]
      BY <1>2, <2>2, <2>3
    <3>4. QED
      BY <1>1, <1>2, <3>2, <3>3
  <2>4. CASE KeyOf[a] \notin blobs
    <3>1. row'[a] = "purged"
      BY <1>1, <1>2, <2>1, <2>4
    <3>2. ~file'[KeyOf[a]]
      BY <1>2, <2>2, <2>4
    <3>3. QED
      BY <3>1, <3>2
  <2>5. QED
    BY <2>3, <2>4
<1>4. ASSUME NEW k \in Keys, file'[k]
      PROVE  \E a \in Artifacts : KeyOf[a] = k /\ row'[a] = "kept"
  BY <1>1, <1>2, <1>4
<1>5. QED
  BY <1>3, <1>4 DEF RootMatches

\* Retention starts over from a recovered root with its invariant intact.
LEMMA RecoverKeepsRetention ==
  ASSUME BackupInv, Recover
  PROVE  IInv'
<1>1. dump # NoDump /\ dump.row = manifest.row
  BY DEF BackupInv, SnapshotStage, Recover, ManifestMatches
<1>2. /\ dump.row \in [Artifacts -> RowStatus]
      /\ dump.size \in [Artifacts -> Sizes]
      /\ dump.stage \in [Works -> { "leased", "settled", "aged" }]
      /\ dump.console \in [Works -> { "none", "open", "closed" }]
      /\ dump.fenced \in BOOLEAN
      /\ dump.cursor \in Artifacts \cup { 0 }
      /\ \A a \in Artifacts : dump.row[a] \in { "expired", "purged" } => dump.stage[Work(a)] = "aged"
  BY <1>1 DEF BackupInv, DumpStage
<1>3. TypeOK'
  <2>1. file' \in [Keys -> BOOLEAN]
    <3>1. file' = [k \in Keys |-> k \in blobs]
      BY DEF Recover
    <3>2. \A k \in Keys : (k \in blobs) \in BOOLEAN
      OBVIOUS
    <3>3. QED
      BY <3>1, <3>2
  <2>2. fenced' \in BOOLEAN
    BY <1>2 DEF Recover
  <2>3. fresh' \in [Sweepers -> BOOLEAN] /\ failed' \in [Sweepers -> BOOLEAN]
    <3>1. fresh' = [p \in Sweepers |-> FALSE] /\ failed' = [p \in Sweepers |-> FALSE]
      BY DEF Recover
    <3>2. QED
      BY <3>1
  <2>4. missed' \subseteq Artifacts /\ faults' \in Nat
    BY DEF Recover, BackupInv, IInv, TypeOK
  <2>5. /\ stage' \in [Works -> { "leased", "settled", "aged" }]
        /\ console' \in [Works -> { "none", "open", "closed" }]
        /\ row' \in [Artifacts -> RowStatus]
        /\ size' \in [Artifacts -> Sizes]
        /\ cursor' \in Artifacts \cup { 0 }
    BY <1>2 DEF Recover
  <2>6. /\ at' \in [Sweepers -> { "idle", "loaded", "scan", "intent", "unlinked" }]
        /\ after' \in [Sweepers -> Artifacts \cup { 0 }]
        /\ todo' \in [Sweepers -> SUBSET Artifacts]
        /\ next' \in [Sweepers -> Artifacts \cup { 0 }]
        /\ owed' \subseteq Artifacts
    BY DEF Recover
  <2>7. QED
    BY <2>1, <2>2, <2>3, <2>4, <2>5, <2>6 DEF TypeOK, RowStatus
<1>4. PurgeStage'
  <2>1. (\A a \in Artifacts : row[a] \in { "expired", "purged" } => stage[Work(a)] = "aged")'
    BY <1>2 DEF Recover, Work
  <2>2. \A p \in Sweepers : at'[p] = "idle"
    BY DEF Recover
  <2>3. PurgedIsGone'
    <3>1. RootMatches'
      BY RecoverMatches
    <3>2. QED
      BY <3>1 DEF RootMatches, PurgedIsGone, Aliases
  <2>4. QED
    BY <2>1, <2>2, <2>3 DEF PurgeStage
<1>5. SweepStage'
  <2>1. /\ owed' = {} /\ missed' = {}
        /\ \A p \in Sweepers : at'[p] = "idle" /\ ~failed'[p]
    BY DEF Recover, BackupInv, IInv, SweepStage, SweepVisitsAll
  <2>2. QED
    BY <2>1 DEF SweepStage, SweepVisitsAll, Active
<1>6. QED
  BY <1>3, <1>4, <1>5 DEF IInv

\* Copying settles one row after another.
LEMMA CopyKept ==
  ASSUME BackupInv, Copy
  PROVE  SnapshotStage'
<1> DEFINE a == First(left)
<1>1. phase # "none" /\ left # {} /\ left \subseteq Artifacts /\ phase = "copying"
  BY DEF Copy, BackupInv, SnapshotStage
<1>2. a \in left
  BY <1>1, FirstIsLowest, ArtifactsAssumption
<1>3. CASE ~CopyAgrees(a)
  BY <1>3 DEF Copy, NoSnapshot, SnapshotStage
<1>4. CASE CopyAgrees(a)
  <2>1. /\ left' = left \ { a } /\ blobs' = blobs \cup Copied(a)
        /\ UNCHANGED <<phase, manifest>>
    BY <1>4 DEF Copy
  <2>2. manifest.row[a] = "kept" =>
          KeyOf[a] \in blobs' /\ manifest.size[a] = FileSize[KeyOf[a]]
    BY <1>4, <2>1 DEF CopyAgrees, Copied
  <2>3. \A k \in Copied(a) : KeyOf[a] = k /\ manifest.row[a] = "kept"
    BY DEF Copied
  <2>4. QED
    BY <1>1, <1>2, <2>1, <2>2, <2>3 DEF BackupInv, SnapshotStage
<1>5. QED
  BY <1>3, <1>4

\* Every step keeps the invariant.
LEMMA BackupKept ==
  ASSUME BackupInv, [BackupNext]_<<vars, backupVars>>
  PROVE  BackupInv'
<1> USE DEF backupVars, snapshot
<1>1. CASE TakeDump
  <2>1. UNCHANGED vars /\ UNCHANGED <<phase, manifest, left, blobs>> /\ dump' = Database
    BY <1>1 DEF TakeDump
  <2>2. IInv'
    BY <2>1, InvariantKept DEF BackupInv
  <2>3. DumpStage'
    <3>1. /\ dump'.row = row /\ dump'.size = size /\ dump'.stage = stage /\ dump'.console = console
          /\ dump'.fenced = fenced /\ dump'.cursor = cursor
      BY <2>1 DEF Database
    <3>2. /\ row \in [Artifacts -> RowStatus]
          /\ size \in [Artifacts -> Sizes]
          /\ stage \in [Works -> { "leased", "settled", "aged" }]
          /\ console \in [Works -> { "none", "open", "closed" }]
          /\ fenced \in BOOLEAN
          /\ cursor \in Artifacts \cup { 0 }
          /\ \A a \in Artifacts : row[a] \in { "expired", "purged" } => stage[Work(a)] = "aged"
      BY DEF BackupInv, IInv, TypeOK, PurgeStage, RowStatus
    <3>3. QED
      BY <3>1, <3>2 DEF DumpStage, Work
  <2>4. SnapshotStage'
    BY <2>1 DEF BackupInv, SnapshotStage
  <2>5. QED
    BY <2>2, <2>3, <2>4 DEF BackupInv
<1>2. CASE BeginCreate
  <2>1. /\ UNCHANGED vars /\ UNCHANGED <<dump, blobs>>
        /\ dump # NoDump /\ Recordable(row, size)
        /\ manifest' = [dump |-> dump, row |-> row, size |-> size] /\ left' = Stored /\ phase' = "copying"
        /\ phase = "none"
    BY <1>2 DEF BeginCreate
  <2>2. IInv' /\ DumpStage'
    BY <2>1, InvariantKept DEF BackupInv, DumpStage
  <2>3. SnapshotStage'
    <3>1. manifest'.dump = dump /\ manifest'.row = row /\ manifest'.size = size
      BY <2>1
    <3>2. row \in [Artifacts -> RowStatus]
      BY DEF BackupInv, IInv, TypeOK, RowStatus
    <3>3. blobs' = {}
      BY <2>1 DEF BackupInv, SnapshotStage
    <3>4. QED
      BY <2>1, <3>1, <3>2, <3>3 DEF SnapshotStage, Stored
  <2>4. QED
    BY <2>2, <2>3 DEF BackupInv
<1>3. CASE Copy
  <2>1. UNCHANGED vars /\ UNCHANGED dump
    BY <1>3 DEF Copy
  <2>2. IInv' /\ DumpStage'
    BY <2>1, InvariantKept DEF BackupInv, DumpStage
  <2>3. QED
    BY <1>3, <2>2, CopyKept DEF BackupInv
<1>4. CASE Recheck \/ Discard
  <2>1. UNCHANGED vars /\ UNCHANGED dump
    BY <1>4 DEF Recheck, Discard
  <2>2. IInv' /\ DumpStage'
    BY <2>1, InvariantKept DEF BackupInv, DumpStage
  <2>3. SnapshotStage'
    BY <1>4 DEF Recheck, Discard, NoSnapshot, BackupInv, SnapshotStage
  <2>4. QED
    BY <2>2, <2>3 DEF BackupInv
<1>5. CASE Recover
  <2>1. IInv'
    BY <1>5, RecoverKeepsRetention
  <2>2. DumpStage' /\ SnapshotStage'
    BY <1>5 DEF Recover, NoSnapshot, DumpStage, SnapshotStage
  <2>3. QED
    BY <2>1, <2>2 DEF BackupInv
<1>6. CASE [Next]_vars /\ UNCHANGED backupVars
  <2>1. IInv'
    BY <1>6, InvariantKept DEF BackupInv
  <2>2. DumpStage' /\ SnapshotStage'
    BY <1>6 DEF BackupInv, DumpStage, SnapshotStage
  <2>3. QED
    BY <2>1, <2>2 DEF BackupInv
<1>7. QED
  BY <1>1, <1>2, <1>3, <1>4, <1>5, <1>6 DEF BackupNext, BackupStep

-----------------------------------------------------------------------------
(* The results.                                                            *)

\* The invariant holds throughout.
THEOREM BackupInvariance == BackupSpec => []BackupInv
<1>1. BackupInit => BackupInv
  <2> SUFFICES ASSUME BackupInit PROVE BackupInv
    OBVIOUS
  <2>1. IInv
    BY InvariantAtStart DEF BackupInit
  <2>2. DumpStage /\ SnapshotStage
    BY DEF BackupInit, DumpStage, SnapshotStage
  <2>3. QED
    BY <2>1, <2>2 DEF BackupInv
<1>2. BackupInv /\ [BackupNext]_<<vars, backupVars>> => BackupInv'
  BY BackupKept
<1>3. QED
  BY <1>1, <1>2, PTL DEF BackupSpec

\* A root that goes into service is the one its database describes, however the handlers,
\* the retention workers, the dumps and the copies interleave (create_snapshot,
\* checked_manifest, restore_snapshot).
THEOREM RecoveryMatches == BackupSpec => RecoveredRootMatches
<1>1. ASSUME BackupInv, [BackupNext]_<<vars, backupVars>>, recovered' # recovered
      PROVE  RootMatches'
  <2>1. Recover
    BY <1>1 DEF BackupNext, BackupStep, TakeDump, BeginCreate, Copy, Recheck, Discard, backupVars
  <2>2. QED
    BY <1>1, <2>1, RecoverMatches
<1>2. BackupInv /\ [BackupNext]_<<vars, backupVars>> =>
        [recovered' # recovered =>
           /\ \A a \in Artifacts : row'[a] # "absent" =>
                \/ row'[a] = "kept" /\ file'[KeyOf[a]] /\ size'[a] = FileSize[KeyOf[a]]
                \/ row'[a] = "purged" /\ ~file'[KeyOf[a]]
           /\ \A k \in Keys : file'[k] => \E a \in Artifacts : KeyOf[a] = k /\ row'[a] = "kept"
        ]_<<vars, backupVars>>
  BY <1>1 DEF RootMatches
<1>3. QED
  BY <1>2, BackupInvariance, PTL DEF BackupSpec, RecoveredRootMatches

\* Across any recovery, a row that says its bytes are gone tells the truth, and no sweep
\* recorded as complete has passed a row by.
THEOREM RetentionOutlives == BackupSpec => [](PurgedIsGone /\ SweepVisitsAll)
<1>1. BackupInv => PurgedIsGone /\ SweepVisitsAll
  BY DEF BackupInv, IInv, PurgeStage, SweepStage
<1>2. QED
  BY <1>1, BackupInvariance, PTL
=============================================================================
