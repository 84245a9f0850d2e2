----------------------------- MODULE Retention ------------------------------
(***************************************************************************)
(* Ordinary artifacts and their retention: the API handlers that create    *)
(* rows and bytes and that keep a work in use (main.py), and the control   *)
(* host's retention workers, which expire an artifact in two transactions  *)
(* (artifact_retention.py) over checkpointed pages                         *)
(* (artifact_retention_admin.py, artifact_retention_job.py).               *)
(*                                                                         *)
(* Rows live in the database, bytes in ARTIFACT_ROOT; no transaction spans *)
(* both.  A transaction that keeps its locks from its first read to its    *)
(* commit is one action, except the second one of retention, whose unlink  *)
(* is a step of its own: a crash before its commit leaves the bytes gone   *)
(* and the row as it was.                                                  *)
(*                                                                         *)
(* Artifacts are numbered in the order of their ids; 0 is the NULL cursor. *)
(* The checkpoint's version is only ever compared for equality, so a       *)
(* worker remembers whether it moved since it was loaded.  One policy, one *)
(* scope, apply mode.                                                      *)
(***************************************************************************)
EXTENDS Integers, FiniteSets

CONSTANTS
  Works, Keys, Artifacts,  \* work items, object keys, artifact rows
  WorkOf, KeyOf,           \* the work of a key; the key a row names (several may name one)
  Sizes, FileSize,         \* what a row may say of its bytes; the bytes a key gets
  Sweepers,                \* retention workers; the documentation asks for one
  Limit,                   \* rows per page
  MaxFaults                \* bound on crashes and database errors

ASSUME ArtifactsAssumption == Artifacts \subseteq Nat \ { 0 } /\ IsFiniteSet(Artifacts)
ASSUME KeysAssumption == WorkOf \in [Keys -> Works] /\ KeyOf \in [Artifacts -> Keys]
ASSUME SizesAssumption == FileSize \in [Keys -> Sizes]
ASSUME LimitsAssumption == Limit \in Nat \ { 0 } /\ MaxFaults \in Nat

VARIABLES
  stage,      \* "leased"; "settled": final, delivered and released; "aged": for longer than
              \* the policy asks
  console,    \* preview and console of a work: "none", "open", or "closed" once expired
  fenced,     \* the worker that ran the works is quarantined
  row,        \* "absent", "kept", "expired" (intent recorded) or "purged"
  size,       \* Artifact.size_bytes
  file,       \* the key has its bytes under ARTIFACT_ROOT
  cursor,     \* ArtifactRetentionJob.cursor
  at,         \* where a retention worker is
  fresh,      \* the checkpoint has not moved since the worker loaded it
  after,      \* the cursor it loaded
  todo, next, \* the rest of its page, and next_cursor
  failed,     \* an artifact of the page failed
  owed, missed,  \* history: rows the current sweep still owes a visit; rows a finished
                 \* sweep owed to the end
  faults

use == <<stage, console, fenced>>
rows == <<row, size>>
sweep == <<owed, missed>>
worker == <<fresh, after, todo, next, failed>>
vars == <<use, rows, file, cursor, at, worker, sweep, faults>>

Init ==
  /\ stage = [w \in Works |-> "leased"]
  /\ console = [w \in Works |-> "none"]
  /\ fenced = FALSE
  /\ row = [a \in Artifacts |-> "absent"]
  /\ size = [a \in Artifacts |-> FileSize[KeyOf[a]]]
  /\ file = [k \in Keys |-> FALSE]
  /\ cursor = 0
  /\ at = [p \in Sweepers |-> "idle"]
  /\ fresh = [p \in Sweepers |-> FALSE]
  /\ after = [p \in Sweepers |-> 0]
  /\ todo = [p \in Sweepers |-> {}]
  /\ next = [p \in Sweepers |-> 0]
  /\ failed = [p \in Sweepers |-> FALSE]
  /\ owed = {}
  /\ missed = {}
  /\ faults = 0

-----------------------------------------------------------------------------
Pending == { a \in Artifacts : row[a] \in { "kept", "expired" } }
First(s) == CHOOSE a \in s : \A b \in s : a <= b
Last(s) == CHOOSE a \in s : \A b \in s : b <= a

\* The artifact a worker is at, its work, and all rows that name the same key.
Current(p) == First(todo[p])
Work(a) == WorkOf[KeyOf[a]]
Aliases(a) == { b \in Artifacts : KeyOf[b] = KeyOf[a] /\ row[b] # "absent" }

\* A retention worker that has unlinked bytes still holds its row locks, beginning with
\* the worker's, which a lease, a quarantine and other retention wait for.
WorkLocked(w) == \E p \in Sweepers : at[p] = "unlinked" /\ Work(Current(p)) = w
WorkerLocked == \E p \in Sweepers : at[p] = "unlinked"

\* validate_lease
LeaseValid(w) == stage[w] = "leased" /\ ~fenced /\ ~WorkerLocked

Fault == faults < MaxFaults /\ faults' = faults + 1

-----------------------------------------------------------------------------
(* The API.                                                                *)

\* upload_artifact: bytes first, then the row; a failure in between leaves bytes that no
\* row names.
UploadArtifact(a) ==
  LET k == KeyOf[a] IN
  /\ LeaseValid(WorkOf[k])
  /\ ~file[k] /\ Aliases(a) = {}
  /\ file' = [file EXCEPT ![k] = TRUE]
  /\ \/ /\ row' = [row EXCEPT ![a] = "kept"]
        /\ size' = [size EXCEPT ![a] = FileSize[k]]
        /\ UNCHANGED faults
     \/ Fault /\ UNCHANGED rows
  /\ UNCHANGED <<use, cursor, at, worker, sweep>>

\* register_artifact: a row for any key of the work, whether or not it has bytes, and of
\* the size the client says.
RegisterArtifact(a) ==
  /\ LeaseValid(Work(a))
  /\ row[a] = "absent"
  /\ row' = [row EXCEPT ![a] = "kept"]
  /\ \E s \in Sizes : size' = [size EXCEPT ![a] = s]
  /\ UNCHANGED <<use, file, cursor, at, worker, sweep, faults>>

\* register_preview, with its console lease.
RegisterPreview(w) ==
  /\ LeaseValid(w)
  /\ console' = [console EXCEPT ![w] = "open"]
  /\ UNCHANGED <<stage, fenced, rows, file, cursor, at, worker, sweep, faults>>

\* console_lease: a person takes or returns a console that was once registered, whatever
\* has become of its work, and extends it by a quarter of an hour.
TransferConsole(w) ==
  /\ console[w] # "none" /\ ~fenced /\ ~WorkLocked(w)
  /\ console' = [console EXCEPT ![w] = "open"]
  /\ UNCHANGED <<stage, fenced, rows, file, cursor, at, worker, sweep, faults>>

\* The work is completed or cancelled, its delivery is, and its lease is released.
Settle(w) ==
  /\ LeaseValid(w)
  /\ stage' = [stage EXCEPT ![w] = "settled"]
  /\ UNCHANGED <<console, fenced, rows, file, cursor, at, worker, sweep, faults>>

\* quarantine_worker also expires preview and console.
Quarantine ==
  /\ ~fenced /\ ~WorkerLocked
  /\ fenced' = TRUE
  /\ console' = [w \in Works |-> IF console[w] = "open" THEN "closed" ELSE console[w]]
  /\ UNCHANGED <<stage, rows, file, cursor, at, worker, sweep, faults>>

\* Time: the policy's days are over ...
Age(w) ==
  /\ stage[w] = "settled"
  /\ stage' = [stage EXCEPT ![w] = "aged"]
  /\ UNCHANGED <<console, fenced, rows, file, cursor, at, worker, sweep, faults>>

\* ... or a preview and its console are.
Close(w) ==
  /\ console[w] = "open"
  /\ console' = [console EXCEPT ![w] = "closed"]
  /\ UNCHANGED <<stage, fenced, rows, file, cursor, at, worker, sweep, faults>>

-----------------------------------------------------------------------------
(* A retention worker's page.                                              *)

\* load_checkpoint
Load(p) ==
  /\ at[p] = "idle"
  /\ at' = [at EXCEPT ![p] = "loaded"]
  /\ fresh' = [fresh EXCEPT ![p] = TRUE]
  /\ after' = [after EXCEPT ![p] = cursor]
  /\ UNCHANGED <<use, rows, file, cursor, todo, next, failed, sweep, faults>>

\* A page that always starts from the lowest id.
FirstPage(p) == Pending

Beyond(p) == { a \in Pending : a > after[p] }

\* The first rows of s, in the order of their ids.
Page(s) == { a \in s : Cardinality({ b \in s : b < a }) < Limit }

\* run_batch: the first rows beyond the cursor that are not purged, and where to go on.
Select(p) ==
  /\ at[p] = "loaded"
  /\ at' = [at EXCEPT ![p] = "scan"]
  /\ todo' = [todo EXCEPT ![p] = Page(Beyond(p))]
  /\ next' = [next EXCEPT ![p] = IF Page(Beyond(p)) = Beyond(p) THEN 0
                                ELSE Last(Page(Beyond(p)))]
  /\ after' = [after EXCEPT ![p] = 0]
  /\ UNCHANGED <<use, rows, file, cursor, fresh, failed, sweep, faults>>

\* No two rows of the key disagree on its size.
SameSize(a) == \A b, c \in Aliases(a) : size[b] = size[c]

\* locked_group: nobody uses the work any more, and every alias agrees.
Removable(a) ==
  /\ stage[Work(a)] = "aged"
  /\ ~fenced
  /\ console[Work(a)] # "open"
  /\ \A b, c \in Aliases(a) : row[b] = row[c]
  /\ SameSize(a)

\* inspect_file, which the purge repeats: bytes of the size the row says; they may be gone
\* already only when the intent is recorded.
Inspected(a) == IF file[KeyOf[a]] THEN size[a] = FileSize[KeyOf[a]] ELSE row[a] = "expired"

\* The page moves on; a visit counts when it did not fail, in the sweep it belongs to.
Done(p, ok) ==
  /\ todo' = [todo EXCEPT ![p] = @ \ { Current(p) }]
  /\ at' = [at EXCEPT ![p] = "scan"]
  /\ failed' = [failed EXCEPT ![p] = @ \/ ~ok]
  /\ owed' = IF ok /\ fresh[p] THEN owed \ { Current(p) } ELSE owed
  /\ UNCHANGED <<missed, fresh, after, next>>

\* The first transaction ends the visit: protected, already purged, or other bytes than the
\* row says.
Dismiss(p) ==
  LET a == Current(p) IN
  /\ at[p] = "scan" /\ todo[p] # {} /\ ~WorkerLocked
  /\ ~Removable(a) \/ row[a] = "purged" \/ ~Inspected(a)
  /\ Done(p, ~Removable(a) \/ row[a] = "purged")
  /\ UNCHANGED <<use, rows, file, cursor, faults>>

\* ... or makes the intent durable for all aliases; an earlier one is kept as it is.
RecordIntent(p) ==
  LET a == Current(p) IN
  /\ at[p] = "scan" /\ todo[p] # {} /\ ~WorkerLocked
  /\ Removable(a) /\ a \in Pending /\ Inspected(a)
  /\ row' = [b \in Artifacts |-> IF b \in Aliases(a) THEN "expired" ELSE row[b]]
  /\ at' = [at EXCEPT ![p] = "intent"]
  /\ UNCHANGED <<use, size, file, cursor, worker, sweep, faults>>

\* Guards trusted from the first transaction.
StillRemovableUnchecked(a) == TRUE

StillRemovable(a) == Removable(a)

\* The second transaction checks everything again: a worker that gives up ...
GiveUp(p) ==
  LET a == Current(p) IN
  /\ at[p] = "intent" /\ ~WorkerLocked
  /\ ~StillRemovable(a) \/ row[a] = "purged" \/ ~Inspected(a)
  /\ Done(p, ~StillRemovable(a) \/ row[a] = "purged")
  /\ UNCHANGED <<use, rows, file, cursor, faults>>

\* ... one that removes the bytes, which an earlier attempt may have done ...
PurgeFile(p) ==
  LET a == Current(p) IN
  /\ at[p] = "intent" /\ ~WorkerLocked
  /\ StillRemovable(a) /\ row[a] # "purged" /\ Inspected(a)
  /\ file' = [file EXCEPT ![KeyOf[a]] = FALSE]
  /\ at' = [at EXCEPT ![p] = "unlinked"]
  /\ UNCHANGED <<use, rows, cursor, worker, sweep, faults>>

\* Only the row that was asked for.
PurgedRowAlone(a) == { a }

PurgedRows(a) == Aliases(a)

\* ... and commits purged_at for every alias.
CommitPurge(p) ==
  /\ at[p] = "unlinked"
  /\ row' = [b \in Artifacts |-> IF b \in PurgedRows(Current(p)) THEN "purged" ELSE row[b]]
  /\ Done(p, TRUE)
  /\ UNCHANGED <<use, size, file, cursor, faults>>

\* The end of a run: nothing of a page outlives it but the checkpoint.
Forget(p) ==
  /\ at' = [at EXCEPT ![p] = "idle"]
  /\ after' = [after EXCEPT ![p] = 0]
  /\ todo' = [todo EXCEPT ![p] = {}]
  /\ next' = [next EXCEPT ![p] = 0]
  /\ failed' = [failed EXCEPT ![p] = FALSE]

\* A lock or statement timeout, or a commit that fails: the artifact counts as failed.
DatabaseError(p) ==
  /\ at[p] \in { "intent", "unlinked" } \/ (at[p] = "scan" /\ todo[p] # {})
  /\ Fault
  /\ Done(p, FALSE)
  /\ UNCHANGED <<use, rows, file, cursor>>

\* The process dies or is stopped; its open transaction is rolled back.
Crash(p) ==
  /\ at[p] # "idle"
  /\ Fault
  /\ Forget(p)
  /\ fresh' = [fresh EXCEPT ![p] = FALSE]
  /\ UNCHANGED <<use, rows, file, cursor, sweep>>

\* Moving on from a page with a failure.
MaySaveFailed(p) == fresh[p]

\* run_job saves no page with a failure, save_checkpoint nothing over newer progress.
MaySave(p) == ~failed[p] /\ fresh[p]

\* A finished sweep clears the cursor and the next one owes every row not yet purged.
SaveCheckpoint(p) ==
  /\ at[p] = "scan" /\ todo[p] = {}
  /\ Forget(p)
  /\ IF MaySave(p)
     THEN /\ cursor' = next[p]
          /\ fresh' = [q \in Sweepers |-> FALSE]
          /\ IF next[p] = 0
             THEN missed' = missed \cup (owed \cap Pending) /\ owed' = Pending
             ELSE UNCHANGED sweep
     ELSE /\ fresh' = [fresh EXCEPT ![p] = FALSE]
          /\ UNCHANGED <<cursor, sweep>>
  /\ UNCHANGED <<use, rows, file, faults>>

-----------------------------------------------------------------------------
SweepStep(p) ==
  \/ Load(p) \/ Select(p) \/ Dismiss(p) \/ RecordIntent(p) \/ GiveUp(p)
  \/ PurgeFile(p) \/ CommitPurge(p) \/ SaveCheckpoint(p)

Interruption(p) == DatabaseError(p) \/ Crash(p)

UseStep(w) ==
  \/ RegisterPreview(w) \/ TransferConsole(w) \/ Settle(w) \/ Age(w) \/ Close(w)

Next ==
  \/ \E a \in Artifacts : UploadArtifact(a) \/ RegisterArtifact(a)
  \/ \E w \in Works : UseStep(w)
  \/ Quarantine
  \/ \E p \in Sweepers : SweepStep(p) \/ Interruption(p)

Spec == Init /\ [][Next]_vars

\* The scheduler runs page after page, and an operator starts it again when it stopped.
Fairness == \A p \in Sweepers : WF_vars(SweepStep(p))
FairSpec == Spec /\ Fairness

-----------------------------------------------------------------------------
(* Properties.                                                             *)

\* Every variable stays in its domain.
TypeOK ==
  /\ stage \in [Works -> { "leased", "settled", "aged" }]
  /\ console \in [Works -> { "none", "open", "closed" }]
  /\ fenced \in BOOLEAN
  /\ row \in [Artifacts -> { "absent", "kept", "expired", "purged" }]
  /\ size \in [Artifacts -> Sizes]
  /\ file \in [Keys -> BOOLEAN]
  /\ cursor \in Artifacts \cup { 0 }
  /\ at \in [Sweepers -> { "idle", "loaded", "scan", "intent", "unlinked" }]
  /\ fresh \in [Sweepers -> BOOLEAN]
  /\ after \in [Sweepers -> Artifacts \cup { 0 }]
  /\ todo \in [Sweepers -> SUBSET Artifacts]
  /\ next \in [Sweepers -> Artifacts \cup { 0 }]
  /\ failed \in [Sweepers -> BOOLEAN]
  /\ owed \subseteq Artifacts /\ missed \subseteq Artifacts
  /\ faults \in Nat

\* A row that says its bytes are gone tells the truth, and so does every alias of it,
\* wherever an attempt was interrupted and another worker took over (expire_artifact,
\* purge_file).
PurgedIsGone ==
  \A a \in Artifacts : row[a] = "purged" =>
    /\ ~file[KeyOf[a]]
    /\ \A b \in Aliases(a) : row[b] = "purged"

\* Bytes are removed only when every row that names them records the intent to, while the
\* work is final and old, and nobody has a console on it or quarantined its worker since
\* the intent was recorded (artifact-retention.md: "Transaction two reacquires the guards").
RemovesOnlyUnused ==
  [][\A k \in Keys : file[k] /\ ~file'[k] =>
       /\ \A a \in Artifacts : KeyOf[a] = k => row[a] \in { "absent", "expired" }
       /\ stage[WorkOf[k]] = "aged" /\ ~fenced /\ console[WorkOf[k]] # "open"]_vars

\* A sweep recorded as complete has visited, without failure, every row that was there
\* when it began and is not purged: no crash, retry or second worker moves the cursor past
\* a row (save_checkpoint; scheduled-retention.md: "Version-conditional writes prevent
\* concurrent stale checkpoints from replacing newer progress").
SweepVisitsAll == missed = {}

\* Nobody will use the work again, and its rows agree on the size of the bytes: an artifact
\* that is due ...
Unused(w) == stage[w] = "aged" /\ ~fenced /\ console[w] # "open"
Due(a) == a \in Pending /\ Unused(Work(a)) /\ SameSize(a)

\* ... does not stay so for ever, however many protected rows of other works come first, as
\* long as no row fails whenever it is visited: one that lacks its bytes, or says another
\* size than theirs, stops every sweep at its page (run_job).
Intact == \A a \in Pending : Removable(a) => Inspected(a)
PurgesDue == \A a \in Artifacts : ~<>[](Due(a) /\ Intact)
=============================================================================
