--------------------------- MODULE RetentionProofs ---------------------------
(***************************************************************************)
(* Proofs about Retention, for any number of works, files, aliases and     *)
(* retention workers.                                                      *)
(***************************************************************************)
EXTENDS Retention, FiniteSetTheorems, TLAPS

-----------------------------------------------------------------------------
(* The inductive invariant.                                                *)

Active == { "scan", "intent", "unlinked" }

\* Whose bytes are to go belongs to work nobody will ever run again; a worker stays with
\* the row it recorded the intent for, and only one has unlinked bytes at a time.
PurgeStage ==
  /\ \A a \in Artifacts : row[a] \in { "expired", "purged" } => stage[Work(a)] = "aged"
  /\ \A p \in Sweepers : at[p] \in { "intent", "unlinked" } =>
       todo[p] # {} /\ row[Current(p)] \in { "expired", "purged" }
  /\ \A p \in Sweepers : at[p] = "unlinked" =>
       row[Current(p)] = "expired" /\ ~file[KeyOf[Current(p)]]
  /\ \A p, q \in Sweepers : at[p] = "unlinked" /\ at[q] = "unlinked" => p = q
  /\ PurgedIsGone

\* What the sweep still owes lies beyond the checkpoint, and for a worker whose load is
\* still the current one, on its page or beyond it.
SweepStage ==
  /\ \A a \in owed : row[a] # "absent"
  /\ \A a \in owed \cap Pending : a > cursor
  /\ \A p \in Sweepers : at[p] = "loaded" /\ fresh[p] => after[p] = cursor
  /\ \A p \in Sweepers : at[p] \in Active /\ fresh[p] /\ ~failed[p] =>
       \A a \in owed \cap Pending : a \in todo[p] \/ (next[p] # 0 /\ a > next[p])
  /\ \A p \in Sweepers : at[p] \in { "idle", "loaded" } => ~failed[p]
  /\ SweepVisitsAll

\* The inductive invariant.
IInv == TypeOK /\ PurgeStage /\ SweepStage

-----------------------------------------------------------------------------
(* Rows in the order of their ids.                                         *)

\* First finds the lowest id.
LEMMA FirstIsLowest ==
  ASSUME NEW S \in SUBSET Nat, S # {}
  PROVE  First(S) \in S /\ \A b \in S : First(S) <= b
<1>1. PICK x \in S : \A y \in S : ~(<<y, x>> \in OpToRel(<, Nat))
  BY WFMin, NatLessThanWellFounded
<1>2. ASSUME NEW y \in S
      PROVE  x <= y
  <2>1. x \in Nat /\ y \in Nat
    OBVIOUS
  <2>2. y < x => <<y, x>> \in OpToRel(<, Nat)
    BY <2>1 DEF OpToRel
  <2>3. ~(y < x)
    BY <1>1, <2>2, Zenon
  <2>4. QED
    BY <2>1, <2>3
<1>3. QED
  BY <1>2 DEF First

\* Last finds the highest id of a finite set: the row that the fewest others exceed.
LEMMA LastIsHighest ==
  ASSUME NEW S \in SUBSET Nat, S # {}, IsFiniteSet(S)
  PROVE  Last(S) \in S /\ \A b \in S : b <= Last(S)
<1> DEFINE Above(x) == { b \in S : b > x }
           Counts == { Cardinality(Above(x)) : x \in S }
<1>1. \A x \in S : IsFiniteSet(Above(x)) /\ Cardinality(Above(x)) \in Nat
  BY FS_Subset, FS_CardinalityType
<1>2. Counts \in SUBSET Nat /\ Counts # {}
  BY <1>1
<1>3. First(Counts) \in Counts /\ \A n \in Counts : First(Counts) <= n
  BY <1>2, FirstIsLowest
<1>4. PICK x \in S : First(Counts) = Cardinality(Above(x))
  BY <1>3
<1>5. ASSUME NEW y \in S, y > x
      PROVE  FALSE
  <2>1. Above(y) \in SUBSET Above(x) /\ Above(y) # Above(x)
    <3>1. \A b \in S : b \in Nat
      OBVIOUS
    <3>2. \A b \in S : b > y => b > x
      BY <1>5, <3>1
    <3>3. y \in Above(x) /\ y \notin Above(y)
      BY <1>5, <3>1
    <3>4. QED
      BY <3>2, <3>3
  <2>2. Cardinality(Above(y)) <= Cardinality(Above(x)) /\ Cardinality(Above(y)) # Cardinality(Above(x))
    BY <1>1, <2>1, FS_Subset
  <2>3. Cardinality(Above(x)) <= Cardinality(Above(y))
    BY <1>3, <1>4
  <2>4. QED
    BY <1>1, <2>2, <2>3
<1>6. \A y \in S : y <= x
  BY <1>5
<1>7. QED
  BY <1>6 DEF Last

\* A page of something is not empty, and whatever it leaves out comes later.
LEMMA PageIsFirst ==
  ASSUME NEW S \in SUBSET Artifacts
  PROVE  /\ Page(S) \subseteq S
         /\ S # {} => Page(S) # {}
         /\ Page(S) # S => Last(Page(S)) \in Page(S)
         /\ \A a \in S \ Page(S) : a > Last(Page(S))
<1> DEFINE Below(a) == { b \in S : b < a }
<1>1. S \in SUBSET Nat /\ IsFiniteSet(S)
  BY ArtifactsAssumption, FS_Subset
<1>2. \A a \in S : IsFiniteSet(Below(a)) /\ Cardinality(Below(a)) \in Nat
  BY <1>1, FS_Subset, FS_CardinalityType
<1>3. Page(S) \subseteq S
  BY DEF Page
<1>4. ASSUME S # {} PROVE Page(S) # {}
  <2>1. First(S) \in S /\ \A b \in S : First(S) <= b
    BY <1>1, <1>4, FirstIsLowest
  <2>2. Below(First(S)) = {}
    <3>1. \A b \in S : b \in Nat
      BY <1>1
    <3>2. \A b \in S : ~(b < First(S))
      BY <2>1, <3>1
    <3>3. QED
      BY <3>2
  <2>3. Cardinality(Below(First(S))) = 0
    BY <2>2, FS_EmptySet
  <2>4. QED
    BY <2>1, <2>3, LimitsAssumption DEF Page
<1>5. Page(S) \in SUBSET Nat /\ IsFiniteSet(Page(S))
  BY <1>1, <1>3, FS_Subset
<1>6. ASSUME Page(S) # S
      PROVE  Last(Page(S)) \in Page(S)
  BY <1>3, <1>4, <1>5, <1>6, LastIsHighest
<1>7. ASSUME NEW a \in S \ Page(S)
      PROVE  a > Last(Page(S))
  <2> DEFINE c == Last(Page(S))
  <2>1. c \in Page(S)
    BY <1>6
  <2>2. c \in S /\ Cardinality(Below(c)) < Limit /\ ~(Cardinality(Below(a)) < Limit)
    BY <2>1 DEF Page
  <2>. \A b \in S : b \in Nat
    BY <1>1
  <2>3. ASSUME a <= c PROVE FALSE
    <3>1. Below(a) \in SUBSET Below(c)
      <4>1. \A b \in S : b < a => b < c
        BY <2>2, <2>3
      <4>2. QED
        BY <4>1
    <3>2. Cardinality(Below(a)) <= Cardinality(Below(c))
      BY <1>2, <2>2, <3>1, FS_Subset
    <3>3. QED
      BY <1>2, <2>2, <3>2, LimitsAssumption
  <2>4. QED
    BY <2>2, <2>3
<1>8. QED
  BY <1>3, <1>4, <1>6, <1>7

\* A worker on a page is at one of its rows.
LEMMA CurrentIsOnPage ==
  ASSUME TypeOK, NEW p \in Sweepers, todo[p] # {}
  PROVE  Current(p) \in todo[p] /\ Current(p) \in Artifacts
<1>1. todo[p] \in SUBSET Nat /\ todo[p] \in SUBSET Artifacts
  BY ArtifactsAssumption DEF TypeOK
<1>2. QED
  BY <1>1, FirstIsLowest DEF Current

-----------------------------------------------------------------------------
(* The types.                                                              *)

\* Every step leaves every variable in its domain.
LEMMA TypeKept ==
  ASSUME TypeOK, [Next]_vars
  PROVE  TypeOK'
<1> USE DEF TypeOK, use, rows, sweep, worker, vars
<1>1. ASSUME NEW a \in Artifacts, UploadArtifact(a) \/ RegisterArtifact(a)
      PROVE  TypeOK'
  <2>1. KeyOf[a] \in Keys
    BY KeysAssumption
  <2>2. row' \in [Artifacts -> { "absent", "kept", "expired", "purged" }]
    BY <1>1 DEF UploadArtifact, RegisterArtifact, Fault
  <2>3. size' \in [Artifacts -> Sizes]
    BY <1>1, <2>1, SizesAssumption DEF UploadArtifact, RegisterArtifact
  <2>4. file' = file \/ file' = [file EXCEPT ![KeyOf[a]] = TRUE]
    BY <1>1 DEF UploadArtifact, RegisterArtifact
  <2>5. file' \in [Keys -> BOOLEAN]
    BY <2>1, <2>4
  <2>6. faults' = faults \/ faults' = faults + 1
    BY <1>1 DEF UploadArtifact, RegisterArtifact, Fault
  <2>7. faults' \in Nat
    BY <2>6
  <2>8. QED
    BY <1>1, <2>2, <2>3, <2>5, <2>7 DEF UploadArtifact, RegisterArtifact
<1>2. ASSUME NEW w \in Works, UseStep(w)
      PROVE  TypeOK'
  BY <1>2 DEF UseStep, RegisterPreview, TransferConsole, Settle, Age, Close
<1>3. CASE Quarantine
  BY <1>3 DEF Quarantine
<1>4. ASSUME NEW p \in Sweepers, Load(p)
      PROVE  TypeOK'
  BY <1>4 DEF Load
<1>5. ASSUME NEW p \in Sweepers, Select(p)
      PROVE  TypeOK'
  <2>1. Beyond(p) \in SUBSET Artifacts
    BY DEF Beyond, Pending
  <2>2. Page(Beyond(p)) \in SUBSET Artifacts
    BY <2>1, PageIsFirst
  <2>3. (IF Page(Beyond(p)) = Beyond(p) THEN 0 ELSE Last(Page(Beyond(p)))) \in Artifacts \cup { 0 }
    BY <2>1, <2>2, PageIsFirst
  <2>4. QED
    BY <1>5, <2>2, <2>3 DEF Select
<1>6. ASSUME NEW p \in Sweepers, NEW ok \in BOOLEAN, Done(p, ok)
      PROVE  /\ at' \in [Sweepers -> { "idle", "loaded", "scan", "intent", "unlinked" }]
             /\ todo' \in [Sweepers -> SUBSET Artifacts]
             /\ failed' \in [Sweepers -> BOOLEAN]
             /\ owed' \subseteq Artifacts
             /\ UNCHANGED <<missed, fresh, after, next>>
  BY <1>6 DEF Done
<1>7. ASSUME NEW p \in Sweepers, Dismiss(p) \/ GiveUp(p)
      PROVE  TypeOK'
  <2>1. PICK ok \in BOOLEAN : Done(p, ok)
    BY <1>7 DEF Dismiss, GiveUp
  <2>2. UNCHANGED <<stage, console, fenced, row, size, file, cursor, faults>>
    BY <1>7 DEF Dismiss, GiveUp
  <2>3. QED
    BY <1>6, <2>1, <2>2
<1>8. ASSUME NEW p \in Sweepers, RecordIntent(p)
      PROVE  TypeOK'
  BY <1>8 DEF RecordIntent
<1>9. ASSUME NEW p \in Sweepers, PurgeFile(p)
      PROVE  TypeOK'
  BY <1>9 DEF PurgeFile
<1>10. ASSUME NEW p \in Sweepers, CommitPurge(p)
       PROVE  TypeOK'
  <2>1. row' \in [Artifacts -> { "absent", "kept", "expired", "purged" }]
    BY <1>10 DEF CommitPurge
  <2>2. Done(p, TRUE) /\ UNCHANGED <<stage, console, fenced, size, file, cursor, faults>>
    BY <1>10 DEF CommitPurge
  <2>3. QED
    BY <1>6, <2>1, <2>2
<1>11. ASSUME NEW p \in Sweepers, DatabaseError(p)
       PROVE  TypeOK'
  <2>1. UNCHANGED <<stage, console, fenced, row, size, file, cursor>>
    BY <1>11 DEF DatabaseError
  <2>2. faults' \in Nat
    BY <1>11 DEF DatabaseError, Fault
  <2>3. Done(p, FALSE)
    BY <1>11 DEF DatabaseError
  <2>4. QED
    BY <1>6, <2>1, <2>2, <2>3
<1>12. ASSUME NEW p \in Sweepers, Crash(p)
       PROVE  TypeOK'
  BY <1>12 DEF Crash, Forget, Fault
<1>13. ASSUME NEW p \in Sweepers, SaveCheckpoint(p)
       PROVE  TypeOK'
  <2>1. Pending \subseteq Artifacts
    BY DEF Pending
  <2>2. fresh' \in [Sweepers -> BOOLEAN]
    <3>1. CASE MaySave(p)
      <4>1. fresh' = [q \in Sweepers |-> FALSE]
        BY <1>13, <3>1 DEF SaveCheckpoint
      <4>2. QED
        BY <4>1
    <3>2. CASE ~MaySave(p)
      <4>1. fresh' = [fresh EXCEPT ![p] = FALSE]
        BY <1>13, <3>2 DEF SaveCheckpoint
      <4>2. QED
        BY <4>1
    <3>3. QED
      BY <3>1, <3>2
  <2>3. cursor' \in Artifacts \cup { 0 }
    BY <1>13 DEF SaveCheckpoint
  <2>4. owed' \subseteq Artifacts /\ missed' \subseteq Artifacts
    BY <1>13, <2>1 DEF SaveCheckpoint
  <2>5. QED
    BY <1>13, <2>2, <2>3, <2>4 DEF SaveCheckpoint, Forget
<1>14. CASE UNCHANGED vars
  BY <1>14
<1>15. QED
  BY <1>1, <1>2, <1>3, <1>4, <1>5, <1>7, <1>8, <1>9, <1>10, <1>11, <1>12, <1>13, <1>14
  DEF Next, SweepStep, Interruption
-----------------------------------------------------------------------------
(* Purges.                                                                 *)

\* A step that leaves rows, bytes and the workers' intents alone, or drops an intent.
LEMMA IntentsOnlyDropped ==
  ASSUME PurgeStage, UNCHANGED <<row, file>>,
         \A w \in Works : stage[w] = "aged" => stage'[w] = "aged",
         \A p \in Sweepers : \/ at'[p] \notin { "intent", "unlinked" }
                             \/ at'[p] = at[p] /\ todo'[p] = todo[p]
  PROVE  PurgeStage'
<1>1. \A a \in Artifacts : Work(a) \in Works
  BY KeysAssumption DEF Work
<1>2. (\A a \in Artifacts : row[a] \in { "expired", "purged" } => stage[Work(a)] = "aged")'
  BY <1>1 DEF PurgeStage, Work
<1>3. (\A p \in Sweepers : at[p] \in { "intent", "unlinked" } =>
         todo[p] # {} /\ row[Current(p)] \in { "expired", "purged" })'
  BY DEF PurgeStage, Current
<1>4. (\A p \in Sweepers : at[p] = "unlinked" =>
         row[Current(p)] = "expired" /\ ~file[KeyOf[Current(p)]])'
  BY DEF PurgeStage, Current
<1>5. (\A p, q \in Sweepers : at[p] = "unlinked" /\ at[q] = "unlinked" => p = q)'
  BY DEF PurgeStage
<1>6. PurgedIsGone'
  BY DEF PurgeStage, PurgedIsGone, Aliases
<1>7. QED
  BY <1>2, <1>3, <1>4, <1>5, <1>6 DEF PurgeStage

\* A lease cannot add a row or bytes to what is expired: its work is not settled.
LEMMA PurgeKeptByApi ==
  ASSUME TypeOK, PurgeStage, NEW a \in Artifacts, UploadArtifact(a) \/ RegisterArtifact(a)
  PROVE  PurgeStage'
<1> DEFINE k == KeyOf[a]
<1>1. /\ row[a] = "absent"
      /\ k \in Keys
      /\ \A p \in Sweepers : at[p] # "unlinked"
      /\ UNCHANGED <<stage, at, todo>>
      /\ row' = row \/ row' = [row EXCEPT ![a] = "kept"]
      /\ file' = file \/ file' = [file EXCEPT ![k] = TRUE]
  BY KeysAssumption
  DEF UploadArtifact, RegisterArtifact, LeaseValid, WorkerLocked, Aliases, use, rows, worker
<1>2. \A b \in Artifacts : KeyOf[b] = k => row[b] \notin { "expired", "purged" }
  <2>1. stage[Work(a)] = "leased"
    BY DEF UploadArtifact, RegisterArtifact, LeaseValid, Work
  <2>2. QED
    BY <2>1 DEF PurgeStage, Work
<1>3. \A b \in Artifacts : /\ row'[b] \in { "expired", "purged" } => row'[b] = row[b] /\ b # a
                           /\ b # a => row'[b] = row[b]
                           /\ row'[a] \notin { "expired", "purged" }
                           /\ KeyOf[b] # k => file'[KeyOf[b]] = file[KeyOf[b]]
  BY <1>1, KeysAssumption DEF TypeOK
<1>4. (\A b \in Artifacts : row[b] \in { "expired", "purged" } => stage[Work(b)] = "aged")'
  BY <1>1, <1>3 DEF PurgeStage, Work
<1>5. (\A p \in Sweepers : at[p] \in { "intent", "unlinked" } =>
         todo[p] # {} /\ row[Current(p)] \in { "expired", "purged" })'
  <2>. SUFFICES ASSUME NEW p \in Sweepers, at[p] \in { "intent", "unlinked" }
                PROVE  todo[p] # {} /\ row'[Current(p)] \in { "expired", "purged" }
    BY <1>1 DEF Current
  <2>1. todo[p] # {} /\ row[Current(p)] \in { "expired", "purged" }
    BY DEF PurgeStage
  <2>2. Current(p) \in Artifacts
    BY <2>1, CurrentIsOnPage
  <2>3. QED
    BY <1>1, <1>3, <2>1, <2>2
<1>6. PurgedIsGone'
  <2>. SUFFICES ASSUME NEW b \in Artifacts, row'[b] = "purged"
                PROVE  /\ ~file'[KeyOf[b]]
                       /\ \A c \in Artifacts : KeyOf[c] = KeyOf[b] /\ row'[c] # "absent"
                            => row'[c] = "purged"
    BY DEF PurgedIsGone, Aliases
  <2>1. row[b] = "purged" /\ KeyOf[b] # k
    BY <1>2, <1>3
  <2>2. QED
    BY <1>3, <2>1 DEF PurgeStage, PurgedIsGone, Aliases
<1>7. QED
  BY <1>1, <1>4, <1>5, <1>6 DEF PurgeStage

\* Recording an intent marks all rows of the key, none of which is purged.
LEMMA PurgeKeptByIntent ==
  ASSUME TypeOK, PurgeStage, NEW p \in Sweepers, RecordIntent(p)
  PROVE  PurgeStage'
<1> DEFINE a == Current(p)
<1>1. /\ a \in Artifacts /\ a \in Aliases(a)
      /\ stage[Work(a)] = "aged"
      /\ \A b \in Aliases(a) : row[b] \in { "kept", "expired" }
  <2>1. a \in Artifacts
    BY CurrentIsOnPage DEF RecordIntent
  <2>2. row[a] \in { "kept", "expired" }
    BY DEF RecordIntent, Pending
  <2>3. a \in Aliases(a)
    BY <2>1, <2>2 DEF Aliases
  <2>4. QED
    BY <2>1, <2>2, <2>3 DEF RecordIntent, Removable
<1>2. /\ UNCHANGED <<stage, file, todo>>
      /\ \A q \in Sweepers : at[q] # "unlinked"
      /\ at' = [at EXCEPT ![p] = "intent"]
      /\ todo[p] # {}
      /\ \A b \in Artifacts : row'[b] = IF b \in Aliases(a) THEN "expired" ELSE row[b]
  BY DEF RecordIntent, WorkerLocked, use, rows, worker
<1>3. (\A b \in Artifacts : row[b] \in { "expired", "purged" } => stage[Work(b)] = "aged")'
  BY <1>1, <1>2 DEF PurgeStage, Work, Aliases
<1>4. (\A q \in Sweepers : at[q] \in { "intent", "unlinked" } =>
         todo[q] # {} /\ row[Current(q)] \in { "expired", "purged" })'
  <2>. SUFFICES ASSUME NEW q \in Sweepers, at'[q] \in { "intent", "unlinked" }
                PROVE  todo[q] # {} /\ row'[Current(q)] \in { "expired", "purged" }
    BY <1>2 DEF Current
  <2>1. CASE q = p
    BY <1>1, <1>2, <2>1
  <2>2. CASE q # p
    <3>1. todo[q] # {} /\ row[Current(q)] \in { "expired", "purged" }
      BY <1>2, <2>2 DEF PurgeStage, TypeOK
    <3>2. Current(q) \in Artifacts
      BY <3>1, CurrentIsOnPage
    <3>3. QED
      BY <1>2, <3>1, <3>2
  <2>3. QED
    BY <2>1, <2>2
<1>5. \A q \in Sweepers : at'[q] # "unlinked"
  BY <1>2 DEF TypeOK
<1>6. PurgedIsGone'
  BY <1>1, <1>2 DEF PurgeStage, PurgedIsGone, Aliases
<1>7. QED
  BY <1>3, <1>4, <1>5, <1>6 DEF PurgeStage

\* Bytes go while their row says expired, and the locks keep every other worker from it.
LEMMA PurgeKeptByUnlink ==
  ASSUME TypeOK, PurgeStage, NEW p \in Sweepers, PurgeFile(p)
  PROVE  PurgeStage'
<1> DEFINE a == Current(p)
<1>1. todo[p] # {} /\ row[a] = "expired"
  BY DEF PurgeFile, PurgeStage
<1>2. a \in Artifacts /\ KeyOf[a] \in Keys
  BY <1>1, CurrentIsOnPage, KeysAssumption
<1>3. /\ UNCHANGED <<stage, row, todo>>
      /\ at' = [at EXCEPT ![p] = "unlinked"]
      /\ \A q \in Sweepers : at[q] # "unlinked"
      /\ file' = [file EXCEPT ![KeyOf[a]] = FALSE]
  BY DEF PurgeFile, WorkerLocked, use, rows, worker
<1>4. \A q \in Sweepers : at'[q] = IF q = p THEN "unlinked" ELSE at[q]
  BY <1>3 DEF TypeOK
<1>5. ~file'[KeyOf[a]] /\ \A k \in Keys : file'[k] => file[k]
  BY <1>2, <1>3 DEF TypeOK
<1>6. (\A b \in Artifacts : row[b] \in { "expired", "purged" } => stage[Work(b)] = "aged")'
  BY <1>3 DEF PurgeStage, Work
<1>7. (\A q \in Sweepers : at[q] \in { "intent", "unlinked" } =>
         todo[q] # {} /\ row[Current(q)] \in { "expired", "purged" })'
  BY <1>1, <1>3, <1>4 DEF PurgeStage, Current
<1>8. (\A q \in Sweepers : at[q] = "unlinked" =>
         row[Current(q)] = "expired" /\ ~file[KeyOf[Current(q)]])'
  BY <1>1, <1>3, <1>4, <1>5 DEF Current
<1>9. (\A q, r \in Sweepers : at[q] = "unlinked" /\ at[r] = "unlinked" => q = r)'
  BY <1>3, <1>4
<1>10. PurgedIsGone'
  BY <1>3, <1>5, KeysAssumption DEF PurgeStage, PurgedIsGone, Aliases
<1>11. QED
  BY <1>6, <1>7, <1>8, <1>9, <1>10 DEF PurgeStage

\* The commit says of all rows of the key what the unlink made true.
LEMMA PurgeKeptByCommit ==
  ASSUME TypeOK, PurgeStage, NEW p \in Sweepers, CommitPurge(p)
  PROVE  PurgeStage'
<1> DEFINE a == Current(p)
<1>1. todo[p] # {} /\ row[a] = "expired" /\ ~file[KeyOf[a]]
  BY DEF CommitPurge, PurgeStage
<1>2. a \in Artifacts /\ stage[Work(a)] = "aged"
  BY <1>1, CurrentIsOnPage DEF PurgeStage
<1>3. /\ UNCHANGED <<stage, file>>
      /\ \A b \in Artifacts : row'[b] = IF b \in Aliases(a) THEN "purged" ELSE row[b]
      /\ at' = [at EXCEPT ![p] = "scan"]
      /\ todo' = [todo EXCEPT ![p] = @ \ { a }]
  BY DEF CommitPurge, Done, PurgedRows, use, rows
<1>4. \A q \in Sweepers : at'[q] \in { "intent", "unlinked" } =>
        q # p /\ at'[q] = at[q] /\ todo'[q] = todo[q] /\ at[q] # "unlinked"
  <2>1. \A q \in Sweepers : q # p => at'[q] = at[q] /\ todo'[q] = todo[q] /\ at[q] # "unlinked"
    BY <1>3 DEF TypeOK, PurgeStage, CommitPurge
  <2>2. at'[p] = "scan"
    BY <1>3 DEF TypeOK
  <2>3. QED
    BY <2>1, <2>2
<1>5. (\A b \in Artifacts : row[b] \in { "expired", "purged" } => stage[Work(b)] = "aged")'
  BY <1>2, <1>3 DEF PurgeStage, Work, Aliases
<1>6. (\A q \in Sweepers : at[q] \in { "intent", "unlinked" } =>
         todo[q] # {} /\ row[Current(q)] \in { "expired", "purged" })'
  <2>. SUFFICES ASSUME NEW q \in Sweepers, at'[q] \in { "intent", "unlinked" }
                PROVE  todo[q] # {} /\ row'[Current(q)] \in { "expired", "purged" }
    BY <1>4 DEF Current
  <2>1. todo[q] # {} /\ row[Current(q)] \in { "expired", "purged" }
    BY <1>4 DEF PurgeStage
  <2>2. Current(q) \in Artifacts
    BY <2>1, CurrentIsOnPage
  <2>3. QED
    BY <1>3, <2>1, <2>2
<1>7. \A q \in Sweepers : at'[q] # "unlinked"
  BY <1>4
<1>8. PurgedIsGone'
  BY <1>1, <1>3 DEF PurgeStage, PurgedIsGone, Aliases
<1>9. QED
  BY <1>5, <1>6, <1>7, <1>8 DEF PurgeStage

\* Every step keeps the purge stage.
LEMMA PurgeKept ==
  ASSUME TypeOK, PurgeStage, [Next]_vars
  PROVE  PurgeStage'
<1> USE DEF use, rows, sweep, worker, vars
<1>1. ASSUME NEW a \in Artifacts, UploadArtifact(a) \/ RegisterArtifact(a)
      PROVE  PurgeStage'
  BY <1>1, PurgeKeptByApi
<1>2. ASSUME UNCHANGED <<row, file, at, todo>>,
             \A w \in Works : stage[w] = "aged" => stage'[w] = "aged"
      PROVE  PurgeStage'
  BY <1>2, IntentsOnlyDropped
<1>3. ASSUME NEW w \in Works, UseStep(w)
      PROVE  PurgeStage'
  BY <1>2, <1>3
  DEF UseStep, RegisterPreview, TransferConsole, Settle, Age, Close, LeaseValid, TypeOK
<1>4. CASE Quarantine \/ UNCHANGED vars
  BY <1>2, <1>4 DEF Quarantine
<1>5. ASSUME NEW p \in Sweepers, UNCHANGED <<stage, row, file>>,
             at'[p] \in { "idle", "loaded", "scan" },
             \A q \in Sweepers \ { p } : at'[q] = at[q] /\ todo'[q] = todo[q]
      PROVE  PurgeStage'
  <2>1. \A q \in Sweepers : \/ at'[q] \notin { "intent", "unlinked" }
                            \/ at'[q] = at[q] /\ todo'[q] = todo[q]
    BY <1>5
  <2>2. QED
    BY <1>5, <2>1, IntentsOnlyDropped
<1>6. ASSUME NEW p \in Sweepers, NEW ok \in BOOLEAN, Done(p, ok), UNCHANGED <<stage, row, file>>
      PROVE  PurgeStage'
  BY <1>5, <1>6 DEF Done, TypeOK
<1>7. ASSUME NEW p \in Sweepers, Load(p) \/ Select(p) \/ Crash(p) \/ SaveCheckpoint(p)
      PROVE  PurgeStage'
  BY <1>5, <1>7 DEF Load, Select, Crash, SaveCheckpoint, Forget, TypeOK
<1>8. ASSUME NEW p \in Sweepers, Dismiss(p) \/ GiveUp(p) \/ DatabaseError(p)
      PROVE  PurgeStage'
  <2>1. PICK ok \in BOOLEAN : Done(p, ok)
    BY <1>8 DEF Dismiss, GiveUp, DatabaseError
  <2>2. UNCHANGED <<stage, row, file>>
    BY <1>8 DEF Dismiss, GiveUp, DatabaseError
  <2>3. QED
    BY <1>6, <2>1, <2>2
<1>9. ASSUME NEW p \in Sweepers, RecordIntent(p) \/ PurgeFile(p) \/ CommitPurge(p)
      PROVE  PurgeStage'
  BY <1>9, PurgeKeptByIntent, PurgeKeptByUnlink, PurgeKeptByCommit
<1>10. QED
  BY <1>1, <1>3, <1>4, <1>7, <1>8, <1>9 DEF Next, SweepStep, Interruption
-----------------------------------------------------------------------------
(* Sweeps.                                                                 *)

\* A step that brings back no row, leaves the checkpoint where it is, and takes from a
\* page only what it settles, adds nothing to what a sweep still has to reach.
LEMMA SweepOnlyShrinks ==
  ASSUME SweepStage, UNCHANGED <<cursor, missed>>, owed' \subseteq owed, owed \subseteq Artifacts,
         \A a \in owed : /\ row'[a] # "absent"
                         /\ row'[a] \in { "kept", "expired" } => row[a] \in { "kept", "expired" },
         \A p \in Sweepers :
           /\ at'[p] = "loaded" /\ fresh'[p] =>
                at[p] = "loaded" /\ fresh[p] /\ after'[p] = after[p]
           /\ at'[p] \in Active /\ fresh'[p] /\ ~failed'[p] =>
                /\ at[p] \in Active /\ fresh[p] /\ ~failed[p] /\ next'[p] = next[p]
                /\ \A a \in owed' : a \in todo[p] => a \in todo'[p]
           /\ at'[p] \in { "idle", "loaded" } => ~failed'[p]
  PROVE  SweepStage'
<1>1. \A a \in Artifacts : a \in (owed \cap Pending)' => a \in owed \cap Pending
  BY DEF Pending
<1>2. (\A a \in owed : row[a] # "absent")'
  OBVIOUS
<1>3. (\A a \in owed \cap Pending : a > cursor)'
  BY <1>1 DEF SweepStage
<1>4. (\A p \in Sweepers : at[p] = "loaded" /\ fresh[p] => after[p] = cursor)'
  BY DEF SweepStage
<1>5. (\A p \in Sweepers : at[p] \in Active /\ fresh[p] /\ ~failed[p] =>
         \A a \in owed \cap Pending : a \in todo[p] \/ (next[p] # 0 /\ a > next[p]))'
  <2>. SUFFICES ASSUME NEW p \in Sweepers, at'[p] \in Active, fresh'[p], ~failed'[p],
                       NEW a \in (owed \cap Pending)'
                PROVE  a \in todo'[p] \/ (next'[p] # 0 /\ a > next'[p])
    BY DEF Active
  <2>1. a \in owed \cap Pending /\ a \in owed'
    BY <1>1
  <2>2. at[p] \in Active /\ fresh[p] /\ ~failed[p] /\ next'[p] = next[p]
        /\ (a \in todo[p] => a \in todo'[p])
    BY <2>1
  <2>3. a \in todo[p] \/ (next[p] # 0 /\ a > next[p])
    BY <2>1, <2>2 DEF SweepStage
  <2>4. QED
    BY <2>2, <2>3
<1>6. QED
  BY <1>2, <1>3, <1>4, <1>5 DEF SweepStage, SweepVisitsAll

\* The steps of the API and of people leave the sweeps alone.
LEMMA SweepKeptByUse ==
  ASSUME TypeOK, SweepStage, UNCHANGED <<cursor, at, worker, sweep>>,
         \/ UNCHANGED row
         \/ \E a \in Artifacts : row[a] = "absent" /\ row' = [row EXCEPT ![a] = "kept"]
  PROVE  SweepStage'
<1>1. \A a \in owed : /\ row'[a] # "absent"
                      /\ row'[a] \in { "kept", "expired" } => row[a] \in { "kept", "expired" }
  BY DEF SweepStage, TypeOK
<1>2. QED
  BY <1>1, SweepOnlyShrinks DEF SweepStage, TypeOK, sweep, worker

\* A finished visit takes the row off the page, and off what the sweep owes.
LEMMA SweepKeptByVisit ==
  ASSUME TypeOK, SweepStage, NEW p \in Sweepers, NEW ok \in BOOLEAN, Done(p, ok),
         at[p] \in Active, UNCHANGED cursor,
         \/ UNCHANGED row
         \/ \E s \in SUBSET Artifacts : row' = [a \in Artifacts |-> IF a \in s THEN "purged" ELSE row[a]]
  PROVE  SweepStage'
<1>1. /\ owed' \subseteq owed /\ owed \subseteq Artifacts
      /\ UNCHANGED <<missed, fresh, after, next>>
  BY DEF Done, TypeOK
<1>2. \A a \in owed : /\ row'[a] # "absent"
                      /\ row'[a] \in { "kept", "expired" } => row[a] \in { "kept", "expired" }
  BY <1>1 DEF SweepStage
<1>3. \A q \in Sweepers : q # p => at'[q] = at[q] /\ todo'[q] = todo[q] /\ failed'[q] = failed[q]
  BY DEF Done, TypeOK
<1>4. at'[p] = "scan" /\ todo'[p] = todo[p] \ { Current(p) }
  BY DEF Done, TypeOK
<1>5. fresh[p] /\ ~failed'[p] => ~failed[p] /\ owed' = owed \ { Current(p) }
  <2>1. CASE ok = TRUE
    BY <2>1 DEF Done, TypeOK
  <2>2. CASE ok = FALSE
    <3>1. failed'[p] = TRUE
      BY <2>2 DEF Done, TypeOK
    <3>2. QED
      BY <3>1
  <2>3. QED
    BY <2>1, <2>2
<1>6. \A q \in Sweepers :
        /\ at'[q] = "loaded" /\ fresh'[q] =>
             at[q] = "loaded" /\ fresh[q] /\ after'[q] = after[q]
        /\ at'[q] \in Active /\ fresh'[q] /\ ~failed'[q] =>
             /\ at[q] \in Active /\ fresh[q] /\ ~failed[q] /\ next'[q] = next[q]
             /\ \A a \in owed' : a \in todo[q] => a \in todo'[q]
        /\ at'[q] \in { "idle", "loaded" } => ~failed'[q]
  <2>. TAKE q \in Sweepers
  <2>1. CASE q = p
    BY <1>1, <1>4, <1>5, <2>1
  <2>2. CASE q # p
    BY <1>1, <1>3, <2>2 DEF SweepStage
  <2>3. QED
    BY <2>1, <2>2
<1>7. QED
  BY <1>1, <1>2, <1>6, SweepOnlyShrinks

\* Intents bring no purged row back, for the aliases of a row that is not purged are not.
LEMMA SweepKeptByIntent ==
  ASSUME TypeOK, SweepStage, NEW p \in Sweepers, RecordIntent(p) \/ PurgeFile(p)
  PROVE  SweepStage'
<1>1. /\ UNCHANGED <<cursor, fresh, after, todo, next, failed, owed, missed>>
      /\ at[p] \in { "scan", "intent" } /\ at'[p] \in { "intent", "unlinked" }
      /\ \A q \in Sweepers : q # p => at'[q] = at[q]
  BY DEF RecordIntent, PurgeFile, worker, sweep, TypeOK
<1>2. \A a \in owed : /\ row'[a] # "absent"
                      /\ row'[a] \in { "kept", "expired" } => row[a] \in { "kept", "expired" }
  <2>1. CASE RecordIntent(p)
    <3>1. Current(p) \in Aliases(Current(p)) /\ row[Current(p)] \in { "kept", "expired" }
      BY <2>1, CurrentIsOnPage DEF RecordIntent, Aliases, Pending
    <3>2. \A b \in Aliases(Current(p)) : row[b] \in { "kept", "expired" }
      BY <2>1, <3>1 DEF RecordIntent, Removable
    <3>3. \A b \in Artifacts : row'[b] = IF b \in Aliases(Current(p)) THEN "expired" ELSE row[b]
      BY <2>1 DEF RecordIntent
    <3>4. QED
      BY <3>2, <3>3 DEF SweepStage, TypeOK
  <2>2. CASE PurgeFile(p)
    BY <2>2 DEF PurgeFile, SweepStage, rows
  <2>3. QED
    BY <2>1, <2>2
<1>3. QED
  BY <1>1, <1>2, SweepOnlyShrinks DEF SweepStage, Active, TypeOK

\* A page holds what the sweep owes and leaves out only what comes after it.
LEMMA SweepKeptBySelect ==
  ASSUME TypeOK, SweepStage, NEW p \in Sweepers, Select(p)
  PROVE  SweepStage'
<1> DEFINE page == Page(Beyond(p))
<1>1. /\ UNCHANGED <<row, cursor, fresh, failed, owed, missed>>
      /\ at[p] = "loaded"
      /\ \A q \in Sweepers : q # p =>
           at'[q] = at[q] /\ todo'[q] = todo[q] /\ next'[q] = next[q] /\ after'[q] = after[q]
      /\ at'[p] = "scan" /\ todo'[p] = page
      /\ next'[p] = IF page = Beyond(p) THEN 0 ELSE Last(page)
  BY DEF Select, sweep, TypeOK, rows
<1>2. Beyond(p) \in SUBSET Artifacts
  BY DEF Beyond, Pending
<1>3. ASSUME fresh[p], NEW a \in owed \cap Pending
      PROVE  a \in todo'[p] \/ (next'[p] # 0 /\ a > next'[p])
  <2>1. a \in Beyond(p)
    BY <1>1, <1>3 DEF Beyond, SweepStage
  <2>2. CASE a \in page
    BY <1>1, <2>2
  <2>3. CASE a \notin page
    <3>1. page # Beyond(p)
      BY <2>1, <2>3
    <3>2. Last(page) \in page /\ page \subseteq Beyond(p) /\ a > Last(page)
      BY <1>2, <2>1, <2>3, <3>1, PageIsFirst
    <3>3. next'[p] = Last(page) /\ Last(page) # 0
      BY <1>1, <1>2, <3>1, <3>2, ArtifactsAssumption
    <3>4. QED
      BY <3>2, <3>3
  <2>4. QED
    BY <2>2, <2>3
<1>4. (\A q \in Sweepers : at[q] \in Active /\ fresh[q] /\ ~failed[q] =>
         \A a \in owed \cap Pending : a \in todo[q] \/ (next[q] # 0 /\ a > next[q]))'
  <2>. SUFFICES ASSUME NEW q \in Sweepers, at'[q] \in Active, fresh[q], ~failed[q],
                       NEW a \in owed \cap Pending
                PROVE  a \in todo'[q] \/ (next'[q] # 0 /\ a > next'[q])
    BY <1>1 DEF Pending
  <2>1. CASE q = p
    BY <1>3, <2>1
  <2>2. CASE q # p
    BY <1>1, <2>2 DEF SweepStage
  <2>3. QED
    BY <2>1, <2>2
<1>5. (\A q \in Sweepers : at[q] = "loaded" /\ fresh[q] => after[q] = cursor)'
  BY <1>1 DEF SweepStage
<1>6. (\A q \in Sweepers : at[q] \in { "idle", "loaded" } => ~failed[q])'
  BY <1>1 DEF SweepStage
<1>7. QED
  BY <1>1, <1>4, <1>5, <1>6 DEF SweepStage, SweepVisitsAll, Pending

\* A saved checkpoint lies before all that is owed, and makes every other load stale.
LEMMA SweepKeptBySave ==
  ASSUME TypeOK, SweepStage, NEW p \in Sweepers, SaveCheckpoint(p)
  PROVE  SweepStage'
<1>1. /\ UNCHANGED row
      /\ at[p] = "scan" /\ at'[p] = "idle" /\ ~failed'[p] /\ todo[p] = {}
      /\ \A q \in Sweepers : q # p =>
           /\ at'[q] = at[q] /\ todo'[q] = todo[q] /\ next'[q] = next[q]
           /\ after'[q] = after[q] /\ failed'[q] = failed[q]
  BY DEF SaveCheckpoint, Forget, TypeOK, rows
<1>2. CASE MaySave(p)
  <2>1. /\ cursor' = next[p]
        /\ \A q \in Sweepers : ~fresh'[q]
        /\ next[p] = 0 => missed' = missed \cup (owed \cap Pending) /\ owed' = Pending
        /\ next[p] # 0 => UNCHANGED <<owed, missed>>
    BY <1>2 DEF SaveCheckpoint, sweep
  <2>2. \A a \in owed \cap Pending : next[p] # 0 /\ a > next[p]
    BY <1>1, <1>2 DEF MaySave, SweepStage, Active
  <2>3. missed' = {}
    BY <2>1, <2>2 DEF SweepStage, SweepVisitsAll
  <2>4. (\A a \in owed : row[a] # "absent")'
    BY <1>1, <2>1 DEF SweepStage, Pending
  <2>5. (\A a \in owed \cap Pending : a > cursor)'
    <3>1. Pending' = Pending /\ Pending \subseteq Nat \ { 0 }
      BY <1>1, ArtifactsAssumption DEF Pending
    <3>2. CASE next[p] = 0
      <4>1. cursor' = 0 /\ owed' = Pending
        BY <2>1, <3>2
      <4>2. QED
        BY <3>1, <4>1
    <3>3. CASE next[p] # 0
      BY <2>1, <2>2, <3>1, <3>3
    <3>4. QED
      BY <3>2, <3>3
  <2>6. (\A q \in Sweepers : at[q] \in { "idle", "loaded" } => ~failed[q])'
    BY <1>1 DEF SweepStage
  <2>7. QED
    BY <2>1, <2>3, <2>4, <2>5, <2>6 DEF SweepStage, SweepVisitsAll
<1>3. CASE ~MaySave(p)
  <2>1. UNCHANGED <<cursor, owed, missed>> /\ fresh' = [fresh EXCEPT ![p] = FALSE]
    BY <1>3 DEF SaveCheckpoint, sweep
  <2>2. \A q \in Sweepers : fresh'[q] => q # p /\ fresh[q]
    BY <2>1 DEF TypeOK
  <2>3. QED
    BY <1>1, <2>1, <2>2, SweepOnlyShrinks DEF SweepStage, Active, TypeOK
<1>4. QED
  BY <1>2, <1>3

\* Every step keeps the sweep stage.
LEMMA SweepKept ==
  ASSUME TypeOK, SweepStage, [Next]_vars
  PROVE  SweepStage'
<1>1. ASSUME NEW a \in Artifacts, UploadArtifact(a) \/ RegisterArtifact(a)
      PROVE  SweepStage'
  <2>1. row' = row \/ (row[a] = "absent" /\ row' = [row EXCEPT ![a] = "kept"])
    BY <1>1 DEF UploadArtifact, RegisterArtifact, Aliases, rows
  <2>2. UNCHANGED <<cursor, at, worker, sweep>>
    BY <1>1 DEF UploadArtifact, RegisterArtifact
  <2>3. QED
    BY <2>1, <2>2, SweepKeptByUse
<1>2. ASSUME NEW w \in Works, UseStep(w)
      PROVE  SweepStage'
  BY <1>2, SweepKeptByUse DEF UseStep, RegisterPreview, TransferConsole, Settle, Age, Close, rows
<1>3. CASE Quarantine \/ UNCHANGED vars
  BY <1>3, SweepKeptByUse DEF Quarantine, vars, rows
<1>4. ASSUME NEW p \in Sweepers, Load(p)
      PROVE  SweepStage'
  <2>1. /\ UNCHANGED <<row, cursor, todo, next, failed, owed, missed>>
        /\ at[p] = "idle" /\ at'[p] = "loaded" /\ after'[p] = cursor
        /\ \A q \in Sweepers : q # p =>
             at'[q] = at[q] /\ fresh'[q] = fresh[q] /\ after'[q] = after[q]
    BY <1>4 DEF Load, sweep, TypeOK, rows
  <2>2. Pending' = Pending
    BY <2>1 DEF Pending
  <2>3. (\A q \in Sweepers : at[q] \in Active /\ fresh[q] /\ ~failed[q] =>
           \A a \in owed \cap Pending : a \in todo[q] \/ (next[q] # 0 /\ a > next[q]))'
    BY <2>1, <2>2 DEF SweepStage, Active
  <2>4. QED
    BY <2>1, <2>2, <2>3 DEF SweepStage, SweepVisitsAll
<1>5. ASSUME NEW p \in Sweepers, Select(p) \/ SaveCheckpoint(p) \/ RecordIntent(p) \/ PurgeFile(p)
      PROVE  SweepStage'
  BY <1>5, SweepKeptBySelect, SweepKeptBySave, SweepKeptByIntent
<1>6. ASSUME NEW p \in Sweepers, Dismiss(p) \/ GiveUp(p) \/ DatabaseError(p)
      PROVE  SweepStage'
  <2>1. PICK ok \in BOOLEAN : Done(p, ok)
    BY <1>6 DEF Dismiss, GiveUp, DatabaseError
  <2>2. UNCHANGED <<row, cursor>> /\ at[p] \in Active
    BY <1>6 DEF Dismiss, GiveUp, DatabaseError, Active, rows
  <2>3. QED
    BY <2>1, <2>2, SweepKeptByVisit
<1>7. ASSUME NEW p \in Sweepers, CommitPurge(p)
      PROVE  SweepStage'
  <2>1. Done(p, TRUE) /\ UNCHANGED cursor /\ at[p] \in Active
    BY <1>7 DEF CommitPurge, Active
  <2>2. \E s \in SUBSET Artifacts : row' = [a \in Artifacts |-> IF a \in s THEN "purged" ELSE row[a]]
    BY <1>7 DEF CommitPurge, PurgedRows, Aliases
  <2>3. QED
    BY <2>1, <2>2, SweepKeptByVisit
<1>8. ASSUME NEW p \in Sweepers, Crash(p)
      PROVE  SweepStage'
  <2>1. /\ UNCHANGED <<row, cursor, owed, missed>>
        /\ at'[p] = "idle" /\ ~fresh'[p] /\ ~failed'[p]
        /\ \A q \in Sweepers : q # p =>
             /\ at'[q] = at[q] /\ todo'[q] = todo[q] /\ next'[q] = next[q]
             /\ after'[q] = after[q] /\ failed'[q] = failed[q] /\ fresh'[q] = fresh[q]
    BY <1>8 DEF Crash, Forget, sweep, TypeOK, rows
  <2>2. QED
    BY <2>1, SweepOnlyShrinks DEF SweepStage, Active, TypeOK
<1>9. QED
  BY <1>1, <1>2, <1>3, <1>4, <1>5, <1>6, <1>7, <1>8 DEF Next, SweepStep, Interruption

-----------------------------------------------------------------------------
(* The results.                                                            *)

\* It holds at the start ...
LEMMA InvariantAtStart == Init => IInv
<1> SUFFICES ASSUME Init PROVE IInv
  OBVIOUS
<1> USE DEF Init
<1>1. TypeOK
  <2>1. file \in [Keys -> BOOLEAN] /\ fenced \in BOOLEAN
    OBVIOUS
  <2>2. fresh \in [Sweepers -> BOOLEAN] /\ failed \in [Sweepers -> BOOLEAN]
    OBVIOUS
  <2>3. size \in [Artifacts -> Sizes]
    BY KeysAssumption, SizesAssumption
  <2>4. QED
    BY <2>1, <2>2, <2>3 DEF TypeOK
<1>2. PurgeStage
  BY DEF PurgeStage, PurgedIsGone
<1>3. SweepStage
  BY DEF SweepStage, SweepVisitsAll, Active
<1>4. QED
  BY <1>1, <1>2, <1>3 DEF IInv

\* ... after every step ...
LEMMA InvariantKept == IInv /\ [Next]_vars => IInv'
BY TypeKept, PurgeKept, SweepKept DEF IInv

\* ... and so throughout.
THEOREM Invariance == Spec => []IInv
BY InvariantAtStart, InvariantKept, PTL DEF Spec

\* Every variable of artifacts and retention stays in its domain.
THEOREM TypeCorrect == Spec => []TypeOK
<1>1. IInv => TypeOK
  BY DEF IInv
<1>2. QED
  BY <1>1, Invariance, PTL

\* A row that says its bytes are gone tells the truth, with every alias of it, however many
\* workers run and wherever they stop (expire_artifact, purge_file).
THEOREM PurgedGone == Spec => []PurgedIsGone
<1>1. IInv => PurgedIsGone
  BY DEF IInv, PurgeStage
<1>2. QED
  BY <1>1, Invariance, PTL

\* No sweep that was recorded as complete has passed a row by, however many workers share
\* the checkpoint (save_checkpoint).
THEOREM VisitsAll == Spec => []SweepVisitsAll
<1>1. IInv => SweepVisitsAll
  BY DEF IInv, SweepStage
<1>2. QED
  BY <1>1, Invariance, PTL

\* Bytes are removed only under rows that all record the intent, while nobody uses the
\* work (locked_group, purge_file).
THEOREM OnlyUnusedRemoved == Spec => RemovesOnlyUnused
<1>1. ASSUME IInv, [Next]_vars, NEW k \in Keys, file[k], ~file'[k]
      PROVE  /\ \A a \in Artifacts : KeyOf[a] = k => row[a] \in { "absent", "expired" }
             /\ stage[WorkOf[k]] = "aged" /\ ~fenced /\ console[WorkOf[k]] # "open"
  <2>1. PICK p \in Sweepers : PurgeFile(p)
    <3>1. file' # file
      BY <1>1
    <3>2. ~(UNCHANGED vars)
      BY <3>1 DEF vars
    <3>3. ASSUME NEW a \in Artifacts, UploadArtifact(a)
          PROVE  FALSE
      <4>1. file' = [file EXCEPT ![KeyOf[a]] = TRUE]
        BY <3>3 DEF UploadArtifact
      <4>2. QED
        BY <1>1, <4>1 DEF IInv, TypeOK
    <3>4. ~(\E a \in Artifacts : RegisterArtifact(a))
      BY <3>1 DEF RegisterArtifact
    <3>5. ~(\E w \in Works : UseStep(w)) /\ ~Quarantine
      BY <3>1 DEF UseStep, RegisterPreview, TransferConsole, Settle, Age, Close, Quarantine
    <3>6. ASSUME NEW q \in Sweepers, SweepStep(q) \/ Interruption(q)
          PROVE  PurgeFile(q)
      BY <3>1, <3>6 DEF SweepStep, Interruption, Load, Select, Dismiss, RecordIntent, GiveUp,
         CommitPurge, SaveCheckpoint, DatabaseError, Crash
    <3>7. QED
      BY <1>1, <3>2, <3>3, <3>4, <3>5, <3>6 DEF Next
  <2> DEFINE c == Current(p)
  <2>2. todo[p] # {} /\ row[c] = "expired" /\ Removable(c)
    BY <1>1, <2>1 DEF PurgeFile, StillRemovable, IInv, PurgeStage
  <2>3. c \in Artifacts /\ KeyOf[c] = k
    BY <1>1, <2>1, <2>2, CurrentIsOnPage, KeysAssumption DEF PurgeFile, IInv, TypeOK
  <2>4. \A a \in Artifacts : KeyOf[a] = k => row[a] \in { "absent", "expired" }
    BY <2>2, <2>3 DEF Removable, Aliases
  <2>5. QED
    BY <2>2, <2>3, <2>4 DEF Removable, Work
<1>2. IInv /\ [Next]_vars =>
        [\A k \in Keys : file[k] /\ ~file'[k] =>
           /\ \A a \in Artifacts : KeyOf[a] = k => row[a] \in { "absent", "expired" }
           /\ stage[WorkOf[k]] = "aged" /\ ~fenced /\ console[WorkOf[k]] # "open"]_vars
  BY <1>1
<1>3. QED
  BY <1>2, Invariance, PTL DEF Spec, RemovesOnlyUnused
=============================================================================
