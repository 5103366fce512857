--------------------------- MODULE DuckLake_proofs ---------------------------
(***************************************************************************)
(* Theorems about DuckLake, for any marts, readers, retention and bounds:  *)
(* its types, that the catalog is readable and fresh readers are safe, and *)
(* that it implements ServedLake.                                          *)
(*                                                                         *)
(* The strengthening has two halves.  One is about versions: the builds of *)
(* the catalog are whole and older than the one the pipeline is making.    *)
(* The other is about files: what a kept snapshot or an open publication   *)
(* has is in S3 and not doomed, since the files of an open publication are *)
(* of a number that no snapshot has had.                                   *)
(***************************************************************************)
EXTENDS DuckLake, TLAPS

IsWhole(s) == \A m, n \in Marts : s.build[m] = s.build[n]

\* Some snapshot is the newest.
HasNewest == \E s \in snaps : \A x \in snaps : x.id <= s.id

\* Whole builds in the catalog and on the screens, older than the one under way.
Builds ==
  /\ \A s \in snaps : IsWhole(s)
  /\ \A r \in Readers : reading[r] # None => IsWhole(reading[r])
  /\ \A s \in snaps, m \in Marts :
       s.build[m] <= builds /\ (pipe \in {"build", "built", "publish"} => s.build[m] < builds)
  /\ pipe \in {"built", "publish"} => \A m \in Marts : duck[m] = builds

\* Publication p is over.
IsPast(p) == p <= pubs /\ (pipe = "publish" => p < pubs)

\* The files that are needed are there and are not doomed.
FilesKept ==
  /\ \A s \in snaps : Files(s) \subseteq objects /\ Files(s) \cap doomed = {}
  /\ pipe = "publish" => \A m \in txn : <<m, pubs>> \in objects
  /\ \A s \in snaps, m \in Marts : IsPast(s.pub[m])
  /\ \A f \in doomed : IsPast(f[2])

\* A query's snapshot is in the catalog, or older than the retention.
ReadersKept ==
  \A r \in Readers :
    /\ reading[r] # None => reading[r] \in snaps \/ now - reading[r].at > Retention
    /\ r \in lost => reading[r] # None /\ now - reading[r].at > Retention

IInv == TypeOK /\ HasNewest /\ Builds /\ FilesKept /\ ReadersKept

-----------------------------------------------------------------------------
(* The newest snapshot. *)

\* The newest snapshot is a snapshot.
LEMMA CurrentIsNewest ==
  ASSUME HasNewest
  PROVE  Current \in snaps /\ \A x \in snaps : x.id <= Current.id
BY DEF HasNewest, Current

\* It is well typed.
LEMMA CurrentType == ASSUME TypeOK, HasNewest PROVE Current \in Snapshots
BY CurrentIsNewest DEF TypeOK

\* The parts of a snapshot.
LEMMA SnapshotType ==
  ASSUME NEW s \in Snapshots
  PROVE  /\ s.id \in Nat /\ s.at \in 0..LastTick /\ s.log \in 0..MaxLog
         /\ s.build \in [Marts -> 0..MaxBuilds] /\ s.pub \in [Marts -> 0..MaxPubs]
         /\ s # None
BY DEF Snapshots, None

\* A snapshot with a larger number than all others is the newest.
LEMMA CurrentAfter ==
  ASSUME NEW s \in snaps', \A x \in snaps' : x \in Snapshots,
         \A x \in snaps' : x # s => x.id < s.id
  PROVE  Current' = s /\ HasNewest'
<1>1. s.id \in Nat /\ \A x \in snaps' : x.id \in Nat
  BY SnapshotType
<1>2. \A x \in snaps' : x.id <= s.id
  BY <1>1
<1>3. \A x \in snaps' : (\A y \in snaps' : y.id <= x.id) => x = s
  BY <1>1
<1> QED
  BY <1>2, <1>3 DEF Current, HasNewest

\* What a commit does to the catalog.
LEMMA CommitAdds ==
  ASSUME TypeOK, HasNewest,
         NEW build \in [Marts -> 0..MaxBuilds],
         NEW pub \in [Marts -> 0..MaxPubs],
         NEW log \in 0..MaxLog,
         Commit(build, pub, log)
  PROVE  /\ Current' \in Snapshots /\ snaps' = snaps \cup {Current'}
         /\ Current'.build = build /\ Current'.pub = pub /\ Current'.log = log
         /\ snaps' \subseteq Snapshots /\ snaps' # {}
         /\ \A s, x \in snaps' : s.id = x.id => s = x
         /\ HasNewest'
<1> DEFINE new == [id |-> Current.id + 1, at |-> now, build |-> build,
                   pub |-> pub, log |-> log]
<1>1. Current \in snaps /\ \A x \in snaps : x.id \in Nat /\ x.id <= Current.id
  BY CurrentIsNewest, SnapshotType DEF TypeOK
<1>2. new \in Snapshots
  BY <1>1 DEF TypeOK, Snapshots
<1>3. new.id = Current.id + 1 /\ new.build = build /\ new.pub = pub /\ new.log = log
  OBVIOUS
<1>4. snaps' = snaps \cup {new}
  BY DEF Commit
<1> HIDE DEF new
<1>5. \A x \in snaps : x.id < new.id
  BY <1>1, <1>3
<1>6. \A x \in snaps' : x \in Snapshots
  BY <1>2, <1>4 DEF TypeOK
<1>7. Current' = new /\ HasNewest'
  BY <1>4, <1>5, <1>6, CurrentAfter
<1>8. \A s, x \in snaps' : s.id = x.id => s = x
  BY <1>1, <1>4, <1>5 DEF TypeOK
<1> QED
  BY <1>2, <1>3, <1>4, <1>6, <1>7, <1>8

-----------------------------------------------------------------------------
(* Types. *)

\* The first snapshot satisfies the invariant.
LEMMA InitIInv == ASSUME Init PROVE IInv
<1>1. First \in Snapshots /\ First.id = 0 /\ First.at = 0
      /\ \A m \in Marts : First.build[m] = 0 /\ First.pub[m] = 0
  BY ConstantsOK DEF First, Snapshots
<1>2. Files(First) \subseteq Marts \X (0..MaxPubs)
  BY <1>1, ConstantsOK DEF Files
<1>3. TypeOK
  BY <1>1, <1>2, ConstantsOK DEF Init, TypeOK, NotMeasured
<1>4. HasNewest
  BY <1>1 DEF Init, HasNewest
<1>5. Builds
  BY <1>1 DEF Init, Builds, IsWhole
<1>6. FilesKept
  BY <1>1 DEF Init, FilesKept, IsPast
<1>7. ReadersKept
  BY DEF Init, ReadersKept
<1> QED
  BY <1>3, <1>4, <1>5, <1>6, <1>7 DEF IInv

\* A count is a number.
LEMMA CountType ==
  ASSUME TypeOK, HasNewest PROVE Count(NextTable) \in Int
<1>1. Current.log \in Int /\ \A m \in Marts : Current.build[m] \in Int
  BY CurrentType, SnapshotType, ConstantsOK
<1>2. NextTable = RunLog \/ NextTable \in Marts
  BY DEF NextTable
<1> QED
  BY <1>1, <1>2 DEF Count

\* The steps that leave the catalog and the files alone.
LEMMA QuietType ==
  ASSUME IInv,
         \/ Tick \/ StartBuild \/ BuildMart \/ BuildDone \/ BuildFails
         \/ PublishBegin \/ PublishFails
         \/ StartMaintenance \/ MeasureBefore \/ MeasureAfter \/ Compare
         \/ MaintenanceFails
  PROVE  TypeOK' /\ HasNewest' /\ UNCHANGED <<lakeVars, readVars>>
<1>0. TypeOK /\ HasNewest
  BY DEF IInv
<1>1. CASE Tick
  BY <1>0, <1>1, ConstantsOK DEF Tick, TypeOK, HasNewest, pipeVars, lakeVars, maintVars, readVars
<1>2. CASE StartBuild
  BY <1>0, <1>2, ConstantsOK DEF StartBuild, TypeOK, HasNewest, lakeVars, maintVars, readVars
<1>3. CASE BuildMart \/ BuildDone \/ BuildFails
  BY <1>0, <1>3 DEF BuildMart, BuildDone, BuildFails, TypeOK, HasNewest, lakeVars, maintVars,
                    readVars
<1>4. CASE PublishBegin
  BY <1>0, <1>4, ConstantsOK DEF PublishBegin, TypeOK, HasNewest, lakeVars, maintVars, readVars
<1>5. CASE PublishFails
  BY <1>0, <1>5 DEF PublishFails, TypeOK, HasNewest, lakeVars, maintVars, readVars
<1>6. CASE StartMaintenance \/ Compare \/ MaintenanceFails
  <2>1. NotMeasured \in [Tables -> Int]
    BY DEF NotMeasured
  <2> QED
    BY <1>0, <1>6, <2>1 DEF StartMaintenance, Compare, MaintenanceFails, TypeOK, HasNewest,
                            pipeVars, lakeVars, readVars
<1>7. CASE MeasureBefore \/ MeasureAfter
  <2>1. before' \in [Tables -> Int] /\ after' \in [Tables -> Int]
    BY <1>0, <1>7, CountType DEF MeasureBefore, MeasureAfter, TypeOK
  <2> QED
    BY <1>0, <1>7, <2>1 DEF MeasureBefore, MeasureAfter, TypeOK, HasNewest, pipeVars, lakeVars,
                            readVars
<1> QED
  BY <1>1, <1>2, <1>3, <1>4, <1>5, <1>6, <1>7

\* None of them disturbs what is known of versions, files and readers.
LEMMA QuietKeeps ==
  ASSUME IInv,
         \/ Tick \/ StartBuild \/ BuildMart \/ BuildDone \/ BuildFails
         \/ PublishBegin \/ PublishFails
         \/ StartMaintenance \/ MeasureBefore \/ MeasureAfter \/ Compare
         \/ MaintenanceFails
  PROVE  IInv'
<1>0. TypeOK' /\ HasNewest' /\ UNCHANGED <<snaps, objects, doomed, reading, unread, lost>>
  BY QuietType DEF lakeVars, readVars
<1>1. /\ builds \in Nat /\ pubs \in Nat /\ now \in Nat
      /\ \A s \in snaps, m \in Marts : s.build[m] \in Nat /\ s.pub[m] \in Nat
      /\ \A f \in doomed : f[2] \in Nat
      /\ \A r \in Readers : reading[r] # None => reading[r].at \in Nat
  BY SnapshotType DEF IInv, TypeOK
<1>2. CASE UNCHANGED <<now, pipeVars>>
  BY <1>0, <1>2 DEF pipeVars, IInv, Builds, IsWhole, FilesKept, IsPast, Files, ReadersKept
<1>3. CASE Tick
  <2>1. now' = now + 1 /\ UNCHANGED <<pipe, duck, builds, pubs, txn>>
    BY <1>3 DEF Tick, pipeVars
  <2>2. ReadersKept'
    BY <1>0, <1>1, <2>1, ConstantsOK DEF IInv, ReadersKept
  <2> QED
    BY <1>0, <2>1, <2>2 DEF IInv, Builds, IsWhole, FilesKept, IsPast, Files
<1>4. CASE StartBuild \/ BuildMart \/ BuildDone \/ BuildFails \/ PublishBegin \/ PublishFails
  <2>0. now' = now
    BY <1>4 DEF StartBuild, BuildMart, BuildDone, BuildFails, PublishBegin, PublishFails
  <2>1. Builds'
    <3>1. CASE StartBuild
      BY <1>0, <1>1, <3>1 DEF StartBuild, IInv, Builds, IsWhole
    <3>2. CASE BuildMart \/ BuildDone \/ BuildFails
      BY <1>0, <3>2 DEF BuildMart, BuildDone, BuildFails, IInv, Builds, IsWhole
    <3>3. CASE PublishBegin \/ PublishFails
      BY <1>0, <3>3 DEF PublishBegin, PublishFails, IInv, Builds, IsWhole
    <3> QED
      BY <1>4, <3>1, <3>2, <3>3
  <2>2. FilesKept'
    <3>1. CASE PublishBegin
      BY <1>0, <1>1, <3>1 DEF PublishBegin, IInv, FilesKept, IsPast, Files
    <3>2. CASE ~PublishBegin
      BY <1>0, <1>4, <3>2 DEF StartBuild, BuildMart, BuildDone, BuildFails, PublishFails, IInv,
                              FilesKept, IsPast, Files
    <3> QED
      BY <3>1, <3>2
  <2>3. ReadersKept'
    BY <1>0, <2>0 DEF IInv, ReadersKept
  <2> QED
    BY <1>0, <2>1, <2>2, <2>3 DEF IInv
<1> QED
  BY <1>2, <1>3, <1>4 DEF StartMaintenance, MeasureBefore, MeasureAfter, Compare,
                          MaintenanceFails

-----------------------------------------------------------------------------
(* The steps of the publication. *)

\* A file of the open publication is no other snapshot's, and nobody's to delete.
LEMMA PublishTableKeeps == ASSUME IInv, PublishTable PROVE IInv'
<1> PICK m \in Marts \ txn : txn' = txn \cup {m} /\ objects' = objects \cup {<<m, pubs>>}
  BY DEF PublishTable
<1>1. UNCHANGED <<now, pipe, duck, builds, pubs, snaps, doomed, maintVars, readVars>>
  BY DEF PublishTable
<1>2. TypeOK' /\ HasNewest'
  <2>1. pubs \in 0..MaxPubs /\ m \in Marts
    BY DEF IInv, TypeOK
  <2> QED
    BY <1>1, <2>1 DEF IInv, TypeOK, HasNewest, maintVars, readVars
<1>3. Builds' /\ ReadersKept'
  BY <1>1 DEF readVars, IInv, Builds, IsWhole, ReadersKept
<1>4. FilesKept'
  BY <1>1 DEF IInv, FilesKept, IsPast, Files
<1> QED
  BY <1>2, <1>3, <1>4 DEF IInv

\* What COMMIT adds: the build of the file, in the files of this publication.
LEMMA PublishCommitAdds ==
  ASSUME IInv, PublishCommit
  PROVE  /\ Current' \in Snapshots /\ snaps' = snaps \cup {Current'}
         /\ \A m \in Marts : Current'.build[m] = builds /\ Current'.pub[m] = pubs
         /\ Current'.log = Current.log
         /\ snaps' \subseteq Snapshots /\ snaps' # {}
         /\ \A s, x \in snaps' : s.id = x.id => s = x
         /\ HasNewest'
<1> DEFINE build == [m \in Marts |-> IF m \in txn THEN duck[m] ELSE Current.build[m]]
           pub   == [m \in Marts |-> IF m \in txn THEN pubs ELSE Current.pub[m]]
<1>1. TypeOK /\ HasNewest /\ txn = Marts /\ pipe = "publish"
  BY DEF IInv, PublishCommit
<1>2. Current.log \in 0..MaxLog
  BY <1>1, CurrentType, SnapshotType
<1>3. build \in [Marts -> 0..MaxBuilds] /\ pub \in [Marts -> 0..MaxPubs]
  BY <1>1 DEF TypeOK
<1>4. \A m \in Marts : build[m] = builds /\ pub[m] = pubs
  BY <1>1 DEF IInv, Builds
<1>5. Commit(build, pub, Current.log)
  BY DEF PublishCommit
<1> HIDE DEF build, pub
<1> QED
  BY <1>1, <1>2, <1>3, <1>4, <1>5, CommitAdds

\* The commit of a publication keeps it.
LEMMA PublishCommitKeeps == ASSUME IInv, PublishCommit PROVE IInv'
<1>1. /\ pipe = "publish" /\ pipe' = "log" /\ txn = Marts /\ txn' = {}
      /\ UNCHANGED <<now, duck, builds, pubs, objects, doomed, maintVars, readVars>>
  BY DEF PublishCommit
<1>2. TypeOK'
  BY <1>1, PublishCommitAdds DEF IInv, TypeOK, maintVars, readVars
<1>3. builds \in Nat /\ pubs \in Nat
      /\ (\A s \in snaps, m \in Marts : s.build[m] \in Nat /\ s.pub[m] \in Nat)
      /\ \A f \in doomed : f[2] \in Nat
  BY SnapshotType DEF IInv, TypeOK
<1>4. Builds'
  <2>1. IsWhole(Current)'
    BY PublishCommitAdds DEF IsWhole
  <2>2. \A s \in snaps, m \in Marts : s.build[m] <= builds
    BY DEF IInv, Builds
  <2>3. \A s \in snaps', m \in Marts : s.build[m] <= builds
    BY <1>3, <2>2, PublishCommitAdds
  <2>4. \A s \in snaps' : IsWhole(s)
    BY <2>1, PublishCommitAdds DEF IInv, Builds, IsWhole
  <2> QED
    BY <1>1, <2>3, <2>4 DEF readVars, IInv, Builds, IsWhole
<1>5. FilesKept'
  <2>1. \A s \in snaps', m \in Marts : s.pub[m] <= pubs
    BY <1>3, PublishCommitAdds DEF IInv, FilesKept, IsPast
  <2>2. Files(Current') = {<<m, pubs>> : m \in Marts}
    BY PublishCommitAdds DEF Files
  <2>3. Files(Current') \subseteq objects
    BY <1>1, <2>2 DEF IInv, FilesKept
  <2>4. Files(Current') \cap doomed = {}
    BY <1>1, <1>3, <2>2 DEF IInv, FilesKept, IsPast
  <2>5. \A s \in snaps' : Files(s) \subseteq objects /\ Files(s) \cap doomed = {}
    BY <2>3, <2>4, PublishCommitAdds DEF IInv, FilesKept
  <2> QED
    BY <1>1, <1>3, <2>1, <2>5 DEF IInv, FilesKept, IsPast, Files
<1>6. ReadersKept'
  BY <1>1, PublishCommitAdds DEF readVars, IInv, ReadersKept
<1> QED
  BY <1>2, <1>4, <1>5, <1>6, PublishCommitAdds DEF IInv

\* What a row of the run log adds: a snapshot with the marts of the last one.
LEMMA AppendLogAdds ==
  ASSUME IInv, AppendLog, snaps' # snaps
  PROVE  /\ Current' \in Snapshots /\ snaps' = snaps \cup {Current'}
         /\ Current'.build = Current.build /\ Current'.pub = Current.pub
         /\ Current'.log = Current.log + 1
         /\ snaps' \subseteq Snapshots /\ snaps' # {}
         /\ \A s, x \in snaps' : s.id = x.id => s = x
         /\ HasNewest'
<1>1. TypeOK /\ HasNewest /\ Current.log < MaxLog
      /\ Commit(Current.build, Current.pub, Current.log + 1)
  BY DEF IInv, AppendLog
<1>2. /\ Current.build \in [Marts -> 0..MaxBuilds] /\ Current.pub \in [Marts -> 0..MaxPubs]
      /\ Current.log \in 0..MaxLog
  BY <1>1, CurrentType, SnapshotType
<1>3. Current.log + 1 \in 0..MaxLog
  BY <1>1, <1>2, ConstantsOK
<1> QED
  BY <1>1, <1>2, <1>3, CommitAdds

\* So does the run log's commit.
LEMMA AppendLogKeeps == ASSUME IInv, AppendLog PROVE IInv'
<1>1. /\ pipe' = "idle"
      /\ UNCHANGED <<now, duck, builds, pubs, txn, objects, doomed, maintVars, readVars>>
  BY DEF AppendLog
<1>2. CASE snaps' = snaps
  <2>1. TypeOK' /\ HasNewest'
    BY <1>1, <1>2 DEF IInv, TypeOK, HasNewest, maintVars, readVars
  <2> QED
    BY <1>1, <1>2, <2>1 DEF readVars, IInv, Builds, IsWhole, FilesKept, IsPast, Files, ReadersKept
<1>3. CASE snaps' # snaps
  <2>1. Current \in snaps
    BY CurrentIsNewest DEF IInv
  <2>2. TypeOK' /\ HasNewest'
    BY <1>1, <1>3, AppendLogAdds DEF IInv, TypeOK, maintVars, readVars
  <2>3. \A s \in snaps' : \E x \in snaps : s.build = x.build /\ s.pub = x.pub
    BY <1>3, <2>1, AppendLogAdds
  <2>4. Builds'
    BY <1>1, <2>3 DEF readVars, IInv, Builds, IsWhole
  <2>5. FilesKept'
    BY <1>1, <2>3 DEF IInv, FilesKept, IsPast, Files
  <2>6. ReadersKept'
    BY <1>1, <1>3, AppendLogAdds DEF readVars, IInv, ReadersKept
  <2> QED
    BY <2>2, <2>4, <2>5, <2>6 DEF IInv
<1> QED
  BY <1>2, <1>3

-----------------------------------------------------------------------------
(* The steps of the maintenance. *)

\* The newest snapshot never expires.
LEMMA CheckpointKeepsCurrent ==
  ASSUME IInv, Checkpoint
  PROVE  Current' = Current /\ HasNewest' /\ Current \in snaps' /\ snaps' \subseteq snaps
<1>1. snaps' = {s \in snaps : ~Expired(s)}
  BY DEF Checkpoint
<1>2. Current \in snaps /\ \A x \in snaps : x.id <= Current.id
  BY CurrentIsNewest DEF IInv
<1>3. Current \in snaps'
  BY <1>1, <1>2 DEF Expired
<1>4. \A x \in snaps' : x # Current => x.id < Current.id
  <2> SUFFICES ASSUME NEW x \in snaps', x # Current PROVE x.id < Current.id
    OBVIOUS
  <2>1. x \in snaps /\ x.id # Current.id /\ x.id \in Nat /\ Current.id \in Nat
    BY <1>1, <1>2, SnapshotType DEF IInv, TypeOK
  <2> QED
    BY <1>2, <2>1
<1>5. \A x \in snaps' : x \in Snapshots
  BY <1>1 DEF IInv, TypeOK
<1> QED
  BY <1>1, <1>3, <1>4, <1>5, CurrentAfter

\* So does the expiry of snapshots: the newest is kept, with its files.
LEMMA CheckpointKeeps == ASSUME IInv, Checkpoint PROVE IInv'
<1> DEFINE kept == {s \in snaps : ~Expired(s)}
           gone == UNION {Files(s) : s \in snaps \ kept}
           held == UNION {Files(s) : s \in kept}
<1>1. /\ snaps' = kept
      /\ doomed' = doomed \cup (gone \ held)
      /\ maint' = "cleanup"
      /\ UNCHANGED <<now, pipe, duck, builds, pubs, txn, objects, todo, before, after,
                     reading, unread, lost>>
  BY DEF Checkpoint, pipeVars, readVars
<1>2. \A f \in doomed' : f \in doomed
        \/ \E s \in snaps : f \in Files(s) /\ \A x \in snaps' : f \notin Files(x)
  <2>1. \A f \in gone : \E s \in snaps : f \in Files(s)
    BY Zenon
  <2>2. \A f : f \notin held => \A x \in kept : f \notin Files(x)
    BY Zenon
  <2> HIDE DEF kept, gone, held
  <2> QED
    BY <1>1, <2>1, <2>2
<1>3. \A s \in snaps \ snaps' : now - s.at > Retention
  BY <1>1 DEF Expired
<1> HIDE DEF kept, gone, held
<1>4. TypeOK'
  <2>1. \A s \in snaps : Files(s) \subseteq Marts \X (0..MaxPubs)
    BY SnapshotType DEF IInv, TypeOK, Files
  <2>2. doomed' \subseteq Marts \X (0..MaxPubs)
    BY <1>2, <2>1 DEF IInv, TypeOK
  <2> QED
    BY <1>1, <2>2, CheckpointKeepsCurrent DEF IInv, TypeOK
<1>5. Builds'
  BY <1>1, CheckpointKeepsCurrent DEF IInv, Builds, IsWhole
<1>6. FilesKept'
  <2>1. \A s \in snaps' : s \in snaps
    BY CheckpointKeepsCurrent
  <2>2. \A s \in snaps' : Files(s) \cap doomed' = {}
    BY <1>2, <2>1 DEF IInv, FilesKept
  <2>3. \A f \in doomed' : IsPast(f[2])
    BY <1>2 DEF IInv, FilesKept, Files
  <2> QED
    BY <1>1, <2>1, <2>2, <2>3 DEF IInv, FilesKept, IsPast, Files
<1>7. ReadersKept'
  BY <1>1, <1>3 DEF IInv, ReadersKept
<1> QED
  BY <1>4, <1>5, <1>6, <1>7, CheckpointKeepsCurrent DEF IInv

\* What is doomed is no one's.
LEMMA CleanupKeeps == ASSUME IInv, Cleanup PROVE IInv'
<1>1. /\ objects' = objects \ doomed /\ doomed' = {} /\ maint' = "after" /\ todo' = Tables
      /\ UNCHANGED <<now, pipe, duck, builds, pubs, txn, snaps, before, after,
                     reading, unread, lost>>
  BY DEF Cleanup, pipeVars, readVars
<1>2. TypeOK' /\ HasNewest'
  BY <1>1 DEF IInv, TypeOK, HasNewest
<1>3. Builds' /\ ReadersKept'
  BY <1>1 DEF IInv, Builds, IsWhole, ReadersKept
<1>4. FilesKept'
  <2>1. pipe = "publish" => \A m \in txn : <<m, pubs>> \notin doomed
    <3>1. pubs \in Nat
      BY DEF IInv, TypeOK
    <3> QED
      BY <3>1 DEF IInv, FilesKept, IsPast
  <2> QED
    BY <1>1, <2>1 DEF IInv, FilesKept, IsPast, Files
<1> QED
  BY <1>2, <1>3, <1>4 DEF IInv

-----------------------------------------------------------------------------
(* The steps of the dashboards. *)

\* So do the queries of the dashboards.
LEMMA ReadersKeep ==
  ASSUME IInv, NEW r \in Readers, StartReading(r) \/ Read(r) \/ StopReading(r)
  PROVE  IInv'
<1>1. UNCHANGED <<now, pipe, duck, builds, pubs, txn, snaps, objects, doomed,
                  maint, todo, before, after>>
  BY DEF StartReading, Read, StopReading, pipeVars, lakeVars, maintVars
<1>2. Current \in snaps /\ Current \in Snapshots
  BY CurrentIsNewest, CurrentType DEF IInv
<1>3. HasNewest' /\ FilesKept'
  BY <1>1 DEF IInv, HasNewest, FilesKept, IsPast, Files
<1>4. CASE StartReading(r)
  <2>1. /\ reading' = [reading EXCEPT ![r] = Current]
        /\ unread' = [unread EXCEPT ![r] = Marts]
        /\ lost' = lost /\ reading[r] = None
    BY <1>4 DEF StartReading
  <2>2. TypeOK'
    BY <1>1, <1>2, <2>1 DEF IInv, TypeOK
  <2>3. \A q \in Readers : reading'[q] = IF q = r THEN Current ELSE reading[q]
    BY <2>1 DEF IInv, TypeOK
  <2>4. Builds'
    BY <1>1, <1>2, <2>3 DEF IInv, Builds, IsWhole
  <2>5. ReadersKept'
    BY <1>1, <1>2, <2>1, <2>3 DEF IInv, ReadersKept
  <2> QED
    BY <1>3, <2>2, <2>4, <2>5 DEF IInv
<1>5. CASE Read(r)
  <2>1. PICK m \in unread[r] :
          IF <<m, reading[r].pub[m]>> \in objects
            THEN /\ unread' = [unread EXCEPT ![r] = unread[r] \ {m}]
                 /\ lost' = lost
            ELSE /\ unread' = [unread EXCEPT ![r] = {}]
                 /\ lost' = lost \cup {r}
    BY <1>5 DEF Read
  <2>2. reading' = reading /\ reading[r] # None /\ m \in Marts
    BY <1>5, <2>1 DEF Read, IInv, TypeOK
  <2>3. TypeOK'
    BY <1>1, <2>1, <2>2 DEF IInv, TypeOK
  <2>4. Builds'
    BY <1>1, <2>2 DEF IInv, Builds, IsWhole
  <2>5. <<m, reading[r].pub[m]>> \notin objects => now - reading[r].at > Retention
    BY <2>2 DEF IInv, FilesKept, Files, ReadersKept
  <2>6. ReadersKept'
    BY <1>1, <2>1, <2>2, <2>5 DEF IInv, ReadersKept
  <2> QED
    BY <1>3, <2>3, <2>4, <2>6 DEF IInv
<1>6. CASE StopReading(r)
  <2>1. /\ reading' = [reading EXCEPT ![r] = None]
        /\ lost' = lost \ {r} /\ unread' = unread
    BY <1>6 DEF StopReading
  <2>2. TypeOK'
    BY <1>1, <2>1 DEF IInv, TypeOK
  <2>3. Builds' /\ ReadersKept'
    BY <1>1, <2>1 DEF IInv, TypeOK, Builds, IsWhole, ReadersKept
  <2> QED
    BY <1>3, <2>2, <2>3 DEF IInv
<1> QED
  BY <1>4, <1>5, <1>6

\* Every step keeps the invariant.
LEMMA StepIInv == ASSUME IInv, [Next]_vars PROVE IInv'
<1>1. CASE UNCHANGED vars
  BY <1>1 DEF vars, pipeVars, lakeVars, maintVars, readVars, IInv, TypeOK, HasNewest, Builds,
              IsWhole, FilesKept, IsPast, Files, ReadersKept
<1>2. CASE Tick
  BY <1>2, QuietKeeps
<1>3. CASE Pipeline
  BY <1>3, QuietKeeps, PublishTableKeeps, PublishCommitKeeps, AppendLogKeeps DEF Pipeline
<1>4. CASE Maintenance
  BY <1>4, QuietKeeps, CheckpointKeeps, CleanupKeeps DEF Maintenance
<1>5. ASSUME NEW r \in Readers, StartReading(r) \/ Read(r) \/ StopReading(r) PROVE IInv'
  BY <1>5, ReadersKeep
<1> QED
  BY <1>1, <1>2, <1>3, <1>4, <1>5 DEF Next

\* The invariant holds at all times.
LEMMA Invariance == Spec => []IInv
<1>1. Init => IInv
  BY InitIInv
<1>2. IInv /\ [Next]_vars => IInv'
  BY StepIInv
<1> QED
  BY <1>1, <1>2, PTL DEF Spec

\* Every variable keeps its type: whatever pipeline, maintenance and readers
\* interleave, the catalog is never empty and its snapshots have their own numbers.
THEOREM TypeCorrect == Spec => []TypeOK
<1>1. IInv => TypeOK
  BY DEF IInv
<1> QED
  BY <1>1, Invariance, PTL

\* No cleanup takes a file of a snapshot that is in the catalog: not what a
\* publication under way has written, nor what a kept snapshot shares with an
\* expired one (CHECKPOINT and ducklake_cleanup_old_files).
THEOREM CatalogAlwaysReadable == Spec => []CatalogIsReadable
<1>1. IInv => CatalogIsReadable
  BY DEF IInv, FilesKept, CatalogIsReadable
<1> QED
  BY <1>1, Invariance, PTL

\* A query whose snapshot is no older than the retention never finds a file gone,
\* although the cleanup has no grace period.  It is the age of the snapshot that
\* counts: a young query on a snapshot that has long been the newest is not covered.
THEOREM FreshReadersKeepTheirFiles == Spec => []FreshReadersAreSafe
<1>1. IInv => FreshReadersAreSafe
  BY DEF IInv, ReadersKept, FreshReadersAreSafe
<1> QED
  BY <1>1, Invariance, PTL

-----------------------------------------------------------------------------
(* The refinement. *)

\* A whole snapshot shows the build of any of its marts.
LEMMA WholeBuild ==
  ASSUME NEW s, IsWhole(s)
  PROVE  \A m \in Marts : BuildOf(s) = s.build[m]
<1>1. (CHOOSE m \in Marts : TRUE) \in Marts
  BY ConstantsOK
<1> QED
  BY <1>1 DEF BuildOf, IsWhole

\* The build of a whole snapshot is a number.
LEMMA WholeBuildType ==
  ASSUME NEW s \in Snapshots, IsWhole(s) PROVE BuildOf(s) \in Nat
<1>1. PICK m \in Marts : TRUE
  BY ConstantsOK
<1>2. s.build[m] \in Nat
  BY SnapshotType
<1> QED
  BY <1>1, <1>2, WholeBuild

\* The first snapshot is what the readers are promised at first.
LEMMA InitRefines == ASSUME Init PROVE Served!Init
<1>1. Current = First
  <2>1. \A x \in snaps : x = First
    BY DEF Init
  <2> QED
    BY <2>1, InitIInv, CurrentIsNewest DEF IInv
<1>2. BuildOf(First) = 0 /\ First.log = 0
  <2>1. IsWhole(First) /\ First.log = 0 /\ \A m \in Marts : First.build[m] = 0
    BY DEF First, IsWhole
  <2> QED
    BY <2>1, WholeBuild, ConstantsOK
<1>3. View = [r \in Readers |-> -1]
  BY DEF Init, View
<1> QED
  BY <1>1, <1>2, <1>3 DEF Served!Init

\* What is shown is a function of the newest snapshot.
LEMMA SameCurrent ==
  ASSUME Current' = Current
  PROVE  BuildOf(Current)' = BuildOf(Current) /\ Current'.log = Current.log
BY DEF BuildOf

\* What the queries see changes only with the queries.
LEMMA SameView == ASSUME reading' = reading PROVE View' = View
BY DEF View, BuildOf

\* The commit of a publication is the abstract one.
LEMMA PublishCommitRefines == ASSUME IInv, PublishCommit PROVE Served!Publish
<1>1. Current'.log = Current.log /\ \A m \in Marts : Current'.build[m] = builds
  BY PublishCommitAdds
<1>2. PICK m \in Marts : TRUE
  BY ConstantsOK
<1>3. IsWhole(Current') /\ IsWhole(Current) /\ Current \in snaps
  BY <1>1, CurrentIsNewest DEF IInv, Builds, IsWhole
<1>4. BuildOf(Current') = builds /\ BuildOf(Current) = Current.build[m]
  BY <1>1, <1>2, <1>3, WholeBuild
<1>5. Current.build[m] < builds /\ builds \in Nat
  BY <1>2, <1>3 DEF IInv, Builds, PublishCommit, TypeOK
<1>6. BuildOf(Current)' = BuildOf(Current')
  BY DEF BuildOf
<1>7. View' = View
  BY SameView DEF PublishCommit, readVars
<1>8. Current.build[m] \in Nat
  BY <1>2, <1>3, CurrentType, SnapshotType DEF IInv
<1> QED
  BY <1>1, <1>4, <1>5, <1>6, <1>7, <1>8 DEF Served!Publish

\* The run log's commit is the abstract one, or nothing to the reader.
LEMMA AppendLogRefines ==
  ASSUME IInv, AppendLog PROVE Served!Log \/ UNCHANGED Served!vars
<1>1. View' = View
  BY SameView DEF AppendLog, readVars
<1>2. CASE snaps' = snaps
  <2>1. Current' = Current
    BY <1>2 DEF Current
  <2> QED
    BY <1>1, <2>1, SameCurrent DEF Served!vars
<1>3. CASE snaps' # snaps
  <2>1. Current'.build = Current.build /\ Current'.log = Current.log + 1
    BY <1>3, AppendLogAdds
  <2>2. BuildOf(Current)' = BuildOf(Current)
    BY <2>1 DEF BuildOf
  <2> QED
    BY <1>1, <2>1, <2>2 DEF Served!Log
<1> QED
  BY <1>2, <1>3

\* A query is shown one whole build as long as it runs.
LEMMA ReaderRefines ==
  ASSUME IInv, NEW r \in Readers, StartReading(r) \/ Read(r) \/ StopReading(r)
  PROVE  Served!Open(r) \/ Served!Close(r) \/ UNCHANGED Served!vars
<1>1. Current' = Current
  BY DEF StartReading, Read, StopReading, lakeVars, Current
<1>2. BuildOf(Current)' = BuildOf(Current) /\ Current'.log = Current.log
  BY <1>1, SameCurrent
<1>3. Current # None /\ IsWhole(Current) /\ BuildOf(Current) \in Nat
  BY CurrentIsNewest, CurrentType, SnapshotType, WholeBuildType DEF IInv, Builds
<1>4. CASE StartReading(r)
  <2>1. reading[r] = None /\ reading' = [reading EXCEPT ![r] = Current]
    BY <1>4 DEF StartReading
  <2>2. View[r] = -1
    BY <2>1 DEF View
  <2>3. View' = [View EXCEPT ![r] = BuildOf(Current)]
    <3>1. reading \in [Readers -> Snapshots \cup {None}]
      BY DEF IInv, TypeOK
    <3>2. \A q \in Readers : reading'[q] = IF q = r THEN Current ELSE reading[q]
      BY <2>1, <3>1
    <3>3. \A q \in Readers : View'[q] = IF q = r THEN BuildOf(Current) ELSE View[q]
      BY <1>3, <3>2 DEF View, BuildOf
    <3> QED
      BY <3>3 DEF View
  <2> QED
    BY <1>2, <2>2, <2>3 DEF Served!Open
<1>5. CASE Read(r)
  BY <1>2, <1>5, SameView DEF Read, Served!vars
<1>6. CASE StopReading(r)
  <2>1. reading[r] # None /\ reading' = [reading EXCEPT ![r] = None]
    BY <1>6 DEF StopReading
  <2>2. reading \in [Readers -> Snapshots \cup {None}]
    BY DEF IInv, TypeOK
  <2>3. View[r] # -1
    <3>1. BuildOf(reading[r]) \in Nat
      BY <2>1, <2>2, WholeBuildType DEF IInv, Builds
    <3> QED
      BY <2>1, <3>1 DEF View
  <2>4. View' = [View EXCEPT ![r] = -1]
    <3>1. \A q \in Readers : reading'[q] = IF q = r THEN None ELSE reading[q]
      BY <2>1, <2>2
    <3>2. \A q \in Readers : View'[q] = IF q = r THEN -1 ELSE View[q]
      BY <3>1 DEF View, BuildOf
    <3> QED
      BY <3>2 DEF View
  <2> QED
    BY <1>2, <2>3, <2>4 DEF Served!Close
<1> QED
  BY <1>4, <1>5, <1>6

\* Every step is an abstract step or a stutter.
LEMMA StepRefines == ASSUME IInv, [Next]_vars PROVE [Served!Next]_(Served!vars)
<1>1. CASE UNCHANGED <<snaps, reading>>
  <2>1. Current' = Current
    BY <1>1 DEF Current
  <2> QED
    BY <1>1, <2>1, SameCurrent, SameView DEF Served!vars
<1>2. CASE Checkpoint
  BY <1>2, CheckpointKeepsCurrent, SameCurrent, SameView DEF Checkpoint, readVars, Served!vars
<1>3. CASE PublishCommit
  BY <1>3, PublishCommitRefines DEF Served!Next
<1>4. CASE AppendLog
  BY <1>4, AppendLogRefines DEF Served!Next
<1>5. ASSUME NEW r \in Readers, StartReading(r) \/ Read(r) \/ StopReading(r)
      PROVE  [Served!Next]_(Served!vars)
  BY <1>5, ReaderRefines DEF Served!Next
<1>6. CASE Pipeline /\ ~PublishCommit /\ ~AppendLog
  BY <1>1, <1>6 DEF Pipeline, StartBuild, BuildMart, BuildDone, BuildFails, PublishBegin,
                    PublishTable, PublishFails, lakeVars, readVars
<1>7. CASE Maintenance /\ ~Checkpoint
  BY <1>1, <1>7 DEF Maintenance, StartMaintenance, MeasureBefore, Cleanup, MeasureAfter,
                    Compare, MaintenanceFails, lakeVars, readVars
<1>8. CASE Tick \/ UNCHANGED vars
  BY <1>1, <1>8 DEF Tick, vars, lakeVars, readVars
<1> QED
  BY <1>2, <1>3, <1>4, <1>5, <1>6, <1>7, <1>8 DEF Next

\* The lake keeps its promise to the dashboards: with any number of marts and of
\* queries at once, what they are shown changes by whole, newer builds and by
\* rows of the log, and never under a query (publish_marts' transaction, the
\* snapshots, the maintenance that expires all but the newest).
THEOREM LakeImplementsServedLake == Spec => ImplementsServedLake
<1>1. Init => IInv /\ Served!Init
  BY InitIInv, InitRefines
<1>2. IInv /\ [Next]_vars => IInv'
  BY StepIInv
<1>3. IInv /\ [Next]_vars => [Served!Next]_(Served!vars)
  BY StepRefines
<1> QED
  BY <1>1, <1>2, <1>3, PTL DEF Spec, ImplementsServedLake, Served!Spec
=============================================================================
