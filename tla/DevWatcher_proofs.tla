--------------------------- MODULE DevWatcher_proofs ---------------------------
(***************************************************************************)
(* Theorems about DevWatcher for every set of files, any number of edits   *)
(* and of handlers that overlap, and every size of the changeset.          *)
(*                                                                         *)
(*  - Every variable keeps its type.                                       *)
(*  - At rest, the analysis of a file is of what the file holds.           *)
(*  - At rest, the manifest was generated from the analyses there are.     *)
(*  - Until handlers overlap, the changeset keeps its size and the latest  *)
(*    records.                                                             *)
(***************************************************************************)
EXTENDS DevWatcher, TLAPS

-----------------------------------------------------------------------------
(* The changeset *)

LEMMA BeginAppendType ==
  ASSUME ChangesetTypeOK, NEW a \in Appender, BeginAppend(a)
  PROVE  ChangesetTypeOK'
BY DEF BeginAppend, Goto, files, writerVars, ChangesetTypeOK, AppendPlace

LEMMA CountLineType ==
  ASSUME ChangesetTypeOK, NEW a \in Appender, CountLine(a)
  PROVE  ChangesetTypeOK'
BY DEF CountLine, Goto, files, ChangesetTypeOK, AppendPlace

LEMMA AppendStepType ==
  ASSUME ChangesetTypeOK, NEW a \in Appender, AppendStep(a)
  PROVE  ChangesetTypeOK'
<1>1. CASE CheckInitialized(a)
  BY <1>1 DEF CheckInitialized, AfterInit, Goto, files, writerVars, ChangesetTypeOK, AppendPlace
<1>2. CASE Exists(a)
  BY <1>2 DEF Exists, Goto, files, writerVars, ChangesetTypeOK, AppendPlace
<1>3. CASE ReadText(a)
  <2>1. changeset # NoFile => Len(changeset) \in Nat
    BY DEF ChangesetTypeOK, Content
  <2>2. QED
    BY <1>3, <2>1 DEF ReadText, Goto, files, writerVars, ChangesetTypeOK, AppendPlace
<1>4. CASE Initialize(a)
  BY <1>4 DEF Initialize, AfterInit, Goto, files, ChangesetTypeOK, AppendPlace
<1>5. CASE RemoveRotated(a)
  BY <1>5 DEF RemoveRotated, Goto, writerVars, ChangesetTypeOK, AppendPlace
<1>6. CASE Rename(a)
  BY <1>6 DEF Rename, Goto, writerVars, ChangesetTypeOK, AppendPlace
<1>7. CASE Renamed(a)
  BY <1>7 DEF Renamed, Goto, files, ChangesetTypeOK, AppendPlace
<1>8. CASE AppendFile(a)
  <2>1. changeset' \in Content
    BY <1>8 DEF AppendFile, ChangesetTypeOK, Content, Record
  <2>2. QED
    BY <1>8, <2>1 DEF AppendFile, Goto, writerVars, ChangesetTypeOK, AppendPlace
<1>9. QED
  BY <1>1, <1>2, <1>3, <1>4, <1>5, <1>6, <1>7, <1>8 DEF AppendStep

(* An append() that is under way stays so, or fails at reading a file that  *)
(* has been renamed.                                                        *)
LEMMA AppendStepPlace ==
  ASSUME ChangesetTypeOK, NEW a \in Appender, AppendStep(a)
  PROVE  /\ \A b \in Appender : b # a => apc'[b] = apc[b]
         /\ Appending(a)
         /\ apc'[a] = "failed" => apc[a] = "text" /\ changeset = NoFile
         /\ apc'[a] = "text" => changeset' # NoFile
<1>1. apc \in [Appender -> AppendPlace]
  BY DEF ChangesetTypeOK
<1>2. CASE CheckInitialized(a) \/ Initialize(a)
  BY <1>1, <1>2 DEF CheckInitialized, Initialize, AfterInit, Goto, Appending
<1>3. CASE Exists(a)
  BY <1>1, <1>3 DEF Exists, Goto, Appending, files
<1>4. CASE ReadText(a)
  BY <1>1, <1>4 DEF ReadText, Goto, Appending
<1>5. CASE RemoveRotated(a) \/ Rename(a) \/ Renamed(a) \/ AppendFile(a)
  BY <1>1, <1>5 DEF RemoveRotated, Rename, Renamed, AppendFile, Goto, Appending
<1>6. QED
  BY <1>2, <1>3, <1>4, <1>5 DEF AppendStep

-----------------------------------------------------------------------------
(* Types *)

LEMMA VersionFacts ==
  /\ None \in Version /\ Original \in Version /\ Parsable(Original) /\ ~Parsable(None)
  /\ Edit \subseteq Version
BY DevAssumption DEF None, Original, Version, Parsable, Edit

LEMMA BlankType == Blank \in Job /\ Empty \in Snapshot /\ [Blank EXCEPT !.pc = "done"] \in Job
BY DevAssumption, VersionFacts DEF Blank, Job, JobPlace, Empty, Snapshot

Cache == [File -> {v \in Version : v = None \/ Parsable(v)}]

LEMMA CacheSnapshot == ASSUME NEW cache \in Cache PROVE cache \in Snapshot
BY DEF Cache, Snapshot

LEMMA AnalyzedType ==
  ASSUME TypeOK, NEW f \in File, NEW version \in Version
  PROVE  Analyzed(f, version) \in Cache
BY DEF TypeOK, Analyzed, Cache

LEMMA JobType == ASSUME TypeOK, NEW e \in Edit PROVE job[e] \in Job
BY DEF TypeOK

LEMMA GotoType ==
  ASSUME TypeOK, NEW e \in Edit, NEW place \in JobPlace, GotoJob(e, place)
  PROVE  job' \in [Edit -> Job]
BY DEF TypeOK, GotoJob, Job

LEMMA EndJobType ==
  ASSUME TypeOK, NEW e \in Edit, EndJob(e)
  PROVE  job' \in [Edit -> Job]
BY BlankType DEF TypeOK, EndJob

LEMMA RebuildType ==
  ASSUME TypeOK, NEW e \in Edit, NEW cache \in Cache, Rebuild(e, cache)
  PROVE  job' \in [Edit -> Job] /\ fileCache' \in Cache
<1>1. cache \in Snapshot
  BY CacheSnapshot
<1>2. CASE Builds(cache)
  <2>1. [job[e] EXCEPT !.pc = "generate", !.snapshot = cache] \in Job
    BY <1>1, JobType DEF Job, JobPlace
  <2>2. QED
    BY <1>2, <2>1 DEF Rebuild, TypeOK
<1>3. CASE ~Builds(cache)
  BY <1>3, EndJobType DEF Rebuild
<1>4. QED
  BY <1>2, <1>3

LEMMA InitType == Init => TypeOK
<1> SUFFICES ASSUME Init PROVE TypeOK
  OBVIOUS
<1>1. ChangesetTypeOK
  <2>1. \A n \in 1 .. MaxLines : [i \in 1 .. n |-> Earlier] \in Content
    BY ChangesetAssumption DEF Content, Record
  <2>2. changeset \in Content \cup {NoFile}
    BY <2>1 DEF Init, ChangesetInit
  <2>3. QED
    BY <2>2 DEF Init, ChangesetInit, ChangesetTypeOK, AppendPlace
<1>2. job \in [Edit -> Job]
  BY BlankType DEF Init
<1>3. disk \in [File -> Version] /\ fileCache \in [File -> {v \in Version : v = None \/ Parsable(v)}]
  BY VersionFacts DEF Init, Empty
<1>4. QED
  BY <1>1, <1>2, <1>3, DevAssumption DEF Init, TypeOK

LEMMA EditFileType ==
  ASSUME TypeOK, NEW f \in File, NEW version \in Version, EditFile(f, version)
  PROVE  TypeOK'
<1> DEFINE e == edits + 1
           event == IF version = None THEN "delete" ELSE IF disk[f] = None THEN "rename" ELSE "change"
<1>1. e \in Edit /\ edits' \in 0 .. MaxEdits
  BY DevAssumption DEF EditFile, TypeOK, Edit
<1>2. disk' \in [File -> Version]
  BY DEF EditFile, TypeOK
<1>3. [job[e] EXCEPT !.pc = "queued", !.file = f, !.event = event] \in Job
  BY <1>1, JobType DEF Job, JobPlace
<1>4. job' \in [Edit -> Job]
  <2>1. CASE boot = "watching"
    <3>1. job' = [job EXCEPT ![e] = [job[e] EXCEPT !.pc = "queued", !.file = f, !.event = event]]
      BY <2>1, JobType DEF EditFile
    <3>2. QED
      BY <1>1, <1>3, <3>1 DEF TypeOK
  <2>2. CASE boot # "watching"
    BY <2>2 DEF EditFile, TypeOK
  <2>3. QED
    BY <2>1, <2>2
<1>5. spoiled' \subseteq File
  BY DEF EditFile, TypeOK
<1>6. ChangesetTypeOK'
  BY DEF EditFile, TypeOK, changesetVars, files, writerVars, ChangesetTypeOK
<1>7. QED
  BY <1>1, <1>2, <1>4, <1>5, <1>6 DEF EditFile, TypeOK

LEMMA BootType ==
  ASSUME TypeOK, Boot
  PROVE  TypeOK'
<1>1. ChangesetTypeOK'
  BY DEF Boot, Scan, FirstBuild, Subscribe, TypeOK, changesetVars, files, writerVars, ChangesetTypeOK
<1>2. CASE \E f \in File : Scan(f)
  <2>1. PICK f \in File : Scan(f)
    BY <1>2
  <2>2. fileCache' \in Cache
    BY <2>1, AnalyzedType DEF Scan, TypeOK
  <2>3. QED
    BY <1>1, <2>1, <2>2 DEF Scan, TypeOK, Cache
<1>3. CASE FirstBuild
  <2>1. fileCache \in Snapshot
    BY CacheSnapshot DEF TypeOK, Cache
  <2>2. QED
    BY <1>1, <1>3, <2>1 DEF FirstBuild, TypeOK
<1>4. CASE Subscribe
  BY <1>1, <1>4 DEF Subscribe, TypeOK
<1>5. QED
  BY <1>2, <1>3, <1>4 DEF Boot

LEMMA JobStepType ==
  ASSUME TypeOK, NEW e \in Edit, JobStep(e)
  PROVE  TypeOK'
<1>1. e \in Appender
  BY DevAssumption
<1>2. job[e] \in Job
  BY JobType
<1>3. UNCHANGED changesetVars => ChangesetTypeOK'
  BY DEF TypeOK, changesetVars, files, writerVars, ChangesetTypeOK
<1>4. CASE Deliver(e)
  <2>1. job' \in [Edit -> Job]
    BY <1>4, GotoType DEF Deliver, JobPlace
  <2>2. QED
    BY <1>2, <1>3, <1>4, <2>1 DEF Deliver, TypeOK, Job
<1>5. CASE CheckExists(e)
  <2>1. [job[e] EXCEPT !.pc = "append", !.deleted = isDeleted(e)] \in Job
    BY <1>2 DEF Job, JobPlace, isDeleted
  <2>2. job' = [job EXCEPT ![e] = [job[e] EXCEPT !.pc = "append", !.deleted = isDeleted(e)]]
    BY <1>5 DEF CheckExists
  <2>3. job' \in [Edit -> Job]
    BY <2>1, <2>2 DEF TypeOK
  <2>4. QED
    BY <1>1, <1>5, <2>3, BeginAppendType DEF CheckExists, TypeOK
<1>6. CASE AppendInHandler(e)
  <2>1. job' \in [Edit -> Job]
    BY <1>6, EndJobType DEF AppendInHandler, TypeOK
  <2>2. ChangesetTypeOK'
    BY <1>1, <1>6, AppendStepType DEF AppendInHandler, TypeOK
  <2>3. job[e].file \in File
    BY <1>2 DEF Job
  <2>4. QED
    BY <1>6, <2>1, <2>2, <2>3 DEF AppendInHandler, TypeOK
<1>7. CASE HandleDeletion(e)
  <2>1. [fileCache EXCEPT ![job[e].file] = None] \in Cache
    BY <1>2, VersionFacts DEF TypeOK, Cache, Job
  <2>2. job' \in [Edit -> Job] /\ fileCache' \in Cache
    BY <1>7, <2>1, RebuildType DEF HandleDeletion
  <2>3. QED
    BY <1>1, <1>7, <2>2, CountLineType DEF HandleDeletion, TypeOK, Cache
<1>8. CASE BeginAnalysis(e)
  BY <1>1, <1>8, GotoType, CountLineType DEF BeginAnalysis, TypeOK, JobPlace
<1>9. CASE ReadFile(e)
  <2>1. [job[e] EXCEPT !.pc = "analyze", !.text = disk[job[e].file]] \in Job
    BY <1>2 DEF Job, JobPlace, TypeOK
  <2>2. job' = [job EXCEPT ![e] = [job[e] EXCEPT !.pc = "analyze", !.text = disk[job[e].file]]]
    BY <1>9 DEF ReadFile
  <2>3. job' \in [Edit -> Job]
    BY <2>1, <2>2 DEF TypeOK
  <2>4. QED
    BY <1>3, <1>9, <2>3 DEF ReadFile, TypeOK
<1>10. CASE Analyze(e)
  <2>1. Analyzed(job[e].file, job[e].text) \in Cache
    BY <1>2, AnalyzedType DEF Job
  <2>2. job' \in [Edit -> Job] /\ fileCache' \in Cache
    BY <1>10, <2>1, RebuildType DEF Analyze
  <2>3. QED
    BY <1>3, <1>10, <2>2 DEF Analyze, TypeOK, Cache
<1>11. CASE Generate(e)
  <2>1. job' \in [Edit -> Job]
    BY <1>11, GotoType, EndJobType DEF Generate, JobPlace
  <2>2. QED
    BY <1>3, <1>11, <2>1 DEF Generate, TypeOK
<1>12. CASE WriteManifest(e)
  <2>1. job[e].snapshot \in Snapshot
    BY <1>2 DEF Job
  <2>2. QED
    BY <1>3, <1>12, <2>1, EndJobType DEF WriteManifest, TypeOK
<1>13. QED
  BY <1>4, <1>5, <1>6, <1>7, <1>8, <1>9, <1>10, <1>11, <1>12 DEF JobStep

LEMMA NextType == TypeOK /\ [Next]_vars => TypeOK'
<1> SUFFICES ASSUME TypeOK, [Next]_vars PROVE TypeOK'
  OBVIOUS
<1>1. CASE UNCHANGED vars
  BY <1>1 DEF vars, devVars, changesetVars, files, writerVars, TypeOK, ChangesetTypeOK
<1>2. CASE Next
  BY <1>2, EditFileType, BootType, JobStepType DEF Next
<1>3. QED
  BY <1>1, <1>2

(* fileCache holds only analyses of versions that parse, and a handler's    *)
(* locals are those of the place it has come to.                            *)
THEOREM TypeCorrect == Spec => []TypeOK
BY InitType, NextType, PTL DEF Spec

-----------------------------------------------------------------------------
(* Analyses *)

(* Places from which a handler goes on to refresh the analysis. *)
Pending == {"queued", "exists", "append", "read", "analyze"}

Follows(f) == disk[f] \notin Unparsable => fileCache[f] = disk[f]

(* No later event of the same file is in the watcher. *)
Last(e) == \A d \in Edit \ {e} : job[d].pc = "queued" /\ job[d].file = job[e].file => d < e

(* What the handler s knows is true of the disk. *)
Fits(s) ==
  /\ s.pc \in {"queued", "exists"} => (s.event = "delete" <=> disk[s.file] = None)
  /\ s.pc = "append" => (s.deleted <=> disk[s.file] = None)
  /\ s.pc = "read" => disk[s.file] # None
  /\ s.pc = "analyze" => disk[s.file] # None /\ s.text = disk[s.file]

OrderInv ==
  /\ \A e \in Edit : job[e].pc # "none" => e <= edits
  /\ boot \in {"scan", "subscribe"} => \A e \in Edit : job[e].pc = "none"
  /\ boot # "scan" => scanned = File
  /\ \A f \in File \ scanned : fileCache[f] = None
  /\ \A d, e \in Edit : d < e /\ job[d].pc = "queued" => job[e].pc \in {"none", "queued"}

FitsInv == \A e \in Edit : job[e].file \notin spoiled /\ Last(e) => Fits(job[e])

OneInv ==
  \A d, e \in Edit : Active(d) /\ Active(e) /\ job[d].file = job[e].file /\ job[e].file \notin spoiled => d = e

FollowInv ==
  \A f \in scanned \ spoiled :
    Follows(f) \/ \E e \in Edit : job[e].file = f /\ job[e].pc \in Pending

CacheInv == OrderInv /\ FitsInv /\ OneInv /\ FollowInv

LEMMA CacheInit == Init => CacheInv
<1> SUFFICES ASSUME Init PROVE CacheInv
  OBVIOUS
<1>1. \A e \in Edit : job[e] = Blank /\ Blank.pc = "none"
  BY DEF Init, Blank
<1>2. \A f \in File \ Initial : disk[f] = None /\ fileCache[f] = None
  BY DEF Init, Empty
<1>3. FollowInv
  BY <1>2 DEF Init, FollowInv, Follows
<1>4. OrderInv
  BY <1>1 DEF Init, OrderInv, Empty
<1>5. FitsInv /\ OneInv
  BY <1>1 DEF FitsInv, OneInv, Fits, Active
<1>6. QED
  BY <1>3, <1>4, <1>5 DEF CacheInv

LEMMA CacheImplies == TypeOK /\ CacheInv => CacheFollowsDisk
<1> SUFFICES ASSUME TypeOK, CacheInv, Quiet, NEW f \in File \ spoiled PROVE Follows(f)
  BY DEF CacheFollowsDisk, Follows
<1>1. f \in scanned
  BY DEF Quiet, CacheInv, OrderInv
<1>2. \A e \in Edit : job[e].pc \notin Pending
  BY DEF Quiet, Pending
<1>3. QED
  BY <1>1, <1>2 DEF CacheInv, FollowInv

(* A step of the active handler e, which becomes s. *)
LEMMA HandlerCache ==
  ASSUME TypeOK, CacheInv, NEW e \in Edit, Active(e), boot = "watching", NEW s \in Job,
         job' = [job EXCEPT ![e] = s],
         s.pc \notin {"none", "queued"},
         s.pc # "done" => s.file = job[e].file,
         job[e].file \notin spoiled' /\ Last(e) =>
           /\ Fits(s)
           /\ \/ s.pc \in Pending
              \/ disk[job[e].file] \notin Unparsable => fileCache'[job[e].file] = disk[job[e].file],
         \A f \in File : f # job[e].file => fileCache'[f] = fileCache[f],
         UNCHANGED <<disk, edits, scanned>>, boot' \in {boot, "exited"}, spoiled \subseteq spoiled'
  PROVE  CacheInv'
<1> DEFINE g == job[e].file
<1>1. /\ g \in File /\ scanned = File /\ job[e].pc \notin {"none", "queued"}
  BY JobType DEF CacheInv, OrderInv, Job, Active
<1>2. /\ job'[e] = s
      /\ \A d \in Edit : d # e => job'[d] = job[d]
  BY DEF TypeOK
<1>3. \A d \in Edit : job'[d].pc = "queued" <=> job[d].pc = "queued"
  BY <1>1, <1>2
<1>4. OrderInv'
  BY <1>1, <1>2, <1>3 DEF CacheInv, OrderInv
<1>5. \A d \in Edit : Active(d)' => Active(d) /\ job'[d].file = job[d].file
  BY <1>1, <1>2 DEF Active
<1>6. OneInv'
  BY <1>5 DEF CacheInv, OneInv
<1>7. \A d \in Edit : d # e => (Last(d)' => Last(d))
  BY <1>1, <1>2, <1>3 DEF Last
<1>8. s.pc # "done" => (Last(e)' => Last(e))
  BY <1>1, <1>2, <1>3 DEF Last
<1>9. FitsInv'
  <2> SUFFICES ASSUME NEW d \in Edit, job'[d].file \notin spoiled', Last(d)' PROVE Fits(job[d])'
    BY DEF FitsInv
  <2>1. CASE d # e
    BY <1>2, <1>7, <2>1 DEF CacheInv, FitsInv, Fits
  <2>2. CASE d = e /\ s.pc # "done"
    BY <1>2, <1>8, <2>2 DEF Fits
  <2>3. CASE d = e /\ s.pc = "done"
    BY <1>2, <2>3 DEF Fits
  <2>4. QED
    BY <2>1, <2>2, <2>3
<1>10. FollowInv'
  <2> SUFFICES ASSUME NEW f \in File \ spoiled'
               PROVE  Follows(f)' \/ \E d \in Edit : job'[d].file = f /\ job'[d].pc \in Pending
    BY <1>1 DEF FollowInv
  <2>1. CASE f # g
    <3>1. Follows(f) => Follows(f)'
      BY <2>1 DEF Follows
    <3>2. \A d \in Edit : job[d].file = f => d # e
      BY <2>1
    <3>3. QED
      BY <1>1, <1>2, <3>1, <3>2 DEF CacheInv, FollowInv
  <2>2. CASE f = g /\ Last(e)
    <3>1. s.pc \in Pending => s.file = g
      BY DEF Pending
    <3>2. QED
      BY <1>1, <1>2, <2>2, <3>1 DEF Follows
  <2>3. CASE f = g /\ ~Last(e)
    <3>1. PICK d \in Edit \ {e} : job[d].pc = "queued" /\ job[d].file = g
      BY <2>3 DEF Last
    <3>2. job'[d] = job[d]
      BY <1>2, <3>1
    <3>3. job'[d].file = f /\ job'[d].pc \in Pending
      BY <2>3, <3>1, <3>2 DEF Pending
    <3>4. QED
      BY <3>3
  <2>4. QED
    BY <2>1, <2>2, <2>3
<1>11. QED
  BY <1>4, <1>6, <1>9, <1>10 DEF CacheInv

LEMMA EditCache ==
  ASSUME TypeOK, CacheInv, NEW f \in File, NEW version \in Version, EditFile(f, version)
  PROVE  CacheInv'
<1> DEFINE e == edits + 1
           event == IF version = None THEN "delete" ELSE IF disk[f] = None THEN "rename" ELSE "change"
           s == [job[e] EXCEPT !.pc = "queued", !.file = f, !.event = event]
<1>1. e \in Edit /\ edits' = e /\ disk' = [disk EXCEPT ![f] = version] /\ UNCHANGED <<boot, scanned, fileCache>>
  BY DevAssumption DEF EditFile, TypeOK, Edit
<1>2. \A d \in Edit : job[d].pc # "none" => d < e
  BY DEF CacheInv, OrderInv, TypeOK, Edit
<1>3. disk' \in [File -> Version] /\ disk'[f] = version /\ \A g \in File : g # f => disk'[g] = disk[g]
  BY <1>1 DEF TypeOK
<1>4. \A d \in Edit : job[d].file \in File
  BY JobType DEF Job
<1>5. CASE boot = "watching"
  <2>1. job' = [job EXCEPT ![e] = s] /\ UNCHANGED spoiled
    BY <1>5 DEF EditFile
  <2>2. /\ job'[e].pc = "queued" /\ job'[e].file = f /\ (job'[e].event = "delete" <=> version = None)
        /\ \A d \in Edit : d # e => job'[d] = job[d]
    <3>1. job[e] \in Job
      BY <1>1, JobType
    <3>2. s.pc = "queued" /\ s.file = f /\ (s.event = "delete" <=> version = None)
      BY <3>1 DEF Job
    <3> HIDE DEF s
    <3>3. QED
      BY <1>1, <2>1, <3>2 DEF TypeOK
  <2>3. OrderInv'
    <3>1. \A d \in Edit : job'[d].pc # "none" => d <= e
      BY <1>1, <1>2, <2>2 DEF Edit
    <3>2. \A c, d \in Edit : c < d /\ job'[c].pc = "queued" => job'[d].pc \in {"none", "queued"}
      <4> SUFFICES ASSUME NEW c \in Edit, NEW d \in Edit, c < d, job'[c].pc = "queued"
                   PROVE  job'[d].pc \in {"none", "queued"}
        OBVIOUS
      <4>1. CASE d = e
        BY <2>2, <4>1
      <4>2. CASE d # e /\ c = e
        BY <1>2, <2>2, <4>2 DEF Edit
      <4>3. CASE d # e /\ c # e
        BY <2>2, <4>3 DEF CacheInv, OrderInv
      <4>4. QED
        BY <4>1, <4>2, <4>3
    <3>3. scanned' = File /\ boot' = "watching" /\ edits' = e
      BY <1>1, <1>5 DEF CacheInv, OrderInv
    <3>4. QED
      BY <3>1, <3>2, <3>3 DEF OrderInv
  <2>4. FitsInv'
    <3> SUFFICES ASSUME NEW d \in Edit, job'[d].file \notin spoiled', Last(d)' PROVE Fits(job[d])'
      BY DEF FitsInv
    <3>1. CASE d = e
      BY <1>3, <2>2, <3>1 DEF Fits
    <3>2. CASE d # e /\ job[d].file = f
      <4>1. job'[d].pc = "none"
        BY <1>1, <1>2, <2>2, <3>2 DEF Last, Edit
      <4>2. QED
        BY <4>1 DEF Fits
    <3>3. CASE d # e /\ job[d].file # f
      <4>1. Last(d)
        <5>1. ASSUME NEW c \in Edit \ {d}, job[c].pc = "queued", job[c].file = job[d].file
              PROVE  c < d
          <6>1. c # e
            BY <1>2, <5>1 DEF Edit
          <6>2. QED
            BY <2>2, <3>3, <5>1, <6>1 DEF Last
        <5>2. QED
          BY <5>1 DEF Last
      <4>2. Fits(job[d])
        BY <2>1, <2>2, <3>3, <4>1 DEF CacheInv, FitsInv
      <4>3. QED
        BY <1>3, <1>4, <2>2, <3>3, <4>2 DEF Fits
    <3>4. QED
      BY <3>1, <3>2, <3>3
  <2>5. OneInv'
    <3>1. \A d \in Edit : Active(d)' => d # e /\ Active(d) /\ job'[d] = job[d]
      BY <2>2 DEF Active
    <3>2. QED
      BY <2>1, <3>1 DEF CacheInv, OneInv
  <2>6. FollowInv'
    <3> SUFFICES ASSUME NEW g \in scanned \ spoiled
                 PROVE  Follows(g)' \/ \E d \in Edit : job'[d].file = g /\ job'[d].pc \in Pending
      BY <1>1, <2>1 DEF FollowInv
    <3>1. CASE g = f
      BY <1>1, <2>2, <3>1 DEF Pending
    <3>2. CASE g # f
      <4>1. Follows(g) => Follows(g)'
        BY <1>1, <1>3, <3>2 DEF Follows, TypeOK
      <4>2. ASSUME NEW d \in Edit, job[d].file = g, job[d].pc \in Pending
            PROVE  job'[d].file = g /\ job'[d].pc \in Pending
        BY <1>2, <2>2, <4>2 DEF Pending, Edit
      <4>3. QED
        BY <4>1, <4>2 DEF CacheInv, FollowInv
    <3>3. QED
      BY <3>1, <3>2
  <2>7. QED
    BY <2>3, <2>4, <2>5, <2>6 DEF CacheInv
<1>6. CASE boot # "watching"
  <2>1. UNCHANGED job /\ spoiled' = IF f \in scanned THEN spoiled \cup {f} ELSE spoiled
    BY <1>6 DEF EditFile
  <2>2. \A d \in Edit : job[d].pc = "none"
    BY <1>6 DEF EditFile, TypeOK, CacheInv, OrderInv
  <2>3. FitsInv' /\ OneInv'
    BY <2>1, <2>2 DEF FitsInv, OneInv, Fits, Active
  <2>4. OrderInv'
    BY <1>1, <2>1, <2>2 DEF CacheInv, OrderInv
  <2>5. FollowInv'
    BY <1>1, <1>3, <2>1 DEF CacheInv, FollowInv, Follows, TypeOK
  <2>6. QED
    BY <2>3, <2>4, <2>5 DEF CacheInv
<1>7. QED
  BY <1>5, <1>6

LEMMA BootCache ==
  ASSUME TypeOK, CacheInv, Boot
  PROVE  CacheInv'
<1>1. \A d \in Edit : job[d].pc = "none"
  BY DEF Boot, Scan, FirstBuild, Subscribe, CacheInv, OrderInv
<1>2. UNCHANGED <<job, disk, spoiled, edits>>
  BY DEF Boot, Scan, FirstBuild, Subscribe
<1>3. FitsInv' /\ OneInv'
  BY <1>1, <1>2 DEF FitsInv, OneInv, Fits, Active
<1>4. CASE \E f \in File : Scan(f)
  <2>1. PICK f \in File : Scan(f)
    BY <1>4
  <2>2. scanned' = scanned \cup {f} /\ boot = "scan" /\ UNCHANGED boot /\ fileCache[f] = None
    BY <2>1 DEF Scan, CacheInv, OrderInv
  <2>3. /\ \A g \in File : g # f => fileCache'[g] = fileCache[g]
        /\ disk[f] \notin Unparsable => fileCache'[f] = disk[f]
    BY <2>1, <2>2 DEF Scan, Analyzed, TypeOK, Parsable
  <2>4. OrderInv'
    BY <1>1, <1>2, <2>2, <2>3 DEF CacheInv, OrderInv
  <2>5. FollowInv'
    BY <1>1, <1>2, <2>2, <2>3 DEF CacheInv, FollowInv, Follows, TypeOK
  <2>6. QED
    BY <1>3, <2>4, <2>5 DEF CacheInv
<1>5. CASE FirstBuild \/ Subscribe
  <2>1. UNCHANGED <<scanned, fileCache>> /\ (boot = "scan" => scanned = File)
    BY <1>5 DEF FirstBuild, Subscribe
  <2>2. OrderInv'
    BY <1>1, <1>2, <2>1, <1>5 DEF CacheInv, OrderInv, FirstBuild, Subscribe
  <2>3. FollowInv'
    BY <1>2, <2>1 DEF CacheInv, FollowInv, Follows
  <2>4. QED
    BY <1>3, <2>2, <2>3 DEF CacheInv
<1>6. QED
  BY <1>4, <1>5 DEF Boot

LEMMA DeliverCache ==
  ASSUME TypeOK, CacheInv, NEW e \in Edit, boot = "watching", Deliver(e)
  PROVE  CacheInv'
<1> DEFINE s == [job[e] EXCEPT !.pc = "exists"]
           g == job[e].file
<1>1. UNCHANGED <<disk, edits, boot, scanned, fileCache>> /\ job[e].pc = "queued" /\ scanned = File
  BY DEF Deliver, CacheInv, OrderInv
<1>2. /\ job'[e].pc = "exists" /\ job'[e].file = g /\ job'[e].event = job[e].event /\ g \in File
      /\ \A d \in Edit : d # e => job'[d] = job[d]
  <2>1. job[e] \in Job /\ job' = [job EXCEPT ![e] = s]
    BY JobType DEF Deliver, GotoJob
  <2>2. s.pc = "exists" /\ s.file = g /\ s.event = job[e].event /\ g \in File
    BY <2>1 DEF Job
  <2> HIDE DEF s
  <2>3. QED
    BY <2>1, <2>2 DEF TypeOK
<1>3. spoiled \subseteq spoiled' /\ \A d \in Edit : Active(d) /\ job[d].file = g => g \in spoiled'
  BY DEF Deliver
<1>4. \A d \in Edit : d < e => job[d].pc # "queued"
  BY DEF Deliver, Edit
<1>5. OrderInv'
  <2>1. \A c, d \in Edit : c < d /\ job'[c].pc = "queued" => job'[d].pc \in {"none", "queued"}
    <3> SUFFICES ASSUME NEW c \in Edit, NEW d \in Edit, c < d, job'[c].pc = "queued"
                 PROVE  job'[d].pc \in {"none", "queued"}
      OBVIOUS
    <3>1. c # e /\ job[c].pc = "queued"
      BY <1>2
    <3>2. d # e
      BY <1>4, <3>1
    <3>3. QED
      BY <1>2, <3>1, <3>2 DEF CacheInv, OrderInv
  <2>2. \A d \in Edit : job'[d].pc # "none" => d <= edits
    BY <1>1, <1>2 DEF CacheInv, OrderInv
  <2>3. QED
    BY <1>1, <2>1, <2>2 DEF CacheInv, OrderInv
<1>6. FitsInv'
  <2> SUFFICES ASSUME NEW d \in Edit, job'[d].file \notin spoiled', Last(d)' PROVE Fits(job[d])'
    BY DEF FitsInv
  <2>1. CASE d = e
    <3>1. Last(e)
      BY <1>2, <2>1 DEF Last
    <3>2. Fits(job[e])
      BY <1>2, <1>3, <2>1, <3>1 DEF CacheInv, FitsInv
    <3>3. QED
      BY <1>1, <1>2, <2>1, <3>2 DEF Fits
  <2>2. CASE d # e /\ job[d].file = g
    <3>1. ~Active(d)
      BY <1>2, <1>3, <2>2
    <3>2. CASE job[d].pc = "queued"
      <4>1. e < d
        BY <1>4, <2>2, <3>2 DEF Edit
      <4>2. Last(d)
        BY <1>2, <2>2, <4>1 DEF Last
      <4>3. QED
        BY <1>1, <1>2, <1>3, <2>2, <4>2 DEF CacheInv, FitsInv, Fits
    <3>3. CASE job[d].pc # "queued"
      BY <1>2, <2>2, <3>1, <3>3 DEF Fits, Active
    <3>4. QED
      BY <3>2, <3>3
  <2>3. CASE d # e /\ job[d].file # g
    <3>1. Last(d)
      BY <1>2, <2>3 DEF Last
    <3>2. QED
      BY <1>1, <1>2, <1>3, <2>3, <3>1 DEF CacheInv, FitsInv, Fits
  <2>4. QED
    BY <2>1, <2>2, <2>3
<1>7. OneInv'
  <2> SUFFICES ASSUME NEW c \in Edit, NEW d \in Edit, Active(c)', Active(d)', job'[c].file = job'[d].file,
                      job'[d].file \notin spoiled'
               PROVE  c = d
    BY DEF OneInv
  <2>1. CASE c = e \/ d = e
    BY <1>2, <1>3, <2>1 DEF Active
  <2>2. CASE c # e /\ d # e
    BY <1>2, <1>3, <2>2 DEF Active, CacheInv, OneInv
  <2>3. QED
    BY <2>1, <2>2
<1>8. FollowInv'
  <2> SUFFICES ASSUME NEW f \in File \ spoiled'
               PROVE  Follows(f)' \/ \E d \in Edit : job'[d].file = f /\ job'[d].pc \in Pending
    BY <1>1 DEF FollowInv
  <2>1. Follows(f) => Follows(f)'
    BY <1>1 DEF Follows
  <2>2. ASSUME NEW d \in Edit, job[d].file = f, job[d].pc \in Pending
        PROVE  job'[d].file = f /\ job'[d].pc \in Pending
    BY <1>2, <2>2 DEF Pending
  <2>3. QED
    BY <1>1, <1>3, <2>1, <2>2 DEF CacheInv, FollowInv
<1>9. QED
  BY <1>5, <1>6, <1>7, <1>8 DEF CacheInv

LEMMA DoneFits == Fits([Blank EXCEPT !.pc = "done"])
BY DEF Fits, Blank

LEMMA RebuildCache ==
  ASSUME TypeOK, CacheInv, NEW e \in Edit, Active(e), boot = "watching", NEW cache \in Cache, Rebuild(e, cache),
         \A f \in File : f # job[e].file => cache[f] = fileCache[f],
         job[e].file \notin spoiled /\ Last(e) =>
           (disk[job[e].file] \notin Unparsable => cache[job[e].file] = disk[job[e].file]),
         UNCHANGED <<disk, edits, scanned, boot, spoiled>>
  PROVE  CacheInv'
<1> DEFINE done == [Blank EXCEPT !.pc = "done"]
           next == [job[e] EXCEPT !.pc = "generate", !.snapshot = cache]
           s == IF Builds(cache) THEN next ELSE done
<1>1. done \in Job /\ done.pc = "done" /\ Fits(done)
  BY BlankType, DoneFits DEF Blank
<1>2. next \in Job /\ next.pc = "generate" /\ next.file = job[e].file
  <2>1. job[e] \in Job /\ cache \in Snapshot
    BY JobType, CacheSnapshot
  <2>2. next \in Job
    BY <2>1 DEF Job, JobPlace
  <2>3. next.pc = "generate" /\ next.file = job[e].file
    BY <2>1 DEF Job
  <2>4. QED
    BY <2>2, <2>3
<1>3. Fits(next)
  BY <1>2 DEF Fits
<1>4. job' = [job EXCEPT ![e] = s] /\ fileCache' = cache
  BY DEF Rebuild, EndJob
<1> HIDE DEF done, next
<1>5. /\ s \in Job /\ Fits(s) /\ s.pc \notin {"none", "queued"}
      /\ s.pc # "done" => s.file = job[e].file
  BY <1>1, <1>2, <1>3
<1> HIDE DEF s
<1>6. QED
  BY <1>4, <1>5, HandlerCache

LEMMA JobStepCache ==
  ASSUME TypeOK, CacheInv, NEW e \in Edit, JobStep(e)
  PROVE  CacheInv'
<1> DEFINE g == job[e].file
           done == [Blank EXCEPT !.pc = "done"]
<1>1. job[e] \in Job /\ g \in File /\ boot = "watching"
  BY JobType DEF JobStep, Job
<1>2. done \in Job /\ done.pc = "done" /\ Fits(done)
  BY BlankType, DoneFits DEF Blank
<1>3. g \notin spoiled' /\ Last(e) /\ spoiled \subseteq spoiled' => Fits(job[e])
  BY DEF CacheInv, FitsInv
<1>4. CASE Deliver(e)
  BY <1>1, <1>4, DeliverCache
<1>5. CASE CheckExists(e)
  <2> DEFINE s == [job[e] EXCEPT !.pc = "append", !.deleted = isDeleted(e)]
  <2>1. s \in Job /\ s.pc = "append" /\ s.file = g /\ s.deleted = isDeleted(e)
    BY <1>1 DEF Job, JobPlace, isDeleted
  <2>2. job' = [job EXCEPT ![e] = s] /\ Active(e)
    BY <1>5 DEF CheckExists, Active
  <2>3. g \notin spoiled' /\ Last(e) => Fits(s) /\ s.pc \in Pending
    <3>1. job[e].pc = "exists" /\ UNCHANGED spoiled
      BY <1>5 DEF CheckExists
    <3>2. job[e].event \in {"change", "rename", "delete"}
      BY <1>1 DEF Job
    <3>3. QED
      BY <1>3, <2>1, <3>1, <3>2 DEF Fits, isDeleted, Pending
  <2> HIDE DEF s
  <2>4. QED
    BY <1>1, <1>5, <2>1, <2>2, <2>3, HandlerCache DEF CheckExists
<1>6. CASE AppendInHandler(e)
  <2>1. CASE apc'[e] = "failed"
    <3>1. job' = [job EXCEPT ![e] = done] /\ Active(e) /\ g \in spoiled'
      BY <1>6, <2>1 DEF AppendInHandler, EndJob, Active
    <3> HIDE DEF done
    <3>2. QED
      BY <1>1, <1>2, <1>6, <2>1, <3>1, HandlerCache DEF AppendInHandler
  <2>2. CASE apc'[e] # "failed"
    BY <1>6, <2>2 DEF AppendInHandler, CacheInv, OrderInv, FitsInv, OneInv, FollowInv, Fits, Last, Active, Follows
  <2>3. QED
    BY <2>1, <2>2
<1>7. CASE HandleDeletion(e)
  <2> DEFINE cache == [fileCache EXCEPT ![g] = None]
  <2>1. cache \in Cache /\ cache[g] = None /\ \A f \in File : f # g => cache[f] = fileCache[f]
    BY <1>1, VersionFacts DEF TypeOK, Cache
  <2>2. Active(e) /\ Rebuild(e, cache) /\ UNCHANGED <<disk, edits, scanned, boot, spoiled>>
    BY <1>7 DEF HandleDeletion, Active
  <2>3. g \notin spoiled /\ Last(e) => disk[g] = None
    BY <1>7 DEF HandleDeletion, CacheInv, FitsInv, Fits
  <2> HIDE DEF cache
  <2>4. QED
    BY <1>1, <2>1, <2>2, <2>3, RebuildCache
<1>8. CASE BeginAnalysis(e)
  <2> DEFINE s == [job[e] EXCEPT !.pc = "read"]
  <2>1. s \in Job /\ s.pc = "read" /\ s.file = g
    BY <1>1 DEF Job, JobPlace
  <2>2. job' = [job EXCEPT ![e] = s] /\ Active(e) /\ UNCHANGED spoiled
    BY <1>8 DEF BeginAnalysis, GotoJob, Active
  <2>3. g \notin spoiled' /\ Last(e) => Fits(s) /\ s.pc \in Pending
    BY <1>3, <1>8, <2>1, <2>2 DEF BeginAnalysis, Fits, Pending
  <2> HIDE DEF s
  <2>4. QED
    BY <1>1, <1>8, <2>1, <2>2, <2>3, HandlerCache DEF BeginAnalysis
<1>9. CASE ReadFile(e)
  <2> DEFINE s == [job[e] EXCEPT !.pc = "analyze", !.text = disk[g]]
  <2>1. s \in Job /\ s.pc = "analyze" /\ s.file = g /\ s.text = disk[g]
    BY <1>1 DEF Job, JobPlace, TypeOK
  <2>2. job' = [job EXCEPT ![e] = s] /\ Active(e) /\ UNCHANGED spoiled
    BY <1>9 DEF ReadFile, Active
  <2>3. g \notin spoiled' /\ Last(e) => Fits(s) /\ s.pc \in Pending
    BY <1>3, <1>9, <2>1, <2>2 DEF ReadFile, Fits, Pending
  <2> HIDE DEF s
  <2>4. QED
    BY <1>1, <1>9, <2>1, <2>2, <2>3, HandlerCache DEF ReadFile
<1>10. CASE Analyze(e)
  <2> DEFINE cache == Analyzed(g, job[e].text)
  <2>1. cache \in Cache
    BY <1>1, AnalyzedType DEF Job
  <2>2. \A f \in File : f # g => cache[f] = fileCache[f]
    BY DEF Analyzed, TypeOK
  <2>3. Active(e) /\ Rebuild(e, cache) /\ UNCHANGED <<disk, edits, scanned, boot, spoiled>>
    BY <1>10 DEF Analyze, Active
  <2>4. g \notin spoiled /\ Last(e) => (disk[g] \notin Unparsable => cache[g] = disk[g])
    BY <1>1, <1>10 DEF Analyze, CacheInv, FitsInv, Fits, Analyzed, Parsable, TypeOK
  <2> HIDE DEF cache
  <2>5. QED
    BY <1>1, <2>1, <2>2, <2>3, <2>4, RebuildCache
<1>11. CASE Generate(e) \/ WriteManifest(e)
  <2> DEFINE next == [job[e] EXCEPT !.pc = "write"]
             s == IF WriteManifest(e) \/ manifest = job[e].snapshot THEN done ELSE next
  <2>1. job[e].pc \in {"generate", "write"} /\ Active(e)
    BY <1>11 DEF Generate, WriteManifest, Active
  <2>2. next \in Job /\ next.pc = "write" /\ next.file = g
    BY <1>1 DEF Job, JobPlace
  <2>3. Fits(next)
    BY <2>2 DEF Fits
  <2>4. job' = [job EXCEPT ![e] = s]
    BY <1>11 DEF Generate, WriteManifest, EndJob, GotoJob
  <2>5. UNCHANGED <<disk, edits, scanned, boot, spoiled, fileCache>>
    BY <1>11 DEF Generate, WriteManifest
  <2> HIDE DEF done, next
  <2>6. s \in Job /\ Fits(s) /\ s.pc \notin {"none", "queued"} /\ (s.pc # "done" => s.file = g)
    BY <1>2, <2>2, <2>3
  <2> HIDE DEF s
  <2>7. g \notin spoiled' /\ Last(e) => Follows(g)
    <3> SUFFICES ASSUME g \notin spoiled, Last(e), NEW d \in Edit, job[d].file = g, job[d].pc \in Pending
                 PROVE  FALSE
      BY <1>1, <2>5 DEF CacheInv, FollowInv, OrderInv
    <3>1. d # e
      BY <2>1 DEF Pending
    <3>2. CASE job[d].pc = "queued"
      <4>1. d < e
        BY <3>1, <3>2 DEF Last
      <4>2. QED
        BY <2>1, <3>2, <4>1 DEF CacheInv, OrderInv
    <3>3. CASE job[d].pc # "queued"
      <4>1. Active(d)
        BY <3>3 DEF Active, Pending
      <4>2. QED
        BY <2>1, <3>1, <4>1 DEF CacheInv, OneInv
    <3>4. QED
      BY <3>2, <3>3
  <2>8. QED
    BY <1>1, <2>1, <2>4, <2>5, <2>6, <2>7, HandlerCache DEF Follows
<1>12. QED
  BY <1>4, <1>5, <1>6, <1>7, <1>8, <1>9, <1>10, <1>11 DEF JobStep

LEMMA CacheStep == TypeOK /\ CacheInv /\ [Next]_vars => CacheInv'
<1> SUFFICES ASSUME TypeOK, CacheInv, [Next]_vars PROVE CacheInv'
  OBVIOUS
<1>1. CASE UNCHANGED vars
  BY <1>1 DEF vars, devVars, CacheInv, OrderInv, FitsInv, OneInv, FollowInv, Fits, Last, Active, Follows
<1>2. CASE Next
  BY <1>2, EditCache, BootCache, JobStepCache DEF Next
<1>3. QED
  BY <1>1, <1>2

(* At rest, fileCache is the analysis of what each file holds, whatever     *)
(* handlers of other files ran beside each other; the files for which that  *)
(* is not so are those named by `spoiled'.                                  *)
THEOREM CacheCorrect == Spec => []CacheFollowsDisk
<1>1. Spec => [](TypeOK /\ CacheInv)
  BY InitType, CacheInit, NextType, CacheStep, PTL DEF Spec
<1>2. QED
  BY <1>1, CacheImplies, PTL

-----------------------------------------------------------------------------
(* The manifest *)

(* An append() that is under way has a handler that waits for it. *)
AppendInv == \A e \in Edit : Appending(e) => job[e].pc = "append"

(* The handler that was delivered last ran alone. *)
Alone == overlap # "now" => \A d, e \in Edit : Active(d) /\ Active(e) => d = e

(* So far as it goes, it has the analyses there are; and no other removes   *)
(* the changeset that it has found.                                         *)
FreshInv ==
  boot = "watching" /\ overlap # "now" =>
    /\ (\A e \in Edit : ~Active(e)) /\ Builds(fileCache) => manifest = fileCache
    /\ \A e \in Edit : job[e].pc \in {"generate", "write"} => job[e].snapshot = fileCache
    /\ \A e \in Edit : apc[e] = "text" => changeset # NoFile

ManifestInv ==
  /\ AppendInv /\ Alone /\ FreshInv
  /\ boot = "subscribe" => manifest = fileCache

LEMMA ManifestInit == Init => ManifestInv
<1> SUFFICES ASSUME Init PROVE ManifestInv
  OBVIOUS
<1>1. \A e \in Edit : job[e].pc = "none" /\ apc[e] = "idle"
  BY DevAssumption DEF Init, Blank, ChangesetInit
<1>2. QED
  BY <1>1 DEF Init, ManifestInv, AppendInv, Alone, FreshInv, Appending, Active

LEMMA ManifestImplies == ManifestInv => ManifestFollowsCache
BY DEF ManifestInv, FreshInv, ManifestFollowsCache, Quiet, Active

(* A step of a handler e that is active and becomes s. *)
LEMMA HandlerManifest ==
  ASSUME TypeOK, ManifestInv, NEW e \in Edit, Active(e), boot = "watching", NEW s \in Job,
         job' = [job EXCEPT ![e] = s],
         s.pc \notin {"none", "queued"},
         \A d \in Edit : d # e => apc'[d] = apc[d],
         Appending(e)' => s.pc = "append",
         boot' \in {boot, "exited"}, UNCHANGED overlap,
         overlap # "now" /\ boot' = "watching" =>
           /\ s.pc = "done" /\ Builds(fileCache)' => manifest' = fileCache'
           /\ s.pc \in {"generate", "write"} => s.snapshot = fileCache'
           /\ apc'[e] = "text" => changeset' # NoFile
  PROVE  ManifestInv'
<1>1. /\ job'[e] = s
      /\ \A d \in Edit : d # e => job'[d] = job[d]
  BY DEF TypeOK
<1>2. AppendInv'
  BY <1>1 DEF ManifestInv, AppendInv, Appending
<1>3. \A d \in Edit : Active(d)' => Active(d)
  BY <1>1 DEF Active
<1>4. Alone'
  BY <1>3 DEF ManifestInv, Alone
<1>5. FreshInv'
  <2> SUFFICES ASSUME boot' = "watching", overlap # "now"
               PROVE  /\ (\A d \in Edit : ~Active(d)') /\ Builds(fileCache)' => manifest' = fileCache'
                      /\ \A d \in Edit : job'[d].pc \in {"generate", "write"} => job'[d].snapshot = fileCache'
                      /\ \A d \in Edit : apc'[d] = "text" => changeset' # NoFile
    BY DEF FreshInv
  <2>1. \A d \in Edit : d # e => ~Active(d)
    BY DEF ManifestInv, Alone
  <2>2. ~Active(e)' => s.pc = "done"
    BY <1>1 DEF Active
  <2>3. \A d \in Edit : d # e => job'[d].pc \notin {"generate", "write"} /\ apc'[d] # "text"
    BY <1>1, <2>1 DEF Active, ManifestInv, AppendInv, Appending
  <2>4. QED
    BY <1>1, <2>2, <2>3
<1>6. QED
  BY <1>2, <1>4, <1>5 DEF ManifestInv

LEMMA EditManifest ==
  ASSUME TypeOK, CacheInv, ManifestInv, NEW f \in File, NEW version \in Version, EditFile(f, version)
  PROVE  ManifestInv'
<1> DEFINE e == edits + 1
<1>1. e \in Edit /\ UNCHANGED <<boot, fileCache, manifest, overlap, apc, changeset>>
  BY DevAssumption DEF EditFile, TypeOK, Edit, changesetVars, files
<1>2. job[e].pc = "none"
  BY <1>1 DEF CacheInv, OrderInv, TypeOK, Edit
<1>3. \A d \in Edit : d # e => job'[d] = job[d]
  BY DEF EditFile, TypeOK
<1>4. job'[e].pc \in {"none", "queued"}
  <2>1. CASE boot = "watching"
    <3> DEFINE s == [job[e] EXCEPT !.pc = "queued", !.file = f,
                                   !.event = IF version = None THEN "delete" ELSE IF disk[f] = None THEN "rename" ELSE "change"]
    <3>1. job' = [job EXCEPT ![e] = s]
      BY <2>1 DEF EditFile
    <3>2. s.pc = "queued"
      BY <1>1, JobType DEF Job
    <3> HIDE DEF s
    <3>3. QED
      BY <1>1, <3>1, <3>2 DEF TypeOK
  <2>2. CASE boot # "watching"
    BY <1>2, <2>2 DEF EditFile
  <2>3. QED
    BY <2>1, <2>2
<1>5. \A d \in Edit : (Active(d)' <=> Active(d)) /\ (job[d].pc # "none" => job'[d] = job[d])
  BY <1>2, <1>3, <1>4 DEF Active
<1>6. AppendInv'
  BY <1>1, <1>5 DEF ManifestInv, AppendInv, Appending
<1>7. Alone'
  BY <1>1, <1>5 DEF ManifestInv, Alone
<1>8. \A d \in Edit : job'[d].pc \in {"generate", "write"} => job'[d] = job[d]
  BY <1>3, <1>4
<1>9. FreshInv'
  BY <1>1, <1>5, <1>8 DEF ManifestInv, FreshInv, Builds
<1>10. QED
  BY <1>1, <1>6, <1>7, <1>9 DEF ManifestInv

LEMMA BootManifest ==
  ASSUME TypeOK, CacheInv, ManifestInv, Boot
  PROVE  ManifestInv'
<1>1. \A d \in Edit : job[d].pc = "none"
  BY DEF Boot, Scan, FirstBuild, Subscribe, CacheInv, OrderInv
<1>2. UNCHANGED <<job, overlap, apc, changeset>>
  BY DEF Boot, Scan, FirstBuild, Subscribe, changesetVars, files
<1>3. AppendInv' /\ Alone' /\ \A d \in Edit : apc[d] # "text"
  BY <1>1, <1>2 DEF ManifestInv, AppendInv, Alone, Active, Appending
<1>4. boot' \in {"subscribe", "watching"} => manifest' = fileCache'
  BY DEF Boot, Scan, FirstBuild, Subscribe, ManifestInv
<1>5. FreshInv'
  BY <1>1, <1>2, <1>3, <1>4 DEF FreshInv
<1>6. QED
  BY <1>3, <1>4, <1>5 DEF ManifestInv

LEMMA DeliverManifest ==
  ASSUME TypeOK, ManifestInv, NEW e \in Edit, boot = "watching", Deliver(e)
  PROVE  ManifestInv'
<1>1. /\ job' = [job EXCEPT ![e].pc = "exists"] /\ job[e].pc = "queued"
      /\ UNCHANGED <<boot, apc, changeset>>
  BY DEF Deliver, GotoJob, changesetVars, files
<1>2. job'[e].pc = "exists" /\ \A d \in Edit : d # e => job'[d] = job[d]
  BY <1>1, JobType DEF TypeOK, Job
<1>3. AppendInv'
  BY <1>1, <1>2 DEF ManifestInv, AppendInv, Appending
<1>4. overlap' # "now" => \A d \in Edit : ~Active(d)
  BY DEF Deliver
<1>5. Alone'
  BY <1>2, <1>4 DEF Alone, Active
<1>6. Active(e)'
  BY <1>2 DEF Active
<1>7. overlap' # "now" => \A d \in Edit : job'[d].pc \notin {"generate", "write"} /\ apc'[d] # "text"
  BY <1>1, <1>2, <1>4 DEF Active, ManifestInv, AppendInv, Appending
<1>8. FreshInv'
  BY <1>6, <1>7 DEF FreshInv
<1>9. QED
  BY <1>1, <1>3, <1>5, <1>8 DEF ManifestInv

LEMMA RebuildManifest ==
  ASSUME TypeOK, ManifestInv, NEW e \in Edit, Active(e), boot = "watching", NEW cache \in Cache, Rebuild(e, cache),
         \A d \in Edit : d # e => apc'[d] = apc[d],
         ~Appending(e)', UNCHANGED <<boot, overlap>>
  PROVE  ManifestInv'
<1> DEFINE done == [Blank EXCEPT !.pc = "done"]
           next == [job[e] EXCEPT !.pc = "generate", !.snapshot = cache]
           s == IF Builds(cache) THEN next ELSE done
<1>1. done \in Job /\ done.pc = "done"
  BY BlankType DEF Blank
<1>2. next \in Job /\ next.pc = "generate" /\ next.snapshot = cache
  BY JobType, CacheSnapshot DEF Job, JobPlace
<1>3. job' = [job EXCEPT ![e] = s] /\ fileCache' = cache /\ (Builds(fileCache)' <=> Builds(cache))
  BY DEF Rebuild, EndJob, Builds
<1> HIDE DEF done, next
<1>4. /\ s \in Job /\ s.pc \notin {"none", "queued"}
      /\ s.pc = "done" => ~Builds(cache)
      /\ s.pc \in {"generate", "write"} => s.snapshot = cache
  BY <1>1, <1>2
<1>5. apc'[e] # "text"
  BY DEF Appending
<1> HIDE DEF s
<1>6. QED
  BY <1>3, <1>4, <1>5, HandlerManifest

LEMMA JobStepManifest ==
  ASSUME TypeOK, ManifestInv, NEW e \in Edit, JobStep(e)
  PROVE  ManifestInv'
<1> DEFINE g == job[e].file
           done == [Blank EXCEPT !.pc = "done"]
<1>1. job[e] \in Job /\ g \in File /\ boot = "watching" /\ e \in Appender
  BY JobType, DevAssumption DEF JobStep, Job
<1>2. done \in Job /\ done.pc = "done"
  BY BlankType DEF Blank
<1>3. apc \in [Edit -> AppendPlace]
  BY DevAssumption DEF TypeOK, ChangesetTypeOK
<1>4. Appending(e) => job[e].pc = "append"
  BY DEF ManifestInv, AppendInv
<1>5. CASE Deliver(e)
  BY <1>1, <1>5, DeliverManifest
<1>6. CASE CheckExists(e)
  <2> DEFINE s == [job[e] EXCEPT !.pc = "append", !.deleted = isDeleted(e)]
  <2>1. s \in Job /\ s.pc = "append"
    BY <1>1 DEF Job, JobPlace, isDeleted
  <2>2. job' = [job EXCEPT ![e] = s] /\ Active(e) /\ apc' = [apc EXCEPT ![e] = "mkdir"]
    BY <1>6 DEF CheckExists, Active, BeginAppend, Goto
  <2>3. apc'[e] = "mkdir" /\ \A d \in Edit : d # e => apc'[d] = apc[d]
    BY <1>3, <2>2
  <2> HIDE DEF s
  <2>4. QED
    BY <1>1, <1>6, <2>1, <2>2, <2>3, HandlerManifest DEF CheckExists
<1>7. CASE AppendInHandler(e)
  <2> DEFINE s == IF apc'[e] = "failed" THEN done ELSE job[e]
  <2>1. /\ \A d \in Edit : d # e => apc'[d] = apc[d]
        /\ apc'[e] = "failed" => apc[e] = "text" /\ changeset = NoFile
        /\ apc'[e] = "text" => changeset' # NoFile
    BY <1>1, <1>7, AppendStepPlace, DevAssumption DEF AppendInHandler, TypeOK
  <2>2. job' = [job EXCEPT ![e] = s] /\ job[e].pc = "append" /\ Active(e)
    BY <1>7 DEF AppendInHandler, EndJob, Active, TypeOK
  <2> HIDE DEF done
  <2>3. s \in Job /\ s.pc \in {"append", "done"} /\ (Appending(e)' => s.pc = "append")
    BY <1>1, <1>2, <2>2 DEF Appending
  <2>4. s.pc = "done" => apc[e] = "text" /\ changeset = NoFile
    BY <2>1, <2>2
  <2> HIDE DEF s
  <2>5. boot' \in {boot, "exited"} /\ UNCHANGED <<overlap, fileCache, manifest>>
    BY <1>7 DEF AppendInHandler
  <2>6. overlap # "now" => s.pc # "done"
    BY <1>1, <2>4 DEF ManifestInv, FreshInv
  <2>7. QED
    BY <1>1, <2>1, <2>2, <2>3, <2>5, <2>6, HandlerManifest
<1>8. CASE HandleDeletion(e)
  <2> DEFINE cache == [fileCache EXCEPT ![g] = None]
  <2>1. cache \in Cache
    BY <1>1, VersionFacts DEF TypeOK, Cache
  <2>2. Active(e) /\ Rebuild(e, cache) /\ UNCHANGED <<boot, overlap>> /\ apc' = [apc EXCEPT ![e] = "done"]
    BY <1>8 DEF HandleDeletion, Active, CountLine, Goto
  <2> HIDE DEF cache
  <2>3. ~Appending(e)' /\ \A d \in Edit : d # e => apc'[d] = apc[d]
    BY <1>3, <2>2 DEF Appending
  <2>4. QED
    BY <1>1, <2>1, <2>2, <2>3, RebuildManifest
<1>9. CASE BeginAnalysis(e)
  <2> DEFINE s == [job[e] EXCEPT !.pc = "read"]
  <2>1. s \in Job /\ s.pc = "read"
    BY <1>1 DEF Job, JobPlace
  <2>2. job' = [job EXCEPT ![e] = s] /\ Active(e) /\ UNCHANGED <<boot, overlap>> /\ apc' = [apc EXCEPT ![e] = "done"]
    BY <1>9 DEF BeginAnalysis, GotoJob, Active, CountLine, Goto
  <2> HIDE DEF s
  <2>3. apc'[e] = "done" /\ ~Appending(e)' /\ \A d \in Edit : d # e => apc'[d] = apc[d]
    BY <1>3, <2>2 DEF Appending
  <2>4. QED
    BY <1>1, <2>1, <2>2, <2>3, HandlerManifest
<1>10. CASE ReadFile(e)
  <2> DEFINE s == [job[e] EXCEPT !.pc = "analyze", !.text = disk[g]]
  <2>1. s \in Job /\ s.pc = "analyze"
    BY <1>1 DEF Job, JobPlace, TypeOK
  <2>2. job' = [job EXCEPT ![e] = s] /\ Active(e) /\ job[e].pc = "read" /\ UNCHANGED <<boot, overlap, apc>>
    BY <1>10 DEF ReadFile, Active, changesetVars
  <2>3. ~Appending(e)' /\ apc'[e] # "text"
    BY <1>4, <2>2 DEF Appending
  <2> HIDE DEF s
  <2>4. QED
    BY <1>1, <2>1, <2>2, <2>3, HandlerManifest
<1>11. CASE Analyze(e)
  <2> DEFINE cache == Analyzed(g, job[e].text)
  <2>1. cache \in Cache
    BY <1>1, AnalyzedType DEF Job
  <2>2. Active(e) /\ Rebuild(e, cache) /\ job[e].pc = "analyze" /\ UNCHANGED <<boot, overlap, apc>>
    BY <1>11 DEF Analyze, Active, changesetVars
  <2>3. ~Appending(e)'
    BY <1>4, <2>2 DEF Appending
  <2> HIDE DEF cache
  <2>4. QED
    BY <1>1, <2>1, <2>2, <2>3, RebuildManifest
<1>12. CASE Generate(e) \/ WriteManifest(e)
  <2> DEFINE next == [job[e] EXCEPT !.pc = "write"]
             ends == WriteManifest(e) \/ manifest = job[e].snapshot
             s == IF ends THEN done ELSE next
  <2>1. job[e].pc \in {"generate", "write"} /\ Active(e) /\ UNCHANGED <<boot, overlap, apc, fileCache>>
    BY <1>12 DEF Generate, WriteManifest, Active, changesetVars
  <2>2. next \in Job /\ next.pc = "write" /\ next.snapshot = job[e].snapshot
    BY <1>1 DEF Job, JobPlace
  <2>3. job' = [job EXCEPT ![e] = s] /\ (ends => manifest' = job[e].snapshot)
    BY <1>12 DEF Generate, WriteManifest, EndJob, GotoJob
  <2>4. ~Appending(e)' /\ apc'[e] # "text"
    BY <1>4, <2>1 DEF Appending
  <2>5. overlap # "now" => job[e].snapshot = fileCache
    BY <1>1, <2>1 DEF ManifestInv, FreshInv
  <2> HIDE DEF done, next, ends
  <2>6. /\ s \in Job /\ s.pc \notin {"none", "queued"}
        /\ overlap # "now" /\ s.pc = "done" => manifest' = fileCache'
        /\ overlap # "now" /\ s.pc \in {"generate", "write"} => s.snapshot = fileCache'
    BY <1>2, <2>1, <2>2, <2>3, <2>5
  <2> HIDE DEF s
  <2>7. QED
    BY <1>1, <2>1, <2>3, <2>4, <2>6, HandlerManifest
<1>13. QED
  BY <1>5, <1>6, <1>7, <1>8, <1>9, <1>10, <1>11, <1>12 DEF JobStep

LEMMA ManifestStep == TypeOK /\ CacheInv /\ ManifestInv /\ [Next]_vars => ManifestInv'
<1> SUFFICES ASSUME TypeOK, CacheInv, ManifestInv, [Next]_vars PROVE ManifestInv'
  OBVIOUS
<1>1. CASE UNCHANGED vars
  BY <1>1 DEF vars, devVars, changesetVars, files, ManifestInv, AppendInv, Alone, FreshInv, Active, Appending, Builds
<1>2. CASE Next
  BY <1>2, EditManifest, BootManifest, JobStepManifest DEF Next
<1>3. QED
  BY <1>1, <1>2

(* A handler that runs alone leaves the manifest of the analyses that there *)
(* are, whatever handlers that overlapped have left before it.              *)
THEOREM ManifestCorrect == Spec => []ManifestFollowsCache
<1>1. Spec => [](TypeOK /\ CacheInv /\ ManifestInv)
  BY InitType, CacheInit, ManifestInit, NextType, CacheStep, ManifestStep, PTL DEF Spec
<1>2. QED
  BY <1>1, ManifestImplies, PTL

-----------------------------------------------------------------------------
(* The records of the changeset *)

(* The records of a generation of it. *)
Size == IF changeset = NoFile THEN 0 ELSE Len(changeset)

(* As long as handlers do not overlap, the writer's count is that of the    *)
(* file, and an append() under way knows it.                                *)
CountInv ==
  /\ Size <= MaxLines
  /\ initialized /\ (\A e \in Edit : apc[e] \notin {"renamed", "count"}) => lineCount = Size
  /\ \A e \in Edit :
       /\ apc[e] \in {"idle", "mkdir", "exists", "text"} => counted[e] = 0
       /\ apc[e] = "init" => counted[e] = Size
       /\ apc[e] \in {"rm", "rename", "renamed", "append", "count"} => initialized
       /\ apc[e] = "rm" => Size = MaxLines
       /\ apc[e] = "rename" => changeset # NoFile /\ rotated = NoFile
       /\ apc[e] = "renamed" => changeset = NoFile
       /\ apc[e] = "append" => Size < MaxLines
       /\ apc[e] = "count" => lineCount + 1 = Size /\ Holds(changeset, e)

(* Events are recorded in the order of their numbers. *)
SerialInv ==
  /\ \A d, e \in Edit : Active(e) /\ apc[d] # "idle" => d <= e
  /\ \A e \in Edit : job[e].pc \in {"none", "queued", "exists"} => apc[e] = "idle"

(* Once the older generation has records of this process, the newer one has *)
(* no others, and its i-th is at least i events later than any of them.     *)
RecordInv ==
  /\ \A e \in Edit : Holds(changeset, e) \/ Holds(rotated, e) => apc[e] \in {"count", "done"}
  /\ \A e \in Edit : Holds(rotated, e) =>
       \A i \in 1 .. Size : changeset[i] \in Edit /\ changeset[i] >= e + i

(* A record that is in neither generation is older than MaxLines events.    *)
KeptInv ==
  \A e \in Edit : apc[e] = "done" =>
    \/ Holds(changeset, e) \/ Holds(rotated, e)
    \/ \E d \in Edit : apc[d] = "done" /\ d >= e + MaxLines

ChangesetInv == overlap = "never" => CountInv /\ SerialInv /\ RecordInv /\ KeptInv

LEMMA FileFacts ==
  ASSUME ChangesetTypeOK, CountInv
  PROVE  /\ Size \in Nat /\ MaxLines \in Nat \ {0} /\ lineCount \in Nat
         /\ changeset # NoFile => changeset \in Seq(Record) /\ Size = Len(changeset)
         /\ rotated # NoFile => rotated \in Seq(Record)
         /\ counted \in [Edit -> Nat] /\ apc \in [Edit -> AppendPlace] /\ Edit = Appender
BY ChangesetAssumption, DevAssumption DEF ChangesetTypeOK, Size, Content

LEMMA ChangesetStart == Init => ChangesetInv
<1> SUFFICES ASSUME Init PROVE CountInv /\ SerialInv /\ RecordInv /\ KeptInv
  BY DEF ChangesetInv
<1>1. MaxLines \in Nat \ {0} /\ Edit = Appender /\ Edit \subseteq Nat /\ Earlier \notin Edit
  BY ChangesetAssumption, DevAssumption DEF Edit
<1>2. \A e \in Edit : apc[e] = "idle" /\ counted[e] = 0 /\ job[e].pc = "none"
  BY <1>1 DEF Init, ChangesetInit, Blank
<1>3. changeset = NoFile \/ \E n \in 1 .. MaxLines : changeset = [i \in 1 .. n |-> Earlier]
  BY DEF Init, ChangesetInit
<1>4. \A n \in Nat : Len([i \in 1 .. n |-> Earlier]) = n
  OBVIOUS
<1>5. Size <= MaxLines /\ \A e \in Edit : ~Holds(changeset, e) /\ ~Holds(rotated, e)
  <2>1. rotated = NoFile
    BY DEF Init, ChangesetInit
  <2>2. CASE changeset = NoFile
    BY <1>1, <2>1, <2>2 DEF Size, Holds
  <2>3. CASE changeset # NoFile
    <3>1. PICK n \in 1 .. MaxLines : changeset = [i \in 1 .. n |-> Earlier]
      BY <1>3, <2>3
    <3>2. n \in Nat /\ Len(changeset) = n
      BY <1>1, <1>4, <3>1
    <3>3. QED
      BY <1>1, <2>1, <2>3, <3>1, <3>2 DEF Size, Holds
  <2>4. QED
    BY <2>2, <2>3
<1>6. CountInv
  BY <1>2, <1>5 DEF CountInv, Init, ChangesetInit
<1>7. SerialInv
  BY <1>2 DEF SerialInv
<1>8. RecordInv /\ KeptInv
  BY <1>2, <1>5 DEF RecordInv, KeptInv
<1>9. QED
  BY <1>6, <1>7, <1>8

LEMMA ChangesetImplies == TypeOK /\ ChangesetInv => ChangesetKeepsRecent
<1> SUFFICES ASSUME TypeOK, ChangesetInv, overlap = "never"
             PROVE  /\ changeset # NoFile => Len(changeset) <= MaxLines
                    /\ \A e \in Edit :
                         apc[e] = "done" /\ (\A d \in HandledSince(e) : d < e + MaxLines) =>
                           Holds(changeset, e) \/ Holds(rotated, e)
  BY DEF ChangesetKeepsRecent
<1>1. changeset # NoFile => Len(changeset) <= MaxLines
  BY DEF ChangesetInv, CountInv, Size
<1>2. ASSUME NEW e \in Edit, apc[e] = "done", \A d \in HandledSince(e) : d < e + MaxLines
      PROVE  Holds(changeset, e) \/ Holds(rotated, e)
  <2>1. ASSUME NEW d \in Edit, apc[d] = "done", d >= e + MaxLines PROVE FALSE
    <3>1. d \in Nat /\ e \in Nat /\ MaxLines \in Nat \ {0}
      BY ChangesetAssumption DEF Edit
    <3>2. d \in HandledSince(e)
      BY <2>1, <3>1 DEF HandledSince
    <3>3. QED
      BY <1>2, <2>1, <3>1, <3>2
  <2>2. QED
    BY <1>2, <2>1 DEF ChangesetInv, KeptInv
<1>3. QED
  BY <1>1, <1>2

(* Steps that leave the changeset alone. *)
LEMMA ChangesetSame ==
  ASSUME ChangesetInv, UNCHANGED changesetVars,
         overlap' = "never" =>
           /\ overlap = "never"
           /\ \A d, e \in Edit : Active(e)' /\ apc[d] # "idle" => d <= e
           /\ \A e \in Edit : job'[e].pc \in {"none", "queued", "exists"} => apc[e] = "idle"
  PROVE  ChangesetInv'
<1> SUFFICES ASSUME overlap' = "never" PROVE (CountInv /\ SerialInv /\ RecordInv /\ KeptInv)'
  BY DEF ChangesetInv
<1>1. CountInv /\ RecordInv /\ KeptInv
  BY DEF ChangesetInv
<1>2. UNCHANGED <<changeset, rotated, initialized, lineCount, apc, counted>>
  BY DEF changesetVars, files, writerVars
<1>3. CountInv'
  BY <1>1, <1>2 DEF CountInv, Size, Holds
<1>4. SerialInv'
  BY <1>2 DEF SerialInv
<1>5. RecordInv' /\ KeptInv'
  BY <1>1, <1>2 DEF RecordInv, KeptInv, Size, Holds
<1>6. QED
  BY <1>3, <1>4, <1>5

-----------------------------------------------------------------------------
(* The steps of an append() that runs alone *)

AloneAt(e) ==
  /\ ChangesetTypeOK /\ CountInv /\ RecordInv /\ KeptInv
  /\ \A d \in Edit : d # e => apc[d] \in {"idle", "done", "failed"}
  /\ \A d \in Edit : apc[d] # "idle" => d <= e

FilesInv == CountInv /\ RecordInv /\ KeptInv

(* Those that leave both generations alone, and have not appended. *)
LEMMA WaitingStep ==
  ASSUME NEW e \in Edit, AloneAt(e), NEW place \in AppendPlace \ {"renamed", "count", "done"}, Goto(e, place),
         apc[e] \notin {"count", "done"},
         UNCHANGED files, initialized' \in BOOLEAN,
         initialized' => lineCount' = Size,
         \A d \in Edit : d # e => counted'[d] = counted[d],
         place \in {"idle", "mkdir", "exists", "text"} => counted'[e] = 0,
         place = "init" => counted'[e] = Size,
         place \in {"rm", "rename", "append"} => initialized', 
         place = "rm" => Size = MaxLines,
         place = "rename" => changeset # NoFile /\ rotated = NoFile,
         place = "append" => Size < MaxLines,
         initialized => initialized'
  PROVE  FilesInv'
<1>1. apc'[e] = place /\ \A d \in Edit : d # e => apc'[d] = apc[d]
  BY FileFacts DEF AloneAt, Goto
<1>2. Size' = Size /\ UNCHANGED <<changeset, rotated>>
  BY DEF Size, files
<1>3. CountInv'
  BY <1>1, <1>2 DEF AloneAt, CountInv, Holds
<1>4. \A d \in Edit : apc'[d] \in {"count", "done"} <=> apc[d] \in {"count", "done"}
  BY <1>1
<1>5. \A d \in Edit : apc'[d] = "done" <=> apc[d] = "done"
  BY <1>1
<1>6. RecordInv'
  BY <1>2, <1>4 DEF AloneAt, RecordInv, Holds
<1>7. KeptInv'
  BY <1>2, <1>5 DEF AloneAt, KeptInv, Holds
<1>8. QED
  BY <1>3, <1>6, <1>7 DEF FilesInv

LEMMA OpeningStep ==
  ASSUME NEW e \in Edit, AloneAt(e), apc[e] = "text" => changeset # NoFile,
         BeginAppend(e) \/ CheckInitialized(e) \/ Exists(e) \/ ReadText(e) \/ Initialize(e)
  PROVE  FilesInv'
<1>1. /\ Size \in Nat /\ MaxLines \in Nat \ {0} /\ Size <= MaxLines
      /\ counted \in [Edit -> Nat] /\ apc \in [Edit -> AppendPlace] /\ initialized \in BOOLEAN
  BY FileFacts DEF AloneAt, CountInv, ChangesetTypeOK
<1>2. apc[e] \notin {"renamed", "count"} /\ initialized => lineCount = Size
  BY DEF AloneAt, CountInv
<1>3. /\ apc[e] \in {"idle", "mkdir", "exists", "text"} => counted[e] = 0
      /\ apc[e] = "init" => counted[e] = Size
  BY DEF AloneAt, CountInv
<1>4. CASE BeginAppend(e)
  BY <1>1, <1>2, <1>3, <1>4, WaitingStep DEF BeginAppend, AppendPlace, writerVars
<1>5. CASE CheckInitialized(e)
  <2>1. apc[e] = "mkdir" /\ UNCHANGED <<files, initialized, lineCount, counted>>
    BY <1>5 DEF CheckInitialized, writerVars
  <2>2. CASE initialized
    <3>1. Goto(e, IF Size < MaxLines THEN "append" ELSE "rm")
      BY <1>2, <1>5, <2>1, <2>2 DEF CheckInitialized, AfterInit
    <3>2. CASE Size < MaxLines
      BY <1>1, <1>2, <2>1, <2>2, <3>1, <3>2, WaitingStep DEF AppendPlace
    <3>3. CASE ~(Size < MaxLines)
      BY <1>1, <1>2, <2>1, <2>2, <3>1, <3>3, WaitingStep DEF AppendPlace
    <3>4. QED
      BY <3>2, <3>3
  <2>3. CASE ~initialized
    <3>1. Goto(e, "exists")
      BY <1>5, <2>3 DEF CheckInitialized
    <3>2. QED
      BY <1>1, <1>3, <2>1, <2>3, <3>1, WaitingStep DEF AppendPlace
  <2>4. QED
    BY <2>2, <2>3
<1>6. CASE Exists(e)
  <2>1. apc[e] = "exists" /\ UNCHANGED <<files, initialized, lineCount, counted>>
    BY <1>6 DEF Exists, writerVars
  <2>2. CASE changeset = NoFile
    <3>1. Goto(e, "init") /\ counted'[e] = Size
      BY <1>3, <1>6, <2>1, <2>2 DEF Exists, Size
    <3>2. QED
      BY <1>1, <1>2, <2>1, <3>1, WaitingStep DEF AppendPlace
  <2>3. CASE changeset # NoFile
    <3>1. Goto(e, "text") /\ counted'[e] = 0
      BY <1>3, <1>6, <2>1, <2>3 DEF Exists
    <3>2. QED
      BY <1>1, <1>2, <2>1, <3>1, WaitingStep DEF AppendPlace
  <2>4. QED
    BY <2>2, <2>3
<1>7. CASE ReadText(e)
  <2>1. apc[e] = "text" /\ changeset # NoFile /\ Goto(e, "init") /\ counted' = [counted EXCEPT ![e] = Size]
    BY <1>7 DEF ReadText, Size
  <2>2. UNCHANGED <<files, initialized, lineCount>>
    BY <1>7 DEF ReadText, writerVars
  <2>3. counted'[e] = Size /\ \A d \in Edit : d # e => counted'[d] = counted[d]
    BY <1>1, <2>1
  <2>4. QED
    BY <1>1, <1>2, <2>1, <2>2, <2>3, WaitingStep DEF AppendPlace
<1>8. CASE Initialize(e)
  <2>1. apc[e] = "init" /\ UNCHANGED <<files, counted>> /\ initialized' = TRUE /\ lineCount' = Size
    BY <1>3, <1>8 DEF Initialize
  <2>2. Goto(e, IF Size < MaxLines THEN "append" ELSE "rm")
    BY <1>3, <1>8 DEF Initialize, AfterInit
  <2>3. CASE Size < MaxLines
    BY <1>1, <2>1, <2>2, <2>3, WaitingStep DEF AppendPlace
  <2>4. CASE ~(Size < MaxLines)
    BY <1>1, <2>1, <2>2, <2>4, WaitingStep DEF AppendPlace
  <2>5. QED
    BY <2>3, <2>4
<1>9. QED
  BY <1>4, <1>5, <1>6, <1>7, <1>8

LEMMA RemoveRotatedStep ==
  ASSUME NEW e \in Edit, AloneAt(e), RemoveRotated(e)
  PROVE  FilesInv'
<1>1. /\ apc[e] = "rm" /\ rotated' = NoFile
      /\ UNCHANGED <<changeset, initialized, lineCount, counted>>
  BY DEF RemoveRotated, writerVars
<1>2. apc'[e] = "rename" /\ \A d \in Edit : d # e => apc'[d] = apc[d]
  BY FileFacts DEF AloneAt, RemoveRotated, Goto
<1>3. Size' = Size /\ Size = MaxLines /\ MaxLines \in Nat \ {0} /\ initialized
  BY <1>1, FileFacts DEF AloneAt, CountInv, Size
<1>4. changeset # NoFile
  BY <1>3 DEF Size
<1>5. CountInv'
  BY <1>1, <1>2, <1>3, <1>4 DEF AloneAt, CountInv
<1>6. \A d \in Edit : (Holds(changeset, d)' <=> Holds(changeset, d)) /\ ~Holds(rotated, d)'
  BY <1>1 DEF Holds
<1>7. RecordInv'
  BY <1>1, <1>2, <1>6 DEF AloneAt, RecordInv
<1>8. ASSUME NEW d \in Edit, apc[d] = "done", Holds(rotated, d)
      PROVE  \E c \in Edit : apc[c] = "done" /\ c >= d + MaxLines
  <2> DEFINE c == changeset[MaxLines]
  <2>1. c \in Edit /\ c >= d + MaxLines
    BY <1>3, <1>8 DEF AloneAt, RecordInv
  <2>2. Holds(changeset, c)
    <3>1. MaxLines \in 1 .. Len(changeset)
      BY <1>3, <1>4 DEF Size
    <3>2. QED
      BY <1>4, <3>1 DEF Holds
  <2>3. apc[c] \in {"count", "done"}
    BY <2>1, <2>2 DEF AloneAt, RecordInv
  <2>4. apc[c] = "done"
    BY <1>1, <2>1, <2>3 DEF AloneAt
  <2>5. QED
    BY <2>1, <2>4
<1>9. \A d \in Edit : apc'[d] = "done" <=> apc[d] = "done"
  BY <1>1, <1>2
<1>10. KeptInv'
  BY <1>6, <1>8, <1>9 DEF AloneAt, KeptInv
<1>11. QED
  BY <1>5, <1>7, <1>10 DEF FilesInv

LEMMA RenameStep ==
  ASSUME NEW e \in Edit, AloneAt(e), Rename(e)
  PROVE  FilesInv'
<1>1. /\ apc[e] = "rename" /\ changeset # NoFile /\ rotated = NoFile /\ initialized
      /\ changeset' = NoFile /\ rotated' = changeset
      /\ UNCHANGED <<initialized, lineCount, counted>>
  BY DEF Rename, AloneAt, CountInv, writerVars
<1>2. apc'[e] = "renamed" /\ \A d \in Edit : d # e => apc'[d] = apc[d]
  BY FileFacts DEF AloneAt, Rename, Goto
<1>3. Size' = 0 /\ MaxLines \in Nat \ {0}
  BY <1>1, FileFacts DEF AloneAt, Size
<1>4. CountInv'
  BY <1>1, <1>2, <1>3 DEF AloneAt, CountInv
<1>5. \A d \in Edit : ~Holds(changeset, d)' /\ (Holds(rotated, d)' <=> Holds(changeset, d)) /\ ~Holds(rotated, d)
  BY <1>1 DEF Holds
<1>6. RecordInv'
  BY <1>1, <1>2, <1>3, <1>5 DEF AloneAt, RecordInv
<1>7. \A d \in Edit : apc'[d] = "done" <=> apc[d] = "done"
  BY <1>1, <1>2
<1>8. KeptInv'
  BY <1>5, <1>7 DEF AloneAt, KeptInv
<1>9. QED
  BY <1>4, <1>6, <1>8 DEF FilesInv

LEMMA RenamedStep ==
  ASSUME NEW e \in Edit, AloneAt(e), Renamed(e)
  PROVE  FilesInv'
<1>1. /\ apc[e] = "renamed" /\ changeset = NoFile /\ initialized /\ lineCount' = 0
      /\ UNCHANGED <<changeset, rotated, initialized, counted>>
  BY DEF Renamed, AloneAt, CountInv, files
<1>2. apc'[e] = "append" /\ \A d \in Edit : d # e => apc'[d] = apc[d]
  BY FileFacts DEF AloneAt, Renamed, Goto
<1>3. Size' = 0 /\ Size = 0 /\ MaxLines \in Nat \ {0}
  BY <1>1, FileFacts DEF AloneAt, Size
<1>4. CountInv'
  BY <1>1, <1>2, <1>3 DEF AloneAt, CountInv
<1>5. \A d \in Edit : (Holds(changeset, d)' <=> Holds(changeset, d)) /\ (Holds(rotated, d)' <=> Holds(rotated, d))
  BY <1>1 DEF Holds
<1>6. RecordInv'
  BY <1>1, <1>2, <1>3, <1>5 DEF AloneAt, RecordInv
<1>7. \A d \in Edit : apc'[d] = "done" <=> apc[d] = "done"
  BY <1>1, <1>2
<1>8. KeptInv'
  BY <1>5, <1>7 DEF AloneAt, KeptInv
<1>9. QED
  BY <1>4, <1>6, <1>8 DEF FilesInv

(* The record that is appended is later than all that there are. *)
LEMMA AppendFileStep ==
  ASSUME NEW e \in Edit, AloneAt(e), AppendFile(e)
  PROVE  FilesInv'
<1> DEFINE base == IF changeset = NoFile THEN << >> ELSE changeset
<1>1. /\ apc[e] = "append" /\ initialized /\ Size < MaxLines /\ changeset' = Append(base, e)
      /\ UNCHANGED <<rotated, initialized, lineCount, counted>>
  BY DEF AppendFile, AloneAt, CountInv, writerVars
<1>2. apc'[e] = "count" /\ \A d \in Edit : d # e => apc'[d] = apc[d]
  BY FileFacts DEF AloneAt, AppendFile, Goto
<1>3. base \in Seq(Record) /\ Len(base) = Size /\ Size \in Nat /\ MaxLines \in Nat \ {0}
  BY FileFacts DEF AloneAt, Size
<1>4. changeset' \in Seq(Record) /\ e \in Record
  BY <1>1, <1>3, DevAssumption DEF Record
<1>5. changeset' # NoFile
  BY <1>4, ChangesetAssumption DEF Record
<1>6. Size' = Size + 1 /\ Len(changeset') = Size + 1
  BY <1>1, <1>3, <1>4, <1>5 DEF Size
<1>7. changeset'[Size + 1] = e /\ \A i \in 1 .. Size : changeset'[i] = base[i]
  BY <1>1, <1>3, <1>4
<1>8. \A d \in Edit : Holds(changeset, d) <=> \E i \in 1 .. Size : base[i] = d
  BY <1>3 DEF Holds, Size
<1> HIDE DEF base
<1>9. \A d \in Edit : Holds(changeset, d)' <=> Holds(changeset, d) \/ d = e
  <2>1. ASSUME NEW d \in Edit PROVE Holds(changeset, d)' <=> \E i \in 1 .. Size + 1 : changeset'[i] = d
    BY <1>5, <1>6 DEF Holds
  <2>2. \A i : i \in 1 .. Size + 1 <=> i \in 1 .. Size \/ i = Size + 1
    BY <1>3
  <2>3. QED
    BY <1>7, <1>8, <2>1, <2>2
<1>10. \A d \in Edit : Holds(rotated, d)' <=> Holds(rotated, d)
  BY <1>1 DEF Holds
<1>11. lineCount = Size
  BY <1>1 DEF AloneAt, CountInv
<1>12. CountInv'
  BY <1>1, <1>2, <1>3, <1>5, <1>6, <1>9, <1>11 DEF AloneAt, CountInv
<1>13. ASSUME NEW d \in Edit, Holds(rotated, d), NEW i \in 1 .. Size + 1
       PROVE  changeset'[i] \in Edit /\ changeset'[i] >= d + i
  <2>1. d < e /\ d \in Nat /\ e \in Nat
    <3>1. apc[d] \in {"count", "done"}
      BY <1>13 DEF AloneAt, RecordInv
    <3>2. d # e /\ d <= e
      BY <1>1, <3>1 DEF AloneAt
    <3>3. QED
      BY <3>2 DEF Edit
  <2>2. \A j \in 1 .. Size : base[j] \in Edit /\ base[j] >= d + j
    BY <1>13 DEF AloneAt, RecordInv, base, Size
  <2>3. CASE i \in 1 .. Size
    BY <1>7, <2>2, <2>3
  <2>4. CASE i = Size + 1 /\ Size = 0
    BY <1>7, <2>1, <2>4
  <2>5. CASE i = Size + 1 /\ Size # 0
    <3>1. Size \in 1 .. Size
      BY <1>3, <2>5
    <3>2. base[Size] \in Edit /\ base[Size] >= d + Size /\ Holds(changeset, base[Size])
      BY <1>8, <2>2, <3>1
    <3>3. apc[base[Size]] \in {"count", "done"}
      BY <3>2 DEF AloneAt, RecordInv
    <3>4. base[Size] # e /\ base[Size] <= e
      BY <1>1, <3>2, <3>3 DEF AloneAt
    <3>5. base[Size] \in Nat
      BY <3>2 DEF Edit
    <3>6. e >= d + (Size + 1)
      BY <1>3, <2>1, <3>2, <3>4, <3>5
    <3>7. QED
      BY <1>7, <2>5, <3>6
  <2>6. QED
    BY <1>3, <2>3, <2>4, <2>5
<1>14. RecordInv'
  <2>1. \A d \in Edit : Holds(changeset, d)' \/ Holds(rotated, d)' => apc'[d] \in {"count", "done"}
    BY <1>2, <1>9, <1>10 DEF AloneAt, RecordInv
  <2>2. QED
    BY <1>6, <1>10, <1>13, <2>1 DEF RecordInv
<1>15. \A d \in Edit : apc'[d] = "done" <=> apc[d] = "done"
  BY <1>1, <1>2
<1>16. KeptInv'
  BY <1>9, <1>10, <1>15 DEF AloneAt, KeptInv
<1>17. QED
  BY <1>12, <1>14, <1>16 DEF FilesInv

LEMMA CountLineStep ==
  ASSUME NEW e \in Edit, AloneAt(e), CountLine(e)
  PROVE  FilesInv'
<1>1. /\ apc[e] = "count" /\ initialized /\ lineCount' = lineCount + 1 /\ lineCount + 1 = Size
      /\ UNCHANGED <<changeset, rotated, initialized, counted>> /\ Holds(changeset, e)
  BY DEF CountLine, AloneAt, CountInv, files
<1>2. apc'[e] = "done" /\ \A d \in Edit : d # e => apc'[d] = apc[d]
  BY FileFacts DEF AloneAt, CountLine, Goto
<1>3. Size' = Size
  BY <1>1 DEF Size
<1>4. CountInv'
  BY <1>1, <1>2, <1>3 DEF AloneAt, CountInv
<1>5. \A d \in Edit : (Holds(changeset, d)' <=> Holds(changeset, d)) /\ (Holds(rotated, d)' <=> Holds(rotated, d))
  BY <1>1 DEF Holds
<1>6. RecordInv'
  BY <1>1, <1>2, <1>3, <1>5 DEF AloneAt, RecordInv
<1>7. KeptInv'
  BY <1>1, <1>2, <1>5 DEF AloneAt, KeptInv
<1>8. QED
  BY <1>4, <1>6, <1>7 DEF FilesInv

LEMMA AppendingStep ==
  ASSUME NEW e \in Edit, AloneAt(e), apc[e] = "text" => changeset # NoFile,
         BeginAppend(e) \/ AppendStep(e) \/ CountLine(e)
  PROVE  FilesInv'
BY OpeningStep, RemoveRotatedStep, RenameStep, RenamedStep, AppendFileStep, CountLineStep DEF AppendStep

-----------------------------------------------------------------------------
(* The handlers and the changeset *)

LEMMA EditChangeset ==
  ASSUME TypeOK, CacheInv, ChangesetInv, NEW f \in File, NEW version \in Version, EditFile(f, version)
  PROVE  ChangesetInv'
<1> DEFINE e == edits + 1
<1>1. e \in Edit /\ UNCHANGED <<changesetVars, overlap, boot>>
  BY DevAssumption DEF EditFile, TypeOK, Edit
<1>2. job[e].pc = "none"
  BY <1>1 DEF CacheInv, OrderInv, TypeOK, Edit
<1>3. \A d \in Edit : d # e => job'[d] = job[d]
  BY DEF EditFile, TypeOK
<1>4. job'[e].pc \in {"none", "queued"}
  <2>1. CASE boot = "watching"
    <3> DEFINE s == [job[e] EXCEPT !.pc = "queued", !.file = f,
                                   !.event = IF version = None THEN "delete" ELSE IF disk[f] = None THEN "rename" ELSE "change"]
    <3>1. job' = [job EXCEPT ![e] = s]
      BY <2>1 DEF EditFile
    <3>2. s.pc = "queued"
      BY <1>1, JobType DEF Job
    <3> HIDE DEF s
    <3>3. QED
      BY <1>1, <3>1, <3>2 DEF TypeOK
  <2>2. CASE boot # "watching"
    BY <1>2, <2>2 DEF EditFile
  <2>3. QED
    BY <2>1, <2>2
<1>5. \A d \in Edit : Active(d)' => Active(d)
  BY <1>3, <1>4 DEF Active
<1>6. \A d \in Edit : job'[d].pc \in {"none", "queued", "exists"} => job[d].pc \in {"none", "queued", "exists"}
  BY <1>2, <1>3
<1>7. QED
  BY <1>1, <1>5, <1>6, ChangesetSame DEF ChangesetInv, SerialInv

LEMMA BootChangeset ==
  ASSUME ChangesetInv, Boot
  PROVE  ChangesetInv'
<1>1. UNCHANGED <<changesetVars, job, overlap>>
  BY DEF Boot, Scan, FirstBuild, Subscribe
<1>2. \A d \in Edit : Active(d)' <=> Active(d)
  BY <1>1 DEF Active
<1>3. QED
  BY <1>1, <1>2, ChangesetSame DEF ChangesetInv, SerialInv

(* Every event before it has been delivered, and none after it. *)
LEMMA DeliverChangeset ==
  ASSUME TypeOK, CacheInv, ManifestInv, ChangesetInv, NEW e \in Edit, boot = "watching", Deliver(e)
  PROVE  ChangesetInv'
<1>1. job' = [job EXCEPT ![e].pc = "exists"] /\ job[e].pc = "queued" /\ UNCHANGED changesetVars
  BY DEF Deliver, GotoJob
<1>2. job'[e].pc = "exists" /\ \A d \in Edit : d # e => job'[d] = job[d]
  BY <1>1, JobType DEF TypeOK, Job
<1>3. ASSUME overlap' = "never"
      PROVE  overlap = "never" /\ \A d \in Edit : ~Active(d)
  BY <1>3 DEF Deliver
<1>4. ASSUME overlap = "never", NEW d \in Edit, apc[d] # "idle" PROVE d <= e
  <2>1. job[d].pc \notin {"none", "queued"}
    BY <1>4 DEF ChangesetInv, SerialInv
  <2>2. ~(e < d)
    BY <1>1, <2>1 DEF CacheInv, OrderInv
  <2>3. QED
    BY <2>2 DEF Edit
<1>5. overlap' = "never" => \A d \in Edit : Active(d)' => d = e
  BY <1>2, <1>3 DEF Active
<1>6. overlap = "never" => \A d \in Edit : job'[d].pc \in {"none", "queued", "exists"} => apc[d] = "idle"
  BY <1>1, <1>2 DEF ChangesetInv, SerialInv
<1>7. QED
  BY <1>1, <1>3, <1>4, <1>5, <1>6, ChangesetSame

(* A handler that runs alone is the only one to append. *)
LEMMA HandlerAlone ==
  ASSUME TypeOK, ManifestInv, ChangesetInv, NEW e \in Edit, Active(e), overlap = "never", boot = "watching"
  PROVE  /\ AloneAt(e)
         /\ apc[e] = "text" => changeset # NoFile
         /\ \A d \in Edit : d # e => ~Active(d)
<1>1. \A d \in Edit : d # e => ~Active(d)
  BY DEF ManifestInv, Alone
<1>2. \A d \in Edit : d # e => ~Appending(d)
  BY <1>1 DEF ManifestInv, AppendInv, Active
<1>3. \A d \in Edit : d # e => apc[d] \in {"idle", "done", "failed"}
  BY <1>2 DEF Appending
<1>4. \A d \in Edit : apc[d] # "idle" => d <= e
  BY DEF ChangesetInv, SerialInv
<1>5. AloneAt(e)
  BY <1>3, <1>4 DEF AloneAt, ChangesetInv, TypeOK
<1>6. apc[e] = "text" => changeset # NoFile
  BY DEF ManifestInv, FreshInv
<1>7. QED
  BY <1>1, <1>5, <1>6

(* A step of the active handler e, which becomes s, and of its append(). *)
LEMMA AppendChangeset ==
  ASSUME TypeOK, ManifestInv, ChangesetInv, NEW e \in Edit, Active(e), boot = "watching", NEW s,
         BeginAppend(e) \/ AppendStep(e) \/ CountLine(e),
         job' = [job EXCEPT ![e] = s], s.pc \notin {"none", "queued", "exists"},
         UNCHANGED overlap
  PROVE  ChangesetInv'
<1> SUFFICES ASSUME overlap = "never" PROVE (CountInv /\ SerialInv /\ RecordInv /\ KeptInv)'
  BY DEF ChangesetInv
<1>1. AloneAt(e) /\ (apc[e] = "text" => changeset # NoFile) /\ \A d \in Edit : d # e => ~Active(d)
  BY HandlerAlone
<1>2. (CountInv /\ RecordInv /\ KeptInv)'
  BY <1>1, AppendingStep DEF FilesInv
<1>3. job'[e] = s /\ \A d \in Edit : d # e => job'[d] = job[d] /\ apc'[d] = apc[d]
  <2>1. e \in Appender /\ apc \in [Edit -> AppendPlace] /\ ChangesetTypeOK /\ Edit = Appender
    BY DevAssumption DEF TypeOK, ChangesetTypeOK
  <2>2. CASE AppendStep(e)
    BY <2>1, <2>2, AppendStepPlace DEF TypeOK
  <2>3. CASE BeginAppend(e) \/ CountLine(e)
    BY <2>1, <2>3 DEF BeginAppend, CountLine, Goto, TypeOK
  <2>4. QED
    BY <2>2, <2>3
<1>4. \A d \in Edit : Active(d)' => d = e
  BY <1>1, <1>3 DEF Active
<1>5. \A d \in Edit : apc'[d] # "idle" => d <= e
  <2>1. e <= e
    BY DEF Edit
  <2>2. QED
    BY <1>1, <1>3, <2>1 DEF AloneAt
<1>6. \A d \in Edit : job'[d].pc \in {"none", "queued", "exists"} => apc'[d] = "idle"
  BY <1>3 DEF ChangesetInv, SerialInv
<1>7. SerialInv'
  BY <1>4, <1>5, <1>6 DEF SerialInv
<1>8. QED
  BY <1>2, <1>7

(* A step that leaves the changeset alone, of a handler that has appended. *)
LEMMA AfterChangeset ==
  ASSUME TypeOK, ChangesetInv, NEW e \in Edit, Active(e), NEW s,
         job' = [job EXCEPT ![e] = s], s.pc \notin {"none", "queued", "exists"},
         UNCHANGED <<changesetVars, overlap>>
  PROVE  ChangesetInv'
<1>1. job'[e] = s /\ \A d \in Edit : d # e => job'[d] = job[d]
  BY DEF TypeOK
<1>2. \A d \in Edit : Active(d)' => Active(d)
  BY <1>1 DEF Active
<1>3. \A d \in Edit : job'[d].pc \in {"none", "queued", "exists"} => job[d].pc \in {"none", "queued", "exists"}
  BY <1>1
<1>4. QED
  BY <1>2, <1>3, ChangesetSame DEF ChangesetInv, SerialInv

LEMMA RebuildJob ==
  ASSUME TypeOK, NEW e \in Edit, NEW cache \in Cache, Rebuild(e, cache)
  PROVE  \E s : job' = [job EXCEPT ![e] = s] /\ s.pc \in {"generate", "done"}
<1> DEFINE done == [Blank EXCEPT !.pc = "done"]
           next == [job[e] EXCEPT !.pc = "generate", !.snapshot = cache]
<1>1. done.pc = "done" /\ next.pc = "generate"
  BY JobType DEF Blank, Job
<1>2. job' = [job EXCEPT ![e] = next] \/ job' = [job EXCEPT ![e] = done]
  BY DEF Rebuild, EndJob
<1> HIDE DEF done, next
<1>3. QED
  BY <1>1, <1>2

LEMMA JobStepChangeset ==
  ASSUME TypeOK, CacheInv, ManifestInv, ChangesetInv, NEW e \in Edit, JobStep(e)
  PROVE  ChangesetInv'
<1> DEFINE done == [Blank EXCEPT !.pc = "done"]
<1>1. job[e] \in Job /\ job[e].file \in File /\ boot = "watching"
  BY JobType DEF JobStep, Job
<1>2. done.pc = "done"
  BY DEF Blank
<1>3. CASE Deliver(e)
  BY <1>1, <1>3, DeliverChangeset
<1>4. CASE CheckExists(e)
  <2> DEFINE s == [job[e] EXCEPT !.pc = "append", !.deleted = isDeleted(e)]
  <2>1. s.pc = "append" /\ job' = [job EXCEPT ![e] = s] /\ Active(e)
    BY <1>1, <1>4 DEF CheckExists, Active, Job
  <2> HIDE DEF s
  <2>2. QED
    BY <1>1, <1>4, <2>1, AppendChangeset DEF CheckExists
<1>5. CASE AppendInHandler(e)
  <2> DEFINE s == IF apc'[e] = "failed" THEN done ELSE job[e]
  <2>1. job' = [job EXCEPT ![e] = s] /\ job[e].pc = "append" /\ Active(e)
    BY <1>5 DEF AppendInHandler, EndJob, Active, TypeOK
  <2> HIDE DEF done
  <2>2. s.pc \in {"append", "done"}
    BY <1>2, <2>1
  <2> HIDE DEF s
  <2>3. QED
    BY <1>1, <1>5, <2>1, <2>2, AppendChangeset DEF AppendInHandler
<1>6. CASE HandleDeletion(e)
  <2> DEFINE cache == [fileCache EXCEPT ![job[e].file] = None]
  <2>1. cache \in Cache
    BY <1>1, VersionFacts DEF TypeOK, Cache
  <2>2. Active(e) /\ Rebuild(e, cache) /\ CountLine(e) /\ UNCHANGED overlap
    BY <1>6 DEF HandleDeletion, Active
  <2> HIDE DEF cache
  <2>3. PICK s : job' = [job EXCEPT ![e] = s] /\ s.pc \in {"generate", "done"}
    BY <2>1, <2>2, RebuildJob
  <2>4. QED
    BY <1>1, <2>2, <2>3, AppendChangeset
<1>7. CASE BeginAnalysis(e)
  <2> DEFINE s == [job[e] EXCEPT !.pc = "read"]
  <2>1. s.pc = "read" /\ job' = [job EXCEPT ![e] = s] /\ Active(e)
    BY <1>1, <1>7 DEF BeginAnalysis, GotoJob, Active, Job
  <2> HIDE DEF s
  <2>2. QED
    BY <1>1, <1>7, <2>1, AppendChangeset DEF BeginAnalysis
<1>8. CASE ReadFile(e)
  <2> DEFINE s == [job[e] EXCEPT !.pc = "analyze", !.text = disk[job[e].file]]
  <2>1. s.pc = "analyze" /\ job' = [job EXCEPT ![e] = s] /\ Active(e)
    BY <1>1, <1>8 DEF ReadFile, Active, Job
  <2> HIDE DEF s
  <2>2. QED
    BY <1>8, <2>1, AfterChangeset DEF ReadFile
<1>9. CASE Analyze(e)
  <2>1. Analyzed(job[e].file, job[e].text) \in Cache
    BY <1>1, AnalyzedType DEF Job
  <2>2. Active(e) /\ UNCHANGED <<changesetVars, overlap>>
    BY <1>9 DEF Analyze, Active
  <2>3. PICK s : job' = [job EXCEPT ![e] = s] /\ s.pc \in {"generate", "done"}
    BY <1>9, <2>1, RebuildJob DEF Analyze
  <2>4. QED
    BY <2>2, <2>3, AfterChangeset
<1>10. CASE Generate(e) \/ WriteManifest(e)
  <2> DEFINE next == [job[e] EXCEPT !.pc = "write"]
  <2>1. next.pc = "write" /\ Active(e) /\ UNCHANGED <<changesetVars, overlap>>
    BY <1>1, <1>10 DEF Generate, WriteManifest, Active, Job
  <2>2. job' = [job EXCEPT ![e] = done] \/ job' = [job EXCEPT ![e] = next]
    BY <1>10 DEF Generate, WriteManifest, EndJob, GotoJob
  <2> HIDE DEF done, next
  <2>3. QED
    BY <1>2, <2>1, <2>2, AfterChangeset
<1>11. QED
  BY <1>3, <1>4, <1>5, <1>6, <1>7, <1>8, <1>9, <1>10 DEF JobStep

LEMMA ChangesetStep == TypeOK /\ CacheInv /\ ManifestInv /\ ChangesetInv /\ [Next]_vars => ChangesetInv'
<1> SUFFICES ASSUME TypeOK, CacheInv, ManifestInv, ChangesetInv, [Next]_vars PROVE ChangesetInv'
  OBVIOUS
<1>1. CASE UNCHANGED vars
  <2>1. UNCHANGED <<changesetVars, job, overlap>>
    BY <1>1 DEF vars, devVars
  <2>2. \A d \in Edit : Active(d)' <=> Active(d)
    BY <2>1 DEF Active
  <2>3. QED
    BY <2>1, <2>2, ChangesetSame DEF ChangesetInv, SerialInv
<1>2. CASE Next
  BY <1>2, EditChangeset, BootChangeset, JobStepChangeset DEF Next
<1>3. QED
  BY <1>1, <1>2

(* As long as handlers do not overlap, the changeset never holds more than  *)
(* MaxLines records, and the two generations hold at least the last         *)
(* MaxLines of the records that were appended.                              *)
THEOREM ChangesetCorrect == Spec => []ChangesetKeepsRecent
<1>1. Spec => [](TypeOK /\ CacheInv /\ ManifestInv /\ ChangesetInv)
  BY InitType, CacheInit, ManifestInit, ChangesetStart,
     NextType, CacheStep, ManifestStep, ChangesetStep, PTL DEF Spec
<1>2. QED
  BY <1>1, ChangesetImplies, PTL
=============================================================================
