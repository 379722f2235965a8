----------------------------- MODULE DevWatcher -----------------------------
(***************************************************************************)
(* `bunner dev` as the owner of the watch (packages/cli/src/bin/           *)
(* dev.command.ts): the scan of the sources and the first build, then an   *)
(* asynchronous handler for every file event, which records the event in   *)
(* the changeset, refreshes the analysis of the file in fileCache and      *)
(* rebuilds manifest.json from the whole of fileCache.                     *)
(*                                                                         *)
(* The callback does not wait for the handler it starts, so handlers       *)
(* overlap wherever one awaits.  An answer of the file system is fixed     *)
(* when it reads the file, and used when the handler goes on.              *)
(*                                                                         *)
(* The content of a file is the number of the edit that made it.           *)
(***************************************************************************)
EXTENDS ChangesetWriter, FiniteSets

CONSTANTS
  File,        \* the source files
  Initial,     \* the files that are there at first
  MaxEdits,    \* bound: how many edits there are
  MaxActive,   \* bound: how many handlers are active at a time
  Unparsable,  \* the edits that leave a file which does not parse
  Clashing,    \* the edits that leave one which breaks the module graph
  NoManifest   \* manifest.json is not there

(* Every edit makes one event of the watcher, and that one handler. *)
Edit == 1 .. MaxEdits

ASSUME DevAssumption ==
  /\ MaxEdits \in Nat \ {0} /\ MaxActive \in Nat \ {0}
  /\ Appender = Edit
  /\ File # {} /\ Initial \subseteq File
  /\ Unparsable \subseteq Edit /\ Clashing \subseteq Edit
  /\ NoManifest \notin [File -> 0 .. MaxEdits + 1]

(* Version 0 is no file, or no analysis; MaxEdits + 1 is what was there     *)
(* before the first edit.                                                   *)
None == 0

Original == MaxEdits + 1

Version == 0 .. MaxEdits + 1

VARIABLES
  disk,       \* the content of each file
  edits,      \* how many edits there have been
  boot,       \* where dev() is
  scanned,    \* the files that the first scan is through with, or never saw
  fileCache,  \* the version of which each file's analysis is
  manifest,   \* the fileCache that manifest.json was generated from
  job,        \* the handler of each event
  overlap,    \* history: have handlers run side by side?
  spoiled     \* history: the files whose analysis nothing vouches for

devVars == <<disk, edits, boot, scanned, fileCache, manifest, job, overlap, spoiled>>
vars == <<changesetVars, devVars>>

(* "queued": the watcher has not delivered the event. *)
JobPlace == {"none", "queued", "exists", "append", "read", "analyze", "generate", "write", "done"}

Snapshot == [File -> Version]

Job ==
  [pc : JobPlace,
   file : File,
   event : {"change", "rename", "delete"},
   deleted : BOOLEAN,      \* isDeleted
   text : Version,         \* fileContent
   snapshot : Snapshot]    \* fileMap

Parsable(version) == version # None /\ version \notin Unparsable

TypeOK ==
  /\ ChangesetTypeOK
  /\ disk \in [File -> Version]
  /\ edits \in 0 .. MaxEdits
  /\ boot \in {"scan", "subscribe", "watching", "exited"}
  /\ scanned \subseteq File
  /\ fileCache \in [File -> {v \in Version : v = None \/ Parsable(v)}]
  /\ manifest \in Snapshot \cup {NoManifest}
  /\ job \in [Edit -> Job]
  /\ overlap \in {"never", "before", "now"}
  /\ spoiled \subseteq File

Empty == [f \in File |-> None]

(* A handler that does not run; the locals of one that is done are gone. *)
Blank ==
  [pc |-> "none", file |-> CHOOSE f \in File : TRUE, event |-> "change",
   deleted |-> FALSE, text |-> None, snapshot |-> Empty]

(* The glob of the first scan lists the files that are there. *)
Init ==
  /\ ChangesetInit
  /\ disk = [f \in File |-> IF f \in Initial THEN Original ELSE None]
  /\ edits = 0
  /\ boot = "scan"
  /\ scanned = File \ Initial
  /\ fileCache = Empty
  /\ manifest = NoManifest
  /\ job = [e \in Edit |-> Blank]
  /\ overlap = "never"
  /\ spoiled = {}

Active(e) == job[e].pc \notin {"none", "queued", "done"}

(* ModuleGraph.build() and adapterSpecResolver.resolve() throw on analyses  *)
(* that do not fit together.                                                *)
Builds(snapshot) == \A f \in File : snapshot[f] \notin Clashing

-----------------------------------------------------------------------------
(* The user edits, creates or deletes a file.  The watcher notices once it  *)
(* is subscribed.                                                           *)
EditFile(f, version) ==
  LET e == edits + 1 IN
  /\ edits < MaxEdits
  /\ boot # "exited"
  /\ version \in {e, None}
  /\ version # disk[f]
  /\ edits' = e
  /\ disk' = [disk EXCEPT ![f] = version]
  /\ IF boot = "watching"
     THEN /\ job' = [job EXCEPT ![e].pc = "queued",
                                ![e].file = f,
                                ![e].event = IF version = None THEN "delete"
                                             ELSE IF disk[f] = None THEN "rename"
                                             ELSE "change"]
          /\ UNCHANGED spoiled
     ELSE /\ spoiled' = IF f \in scanned THEN spoiled \cup {f} ELSE spoiled
          /\ UNCHANGED job
  /\ UNCHANGED <<changesetVars, boot, scanned, fileCache, manifest, overlap>>

-----------------------------------------------------------------------------
(* dev(), up to the subscription *)

(* analyzeFile(): a file that cannot be read or parsed keeps its analysis. *)
Analyzed(f, version) ==
  IF Parsable(version) THEN [fileCache EXCEPT ![f] = version] ELSE fileCache

Scan(f) ==
  /\ boot = "scan"
  /\ f \notin scanned
  /\ scanned' = scanned \cup {f}
  /\ fileCache' = Analyzed(f, disk[f])
  /\ UNCHANGED <<changesetVars, disk, edits, boot, manifest, job, overlap, spoiled>>

(* The first rebuild(): an error ends the process. *)
FirstBuild ==
  /\ boot = "scan"
  /\ scanned = File
  /\ IF Builds(fileCache)
     THEN boot' = "subscribe" /\ manifest' = fileCache
     ELSE boot' = "exited" /\ UNCHANGED manifest
  /\ UNCHANGED <<changesetVars, disk, edits, scanned, fileCache, job, overlap, spoiled>>

Subscribe ==
  /\ boot = "subscribe"
  /\ boot' = "watching"
  /\ UNCHANGED <<changesetVars, disk, edits, scanned, fileCache, manifest, job, overlap, spoiled>>

-----------------------------------------------------------------------------
(* The handler of an event *)

GotoJob(e, place) == job' = [job EXCEPT ![e].pc = place]

EndJob(e) == job' = [job EXCEPT ![e] = [Blank EXCEPT !.pc = "done"]]

(* Events are delivered in order; whoever is active then overlaps. *)
Deliver(e) ==
  LET others == {d \in Edit : Active(d)} IN
  /\ job[e].pc = "queued"
  /\ Cardinality(others) < MaxActive
  /\ \A d \in 1 .. e - 1 : job[d].pc # "queued"
  /\ GotoJob(e, "exists")
  /\ overlap' = IF others # {} THEN "now" ELSE IF overlap = "never" THEN "never" ELSE "before"
  /\ spoiled' = IF \E d \in others : job[d].file = job[e].file
                THEN spoiled \cup {job[e].file} ELSE spoiled
  /\ UNCHANGED <<changesetVars, disk, edits, boot, scanned, fileCache, manifest>>

FaultyIsDeleted(e) == job[e].event = "rename" /\ disk[job[e].file] = None

isDeleted(e) ==
  \/ job[e].event = "delete"
  \/ job[e].event = "rename" /\ disk[job[e].file] = None

CheckExists(e) ==
  /\ job[e].pc = "exists"
  /\ job' = [job EXCEPT ![e].pc = "append", ![e].deleted = isDeleted(e)]
  /\ BeginAppend(e)
  /\ UNCHANGED <<disk, edits, boot, scanned, fileCache, manifest, overlap, spoiled>>

(* The handler rejects with append(), and nobody handles the event: the     *)
(* runtime reports the rejection, and may end the process.                  *)
AppendInHandler(e) ==
  /\ job[e].pc = "append"
  /\ AppendStep(e)
  /\ IF apc'[e] = "failed"
     THEN EndJob(e) /\ spoiled' = spoiled \cup {job[e].file} /\ boot' \in {boot, "exited"}
     ELSE UNCHANGED <<job, spoiled, boot>>
  /\ UNCHANGED <<disk, edits, scanned, fileCache, manifest, overlap>>

FaultyRebuild(e, cache) ==
  /\ fileCache' = cache
  /\ IF Builds(fileCache)
     THEN job' = [job EXCEPT ![e].pc = "generate", ![e].snapshot = fileCache]
     ELSE EndJob(e)

(* rebuild() as far as its first await, on what fileCache is then. *)
Rebuild(e, cache) ==
  /\ fileCache' = cache
  /\ IF Builds(cache)
     THEN job' = [job EXCEPT ![e].pc = "generate", ![e].snapshot = cache]
     ELSE EndJob(e)

HandleDeletion(e) ==
  /\ job[e].pc = "append" /\ job[e].deleted
  /\ CountLine(e)
  /\ Rebuild(e, [fileCache EXCEPT ![job[e].file] = None])
  /\ UNCHANGED <<disk, edits, boot, scanned, manifest, overlap, spoiled>>

BeginAnalysis(e) ==
  /\ job[e].pc = "append" /\ ~job[e].deleted
  /\ CountLine(e)
  /\ GotoJob(e, "read")
  /\ UNCHANGED <<disk, edits, boot, scanned, fileCache, manifest, overlap, spoiled>>

ReadFile(e) ==
  /\ job[e].pc = "read"
  /\ job' = [job EXCEPT ![e].pc = "analyze", ![e].text = disk[job[e].file]]
  /\ UNCHANGED <<changesetVars, disk, edits, boot, scanned, fileCache, manifest, overlap, spoiled>>

Analyze(e) ==
  /\ job[e].pc = "analyze"
  /\ Rebuild(e, Analyzed(job[e].file, job[e].text))
  /\ UNCHANGED <<changesetVars, disk, edits, boot, scanned, manifest, overlap, spoiled>>

FaultyGenerate(e) ==
  /\ job[e].pc = "generate"
  /\ manifest # job[e].snapshot
  /\ GotoJob(e, "write")
  /\ UNCHANGED <<changesetVars, disk, edits, boot, scanned, fileCache, manifest, overlap, spoiled>>

(* The manifest is generated, and compared by writeIfChanged(). *)
Generate(e) ==
  /\ job[e].pc = "generate"
  /\ IF manifest = job[e].snapshot THEN EndJob(e) ELSE GotoJob(e, "write")
  /\ UNCHANGED <<changesetVars, disk, edits, boot, scanned, fileCache, manifest, overlap, spoiled>>

WriteManifest(e) ==
  /\ job[e].pc = "write"
  /\ manifest' = job[e].snapshot
  /\ EndJob(e)
  /\ UNCHANGED <<changesetVars, disk, edits, boot, scanned, fileCache, overlap, spoiled>>

JobStep(e) ==
  /\ boot = "watching"
  /\ \/ Deliver(e)
     \/ CheckExists(e)
     \/ AppendInHandler(e)
     \/ HandleDeletion(e)
     \/ BeginAnalysis(e)
     \/ ReadFile(e)
     \/ Analyze(e)
     \/ Generate(e)
     \/ WriteManifest(e)

Boot == (\E f \in File : Scan(f)) \/ FirstBuild \/ Subscribe

Next ==
  \/ \E f \in File, version \in Version : EditFile(f, version)
  \/ Boot
  \/ \E e \in Edit : JobStep(e)

(* Every await is answered, and every event delivered. *)
Spec == Init /\ [][Next]_vars /\ WF_vars(Boot) /\ \A e \in Edit : WF_vars(JobStep(e))

-----------------------------------------------------------------------------
(* Properties *)

(* No handler is active, and the watcher has nothing to tell. *)
Quiet ==
  /\ boot = "watching"
  /\ \A e \in Edit : job[e].pc \in {"none", "done"}

(* When all is quiet, a file's analysis is of what the file holds, or of    *)
(* its last version that parsed: unless two handlers of that file ran side  *)
(* by side, append() failed, or the file was edited between its scan and    *)
(* the subscription.  Handlers of other files do no harm.                   *)
CacheFollowsDisk ==
  Quiet =>
    \A f \in File \ spoiled :
      disk[f] \notin Unparsable => fileCache[f] = disk[f]

(* When all is quiet, the manifest was generated from the analyses that     *)
(* there are, if the last handler ran alone: whatever handlers that         *)
(* overlapped have done before it, one more event repairs it.               *)
ManifestFollowsCache ==
  Quiet /\ overlap # "now" /\ Builds(fileCache) => manifest = fileCache

(* As long as handlers do not overlap, the changeset never holds more than  *)
(* MaxLines records, and the two generations hold at least the last         *)
(* MaxLines of the records that were appended.                              *)
HandledSince(e) == {d \in Edit : d > e /\ apc[d] = "done"}

Holds(file, record) == file # NoFile /\ \E i \in 1 .. Len(file) : file[i] = record

ChangesetKeepsRecent ==
  overlap = "never" =>
    /\ changeset # NoFile => Len(changeset) <= MaxLines
    /\ \A e \in Edit :
         apc[e] = "done" /\ (\A d \in HandledSince(e) : d < e + MaxLines) =>
           Holds(changeset, e) \/ Holds(rotated, e)

(* Once the user stops, the watcher comes to rest, and the manifest is what *)
(* a build of the sources as they are would give: if the last handler ran   *)
(* alone, nothing is spoiled, and the sources parse and fit together.       *)
ManifestCatchesUp ==
  <>[](\/ boot = "exited"
       \/ /\ Quiet
          /\ overlap # "now" /\ spoiled = {}
               /\ (\A f \in File : disk[f] \notin Unparsable \cup Clashing)
             => manifest = disk)
=============================================================================
