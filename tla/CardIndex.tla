------------------------------ MODULE CardIndex ------------------------------
(***************************************************************************)
(* The SQLite index of an MCP server and what keeps it up to date:         *)
(* indexProject() in its two modes (packages/cli/src/mcp/index/            *)
(* index-project.ts), run at the start of the owner, from the queue of its *)
(* watcher (packages/cli/src/mcp/server/mcp-server.ts) or by `bunner mcp   *)
(* rebuild`.  Files are edited at any time between the steps of a reindex, *)
(* which may fail, or die with its process, at any step.                   *)
(*                                                                         *)
(* A card's file is named for its key.  The content of a card is the set   *)
(* of the cards it has a relation to, that of a source file the set of the *)
(* cards it names in @see.                                                 *)
(***************************************************************************)
EXTENDS Naturals, Sequences

CONSTANTS
  Card,      \* the keys of cards, which are their files as well
  Code,      \* the source files: every *.ts below the source directory
  Declarations, \* those that end in .d.ts
  Naming,    \* the sets of cards that a file may name
  Absent,    \* the file, or the row, is not there
  Broken,    \* a card that does not parse, or has an unregistered keyword
  Together,  \* bound: the sets of files of which one holds all that are there
  MaxEdits,  \* bound: how many edits and signals there are
  MaxFaults  \* bound: how many crashes and failures that nothing in the files explains

File == Card \cup Code

ASSUME IndexAssumption ==
  /\ Card \cap Code = {}
  /\ Declarations \subseteq Code
  /\ Naming \subseteq SUBSET Card
  /\ \A content \in Naming : content # Absent /\ content # Broken
  /\ Absent # Broken
  /\ Absent \notin File
  /\ MaxEdits \in Nat /\ MaxFaults \in Nat

VARIABLES
  disk,       \* the content of each file
  edits,      \* how many edits and signals there have been
  faults,     \* how many crashes and failures
  server,     \* the process that writes the index
  built,      \* index.sqlite exists
  queue,      \* the modes of the reindexes that wait in the queue
  mode,       \* that of the reindex that runs
  removed,    \* locals of indexProject(): the files to remove from the index
  changed,    \* the files still to be indexed
  reading,    \* the file whose transaction is under way
  text,       \* what was read of it
  touched,    \* has it been edited since its stat()?
  rebuilt,    \* changedCards, those whose relations are still to be written
  cards,      \* the table card: the content that the row of each card is of
  relations,  \* the table card_relation: <<src, dst, is_reverse>>
  links,      \* the table card_code_link: <<card, source file>>
  tracked,    \* the table file_state, against what stat() would say now
  halfDone,   \* history: cards whose relations were not written with their row
  older,      \* history: <<f, c>> where f was indexed when c was not, or c went away since
  saved,      \* the tables as they were when the full reindex began, Cleared without one
  missed,     \* history: the files that changed since the last scan with no event to tell of it
  failed      \* history: has the last reindex failed?

tables == <<cards, relations, links, tracked, halfDone, older>>
indexing == <<removed, changed, reading, text, touched, rebuilt>>
vars == <<disk, edits, faults, server, built, queue, mode, indexing, tables, saved, missed, failed>>

Mode == {"incremental", "full"}

Tables ==
  [cards : [Card -> {Absent} \cup Naming],
   relations : SUBSET (Card \X Card \X BOOLEAN),
   links : SUBSET (Card \X Code),
   tracked : [File -> {"none", "stale", "fresh"}],
   halfDone : SUBSET Card,
   older : SUBSET (File \X Card)]

CurrentTables ==
  [cards |-> cards, relations |-> relations, links |-> links, tracked |-> tracked,
   halfDone |-> halfDone, older |-> older]

Content == {Absent, Broken} \cup Naming

(* A source file is parsed as far as it goes. *)
(* A bound of the model, not of the code: see Together. *)
Fits(files) == \E side \in Together : {f \in File : files[f] # Absent} \subseteq side

Disks == {d \in [File -> Content] : \A f \in Code : d[f] # Broken}

TypeOK ==
  /\ disk \in Disks
  /\ edits \in 0 .. MaxEdits /\ faults \in 0 .. MaxFaults
  /\ server \in {"down", "rebuilding", "starting", "watching"}
  /\ built \in BOOLEAN
  /\ queue \in Seq(Mode)
  /\ mode \in Mode \cup {"idle"}
  /\ removed \subseteq File /\ changed \subseteq File
  /\ reading \in File \cup {Absent} /\ text \in Content /\ touched \in BOOLEAN
  /\ rebuilt \subseteq Card
  /\ \A c \in rebuilt : cards[c] # Absent
  /\ CurrentTables \in Tables /\ saved \in Tables
  /\ missed \subseteq File /\ failed \in BOOLEAN

Cleared ==
  [cards |-> [c \in Card |-> Absent], relations |-> {}, links |-> {},
   tracked |-> [f \in File |-> "none"], halfDone |-> {}, older |-> {}]

SetTables(t) ==
  /\ cards' = t.cards /\ relations' = t.relations /\ links' = t.links
  /\ tracked' = t.tracked /\ halfDone' = t.halfDone /\ older' = t.older

NotIndexing ==
  /\ removed = {} /\ changed = {} /\ rebuilt = {}
  /\ reading = Absent /\ text = Absent /\ touched = FALSE

(* A project without an index. *)
Init ==
  /\ disk \in Disks /\ Fits(disk)
  /\ edits = 0 /\ faults = 0
  /\ server = "down" /\ built = FALSE
  /\ queue = << >> /\ mode = "idle"
  /\ NotIndexing
  /\ cards = Cleared.cards /\ relations = {} /\ links = {}
  /\ tracked = Cleared.tracked /\ halfDone = {} /\ older = {}
  /\ saved = Cleared
  /\ missed = File /\ failed = FALSE

-----------------------------------------------------------------------------
(* Definitions named Faulty... are not part of the model: each is a slip     *)
(* that a property would catch in the definition after it.                  *)

(* stat() and the hash differ from then on. *)
Outdated(state, f) == [state EXCEPT ![f] = IF @ = "none" THEN "none" ELSE "stale"]

(* The user, a tool or another program writes or deletes a file.  Once it   *)
(* is subscribed, the watcher puts a reindex into the queue; but it drops   *)
(* the events of .d.ts files, which every scan finds and indexes.           *)
EditFile(f, content) ==
  /\ edits < MaxEdits
  /\ content # disk[f]
  /\ f \in Code => content # Broken
  /\ edits' = edits + 1
  /\ disk' = [disk EXCEPT ![f] = content] /\ Fits(disk')
  /\ tracked' = Outdated(tracked, f)
  /\ saved' = [saved EXCEPT !.tracked = Outdated(@, f)]
  /\ touched' = (touched \/ reading = f)
  /\ IF server = "watching" /\ f \notin Declarations
     THEN queue' = Append(queue, "incremental") /\ UNCHANGED missed
     ELSE missed' = missed \cup {f} /\ UNCHANGED queue
  /\ UNCHANGED <<faults, server, built, mode, removed, changed, reading, text, rebuilt,
                 cards, relations, links, halfDone, older, failed>>

(* reindex.signal, or a change of the configuration. *)
Signal ==
  /\ edits < MaxEdits
  /\ server = "watching"
  /\ edits' = edits + 1
  /\ queue' = Append(queue, "full")
  /\ UNCHANGED <<disk, faults, server, built, mode, indexing, tables, saved, missed, failed>>

-----------------------------------------------------------------------------
(* indexProject() *)

FaultyGone == {f \in Card : tracked[f] # "none" /\ disk[f] = Absent}

Gone == {f \in File : tracked[f] # "none" /\ disk[f] = Absent}

(* What a scan takes for changed: in an incremental reindex a file that     *)
(* file_state does not know, or knows with another hash or mtime.           *)
Changed(m) == {f \in File : disk[f] # Absent /\ (m = "full" \/ tracked[f] # "fresh")}

(* The scan.  A full reindex goes on with BEGIN and clears the tables. *)
Begin(m) ==
  /\ mode = "idle"
  /\ mode' = m
  /\ changed' = Changed(m)
  /\ removed' = IF m = "full" THEN {} ELSE Gone
  /\ reading' = Absent /\ text' = Absent /\ touched' = FALSE /\ rebuilt' = {}
  /\ IF m = "full"
     THEN saved' = CurrentTables /\ SetTables(Cleared)
     ELSE UNCHANGED <<saved, tables>>
  /\ missed' = {} /\ failed' = FALSE

FaultyForgotten(c) == {r \in relations : r[1] = c}

(* deleteRemovedFile(): what goes with a card. *)
Forgotten(c) == {r \in relations : r[1] = c \/ r[2] = c}

RemoveCard(c) ==
  /\ c \in removed \cap Card
  /\ removed' = removed \ {c}
  /\ cards' = [cards EXCEPT ![c] = Absent]
  /\ relations' = relations \ Forgotten(c)
  /\ links' = {l \in links : l[1] # c}
  /\ tracked' = [tracked EXCEPT ![c] = "none"]
  /\ halfDone' = halfDone \ {c}
  /\ older' = (older \ ({c} \X Card)) \cup ({f \in File \ {c} : tracked[f] # "none"} \X {c})
  /\ UNCHANGED <<disk, edits, faults, server, built, queue, mode, changed, reading, text, touched,
                 rebuilt, saved, missed, failed>>

(* Cards come before source files, with their relations in between. *)
Ready(f) ==
  /\ f \in changed
  /\ removed \cap Card = {}
  /\ f \in Code => changed \cap Card = {} /\ rebuilt = {}

StatFile(f) ==
  /\ Ready(f) /\ reading = Absent
  /\ disk[f] # Absent
  /\ reading' = f /\ text' = Absent /\ touched' = FALSE
  /\ UNCHANGED <<disk, edits, faults, server, built, queue, mode, removed, changed, rebuilt, tables,
                 saved, missed, failed>>

ReadFile ==
  /\ reading # Absent /\ text = Absent
  /\ disk[reading] # Absent
  /\ text' = disk[reading]
  /\ UNCHANGED <<disk, edits, faults, server, built, queue, mode, removed, changed, reading,
                 touched, rebuilt, tables, saved, missed, failed>>

FaultyState == "fresh"

(* upsertFileStateRow() writes what stat() said before the file was read. *)
State == IF touched THEN "stale" ELSE "fresh"

Indexed(f) ==
  /\ reading = f
  /\ reading' = Absent /\ text' = Absent /\ touched' = FALSE
  /\ changed' = changed \ {f}
  /\ tracked' = [tracked EXCEPT ![f] = State]

Readable == text \notin {Absent, Broken}

(* upsertCardRow(), whose rejection rolls the transaction back. *)
WriteCard(c) ==
  /\ c \in Card /\ Readable
  /\ Indexed(c)
  /\ cards' = [cards EXCEPT ![c] = text]
  /\ rebuilt' = rebuilt \cup {c}
  /\ UNCHANGED <<disk, edits, faults, server, built, queue, mode, removed, relations, links,
                 halfDone, older, saved, missed, failed>>

(* existingCardKeys *)
Existing == {c \in Card : cards[c] # Absent}

(* The relations of a card, each with its reverse. *)
Edges(c) ==
  LET targets == cards[c] \cap Existing IN
  {<<c, t, FALSE>> : t \in targets} \cup {<<t, c, TRUE>> : t \in targets}

FaultyOutgoing(c) == {}

Outgoing(c) == {r \in relations : (r[1] = c /\ ~r[3]) \/ (r[2] = c /\ r[3])}

WriteRelations(c) ==
  /\ c \in rebuilt /\ changed \cap Card = {}
  /\ rebuilt' = rebuilt \ {c}
  /\ relations' = (relations \ Outgoing(c)) \cup Edges(c)
  /\ halfDone' = halfDone \ {c}
  /\ older' = (older \ ({c} \X Card)) \cup ({c} \X (Card \ Existing))
  /\ UNCHANGED <<disk, edits, faults, server, built, queue, mode, removed, changed, reading, text,
                 touched, cards, links, tracked, saved, missed, failed>>

WriteCode(f) ==
  /\ f \in Code /\ Readable
  /\ Indexed(f)
  /\ links' = {l \in links : l[2] # f} \cup ((text \cap Existing) \X {f})
  /\ older' = (older \ ({f} \X Card)) \cup ({f} \X (Card \ Existing))
  /\ UNCHANGED <<disk, edits, faults, server, built, queue, mode, removed, rebuilt, cards, relations,
                 halfDone, saved, missed, failed>>

RemoveCode(f) ==
  /\ f \in removed \cap Code
  /\ removed \cap Card = {} /\ changed = {} /\ rebuilt = {}
  /\ removed' = removed \ {f}
  /\ links' = {l \in links : l[2] # f}
  /\ tracked' = [tracked EXCEPT ![f] = "none"]
  /\ UNCHANGED <<disk, edits, faults, server, built, queue, mode, changed, reading, text, touched,
                 rebuilt, cards, relations, halfDone, older, saved, missed, failed>>

AfterRun == CASE server = "starting" -> "watching" [] server = "rebuilding" -> "down" [] OTHER -> server

Finish ==
  /\ mode # "idle" /\ removed = {} /\ changed = {} /\ rebuilt = {}
  /\ mode' = "idle" /\ saved' = Cleared
  /\ server' = AfterRun
  /\ UNCHANGED <<disk, edits, faults, built, queue, indexing, tables, missed, failed>>

(* The end of a reindex that does not reach its own: a full one is rolled   *)
(* back, of an incremental one only the transaction under way.              *)
Abort ==
  /\ mode' = "idle" /\ saved' = Cleared
  /\ removed' = {} /\ changed' = {} /\ rebuilt' = {}
  /\ reading' = Absent /\ text' = Absent /\ touched' = FALSE
  /\ IF mode = "full"
     THEN SetTables(saved)
     ELSE /\ halfDone' = halfDone \cup rebuilt
          /\ UNCHANGED <<cards, relations, links, tracked, older>>
  /\ UNCHANGED <<disk, edits, built>>

(* The queue catches the rejection and goes on; anywhere else it ends the   *)
(* process.                                                                 *)
Rejected ==
  /\ mode # "idle"
  /\ Abort
  /\ failed' = TRUE
  /\ server' = IF server = "watching" THEN server ELSE "down"
  /\ UNCHANGED <<queue, missed>>

Unreadable == \/ reading = Absent /\ \E f \in changed : Ready(f) /\ disk[f] = Absent
              \/ reading # Absent /\ text = Absent /\ disk[reading] = Absent
              \/ text = Broken

FaultyReject == Unreadable /\ Rejected /\ server # "watching" /\ UNCHANGED faults

(* A file is gone, or broken. *)
Reject == Unreadable /\ Rejected /\ UNCHANGED faults

(* The database is busy, or gives another error. *)
Fail ==
  /\ faults < MaxFaults
  /\ faults' = faults + 1
  /\ Rejected

-----------------------------------------------------------------------------
(* The processes *)

(* An index that exists is taken as it is. *)
Start ==
  /\ server = "down"
  /\ IF built
     THEN server' = "watching" /\ UNCHANGED <<mode, indexing, tables, saved, missed, failed>>
     ELSE server' = "starting" /\ Begin("full")
  /\ built' = TRUE
  /\ UNCHANGED <<disk, edits, faults, queue>>

RebuildProjectIndex(m) ==
  /\ server = "down"
  /\ server' = "rebuilding" /\ built' = TRUE
  /\ Begin(m)
  /\ UNCHANGED <<disk, edits, faults, queue>>

TakeFromQueue ==
  /\ server = "watching" /\ queue # << >>
  /\ Begin(Head(queue))
  /\ queue' = Tail(queue)
  /\ UNCHANGED <<disk, edits, faults, server, built>>

Crash ==
  /\ server # "down"
  /\ faults < MaxFaults
  /\ faults' = faults + 1
  /\ server' = "down"
  /\ Abort
  /\ queue' = << >>
  /\ missed' = IF queue # << >> \/ mode # "idle" THEN File ELSE missed
  /\ UNCHANGED failed

IndexStep ==
  \/ \E c \in Card : RemoveCard(c) \/ WriteCard(c) \/ WriteRelations(c)
  \/ \E f \in File : StatFile(f)
  \/ ReadFile
  \/ \E f \in Code : WriteCode(f) \/ RemoveCode(f)
  \/ Finish
  \/ Reject

Next ==
  \/ \E f \in File, content \in Content : EditFile(f, content)
  \/ Signal
  \/ Start
  \/ \E m \in Mode : RebuildProjectIndex(m)
  \/ TakeFromQueue
  \/ IndexStep
  \/ Fail
  \/ Crash

(* A reindex that has begun goes on, and the queue is worked off. *)
Spec == Init /\ [][Next]_vars /\ WF_vars(TakeFromQueue) /\ WF_vars(IndexStep)

-----------------------------------------------------------------------------
(* Properties *)

(* At every step of a reindex, of either mode: relations come in pairs, an  *)
(* edge and its reverse, between cards that have rows.                      *)
RelationsPaired ==
  \A r \in relations :
    /\ <<r[2], r[1], ~r[3]>> \in relations
    /\ {r[1], r[2]} \subseteq Existing

(* What file_state takes for up to date has been indexed as it is, however  *)
(* the file was edited while it was read; also in the tables to which a     *)
(* full reindex would be rolled back.                                       *)
FreshIsIndexed ==
  \A c \in Card :
    /\ tracked[c] = "fresh" => cards[c] = disk[c]
    /\ mode = "full" /\ saved.tracked[c] = "fresh" => saved.cards[c] = disk[c]

(* The watcher is at rest, and nothing has gone wrong since it last began. *)
UpToDate ==
  /\ server = "watching" /\ mode = "idle" /\ queue = << >>
  /\ ~failed

(* Then there is a row for every file, and none without, of those whose     *)
(* last change the watcher heard of: not of a .d.ts file that was created   *)
(* or deleted since, nor of what changed while no server was watching.      *)
RowsFollowFiles ==
  UpToDate =>
    /\ \A c \in Card \ missed : cards[c] = disk[c]
    /\ \A f \in File \ missed : tracked[f] # "none" <=> disk[f] # Absent

(* And the relations and links are exactly those of the rows and of these   *)
(* source files, except to cards that were created or came back after the   *)
(* file was indexed, and of cards whose reindex broke off between their row *)
(* and their relations.                                                     *)
EdgesFollowRows ==
  UpToDate =>
    /\ \A s \in Card \ halfDone, t \in Card :
         <<s, t, FALSE>> \in relations <=>
           s \in Existing /\ t \in cards[s] \cap Existing /\ <<s, t>> \notin older
    /\ \A f \in Code \ missed, t \in Card :
         <<t, f>> \in links <=>
           disk[f] # Absent /\ t \in disk[f] \cap Existing /\ <<f, t>> \notin older

(* Whatever fails, a server that stays up works off its queue. *)
QueueDrains == []<>(server # "watching" \/ (mode = "idle" /\ queue = << >>))

(* Stated by PLAN.md for an incremental reindex: each file is updated all   *)
(* or not at all.  Between reindexes, a card that file_state takes for up   *)
(* to date would have no relation that its file has not.                    *)
FileUpdateIsAtomic ==
  mode = "idle" =>
    \A s, t \in Card :
      tracked[s] = "fresh" /\ <<s, t, FALSE>> \in relations => t \in disk[s]
=============================================================================
