--------------------------- MODULE ChangesetWriter ---------------------------
(***************************************************************************)
(* The changeset file of the dev watcher, .bunner/cache/changeset.jsonl,   *)
(* and its older generation changeset.jsonl.1 (packages/cli/src/watcher/   *)
(* changeset.ts).                                                          *)
(*                                                                         *)
(* Nothing keeps the calls of append() apart.  Each await gives way to the *)
(* other calls, and the file system does its part at a moment of its own:  *)
(* what a call has read, removed or renamed is noticed by it only later.   *)
(***************************************************************************)
EXTENDS Naturals, Sequences

CONSTANTS
  Appender,   \* the calls of append(), each named by the record it appends
  MaxLines,   \* options.maxLines
  NoFile,     \* the file is not there
  Earlier     \* a record of an earlier process

ASSUME ChangesetAssumption ==
  /\ MaxLines \in Nat \ {0}
  /\ Earlier \notin Appender
  /\ NoFile \notin Seq(Appender \cup {Earlier})

VARIABLES
  changeset,    \* the records in changeset.jsonl
  rotated,      \* the records in changeset.jsonl.1
  initialized,  \* the fields of the writer
  lineCount,
  apc,          \* where each append() is
  counted       \* the lines each ensureInitialized() has read

files == <<changeset, rotated>>
writerVars == <<initialized, lineCount>>
changesetVars == <<files, writerVars, apc, counted>>

Record == Appender \cup {Earlier}

Content == Seq(Record)

(* "failed": text() was called on a file that is gone. *)
AppendPlace ==
  {"idle", "mkdir", "exists", "text", "init", "rm", "rename", "renamed", "append", "count",
   "done", "failed"}

Appending(a) == apc[a] \notin {"idle", "done", "failed"}

ChangesetTypeOK ==
  /\ changeset \in Content \cup {NoFile}
  /\ rotated \in Content \cup {NoFile}
  /\ initialized \in BOOLEAN
  /\ lineCount \in Nat
  /\ apc \in [Appender -> AppendPlace]
  /\ counted \in [Appender -> Nat]

(* An earlier process may have left the file at any length. *)
ChangesetInit ==
  /\ changeset \in {NoFile} \cup {[i \in 1 .. n |-> Earlier] : n \in 1 .. MaxLines}
  /\ rotated = NoFile
  /\ initialized = FALSE
  /\ lineCount = 0
  /\ apc = [a \in Appender |-> "idle"]
  /\ counted = [a \in Appender |-> 0]

-----------------------------------------------------------------------------
(* Definitions named Faulty... are not part of the model: each is a slip     *)
(* that a property would catch in the definition after it.                  *)

Goto(a, place) == apc' = [apc EXCEPT ![a] = place]

FaultyAfterInit(count) == IF count <= MaxLines THEN "append" ELSE "rm"

(* rotateIfNeeded() right after ensureInitialized(), with no await between. *)
AfterInit(count) == IF count < MaxLines THEN "append" ELSE "rm"

BeginAppend(a) ==
  /\ apc[a] = "idle"
  /\ Goto(a, "mkdir")
  /\ UNCHANGED <<files, writerVars, counted>>

(* mkdir() is done: ensureInitialized() *)
CheckInitialized(a) ==
  /\ apc[a] = "mkdir"
  /\ Goto(a, IF initialized THEN AfterInit(lineCount) ELSE "exists")
  /\ UNCHANGED <<files, writerVars, counted>>

Exists(a) ==
  /\ apc[a] = "exists"
  /\ Goto(a, IF changeset = NoFile THEN "init" ELSE "text")
  /\ UNCHANGED <<files, writerVars, counted>>

(* text() rejects if the file has been renamed since exists(). *)
ReadText(a) ==
  /\ apc[a] = "text"
  /\ \/ /\ changeset = NoFile
        /\ Goto(a, "failed")
        /\ UNCHANGED counted
     \/ /\ changeset # NoFile
        /\ Goto(a, "init")
        /\ counted' = [counted EXCEPT ![a] = Len(changeset)]
  /\ UNCHANGED <<files, writerVars>>

Initialize(a) ==
  /\ apc[a] = "init"
  /\ initialized' = TRUE
  /\ lineCount' = counted[a]
  /\ Goto(a, AfterInit(counted[a]))
  /\ UNCHANGED <<files, counted>>

RemoveRotated(a) ==
  /\ apc[a] = "rm"
  /\ rotated' = NoFile
  /\ Goto(a, "rename")
  /\ UNCHANGED <<changeset, writerVars, counted>>

(* A file that is not there is "nothing to rotate". *)
Rename(a) ==
  /\ apc[a] = "rename"
  /\ changeset' = NoFile
  /\ rotated' = IF changeset = NoFile THEN rotated ELSE changeset
  /\ Goto(a, "renamed")
  /\ UNCHANGED <<writerVars, counted>>

Renamed(a) ==
  /\ apc[a] = "renamed"
  /\ lineCount' = 0
  /\ Goto(a, "append")
  /\ UNCHANGED <<files, initialized, counted>>

AppendFile(a) ==
  /\ apc[a] = "append"
  /\ changeset' = Append(IF changeset = NoFile THEN << >> ELSE changeset, a)
  /\ Goto(a, "count")
  /\ UNCHANGED <<rotated, writerVars, counted>>

(* append() returns, and its caller goes on. *)
CountLine(a) ==
  /\ apc[a] = "count"
  /\ lineCount' = lineCount + 1
  /\ Goto(a, "done")
  /\ UNCHANGED <<files, initialized, counted>>

(* What append() does before it returns. *)
AppendStep(a) ==
  \/ CheckInitialized(a)
  \/ Exists(a)
  \/ ReadText(a)
  \/ Initialize(a)
  \/ RemoveRotated(a)
  \/ Rename(a)
  \/ Renamed(a)
  \/ AppendFile(a)
=============================================================================
