--------------------------- MODULE CardIndex_proofs ---------------------------
(***************************************************************************)
(* Theorems about CardIndex for every set of cards and source files, and   *)
(* any number of edits and faults.                                         *)
(*                                                                         *)
(*  - Every variable keeps its type.                                       *)
(*  - Relations come in pairs, between cards that have rows.               *)
(*  - What file_state takes for up to date has been indexed as it is.      *)
(*  - When the watcher is at rest, the rows are those of the files that it *)
(*    heard of.                                                            *)
(*  - When it is, the relations and links are those of these files, up to  *)
(*    what the code is known to miss.                                      *)
(***************************************************************************)
EXTENDS CardIndex, TLAPS

-----------------------------------------------------------------------------
(* The order of the phases of a reindex. *)
PhaseInv ==
  /\ mode = "idle" => removed = {} /\ changed = {} /\ rebuilt = {} /\ reading = Absent
  /\ reading # Absent => reading \in changed /\ removed \cap Card = {}
  /\ rebuilt # {} => removed \cap Card = {}
  /\ removed \cap changed = {}
  /\ text # Absent => reading # Absent

TypeInv == TypeOK /\ PhaseInv

LEMMA ClearedType == Cleared \in Tables
BY DEF Cleared, Tables

LEMMA TablesType ==
  CurrentTables \in Tables <=>
    /\ cards \in [Card -> {Absent} \cup Naming]
    /\ relations \in SUBSET (Card \X Card \X BOOLEAN)
    /\ links \in SUBSET (Card \X Code)
    /\ tracked \in [File -> {"none", "stale", "fresh"}]
    /\ halfDone \in SUBSET Card
    /\ older \in SUBSET (File \X Card)
BY DEF CurrentTables, Tables

LEMMA SetTablesType ==
  ASSUME NEW t \in Tables, SetTables(t)
  PROVE  CurrentTables' = t
BY DEF SetTables, CurrentTables, Tables

LEMMA TypeInit == Init => TypeInv
<1> SUFFICES ASSUME Init PROVE TypeInv
  OBVIOUS
<1>1. CurrentTables = Cleared
  BY DEF Init, CurrentTables, Cleared
<1>2. CurrentTables \in Tables /\ saved \in Tables
  BY <1>1, ClearedType DEF Init
<1>3. queue \in Seq(Mode)
  BY DEF Init
<1>4. edits \in 0 .. MaxEdits /\ faults \in 0 .. MaxFaults
  BY IndexAssumption DEF Init
<1>5. TypeOK
  BY <1>2, <1>3, <1>4 DEF Init, NotIndexing, TypeOK, Content
<1>6. PhaseInv
  BY DEF Init, NotIndexing, PhaseInv
<1>7. QED
  BY <1>5, <1>6 DEF TypeInv

LEMMA BeginType ==
  ASSUME TypeInv, NEW m \in Mode, Begin(m)
  PROVE  /\ mode' \in Mode /\ removed' \subseteq File /\ changed' \subseteq File
         /\ reading' = Absent /\ text' = Absent /\ touched' = FALSE /\ rebuilt' = {}
         /\ CurrentTables' \in Tables /\ saved' \in Tables
         /\ missed' = {} /\ failed' = FALSE
         /\ removed' \cap changed' = {}
<1>1. CASE m = "full"
  <2>1. saved' \in Tables /\ SetTables(Cleared)
    BY <1>1 DEF Begin, TypeInv, TypeOK
  <2>2. CurrentTables' \in Tables
    BY <2>1, ClearedType, SetTablesType
  <2>3. QED
    BY <1>1, <2>1, <2>2 DEF Begin, Changed
<1>2. CASE m # "full"
  <2>1. CurrentTables' = CurrentTables /\ saved' = saved
    BY <1>2 DEF Begin, tables, CurrentTables
  <2>2. removed' = Gone
    BY <1>2 DEF Begin
  <2>3. Gone \cap Changed(m) = {} /\ Gone \subseteq File
    BY DEF Gone, Changed
  <2>4. QED
    BY <2>1, <2>2, <2>3 DEF Begin, Changed, TypeInv, TypeOK
<1>3. QED
  BY <1>1, <1>2

LEMMA AbortType ==
  ASSUME TypeInv, Abort
  PROVE  /\ mode' = "idle" /\ removed' = {} /\ changed' = {} /\ rebuilt' = {}
         /\ reading' = Absent /\ text' = Absent /\ touched' = FALSE
         /\ CurrentTables' \in Tables /\ saved' \in Tables
<1>1. CASE mode = "full"
  BY <1>1, SetTablesType, ClearedType DEF Abort, TypeInv, TypeOK
<1>2. CASE mode # "full"
  <2>1. halfDone' \in SUBSET Card
    BY <1>2, TablesType DEF Abort, TypeInv, TypeOK
  <2>2. CurrentTables' \in Tables
    BY <1>2, <2>1, TablesType DEF Abort, TypeInv, TypeOK, CurrentTables, Tables
  <2>3. QED
    BY <2>2, ClearedType DEF Abort
<1>3. QED
  BY <1>1, <1>2

LEMMA EditType ==
  ASSUME TypeInv, NEW f \in File, NEW content \in Content, EditFile(f, content)
  PROVE  TypeInv'
<1> USE DEF TypeInv, TypeOK
<1>1. Outdated(tracked, f) \in [File -> {"none", "stale", "fresh"}]
  BY TablesType DEF Outdated
<1>2. CurrentTables' \in Tables
  BY <1>1, TablesType DEF EditFile, CurrentTables, Tables
<1>3. saved' \in Tables
  BY DEF EditFile, Outdated, Tables
<1>4. disk' \in Disks
  <2>1. disk' \in [File -> Content]
    BY DEF EditFile, Disks
  <2>2. ASSUME NEW g \in Code PROVE disk'[g] # Broken
    BY <2>2 DEF EditFile, Disks, File
  <2>3. QED
    BY <2>1, <2>2 DEF Disks
<1>5. queue' \in Seq(Mode)
  <2>1. "incremental" \in Mode /\ queue \in Seq(Mode)
    BY DEF Mode
  <2>2. queue' = queue \/ queue' = Append(queue, "incremental")
    BY DEF EditFile
  <2>3. QED
    BY <2>1, <2>2
<1>6. edits' \in 0 .. MaxEdits
  BY IndexAssumption DEF EditFile
<1>7. touched' \in BOOLEAN /\ missed' \in SUBSET File
  BY DEF EditFile
<1>8. PhaseInv'
  BY DEF EditFile, PhaseInv
<1>9. QED
  BY <1>2, <1>3, <1>4, <1>5, <1>6, <1>7, <1>8 DEF EditFile

LEMMA RemoveCardType ==
  ASSUME TypeInv, NEW c \in Card, RemoveCard(c)
  PROVE  TypeInv'
<1> USE DEF TypeInv, TypeOK
<1>1. rebuilt = {} /\ reading = Absent
  BY DEF RemoveCard, PhaseInv
<1>2. CurrentTables' \in Tables
  <2>1. cards' \in [Card -> {Absent} \cup Naming]
    BY TablesType DEF RemoveCard
  <2>2. relations' \in SUBSET (Card \X Card \X BOOLEAN) /\ links' \in SUBSET (Card \X Code)
    BY TablesType DEF RemoveCard
  <2>3. tracked' \in [File -> {"none", "stale", "fresh"}] /\ halfDone' \in SUBSET Card
    BY TablesType DEF RemoveCard
  <2>4. older' \in SUBSET (File \X Card)
    BY TablesType DEF RemoveCard
  <2>5. QED
    BY <2>1, <2>2, <2>3, <2>4 DEF CurrentTables, Tables
<1>3. PhaseInv'
  BY <1>1 DEF RemoveCard, PhaseInv
<1>4. QED
  BY <1>1, <1>2, <1>3 DEF RemoveCard

LEMMA StatType ==
  ASSUME TypeInv, NEW f \in File, StatFile(f)
  PROVE  TypeInv'
<1>1. CurrentTables' = CurrentTables
  BY DEF StatFile, tables, CurrentTables
<1>2. reading' \in File \cup {Absent} /\ text' \in Content
  BY DEF StatFile, Content
<1>3. PhaseInv'
  BY DEF TypeInv, StatFile, Ready, PhaseInv
<1>4. QED
  BY <1>1, <1>2, <1>3 DEF TypeInv, TypeOK, StatFile, tables

LEMMA ReadType ==
  ASSUME TypeInv, ReadFile
  PROVE  TypeInv'
<1>1. CurrentTables' = CurrentTables
  BY DEF ReadFile, tables, CurrentTables
<1>2. text' \in Content
  BY DEF ReadFile, TypeInv, TypeOK, Disks
<1>3. PhaseInv'
  BY DEF TypeInv, ReadFile, PhaseInv
<1>4. QED
  BY <1>1, <1>2, <1>3 DEF TypeInv, TypeOK, ReadFile, tables

LEMMA WriteCardType ==
  ASSUME TypeInv, NEW c \in Card, WriteCard(c)
  PROVE  TypeInv'
<1> USE DEF TypeInv, TypeOK
<1>1. text \in Naming
  BY DEF WriteCard, Readable, Content
<1>2. State \in {"none", "stale", "fresh"} /\ c \in File
  BY DEF State, File
<1>3. CurrentTables' \in Tables
  <2>1. cards' \in [Card -> {Absent} \cup Naming]
    BY <1>1, TablesType DEF WriteCard
  <2>2. tracked' \in [File -> {"none", "stale", "fresh"}]
    BY <1>2, TablesType DEF WriteCard, Indexed
  <2>3. QED
    BY <2>1, <2>2, TablesType DEF WriteCard, CurrentTables, Tables
<1>4. PhaseInv'
  BY <1>2, IndexAssumption DEF WriteCard, Indexed, PhaseInv
<1>5. \A d \in rebuilt' : cards'[d] # Absent
  BY TablesType DEF WriteCard, Readable
<1>6. QED
  BY <1>3, <1>4, <1>5 DEF WriteCard, Indexed, Content

LEMMA EdgesType ==
  ASSUME TypeInv, NEW c \in Card
  PROVE  Edges(c) \in SUBSET (Card \X Card \X BOOLEAN)
<1>1. cards[c] \cap Existing \subseteq Card
  BY DEF Existing
<1>2. TRUE \in BOOLEAN /\ FALSE \in BOOLEAN
  OBVIOUS
<1>3. ASSUME NEW r \in Edges(c) PROVE r \in Card \X Card \X BOOLEAN
  <2>1. PICK t \in cards[c] \cap Existing : r = <<c, t, FALSE>> \/ r = <<t, c, TRUE>>
    BY <1>3 DEF Edges
  <2>2. t \in Card
    BY <1>1
  <2>3. <<c, t, FALSE>> \in Card \X Card \X BOOLEAN /\ <<t, c, TRUE>> \in Card \X Card \X BOOLEAN
    BY <1>2, <2>2
  <2>4. QED
    BY <2>1, <2>3
<1>4. QED
  BY <1>3

LEMMA WriteRelationsType ==
  ASSUME TypeInv, NEW c \in Card, WriteRelations(c)
  PROVE  TypeInv'
<1> USE DEF TypeInv, TypeOK
<1>1. CurrentTables' \in Tables
  <2>1. relations' \in SUBSET (Card \X Card \X BOOLEAN)
    BY EdgesType, TablesType DEF WriteRelations
  <2>2. older' \in SUBSET (File \X Card)
    BY TablesType DEF WriteRelations, File
  <2>3. QED
    BY <2>1, <2>2, TablesType DEF WriteRelations, CurrentTables, Tables
<1>2. PhaseInv'
  BY DEF WriteRelations, PhaseInv
<1>3. QED
  BY <1>1, <1>2 DEF WriteRelations

LEMMA WriteCodeType ==
  ASSUME TypeInv, NEW f \in Code, WriteCode(f)
  PROVE  TypeInv'
<1> USE DEF TypeInv, TypeOK
<1>1. State \in {"none", "stale", "fresh"} /\ f \in File
  BY DEF State, File
<1>2. CurrentTables' \in Tables
  <2>1. tracked' \in [File -> {"none", "stale", "fresh"}]
    BY <1>1, TablesType DEF WriteCode, Indexed
  <2>2. links' \in SUBSET (Card \X Code)
    BY TablesType DEF WriteCode, Existing
  <2>3. older' \in SUBSET (File \X Card)
    BY <1>1, TablesType DEF WriteCode
  <2>4. QED
    BY <2>1, <2>2, <2>3, TablesType DEF WriteCode, CurrentTables, Tables
<1>3. PhaseInv'
  BY <1>1, IndexAssumption DEF WriteCode, Indexed, PhaseInv
<1>4. QED
  BY <1>2, <1>3 DEF WriteCode, Indexed, Content

LEMMA RemoveCodeType ==
  ASSUME TypeInv, NEW f \in Code, RemoveCode(f)
  PROVE  TypeInv'
<1> USE DEF TypeInv, TypeOK
<1>1. CurrentTables' \in Tables
  <2>1. tracked' \in [File -> {"none", "stale", "fresh"}]
    BY TablesType DEF RemoveCode, File
  <2>2. links' \in SUBSET (Card \X Code)
    BY TablesType DEF RemoveCode
  <2>3. QED
    BY <2>1, <2>2, TablesType DEF RemoveCode, CurrentTables, Tables
<1>2. PhaseInv'
  BY DEF RemoveCode, PhaseInv
<1>3. QED
  BY <1>1, <1>2 DEF RemoveCode

LEMMA RejectedType ==
  ASSUME TypeInv, Rejected, faults' \in 0 .. MaxFaults
  PROVE  TypeInv'
<1>1. /\ mode' = "idle" /\ removed' = {} /\ changed' = {} /\ rebuilt' = {}
      /\ reading' = Absent /\ text' = Absent /\ touched' = FALSE
      /\ CurrentTables' \in Tables /\ saved' \in Tables
  BY AbortType DEF Rejected
<1>2. PhaseInv'
  BY <1>1 DEF PhaseInv
<1>3. server' \in {"down", "rebuilding", "starting", "watching"}
  BY DEF Rejected
<1>4. QED
  BY <1>1, <1>2, <1>3 DEF TypeInv, TypeOK, Rejected, Abort, Content

LEMMA CrashType ==
  ASSUME TypeInv, Crash
  PROVE  TypeInv'
<1>1. /\ mode' = "idle" /\ removed' = {} /\ changed' = {} /\ rebuilt' = {}
      /\ reading' = Absent /\ text' = Absent /\ touched' = FALSE
      /\ CurrentTables' \in Tables /\ saved' \in Tables
  BY AbortType DEF Crash
<1>2. PhaseInv'
  BY <1>1 DEF PhaseInv
<1>3. faults' \in 0 .. MaxFaults
  BY IndexAssumption DEF Crash, TypeInv, TypeOK
<1>4. queue' \in Seq(Mode) /\ missed' \in SUBSET File
  BY DEF Crash, TypeInv, TypeOK
<1>5. QED
  BY <1>1, <1>2, <1>3, <1>4 DEF TypeInv, TypeOK, Crash, Abort, Content

LEMMA BegunType ==
  ASSUME TypeInv, NEW m \in Mode, Begin(m), UNCHANGED <<disk, edits, faults>>,
         server' \in {"down", "rebuilding", "starting", "watching"},
         built' \in BOOLEAN, queue' \in Seq(Mode)
  PROVE  TypeInv'
<1>1. /\ mode' \in Mode /\ removed' \subseteq File /\ changed' \subseteq File
      /\ reading' = Absent /\ text' = Absent /\ touched' = FALSE /\ rebuilt' = {}
      /\ CurrentTables' \in Tables /\ saved' \in Tables
      /\ missed' = {} /\ failed' = FALSE
      /\ removed' \cap changed' = {}
  BY BeginType
<1>2. PhaseInv'
  BY <1>1 DEF PhaseInv, Mode
<1>3. QED
  BY <1>1, <1>2 DEF TypeInv, TypeOK, Content

LEMMA StartType ==
  ASSUME TypeInv, Start
  PROVE  TypeInv'
<1>1. CASE built
  <2>1. CurrentTables' = CurrentTables
    BY <1>1 DEF Start, tables, CurrentTables
  <2>2. PhaseInv'
    BY <1>1 DEF Start, indexing, TypeInv, PhaseInv
  <2>3. QED
    BY <1>1, <2>1, <2>2 DEF Start, indexing, tables, TypeInv, TypeOK
<1>2. CASE ~built
  BY <1>2, BegunType DEF Start, TypeInv, TypeOK, Mode
<1>3. QED
  BY <1>1, <1>2

LEMMA FinishType ==
  ASSUME TypeInv, Finish
  PROVE  TypeInv'
<1>1. CurrentTables' = CurrentTables
  BY DEF Finish, tables, CurrentTables
<1>2. PhaseInv'
  BY DEF Finish, indexing, TypeInv, PhaseInv
<1>3. server' \in {"down", "rebuilding", "starting", "watching"}
  BY DEF Finish, AfterRun, TypeInv, TypeOK
<1>4. QED
  BY <1>1, <1>2, <1>3, ClearedType DEF Finish, indexing, tables, TypeInv, TypeOK

LEMMA TypeNext == TypeInv /\ [Next]_vars => TypeInv'
<1> SUFFICES ASSUME TypeInv, [Next]_vars PROVE TypeInv'
  OBVIOUS
<1>1. ASSUME NEW f \in File, NEW content \in Content, EditFile(f, content) PROVE TypeInv'
  BY <1>1, EditType
<1>2. CASE Signal
  <2>1. CurrentTables' = CurrentTables
    BY <1>2 DEF Signal, tables, CurrentTables
  <2>2. PhaseInv'
    BY <1>2 DEF Signal, indexing, TypeInv, PhaseInv
  <2>3. edits' \in 0 .. MaxEdits
    BY <1>2, IndexAssumption DEF Signal, TypeInv, TypeOK
  <2>4. queue' \in Seq(Mode)
    BY <1>2 DEF Signal, Mode, TypeInv, TypeOK
  <2>5. QED
    BY <1>2, <2>1, <2>2, <2>3, <2>4 DEF Signal, indexing, tables, TypeInv, TypeOK
<1>3. CASE Start
  BY <1>3, StartType
<1>4. ASSUME NEW m \in Mode, RebuildProjectIndex(m) PROVE TypeInv'
  BY <1>4, BegunType DEF RebuildProjectIndex, TypeInv, TypeOK
<1>5. CASE TakeFromQueue
  <2>1. Head(queue) \in Mode /\ Tail(queue) \in Seq(Mode)
    BY <1>5 DEF TakeFromQueue, TypeInv, TypeOK
  <2>2. QED
    BY <1>5, <2>1, BegunType DEF TakeFromQueue, TypeInv, TypeOK
<1>6. CASE IndexStep
  <2>1. ASSUME NEW c \in Card, RemoveCard(c) \/ WriteCard(c) \/ WriteRelations(c) PROVE TypeInv'
    BY <2>1, RemoveCardType, WriteCardType, WriteRelationsType
  <2>2. ASSUME NEW f \in File, StatFile(f) PROVE TypeInv'
    BY <2>2, StatType
  <2>3. CASE ReadFile
    BY <2>3, ReadType
  <2>4. ASSUME NEW f \in Code, WriteCode(f) \/ RemoveCode(f) PROVE TypeInv'
    BY <2>4, WriteCodeType, RemoveCodeType
  <2>5. CASE Finish
    BY <2>5, FinishType
  <2>6. CASE Reject
    BY <2>6, RejectedType DEF Reject, TypeInv, TypeOK
  <2>7. QED
    BY <1>6, <2>1, <2>2, <2>3, <2>4, <2>5, <2>6 DEF IndexStep
<1>7. CASE Fail
  <2>1. faults' \in 0 .. MaxFaults
    BY <1>7, IndexAssumption DEF Fail, TypeInv, TypeOK
  <2>2. QED
    BY <1>7, <2>1, RejectedType DEF Fail
<1>8. CASE Crash
  BY <1>8, CrashType
<1>9. CASE UNCHANGED vars
  <2>1. CurrentTables' = CurrentTables
    BY <1>9 DEF vars, tables, CurrentTables
  <2>2. PhaseInv'
    BY <1>9 DEF vars, indexing, TypeInv, PhaseInv
  <2>3. QED
    BY <1>9, <2>1, <2>2 DEF vars, indexing, tables, TypeInv, TypeOK
<1>10. QED
  BY <1>1, <1>2, <1>3, <1>4, <1>5, <1>6, <1>7, <1>8, <1>9 DEF Next

(* Every variable keeps its type, and only cards that have rows wait for    *)
(* their relations.                                                         *)
THEOREM TypeCorrect == Spec => []TypeOK
<1>1. TypeInv => TypeOK
  BY DEF TypeInv
<1>2. QED
  BY <1>1, TypeInit, TypeNext, PTL DEF Spec

-----------------------------------------------------------------------------
(* What holds of the tables at every step, and of the tables to which a     *)
(* full reindex would be rolled back.                                       *)
Paired(t) ==
  \A r \in t.relations :
    /\ <<r[2], r[1], ~r[3]>> \in t.relations
    /\ t.cards[r[1]] # Absent /\ t.cards[r[2]] # Absent

Fresh(t) == \A c \in Card : t.tracked[c] = "fresh" => t.cards[c] = disk[c]

Known(t) == \A c \in Card : t.tracked[c] = "none" <=> t.cards[c] = Absent

Sound(t) == Paired(t) /\ Fresh(t) /\ Known(t)

(* A reindex is to come that will see the change of f, or no event told of  *)
(* it.                                                                      *)
Told(f) == queue # << >> \/ f \in missed

ReadInv ==
  /\ reading # Absent /\ text # Absent /\ ~touched => text = disk[reading]
  /\ touched => reading # Absent /\ Told(reading)

RightRow(f) ==
  /\ f \in Card => cards[f] = disk[f]
  /\ tracked[f] = "none" <=> disk[f] = Absent

(* Any file whose row is not right is still to be indexed. *)
PendingInv ==
  /\ \A f \in removed : disk[f] = Absent \/ Told(f)
  /\ ~failed => \A f \in File : f \in removed \cup changed \/ RightRow(f) \/ Told(f)

TablesInv == Sound(CurrentTables) /\ Sound(saved)

IndexInv == TypeInv /\ TablesInv /\ ReadInv /\ PendingInv

LEMMA SoundCleared == Sound(Cleared)
BY DEF Sound, Paired, Fresh, Known, Cleared, File

(* Without an edit, tables that are the same are as sound as they were. *)
LEMMA SoundSame ==
  ASSUME UNCHANGED <<disk, cards, relations, tracked>>, Sound(CurrentTables)
  PROVE  Sound(CurrentTables)'
BY DEF Sound, Paired, Fresh, Known, CurrentTables

LEMMA SavedSame ==
  ASSUME UNCHANGED disk, saved' = saved \/ saved' = Cleared, Sound(saved)
  PROVE  Sound(saved)'
<1>1. CASE saved' = saved
  BY <1>1 DEF Sound, Paired, Fresh, Known
<1>2. CASE saved' = Cleared
  BY <1>2 DEF Sound, Paired, Fresh, Known, Cleared, File
<1>3. QED
  BY <1>1, <1>2

LEMMA IndexInit == Init => IndexInv
<1> SUFFICES ASSUME Init PROVE IndexInv
  OBVIOUS
<1>1. CurrentTables = Cleared /\ saved = Cleared
  BY DEF Init, CurrentTables, Cleared
<1>2. TablesInv
  BY <1>1, SoundCleared DEF TablesInv
<1>3. ReadInv /\ PendingInv
  BY DEF Init, NotIndexing, ReadInv, PendingInv, Told
<1>4. QED
  BY <1>2, <1>3, TypeInit DEF IndexInv

LEMMA BeginSound ==
  ASSUME IndexInv, NEW m \in Mode, Begin(m), UNCHANGED disk
  PROVE  TablesInv' /\ ReadInv' /\ PendingInv'
<1> USE DEF IndexInv
<1>1. ReadInv'
  BY DEF Begin, ReadInv
<1>2. CASE m = "full"
  <2>1. SetTables(Cleared) /\ saved' = CurrentTables
    BY <1>2 DEF Begin
  <2>2. CurrentTables' = Cleared
    BY <2>1, ClearedType, SetTablesType
  <2>3. Sound(CurrentTables)'
    BY <2>2 DEF Sound, Paired, Fresh, Known, Cleared, File
  <2>4. Sound(saved)'
    BY <2>1 DEF TablesInv, Sound, Paired, Fresh, Known
  <2>5. ASSUME NEW f \in File, f \notin changed' PROVE RightRow(f)'
    <3>1. disk[f] = Absent
      BY <1>2, <2>5 DEF Begin, Changed
    <3>2. QED
      BY <2>1, <3>1 DEF SetTables, Cleared, RightRow
  <2>6. QED
    BY <1>1, <1>2, <2>3, <2>4, <2>5 DEF TablesInv, PendingInv, Begin
<1>3. CASE m # "full"
  <2>1. UNCHANGED <<cards, relations, tracked, saved>> /\ removed' = Gone /\ changed' = Changed(m)
    BY <1>3 DEF Begin, tables
  <2>2. TablesInv'
    BY <2>1, SoundSame, SavedSame DEF TablesInv
  <2>3. ASSUME NEW f \in File, f \notin Gone \cup Changed(m) PROVE RightRow(f)
    <3>1. CASE disk[f] = Absent
      <4>1. tracked[f] = "none"
        BY <2>3, <3>1 DEF Gone
      <4>2. f \in Card => cards[f] = Absent
        BY <4>1 DEF TablesInv, Sound, Known, CurrentTables
      <4>3. QED
        BY <3>1, <4>1, <4>2 DEF RightRow
    <3>2. CASE disk[f] # Absent
      <4>1. tracked[f] = "fresh"
        BY <2>3, <3>2 DEF Changed
      <4>2. f \in Card => cards[f] = disk[f]
        BY <4>1 DEF TablesInv, Sound, Fresh, CurrentTables
      <4>3. QED
        BY <3>2, <4>1, <4>2 DEF RightRow
    <3>3. QED
      BY <3>1, <3>2
  <2>4. PendingInv'
    BY <2>1, <2>3 DEF PendingInv, Gone, RightRow
  <2>5. QED
    BY <1>1, <2>2, <2>4
<1>4. QED
  BY <1>2, <1>3

LEMMA AbortSound ==
  ASSUME IndexInv, Abort, failed' \/ missed' = File
  PROVE  TablesInv' /\ ReadInv' /\ PendingInv'
<1> USE DEF IndexInv
<1>1. disk' = disk /\ saved' = Cleared
  BY DEF Abort
<1>2. Sound(saved)'
  BY <1>1, SavedSame DEF TablesInv
<1>3. Sound(CurrentTables)'
  <2>1. CASE mode = "full"
    <3>1. CurrentTables' = saved
      BY <2>1, SetTablesType DEF Abort, TypeInv, TypeOK
    <3>2. QED
      BY <1>1, <3>1 DEF TablesInv, Sound, Paired, Fresh, Known
  <2>2. CASE mode # "full"
    BY <2>2, SoundSame DEF Abort, TablesInv
  <2>3. QED
    BY <2>1, <2>2
<1>4. ReadInv'
  BY DEF Abort, ReadInv
<1>5. PendingInv'
  BY DEF Abort, PendingInv, Told
<1>6. QED
  BY <1>2, <1>3, <1>4, <1>5 DEF TablesInv

(* The change of the file that is edited is told of, or missed. *)
LEMMA EditTells ==
  ASSUME TypeInv, NEW f \in File, NEW content \in Content, EditFile(f, content)
  PROVE  Told(f)' /\ \A g \in File : Told(g) => Told(g)'
<1>1. CASE server = "watching" /\ f \notin Declarations
  <2>1. queue \in Seq(Mode) /\ queue' = Append(queue, "incremental")
    BY <1>1 DEF EditFile, TypeInv, TypeOK
  <2>2. QED
    BY <2>1 DEF Told, Mode
<1>2. CASE ~(server = "watching" /\ f \notin Declarations)
  BY <1>2 DEF EditFile, Told
<1>3. QED
  BY <1>1, <1>2

LEMMA EditSound ==
  ASSUME IndexInv, NEW f \in File, NEW content \in Content, EditFile(f, content)
  PROVE  TablesInv' /\ ReadInv' /\ PendingInv'
<1> USE DEF IndexInv
<1>1. Told(f)' /\ \A g \in File : Told(g) => Told(g)'
  BY EditTells
<1>2. disk' = [disk EXCEPT ![f] = content] /\ disk \in [File -> Content]
  BY DEF EditFile, TypeInv, TypeOK, Disks
<1>3. Sound(CurrentTables)'
  <2>1. tracked' = Outdated(tracked, f) /\ UNCHANGED <<cards, relations>>
    BY DEF EditFile
  <2>2. tracked \in [File -> {"none", "stale", "fresh"}]
    BY TablesType DEF TypeInv, TypeOK
  <2>3. ASSUME NEW c \in Card
        PROVE  /\ tracked'[c] = "none" <=> tracked[c] = "none"
               /\ tracked'[c] = "fresh" => tracked[c] = "fresh" /\ disk'[c] = disk[c]
    BY <1>2, <2>1, <2>2 DEF Outdated, File
  <2>4. QED
    BY <2>1, <2>3 DEF TablesInv, Sound, Paired, Fresh, Known, CurrentTables
<1>4. Sound(saved)'
  <2>1. saved' = [saved EXCEPT !.tracked = Outdated(@, f)] /\ saved \in Tables
    BY DEF EditFile, TypeInv, TypeOK
  <2>2. /\ saved'.cards = saved.cards /\ saved'.relations = saved.relations
        /\ saved'.tracked = Outdated(saved.tracked, f)
        /\ saved.tracked \in [File -> {"none", "stale", "fresh"}]
    BY <2>1 DEF Tables
  <2>3. ASSUME NEW c \in Card
        PROVE  /\ saved'.tracked[c] = "none" <=> saved.tracked[c] = "none"
               /\ saved'.tracked[c] = "fresh" => saved.tracked[c] = "fresh" /\ disk'[c] = disk[c]
    BY <1>2, <2>2 DEF Outdated, File
  <2>4. QED
    BY <2>2, <2>3 DEF TablesInv, Sound, Paired, Fresh, Known
<1>5. ReadInv'
  <2>1. reading' = reading /\ text' = text /\ touched' = (touched \/ reading = f)
    BY DEF EditFile
  <2>2. QED
    BY <1>1, <1>2, <2>1, IndexAssumption DEF ReadInv, TypeInv, TypeOK
<1>6. PendingInv'
  <2>1. UNCHANGED <<removed, changed, failed>> /\ removed \subseteq File
    BY DEF EditFile, TypeInv, TypeOK
  <2>2. ASSUME NEW g \in File, g # f PROVE disk'[g] = disk[g] /\ (RightRow(g) => RightRow(g)')
    <3>1. disk'[g] = disk[g]
      BY <1>2, <2>2
    <3>2. tracked'[g] = tracked[g] /\ cards' = cards
      BY <2>2, TablesType DEF EditFile, Outdated, TypeInv, TypeOK
    <3>3. QED
      BY <3>1, <3>2 DEF RightRow
  <2>3. QED
    BY <1>1, <2>1, <2>2 DEF PendingInv
<1>7. QED
  BY <1>3, <1>4, <1>5, <1>6 DEF TablesInv

LEMMA RemoveCardSound ==
  ASSUME IndexInv, NEW c \in Card, RemoveCard(c)
  PROVE  TablesInv' /\ ReadInv' /\ PendingInv'
<1> USE DEF IndexInv
<1>1. /\ cards \in [Card -> {Absent} \cup Naming] /\ tracked \in [File -> {"none", "stale", "fresh"}]
      /\ relations \in SUBSET (Card \X Card \X BOOLEAN)
  BY TablesType DEF TypeInv, TypeOK
<1>2. /\ cards' = [cards EXCEPT ![c] = Absent] /\ tracked' = [tracked EXCEPT ![c] = "none"]
      /\ UNCHANGED <<disk, saved>> /\ c \in File
  BY DEF RemoveCard, File
<1>3. Paired(CurrentTables)'
  <2>1. ASSUME NEW r \in relations'
        PROVE  /\ <<r[2], r[1], ~r[3]>> \in relations'
               /\ cards'[r[1]] # Absent /\ cards'[r[2]] # Absent
    <3>1. r \in relations /\ r[1] # c /\ r[2] # c /\ r[1] \in Card /\ r[2] \in Card
      BY <1>1, <2>1 DEF RemoveCard, Forgotten
    <3>2. <<r[2], r[1], ~r[3]>> \in relations /\ cards[r[1]] # Absent /\ cards[r[2]] # Absent
      BY <3>1 DEF TablesInv, Sound, Paired, CurrentTables
    <3>3. <<r[2], r[1], ~r[3]>> \in relations'
      BY <3>1, <3>2 DEF RemoveCard, Forgotten
    <3>4. QED
      BY <1>1, <1>2, <3>1, <3>2, <3>3
  <2>2. QED
    BY <2>1 DEF Paired, CurrentTables
<1>4. Fresh(CurrentTables)' /\ Known(CurrentTables)'
  BY <1>1, <1>2 DEF TablesInv, Sound, Fresh, Known, CurrentTables, File
<1>5. Sound(saved)'
  BY <1>2, SavedSame DEF TablesInv
<1>6. ReadInv'
  BY DEF RemoveCard, ReadInv, Told
<1>7. PendingInv'
  <2>1. UNCHANGED <<queue, missed, failed, changed>> /\ removed' = removed \ {c} /\ c \in removed
    BY DEF RemoveCard
  <2>2. \A g : Told(g)' <=> Told(g)
    BY <2>1 DEF Told
  <2>3. disk[c] = Absent \/ Told(c)
    BY <2>1 DEF PendingInv
  <2>4. disk[c] = Absent => RightRow(c)'
    BY <1>1, <1>2 DEF RightRow
  <2>5. ASSUME NEW f \in File, f # c PROVE RightRow(f)' <=> RightRow(f)
    BY <1>1, <1>2, <2>5 DEF RightRow
  <2>6. QED
    BY <1>2, <2>1, <2>2, <2>3, <2>4, <2>5 DEF PendingInv
<1>8. QED
  BY <1>3, <1>4, <1>5, <1>6, <1>7 DEF TablesInv, Sound

LEMMA WriteCardSound ==
  ASSUME IndexInv, NEW c \in Card, WriteCard(c)
  PROVE  TablesInv' /\ ReadInv' /\ PendingInv'
<1> USE DEF IndexInv
<1>1. /\ cards \in [Card -> {Absent} \cup Naming] /\ tracked \in [File -> {"none", "stale", "fresh"}]
      /\ relations \in SUBSET (Card \X Card \X BOOLEAN)
  BY TablesType DEF TypeInv, TypeOK
<1>2. /\ cards' = [cards EXCEPT ![c] = text] /\ tracked' = [tracked EXCEPT ![c] = State]
      /\ UNCHANGED <<disk, saved, relations>> /\ c \in File /\ text # Absent
  BY DEF WriteCard, Indexed, Readable, File
<1>3. Paired(CurrentTables)'
  <2>1. ASSUME NEW r \in relations PROVE cards'[r[1]] # Absent /\ cards'[r[2]] # Absent
    <3>1. r[1] \in Card /\ r[2] \in Card
      BY <1>1
    <3>2. cards[r[1]] # Absent /\ cards[r[2]] # Absent
      BY DEF TablesInv, Sound, Paired, CurrentTables
    <3>3. QED
      BY <1>1, <1>2, <3>1, <3>2
  <2>2. QED
    BY <1>2, <2>1 DEF TablesInv, Sound, Paired, CurrentTables
<1>4. State = "fresh" => text = disk[c]
  <2>1. reading = c /\ reading # Absent
    BY <1>2, IndexAssumption DEF WriteCard, Indexed
  <2>2. QED
    BY <1>2, <2>1 DEF State, ReadInv
<1>5. Fresh(CurrentTables)' /\ Known(CurrentTables)'
  <2>1. State # "none"
    BY DEF State
  <2>2. QED
    BY <1>1, <1>2, <1>4, <2>1 DEF TablesInv, Sound, Fresh, Known, CurrentTables, File
<1>6. Sound(saved)'
  BY <1>2, SavedSame DEF TablesInv
<1>7. ReadInv'
  BY DEF WriteCard, Indexed, ReadInv
<1>8. PendingInv'
  <2>1. UNCHANGED <<queue, missed, failed, removed>> /\ changed' = changed \ {c}
    BY DEF WriteCard, Indexed
  <2>2. \A g : Told(g)' <=> Told(g)
    BY <2>1 DEF Told
  <2>3. ~Told(c) => State = "fresh"
    BY <1>2 DEF WriteCard, Indexed, ReadInv, State
  <2>4. State = "fresh" => RightRow(c)'
    BY <1>1, <1>2, <1>4 DEF RightRow
  <2>5. ASSUME NEW f \in File, f # c PROVE RightRow(f)' <=> RightRow(f)
    BY <1>1, <1>2, <2>5 DEF RightRow
  <2>6. QED
    BY <1>2, <2>1, <2>2, <2>3, <2>4, <2>5 DEF PendingInv
<1>9. QED
  BY <1>3, <1>5, <1>6, <1>7, <1>8 DEF TablesInv, Sound

(* The relations that go are in pairs, and so are those that come. *)
LEMMA WriteRelationsSound ==
  ASSUME IndexInv, NEW c \in Card, WriteRelations(c)
  PROVE  TablesInv' /\ ReadInv' /\ PendingInv'
<1> USE DEF IndexInv
<1>1. relations \in SUBSET (Card \X Card \X BOOLEAN)
  BY TablesType DEF TypeInv, TypeOK
<1>2. /\ UNCHANGED <<disk, cards, tracked, saved>>
      /\ relations' = (relations \ Outgoing(c)) \cup Edges(c)
  BY DEF WriteRelations
<1>3. cards[c] # Absent
  BY DEF WriteRelations, TypeInv, TypeOK
<1>4. ASSUME NEW r \in relations'
      PROVE  /\ <<r[2], r[1], ~r[3]>> \in relations'
             /\ cards[r[1]] # Absent /\ cards[r[2]] # Absent
  <2>1. CASE r \in relations \ Outgoing(c)
    <3> DEFINE q == <<r[2], r[1], ~r[3]>>
    <3>1. q \in relations /\ cards[r[1]] # Absent /\ cards[r[2]] # Absent
      BY <2>1 DEF TablesInv, Sound, Paired, CurrentTables
    <3>2. r[3] \in BOOLEAN /\ ~((r[1] = c /\ ~r[3]) \/ (r[2] = c /\ r[3]))
      BY <1>1, <2>1 DEF Outgoing
    <3>3. q[1] = r[2] /\ q[2] = r[1] /\ q[3] = ~r[3]
      OBVIOUS
    <3>4. q \notin Outgoing(c)
      <4>1. CASE r[3] = TRUE
        BY <3>2, <3>3, <4>1 DEF Outgoing
      <4>2. CASE r[3] = FALSE
        BY <3>2, <3>3, <4>2 DEF Outgoing
      <4>3. QED
        BY <3>2, <4>1, <4>2
    <3>5. QED
      BY <1>2, <3>1, <3>4
  <2>2. CASE r \in Edges(c)
    <3>1. PICK t \in cards[c] \cap Existing : r = <<c, t, FALSE>> \/ r = <<t, c, TRUE>>
      BY <2>2 DEF Edges
    <3>2. <<c, t, FALSE>> \in Edges(c) /\ <<t, c, TRUE>> \in Edges(c)
      BY DEF Edges
    <3>3. cards[t] # Absent
      BY DEF Existing
    <3>4. CASE r = <<c, t, FALSE>>
      <4>1. <<r[2], r[1], ~r[3]>> = <<t, c, TRUE>> /\ r[1] = c /\ r[2] = t
        BY <3>4
      <4>2. QED
        BY <1>2, <1>3, <3>2, <3>3, <4>1
    <3>5. CASE r = <<t, c, TRUE>>
      <4>1. <<r[2], r[1], ~r[3]>> = <<c, t, FALSE>> /\ r[1] = t /\ r[2] = c
        BY <3>5
      <4>2. QED
        BY <1>2, <1>3, <3>2, <3>3, <4>1
    <3>6. QED
      BY <3>1, <3>4, <3>5
  <2>3. QED
    BY <1>2, <1>4, <2>1, <2>2
<1>5. Sound(CurrentTables)'
  BY <1>2, <1>4 DEF TablesInv, Sound, Paired, Fresh, Known, CurrentTables
<1>6. Sound(saved)'
  BY <1>2, SavedSame DEF TablesInv
<1>7. ReadInv' /\ PendingInv'
  BY DEF WriteRelations, ReadInv, PendingInv, RightRow, Told
<1>8. QED
  BY <1>5, <1>6, <1>7 DEF TablesInv

LEMMA CodeSound ==
  ASSUME IndexInv, NEW f \in Code, WriteCode(f) \/ RemoveCode(f)
  PROVE  TablesInv' /\ ReadInv' /\ PendingInv'
<1> USE DEF IndexInv
<1>1. tracked \in [File -> {"none", "stale", "fresh"}] /\ f \in File /\ f \notin Card
  BY TablesType, IndexAssumption DEF TypeInv, TypeOK, File
<1>2. UNCHANGED <<disk, cards, relations, saved>>
  BY DEF WriteCode, RemoveCode
<1>3. PICK s \in {"none", "stale", "fresh"} : tracked' = [tracked EXCEPT ![f] = s]
  BY DEF WriteCode, RemoveCode, Indexed, State
<1>4. \A g \in File : g # f => tracked'[g] = tracked[g]
  BY <1>1, <1>3
<1>5. Sound(CurrentTables)'
  BY <1>1, <1>2, <1>4 DEF TablesInv, Sound, Paired, Fresh, Known, CurrentTables, File
<1>6. Sound(saved)'
  BY <1>2, SavedSame DEF TablesInv
<1>7. ReadInv'
  BY DEF WriteCode, RemoveCode, Indexed, ReadInv, Told
<1>8. ~Told(f) => RightRow(f)'
  <2>1. CASE WriteCode(f)
    <3>1. reading = f /\ reading # Absent /\ text # Absent
      BY <1>1, <2>1, IndexAssumption DEF WriteCode, Indexed, Readable
    <3>2. ~Told(f) => disk[f] # Absent
      BY <3>1 DEF ReadInv
    <3>3. tracked'[f] # "none"
      BY <1>1, <2>1 DEF WriteCode, Indexed, State
    <3>4. QED
      BY <1>1, <1>2, <3>2, <3>3 DEF RightRow
  <2>2. CASE RemoveCode(f)
    <3>1. disk[f] = Absent \/ Told(f)
      BY <2>2 DEF RemoveCode, PendingInv
    <3>2. tracked'[f] = "none"
      BY <1>1, <2>2 DEF RemoveCode
    <3>3. QED
      BY <1>1, <1>2, <3>1, <3>2 DEF RightRow
  <2>3. QED
    BY <2>1, <2>2
<1>9. PendingInv'
  <2>1. /\ UNCHANGED <<queue, missed, failed>>
        /\ removed' \subseteq removed
        /\ removed \cup changed \subseteq removed' \cup changed' \cup {f}
    BY DEF WriteCode, RemoveCode, Indexed
  <2>2. \A g : Told(g)' <=> Told(g)
    BY <2>1 DEF Told
  <2>3. ASSUME NEW g \in File, g # f PROVE RightRow(g)' <=> RightRow(g)
    BY <1>2, <1>4, <2>3 DEF RightRow
  <2>4. QED
    BY <1>2, <1>8, <2>1, <2>2, <2>3 DEF PendingInv
<1>10. QED
  BY <1>5, <1>6, <1>7, <1>9 DEF TablesInv

(* The steps that leave the tables, the files and what is pending alone. *)
LEMMA QuietSound ==
  ASSUME IndexInv, UNCHANGED <<disk, cards, relations, tracked, removed, changed, failed>>,
         saved' = saved \/ saved' = Cleared,
         \A f \in File : Told(f) => Told(f)',
         \/ UNCHANGED <<reading, text, touched>>
         \/ text' = Absent /\ touched' = FALSE
         \/ text' = disk[reading] /\ UNCHANGED <<reading, touched>>
  PROVE  TablesInv' /\ ReadInv' /\ PendingInv'
<1> USE DEF IndexInv
<1>1. TablesInv'
  BY SoundSame, SavedSame DEF TablesInv
<1>2. ReadInv'
  BY DEF ReadInv, TypeInv, TypeOK
<1>3. PendingInv'
  <2>1. \A f : RightRow(f)' <=> RightRow(f)
    BY DEF RightRow
  <2>2. removed \subseteq File
    BY DEF TypeInv, TypeOK
  <2>3. QED
    BY <2>1, <2>2 DEF PendingInv
<1>4. QED
  BY <1>1, <1>2, <1>3

LEMMA IndexNext == IndexInv /\ [Next]_vars => IndexInv'
<1> SUFFICES ASSUME IndexInv, [Next]_vars PROVE TablesInv' /\ ReadInv' /\ PendingInv'
  BY TypeNext DEF IndexInv
<1>1. ASSUME NEW f \in File, NEW content \in Content, EditFile(f, content)
      PROVE  TablesInv' /\ ReadInv' /\ PendingInv'
  BY <1>1, EditSound
<1>2. CASE Signal
  <2>1. queue' # << >>
    BY <1>2 DEF Signal, IndexInv, TypeInv, TypeOK, Mode
  <2>2. QED
    BY <1>2, <2>1, QuietSound DEF Signal, indexing, tables, Told
<1>3. CASE Start
  <2>1. CASE built
    BY <1>3, <2>1, QuietSound DEF Start, indexing, tables, Told
  <2>2. CASE ~built
    BY <1>3, <2>2, BeginSound DEF Start, Mode
  <2>3. QED
    BY <2>1, <2>2
<1>4. ASSUME NEW m \in Mode, RebuildProjectIndex(m) PROVE TablesInv' /\ ReadInv' /\ PendingInv'
  BY <1>4, BeginSound DEF RebuildProjectIndex
<1>5. CASE TakeFromQueue
  <2>1. Head(queue) \in Mode
    BY <1>5 DEF TakeFromQueue, IndexInv, TypeInv, TypeOK
  <2>2. QED
    BY <1>5, <2>1, BeginSound DEF TakeFromQueue
<1>6. CASE IndexStep
  <2>1. ASSUME NEW c \in Card, RemoveCard(c) \/ WriteCard(c) \/ WriteRelations(c)
        PROVE  TablesInv' /\ ReadInv' /\ PendingInv'
    BY <2>1, RemoveCardSound, WriteCardSound, WriteRelationsSound
  <2>2. ASSUME NEW f \in File, StatFile(f) PROVE TablesInv' /\ ReadInv' /\ PendingInv'
    BY <2>2, QuietSound DEF StatFile, tables, Told
  <2>3. CASE ReadFile
    BY <2>3, QuietSound DEF ReadFile, tables, Told
  <2>4. ASSUME NEW f \in Code, WriteCode(f) \/ RemoveCode(f)
        PROVE  TablesInv' /\ ReadInv' /\ PendingInv'
    BY <2>4, CodeSound
  <2>5. CASE Finish
    BY <2>5, QuietSound DEF Finish, indexing, tables, Told
  <2>6. CASE Reject
    BY <2>6, AbortSound DEF Reject, Rejected
  <2>7. QED
    BY <1>6, <2>1, <2>2, <2>3, <2>4, <2>5, <2>6 DEF IndexStep
<1>7. CASE Fail
  BY <1>7, AbortSound DEF Fail, Rejected
<1>8. CASE Crash
  <2>1. CASE queue # << >> \/ mode # "idle"
    BY <1>8, <2>1, AbortSound DEF Crash
  <2>2. CASE queue = << >> /\ mode = "idle"
    <3>1. UNCHANGED <<removed, changed, queue, failed, cards, relations, tracked, disk>>
      BY <1>8, <2>2 DEF Crash, Abort, IndexInv, TypeInv, PhaseInv
    <3>2. missed' = missed
      BY <1>8, <2>2 DEF Crash, IndexInv, TypeInv, TypeOK
    <3>3. text' = Absent /\ touched' = FALSE /\ saved' = Cleared
      BY <1>8 DEF Crash, Abort
    <3>4. QED
      BY <3>1, <3>2, <3>3, QuietSound DEF Told
  <2>3. QED
    BY <2>1, <2>2
<1>9. CASE UNCHANGED vars
  BY <1>9, QuietSound DEF vars, indexing, tables, Told
<1>10. QED
  BY <1>1, <1>2, <1>3, <1>4, <1>5, <1>6, <1>7, <1>8, <1>9 DEF Next

-----------------------------------------------------------------------------
(* Relations come in pairs, an edge and its reverse, between cards that     *)
(* have rows, at every step of a reindex of either mode.                    *)
THEOREM PairedCorrect == Spec => []RelationsPaired
<1>1. IndexInv => RelationsPaired
  <2> SUFFICES ASSUME IndexInv, NEW r \in relations
               PROVE  /\ <<r[2], r[1], ~r[3]>> \in relations
                      /\ {r[1], r[2]} \subseteq Existing
    BY DEF RelationsPaired
  <2>1. r[1] \in Card /\ r[2] \in Card
    BY TablesType DEF IndexInv, TypeInv, TypeOK
  <2>2. QED
    BY <2>1 DEF IndexInv, TablesInv, Sound, Paired, CurrentTables, Existing
<1>2. QED
  BY <1>1, IndexInit, IndexNext, PTL DEF Spec

(* What file_state takes for up to date has been indexed as it is, however  *)
(* the file was edited while it was read.                                   *)
THEOREM FreshCorrect == Spec => []FreshIsIndexed
<1>1. IndexInv => FreshIsIndexed
  BY DEF IndexInv, TablesInv, Sound, Fresh, CurrentTables, FreshIsIndexed
<1>2. QED
  BY <1>1, IndexInit, IndexNext, PTL DEF Spec

(* When the watcher is at rest and its last reindex did not fail, there is  *)
(* a row for every file, of its content, and none without: for every file   *)
(* but those that changed since the last scan with no event to tell of it.  *)
THEOREM RowsCorrect == Spec => []RowsFollowFiles
<1>1. IndexInv => RowsFollowFiles
  <2> SUFFICES ASSUME IndexInv, UpToDate
               PROVE  /\ \A c \in Card \ missed : cards[c] = disk[c]
                      /\ \A f \in File \ missed : tracked[f] # "none" <=> disk[f] # Absent
    BY DEF RowsFollowFiles
  <2>1. removed = {} /\ changed = {} /\ ~failed /\ \A f \in File \ missed : ~Told(f)
    BY DEF UpToDate, IndexInv, TypeInv, PhaseInv, Told
  <2>2. \A f \in File \ missed : RightRow(f)
    BY <2>1 DEF IndexInv, PendingInv
  <2>3. QED
    BY <2>2 DEF RightRow, File
<1>2. QED
  BY <1>1, IndexInit, IndexNext, PTL DEF Spec

-----------------------------------------------------------------------------
(* The relations and the links, at every step and in the tables to which a  *)
(* full reindex would be rolled back.  `busy` holds the cards whose row is  *)
(* newer than their relations: those that wait for them in this reindex,    *)
(* and those of a reindex that broke off.                                   *)

(* An indexed file has no edge to a card without a row; if that card gets   *)
(* one, the edge is missing until the file is indexed again.                *)
OlderRight(t, busy) ==
  \A f \in File \ busy, c \in Card : t.tracked[f] # "none" /\ t.cards[c] = Absent => <<f, c>> \in t.older

RelationsRight(t, busy) ==
  \A s \in Card \ busy, c \in Card :
    <<s, c, FALSE>> \in t.relations <=>
      t.cards[s] # Absent /\ c \in t.cards[s] /\ t.cards[c] # Absent /\ <<s, c>> \notin t.older

LinksRight(t) ==
  /\ \A l \in t.links : t.cards[l[1]] # Absent /\ t.tracked[l[2]] # "none"
  /\ \A f \in Code : t.tracked[f] = "fresh" =>
       /\ disk[f] # Absent
       /\ \A c \in Card : <<c, f>> \in t.links <=>
                            c \in disk[f] /\ t.cards[c] # Absent /\ <<f, c>> \notin t.older

EdgesRight(t, busy) == OlderRight(t, busy) /\ RelationsRight(t, busy) /\ LinksRight(t)

(* Any source file that has changed since it was read is still to be        *)
(* indexed.                                                                 *)
StaleIsPending ==
  ~failed => \A f \in Code : f \in removed \cup changed \/ tracked[f] # "stale" \/ Told(f)

EdgesInv ==
  /\ EdgesRight(CurrentTables, halfDone \cup rebuilt)
  /\ EdgesRight(saved, saved.halfDone)
  /\ StaleIsPending

LEMMA EdgesSame ==
  ASSUME UNCHANGED <<disk, cards, relations, links, tracked, older>>,
         halfDone \cup rebuilt \subseteq halfDone' \cup rebuilt',
         EdgesRight(CurrentTables, halfDone \cup rebuilt)
  PROVE  EdgesRight(CurrentTables, halfDone \cup rebuilt)'
BY DEF EdgesRight, OlderRight, RelationsRight, LinksRight, CurrentTables

LEMMA SavedEdgesSame ==
  ASSUME UNCHANGED disk, saved' = saved \/ saved' = Cleared, EdgesRight(saved, saved.halfDone)
  PROVE  EdgesRight(saved, saved.halfDone)'
<1>1. CASE saved' = saved
  BY <1>1 DEF EdgesRight, OlderRight, RelationsRight, LinksRight
<1>2. CASE saved' = Cleared
  BY <1>2 DEF EdgesRight, OlderRight, RelationsRight, LinksRight, Cleared, File
<1>3. QED
  BY <1>1, <1>2

LEMMA EdgesInit == Init => EdgesInv
<1> SUFFICES ASSUME Init PROVE EdgesInv
  OBVIOUS
<1>1. CurrentTables = Cleared /\ saved = Cleared /\ tracked = Cleared.tracked
  BY DEF Init, CurrentTables, Cleared
<1>2. EdgesRight(CurrentTables, halfDone \cup rebuilt) /\ EdgesRight(saved, saved.halfDone)
  BY <1>1 DEF EdgesRight, OlderRight, RelationsRight, LinksRight, Cleared, File
<1>3. StaleIsPending
  BY <1>1 DEF StaleIsPending, Cleared, File
<1>4. QED
  BY <1>2, <1>3 DEF EdgesInv

LEMMA BeginEdges ==
  ASSUME IndexInv, EdgesInv, NEW m \in Mode, Begin(m), UNCHANGED disk
  PROVE  EdgesInv'
<1>1. rebuilt = {} /\ rebuilt' = {}
  BY DEF Begin, IndexInv, TypeInv, PhaseInv
<1>2. CASE m = "full"
  <2>1. SetTables(Cleared) /\ saved' = CurrentTables
    BY <1>2 DEF Begin
  <2>2. CurrentTables' = Cleared /\ tracked' = Cleared.tracked
    BY <2>1, ClearedType, SetTablesType DEF SetTables
  <2>3. EdgesRight(CurrentTables, halfDone \cup rebuilt)'
    BY <2>2 DEF EdgesRight, OlderRight, RelationsRight, LinksRight, Cleared, File
  <2>4. EdgesRight(CurrentTables, halfDone) /\ CurrentTables.halfDone = halfDone
    BY <1>1 DEF EdgesInv, CurrentTables
  <2>5. EdgesRight(saved, saved.halfDone)'
    BY <2>1, <2>4 DEF EdgesRight, OlderRight, RelationsRight, LinksRight
  <2>6. StaleIsPending'
    BY <2>2 DEF StaleIsPending, Cleared, File
  <2>7. QED
    BY <2>3, <2>5, <2>6 DEF EdgesInv
<1>3. CASE m # "full"
  <2>1. UNCHANGED <<tables, saved>> /\ removed' = Gone /\ changed' = Changed(m)
    BY <1>3 DEF Begin
  <2>2. EdgesRight(CurrentTables, halfDone \cup rebuilt)'
    BY <1>1, <2>1, EdgesSame DEF EdgesInv, tables
  <2>3. EdgesRight(saved, saved.halfDone)'
    BY <2>1, SavedEdgesSame DEF EdgesInv
  <2>4. StaleIsPending'
    BY <2>1 DEF StaleIsPending, Gone, Changed, tables, File
  <2>5. QED
    BY <2>2, <2>3, <2>4 DEF EdgesInv
<1>4. QED
  BY <1>2, <1>3

LEMMA AbortEdges ==
  ASSUME IndexInv, EdgesInv, Abort, failed' \/ missed' = File
  PROVE  EdgesInv'
<1>1. disk' = disk /\ saved' = Cleared
  BY DEF Abort
<1>2. EdgesRight(saved, saved.halfDone)'
  BY <1>1, SavedEdgesSame DEF EdgesInv
<1>3. EdgesRight(CurrentTables, halfDone \cup rebuilt)'
  <2>1. CASE mode = "full"
    <3>1. CurrentTables' = saved /\ halfDone' = saved.halfDone /\ rebuilt' = {}
      BY <2>1, SetTablesType DEF Abort, SetTables, IndexInv, TypeInv, TypeOK
    <3>2. halfDone' \cup rebuilt' = saved.halfDone
      BY <3>1
    <3>3. QED
      BY <1>1, <3>1, <3>2 DEF EdgesInv, EdgesRight, OlderRight, RelationsRight, LinksRight
  <2>2. CASE mode # "full"
    BY <1>1, <2>2, EdgesSame DEF Abort, EdgesInv
  <2>3. QED
    BY <2>1, <2>2
<1>4. StaleIsPending'
  BY DEF StaleIsPending, Told, File
<1>5. QED
  BY <1>2, <1>3, <1>4 DEF EdgesInv

(* An edit makes a file stale, and takes no edge away. *)
LEMMA EditEdges ==
  ASSUME IndexInv, EdgesInv, NEW f \in File, NEW content \in Content, EditFile(f, content)
  PROVE  EdgesInv'
<1>1. Told(f)' /\ \A g \in File : Told(g) => Told(g)'
  BY EditTells DEF IndexInv
<1>2. disk' = [disk EXCEPT ![f] = content] /\ disk \in [File -> Content]
  BY DEF EditFile, IndexInv, TypeInv, TypeOK, Disks
<1>3. EdgesRight(CurrentTables, halfDone \cup rebuilt)'
  <2>1. tracked' = Outdated(tracked, f) /\ UNCHANGED <<cards, relations, links, halfDone, older, rebuilt>>
    BY DEF EditFile
  <2>2. tracked \in [File -> {"none", "stale", "fresh"}]
    BY TablesType DEF IndexInv, TypeInv, TypeOK
  <2>3. ASSUME NEW g \in File
        PROVE  /\ tracked'[g] = "none" <=> tracked[g] = "none"
               /\ tracked'[g] = "fresh" => tracked[g] = "fresh" /\ disk'[g] = disk[g]
    BY <1>2, <2>1, <2>2 DEF Outdated
  <2>4. links \in SUBSET (Card \X Code)
    BY TablesType DEF IndexInv, TypeInv, TypeOK
  <2>5. OlderRight(CurrentTables, halfDone \cup rebuilt)' /\ RelationsRight(CurrentTables, halfDone \cup rebuilt)'
    BY <2>1, <2>3 DEF EdgesInv, EdgesRight, OlderRight, RelationsRight, CurrentTables
  <2>6. LinksRight(CurrentTables)'
    BY <2>1, <2>3, <2>4 DEF EdgesInv, EdgesRight, LinksRight, CurrentTables, File
  <2>7. QED
    BY <2>5, <2>6 DEF EdgesRight
<1>4. EdgesRight(saved, saved.halfDone)'
  <2>1. saved' = [saved EXCEPT !.tracked = Outdated(@, f)] /\ saved \in Tables
    BY DEF EditFile, IndexInv, TypeInv, TypeOK
  <2>2. /\ saved'.cards = saved.cards /\ saved'.relations = saved.relations
        /\ saved'.links = saved.links /\ saved'.older = saved.older
        /\ saved'.halfDone = saved.halfDone
        /\ saved'.tracked = Outdated(saved.tracked, f)
        /\ saved.tracked \in [File -> {"none", "stale", "fresh"}]
        /\ saved.links \in SUBSET (Card \X Code)
    BY <2>1 DEF Tables
  <2>3. ASSUME NEW g \in File
        PROVE  /\ saved'.tracked[g] = "none" <=> saved.tracked[g] = "none"
               /\ saved'.tracked[g] = "fresh" => saved.tracked[g] = "fresh" /\ disk'[g] = disk[g]
    BY <1>2, <2>2 DEF Outdated
  <2>4. OlderRight(saved, saved.halfDone)' /\ RelationsRight(saved, saved.halfDone)'
    BY <2>2, <2>3 DEF EdgesInv, EdgesRight, OlderRight, RelationsRight
  <2>5. LinksRight(saved)'
    BY <2>2, <2>3 DEF EdgesInv, EdgesRight, LinksRight, File
  <2>6. QED
    BY <2>4, <2>5 DEF EdgesRight
<1>5. StaleIsPending'
  <2>1. UNCHANGED <<removed, changed, failed>>
    BY DEF EditFile
  <2>2. ASSUME NEW g \in Code, g # f PROVE tracked'[g] = tracked[g]
    BY <2>2, TablesType DEF EditFile, Outdated, File, IndexInv, TypeInv, TypeOK
  <2>3. Code \subseteq File
    BY DEF File
  <2>4. QED
    BY <1>1, <2>1, <2>2, <2>3 DEF EdgesInv, StaleIsPending
<1>6. QED
  BY <1>3, <1>4, <1>5 DEF EdgesInv

LEMMA CurrentTypes ==
  ASSUME IndexInv
  PROVE  /\ cards \in [Card -> {Absent} \cup Naming] /\ tracked \in [File -> {"none", "stale", "fresh"}]
         /\ relations \in SUBSET (Card \X Card \X BOOLEAN) /\ links \in SUBSET (Card \X Code)
         /\ halfDone \in SUBSET Card /\ rebuilt \in SUBSET Card
BY TablesType DEF IndexInv, TypeInv, TypeOK

(* The edges of the tables, file by file. *)
LEMMA CurrentEdges ==
  ASSUME EdgesInv
  PROVE  /\ \A f \in File \ (halfDone \cup rebuilt), d \in Card :
              tracked[f] # "none" /\ cards[d] = Absent => <<f, d>> \in older
         /\ \A s \in Card \ (halfDone \cup rebuilt), d \in Card :
              <<s, d, FALSE>> \in relations <=>
                cards[s] # Absent /\ d \in cards[s] /\ cards[d] # Absent /\ <<s, d>> \notin older
         /\ \A l \in links : cards[l[1]] # Absent /\ tracked[l[2]] # "none"
         /\ \A f \in Code : tracked[f] = "fresh" =>
              /\ disk[f] # Absent
              /\ \A d \in Card : <<d, f>> \in links <=>
                                   d \in disk[f] /\ cards[d] # Absent /\ <<f, d>> \notin older
BY DEF EdgesInv, EdgesRight, OlderRight, RelationsRight, LinksRight, CurrentTables

LEMMA RemoveCardEdges ==
  ASSUME IndexInv, EdgesInv, NEW c \in Card, RemoveCard(c)
  PROVE  EdgesInv'
<1>1. /\ cards' = [cards EXCEPT ![c] = Absent] /\ tracked' = [tracked EXCEPT ![c] = "none"]
      /\ UNCHANGED <<disk, saved>> /\ rebuilt = {} /\ rebuilt' = {}
      /\ halfDone' = halfDone \ {c} /\ c \in File /\ c \notin Code
  BY IndexAssumption DEF RemoveCard, File, IndexInv, TypeInv, PhaseInv
<1>2. \A f \in File, d \in Card :
        <<f, d>> \in older' <=> f # c /\ (<<f, d>> \in older \/ (d = c /\ tracked[f] # "none"))
  BY DEF RemoveCard
<1>3. \A s, d \in Card : <<s, d, FALSE>> \in relations' <=> <<s, d, FALSE>> \in relations /\ s # c /\ d # c
  BY DEF RemoveCard, Forgotten
<1>4. \A l \in links' : l \in links /\ l[1] # c /\ l[1] \in Card /\ l[2] \in Code
  BY CurrentTypes DEF RemoveCard
<1>5. \A d \in Card, f \in Code : <<d, f>> \in links' <=> <<d, f>> \in links /\ d # c
  BY DEF RemoveCard
<1>6. OlderRight(CurrentTables, halfDone \cup rebuilt)'
  BY <1>1, <1>2, CurrentTypes, CurrentEdges DEF OlderRight, CurrentTables
<1>7. RelationsRight(CurrentTables, halfDone \cup rebuilt)'
  <2>1. ASSUME NEW s \in Card, NEW d \in Card, s \notin halfDone' \cup rebuilt'
        PROVE  <<s, d, FALSE>> \in relations' <=>
                 cards'[s] # Absent /\ d \in cards'[s] /\ cards'[d] # Absent /\ <<s, d>> \notin older'
    <3>1. CASE s = c \/ d = c
      BY <1>1, <1>3, <3>1, CurrentTypes
    <3>2. CASE s # c /\ d # c
      <4>1. cards'[s] = cards[s] /\ cards'[d] = cards[d] /\ s \notin halfDone \cup rebuilt /\ s \in File
        BY <1>1, <2>1, <3>2, CurrentTypes DEF File
      <4>2. QED
        BY <1>2, <1>3, <3>2, <4>1, CurrentEdges
    <3>3. QED
      BY <3>1, <3>2
  <2>2. QED
    BY <2>1 DEF RelationsRight, CurrentTables
<1>8. LinksRight(CurrentTables)'
  <2>1. \A l \in links' : cards'[l[1]] # Absent /\ tracked'[l[2]] # "none"
    BY <1>1, <1>4, CurrentTypes, CurrentEdges DEF File
  <2>2. ASSUME NEW f \in Code, tracked'[f] = "fresh", NEW d \in Card
        PROVE  /\ disk'[f] # Absent
               /\ <<d, f>> \in links' <=> d \in disk'[f] /\ cards'[d] # Absent /\ <<f, d>> \notin older'
    <3>1. tracked[f] = "fresh" /\ f # c /\ f \in File
      BY <1>1, <2>2, CurrentTypes DEF File
    <3>2. QED
      BY <1>1, <1>2, <1>5, <3>1, CurrentTypes, CurrentEdges
  <2>3. ASSUME NEW f \in Code, tracked'[f] = "fresh" PROVE disk'[f] # Absent
    BY <2>2, <2>3
  <2>4. QED
    BY <2>1, <2>2, <2>3 DEF LinksRight, CurrentTables
<1>9. StaleIsPending'
  <2>1. UNCHANGED <<queue, missed, failed, changed>> /\ removed' = removed \ {c}
    BY DEF RemoveCard
  <2>2. \A f \in Code : tracked'[f] = tracked[f] /\ f # c
    BY <1>1, CurrentTypes DEF File
  <2>3. QED
    BY <2>1, <2>2 DEF EdgesInv, StaleIsPending, Told
<1>10. EdgesRight(saved, saved.halfDone)'
  BY <1>1, SavedEdgesSame DEF EdgesInv
<1>11. EdgesRight(CurrentTables, halfDone \cup rebuilt)'
  BY <1>6, <1>7, <1>8 DEF EdgesRight
<1>12. QED
  BY <1>9, <1>10, <1>11 DEF EdgesInv

(* A card that gets its first row is named by indexed files that have no    *)
(* edge to it, and these are on record as older.                            *)
LEMMA WriteCardEdges ==
  ASSUME IndexInv, EdgesInv, NEW c \in Card, WriteCard(c)
  PROVE  EdgesInv'
<1>1. /\ cards' = [cards EXCEPT ![c] = text] /\ tracked' = [tracked EXCEPT ![c] = State]
      /\ UNCHANGED <<disk, saved, relations, links, halfDone, older>> /\ rebuilt' = rebuilt \cup {c}
      /\ c \in File /\ c \notin Code /\ text # Absent /\ State # "none"
  BY IndexAssumption DEF WriteCard, Indexed, Readable, File, State
<1>2. cards'[c] # Absent /\ \A d \in Card : d # c => cards'[d] = cards[d]
  BY <1>1, CurrentTypes
<1>3. \A f \in File : f # c => tracked'[f] = tracked[f]
  BY <1>1, CurrentTypes
<1>4. \A f \in Code : tracked'[f] = tracked[f] /\ f \in File /\ f # c
  BY <1>1, <1>3 DEF File
<1>5. OlderRight(CurrentTables, halfDone \cup rebuilt)'
  BY <1>1, <1>2, <1>3, CurrentEdges DEF OlderRight, CurrentTables
<1>6. RelationsRight(CurrentTables, halfDone \cup rebuilt)'
  <2>1. ASSUME NEW s \in Card, NEW d \in Card, s \notin halfDone' \cup rebuilt'
        PROVE  <<s, d, FALSE>> \in relations <=>
                 cards'[s] # Absent /\ d \in cards'[s] /\ cards'[d] # Absent /\ <<s, d>> \notin older
    <3>1. s # c /\ s \in File /\ s \notin halfDone \cup rebuilt /\ cards'[s] = cards[s]
      BY <1>1, <1>2, <2>1 DEF File
    <3>2. <<s, d, FALSE>> \in relations <=>
            cards[s] # Absent /\ d \in cards[s] /\ cards[d] # Absent /\ <<s, d>> \notin older
      BY <3>1, CurrentEdges
    <3>3. CASE d # c \/ cards[d] # Absent
      BY <1>2, <3>1, <3>2, <3>3
    <3>4. CASE d = c /\ cards[d] = Absent
      <4>1. cards[s] # Absent => tracked[s] # "none"
        BY DEF IndexInv, TablesInv, Sound, Known, CurrentTables
      <4>2. cards[s] # Absent => <<s, d>> \in older
        BY <3>1, <3>4, <4>1, CurrentEdges
      <4>3. QED
        BY <3>1, <3>2, <3>4, <4>2
    <3>5. QED
      BY <3>3, <3>4
  <2>2. QED
    BY <1>1, <2>1 DEF RelationsRight, CurrentTables
<1>7. LinksRight(CurrentTables)'
  <2>1. \A l \in links : cards'[l[1]] # Absent /\ tracked'[l[2]] # "none"
    <3>1. \A l \in links : l[1] \in Card /\ l[2] \in Code
      BY CurrentTypes
    <3>2. QED
      BY <1>2, <1>4, <3>1, CurrentEdges
  <2>2. ASSUME NEW f \in Code, tracked'[f] = "fresh"
        PROVE  /\ disk[f] # Absent
               /\ \A d \in Card : <<d, f>> \in links <=>
                                    d \in disk[f] /\ cards'[d] # Absent /\ <<f, d>> \notin older
    <3>1. tracked[f] = "fresh" /\ f \in File /\ f \notin halfDone \cup rebuilt
      BY <1>4, <2>2, CurrentTypes, IndexAssumption
    <3>2. ASSUME NEW d \in Card
          PROVE  <<d, f>> \in links <=> d \in disk[f] /\ cards'[d] # Absent /\ <<f, d>> \notin older
      <4>1. <<d, f>> \in links <=> d \in disk[f] /\ cards[d] # Absent /\ <<f, d>> \notin older
        BY <3>1, CurrentEdges
      <4>2. cards[d] = Absent => <<f, d>> \in older
        BY <3>1, CurrentEdges
      <4>3. cards[d] # Absent => cards'[d] # Absent
        BY <1>2
      <4>4. QED
        BY <4>1, <4>2, <4>3
    <3>3. QED
      BY <3>1, <3>2, CurrentEdges
  <2>3. QED
    BY <1>1, <2>1, <2>2 DEF LinksRight, CurrentTables
<1>8. StaleIsPending'
  <2>1. UNCHANGED <<queue, missed, failed, removed>> /\ changed' = changed \ {c}
    BY DEF WriteCard, Indexed
  <2>2. QED
    BY <1>4, <2>1 DEF EdgesInv, StaleIsPending, Told
<1>9. EdgesRight(saved, saved.halfDone)'
  BY <1>1, SavedEdgesSame DEF EdgesInv
<1>10. EdgesRight(CurrentTables, halfDone \cup rebuilt)'
  BY <1>5, <1>6, <1>7 DEF EdgesRight
<1>11. QED
  BY <1>8, <1>9, <1>10 DEF EdgesInv

LEMMA WriteRelationsEdges ==
  ASSUME IndexInv, EdgesInv, NEW c \in Card, WriteRelations(c)
  PROVE  EdgesInv'
<1>1. /\ UNCHANGED <<disk, cards, tracked, links, saved>> /\ c \in File /\ c \notin Code
      /\ rebuilt' = rebuilt \ {c} /\ halfDone' = halfDone \ {c}
  BY IndexAssumption DEF WriteRelations, File
<1>2. cards[c] # Absent
  BY DEF WriteRelations, IndexInv, TypeInv, TypeOK
<1>3. \A f \in File, d \in Card :
        <<f, d>> \in older' <=> IF f = c THEN cards[d] = Absent ELSE <<f, d>> \in older
  BY DEF WriteRelations, Existing
<1>4. \A s, d \in Card : <<s, d, FALSE>> \in Edges(c) <=> s = c /\ d \in cards[c] /\ cards[d] # Absent
  BY DEF Edges, Existing
<1>5. \A s, d \in Card : <<s, d, FALSE>> \in relations' <=>
        IF s = c THEN d \in cards[c] /\ cards[d] # Absent ELSE <<s, d, FALSE>> \in relations
  <2>1. \A s, d \in Card : <<s, d, FALSE>> \in Outgoing(c) <=> <<s, d, FALSE>> \in relations /\ s = c
    BY DEF Outgoing
  <2>2. relations' = (relations \ Outgoing(c)) \cup Edges(c)
    BY DEF WriteRelations
  <2>3. QED
    BY <1>4, <2>1, <2>2
<1>6. OlderRight(CurrentTables, halfDone \cup rebuilt)'
  BY <1>1, <1>3, CurrentEdges DEF OlderRight, CurrentTables
<1>7. RelationsRight(CurrentTables, halfDone \cup rebuilt)'
  <2>1. ASSUME NEW s \in Card, NEW d \in Card, s \notin halfDone' \cup rebuilt'
        PROVE  <<s, d, FALSE>> \in relations' <=>
                 cards[s] # Absent /\ d \in cards[s] /\ cards[d] # Absent /\ <<s, d>> \notin older'
    <3>1. CASE s = c
      BY <1>1, <1>2, <1>3, <1>5, <3>1
    <3>2. CASE s # c
      <4>1. s \in File /\ s \notin halfDone \cup rebuilt
        BY <1>1, <2>1, <3>2 DEF File
      <4>2. <<s, d, FALSE>> \in relations <=>
              cards[s] # Absent /\ d \in cards[s] /\ cards[d] # Absent /\ <<s, d>> \notin older
        BY <4>1, CurrentEdges
      <4>3. QED
        BY <1>3, <1>5, <3>2, <4>1, <4>2
    <3>3. QED
      BY <3>1, <3>2
  <2>2. QED
    BY <1>1, <2>1 DEF RelationsRight, CurrentTables
<1>8. LinksRight(CurrentTables)'
  <2>1. \A f \in Code : f \in File /\ f # c
    BY <1>1 DEF File
  <2>2. QED
    BY <1>1, <1>3, <2>1, CurrentEdges DEF LinksRight, CurrentTables
<1>9. StaleIsPending'
  BY DEF WriteRelations, EdgesInv, StaleIsPending, Told
<1>10. EdgesRight(saved, saved.halfDone)'
  BY <1>1, SavedEdgesSame DEF EdgesInv
<1>11. EdgesRight(CurrentTables, halfDone \cup rebuilt)'
  BY <1>6, <1>7, <1>8 DEF EdgesRight
<1>12. QED
  BY <1>9, <1>10, <1>11 DEF EdgesInv

(* A source file whose row says that it is as it was read has the links of  *)
(* what is on disk.                                                         *)
LEMMA WriteCodeEdges ==
  ASSUME IndexInv, EdgesInv, NEW f \in Code, WriteCode(f)
  PROVE  EdgesInv'
<1>1. /\ UNCHANGED <<disk, cards, relations, halfDone, rebuilt, saved>>
      /\ tracked' = [tracked EXCEPT ![f] = State] /\ f \in File /\ f \notin Card
      /\ reading = f /\ reading # Absent /\ text # Absent /\ State # "none"
  BY IndexAssumption DEF WriteCode, Indexed, Readable, State, File
<1>2. tracked'[f] = State /\ \A g \in File : g # f => tracked'[g] = tracked[g]
  BY <1>1, CurrentTypes
<1>3. \A g \in File, d \in Card :
        <<g, d>> \in older' <=> IF g = f THEN cards[d] = Absent ELSE <<g, d>> \in older
  BY DEF WriteCode, Existing
<1>4. \A g \in Code, d \in Card :
        <<d, g>> \in links' <=> IF g = f THEN d \in text /\ cards[d] # Absent ELSE <<d, g>> \in links
  BY DEF WriteCode, Existing
<1>5. \A l \in links' : l[1] \in Card /\ l[2] \in Code /\ cards[l[1]] # Absent /\ (l[2] = f \/ l \in links)
  BY CurrentTypes, CurrentEdges DEF WriteCode, Existing
<1>6. OlderRight(CurrentTables, halfDone \cup rebuilt)'
  BY <1>1, <1>2, <1>3, CurrentEdges DEF OlderRight, CurrentTables
<1>7. RelationsRight(CurrentTables, halfDone \cup rebuilt)'
  <2>1. \A s, d \in Card : <<s, d>> \in older' <=> <<s, d>> \in older
    BY <1>1, <1>3 DEF File
  <2>2. QED
    BY <1>1, <2>1, CurrentEdges DEF RelationsRight, CurrentTables
<1>8. LinksRight(CurrentTables)'
  <2>1. \A l \in links' : cards[l[1]] # Absent /\ tracked'[l[2]] # "none"
    BY <1>1, <1>2, <1>5, CurrentEdges DEF File
  <2>2. ASSUME NEW g \in Code, tracked'[g] = "fresh"
        PROVE  /\ disk[g] # Absent
               /\ \A d \in Card : <<d, g>> \in links' <=>
                                    d \in disk[g] /\ cards[d] # Absent /\ <<g, d>> \notin older'
    <3>1. CASE g = f
      <4>1. text = disk[f]
        BY <1>1, <1>2, <2>2, <3>1 DEF State, IndexInv, ReadInv
      <4>2. QED
        BY <1>1, <1>3, <1>4, <3>1, <4>1
    <3>2. CASE g # f
      <4>1. tracked[g] = "fresh" /\ g \in File
        BY <1>2, <2>2, <3>2 DEF File
      <4>2. QED
        BY <1>3, <1>4, <3>2, <4>1, CurrentEdges
    <3>3. QED
      BY <3>1, <3>2
  <2>3. QED
    BY <1>1, <2>1, <2>2 DEF LinksRight, CurrentTables
<1>9. StaleIsPending'
  <2>1. UNCHANGED <<queue, missed, failed, removed>> /\ changed' = changed \ {f}
    BY DEF WriteCode, Indexed
  <2>2. ~Told(f) => tracked'[f] = "fresh"
    BY <1>1, <1>2 DEF State, IndexInv, ReadInv
  <2>3. \A g \in Code : g # f => tracked'[g] = tracked[g]
    BY <1>2 DEF File
  <2>4. QED
    BY <2>1, <2>2, <2>3 DEF EdgesInv, StaleIsPending, Told
<1>10. EdgesRight(saved, saved.halfDone)'
  BY <1>1, SavedEdgesSame DEF EdgesInv
<1>11. EdgesRight(CurrentTables, halfDone \cup rebuilt)'
  BY <1>6, <1>7, <1>8 DEF EdgesRight
<1>12. QED
  BY <1>9, <1>10, <1>11 DEF EdgesInv

LEMMA RemoveCodeEdges ==
  ASSUME IndexInv, EdgesInv, NEW f \in Code, RemoveCode(f)
  PROVE  EdgesInv'
<1>1. /\ UNCHANGED <<disk, cards, relations, halfDone, rebuilt, older, saved>>
      /\ tracked' = [tracked EXCEPT ![f] = "none"] /\ f \in File /\ f \notin Card
      /\ links' = {l \in links : l[2] # f}
  BY IndexAssumption DEF RemoveCode, File
<1>2. tracked'[f] = "none" /\ \A g \in File : g # f => tracked'[g] = tracked[g]
  BY <1>1, CurrentTypes
<1>3. OlderRight(CurrentTables, halfDone \cup rebuilt)' /\ RelationsRight(CurrentTables, halfDone \cup rebuilt)'
  BY <1>1, <1>2, CurrentEdges DEF OlderRight, RelationsRight, CurrentTables
<1>4. LinksRight(CurrentTables)'
  <2>1. \A l \in links' : cards[l[1]] # Absent /\ tracked'[l[2]] # "none"
    BY <1>1, <1>2, CurrentTypes, CurrentEdges DEF File
  <2>2. ASSUME NEW g \in Code, tracked'[g] = "fresh"
        PROVE  /\ disk[g] # Absent
               /\ \A d \in Card : <<d, g>> \in links' <=>
                                    d \in disk[g] /\ cards[d] # Absent /\ <<g, d>> \notin older
    <3>1. g # f /\ tracked[g] = "fresh"
      BY <1>2, <2>2 DEF File
    <3>2. \A d \in Card : <<d, g>> \in links' <=> <<d, g>> \in links
      BY <1>1, <3>1
    <3>3. QED
      BY <3>1, <3>2, CurrentEdges
  <2>3. QED
    BY <1>1, <2>1, <2>2 DEF LinksRight, CurrentTables
<1>5. StaleIsPending'
  <2>1. UNCHANGED <<queue, missed, failed, changed>> /\ removed' = removed \ {f}
    BY DEF RemoveCode
  <2>2. \A g \in Code : tracked'[g] = "none" \/ (g # f /\ tracked'[g] = tracked[g])
    BY <1>2 DEF File
  <2>3. QED
    BY <2>1, <2>2 DEF EdgesInv, StaleIsPending, Told
<1>6. EdgesRight(saved, saved.halfDone)'
  BY <1>1, SavedEdgesSame DEF EdgesInv
<1>7. EdgesRight(CurrentTables, halfDone \cup rebuilt)'
  BY <1>3, <1>4 DEF EdgesRight
<1>8. QED
  BY <1>5, <1>6, <1>7 DEF EdgesInv

LEMMA QuietEdges ==
  ASSUME EdgesInv, UNCHANGED <<disk, tables, rebuilt, removed, changed, failed>>,
         saved' = saved \/ saved' = Cleared,
         \A f \in File : Told(f) => Told(f)'
  PROVE  EdgesInv'
<1>1. EdgesRight(CurrentTables, halfDone \cup rebuilt)'
  BY EdgesSame DEF EdgesInv, tables
<1>2. EdgesRight(saved, saved.halfDone)'
  BY SavedEdgesSame DEF EdgesInv
<1>3. StaleIsPending'
  BY DEF EdgesInv, StaleIsPending, tables, File
<1>4. QED
  BY <1>1, <1>2, <1>3 DEF EdgesInv

LEMMA EdgesNext == IndexInv /\ EdgesInv /\ [Next]_vars => EdgesInv'
<1> SUFFICES ASSUME IndexInv, EdgesInv, [Next]_vars PROVE EdgesInv'
  OBVIOUS
<1>1. ASSUME NEW f \in File, NEW content \in Content, EditFile(f, content) PROVE EdgesInv'
  BY <1>1, EditEdges
<1>2. CASE Signal
  <2>1. queue' # << >>
    BY <1>2 DEF Signal, IndexInv, TypeInv, TypeOK, Mode
  <2>2. QED
    BY <1>2, <2>1, QuietEdges DEF Signal, indexing, Told
<1>3. CASE Start
  <2>1. CASE built
    BY <1>3, <2>1, QuietEdges DEF Start, indexing, Told
  <2>2. CASE ~built
    BY <1>3, <2>2, BeginEdges DEF Start, Mode
  <2>3. QED
    BY <2>1, <2>2
<1>4. ASSUME NEW m \in Mode, RebuildProjectIndex(m) PROVE EdgesInv'
  BY <1>4, BeginEdges DEF RebuildProjectIndex
<1>5. CASE TakeFromQueue
  <2>1. Head(queue) \in Mode
    BY <1>5 DEF TakeFromQueue, IndexInv, TypeInv, TypeOK
  <2>2. QED
    BY <1>5, <2>1, BeginEdges DEF TakeFromQueue
<1>6. CASE IndexStep
  <2>1. ASSUME NEW c \in Card, RemoveCard(c) \/ WriteCard(c) \/ WriteRelations(c) PROVE EdgesInv'
    BY <2>1, RemoveCardEdges, WriteCardEdges, WriteRelationsEdges
  <2>2. ASSUME NEW f \in File, StatFile(f) PROVE EdgesInv'
    BY <2>2, QuietEdges DEF StatFile, Told
  <2>3. CASE ReadFile
    BY <2>3, QuietEdges DEF ReadFile, Told
  <2>4. ASSUME NEW f \in Code, WriteCode(f) \/ RemoveCode(f) PROVE EdgesInv'
    BY <2>4, WriteCodeEdges, RemoveCodeEdges
  <2>5. CASE Finish
    BY <2>5, QuietEdges DEF Finish, indexing, Told
  <2>6. CASE Reject
    BY <2>6, AbortEdges DEF Reject, Rejected
  <2>7. QED
    BY <1>6, <2>1, <2>2, <2>3, <2>4, <2>5, <2>6 DEF IndexStep
<1>7. CASE Fail
  BY <1>7, AbortEdges DEF Fail, Rejected
<1>8. CASE Crash
  <2>1. CASE queue # << >> \/ mode # "idle"
    BY <1>8, <2>1, AbortEdges DEF Crash
  <2>2. CASE queue = << >> /\ mode = "idle"
    <3>1. rebuilt = {} /\ UNCHANGED <<removed, changed, rebuilt, queue, failed, disk>>
      BY <1>8, <2>2 DEF Crash, Abort, IndexInv, TypeInv, PhaseInv
    <3>2. UNCHANGED tables
      BY <1>8, <2>2, <3>1 DEF Crash, Abort, tables
    <3>3. missed' = missed /\ saved' = Cleared
      BY <1>8, <2>2 DEF Crash, Abort, IndexInv, TypeInv, TypeOK
    <3>4. QED
      BY <3>1, <3>2, <3>3, QuietEdges DEF Told
  <2>3. QED
    BY <2>1, <2>2
<1>9. CASE UNCHANGED vars
  BY <1>9, QuietEdges DEF vars, indexing, Told
<1>10. QED
  BY <1>1, <1>2, <1>3, <1>4, <1>5, <1>6, <1>7, <1>8, <1>9 DEF Next

(* When the watcher is at rest and its last reindex did not fail, the       *)
(* relations are exactly those of the rows, and the links those of every    *)
(* source file that has not changed unheard of since the last scan: except  *)
(* to cards that were created or came back after the file was indexed, and  *)
(* of cards whose reindex broke off between their row and their relations.  *)
THEOREM EdgesCorrect == Spec => []EdgesFollowRows
<1>1. IndexInv /\ EdgesInv => EdgesFollowRows
  <2> SUFFICES ASSUME IndexInv, EdgesInv, UpToDate
               PROVE  /\ \A s \in Card \ halfDone, t \in Card :
                           <<s, t, FALSE>> \in relations <=>
                             s \in Existing /\ t \in cards[s] \cap Existing /\ <<s, t>> \notin older
                      /\ \A f \in Code \ missed, t \in Card :
                           <<t, f>> \in links <=>
                             disk[f] # Absent /\ t \in disk[f] \cap Existing /\ <<f, t>> \notin older
    BY DEF EdgesFollowRows
  <2>1. removed = {} /\ changed = {} /\ rebuilt = {} /\ ~failed /\ \A f \in File \ missed : ~Told(f)
    BY DEF UpToDate, IndexInv, TypeInv, PhaseInv, Told
  <2>2. \A f \in Code \ missed : f \in File /\ RightRow(f) /\ tracked[f] # "stale"
    BY <2>1 DEF IndexInv, PendingInv, EdgesInv, StaleIsPending, File
  <2>3. ASSUME NEW s \in Card \ halfDone, NEW t \in Card
        PROVE  <<s, t, FALSE>> \in relations <=>
                 s \in Existing /\ t \in cards[s] \cap Existing /\ <<s, t>> \notin older
    BY <2>1, CurrentEdges DEF Existing
  <2>4. ASSUME NEW f \in Code \ missed, NEW t \in Card
        PROVE  <<t, f>> \in links <=>
                 disk[f] # Absent /\ t \in disk[f] \cap Existing /\ <<f, t>> \notin older
    <3>1. CASE disk[f] = Absent
      <4>1. tracked[f] = "none"
        BY <2>2, <3>1 DEF RightRow
      <4>2. <<t, f>> \notin links
        BY <4>1, CurrentEdges
      <4>3. QED
        BY <3>1, <4>2
    <3>2. CASE disk[f] # Absent
      <4>1. tracked[f] = "fresh"
        BY <2>2, <3>2, CurrentTypes DEF RightRow
      <4>2. QED
        BY <3>2, <4>1, CurrentEdges DEF Existing
    <3>3. QED
      BY <3>1, <3>2
  <2>5. QED
    BY <2>3, <2>4
<1>2. Init => IndexInv /\ EdgesInv
  BY IndexInit, EdgesInit
<1>3. (IndexInv /\ EdgesInv) /\ [Next]_vars => (IndexInv /\ EdgesInv)'
  BY IndexNext, EdgesNext
<1>4. QED
  BY <1>1, <1>2, <1>3, PTL DEF Spec
=============================================================================
