------------------------------ MODULE CardTools ------------------------------
(***************************************************************************)
(* The tools of the MCP server that write (packages/cli/src/mcp/server/    *)
(* mcp-server.ts), over the card files (mcp/card) and the source files     *)
(* that name cards in @see.                                                *)
(*                                                                         *)
(* A tool is an asynchronous function: each action below is what one of    *)
(* them does up to its next await.  Nothing keeps two calls apart, in one  *)
(* process or in two, so the calls under way take their steps in any       *)
(* order.  The tools with an underscore in their name reindex when they    *)
(* have written, over a connection of their own and past the queue of the  *)
(* watcher; the older ones (cardCreate, cardUpdate, ...) do not.           *)
(*                                                                         *)
(* indexProject() has a module of its own, CardIndex.  Here it is a scan,  *)
(* which says what has changed, and the writing of the rows.               *)
(*                                                                         *)
(* A key can be written in several ways: parseFullKey() (mcp/card/         *)
(* card-key.ts) takes "/a" and "a/" for the key "a", and the index reads   *)
(* "a" out of "@see a*/".  The paths of cards come from the key that is    *)
(* read; where the code compares or stores what the client or the file     *)
(* has, so does the model.  What no key can be read out of is left out.    *)
(***************************************************************************)
EXTENDS Naturals, FiniteSets

CONSTANTS
  Key,       \* keys of cards; the file of a card is named for its key
  Name,      \* the ways to write one that parseFullKey() accepts
  Text,      \* what stands between @see and the next white space
  KeyOf,     \* the key that is read out of each of them
  Code,      \* the source files
  Extends,   \* <<n, t>>: the text t begins with the name n
  Request,   \* the calls that clients make
  Initially, \* the cards and the source files there may be at the start
  Call,      \* the calls that may be under way together
  None,      \* no file, no row
  MaxCalls,  \* bound: how many calls there are
  MaxCrashes \* bound: how often the process dies

File == Key \cup Code

Status == {"draft", "accepted", "implementing", "implemented", "deprecated"}

Card == [key : Key, status : Status, relations : SUBSET Name, keyword : BOOLEAN]

Disk == [Key -> Card \cup {None}]

See == [Code -> SUBSET Text]

ASSUME ToolsAssumption ==
  /\ Key \cap Code = {}
  /\ None \notin File /\ None \notin Card /\ None \notin Request
  /\ Key \subseteq Name /\ Name \subseteq Text
  /\ KeyOf \in [Text -> Key] /\ \A k \in Key : KeyOf[k] = k
  /\ Extends \subseteq Name \X Text
  /\ Initially \subseteq Disk \X See
  /\ MaxCalls \in Nat /\ MaxCrashes \in Nat
  /\ \A r \in Request :
       /\ r.key \in Name /\ r.sync \in BOOLEAN
       /\ \/ r.op = "create" /\ r.arg \in BOOLEAN
          \/ r.op = "update" /\ r.arg \in SUBSET Name
          \/ r.op = "status" /\ r.arg \in Status
          \/ r.op = "delete"
          \/ r.op \in {"relate", "unrelate"} /\ r.arg \in Name
          \/ r.op = "rename" /\ r.arg \in Name /\ KeyOf[r.arg] # KeyOf[r.key]
          \/ r.op \in {"link", "unlink"} /\ r.arg \in Code
          \/ r.op \in {"keyword", "unkeyword"}
          \/ r.op = "index" /\ r.arg \in {"incremental", "full"}

VARIABLES
  disk,       \* the card files
  code,       \* what each source file has after its @see
  registered, \* is the keyword in the table keyword?
  index,      \* the tables that a reindex writes
  call,       \* the calls under way, and the last of each
  calls,      \* how many there have been
  crashes,
  sound       \* history: were the files in order at the start, and have the
              \* calls been made one after the other, of tools that reindex and
              \* with success, naming cards that exist by their own keys?

vars == <<disk, code, registered, index, call, calls, crashes, sound>>

Idle == [pc |-> "idle", request |-> None, held |-> None, left |-> {}, alone |-> TRUE]

Ended == {"idle", "done", "rejected"}

Running(c) == call[c].pc \notin Ended

Op(c) == call[c].request.op
Arg(c) == call[c].request.arg

(* The card of a call, as the client has written it and as it is read; the  *)
(* new key of a rename, which is read before it is used.                    *)
Asked(c) == call[c].request.key
Target(c) == KeyOf[Asked(c)]
NewKey(c) == KeyOf[Arg(c)]

Read(texts) == {KeyOf[t] : t \in texts}

(* rows: for each key the file that its row is of; fresh: the files that    *)
(* file_state knows with their hash and mtime.                             *)
Tables ==
  [rows : [Key -> Key \cup {None}],
   relations : SUBSET (Key \X Key),
   links : SUBSET (Key \X Code),
   tracked : SUBSET File,
   fresh : SUBSET File]

TypeOK ==
  /\ disk \in Disk /\ code \in See
  /\ registered \in BOOLEAN
  /\ index \in Tables
  /\ \A c \in Call :
       /\ call[c].request \in Request \cup {None}
       /\ call[c].alone \in BOOLEAN
       /\ call[c].left \subseteq File
       /\ Running(c) => call[c].request # None
  /\ calls \in 0 .. MaxCalls /\ crashes \in 0 .. MaxCrashes
  /\ sound \in BOOLEAN

Present(d) == {p \in Key : d[p] # None}

Torn(d) == {p \in Present(d) : d[p].key # p}

-----------------------------------------------------------------------------
(* What indexProject() leaves in the tables *)

(* Definitions named Faulty... are not part of the model: each is a slip     *)
(* that a property would catch in the definition after it.                  *)

(* deleteRemovedFile(), for each of the files that are gone. *)
Dropped(gone) ==
  LET keys == {k \in Key : index.rows[k] \in gone} IN
  [index EXCEPT !.rows = [k \in Key |-> IF k \in keys THEN None ELSE @[k]],
                !.relations = {r \in @ : r[1] \notin keys /\ r[2] \notin keys},
                !.links = {l \in @ : l[1] \notin keys},
                !.tracked = @ \ gone,
                !.fresh = @ \ gone]

(* clearIndexTables() *)
Cleared ==
  [rows |-> [k \in Key |-> None], relations |-> {}, links |-> {}, tracked |-> {}, fresh |-> {}]

(* Two files may hold the same key: the later one takes the row. *)
RowsOf(files) ==
  {rows \in [Key -> Key \cup {None}] :
     \A k \in Key : LET of == {p \in files \cap Key : disk[p].key = k}
                    IN IF of = {} THEN rows[k] = None ELSE rows[k] \in of}

(* The rows of the cards, then their relations, then the links of the       *)
(* source files, each only to a card that has a row by then.                *)
WithRows(t, files, rows) ==
  LET keys == {k \in Key : rows[k] # None}
      all == [k \in Key |-> IF k \in keys THEN rows[k] ELSE t.rows[k]]
      existing == {k \in Key : all[k] # None}
  IN [rows |-> all,
      relations |-> {r \in t.relations : r[1] \notin keys}
                      \cup {r \in keys \X existing : r[2] \in Read(disk[rows[r[1]]].relations)},
      links |-> {l \in t.links : l[2] \notin files}
                  \cup {l \in existing \X (files \cap Code) : l[1] \in Read(code[l[2]])},
      tracked |-> t.tracked \cup files,
      fresh |-> t.fresh \cup files]

-----------------------------------------------------------------------------
(* Calls *)

(* What a call writes into a file, as a relation or after @see. *)
Brings(request) ==
  CASE request.op = "update" -> request.arg
    [] request.op = "relate" -> {request.arg}
    [] request.op = "link" -> {request.key}
    [] OTHER -> {}

(* The two tools that look for the references to a card are given its key. *)
AsksByKey(request) == request.op \in {"delete", "rename"} => request.key \in Key

(* A call begins; from then on it and those under way are not alone. *)
Start(c, request) ==
  LET others == {d \in Call \ {c} : Running(d)}
      place == CASE request.op = "create" -> "exists"
                 [] request.op = "delete" -> IF request.sync THEN "references" ELSE "exists"
                 [] request.op = "rename" -> "exists"
                 [] request.op \in {"link", "unlink"} -> "readcode"
                 [] request.op \in {"keyword", "unkeyword"} -> "table"
                 [] request.op = "index" -> "scan"
                 [] OTHER -> "read"
      begun == [pc |-> place, request |-> request, held |-> None, left |-> {}, alone |-> others = {}]
  IN /\ ~Running(c)
     /\ calls < MaxCalls
     /\ calls' = calls + 1
     /\ call' = [d \in Call |-> IF d = c THEN begun
                                ELSE IF d \in others THEN [call[d] EXCEPT !.alone = FALSE]
                                ELSE call[d]]
     /\ sound' = (sound /\ others = {} /\ request.sync /\ AsksByKey(request)
                   /\ Brings(request) \subseteq Present(disk))
     /\ UNCHANGED <<disk, code, registered, index, crashes>>

At(c, pc) == call[c].pc = pc /\ UNCHANGED <<registered, calls, crashes>>

Keeps == UNCHANGED <<disk, code, index, sound>>

GoTo(c, pc) == call' = [call EXCEPT ![c].pc = pc]

(* Of a call that is over, its outcome and its request are kept. *)
Over(c, pc) == call' = [call EXCEPT ![c] = [@ EXCEPT !.pc = pc, !.held = None, !.left = {}]]

Reject(c) == Over(c, "rejected") /\ Keeps

Written(c) ==
  IF call[c].request.sync
  THEN call' = [call EXCEPT ![c] = [@ EXCEPT !.pc = "scan", !.held = None, !.left = {}]]
  ELSE Over(c, "done")

Unwritten(files) == index' = [index EXCEPT !.fresh = @ \ files]

PutCard(p, card) == disk' = [disk EXCEPT ![p] = card] /\ Unwritten({p}) /\ UNCHANGED <<code, sound>>

PutCode(f, text) == code' = [code EXCEPT ![f] = text] /\ Unwritten({f}) /\ UNCHANGED <<disk, sound>>

-----------------------------------------------------------------------------
(* cardCreate() *)

CreateExists(c) ==
  /\ At(c, "exists") /\ Op(c) = "create"
  /\ IF disk[Target(c)] # None THEN Reject(c)
     ELSE GoTo(c, "create") /\ Keeps

CreateWrite(c) ==
  /\ At(c, "create")
  /\ PutCard(Target(c), [key |-> Target(c), status |-> "draft", relations |-> {}, keyword |-> Arg(c)])
  /\ Written(c)

-----------------------------------------------------------------------------
(* cardUpdate(), cardUpdateStatus(), relationAddDefault(),                  *)
(* relationRemoveDefault(): the card is read and, in a later step, written. *)

FaultyAccepts(c, card) == TRUE

(* The two first compare the key in the file with what the client wrote. *)
Accepts(c, card) == Op(c) \in {"update", "status"} => card.key = Asked(c)

(* What the call writes for the card it has read. *)
Edited(c, card) ==
  CASE Op(c) = "update" -> [card EXCEPT !.relations = Arg(c)]
    [] Op(c) = "status" -> [card EXCEPT !.status = Arg(c)]
    [] Op(c) = "relate" -> [card EXCEPT !.relations = @ \cup {Arg(c)}]
    [] Op(c) = "unrelate" ->
         [card EXCEPT !.relations = IF @ \ {Arg(c)} = {} THEN @ ELSE @ \ {Arg(c)}]

ReadCard(c) ==
  LET card == disk[Target(c)] IN
  /\ At(c, "read")
  /\ IF card = None \/ (card # None /\ ~Accepts(c, card))
     THEN Reject(c)
     ELSE /\ IF Op(c) = "unrelate" /\ Arg(c) \notin card.relations
             THEN Written(c)
             ELSE call' = [call EXCEPT ![c] = [@ EXCEPT !.pc = "write", !.held = card]]
          /\ Keeps

WriteCard(c) ==
  /\ At(c, "write")
  /\ PutCard(Target(c), Edited(c, call[c].held))
  /\ Written(c)

-----------------------------------------------------------------------------
(* card_delete and cardDelete() *)

FaultyReferences(k) == {r \in index.relations : r[2] = k}

References(k) == {r \in index.relations : r[2] = k} \cup {l \in index.links : l[1] = k}

(* The reference check of card_delete, which asks the index, whose keys are *)
(* all as they are read, for what the client wrote.                         *)
DeleteReferences(c) ==
  /\ At(c, "references")
  /\ IF References(Asked(c)) # {} THEN Reject(c)
     ELSE GoTo(c, "exists") /\ Keeps

FileExists(c) ==
  /\ At(c, "exists") /\ Op(c) \in {"delete", "rename"}
  /\ IF disk[Target(c)] = None THEN Reject(c)
     ELSE /\ GoTo(c, IF Op(c) = "delete" THEN "unlink" ELSE "target")
          /\ Keeps

DeleteUnlink(c) ==
  /\ At(c, "unlink")
  /\ IF disk[Target(c)] = None THEN Reject(c)
     ELSE PutCard(Target(c), None) /\ Written(c)

-----------------------------------------------------------------------------
(* cardRename() and cardRenameEverywhereDefault() *)

RenameTarget(c) ==
  /\ At(c, "target")
  /\ IF disk[NewKey(c)] # None THEN Reject(c)
     ELSE GoTo(c, "move") /\ Keeps

(* rename() of the file system puts a file in the place of another. *)
RenameMove(c) ==
  LET k == Target(c) IN
  /\ At(c, "move")
  /\ IF disk[k] = None THEN Reject(c)
     ELSE /\ disk' = [disk EXCEPT ![k] = None, ![NewKey(c)] = disk[k]]
          /\ Unwritten({k, NewKey(c)})
          /\ GoTo(c, "reread")
          /\ UNCHANGED <<code, sound>>

RenameRead(c) ==
  LET card == disk[NewKey(c)] IN
  /\ At(c, "reread")
  /\ IF card = None THEN Reject(c)
     ELSE /\ call' = [call EXCEPT ![c] = [@ EXCEPT !.pc = "rewrite", !.held = card]]
          /\ Keeps

(* After this the glob finds the cards that the sweep is to visit. *)
RenameWrite(c) ==
  /\ At(c, "rewrite")
  /\ PutCard(NewKey(c), [call[c].held EXCEPT !.key = NewKey(c)])
  /\ IF call[c].request.sync
     THEN call' = [call EXCEPT ![c] =
                     [@ EXCEPT !.pc = "sweep", !.held = None, !.left = Present(disk) \cup {NewKey(c)}]]
     ELSE Over(c, "done")

FaultySwept(c) == call[c].left = {} /\ Written(c)

(* The sweep looks for what the client wrote, as it stands: in a relation   *)
(* for the same string, after @see for that and white space or the end.     *)
(* The cards have been visited, and the source files are next.              *)
Swept(c) == call[c].left = {} /\ call' = [call EXCEPT ![c] = [@ EXCEPT !.pc = "sweepcode", !.left = Code]]

SweepRead(c) ==
  /\ At(c, "sweep")
  /\ \/ Swept(c) /\ Keeps
     \/ \E p \in call[c].left :
          \/ disk[p] = None /\ Reject(c)
          \/ /\ disk[p] # None /\ Keeps
             /\ call' = [call EXCEPT ![c] =
                           IF Asked(c) \in disk[p].relations
                           THEN [@ EXCEPT !.pc = "patch", !.held = <<p, disk[p]>>, !.left = call[c].left \ {p}]
                           ELSE [@ EXCEPT !.left = call[c].left \ {p}]]

Renamed(c, names) == (names \ {Asked(c)}) \cup {NewKey(c)}

SweepWrite(c) ==
  LET p == call[c].held[1]
      card == call[c].held[2]
  IN /\ At(c, "patch")
     /\ PutCard(p, [card EXCEPT !.relations = Renamed(c, @)])
     /\ call' = [call EXCEPT ![c] = [@ EXCEPT !.pc = "sweep", !.held = None]]

SweepCodeRead(c) ==
  /\ At(c, "sweepcode")
  /\ Keeps
  /\ \/ call[c].left = {} /\ Written(c)
     \/ \E f \in call[c].left :
          call' = [call EXCEPT ![c] =
                     IF Asked(c) \in code[f]
                     THEN [@ EXCEPT !.pc = "patchcode", !.held = <<f, code[f]>>, !.left = call[c].left \ {f}]
                     ELSE [@ EXCEPT !.left = call[c].left \ {f}]]

SweepCodeWrite(c) ==
  /\ At(c, "patchcode")
  /\ PutCode(call[c].held[1], Renamed(c, call[c].held[2]))
  /\ call' = [call EXCEPT ![c] = [@ EXCEPT !.pc = "sweepcode", !.held = None]]

-----------------------------------------------------------------------------
(* linkAddDefault() and linkRemoveDefault() *)

(* removeSee() looks for what the client wrote without asking where it      *)
(* ends; ensureSeeBlock() asks.                                             *)
Matches(n) == {n} \cup {t \in Text : <<n, t>> \in Extends}

Relinked(c, texts) ==
  IF Op(c) = "link" THEN texts \cup {Asked(c)} ELSE texts \ Matches(Asked(c))

ReadCode(c) ==
  LET texts == code[Arg(c)] IN
  /\ At(c, "readcode")
  /\ IF Relinked(c, texts) = texts
     THEN Written(c)
     ELSE call' = [call EXCEPT ![c] = [@ EXCEPT !.pc = "writecode", !.held = texts]]
  /\ Keeps

WriteCode(c) ==
  /\ At(c, "writecode")
  /\ PutCode(Arg(c), Relinked(c, call[c].held))
  /\ Written(c)

-----------------------------------------------------------------------------
(* keyword_create and keyword_delete, or the same of tags, which do not     *)
(* reindex.                                                                 *)
Keyword(c) ==
  /\ call[c].pc = "table"
  /\ registered' = (Op(c) = "keyword")
  /\ Over(c, "done")
  /\ Keeps /\ UNCHANGED <<calls, crashes>>

-----------------------------------------------------------------------------
(* reindexAfterWrite(), and the tool indexProject *)

Mode(c) == IF Op(c) = "index" THEN Arg(c) ELSE IF Op(c) = "rename" THEN "full" ELSE "incremental"

Gone == {p \in index.tracked \cap Key : disk[p] = None}

FaultyOutdated(m) == (Present(disk) \cup Code) \ index.tracked

Outdated(m) == IF m = "full" THEN Present(disk) \cup Code ELSE (Present(disk) \cup Code) \ index.fresh

Scan(c) ==
  /\ At(c, "scan")
  /\ call' = [call EXCEPT ![c] = [@ EXCEPT !.pc = "index", !.left = Outdated(Mode(c)), !.held = Gone]]
  /\ Keeps

(* A card that is gone since, or has a keyword that is not in the table. *)
Refused(p) == p \in Key /\ (disk[p] = None \/ (disk[p] # None /\ disk[p].keyword /\ ~registered))

(* A full reindex that fails is rolled back; of an incremental one, the     *)
(* rows of cards that came before are there, without their relations.       *)
WriteIndex(c) ==
  LET files == call[c].left
      good == {p \in files : ~Refused(p)}
      tables == IF Mode(c) = "full" THEN Cleared ELSE Dropped(call[c].held)
  IN /\ At(c, "index")
     /\ \/ /\ good = files
           /\ \E rows \in RowsOf(files) : index' = WithRows(tables, files, rows)
           /\ Over(c, "done") /\ UNCHANGED sound
        \/ /\ good # files
           /\ IF Mode(c) = "full"
              THEN UNCHANGED index
              ELSE \E before \in SUBSET (good \cap Key) : \E rows \in RowsOf(before) :
                     index' = [WithRows(tables, before, rows) EXCEPT !.relations = tables.relations]
           /\ Over(c, "rejected") /\ sound' = FALSE
     /\ UNCHANGED <<disk, code>>

-----------------------------------------------------------------------------
(* The process dies: its calls end where they are. *)
Crash ==
  /\ crashes < MaxCrashes
  /\ \E c \in Call : Running(c)
  /\ crashes' = crashes + 1
  /\ call' = [c \in Call |-> Idle]
  /\ sound' = FALSE
  /\ UNCHANGED <<disk, code, registered, index, calls>>

(* Every relation and every @see is the key of a card that is there, and    *)
(* every card has the key of its file.                                      *)
InOrder ==
  /\ \A p \in Present(disk) : disk[p].relations \subseteq Present(disk)
  /\ \A f \in Code : code[f] \subseteq Present(disk)
  /\ Torn(disk) = {}

(* An index that is in step with the files. *)
Init ==
  /\ \E start \in Initially : disk = start[1] /\ code = start[2]
  /\ registered = TRUE
  /\ \E rows \in RowsOf(Present(disk) \cup Code) : index = WithRows(Cleared, Present(disk) \cup Code, rows)
  /\ call = [c \in Call |-> Idle]
  /\ calls = 0 /\ crashes = 0 /\ sound = InOrder

Step(c) ==
  \/ CreateExists(c) \/ CreateWrite(c)
  \/ ReadCard(c) \/ WriteCard(c)
  \/ DeleteReferences(c) \/ FileExists(c) \/ DeleteUnlink(c)
  \/ RenameTarget(c) \/ RenameMove(c) \/ RenameRead(c) \/ RenameWrite(c)
  \/ SweepRead(c) \/ SweepWrite(c) \/ SweepCodeRead(c) \/ SweepCodeWrite(c)
  \/ ReadCode(c) \/ WriteCode(c)
  \/ Keyword(c)
  \/ Scan(c) \/ WriteIndex(c)

Next ==
  \/ \E c \in Call, request \in Request : Start(c, request)
  \/ \E c \in Call : Step(c)
  \/ Crash

Spec == Init /\ [][Next]_vars
-----------------------------------------------------------------------------
(* Properties *)

(* No call writes a card under a key that is not its file's, whatever runs  *)
(* beside it, except the rename that moves the file and the writers that do *)
(* not look at the key (relation_add, relation_remove, the sweep of         *)
(* card_rename): cardUpdate(), cardUpdateStatus(), cardCreate() and the     *)
(* second half of cardRename() never undo a rename's new key.               *)
KeysAreSafe ==
  [][\A c \in Call :
       \/ call'[c] = call[c]
       \/ call[c].pc \in {"move", "patch"}
       \/ call[c].pc = "write" /\ Op(c) \in {"relate", "unrelate"}
       \/ Torn(disk') \subseteq Torn(disk) ]_vars

(* What card_delete's check and card_rename's sweep are for: as long as the *)
(* calls come one after the other, reindex with success, bring only keys of *)
(* cards that exist and name the card to delete or rename by its key, every *)
(* relation and every @see is the key of a card that is there, and every    *)
(* card has the key of its file.                                            *)
ReferencesHold ==
  sound /\ (\A c \in Call : ~Running(c)) => InOrder

AfterSweep(c) == Running(c) /\ Op(c) = "rename" /\ call[c].pc \in {"scan", "index"} /\ call[c].alone

(* When card_rename comes to its reindex and no other call has run beside   *)
(* it, the old file is gone and nothing has the old key any more as the     *)
(* client wrote it, whatever earlier calls and crashes left: what still     *)
(* names the card is another writing of its key.                            *)
RenameLeavesNoTrace ==
  \A c \in Call :
    AfterSweep(c) =>
      /\ disk[Target(c)] = None
      /\ \A p \in Present(disk) : Asked(c) \notin disk[p].relations
      /\ \A f \in Code : Asked(c) \notin code[f]

Existing(t) == {k \in Key : t.rows[k] # None}
Related(t, k) == {l \in Key : <<k, l>> \in t.relations}
Linked(t, f) == {k \in Key : <<k, f>> \in t.links}

(* No row of a file that is gone, no relation and no link without its rows. *)
NothingDangles(t) ==
  /\ \A k \in Key : t.rows[k] \in Present(disk) \cup {None}
  /\ \A r \in t.relations : {r[1], r[2]} \subseteq Existing(t)
  /\ \A l \in t.links : l[1] \in Existing(t) \cap Read(code[l[2]])

(* The files have been read into the tables: each key has a row, and a card *)
(* that has the row of its key, or a source file, has what it names and has *)
(* a row.                                                                   *)
ReadInto(t, files) ==
  /\ \A p \in files \cap Key :
       /\ disk[p].key \in Existing(t)
       /\ t.rows[disk[p].key] = p => Related(t, disk[p].key) = Read(disk[p].relations) \cap Existing(t)
  /\ \A f \in files \cap Code : Linked(t, f) = Read(code[f]) \cap Existing(t)

(* When a tool returns from its reindex and no other call ran beside it,    *)
(* file_state has every file as it is, nothing dangles, and what it found   *)
(* changed has exactly its relations and links, whatever tools that do not  *)
(* reindex, failed reindexes and dead calls have left before.  That every   *)
(* file has, also those that did not change, is so as long as the calls     *)
(* were sound; a reindex that fails, or a card that comes later than a name *)
(* of it, leaves relations and links behind that no incremental reindex     *)
(* corrects.                                                                *)
ReturnsInStep ==
  [][\A c \in Call :
       call[c].pc = "index" /\ call'[c].pc = "done" /\ call[c].alone =>
         /\ index'.fresh = Present(disk) \cup Code
         /\ NothingDangles(index')
         /\ ReadInto(index', call[c].left)
         /\ sound => ReadInto(index', Present(disk) \cup Code) ]_vars
=============================================================================
