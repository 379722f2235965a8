--------------------------- MODULE CardTools_proofs ---------------------------
(***************************************************************************)
(* Theorems about CardTools for every set of keys, source files, requests  *)
(* and concurrent calls, and any number of calls and crashes.              *)
(*                                                                         *)
(*  - Every variable keeps its type.                                       *)
(*  - A card's key is wrong only by a call that does not look at it.       *)
(*  - card_rename, alone, leaves nothing that names the old key.           *)
(*  - A tool that reindexes, alone, leaves the index of the files.         *)
(*  - Calls that come one after the other, reindex with success and name   *)
(*    cards that exist leave no relation and no @see to a missing card.    *)
(***************************************************************************)
EXTENDS CardTools, TLAPS

-----------------------------------------------------------------------------
(* What a call holds at each of its steps. *)

Editing == {"update", "status", "relate", "unrelate"}

Renaming == {"target", "move", "reread", "rewrite", "sweep", "patch", "sweepcode", "patchcode"}

Place == Ended \cup Renaming \cup
  {"exists", "create", "read", "write", "references", "unlink", "readcode", "writecode", "table", "scan", "index"}

Held == {None} \cup Card \cup (Key \X Card) \cup (Code \X SUBSET Text) \cup (SUBSET Text) \cup (SUBSET Key)

CallRecord == [pc : Place, request : Request \cup {None}, held : Held, left : SUBSET File, alone : BOOLEAN]

CallOK(s) ==
  /\ s.pc \notin Ended => s.request \in Request
  /\ s.pc \in {"read", "write"} => s.request.op \in Editing
  /\ s.pc = "create" => s.request.op = "create"
  /\ s.pc = "unlink" => s.request.op = "delete"
  /\ s.pc \in Renaming => s.request.op = "rename"
  /\ s.pc \in {"readcode", "writecode"} => s.request.op \in {"link", "unlink"}
  /\ s.pc \in {"write", "rewrite"} => s.held \in Card
  /\ s.pc = "write" /\ s.request.op \in {"update", "status"} => s.held.key = s.request.key
  /\ s.pc = "patch" => s.held \in Key \X Card
  /\ s.pc = "patchcode" => s.held \in Code \X SUBSET Text
  /\ s.pc = "writecode" => s.held \in SUBSET Text
  /\ s.pc = "index" => s.held \in SUBSET Key
  /\ s.pc \in {"sweep", "patch"} => s.left \subseteq Key
  /\ s.pc \in {"sweepcode", "patchcode"} => s.left \subseteq Code

CallsInv == call \in [Call -> CallRecord] /\ \A c \in Call : CallOK(call[c])

DataInv ==
  /\ disk \in Disk /\ code \in See
  /\ registered \in BOOLEAN
  /\ index \in Tables
  /\ calls \in 0 .. MaxCalls /\ crashes \in 0 .. MaxCrashes
  /\ sound \in BOOLEAN

TypeInv == DataInv /\ CallsInv

LEMMA TypeInvType == TypeInv => TypeOK
BY ToolsAssumption DEF TypeInv, DataInv, CallsInv, CallRecord, CallOK, TypeOK, Running, Ended

LEMMA RequestFacts ==
  ASSUME NEW r \in Request
  PROVE  /\ r.key \in Name /\ KeyOf[r.key] \in Key /\ r.sync \in BOOLEAN
         /\ r.op = "create" => r.arg \in BOOLEAN
         /\ r.op = "update" => r.arg \in SUBSET Name
         /\ r.op = "status" => r.arg \in Status
         /\ r.op \in {"relate", "unrelate"} => r.arg \in Name
         /\ r.op = "rename" => r.arg \in Name /\ KeyOf[r.arg] \in Key /\ KeyOf[r.arg] # KeyOf[r.key]
         /\ r.op \in {"link", "unlink"} => r.arg \in Code
<1>1. Name \subseteq Text /\ KeyOf \in [Text -> Key]
  BY ToolsAssumption
<1>2. /\ r.key \in Name /\ r.sync \in BOOLEAN
      /\ r.op = "create" => r.arg \in BOOLEAN
      /\ r.op = "update" => r.arg \in SUBSET Name
      /\ r.op = "status" => r.arg \in Status
      /\ r.op \in {"relate", "unrelate"} => r.arg \in Name
      /\ r.op = "rename" => r.arg \in Name /\ KeyOf[r.arg] # KeyOf[r.key]
      /\ r.op \in {"link", "unlink"} => r.arg \in Code
  BY ToolsAssumption
<1>3. QED
  BY <1>1, <1>2

(* What is read out of keys are these keys. *)
LEMMA ReadKeys ==
  ASSUME NEW keys \in SUBSET Key
  PROVE  Read(keys) = keys
BY ToolsAssumption DEF Read

-----------------------------------------------------------------------------
(* The tables *)

LEMMA ClearedType == Cleared \in Tables
BY DEF Cleared, Tables

LEMMA RowsType ==
  ASSUME NEW files, NEW rows \in RowsOf(files)
  PROVE  rows \in [Key -> Key \cup {None}]
BY DEF RowsOf

LEMMA WithRowsType ==
  ASSUME NEW t \in Tables, NEW files \in SUBSET File, NEW rows \in [Key -> Key \cup {None}]
  PROVE  WithRows(t, files, rows) \in Tables
<1>1. t.rows \in [Key -> Key \cup {None}] /\ t.relations \subseteq Key \X Key /\ t.links \subseteq Key \X Code
      /\ t.tracked \subseteq File /\ t.fresh \subseteq File
  BY DEF Tables
<1> DEFINE keys == {k \in Key : rows[k] # None}
           all == [k \in Key |-> IF k \in keys THEN rows[k] ELSE t.rows[k]]
           existing == {k \in Key : all[k] # None}
           relations == {r \in t.relations : r[1] \notin keys} \cup {r \in keys \X existing : r[2] \in Read(disk[rows[r[1]]].relations)}
           links == {l \in t.links : l[2] \notin files} \cup {l \in existing \X (files \cap Code) : l[1] \in Read(code[l[2]])}
<1>2. all \in [Key -> Key \cup {None}]
  BY <1>1
<1>3. relations \subseteq Key \X Key
  BY <1>1
<1>4. links \subseteq Key \X Code
  BY <1>1
<1>5. WithRows(t, files, rows) = [rows |-> all, relations |-> relations, links |-> links,
                                  tracked |-> t.tracked \cup files, fresh |-> t.fresh \cup files]
  BY DEF WithRows
<1> HIDE DEF all, relations, links
<1>6. QED
  BY <1>1, <1>2, <1>3, <1>4, <1>5 DEF Tables

LEMMA DroppedType ==
  ASSUME index \in Tables, NEW gone
  PROVE  Dropped(gone) \in Tables
BY DEF Dropped, Tables

LEMMA UnwrittenType ==
  ASSUME index \in Tables, NEW files, Unwritten(files)
  PROVE  index' \in Tables
BY DEF Unwritten, Tables

-----------------------------------------------------------------------------
(* Steps that actions share *)

LEMMA OneCall ==
  ASSUME CallsInv, NEW c \in Call, NEW s \in CallRecord, CallOK(s), call' = [call EXCEPT ![c] = s]
  PROVE  CallsInv'
<1>1. call' \in [Call -> CallRecord]
  BY DEF CallsInv
<1>2. ASSUME NEW d \in Call PROVE CallOK(call'[d])
  <2>1. call'[d] = s \/ call'[d] = call[d]
    BY DEF CallsInv
  <2>2. QED
    BY <2>1 DEF CallsInv
<1>3. QED
  BY <1>1, <1>2 DEF CallsInv

LEMMA GoToCalls ==
  ASSUME CallsInv, NEW c \in Call, NEW pc \in Place, GoTo(c, pc),
         CallOK([call[c] EXCEPT !.pc = pc])
  PROVE  CallsInv'
<1> DEFINE s == [call[c] EXCEPT !.pc = pc]
<1>1. s \in CallRecord
  BY DEF CallsInv, CallRecord
<1>2. call' = [call EXCEPT ![c] = s]
  BY DEF GoTo
<1>3. QED
  BY <1>1, <1>2, OneCall

LEMMA HoldCalls ==
  ASSUME CallsInv, NEW c \in Call, NEW pc \in Place, NEW held \in Held, NEW left \in SUBSET File,
         call' = [call EXCEPT ![c] = [@ EXCEPT !.pc = pc, !.held = held, !.left = left]],
         CallOK([call[c] EXCEPT !.pc = pc, !.held = held, !.left = left])
  PROVE  CallsInv'
<1> DEFINE s == [call[c] EXCEPT !.pc = pc, !.held = held, !.left = left]
<1>1. s \in CallRecord
  BY DEF CallsInv, CallRecord
<1>2. QED
  BY <1>1, OneCall

LEMMA OverCalls ==
  ASSUME CallsInv, NEW c \in Call, NEW pc \in Ended, Over(c, pc)
  PROVE  CallsInv'
<1> DEFINE s == [call[c] EXCEPT !.pc = pc, !.held = None, !.left = {}]
<1>1. pc \in Place /\ None \in Held /\ {} \in SUBSET File
  BY DEF Place, Held
<1>2. s.pc = pc /\ call[c] \in CallRecord
  BY DEF CallsInv, CallRecord
<1>3. CallOK(s)
  BY <1>2 DEF CallOK, Ended, Renaming
<1>4. QED
  BY <1>1, <1>3, HoldCalls DEF Over

LEMMA WrittenCalls ==
  ASSUME CallsInv, NEW c \in Call, Running(c), Written(c)
  PROVE  CallsInv'
<1> DEFINE s == [call[c] EXCEPT !.pc = "scan", !.held = None, !.left = {}]
<1>1. "scan" \in Place /\ None \in Held /\ {} \in SUBSET File
  BY DEF Place, Held
<1>2. call[c] \in CallRecord /\ CallOK(call[c])
  BY DEF CallsInv
<1>3. s.pc = "scan" /\ s.request = call[c].request
  BY <1>2 DEF CallRecord
<1>4. CallOK(s)
  BY <1>2, <1>3 DEF CallOK, Running, Ended, Renaming
<1>5. CASE call[c].request.sync
  BY <1>1, <1>4, <1>5, HoldCalls DEF Written
<1>6. CASE ~call[c].request.sync
  BY <1>6, OverCalls DEF Written, Ended
<1>7. QED
  BY <1>5, <1>6

LEMMA KeepsData ==
  ASSUME DataInv, Keeps, UNCHANGED <<registered, calls, crashes>>
  PROVE  DataInv'
BY DEF DataInv, Keeps

LEMMA RejectType ==
  ASSUME TypeInv, NEW c \in Call, Reject(c), UNCHANGED <<registered, calls, crashes>>
  PROVE  TypeInv'
BY OverCalls, KeepsData DEF Reject, TypeInv, Ended

LEMMA PutCardData ==
  ASSUME DataInv, NEW p \in Key, NEW card \in Card \cup {None}, PutCard(p, card), UNCHANGED <<registered, calls, crashes>>
  PROVE  DataInv'
<1>1. disk' \in Disk
  BY DEF PutCard, DataInv, Disk
<1>2. index' \in Tables
  BY UnwrittenType DEF PutCard, DataInv
<1>3. QED
  BY <1>1, <1>2 DEF PutCard, DataInv

LEMMA PutCodeData ==
  ASSUME DataInv, NEW f \in Code, NEW text \in SUBSET Text, PutCode(f, text), UNCHANGED <<registered, calls, crashes>>
  PROVE  DataInv'
<1>1. code' \in See
  BY DEF PutCode, DataInv, See
<1>2. index' \in Tables
  BY UnwrittenType DEF PutCode, DataInv
<1>3. QED
  BY <1>1, <1>2 DEF PutCode, DataInv

-----------------------------------------------------------------------------
(* Types are kept, action by action *)

LEMMA AtFacts ==
  ASSUME TypeInv, NEW c \in Call, NEW pc, pc \notin Ended, At(c, pc)
  PROVE  /\ call[c] \in CallRecord /\ CallOK(call[c]) /\ call[c].pc = pc
         /\ call[c].request \in Request /\ Target(c) \in Key /\ Asked(c) \in Name /\ Running(c)
         /\ UNCHANGED <<registered, calls, crashes>>
<1>1. call[c] \in CallRecord /\ CallOK(call[c]) /\ call[c].pc = pc
  BY DEF At, TypeInv, CallsInv
<1>2. call[c].request \in Request
  BY <1>1 DEF CallOK
<1>3. QED
  BY <1>1, <1>2, RequestFacts DEF At, Target, Asked, Running

LEMMA StartType ==
  ASSUME TypeInv, NEW c \in Call, NEW request \in Request, Start(c, request)
  PROVE  TypeInv'
<1> DEFINE others == {d \in Call \ {c} : Running(d)}
           place == CASE request.op = "create" -> "exists"
                      [] request.op = "delete" -> IF request.sync THEN "references" ELSE "exists"
                      [] request.op = "rename" -> "exists"
                      [] request.op \in {"link", "unlink"} -> "readcode"
                      [] request.op \in {"keyword", "unkeyword"} -> "table"
                      [] request.op = "index" -> "scan"
                      [] OTHER -> "read"
           begun == [pc |-> place, request |-> request, held |-> None, left |-> {}, alone |-> others = {}]
<1>1. request.op \in {"create", "delete", "rename", "link", "unlink", "keyword", "unkeyword", "index"} \cup Editing
  BY ToolsAssumption DEF Editing
<1>2. /\ place \in {"exists", "references", "readcode", "table", "scan", "read"}
      /\ place = "read" => request.op \in Editing
      /\ place = "readcode" => request.op \in {"link", "unlink"}
  BY <1>1
<1> HIDE DEF place
<1>3. begun \in CallRecord
  BY <1>2 DEF CallRecord, Place, Held
<1>4. CallOK(begun)
  BY <1>2 DEF CallOK, Ended, Renaming
<1>5. call' = [d \in Call |-> IF d = c THEN begun
                              ELSE IF d \in others THEN [call[d] EXCEPT !.alone = FALSE]
                              ELSE call[d]]
  BY DEF Start, place
<1> HIDE DEF begun
<1>6. ASSUME NEW d \in Call PROVE call'[d] \in CallRecord /\ CallOK(call'[d])
  <2>1. call[d] \in CallRecord /\ CallOK(call[d])
    BY DEF TypeInv, CallsInv
  <2>2. CASE d = c
    BY <1>3, <1>4, <1>5, <2>2
  <2>3. CASE d # c /\ d \in others
    <3> DEFINE s == [call[d] EXCEPT !.alone = FALSE]
    <3>1. call'[d] = s
      BY <1>5, <2>3
    <3>2. s \in CallRecord
      BY <2>1 DEF CallRecord
    <3>3. s.pc = call[d].pc /\ s.request = call[d].request /\ s.held = call[d].held /\ s.left = call[d].left
      BY <2>1 DEF CallRecord
    <3> HIDE DEF s
    <3>4. CallOK(s)
      BY <2>1, <3>3 DEF CallOK
    <3>5. QED
      BY <3>1, <3>2, <3>4
  <2>4. CASE d # c /\ d \notin others
    BY <1>5, <2>1, <2>4
  <2>5. QED
    BY <2>2, <2>3, <2>4
<1>7. CallsInv'
  BY <1>5, <1>6 DEF CallsInv
<1>8. DataInv'
  BY ToolsAssumption DEF Start, TypeInv, DataInv
<1>9. QED
  BY <1>7, <1>8 DEF TypeInv

LEMMA CreateExistsType ==
  ASSUME TypeInv, NEW c \in Call, CreateExists(c)
  PROVE  TypeInv'
<1>1. call[c] \in CallRecord /\ CallOK(call[c]) /\ call[c].pc = "exists" /\ UNCHANGED <<registered, calls, crashes>>
  BY AtFacts DEF CreateExists, Ended
<1>2. CASE disk[Target(c)] # None
  BY <1>1, <1>2, RejectType DEF CreateExists
<1>3. CASE disk[Target(c)] = None
  <2>1. CallOK([call[c] EXCEPT !.pc = "create"])
    BY <1>1 DEF CreateExists, Op, CallOK, CallRecord, Ended, Renaming
  <2>2. CallsInv'
    BY <1>3, <2>1, GoToCalls DEF CreateExists, TypeInv, Place
  <2>3. QED
    BY <1>1, <1>3, <2>2, KeepsData DEF CreateExists, TypeInv
<1>4. QED
  BY <1>2, <1>3

LEMMA CreateWriteType ==
  ASSUME TypeInv, NEW c \in Call, CreateWrite(c)
  PROVE  TypeInv'
<1>1. /\ call[c] \in CallRecord /\ CallOK(call[c]) /\ call[c].pc = "create" /\ UNCHANGED <<registered, calls, crashes>>
      /\ call[c].request \in Request /\ Target(c) \in Key /\ Running(c)
  BY AtFacts DEF CreateWrite, Ended
<1>2. [key |-> Target(c), status |-> "draft", relations |-> {}, keyword |-> Arg(c)] \in Card
  BY <1>1, RequestFacts DEF Card, CallOK, Arg, Status
<1>3. QED
  BY <1>1, <1>2, PutCardData, WrittenCalls DEF CreateWrite, TypeInv

LEMMA DiskType ==
  ASSUME TypeInv, NEW p \in Key
  PROVE  disk[p] = None \/ disk[p] \in Card
BY DEF TypeInv, DataInv, Disk

LEMMA EditedType ==
  ASSUME NEW c \in Call, call[c].request \in Request, Op(c) \in Editing, NEW card \in Card
  PROVE  /\ Edited(c, card) \in Card
         /\ Edited(c, card).key = card.key
<1>1. /\ Op(c) = "update" => Arg(c) \in SUBSET Name
      /\ Op(c) = "status" => Arg(c) \in Status
      /\ Op(c) \in {"relate", "unrelate"} => Arg(c) \in Name
  BY RequestFacts DEF Op, Arg
<1>2. CASE Op(c) = "update"
  BY <1>1, <1>2 DEF Edited, Card
<1>3. CASE Op(c) = "status"
  BY <1>1, <1>3 DEF Edited, Card
<1>4. CASE Op(c) = "relate"
  BY <1>1, <1>4 DEF Edited, Card
<1>5. CASE Op(c) = "unrelate"
  BY <1>1, <1>5 DEF Edited, Card
<1>6. QED
  BY <1>2, <1>3, <1>4, <1>5 DEF Editing

LEMMA ReadCardType ==
  ASSUME TypeInv, NEW c \in Call, ReadCard(c)
  PROVE  TypeInv'
<1> DEFINE card == disk[Target(c)]
<1>1. /\ call[c] \in CallRecord /\ CallOK(call[c]) /\ call[c].pc = "read" /\ UNCHANGED <<registered, calls, crashes>>
      /\ call[c].request \in Request /\ Target(c) \in Key /\ Running(c)
  BY AtFacts DEF ReadCard, Ended
<1>2. CASE card = None \/ (card # None /\ ~Accepts(c, card))
  BY <1>1, <1>2, RejectType DEF ReadCard
<1>3. CASE card # None /\ Accepts(c, card)
  <2>1. card \in Card
    BY <1>1, <1>3, DiskType
  <2>2. CASE Op(c) = "unrelate" /\ Arg(c) \notin card.relations
    BY <1>1, <1>3, <2>2, WrittenCalls, KeepsData DEF ReadCard, TypeInv
  <2>3. CASE ~(Op(c) = "unrelate" /\ Arg(c) \notin card.relations)
    <3> DEFINE s == [call[c] EXCEPT !.pc = "write", !.held = card]
    <3>1. s \in CallRecord
      BY <1>1, <2>1 DEF CallRecord, Place, Held
    <3>2. s.pc = "write" /\ s.held = card /\ s.request = call[c].request
      BY <1>1 DEF CallRecord
    <3>3. CallOK(s)
      BY <1>1, <1>3, <2>1, <3>2 DEF CallOK, Accepts, Op, Asked, Ended, Renaming
    <3>4. call' = [call EXCEPT ![c] = s]
      BY <1>3, <2>3 DEF ReadCard
    <3>5. QED
      BY <1>1, <1>3, <2>3, <3>1, <3>3, <3>4, OneCall, KeepsData DEF ReadCard, TypeInv
  <2>4. QED
    BY <2>2, <2>3
<1>4. QED
  BY <1>2, <1>3

LEMMA WriteCardType ==
  ASSUME TypeInv, NEW c \in Call, WriteCard(c)
  PROVE  TypeInv'
<1>1. /\ call[c] \in CallRecord /\ CallOK(call[c]) /\ call[c].pc = "write" /\ UNCHANGED <<registered, calls, crashes>>
      /\ call[c].request \in Request /\ Target(c) \in Key /\ Running(c)
  BY AtFacts DEF WriteCard, Ended
<1>2. call[c].held \in Card /\ Op(c) \in Editing
  BY <1>1 DEF CallOK, Op
<1>3. Edited(c, call[c].held) \in Card
  BY <1>1, <1>2, EditedType
<1>4. QED
  BY <1>1, <1>3, PutCardData, WrittenCalls DEF WriteCard, TypeInv

LEMMA DeleteReferencesType ==
  ASSUME TypeInv, NEW c \in Call, DeleteReferences(c)
  PROVE  TypeInv'
<1>1. call[c] \in CallRecord /\ CallOK(call[c]) /\ call[c].pc = "references" /\ UNCHANGED <<registered, calls, crashes>>
  BY AtFacts DEF DeleteReferences, Ended
<1>2. CASE References(Asked(c)) # {}
  BY <1>1, <1>2, RejectType DEF DeleteReferences
<1>3. CASE References(Asked(c)) = {}
  <2>1. CallOK([call[c] EXCEPT !.pc = "exists"])
    BY <1>1 DEF CallOK, CallRecord, Ended, Renaming
  <2>2. CallsInv'
    BY <1>3, <2>1, GoToCalls DEF DeleteReferences, TypeInv, Place
  <2>3. QED
    BY <1>1, <1>3, <2>2, KeepsData DEF DeleteReferences, TypeInv
<1>4. QED
  BY <1>2, <1>3

LEMMA FileExistsType ==
  ASSUME TypeInv, NEW c \in Call, FileExists(c)
  PROVE  TypeInv'
<1> DEFINE pc == IF Op(c) = "delete" THEN "unlink" ELSE "target"
<1>1. call[c] \in CallRecord /\ CallOK(call[c]) /\ call[c].pc = "exists" /\ UNCHANGED <<registered, calls, crashes>>
  BY AtFacts DEF FileExists, Ended
<1>2. CASE disk[Target(c)] = None
  BY <1>1, <1>2, RejectType DEF FileExists
<1>3. CASE disk[Target(c)] # None
  <2>1. CallOK([call[c] EXCEPT !.pc = pc])
    BY <1>1 DEF FileExists, Op, CallOK, CallRecord, Ended, Renaming
  <2>2. CallsInv'
    BY <1>3, <2>1, GoToCalls DEF FileExists, TypeInv, Place, Renaming
  <2>3. QED
    BY <1>1, <1>3, <2>2, KeepsData DEF FileExists, TypeInv
<1>4. QED
  BY <1>2, <1>3

LEMMA DeleteUnlinkType ==
  ASSUME TypeInv, NEW c \in Call, DeleteUnlink(c)
  PROVE  TypeInv'
<1>1. /\ call[c] \in CallRecord /\ CallOK(call[c]) /\ call[c].pc = "unlink" /\ UNCHANGED <<registered, calls, crashes>>
      /\ call[c].request \in Request /\ Target(c) \in Key /\ Running(c)
  BY AtFacts DEF DeleteUnlink, Ended
<1>2. CASE disk[Target(c)] = None
  BY <1>1, <1>2, RejectType DEF DeleteUnlink
<1>3. CASE disk[Target(c)] # None
  BY <1>1, <1>3, PutCardData, WrittenCalls DEF DeleteUnlink, TypeInv
<1>4. QED
  BY <1>2, <1>3

LEMMA RenameFacts ==
  ASSUME TypeInv, NEW c \in Call, call[c].pc \in Renaming
  PROVE  /\ Op(c) = "rename" /\ call[c].request \in Request /\ Target(c) \in Key /\ Asked(c) \in Name
         /\ NewKey(c) \in Key /\ NewKey(c) # Target(c) /\ NewKey(c) # Asked(c) /\ Running(c)
<1>1. CallOK(call[c]) /\ call[c].pc \notin Ended
  BY DEF TypeInv, CallsInv, Renaming, Ended
<1>2. /\ Op(c) = "rename" /\ call[c].request \in Request /\ Target(c) \in Key /\ Asked(c) \in Name
      /\ NewKey(c) \in Key /\ NewKey(c) # Target(c) /\ Running(c)
  BY <1>1, RequestFacts DEF CallOK, Op, Arg, Asked, Target, NewKey, Running
<1>3. NewKey(c) # Asked(c)
  BY <1>2, ToolsAssumption DEF Target
<1>4. QED
  BY <1>2, <1>3

LEMMA RenameTargetType ==
  ASSUME TypeInv, NEW c \in Call, RenameTarget(c)
  PROVE  TypeInv'
<1>1. call[c] \in CallRecord /\ CallOK(call[c]) /\ call[c].pc = "target" /\ UNCHANGED <<registered, calls, crashes>>
  BY AtFacts DEF RenameTarget, Ended
<1>2. CASE disk[NewKey(c)] # None
  BY <1>1, <1>2, RejectType DEF RenameTarget
<1>3. CASE disk[NewKey(c)] = None
  <2>1. CallOK([call[c] EXCEPT !.pc = "move"])
    BY <1>1 DEF CallOK, CallRecord, Ended, Renaming
  <2>2. CallsInv'
    BY <1>3, <2>1, GoToCalls DEF RenameTarget, TypeInv, Place, Renaming
  <2>3. QED
    BY <1>1, <1>3, <2>2, KeepsData DEF RenameTarget, TypeInv
<1>4. QED
  BY <1>2, <1>3

LEMMA RenameMoveType ==
  ASSUME TypeInv, NEW c \in Call, RenameMove(c)
  PROVE  TypeInv'
<1>1. call[c] \in CallRecord /\ CallOK(call[c]) /\ call[c].pc = "move" /\ UNCHANGED <<registered, calls, crashes>>
  BY AtFacts DEF RenameMove, Ended
<1>2. Target(c) \in Key /\ NewKey(c) \in Key
  BY <1>1, RenameFacts DEF Renaming
<1>3. CASE disk[Target(c)] = None
  BY <1>1, <1>3, RejectType DEF RenameMove
<1>4. CASE disk[Target(c)] # None
  <2>1. CallOK([call[c] EXCEPT !.pc = "reread"])
    BY <1>1 DEF CallOK, CallRecord, Ended, Renaming
  <2>2. CallsInv'
    BY <1>4, <2>1, GoToCalls DEF RenameMove, TypeInv, Place, Renaming
  <2>3. disk' \in Disk
    BY <1>2, <1>4 DEF RenameMove, TypeInv, DataInv, Disk
  <2>4. index' \in Tables
    BY <1>4, UnwrittenType DEF RenameMove, TypeInv, DataInv
  <2>5. QED
    BY <1>1, <1>4, <2>2, <2>3, <2>4 DEF RenameMove, TypeInv, DataInv
<1>5. QED
  BY <1>3, <1>4

LEMMA RenameReadType ==
  ASSUME TypeInv, NEW c \in Call, RenameRead(c)
  PROVE  TypeInv'
<1> DEFINE card == disk[NewKey(c)]
<1>1. call[c] \in CallRecord /\ CallOK(call[c]) /\ call[c].pc = "reread" /\ UNCHANGED <<registered, calls, crashes>>
  BY AtFacts DEF RenameRead, Ended
<1>2. CASE card = None
  BY <1>1, <1>2, RejectType DEF RenameRead
<1>3. CASE card # None
  <2> DEFINE s == [call[c] EXCEPT !.pc = "rewrite", !.held = card]
  <2>1. card \in Card
    BY <1>1, <1>3, DiskType, RenameFacts DEF Renaming
  <2>2. s \in CallRecord /\ s.pc = "rewrite" /\ s.held = card /\ s.request = call[c].request
    BY <1>1, <2>1 DEF CallRecord, Place, Renaming, Held
  <2>3. CallOK(s)
    BY <1>1, <2>1, <2>2 DEF CallOK, Ended, Renaming
  <2>4. call' = [call EXCEPT ![c] = s]
    BY <1>3 DEF RenameRead
  <2>5. QED
    BY <1>1, <1>3, <2>2, <2>3, <2>4, OneCall, KeepsData DEF RenameRead, TypeInv
<1>4. QED
  BY <1>2, <1>3

LEMMA RenameWriteType ==
  ASSUME TypeInv, NEW c \in Call, RenameWrite(c)
  PROVE  TypeInv'
<1>1. call[c] \in CallRecord /\ CallOK(call[c]) /\ call[c].pc = "rewrite" /\ UNCHANGED <<registered, calls, crashes>>
  BY AtFacts DEF RenameWrite, Ended
<1>2. NewKey(c) \in Key /\ [call[c].held EXCEPT !.key = NewKey(c)] \in Card
  BY <1>1, RenameFacts DEF Renaming, CallOK, Card
<1>3. DataInv'
  BY <1>1, <1>2, PutCardData DEF RenameWrite, TypeInv
<1>4. CASE call[c].request.sync
  <2> DEFINE left == Present(disk) \cup {NewKey(c)}
             s == [call[c] EXCEPT !.pc = "sweep", !.held = None, !.left = left]
  <2>1. left \subseteq Key /\ left \in SUBSET File /\ None \in Held /\ "sweep" \in Place
    BY <1>2 DEF Present, File, Held, Place, Renaming
  <2>2. s.pc = "sweep" /\ s.left = left /\ s.request = call[c].request
    BY <1>1 DEF CallRecord
  <2>3. CallOK(s)
    BY <1>1, <2>1, <2>2 DEF CallOK, Ended, Renaming
  <2>4. QED
    BY <1>3, <1>4, <2>1, <2>3, HoldCalls DEF RenameWrite, TypeInv
<1>5. CASE ~call[c].request.sync
  BY <1>3, <1>5, OverCalls DEF RenameWrite, TypeInv, Ended
<1>6. QED
  BY <1>4, <1>5

LEMMA SweepReadType ==
  ASSUME TypeInv, NEW c \in Call, SweepRead(c)
  PROVE  TypeInv'
<1>1. call[c] \in CallRecord /\ CallOK(call[c]) /\ call[c].pc = "sweep" /\ UNCHANGED <<registered, calls, crashes>>
  BY AtFacts DEF SweepRead, Ended
<1>2. CASE Swept(c) /\ Keeps
  <2> DEFINE s == [call[c] EXCEPT !.pc = "sweepcode", !.left = Code]
  <2>1. s \in CallRecord /\ s.pc = "sweepcode" /\ s.left = Code /\ s.request = call[c].request
    BY <1>1 DEF CallRecord, Place, Renaming, File
  <2>2. CallOK(s)
    BY <1>1, <2>1 DEF CallOK, Ended, Renaming
  <2>3. QED
    BY <1>1, <1>2, <2>1, <2>2, OneCall, KeepsData DEF Swept, TypeInv
<1>3. ASSUME NEW p \in call[c].left, disk[p] = None, Reject(c)
      PROVE  TypeInv'
  BY <1>1, <1>3, RejectType
<1>4. ASSUME NEW p \in call[c].left, disk[p] # None, Keeps,
             call' = [call EXCEPT ![c] =
                        IF Asked(c) \in disk[p].relations
                        THEN [@ EXCEPT !.pc = "patch", !.held = <<p, disk[p]>>, !.left = call[c].left \ {p}]
                        ELSE [@ EXCEPT !.left = call[c].left \ {p}]]
      PROVE  TypeInv'
  <2> DEFINE patch == [call[c] EXCEPT !.pc = "patch", !.held = <<p, disk[p]>>, !.left = call[c].left \ {p}]
             skip == [call[c] EXCEPT !.left = call[c].left \ {p}]
             s == IF Asked(c) \in disk[p].relations THEN patch ELSE skip
  <2>1. p \in Key /\ call[c].left \subseteq Key
    BY <1>1 DEF CallOK
  <2>2. disk[p] \in Card
    BY <1>4, <2>1, DiskType
  <2>3. patch \in CallRecord /\ patch.pc = "patch" /\ patch.held = <<p, disk[p]>>
        /\ patch.left = call[c].left \ {p} /\ patch.request = call[c].request
    BY <1>1, <2>1, <2>2 DEF CallRecord, Place, Renaming, Held
  <2>4. CallOK(patch)
    BY <1>1, <2>1, <2>2, <2>3 DEF CallOK, Ended, Renaming
  <2>5. skip \in CallRecord /\ skip.pc = "sweep" /\ skip.left = call[c].left \ {p} /\ skip.request = call[c].request
    BY <1>1 DEF CallRecord
  <2>6. CallOK(skip)
    BY <1>1, <2>1, <2>5 DEF CallOK, Ended, Renaming
  <2>7. call' = [call EXCEPT ![c] = s]
    BY <1>4
  <2> HIDE DEF patch, skip
  <2>8. s \in CallRecord /\ CallOK(s)
    BY <2>3, <2>4, <2>5, <2>6
  <2> HIDE DEF s
  <2>9. QED
    BY <1>1, <1>4, <2>7, <2>8, OneCall, KeepsData DEF TypeInv
<1>5. QED
  BY <1>2, <1>3, <1>4 DEF SweepRead

LEMMA SweepWriteType ==
  ASSUME TypeInv, NEW c \in Call, SweepWrite(c)
  PROVE  TypeInv'
<1> DEFINE p == call[c].held[1]
           card == call[c].held[2]
           s == [call[c] EXCEPT !.pc = "sweep", !.held = None]
<1>1. call[c] \in CallRecord /\ CallOK(call[c]) /\ call[c].pc = "patch" /\ UNCHANGED <<registered, calls, crashes>>
  BY AtFacts DEF SweepWrite, Ended
<1>2. p \in Key /\ card \in Card /\ NewKey(c) \in Key
  BY <1>1, RenameFacts DEF CallOK, Renaming
<1>3. Renamed(c, card.relations) \subseteq Name
  BY <1>2, ToolsAssumption DEF Renamed, Card
<1>4. [card EXCEPT !.relations = Renamed(c, @)] \in Card
  BY <1>2, <1>3 DEF Card
<1>5. DataInv'
  BY <1>1, <1>2, <1>4, PutCardData DEF SweepWrite, TypeInv
<1>6. s \in CallRecord /\ s.pc = "sweep" /\ s.left = call[c].left /\ s.request = call[c].request
  BY <1>1 DEF CallRecord, Place, Renaming, Held
<1>7. CallOK(s)
  BY <1>1, <1>6 DEF CallOK, Ended, Renaming
<1>8. QED
  BY <1>5, <1>6, <1>7, OneCall DEF SweepWrite, TypeInv

LEMMA SweepCodeReadType ==
  ASSUME TypeInv, NEW c \in Call, SweepCodeRead(c)
  PROVE  TypeInv'
<1>1. call[c] \in CallRecord /\ CallOK(call[c]) /\ call[c].pc = "sweepcode" /\ Running(c) /\ UNCHANGED <<registered, calls, crashes>>
  BY AtFacts DEF SweepCodeRead, Ended
<1>2. DataInv'
  BY <1>1, KeepsData DEF SweepCodeRead, TypeInv
<1>3. CASE call[c].left = {} /\ Written(c)
  BY <1>1, <1>2, <1>3, WrittenCalls DEF TypeInv
<1>4. ASSUME NEW f \in call[c].left,
             call' = [call EXCEPT ![c] =
                        IF Asked(c) \in code[f]
                        THEN [@ EXCEPT !.pc = "patchcode", !.held = <<f, code[f]>>, !.left = call[c].left \ {f}]
                        ELSE [@ EXCEPT !.left = call[c].left \ {f}]]
      PROVE  TypeInv'
  <2> DEFINE patch == [call[c] EXCEPT !.pc = "patchcode", !.held = <<f, code[f]>>, !.left = call[c].left \ {f}]
             skip == [call[c] EXCEPT !.left = call[c].left \ {f}]
             s == IF Asked(c) \in code[f] THEN patch ELSE skip
  <2>1. f \in Code /\ code[f] \in SUBSET Text /\ call[c].left \subseteq Code
    BY <1>1 DEF CallOK, TypeInv, DataInv, See
  <2>2. patch \in CallRecord /\ patch.pc = "patchcode" /\ patch.held = <<f, code[f]>>
        /\ patch.left = call[c].left \ {f} /\ patch.request = call[c].request
    BY <1>1, <2>1 DEF CallRecord, Place, Renaming, Held
  <2>3. CallOK(patch)
    BY <1>1, <2>1, <2>2 DEF CallOK, Ended, Renaming
  <2>4. skip \in CallRecord /\ skip.pc = "sweepcode" /\ skip.left = call[c].left \ {f} /\ skip.request = call[c].request
    BY <1>1 DEF CallRecord
  <2>5. CallOK(skip)
    BY <1>1, <2>1, <2>4 DEF CallOK, Ended, Renaming
  <2>6. call' = [call EXCEPT ![c] = s]
    BY <1>4
  <2> HIDE DEF patch, skip
  <2>7. s \in CallRecord /\ CallOK(s)
    BY <2>2, <2>3, <2>4, <2>5
  <2> HIDE DEF s
  <2>8. QED
    BY <1>2, <2>6, <2>7, OneCall DEF TypeInv
<1>5. QED
  BY <1>3, <1>4 DEF SweepCodeRead

LEMMA SweepCodeWriteType ==
  ASSUME TypeInv, NEW c \in Call, SweepCodeWrite(c)
  PROVE  TypeInv'
<1> DEFINE s == [call[c] EXCEPT !.pc = "sweepcode", !.held = None]
<1>1. call[c] \in CallRecord /\ CallOK(call[c]) /\ call[c].pc = "patchcode" /\ UNCHANGED <<registered, calls, crashes>>
  BY AtFacts DEF SweepCodeWrite, Ended
<1>2. call[c].held[1] \in Code /\ call[c].held[2] \in SUBSET Text /\ NewKey(c) \in Key
  BY <1>1, RenameFacts DEF CallOK, Renaming
<1>3. Renamed(c, call[c].held[2]) \in SUBSET Text
  BY <1>2, ToolsAssumption DEF Renamed
<1>4. DataInv'
  BY <1>1, <1>2, <1>3, PutCodeData DEF SweepCodeWrite, TypeInv
<1>5. s \in CallRecord /\ s.pc = "sweepcode" /\ s.left = call[c].left /\ s.request = call[c].request
  BY <1>1 DEF CallRecord, Place, Renaming, Held
<1>6. CallOK(s)
  BY <1>1, <1>5 DEF CallOK, Ended, Renaming
<1>7. QED
  BY <1>4, <1>5, <1>6, OneCall DEF SweepCodeWrite, TypeInv

LEMMA ReadCodeType ==
  ASSUME TypeInv, NEW c \in Call, ReadCode(c)
  PROVE  TypeInv'
<1> DEFINE texts == code[Arg(c)]
<1>1. /\ call[c] \in CallRecord /\ CallOK(call[c]) /\ call[c].pc = "readcode" /\ UNCHANGED <<registered, calls, crashes>>
      /\ call[c].request \in Request /\ Running(c)
  BY AtFacts DEF ReadCode, Ended
<1>2. texts \in SUBSET Text
  BY <1>1, RequestFacts DEF CallOK, Arg, TypeInv, DataInv, See
<1>3. DataInv'
  BY <1>1, KeepsData DEF ReadCode, TypeInv
<1>4. CASE Relinked(c, texts) = texts
  BY <1>1, <1>3, <1>4, WrittenCalls DEF ReadCode, TypeInv
<1>5. CASE Relinked(c, texts) # texts
  <2> DEFINE s == [call[c] EXCEPT !.pc = "writecode", !.held = texts]
  <2>1. s \in CallRecord /\ s.pc = "writecode" /\ s.held = texts /\ s.request = call[c].request
    BY <1>1, <1>2 DEF CallRecord, Place, Held
  <2>2. CallOK(s)
    BY <1>1, <1>2, <2>1 DEF CallOK, Ended, Renaming
  <2>3. call' = [call EXCEPT ![c] = s]
    BY <1>5 DEF ReadCode
  <2>4. QED
    BY <1>3, <2>1, <2>2, <2>3, OneCall DEF TypeInv
<1>6. QED
  BY <1>4, <1>5

LEMMA WriteCodeType ==
  ASSUME TypeInv, NEW c \in Call, WriteCode(c)
  PROVE  TypeInv'
<1>1. /\ call[c] \in CallRecord /\ CallOK(call[c]) /\ call[c].pc = "writecode" /\ UNCHANGED <<registered, calls, crashes>>
      /\ call[c].request \in Request /\ Asked(c) \in Name /\ Running(c)
  BY AtFacts DEF WriteCode, Ended
<1>2. Arg(c) \in Code /\ call[c].held \in SUBSET Text
  BY <1>1, RequestFacts DEF CallOK, Arg
<1>3. Relinked(c, call[c].held) \in SUBSET Text
  BY <1>1, <1>2, ToolsAssumption DEF Relinked
<1>4. QED
  BY <1>1, <1>2, <1>3, PutCodeData, WrittenCalls DEF WriteCode, TypeInv

LEMMA KeywordType ==
  ASSUME TypeInv, NEW c \in Call, Keyword(c)
  PROVE  TypeInv'
<1>1. CallsInv'
  BY OverCalls DEF Keyword, TypeInv, Ended
<1>2. DataInv'
  BY DEF Keyword, Keeps, TypeInv, DataInv
<1>3. QED
  BY <1>1, <1>2 DEF TypeInv

LEMMA OutdatedType == ASSUME NEW m PROVE Outdated(m) \in SUBSET File
BY DEF Outdated, Present, File

LEMMA ScanType ==
  ASSUME TypeInv, NEW c \in Call, Scan(c)
  PROVE  TypeInv'
<1> DEFINE s == [call[c] EXCEPT !.pc = "index", !.left = Outdated(Mode(c)), !.held = Gone]
<1>1. call[c] \in CallRecord /\ CallOK(call[c]) /\ call[c].pc = "scan" /\ UNCHANGED <<registered, calls, crashes>>
  BY AtFacts DEF Scan, Ended
<1>2. Gone \in SUBSET Key /\ Outdated(Mode(c)) \in SUBSET File
  BY OutdatedType DEF Gone
<1>3. s \in CallRecord /\ s.pc = "index" /\ s.held = Gone /\ s.request = call[c].request
  <2>1. Gone \in Held /\ "index" \in Place
    BY <1>2 DEF Held, Place
  <2>2. QED
    BY <1>1, <1>2, <2>1 DEF CallRecord
<1>4. CallOK(s)
  BY <1>1, <1>2, <1>3 DEF CallOK, Ended, Renaming
<1>5. call' = [call EXCEPT ![c] = s]
  BY DEF Scan
<1>6. QED
  BY <1>1, <1>3, <1>4, <1>5, OneCall, KeepsData DEF Scan, TypeInv

LEMMA WriteIndexType ==
  ASSUME TypeInv, NEW c \in Call, WriteIndex(c)
  PROVE  TypeInv'
<1> DEFINE files == call[c].left
           good == {p \in files : ~Refused(p)}
           tables == IF Mode(c) = "full" THEN Cleared ELSE Dropped(call[c].held)
<1>1. call[c] \in CallRecord /\ UNCHANGED <<registered, calls, crashes>>
  BY AtFacts DEF WriteIndex, Ended
<1>2. tables \in Tables /\ index \in Tables
  BY ClearedType, DroppedType DEF TypeInv, DataInv
<1>3. files \in SUBSET File /\ good \in SUBSET File
  BY <1>1 DEF CallRecord
<1>4. CASE /\ \E rows \in RowsOf(files) : index' = WithRows(tables, files, rows)
           /\ Over(c, "done") /\ UNCHANGED sound
  <2>1. index' \in Tables
    BY <1>2, <1>3, <1>4, RowsType, WithRowsType
  <2>2. QED
    BY <1>1, <1>4, <2>1, OverCalls DEF WriteIndex, TypeInv, DataInv, Ended
<1>5. CASE /\ IF Mode(c) = "full"
              THEN UNCHANGED index
              ELSE \E before \in SUBSET (good \cap Key) : \E rows \in RowsOf(before) :
                     index' = [WithRows(tables, before, rows) EXCEPT !.relations = tables.relations]
           /\ Over(c, "rejected") /\ sound' = FALSE
  <2>1. CASE Mode(c) = "full"
    BY <1>1, <1>5, <2>1, OverCalls DEF WriteIndex, TypeInv, DataInv, Ended
  <2>2. CASE Mode(c) # "full"
    <3>1. PICK before \in SUBSET (good \cap Key) : \E rows \in RowsOf(before) :
             index' = [WithRows(tables, before, rows) EXCEPT !.relations = tables.relations]
      BY <1>5, <2>2
    <3>2. PICK rows \in RowsOf(before) :
             index' = [WithRows(tables, before, rows) EXCEPT !.relations = tables.relations]
      BY <3>1
    <3>3. before \in SUBSET File
      BY <1>3
    <3>4. WithRows(tables, before, rows) \in Tables
      BY <1>2, <3>3, RowsType, WithRowsType
    <3>5. index' \in Tables
      <4> HIDE DEF tables
      <4>1. QED BY <1>2, <3>2, <3>4 DEF Tables
    <3>6. QED
      BY <1>1, <1>5, <3>5, OverCalls DEF WriteIndex, TypeInv, DataInv, Ended
  <2>3. QED
    BY <2>1, <2>2
<1>6. QED
  BY <1>4, <1>5 DEF WriteIndex

LEMMA IdleType == Idle \in CallRecord /\ CallOK(Idle)
BY DEF Idle, CallRecord, CallOK, Place, Held, Ended, Renaming

LEMMA CrashType ==
  ASSUME TypeInv, Crash
  PROVE  TypeInv'
<1>1. CallsInv'
  BY IdleType DEF Crash, CallsInv
<1>2. crashes' \in 0 .. MaxCrashes
  <2>1. crashes \in 0 .. MaxCrashes /\ MaxCrashes \in Nat
    BY ToolsAssumption DEF TypeInv, DataInv
  <2>2. QED
    BY <2>1 DEF Crash
<1>3. DataInv'
  BY <1>2 DEF Crash, TypeInv, DataInv
<1>4. QED
  BY <1>1, <1>3 DEF TypeInv

LEMMA InitType == Init => TypeInv
<1> SUFFICES ASSUME Init PROVE TypeInv
  OBVIOUS
<1>1. CallsInv
  BY IdleType DEF Init, CallsInv
<1>2. disk \in Disk /\ code \in See
  BY ToolsAssumption DEF Init
<1>3. index \in Tables
  <2>1. Present(disk) \cup Code \in SUBSET File
    BY DEF Present, File
  <2>2. QED
    BY <2>1, ClearedType, RowsType, WithRowsType DEF Init
<1>4. InOrder \in BOOLEAN
  BY DEF InOrder
<1>5. registered \in BOOLEAN /\ calls \in 0 .. MaxCalls /\ crashes \in 0 .. MaxCrashes /\ sound \in BOOLEAN
  BY <1>4, ToolsAssumption DEF Init
<1>6. QED
  BY <1>1, <1>2, <1>3, <1>5 DEF TypeInv, DataInv

LEMMA NextType == TypeInv /\ [Next]_vars => TypeInv'
<1> SUFFICES ASSUME TypeInv, [Next]_vars PROVE TypeInv'
  OBVIOUS
<1>1. CASE UNCHANGED vars
  BY <1>1 DEF vars, TypeInv, DataInv, CallsInv
<1>2. CASE Crash
  BY <1>2, CrashType
<1>3. ASSUME NEW c \in Call, NEW request \in Request, Start(c, request)
      PROVE  TypeInv'
  BY <1>3, StartType
<1>4. ASSUME NEW c \in Call, Step(c)
      PROVE  TypeInv'
  BY <1>4, CreateExistsType, CreateWriteType, ReadCardType, WriteCardType, DeleteReferencesType,
     FileExistsType, DeleteUnlinkType, RenameTargetType, RenameMoveType, RenameReadType, RenameWriteType,
     SweepReadType, SweepWriteType, SweepCodeReadType, SweepCodeWriteType, ReadCodeType, WriteCodeType,
     KeywordType, ScanType, WriteIndexType DEF Step
<1>5. QED
  BY <1>1, <1>2, <1>3, <1>4 DEF Next

(* A call's request, its place and what it holds fit together at every step *)
(* of every tool, so the record that a tool writes is a card.               *)
THEOREM TypeCorrect == Spec => []TypeOK
<1>1. Spec => []TypeInv
  BY InitType, NextType, PTL DEF Spec
<1>2. QED
  BY <1>1, TypeInvType, PTL

-----------------------------------------------------------------------------
(* Keys *)

(* A step of one call leaves what every other call holds. *)
LEMMA OthersStay ==
  ASSUME TypeInv, NEW c \in Call, Step(c), NEW d \in Call, d # c
  PROVE  call'[d] = call[d]
<1>1. call \in [Call -> CallRecord]
  BY DEF TypeInv, CallsInv
<1>2. (\E s : call' = [call EXCEPT ![c] = s]) => call'[d] = call[d]
  BY <1>1
<1>3. ASSUME NEW pc, GoTo(c, pc) PROVE call'[d] = call[d]
  BY <1>1, <1>3 DEF GoTo
<1>4. ASSUME NEW pc, Over(c, pc) PROVE call'[d] = call[d]
  BY <1>1, <1>4 DEF Over
<1>5. Written(c) => call'[d] = call[d]
  BY <1>1, <1>4 DEF Written
<1>6. Reject(c) => call'[d] = call[d]
  BY <1>4 DEF Reject
<1>7. CASE CreateExists(c) \/ DeleteReferences(c) \/ FileExists(c) \/ RenameTarget(c) \/ RenameMove(c)
  BY <1>3, <1>6, <1>7 DEF CreateExists, DeleteReferences, FileExists, RenameTarget, RenameMove
<1>8. CASE CreateWrite(c) \/ WriteCard(c) \/ DeleteUnlink(c) \/ WriteCode(c)
  BY <1>5, <1>6, <1>8 DEF CreateWrite, WriteCard, DeleteUnlink, WriteCode
<1>9. CASE ReadCard(c)
  BY <1>1, <1>5, <1>6, <1>9 DEF ReadCard
<1>10. CASE RenameRead(c) \/ RenameWrite(c)
  BY <1>1, <1>4, <1>6, <1>10 DEF RenameRead, RenameWrite
<1>11. CASE SweepRead(c)
  BY <1>1, <1>6, <1>11 DEF SweepRead, Swept
<1>12. CASE SweepWrite(c) \/ SweepCodeWrite(c)
  BY <1>1, <1>12 DEF SweepWrite, SweepCodeWrite
<1>13. CASE SweepCodeRead(c)
  BY <1>1, <1>5, <1>13 DEF SweepCodeRead
<1>14. CASE ReadCode(c)
  BY <1>1, <1>5, <1>14 DEF ReadCode
<1>15. CASE Keyword(c) \/ WriteIndex(c)
  BY <1>4, <1>15 DEF Keyword, WriteIndex
<1>16. CASE Scan(c)
  BY <1>1, <1>16 DEF Scan
<1>17. QED
  BY <1>7, <1>8, <1>9, <1>10, <1>11, <1>12, <1>13, <1>14, <1>15, <1>16 DEF Step

LEMMA PutKeepsKeys ==
  ASSUME TypeInv, NEW p \in Key, NEW card \in Card \cup {None}, PutCard(p, card),
         card # None => card.key = p
  PROVE  Torn(disk') \subseteq Torn(disk)
BY DEF PutCard, Torn, Present, TypeInv, DataInv, Disk

LEMMA StepKeys ==
  ASSUME TypeInv, NEW c \in Call, Step(c)
  PROVE  \/ call[c].pc \in {"move", "patch"}
         \/ call[c].pc = "write" /\ Op(c) \in {"relate", "unrelate"}
         \/ Torn(disk') \subseteq Torn(disk)
<1>1. CASE UNCHANGED disk
  BY <1>1
<1>2. CASE CreateWrite(c)
  <2>1. call[c].request \in Request /\ Target(c) \in Key /\ CallOK(call[c]) /\ call[c].pc = "create"
    BY <1>2, AtFacts DEF CreateWrite, Ended
  <2> DEFINE card == [key |-> Target(c), status |-> "draft", relations |-> {}, keyword |-> Arg(c)]
  <2>2. card \in Card /\ card.key = Target(c)
    BY <2>1, RequestFacts DEF Card, CallOK, Arg, Status
  <2>3. PutCard(Target(c), card)
    BY <1>2 DEF CreateWrite
  <2> HIDE DEF card
  <2>4. QED
    BY <2>1, <2>2, <2>3, PutKeepsKeys
<1>3. CASE WriteCard(c)
  <2>1. call[c].request \in Request /\ Target(c) \in Key /\ CallOK(call[c]) /\ call[c].pc = "write"
    BY <1>3, AtFacts DEF WriteCard, Ended
  <2>2. call[c].held \in Card /\ Op(c) \in Editing
        /\ (Op(c) \in {"update", "status"} => call[c].held.key = Target(c))
    BY <2>1, ToolsAssumption DEF CallOK, Op, Target, Asked, Card
  <2>3. Edited(c, call[c].held) \in Card /\ Edited(c, call[c].held).key = call[c].held.key
    BY <2>1, <2>2, EditedType
  <2>4. PutCard(Target(c), Edited(c, call[c].held))
    BY <1>3 DEF WriteCard
  <2>5. QED
    BY <2>1, <2>2, <2>3, <2>4, PutKeepsKeys DEF Editing
<1>4. CASE DeleteUnlink(c)
  <2>1. Target(c) \in Key
    BY <1>4, AtFacts DEF DeleteUnlink, Ended
  <2>2. UNCHANGED disk \/ PutCard(Target(c), None)
    BY <1>4 DEF DeleteUnlink, Reject, Keeps
  <2>3. QED
    BY <1>1, <2>1, <2>2, PutKeepsKeys
<1>5. CASE RenameWrite(c)
  <2>1. CallOK(call[c]) /\ call[c].pc = "rewrite"
    BY <1>5, AtFacts DEF RenameWrite, Ended
  <2> DEFINE card == [call[c].held EXCEPT !.key = NewKey(c)]
  <2>2. NewKey(c) \in Key /\ card \in Card /\ card.key = NewKey(c)
    BY <2>1, RenameFacts DEF Renaming, CallOK, Card
  <2>3. PutCard(NewKey(c), card)
    BY <1>5 DEF RenameWrite
  <2> HIDE DEF card
  <2>4. QED
    BY <2>2, <2>3, PutKeepsKeys
<1>6. CASE RenameMove(c) \/ SweepWrite(c)
  BY <1>6 DEF RenameMove, SweepWrite, At
<1>7. CASE CreateExists(c) \/ ReadCard(c) \/ DeleteReferences(c) \/ FileExists(c) \/ RenameTarget(c) \/ RenameRead(c)
  BY <1>1, <1>7 DEF CreateExists, ReadCard, DeleteReferences, FileExists, RenameTarget, RenameRead, Reject, Keeps
<1>8. CASE SweepRead(c) \/ SweepCodeRead(c) \/ SweepCodeWrite(c) \/ ReadCode(c) \/ WriteCode(c)
  BY <1>1, <1>8 DEF SweepRead, SweepCodeRead, SweepCodeWrite, ReadCode, WriteCode, Reject, Keeps, PutCode
<1>9. CASE Keyword(c) \/ Scan(c) \/ WriteIndex(c)
  BY <1>1, <1>9 DEF Keyword, Scan, WriteIndex, Keeps
<1>10. QED
  BY <1>2, <1>3, <1>4, <1>5, <1>6, <1>7, <1>8, <1>9 DEF Step

(* cardCreate(), cardUpdate(), cardUpdateStatus(), cardDelete() and the     *)
(* second half of cardRename() never write a card under another file's key, *)
(* among any number of calls that interleave at their awaits.               *)
THEOREM KeysCorrect == Spec => KeysAreSafe
<1> DEFINE Safe == \A c \in Call :
       \/ call'[c] = call[c]
       \/ call[c].pc \in {"move", "patch"}
       \/ call[c].pc = "write" /\ Op(c) \in {"relate", "unrelate"}
       \/ Torn(disk') \subseteq Torn(disk)
<1>1. TypeInv /\ [Next]_vars => [Safe]_vars
  <2> SUFFICES ASSUME TypeInv, Next PROVE Safe
    OBVIOUS
  <2>1. CASE UNCHANGED disk
    BY <2>1
  <2>2. ASSUME NEW c \in Call, Step(c) PROVE Safe
    BY <2>2, OthersStay, StepKeys
  <2>3. Crash \/ (\E c \in Call, request \in Request : Start(c, request)) => UNCHANGED disk
    BY DEF Crash, Start
  <2>4. QED
    BY <2>1, <2>2, <2>3 DEF Next
<1>2. Spec => []TypeInv
  BY InitType, NextType, PTL DEF Spec
<1>3. Spec => [][Safe]_vars
  BY <1>1, <1>2, PTL DEF Spec
<1>4. QED
  BY <1>3 DEF KeysAreSafe

-----------------------------------------------------------------------------
(* Calls that are alone *)

LEMMA OverEnds ==
  ASSUME TypeInv, NEW c \in Call, NEW pc \in Ended, Over(c, pc)
  PROVE  ~Running(c)'
<1>1. call \in [Call -> CallRecord]
  BY DEF TypeInv, CallsInv
<1>2. call'[c].pc = pc
  BY <1>1 DEF Over, CallRecord
<1>3. QED
  BY <1>2 DEF Running

(* A step changes only the place of its call and what it holds. *)
LEMMA StepSelf ==
  ASSUME TypeInv, NEW c \in Call, Step(c)
  PROVE  /\ Running(c)
         /\ call'[c].request = call[c].request
         /\ call'[c].alone = call[c].alone
<1> DEFINE Same == call'[c].request = call[c].request /\ call'[c].alone = call[c].alone
<1>1. call \in [Call -> CallRecord]
  BY DEF TypeInv, CallsInv
<1>2. ASSUME NEW pc, GoTo(c, pc) PROVE Same
  BY <1>1, <1>2 DEF GoTo, CallRecord
<1>3. ASSUME NEW pc, Over(c, pc) PROVE Same
  BY <1>1, <1>3 DEF Over, CallRecord
<1>4. Written(c) => Same
  BY <1>1, <1>3 DEF Written, CallRecord
<1>5. Reject(c) => Same
  BY <1>3 DEF Reject
<1>6. Same
  <2>1. CASE CreateExists(c) \/ DeleteReferences(c) \/ FileExists(c) \/ RenameTarget(c) \/ RenameMove(c)
    BY <1>2, <1>5, <2>1 DEF CreateExists, DeleteReferences, FileExists, RenameTarget, RenameMove
  <2>2. CASE CreateWrite(c) \/ WriteCard(c) \/ DeleteUnlink(c) \/ WriteCode(c)
    BY <1>4, <1>5, <2>2 DEF CreateWrite, WriteCard, DeleteUnlink, WriteCode
  <2>3. CASE ReadCard(c)
    BY <1>1, <1>4, <1>5, <2>3 DEF ReadCard, CallRecord
  <2>4. CASE RenameRead(c)
    BY <1>1, <1>5, <2>4 DEF RenameRead, CallRecord
  <2>12. CASE RenameWrite(c)
    <3>1. CASE call[c].request.sync
      <4>1. PICK held, left : call' = [call EXCEPT ![c] = [@ EXCEPT !.pc = "sweep", !.held = held, !.left = left]]
        BY <2>12, <3>1 DEF RenameWrite
      <4>2. QED
        BY <1>1, <4>1 DEF CallRecord
    <3>2. CASE ~call[c].request.sync
      BY <1>3, <2>12, <3>2 DEF RenameWrite
    <3>3. QED
      BY <3>1, <3>2
  <2>5. CASE SweepRead(c)
    BY <1>1, <1>5, <2>5 DEF SweepRead, Swept, CallRecord
  <2>6. CASE SweepWrite(c) \/ SweepCodeWrite(c)
    BY <1>1, <2>6 DEF SweepWrite, SweepCodeWrite, CallRecord
  <2>7. CASE SweepCodeRead(c)
    BY <1>1, <1>4, <2>7 DEF SweepCodeRead, CallRecord
  <2>8. CASE ReadCode(c)
    BY <1>1, <1>4, <2>8 DEF ReadCode, CallRecord
  <2>9. CASE Keyword(c) \/ WriteIndex(c)
    BY <1>3, <2>9 DEF Keyword, WriteIndex
  <2>10. CASE Scan(c)
    BY <1>1, <2>10 DEF Scan, CallRecord
  <2>11. QED
    BY <2>1, <2>2, <2>3, <2>4, <2>5, <2>6, <2>7, <2>8, <2>9, <2>10, <2>12 DEF Step
<1>7. Running(c)
  BY DEF Step, CreateExists, CreateWrite, ReadCard, WriteCard, DeleteReferences, FileExists, DeleteUnlink,
     RenameTarget, RenameMove, RenameRead, RenameWrite, SweepRead, SweepWrite, SweepCodeRead, SweepCodeWrite,
     ReadCode, WriteCode, Keyword, Scan, WriteIndex, At, Running, Ended
<1>8. QED
  BY <1>6, <1>7

AloneInv == \A c, d \in Call : Running(c) /\ call[c].alone /\ d # c => ~Running(d)

LEMMA StartAlone ==
  ASSUME TypeInv, NEW c \in Call, NEW request \in Request, Start(c, request), NEW d \in Call, d # c
  PROVE  Running(d)' => Running(d) /\ ~call'[d].alone
<1>1. call'[d] = IF Running(d) THEN [call[d] EXCEPT !.alone = FALSE] ELSE call[d]
  BY DEF Start
<1>2. call[d] \in CallRecord
  BY DEF TypeInv, CallsInv
<1>3. QED
  BY <1>1, <1>2 DEF Running, CallRecord

LEMMA StartBegins ==
  ASSUME NEW c \in Call, NEW request \in Request, Start(c, request)
  PROVE  /\ call'[c].request = request
         /\ call'[c].alone <=> {d \in Call \ {c} : Running(d)} = {}
         /\ call'[c].pc # "index"
         /\ request.op = "rename" => call'[c].pc = "exists"
<1> DEFINE others == {d \in Call \ {c} : Running(d)}
           place == CASE request.op = "create" -> "exists"
                      [] request.op = "delete" -> IF request.sync THEN "references" ELSE "exists"
                      [] request.op = "rename" -> "exists"
                      [] request.op \in {"link", "unlink"} -> "readcode"
                      [] request.op \in {"keyword", "unkeyword"} -> "table"
                      [] request.op = "index" -> "scan"
                      [] OTHER -> "read"
<1>1. place # "index" /\ (request.op = "rename" => place = "exists")
  OBVIOUS
<1> HIDE DEF place
<1> DEFINE alone == others = {}
<1>2. call'[c] = [pc |-> place, request |-> request, held |-> None, left |-> {}, alone |-> alone]
  BY DEF Start, place
<1> HIDE DEF alone
<1>3. call'[c].pc = place /\ call'[c].request = request /\ call'[c].alone = alone
  BY <1>2
<1>4. call'[c].alone <=> others = {}
  BY <1>3 DEF alone
<1>5. QED
  BY <1>1, <1>3, <1>4

LEMMA AloneStep == TypeInv /\ AloneInv /\ [Next]_vars => AloneInv'
<1> SUFFICES ASSUME TypeInv, AloneInv, [Next]_vars, NEW c \in Call, NEW d \in Call,
                    Running(c)', call'[c].alone, d # c
             PROVE  ~Running(d)'
  BY DEF AloneInv
<1>1. CASE UNCHANGED vars
  BY <1>1 DEF vars, AloneInv, Running
<1>2. CASE Crash
  BY <1>2 DEF Crash, Idle, Running, Ended
<1>3. ASSUME NEW e \in Call, NEW request \in Request, Start(e, request)
      PROVE  ~Running(d)'
  <2>1. CASE e = c
    <3>1. ~Running(d)
      BY <1>3, <2>1, StartBegins
    <3>2. QED
      BY <1>3, <2>1, <3>1, StartAlone
  <2>2. CASE e # c
    BY <1>3, <2>2, StartAlone
  <2>3. QED
    BY <2>1, <2>2
<1>4. ASSUME NEW e \in Call, Step(e)
      PROVE  ~Running(d)'
  <2>1. Running(e)
    BY <1>4, StepSelf
  <2>2. CASE e = c
    BY <1>4, <2>1, <2>2, StepSelf, OthersStay DEF AloneInv, Running
  <2>3. CASE e # c
    <3>1. call'[c] = call[c]
      BY <1>4, <2>3, OthersStay
    <3>2. Running(c) /\ call[c].alone
      BY <3>1 DEF Running
    <3>3. QED
      BY <2>1, <2>3, <3>2 DEF AloneInv
  <2>4. QED
    BY <2>2, <2>3
<1>5. QED
  BY <1>1, <1>2, <1>3, <1>4 DEF Next

LEMMA AloneInit == Init => AloneInv
BY DEF Init, AloneInv, Running, Idle, Ended

-----------------------------------------------------------------------------
(* card_rename *)

(* How far a rename that is alone has come. *)
Phase(c) ==
  LET pc == call[c].pc
      k == Asked(c)
      old == Target(c)
  IN /\ pc \in {"reread", "rewrite", "sweep", "patch", "sweepcode", "patchcode", "scan", "index"} => disk[old] = None
     /\ pc \in {"sweep", "patch"} => old \notin call[c].left
     /\ pc = "patch" => call[c].held[1] # old
     /\ pc \in {"sweep", "patch"} =>
          \A p \in Present(disk) : \/ p \in call[c].left
                                   \/ pc = "patch" /\ p = call[c].held[1]
                                   \/ k \notin disk[p].relations
     /\ pc \in {"sweepcode", "patchcode", "scan", "index"} => \A p \in Present(disk) : k \notin disk[p].relations
     /\ pc \in {"sweepcode", "patchcode"} =>
          \A f \in Code : \/ f \in call[c].left
                          \/ pc = "patchcode" /\ f = call[c].held[1]
                          \/ k \notin code[f]
     /\ pc \in {"scan", "index"} => \A f \in Code : k \notin code[f]

RenameInv == \A c \in Call : Running(c) /\ Op(c) = "rename" /\ call[c].alone => Phase(c)

LEMMA StepPhase ==
  ASSUME TypeInv, NEW c \in Call, Step(c), Op(c) = "rename", Running(c)', Phase(c)
  PROVE  Phase(c)'
<1> DEFINE k == Asked(c)
           old == Target(c)
<1>1. /\ call \in [Call -> CallRecord] /\ CallOK(call[c]) /\ Running(c)
      /\ call'[c].request = call[c].request
  BY StepSelf DEF TypeInv, CallsInv
<1>2. /\ old \in Key /\ k \in Name /\ NewKey(c) \in Key /\ NewKey(c) # old /\ NewKey(c) # k
      /\ k = Asked(c)' /\ old = Target(c)'
  <2>1. /\ old \in Key /\ k \in Name /\ NewKey(c) \in Key /\ NewKey(c) # old
        /\ k = Asked(c)' /\ old = Target(c)'
    BY <1>1, RequestFacts DEF CallOK, Running, Op, Arg, Target, Asked, NewKey
  <2>2. QED
    BY <2>1, ToolsAssumption DEF Target
<1>3. ~Reject(c)
  BY OverEnds DEF Reject, Ended
<1>4. /\ ~CreateExists(c) /\ ~CreateWrite(c) /\ ~ReadCard(c) /\ ~WriteCard(c) /\ ~ReadCode(c) /\ ~WriteCode(c)
  BY <1>1 DEF CallOK, Op, CreateExists, CreateWrite, ReadCard, WriteCard, ReadCode, WriteCode, At, Editing, Renaming
<1>5. ~Keyword(c) /\ ~WriteIndex(c)
  BY OverEnds DEF Keyword, WriteIndex, Ended
<1>6. CASE DeleteReferences(c) \/ FileExists(c) \/ RenameTarget(c)
  <2>1. call'[c].pc \in {"exists", "unlink", "target", "move"}
    BY <1>1, <1>3, <1>6 DEF DeleteReferences, FileExists, RenameTarget, GoTo, CallRecord
  <2>2. QED
    BY <2>1 DEF Phase
<1>7. CASE DeleteUnlink(c)
  BY <1>1, <1>7 DEF DeleteUnlink, At, CallOK, Op
<1>8. CASE RenameMove(c)
  <2>1. call'[c].pc = "reread" /\ disk' = [disk EXCEPT ![old] = None, ![NewKey(c)] = disk[old]]
    BY <1>1, <1>3, <1>8 DEF RenameMove, GoTo, CallRecord
  <2>2. disk'[old] = None
    BY <1>2, <2>1 DEF TypeInv, DataInv, Disk
  <2>3. QED
    BY <1>2, <2>1, <2>2 DEF Phase
<1>9. CASE RenameRead(c)
  <2>1. call'[c].pc = "rewrite" /\ UNCHANGED disk /\ call[c].pc = "reread"
    BY <1>1, <1>3, <1>9 DEF RenameRead, Keeps, CallRecord, At
  <2>2. QED
    BY <1>2, <2>1 DEF Phase
<1>10. CASE RenameWrite(c)
  <2> DEFINE card == [call[c].held EXCEPT !.key = NewKey(c)]
  <2>1. disk' = [disk EXCEPT ![NewKey(c)] = card] /\ call[c].pc = "rewrite"
    BY <1>10 DEF RenameWrite, PutCard, At
  <2> HIDE DEF card
  <2>2. call[c].request.sync
    BY <1>10, OverEnds DEF RenameWrite, Ended
  <2>3. call'[c].pc = "sweep" /\ call'[c].left = Present(disk) \cup {NewKey(c)}
    <3> DEFINE left == Present(disk) \cup {NewKey(c)}
    <3>1. call' = [call EXCEPT ![c] = [@ EXCEPT !.pc = "sweep", !.held = None, !.left = left]]
      BY <1>10, <2>2 DEF RenameWrite
    <3> HIDE DEF left
    <3>2. call'[c].pc = "sweep" /\ call'[c].left = left
      BY <1>1, <3>1 DEF CallRecord
    <3>3. QED
      BY <3>2 DEF left
  <2>4. disk[old] = None /\ disk \in [Key -> Card \cup {None}]
    BY <2>1 DEF Phase, TypeInv, DataInv, Disk
  <2>5. disk'[old] = None /\ old \notin call'[c].left /\ Present(disk)' \subseteq call'[c].left
    BY <1>2, <2>1, <2>3, <2>4 DEF Present
  <2>6. QED
    BY <1>2, <2>3, <2>5 DEF Phase
<1>11. CASE SweepRead(c)
  <2>1. UNCHANGED <<disk, code>> /\ call[c].pc = "sweep"
    BY <1>3, <1>11 DEF SweepRead, Keeps, At
  <2>2. CASE Swept(c)
    <3>1. call'[c].pc = "sweepcode" /\ call'[c].left = Code /\ call[c].left = {}
      BY <1>1, <2>2 DEF Swept, CallRecord
    <3>2. QED
      BY <1>2, <2>1, <3>1 DEF Phase
  <2>3. ASSUME NEW p \in call[c].left, disk[p] # None,
               call' = [call EXCEPT ![c] =
                          IF Asked(c) \in disk[p].relations
                          THEN [@ EXCEPT !.pc = "patch", !.held = <<p, disk[p]>>, !.left = call[c].left \ {p}]
                          ELSE [@ EXCEPT !.left = call[c].left \ {p}]]
        PROVE  Phase(c)'
    <3>1. CASE k \in disk[p].relations
      <4>1. call'[c] = [call[c] EXCEPT !.pc = "patch", !.held = <<p, disk[p]>>, !.left = call[c].left \ {p}]
        BY <1>1, <2>3, <3>1
      <4>2. call'[c].pc = "patch" /\ call'[c].held[1] = p /\ call'[c].left = call[c].left \ {p}
        BY <1>1, <4>1 DEF CallRecord
      <4>3. QED
        BY <1>2, <2>1, <4>2 DEF Phase
    <3>2. CASE k \notin disk[p].relations
      <4>1. call'[c] = [call[c] EXCEPT !.left = call[c].left \ {p}]
        BY <1>1, <2>3, <3>2
      <4>2. call'[c].pc = "sweep" /\ call'[c].left = call[c].left \ {p}
        BY <1>1, <2>1, <4>1 DEF CallRecord
      <4>3. QED
        BY <1>2, <2>1, <3>2, <4>2 DEF Phase
    <3>3. QED
      BY <3>1, <3>2
  <2>4. QED
    BY <1>3, <1>11, <2>2, <2>3 DEF SweepRead
<1>12. CASE SweepWrite(c)
  <2> DEFINE p == call[c].held[1]
             card == [call[c].held[2] EXCEPT !.relations = Renamed(c, @)]
  <2>1. /\ disk' = [disk EXCEPT ![p] = card] /\ call[c].pc = "patch"
        /\ call' = [call EXCEPT ![c] = [@ EXCEPT !.pc = "sweep", !.held = None]]
    BY <1>12 DEF SweepWrite, PutCard, At
  <2>2. p \in Key /\ call[c].held[2] \in Card
    BY <1>1, <2>1 DEF CallOK
  <2>3. card.relations = Renamed(c, call[c].held[2].relations)
    BY <2>2 DEF Card
  <2>4. k \notin card.relations
    BY <1>2, <2>3 DEF Renamed
  <2> HIDE DEF card
  <2>5. call'[c].pc = "sweep" /\ call'[c].left = call[c].left
    BY <1>1, <2>1 DEF CallRecord
  <2>6. disk \in [Key -> Card \cup {None}] /\ p # old
    BY <2>1 DEF Phase, TypeInv, DataInv, Disk
  <2>7. disk'[old] = None /\ old \notin call'[c].left
    BY <1>2, <2>1, <2>5, <2>6 DEF Phase
  <2>8. ASSUME NEW q \in Present(disk)', q \notin call'[c].left
        PROVE  k \notin disk'[q].relations
    BY <2>1, <2>2, <2>4, <2>5, <2>6, <2>8 DEF Phase, Present
  <2>9. QED
    BY <1>2, <2>5, <2>7, <2>8 DEF Phase
<1>13. CASE SweepCodeRead(c)
  <2>1. UNCHANGED <<disk, code>> /\ call[c].pc = "sweepcode"
    BY <1>13 DEF SweepCodeRead, Keeps, At
  <2>2. CASE call[c].left = {} /\ Written(c)
    <3>1. call'[c].pc = "scan"
      <4>1. ~Over(c, "done")
        BY OverEnds DEF Ended
      <4>2. call[c].request.sync
        BY <2>2, <4>1 DEF Written
      <4>3. call' = [call EXCEPT ![c] = [@ EXCEPT !.pc = "scan", !.held = None, !.left = {}]]
        BY <2>2, <4>2 DEF Written
      <4>4. call'[c] = [call[c] EXCEPT !.pc = "scan", !.held = None, !.left = {}] /\ call[c] \in CallRecord
        BY <1>1, <4>3
      <4>5. QED
        BY <4>4 DEF CallRecord
    <3>2. QED
      BY <1>2, <2>1, <2>2, <3>1 DEF Phase
  <2>3. ASSUME NEW f \in call[c].left,
               call' = [call EXCEPT ![c] =
                          IF Asked(c) \in code[f]
                          THEN [@ EXCEPT !.pc = "patchcode", !.held = <<f, code[f]>>, !.left = call[c].left \ {f}]
                          ELSE [@ EXCEPT !.left = call[c].left \ {f}]]
        PROVE  Phase(c)'
    <3>1. CASE k \in code[f]
      <4>1. call'[c] = [call[c] EXCEPT !.pc = "patchcode", !.held = <<f, code[f]>>, !.left = call[c].left \ {f}]
        BY <1>1, <2>3, <3>1
      <4>2. call'[c].pc = "patchcode" /\ call'[c].held[1] = f /\ call'[c].left = call[c].left \ {f}
        BY <1>1, <4>1 DEF CallRecord
      <4>3. QED
        BY <1>2, <2>1, <4>2 DEF Phase
    <3>2. CASE k \notin code[f]
      <4>1. call'[c] = [call[c] EXCEPT !.left = call[c].left \ {f}]
        BY <1>1, <2>3, <3>2
      <4>2. call'[c].pc = "sweepcode" /\ call'[c].left = call[c].left \ {f}
        BY <1>1, <2>1, <4>1 DEF CallRecord
      <4>3. QED
        BY <1>2, <2>1, <3>2, <4>2 DEF Phase
    <3>3. QED
      BY <3>1, <3>2
  <2>4. QED
    BY <1>13, <2>2, <2>3 DEF SweepCodeRead
<1>14. CASE SweepCodeWrite(c)
  <2> DEFINE f == call[c].held[1]
             text == Renamed(c, call[c].held[2])
  <2>1. /\ code' = [code EXCEPT ![f] = text] /\ UNCHANGED disk /\ call[c].pc = "patchcode"
        /\ call' = [call EXCEPT ![c] = [@ EXCEPT !.pc = "sweepcode", !.held = None]]
    BY <1>14 DEF SweepCodeWrite, PutCode, At
  <2>2. k \notin text
    BY <1>2 DEF Renamed
  <2> HIDE DEF text
  <2>3. call'[c].pc = "sweepcode" /\ call'[c].left = call[c].left
    BY <1>1, <2>1 DEF CallRecord
  <2>4. code \in [Code -> SUBSET Text]
    BY DEF TypeInv, DataInv, See
  <2>5. ASSUME NEW g \in Code, g \notin call'[c].left
        PROVE  k \notin code'[g]
    BY <2>1, <2>2, <2>3, <2>4, <2>5 DEF Phase
  <2>6. QED
    BY <1>2, <2>1, <2>3, <2>5 DEF Phase
<1>15. CASE Scan(c)
  <2>1. call'[c].pc = "index" /\ UNCHANGED <<disk, code>> /\ call[c].pc = "scan"
    BY <1>1, <1>15 DEF Scan, Keeps, At, CallRecord
  <2>2. QED
    BY <1>2, <2>1 DEF Phase
<1>16. QED
  BY <1>4, <1>5, <1>6, <1>7, <1>8, <1>9, <1>10, <1>11, <1>12, <1>13, <1>14, <1>15 DEF Step

LEMMA RenameStep == TypeInv /\ AloneInv /\ RenameInv /\ [Next]_vars => RenameInv'
<1> SUFFICES ASSUME TypeInv, AloneInv, RenameInv, [Next]_vars, NEW c \in Call,
                    Running(c)', Op(c)' = "rename", call'[c].alone
             PROVE  Phase(c)'
  BY DEF RenameInv
<1>1. CASE UNCHANGED vars
  BY <1>1 DEF vars, RenameInv, Running, Op, Phase, Target, Asked, Present
<1>2. CASE Crash
  BY <1>2 DEF Crash, Idle, Running, Ended
<1>3. ASSUME NEW d \in Call, NEW request \in Request, Start(d, request)
      PROVE  Phase(c)'
  <2>1. CASE d = c
    <3>1. call'[c].pc = "exists"
      BY <1>3, <2>1, StartBegins DEF Op
    <3>2. QED
      BY <3>1 DEF Phase
  <2>2. CASE d # c
    BY <1>3, <2>2, StartAlone
  <2>3. QED
    BY <2>1, <2>2
<1>4. ASSUME NEW d \in Call, Step(d)
      PROVE  Phase(c)'
  <2>1. Running(d)
    BY <1>4, StepSelf
  <2>2. CASE d = c
    <3>1. Op(c) = "rename" /\ call[c].alone
      BY <1>4, <2>2, StepSelf DEF Op
    <3>2. QED
      BY <1>4, <2>1, <2>2, <3>1, StepPhase DEF RenameInv
  <2>3. CASE d # c
    <3>1. call'[c] = call[c]
      BY <1>4, <2>3, OthersStay
    <3>2. Running(c) /\ call[c].alone
      BY <3>1 DEF Running
    <3>3. QED
      BY <2>1, <2>3, <3>2 DEF AloneInv
  <2>4. QED
    BY <2>2, <2>3
<1>5. QED
  BY <1>1, <1>2, <1>3, <1>4 DEF Next

(* card_rename, alone, has replaced its old key in every card and source    *)
(* file when it comes to its reindex, for any number of them.               *)
THEOREM RenameCorrect == Spec => []RenameLeavesNoTrace
<1>1. Init => RenameInv
  BY DEF Init, RenameInv, Running, Idle, Ended
<1>2. RenameInv => RenameLeavesNoTrace
  BY DEF RenameInv, Phase, RenameLeavesNoTrace, AfterSweep
<1>3. Spec => [](TypeInv /\ AloneInv /\ RenameInv)
  BY <1>1, InitType, AloneInit, NextType, AloneStep, RenameStep, PTL DEF Spec
<1>4. QED
  BY <1>2, <1>3, PTL

-----------------------------------------------------------------------------
(* Reindexing *)

(* What holds of the tables between reindexes. *)
Sane(t) ==
  /\ t.fresh \subseteq t.tracked
  /\ \A k \in Key : t.rows[k] # None => t.rows[k] \in t.tracked
  /\ \A r \in t.relations : t.rows[r[1]] # None /\ t.rows[r[2]] # None
  /\ \A l \in t.links : t.rows[l[1]] # None
  /\ \A l \in t.links : l[2] \in t.fresh => l[1] \in Read(code[l[2]])

LEMMA ClearedSane == Sane(Cleared)
BY DEF Sane, Cleared

LEMMA DroppedSane ==
  ASSUME index \in Tables, Sane(index), NEW gone \in SUBSET Key
  PROVE  Sane(Dropped(gone))
<1> DEFINE keys == {k \in Key : index.rows[k] \in gone}
           rows == [k \in Key |-> IF k \in keys THEN None ELSE index.rows[k]]
           relations == {r \in index.relations : r[1] \notin keys /\ r[2] \notin keys}
           links == {l \in index.links : l[1] \notin keys}
           t == Dropped(gone)
<1>1. /\ t.rows = rows /\ t.relations = relations /\ t.links = links
      /\ t.tracked = index.tracked \ gone /\ t.fresh = index.fresh \ gone
  BY DEF Dropped, Tables
<1> HIDE DEF t
<1>2. index.relations \subseteq Key \X Key /\ index.links \subseteq Key \X Code
  BY DEF Tables
<1>3. \A k \in Key : rows[k] # None => rows[k] \in index.tracked \ gone
  BY DEF Sane
<1>4. \A r \in relations : rows[r[1]] # None /\ rows[r[2]] # None
  BY <1>2 DEF Sane
<1>5. \A l \in links : rows[l[1]] # None /\ (l[2] \in index.fresh => l[1] \in Read(code[l[2]]))
  BY <1>2 DEF Sane
<1> HIDE DEF rows, relations, links
<1>6. QED
  BY <1>1, <1>3, <1>4, <1>5 DEF Sane, t

LEMMA WithRowsSane ==
  ASSUME NEW t \in Tables, Sane(t), NEW files \in SUBSET File, NEW rows \in RowsOf(files)
  PROVE  /\ Sane(WithRows(t, files, rows))
         /\ Sane([WithRows(t, files, rows) EXCEPT !.relations = t.relations])
<1> DEFINE keys == {k \in Key : rows[k] # None}
           all == [k \in Key |-> IF k \in keys THEN rows[k] ELSE t.rows[k]]
           existing == {k \in Key : all[k] # None}
           relations == {r \in t.relations : r[1] \notin keys} \cup {r \in keys \X existing : r[2] \in Read(disk[rows[r[1]]].relations)}
           links == {l \in t.links : l[2] \notin files} \cup {l \in existing \X (files \cap Code) : l[1] \in Read(code[l[2]])}
           w == WithRows(t, files, rows)
           v == [w EXCEPT !.relations = t.relations]
<1>1. /\ w.rows = all /\ w.relations = relations /\ w.links = links
      /\ w.tracked = t.tracked \cup files /\ w.fresh = t.fresh \cup files
      /\ v.rows = all /\ v.relations = t.relations /\ v.links = links
      /\ v.tracked = t.tracked \cup files /\ v.fresh = t.fresh \cup files
  BY DEF WithRows
<1>2. t.relations \subseteq Key \X Key /\ t.links \subseteq Key \X Code
  BY DEF Tables
<1>3. \A k \in Key : rows[k] # None => rows[k] \in files
  BY DEF RowsOf
<1>4. \A k \in Key : all[k] # None => all[k] \in t.tracked \cup files
  BY <1>3 DEF Sane
<1>5. \A k \in Key : t.rows[k] # None => all[k] # None
  OBVIOUS
<1>6. \A r \in t.relations : all[r[1]] # None /\ all[r[2]] # None
  BY <1>2, <1>5 DEF Sane
<1>7. \A r \in relations : all[r[1]] # None /\ all[r[2]] # None
  BY <1>6
<1>8. \A l \in links : all[l[1]] # None
  BY <1>2, <1>5 DEF Sane
<1>9. \A l \in links : l[2] \in t.fresh \cup files => l[1] \in Read(code[l[2]])
  BY DEF Sane
<1>10. t.fresh \cup files \subseteq t.tracked \cup files
  BY DEF Sane
<1> HIDE DEF w, v, all, relations, links
<1>11. Sane(w)
  BY <1>1, <1>4, <1>7, <1>8, <1>9, <1>10 DEF Sane
<1>12. Sane(v)
  BY <1>1, <1>4, <1>6, <1>8, <1>9, <1>10 DEF Sane
<1>13. QED
  BY <1>11, <1>12 DEF w, v

LEMMA UnwrittenSane ==
  ASSUME index \in Tables, Sane(index), NEW files, Unwritten(files),
         \A f \in Code : f \notin files => code'[f] = code[f]
  PROVE  Sane(index)'
<1>1. /\ index'.rows = index.rows /\ index'.relations = index.relations /\ index'.links = index.links
      /\ index'.tracked = index.tracked /\ index'.fresh = index.fresh \ files
  BY DEF Unwritten, Tables
<1>2. index.links \subseteq Key \X Code
  BY DEF Tables
<1>3. \A l \in index.links : l[2] \in index.fresh \ files => l[1] \in Read(code'[l[2]])
  BY <1>2 DEF Sane
<1>4. QED
  BY <1>1, <1>3 DEF Sane

LEMMA SaneInit == Init => Sane(index)
<1> SUFFICES ASSUME Init PROVE Sane(index)
  OBVIOUS
<1>1. Present(disk) \cup Code \in SUBSET File
  BY DEF Present, File
<1>2. QED
  BY <1>1, ClearedType, ClearedSane, WithRowsSane DEF Init

LEMMA SaneWriteIndex ==
  ASSUME TypeInv, Sane(index), NEW c \in Call, WriteIndex(c)
  PROVE  Sane(index)'
<1> DEFINE files == call[c].left
           good == {p \in files : ~Refused(p)}
           tables == IF Mode(c) = "full" THEN Cleared ELSE Dropped(call[c].held)
<1>1. call[c] \in CallRecord /\ CallOK(call[c]) /\ call[c].pc = "index"
  BY AtFacts DEF WriteIndex, Ended
<1>2. call[c].held \in SUBSET Key /\ files \in SUBSET File
  BY <1>1 DEF CallOK, CallRecord
<1>3. tables \in Tables /\ Sane(tables)
  BY <1>2, ClearedType, ClearedSane, DroppedType, DroppedSane DEF TypeInv, DataInv
<1>4. UNCHANGED code
  BY DEF WriteIndex
<1>5. Sane(index') => Sane(index)'
  BY <1>4 DEF Sane
<1>6. CASE \E rows \in RowsOf(files) : index' = WithRows(tables, files, rows)
  <2> HIDE DEF tables
  <2>1. QED BY <1>2, <1>3, <1>5, <1>6, WithRowsSane
<1>7. CASE UNCHANGED index
  BY <1>4, <1>7 DEF Sane
<1>8. ASSUME NEW before \in SUBSET (good \cap Key), NEW rows \in RowsOf(before),
             index' = [WithRows(tables, before, rows) EXCEPT !.relations = tables.relations]
      PROVE  Sane(index)'
  <2>1. before \in SUBSET File
    BY <1>2
  <2> HIDE DEF tables
  <2>2. QED BY <1>3, <1>5, <1>8, <2>1, WithRowsSane
<1>9. QED
  BY <1>6, <1>7, <1>8 DEF WriteIndex

LEMMA SaneStep == TypeInv /\ Sane(index) /\ [Next]_vars => Sane(index)'
<1> SUFFICES ASSUME TypeInv, Sane(index), [Next]_vars PROVE Sane(index)'
  OBVIOUS
<1>1. CASE UNCHANGED <<index, code>>
  BY <1>1 DEF Sane
<1>2. index \in Tables /\ code \in [Code -> SUBSET Text]
  BY DEF TypeInv, DataInv, See
<1>3. ASSUME NEW p, NEW card, PutCard(p, card) PROVE Sane(index)'
  BY <1>2, <1>3, UnwrittenSane DEF PutCard
<1>4. ASSUME NEW f, NEW text, PutCode(f, text) PROVE Sane(index)'
  BY <1>2, <1>4, UnwrittenSane DEF PutCode
<1>5. Keeps => Sane(index)'
  BY <1>1 DEF Keeps
<1>6. ASSUME NEW c \in Call, Step(c) PROVE Sane(index)'
  <2>1. CASE CreateExists(c) \/ ReadCard(c) \/ DeleteReferences(c) \/ FileExists(c) \/ RenameTarget(c) \/ RenameRead(c)
    BY <1>5, <2>1 DEF CreateExists, ReadCard, DeleteReferences, FileExists, RenameTarget, RenameRead, Reject
  <2>2. CASE CreateWrite(c) \/ WriteCard(c) \/ DeleteUnlink(c) \/ RenameWrite(c) \/ SweepWrite(c)
    BY <1>3, <1>5, <2>2 DEF CreateWrite, WriteCard, DeleteUnlink, RenameWrite, SweepWrite, Reject
  <2>3. CASE RenameMove(c)
    BY <1>2, <1>5, <2>3, UnwrittenSane DEF RenameMove, Reject
  <2>4. CASE SweepRead(c) \/ SweepCodeRead(c) \/ ReadCode(c) \/ Keyword(c) \/ Scan(c)
    BY <1>5, <2>4 DEF SweepRead, SweepCodeRead, ReadCode, Keyword, Scan, Reject
  <2>5. CASE SweepCodeWrite(c) \/ WriteCode(c)
    BY <1>4, <2>5 DEF SweepCodeWrite, WriteCode
  <2>6. CASE WriteIndex(c)
    BY <2>6, SaneWriteIndex
  <2>7. QED
    BY <1>6, <2>1, <2>2, <2>3, <2>4, <2>5, <2>6 DEF Step
<1>7. QED
  BY <1>1, <1>6 DEF Next, vars, Crash, Start

(* What a reindex that is alone has found in its scan is as it was. *)
Scanned(c) == call[c].pc = "index" => call[c].left = Outdated(Mode(c)) /\ call[c].held = Gone

ScanInv == \A c \in Call : Running(c) /\ call[c].alone => Scanned(c)

LEMMA StepScanned ==
  ASSUME TypeInv, NEW c \in Call, Step(c), Running(c)'
  PROVE  Scanned(c)'
<1>1. call \in [Call -> CallRecord] /\ CallOK(call[c]) /\ Running(c) /\ call'[c].request = call[c].request
  BY StepSelf DEF TypeInv, CallsInv
<1>2. ASSUME NEW pc, pc # "index", GoTo(c, pc) PROVE Scanned(c)'
  BY <1>1, <1>2 DEF GoTo, CallRecord, Scanned
<1>3. ASSUME NEW pc \in Ended, Over(c, pc) PROVE Scanned(c)'
  BY <1>3, OverEnds
<1>4. ASSUME NEW pc, pc # "index", NEW held, NEW left,
             call' = [call EXCEPT ![c] = [@ EXCEPT !.pc = pc, !.held = held, !.left = left]]
      PROVE  Scanned(c)'
  BY <1>1, <1>4 DEF CallRecord, Scanned
<1>5. Written(c) => Scanned(c)'
  BY <1>3, <1>4 DEF Written, Ended
<1>6. Reject(c) => Scanned(c)'
  BY <1>3 DEF Reject, Ended
<1>7. CASE CreateExists(c) \/ DeleteReferences(c) \/ FileExists(c) \/ RenameTarget(c) \/ RenameMove(c)
  BY <1>2, <1>6, <1>7 DEF CreateExists, DeleteReferences, FileExists, RenameTarget, RenameMove
<1>8. CASE CreateWrite(c) \/ WriteCard(c) \/ DeleteUnlink(c) \/ WriteCode(c)
  BY <1>5, <1>6, <1>8 DEF CreateWrite, WriteCard, DeleteUnlink, WriteCode
<1>9. CASE ReadCard(c) \/ ReadCode(c) \/ RenameRead(c)
  <2>1. (call'[c].pc # "index") => Scanned(c)'
    BY DEF Scanned
  <2>2. QED
    BY <1>1, <1>5, <1>6, <1>9, <2>1 DEF ReadCard, ReadCode, RenameRead, CallRecord
<1>10. CASE RenameWrite(c)
  BY <1>3, <1>4, <1>10 DEF RenameWrite, Ended
<1>11. CASE SweepRead(c) \/ SweepCodeRead(c) \/ SweepWrite(c) \/ SweepCodeWrite(c)
  <2>1. (call'[c].pc # "index") => Scanned(c)'
    BY DEF Scanned
  <2>2. CASE SweepRead(c)
    BY <1>1, <1>6, <2>1, <2>2 DEF SweepRead, Swept, At, CallRecord
  <2>3. CASE SweepCodeRead(c)
    BY <1>1, <1>5, <2>1, <2>3 DEF SweepCodeRead, At, CallRecord
  <2>4. CASE SweepWrite(c) \/ SweepCodeWrite(c)
    BY <1>1, <2>1, <2>4 DEF SweepWrite, SweepCodeWrite, CallRecord
  <2>5. QED
    BY <1>11, <2>2, <2>3, <2>4
<1>12. CASE Keyword(c) \/ WriteIndex(c)
  BY <1>3, <1>12 DEF Keyword, WriteIndex, Ended
<1>13. CASE Scan(c)
  <2>1. call'[c].left = Outdated(Mode(c)) /\ call'[c].held = Gone /\ UNCHANGED <<disk, code, index>>
    BY <1>1, <1>13 DEF Scan, Keeps, CallRecord
  <2>2. Mode(c)' = Mode(c)
    BY <1>1 DEF Mode, Op, Arg
  <2>3. QED
    BY <2>1, <2>2 DEF Scanned, Outdated, Gone, Present
<1>14. QED
  BY <1>7, <1>8, <1>9, <1>10, <1>11, <1>12, <1>13 DEF Step

LEMMA ScanStep == TypeInv /\ AloneInv /\ ScanInv /\ [Next]_vars => ScanInv'
<1> SUFFICES ASSUME TypeInv, AloneInv, ScanInv, [Next]_vars, NEW c \in Call, Running(c)', call'[c].alone
             PROVE  Scanned(c)'
  BY DEF ScanInv
<1>1. CASE UNCHANGED vars
  BY <1>1 DEF vars, ScanInv, Running, Scanned, Outdated, Mode, Op, Arg, Gone, Present
<1>2. CASE Crash
  BY <1>2 DEF Crash, Idle, Running, Ended
<1>3. ASSUME NEW d \in Call, NEW request \in Request, Start(d, request)
      PROVE  Scanned(c)'
  BY <1>3, StartBegins, StartAlone DEF Scanned
<1>4. ASSUME NEW d \in Call, Step(d)
      PROVE  Scanned(c)'
  <2>1. CASE d = c
    BY <1>4, <2>1, StepScanned
  <2>2. CASE d # c
    <3>1. call'[c] = call[c] /\ Running(d)
      BY <1>4, <2>2, OthersStay, StepSelf
    <3>2. Running(c) /\ call[c].alone
      BY <3>1 DEF Running
    <3>3. QED
      BY <2>2, <3>1, <3>2 DEF AloneInv
  <2>3. QED
    BY <2>1, <2>2
<1>5. QED
  BY <1>1, <1>2, <1>3, <1>4 DEF Next

LEMMA WriteInStep ==
  ASSUME TypeInv, Sane(index), NEW c \in Call, WriteIndex(c), Scanned(c), call'[c].pc = "done"
  PROVE  /\ index'.fresh = Present(disk) \cup Code
         /\ NothingDangles(index')
         /\ ReadInto(index', call[c].left)
<1> DEFINE files == call[c].left
           good == {p \in files : ~Refused(p)}
           tables == IF Mode(c) = "full" THEN Cleared ELSE Dropped(call[c].held)
<1>1. call[c] \in CallRecord /\ call[c].pc = "index"
  BY AtFacts DEF WriteIndex, Ended
<1>2. files = Outdated(Mode(c)) /\ call[c].held = Gone
  BY <1>1 DEF Scanned
<1>3. ~Over(c, "rejected")
  BY <1>1 DEF Over, CallRecord, TypeInv, CallsInv
<1>4. good = files
  BY <1>3 DEF WriteIndex
<1>5. PICK rows \in RowsOf(files) : index' = WithRows(tables, files, rows)
  BY <1>3 DEF WriteIndex
<1>6. index \in Tables /\ Gone \in SUBSET Key
  BY DEF TypeInv, DataInv, Gone
<1>7. tables \in Tables /\ files \in SUBSET File
  BY <1>2, <1>6, ClearedType, DroppedType, OutdatedType
<1>8. tables.fresh \cup files = Present(disk) \cup Code
  <2>1. CASE Mode(c) = "full"
    BY <1>2, <2>1 DEF Outdated, Cleared
  <2>2. CASE Mode(c) # "full"
    <3>1. tables.fresh = index.fresh \ Gone
      BY <1>2, <2>2 DEF Dropped, Tables, TypeInv, DataInv
    <3>2. index.fresh \ Gone \subseteq Present(disk) \cup Code
      BY <1>6 DEF Tables, File, Sane, Gone, Present
    <3>3. Gone \cap (Present(disk) \cup Code) = {}
      BY ToolsAssumption DEF Gone, Present
    <3>4. QED
      BY <1>2, <2>2, <3>1, <3>2, <3>3 DEF Outdated
  <2>3. QED
    BY <2>1, <2>2
<1>9. \A k \in Key : tables.rows[k] \in Present(disk) \cup {None}
  <2>1. CASE Mode(c) = "full"
    BY <2>1 DEF Cleared
  <2>2. CASE Mode(c) # "full"
    <3>1. tables.rows = [k \in Key |-> IF index.rows[k] \in Gone THEN None ELSE index.rows[k]]
      BY <1>2, <2>2, <1>6 DEF Dropped, Tables
    <3>2. QED
      BY <1>6, <3>1 DEF Tables, Sane, Gone, Present
  <2>3. QED
    BY <2>1, <2>2
<1>10. \A k \in Key : rows[k] \in Present(disk) \cup {None}
  <2>1. \A k \in Key : rows[k] = None \/ rows[k] \in files \cap Key
    BY DEF RowsOf
  <2>2. files \cap Key \subseteq Present(disk)
    BY <1>2, ToolsAssumption DEF Outdated, Present
  <2>3. QED
    BY <2>1, <2>2
<1> HIDE DEF tables
<1>11. /\ index'.fresh = tables.fresh \cup files
       /\ index'.rows = [k \in Key |-> IF rows[k] # None THEN rows[k] ELSE tables.rows[k]]
  BY <1>5 DEF WithRows
<1>12. \A k \in Key : index'.rows[k] \in Present(disk) \cup {None}
  BY <1>9, <1>10, <1>11
<1>13. UNCHANGED code /\ Sane(index)' /\ index' \in Tables
  BY SaneWriteIndex, WriteIndexType DEF WriteIndex, TypeInv, DataInv
<1>14. NothingDangles(index')
  <2>1. ASSUME NEW r \in index'.relations PROVE {r[1], r[2]} \subseteq Existing(index')
    BY <1>13 DEF Tables, Sane, Existing
  <2>2. ASSUME NEW l \in index'.links PROVE l[1] \in Existing(index') \cap Read(code[l[2]])
    <3>1. l[1] \in Key /\ l[2] \in Code
      BY <1>13 DEF Tables
    <3>2. l[1] \in Read(code[l[2]])'
      BY <1>8, <1>11, <1>13, <3>1 DEF Sane
    <3>3. QED
      BY <1>13, <3>1, <3>2 DEF Sane, Existing, Read
  <2>3. QED
    BY <1>12, <2>1, <2>2 DEF NothingDangles
<1> DEFINE keys == {k \in Key : rows[k] # None}
           there == Existing(index')
<1>15. /\ index'.relations = {r \in tables.relations : r[1] \notin keys}
                               \cup {r \in keys \X there : r[2] \in Read(disk[rows[r[1]]].relations)}
       /\ index'.links = {l \in tables.links : l[2] \notin files}
                           \cup {l \in there \X (files \cap Code) : l[1] \in Read(code[l[2]])}
  BY <1>5 DEF WithRows, Existing
<1>16. there \subseteq Key /\ keys \subseteq there
  BY <1>11 DEF Existing
<1>17. ASSUME NEW p \in files \cap Key
       PROVE  /\ disk[p].key \in there
              /\ index'.rows[disk[p].key] = p =>
                   Related(index', disk[p].key) = Read(disk[p].relations) \cap there
  <2> DEFINE k == disk[p].key
  <2>1. k \in Key
    <3>1. p \in Present(disk)
      BY <1>2, ToolsAssumption DEF Outdated, Present
    <3>2. QED
      BY <3>1 DEF TypeInv, DataInv, Disk, Card, Present
  <2>2. rows[k] \in Key /\ rows[k] # None
    BY <2>1, ToolsAssumption DEF RowsOf, File
  <2>3. k \in keys /\ index'.rows[k] = rows[k]
    BY <1>11, <2>1, <2>2
  <2> HIDE DEF k, keys, there
  <2>4. ASSUME rows[k] = p
        PROVE  Related(index', k) = Read(disk[p].relations) \cap there
    BY <1>15, <1>16, <2>3, <2>4 DEF Related
  <2>5. QED
    BY <1>16, <2>3, <2>4 DEF k
<1>18. ASSUME NEW f \in files \cap Code
       PROVE  Linked(index', f) = Read(code[f]) \cap there
  <2> HIDE DEF keys, there
  <2>1. QED BY <1>15, <1>16 DEF Linked
<1>19. ReadInto(index', files)
  BY <1>17, <1>18 DEF ReadInto
<1>20. QED
  BY <1>8, <1>11, <1>14, <1>19

-----------------------------------------------------------------------------
(* References.  Of calls that come one after the other, the files name only *)
(* cards that are there, or the old key of the rename under way where its   *)
(* sweep is still to come by; and the tables hold exactly the relations     *)
(* and links of every file that has not been written since the last         *)
(* reindex, which is what makes the check of card_delete, over the tables,  *)
(* a check of the files.                                                    *)

Trailing == {"reread", "rewrite", "sweep", "patch", "sweepcode", "patchcode"}

Quiet == Place \ (Trailing \cup {"scan", "index"})

OldKey(s) ==
  IF s.pc \in Trailing \/ (s.pc \in {"scan", "index"} /\ s.request.op = "rename")
  THEN {s.request.key} ELSE {}

Named(names) ==
  /\ \A p \in Present(disk) : disk[p].relations \subseteq names
  /\ \A f \in Code : code[f] \subseteq names

Unnamed(k) ==
  /\ \A p \in Present(disk) : k \notin disk[p].relations
  /\ \A f \in Code : k \notin code[f]

(* No file has been written since the last reindex. *)
Whole == Present(disk) \cup Code \subseteq index.fresh

Described ==
  /\ \A k \in Key : index.rows[k] \in {k, None} /\ (k \in index.fresh => index.rows[k] = k)
  /\ \A p \in Present(disk) \cap index.fresh : Related(index, p) = disk[p].relations
  /\ \A f \in Code \cap index.fresh : Linked(index, f) = code[f]

(* The files, when a call that has run by itself so far is at s. *)
SoundFiles(s) ==
  /\ Named(Present(disk) \cup OldKey(s))
  /\ Torn(disk) \subseteq IF s.pc \in {"reread", "rewrite"} THEN {KeyOf[s.request.arg]} ELSE {}
  /\ s.pc \in Quiet => Whole
  /\ s.pc \in Trailing => disk[KeyOf[s.request.arg]] # None
  /\ s.pc \in {"sweep", "patch"} => s.left \subseteq Present(disk)
  /\ s.pc = "unlink" \/ (s.pc = "exists" /\ s.request.op = "delete") => Unnamed(s.request.key)

(* What it is about to write. *)
SoundHeld(s) ==
  /\ s.pc \in {"read", "write", "readcode", "writecode"} => Brings(s.request) \subseteq Present(disk)
  /\ s.pc = "write" => s.held.relations \subseteq Present(disk) /\ s.held.key = KeyOf[s.request.key]
  /\ s.pc = "rewrite" => s.held.relations \subseteq Present(disk) \cup OldKey(s)
  /\ s.pc = "patch" => /\ s.held[1] \in Present(disk) /\ s.held[2].key = s.held[1]
                       /\ s.held[2].relations \subseteq Present(disk) \cup OldKey(s)
  /\ s.pc = "writecode" => s.held \subseteq Present(disk)
  /\ s.pc = "patchcode" => s.held[2] \subseteq Present(disk) \cup OldKey(s)

SoundCall(s) == SoundFiles(s) /\ SoundHeld(s)

SoundInv ==
  sound =>
    /\ Described
    /\ \A c \in Call : Running(c) => /\ call[c].alone /\ call[c].request.sync
                               /\ AsksByKey(call[c].request) /\ SoundCall(call[c])
    /\ (\A c \in Call : ~Running(c)) => Named(Present(disk)) /\ Torn(disk) = {} /\ Whole

(* A sound call to delete or to rename a card asks for it by its key. *)
LEMMA AskedIsKey ==
  ASSUME NEW c \in Call, AsksByKey(call[c].request), Op(c) \in {"delete", "rename"}
  PROVE  Asked(c) \in Key /\ Target(c) = Asked(c)
BY ToolsAssumption DEF AsksByKey, Op, Asked, Target

LEMMA OverFields ==
  ASSUME TypeInv, NEW c \in Call, NEW pc, Over(c, pc)
  PROVE  call'[c].pc = pc /\ call'[c].request = call[c].request
BY DEF Over, TypeInv, CallsInv, CallRecord

LEMMA GoToFields ==
  ASSUME TypeInv, NEW c \in Call, NEW pc, GoTo(c, pc)
  PROVE  /\ call'[c].pc = pc /\ call'[c].request = call[c].request
         /\ call'[c].held = call[c].held /\ call'[c].left = call[c].left
BY DEF GoTo, TypeInv, CallsInv, CallRecord

LEMMA HoldFields ==
  ASSUME TypeInv, NEW c \in Call, NEW pc, NEW held, NEW left,
         call' = [call EXCEPT ![c] = [@ EXCEPT !.pc = pc, !.held = held, !.left = left]]
  PROVE  /\ call'[c].pc = pc /\ call'[c].request = call[c].request
         /\ call'[c].held = held /\ call'[c].left = left
BY DEF TypeInv, CallsInv, CallRecord

LEMMA WrittenFields ==
  ASSUME TypeInv, NEW c \in Call, Written(c), call[c].request.sync
  PROVE  call'[c].pc = "scan" /\ call'[c].request = call[c].request
<1>1. call' = [call EXCEPT ![c] = [@ EXCEPT !.pc = "scan", !.held = None, !.left = {}]]
  BY DEF Written
<1>2. QED
  BY <1>1, HoldFields

(* A step that writes nothing. *)
LEMMA KeepsSound ==
  ASSUME Described, Keeps, NEW c \in Call, SoundCall(call'[c])
  PROVE  Described' /\ SoundCall(call[c])'
<1>1. /\ UNCHANGED <<disk, code, index>>
      /\ Present(disk)' = Present(disk) /\ Torn(disk)' = Torn(disk)
  BY DEF Keeps, Present, Torn
<1>2. Described'
  BY <1>1 DEF Described
<1> DEFINE s == call'[c]
<1>3. OldKey(call[c])' = OldKey(s)
  BY DEF OldKey
<1>4. SoundFiles(call[c])'
  BY <1>1, <1>3 DEF SoundCall, SoundFiles, Named, Unnamed, Whole
<1>5. SoundHeld(call[c])'
  BY <1>1, <1>3 DEF SoundCall, SoundHeld, Brings
<1>6. QED
  BY <1>2, <1>4, <1>5 DEF SoundCall

(* A call ends with no file written since the last reindex. *)
LEMMA EndSound ==
  ASSUME TypeInv, Described, NEW c \in Call, SoundCall(call[c]), call[c].pc \in Quiet, Keeps,
         NEW pc \in Ended, Over(c, pc)
  PROVE  Described' /\ SoundCall(call[c])'
<1>1. call'[c].pc = pc
  BY OverFields
<1>2. SoundFiles(call'[c])
  BY <1>1 DEF SoundCall, SoundFiles, OldKey, Quiet, Trailing, Ended, Place
<1>3. SoundHeld(call'[c])
  BY <1>1 DEF SoundHeld, Ended
<1>4. QED
  BY <1>2, <1>3, KeepsSound DEF SoundCall

LEMMA RejectSound ==
  ASSUME TypeInv, Described, NEW c \in Call, SoundCall(call[c]), call[c].pc \in Quiet, Reject(c)
  PROVE  Described' /\ SoundCall(call[c])'
BY EndSound DEF Reject, Ended

(* A call comes to its reindex, with the files in order. *)
LEMMA ToScan ==
  ASSUME NEW s, s.pc = "scan", Named(Present(disk)), Torn(disk) = {}
  PROVE  SoundCall(s)
BY DEF SoundCall, SoundFiles, SoundHeld, OldKey, Named, Trailing, Quiet

(* A file that is written leaves the tables as they are for the others. *)
LEMMA UnwrittenDescribed ==
  ASSUME TypeInv, Described, NEW files, Unwritten(files),
         \A p \in Key : p \notin files => disk'[p] = disk[p],
         \A f \in Code : f \notin files => code'[f] = code[f]
  PROVE  Described'
<1>1. /\ index'.rows = index.rows /\ index'.relations = index.relations /\ index'.links = index.links
      /\ index'.fresh = index.fresh \ files
  BY DEF Unwritten, Tables, TypeInv, DataInv
<1>2. QED
  BY <1>1 DEF Described, Present, Related, Linked

LEMMA PutCardDescribed ==
  ASSUME TypeInv, Described, NEW p \in Key, NEW card, PutCard(p, card)
  PROVE  Described'
BY UnwrittenDescribed DEF PutCard, TypeInv, DataInv, Disk

LEMMA PutCodeDescribed ==
  ASSUME TypeInv, Described, NEW f \in Code, NEW text, PutCode(f, text)
  PROVE  Described'
BY UnwrittenDescribed DEF PutCode, TypeInv, DataInv, See

(* A card that is written, and names only what the others may name. *)
LEMMA PutCardFiles ==
  ASSUME TypeInv, NEW p \in Key, NEW card \in Card, PutCard(p, card)
  PROVE  /\ Present(disk)' = Present(disk) \cup {p} /\ UNCHANGED code
         /\ disk'[p] = card /\ card # None
         /\ \A q \in Present(disk)' : q # p => q \in Present(disk) /\ disk'[q] = disk[q]
<1>1. disk' = [disk EXCEPT ![p] = card] /\ UNCHANGED code /\ card # None
  BY ToolsAssumption DEF PutCard
<1>2. QED
  BY <1>1 DEF Present, TypeInv, DataInv, Disk

LEMMA PutCardKept ==
  ASSUME TypeInv, Described, NEW p \in Key, NEW card \in Card, PutCard(p, card), card.key = p,
         Named(Present(disk)), card.relations \subseteq Present(disk), Torn(disk) = {}
  PROVE  Named(Present(disk))' /\ Torn(disk)' = {} /\ Described' /\ Present(disk)' = Present(disk) \cup {p}
<1>1. Named(Present(disk))' /\ Present(disk)' = Present(disk) \cup {p}
  BY PutCardFiles DEF Named
<1>2. QED
  BY <1>1, PutKeepsKeys, PutCardDescribed

(* The same of a source file. *)
LEMMA PutCodeFiles ==
  ASSUME TypeInv, NEW f \in Code, NEW text, PutCode(f, text)
  PROVE  /\ Present(disk)' = Present(disk) /\ Torn(disk)' = Torn(disk) /\ disk' = disk
         /\ \A g \in Code : code'[g] = IF g = f THEN text ELSE code[g]
BY DEF PutCode, Present, Torn, TypeInv, DataInv, See

LEMMA CreateExistsSound ==
  ASSUME TypeInv, Described, NEW c \in Call, CreateExists(c), SoundCall(call[c])
  PROVE  Described' /\ SoundCall(call[c])'
<1>1. call[c].pc = "exists" /\ call[c].pc \in Quiet
  BY DEF CreateExists, At, Quiet, Place, Trailing
<1>2. CASE Reject(c)
  BY <1>1, <1>2, RejectSound
<1>3. CASE GoTo(c, "create") /\ Keeps
  <2>1. call'[c].pc = "create"
    BY <1>3, GoToFields
  <2>2. SoundCall(call'[c])
    BY <1>1, <2>1 DEF SoundCall, SoundFiles, SoundHeld, OldKey, Trailing
  <2>3. QED
    BY <1>3, <2>2, KeepsSound
<1>4. QED
  BY <1>2, <1>3 DEF CreateExists

LEMMA CreateWriteSound ==
  ASSUME TypeInv, Described, NEW c \in Call, CreateWrite(c), SoundCall(call[c]), call[c].request.sync
  PROVE  Described' /\ SoundCall(call[c])'
<1>1. call[c].request \in Request /\ Target(c) \in Key /\ CallOK(call[c]) /\ call[c].pc = "create"
  BY AtFacts DEF CreateWrite, Ended
<1> DEFINE card == [key |-> Target(c), status |-> "draft", relations |-> {}, keyword |-> Arg(c)]
<1>2. card \in Card /\ card.key = Target(c) /\ card.relations = {}
  BY <1>1, RequestFacts DEF Card, CallOK, Arg, Status
<1>3. PutCard(Target(c), card)
  BY DEF CreateWrite
<1> HIDE DEF card
<1>4. Named(Present(disk)) /\ Torn(disk) = {}
  BY <1>1 DEF SoundCall, SoundFiles, OldKey, Trailing
<1>5. Named(Present(disk))' /\ Torn(disk)' = {} /\ Described'
  BY <1>1, <1>2, <1>3, <1>4, PutCardKept
<1>6. call'[c].pc = "scan" /\ call'[c].request.op = "create"
  BY <1>1, WrittenFields DEF CreateWrite, CallOK
<1>7. SoundCall(call[c])'
  BY <1>5, <1>6, ToScan DEF SoundCall, SoundFiles, SoundHeld, OldKey, Trailing, Quiet
<1>8. QED
  BY <1>5, <1>7

LEMMA ReadCardSound ==
  ASSUME TypeInv, Described, NEW c \in Call, ReadCard(c), SoundCall(call[c]), call[c].request.sync
  PROVE  Described' /\ SoundCall(call[c])'
<1> DEFINE card == disk[Target(c)]
<1>1. call[c].pc = "read" /\ call[c].pc \in Quiet /\ Target(c) \in Key /\ Op(c) \in Editing
  BY AtFacts DEF ReadCard, Ended, Quiet, Place, Trailing, CallOK, Op
<1>2. Named(Present(disk)) /\ Torn(disk) = {}
  BY <1>1 DEF SoundCall, SoundFiles, OldKey, Trailing
<1>3. CASE Reject(c)
  BY <1>1, <1>3, RejectSound
<1>4. CASE Written(c) /\ Keeps
  <2>1. SoundCall(call'[c])
    BY <1>1, <1>2, <1>4, WrittenFields, ToScan DEF SoundCall, SoundFiles, SoundHeld, OldKey, Named
  <2>2. QED
    BY <1>4, <2>1, KeepsSound
<1>5. CASE /\ call' = [call EXCEPT ![c] = [@ EXCEPT !.pc = "write", !.held = card]]
           /\ Keeps /\ card # None
  <2>1. call'[c].pc = "write" /\ call'[c].request = call[c].request /\ call'[c].held = card
    BY <1>5 DEF TypeInv, CallsInv, CallRecord
  <2>2. card.relations \subseteq Present(disk) /\ card.key = Target(c)
    BY <1>1, <1>2, <1>5 DEF Named, Present, Torn
  <2>3. SoundFiles(call'[c])
    BY <1>1, <2>1 DEF SoundCall, SoundFiles, OldKey, Trailing, Quiet
  <2>4. SoundHeld(call'[c])
    BY <1>1, <2>1, <2>2 DEF SoundCall, SoundHeld, OldKey, Trailing, Target, Asked
  <2>5. QED
    BY <1>5, <2>3, <2>4, KeepsSound DEF SoundCall
<1>6. QED
  BY <1>3, <1>4, <1>5 DEF ReadCard

LEMMA WriteCardSound ==
  ASSUME TypeInv, Described, NEW c \in Call, WriteCard(c), SoundCall(call[c]), call[c].request.sync
  PROVE  Described' /\ SoundCall(call[c])'
<1> DEFINE held == call[c].held
           card == Edited(c, held)
<1>1. call[c].request \in Request /\ Target(c) \in Key /\ CallOK(call[c]) /\ call[c].pc = "write"
  BY AtFacts DEF WriteCard, Ended
<1>2. held \in Card /\ Op(c) \in Editing /\ held.key = Target(c) /\ held.relations \subseteq Present(disk)
  BY <1>1 DEF CallOK, Op, Target, Asked, SoundCall, SoundHeld
<1>3. card \in Card /\ card.key = Target(c)
  BY <1>1, <1>2, EditedType
<1>4. card.relations \subseteq Present(disk)
  <2>1. Brings(call[c].request) \subseteq Present(disk)
    BY <1>1 DEF SoundCall, SoundHeld
  <2>2. CASE Op(c) = "update"
    BY <1>2, <2>1, <2>2 DEF Edited, Brings, Op, Arg, Card
  <2>3. CASE Op(c) = "status"
    BY <1>2, <2>3 DEF Edited, Card
  <2>4. CASE Op(c) = "relate"
    BY <1>2, <2>1, <2>4 DEF Edited, Brings, Op, Arg, Card
  <2>5. CASE Op(c) = "unrelate"
    BY <1>2, <2>5 DEF Edited, Card
  <2>6. QED
    BY <1>2, <2>2, <2>3, <2>4, <2>5 DEF Editing
<1>5. PutCard(Target(c), card)
  BY DEF WriteCard
<1> HIDE DEF card
<1>6. Named(Present(disk)) /\ Torn(disk) = {}
  BY <1>1 DEF SoundCall, SoundFiles, OldKey, Trailing
<1>7. Named(Present(disk))' /\ Torn(disk)' = {} /\ Described'
  BY <1>1, <1>3, <1>4, <1>5, <1>6, PutCardKept
<1>8. call'[c].pc = "scan" /\ call'[c].request.op # "rename"
  BY <1>1, WrittenFields DEF WriteCard, CallOK, Editing
<1>9. SoundCall(call[c])'
  BY <1>7, <1>8 DEF SoundCall, SoundFiles, SoundHeld, OldKey, Trailing, Quiet
<1>10. QED
  BY <1>7, <1>9

(* The check of card_delete: the tables know of every name. *)
LEMMA DeleteReferencesSound ==
  ASSUME TypeInv, Described, NEW c \in Call, DeleteReferences(c), SoundCall(call[c])
  PROVE  Described' /\ SoundCall(call[c])'
<1>1. call[c].pc = "references" /\ call[c].pc \in Quiet
  BY DEF DeleteReferences, At, Quiet, Place, Trailing
<1>2. CASE Reject(c)
  BY <1>1, <1>2, RejectSound
<1>3. CASE References(Asked(c)) = {} /\ GoTo(c, "exists") /\ Keeps
  <2>1. call'[c].pc = "exists" /\ call'[c].request = call[c].request
    BY <1>3, GoToFields
  <2>2. Present(disk) \cup Code \subseteq index.fresh
    BY <1>1 DEF SoundCall, SoundFiles, Whole
  <2>3. ASSUME NEW p \in Present(disk) PROVE Asked(c) \notin disk[p].relations
    <3>1. Asked(c) \notin Related(index, p)
      BY <1>3 DEF References, Related
    <3>2. QED
      BY <2>2, <3>1 DEF Described
  <2>4. ASSUME NEW f \in Code PROVE Asked(c) \notin code[f]
    <3>1. Asked(c) \notin Linked(index, f)
      BY <1>3 DEF References, Linked
    <3>2. QED
      BY <2>2, <3>1 DEF Described
  <2>5. SoundCall(call'[c])
    BY <1>1, <2>1, <2>3, <2>4 DEF SoundCall, SoundFiles, SoundHeld, OldKey, Trailing, Unnamed, Asked
  <2>6. QED
    BY <1>3, <2>5, KeepsSound
<1>4. QED
  BY <1>2, <1>3 DEF DeleteReferences

LEMMA FileExistsSound ==
  ASSUME TypeInv, Described, NEW c \in Call, FileExists(c), SoundCall(call[c])
  PROVE  Described' /\ SoundCall(call[c])'
<1>1. call[c].pc = "exists" /\ call[c].pc \in Quiet /\ Op(c) \in {"delete", "rename"}
  BY DEF FileExists, At, Quiet, Place, Trailing
<1>2. CASE Reject(c)
  BY <1>1, <1>2, RejectSound
<1>3. CASE GoTo(c, IF Op(c) = "delete" THEN "unlink" ELSE "target") /\ Keeps
  <2>1. /\ call'[c].pc = IF Op(c) = "delete" THEN "unlink" ELSE "target"
        /\ call'[c].request = call[c].request
    BY <1>3, GoToFields
  <2>2. SoundCall(call'[c])
    BY <1>1, <2>1 DEF SoundCall, SoundFiles, SoundHeld, OldKey, Trailing, Op
  <2>3. QED
    BY <1>3, <2>2, KeepsSound
<1>4. QED
  BY <1>2, <1>3 DEF FileExists

LEMMA DeleteUnlinkSound ==
  ASSUME TypeInv, Described, NEW c \in Call, DeleteUnlink(c), SoundCall(call[c]), AsksByKey(call[c].request), call[c].request.sync
  PROVE  Described' /\ SoundCall(call[c])'
<1> DEFINE k == Target(c)
<1>1. call[c].pc = "unlink" /\ call[c].pc \in Quiet /\ k \in Key /\ call[c].request.op = "delete"
  BY AtFacts DEF DeleteUnlink, Ended, Quiet, Place, Trailing, CallOK
<1>2. CASE Reject(c)
  BY <1>1, <1>2, RejectSound
<1>3. CASE PutCard(k, None) /\ Written(c)
  <2>1. disk' = [disk EXCEPT ![k] = None] /\ UNCHANGED code /\ Described'
    BY <1>1, <1>3, PutCardDescribed DEF PutCard
  <2>2. Present(disk)' = Present(disk) \ {k}
    BY <1>1, <2>1 DEF Present, TypeInv, DataInv, Disk
  <2>3. \A p \in Present(disk)' : disk'[p] = disk[p]
    BY <2>1, <2>2 DEF Present, TypeInv, DataInv, Disk
  <2>4. Named(Present(disk)) /\ Torn(disk) = {} /\ Unnamed(k)
    <3>1. k = Asked(c)
      BY <1>1, AskedIsKey DEF Op
    <3>2. QED
      BY <1>1, <3>1 DEF SoundCall, SoundFiles, OldKey, Trailing, Asked
  <2>5. Named(Present(disk))'
    BY <2>1, <2>2, <2>3, <2>4 DEF Named, Unnamed
  <2>6. Torn(disk)' = {}
    BY <2>2, <2>3, <2>4 DEF Torn
  <2>7. call'[c].pc = "scan" /\ call'[c].request.op = "delete"
    BY <1>1, <1>3, WrittenFields
  <2>8. SoundCall(call[c])'
    BY <2>5, <2>6, <2>7 DEF SoundCall, SoundFiles, SoundHeld, OldKey, Trailing, Quiet, Named
  <2>9. QED
    BY <2>1, <2>8
<1>4. QED
  BY <1>2, <1>3 DEF DeleteUnlink

LEMMA RenameTargetSound ==
  ASSUME TypeInv, Described, NEW c \in Call, RenameTarget(c), SoundCall(call[c])
  PROVE  Described' /\ SoundCall(call[c])'
<1>1. call[c].pc = "target" /\ call[c].pc \in Quiet
  BY DEF RenameTarget, At, Quiet, Place, Renaming, Trailing
<1>2. CASE Reject(c)
  BY <1>1, <1>2, RejectSound
<1>3. CASE GoTo(c, "move") /\ Keeps
  <2>1. call'[c].pc = "move"
    BY <1>3, GoToFields
  <2>2. SoundCall(call'[c])
    BY <1>1, <2>1 DEF SoundCall, SoundFiles, SoundHeld, OldKey, Trailing
  <2>3. QED
    BY <1>3, <2>2, KeepsSound
<1>4. QED
  BY <1>2, <1>3 DEF RenameTarget

(* The card moves: its old key is named, and it is in the moved file. *)
LEMMA RenameMoveSound ==
  ASSUME TypeInv, Described, NEW c \in Call, RenameMove(c), SoundCall(call[c]), AsksByKey(call[c].request)
  PROVE  Described' /\ SoundCall(call[c])'
<1> DEFINE k == Target(c)
           a == NewKey(c)
<1>1. call[c].pc = "move" /\ call[c].pc \in Quiet /\ CallOK(call[c])
  BY AtFacts DEF RenameMove, Ended, Quiet, Place, Renaming, Trailing
<1>2. k \in Key /\ a \in Key /\ a # k /\ k = Asked(c)
  BY <1>1, RenameFacts, AskedIsKey DEF Renaming
<1>3. CASE Reject(c)
  BY <1>1, <1>3, RejectSound
<1>4. CASE ~Reject(c)
  <2>1. /\ disk' = [disk EXCEPT ![k] = None, ![a] = disk[k]] /\ disk[k] # None
        /\ Unwritten({k, a}) /\ GoTo(c, "reread") /\ UNCHANGED code
    BY <1>4 DEF RenameMove
  <2>2. disk' = [p \in Key |-> IF p = a THEN disk[k] ELSE IF p = k THEN None ELSE disk[p]]
    BY <1>2, <2>1 DEF TypeInv, DataInv, Disk
  <2>3. Described'
    BY <2>1, <2>2, UnwrittenDescribed
  <2>4. Present(disk)' = (Present(disk) \ {k}) \cup {a}
    BY <1>2, <2>1, <2>2 DEF Present
  <2>5. Named(Present(disk)) /\ Torn(disk) = {}
    BY <1>1 DEF SoundCall, SoundFiles, OldKey, Trailing
  <2>6. /\ \A p \in Present(disk)' : disk'[p].relations \subseteq Present(disk)' \cup {k}
        /\ \A f \in Code : code'[f] \subseteq Present(disk)' \cup {k}
    <3>1. Present(disk) \subseteq Present(disk)' \cup {k} /\ \A f \in Code : code'[f] = code[f]
      BY <2>1, <2>4
    <3>2. \A p \in Present(disk)' : \E q \in Present(disk) : disk'[p] = disk[q]
      BY <1>2, <2>1, <2>2, <2>4 DEF Present
    <3>3. QED
      BY <2>5, <3>1, <3>2 DEF Named
  <2>7. Torn(disk)' \subseteq {a}
    BY <1>2, <2>2, <2>4, <2>5 DEF Torn, Present
  <2>8. disk'[a] # None
    BY <1>2, <2>1, <2>2
  <2>9. call'[c].pc = "reread" /\ call'[c].request = call[c].request
    BY <2>1, GoToFields
  <2>10. SoundFiles(call[c])'
    <3>1. OldKey(call[c])' = {k}
      BY <1>2, <2>9 DEF OldKey, Trailing, Asked
    <3>2. Named(Present(disk) \cup OldKey(call[c]))'
      BY <2>6, <3>1 DEF Named
    <3>3. QED
      BY <2>7, <2>8, <2>9, <3>2 DEF SoundFiles, Quiet, Trailing, Arg, NewKey
  <2>11. SoundHeld(call[c])'
    BY <2>9 DEF SoundHeld
  <2>12. QED
    BY <2>3, <2>10, <2>11 DEF SoundCall
<1>5. QED
  BY <1>3, <1>4

LEMMA RenameReadSound ==
  ASSUME TypeInv, Described, NEW c \in Call, RenameRead(c), SoundCall(call[c])
  PROVE  Described' /\ SoundCall(call[c])'
<1> DEFINE card == disk[NewKey(c)]
<1>1. call[c].pc = "reread" /\ NewKey(c) \in Key
  BY RenameFacts DEF RenameRead, At, Renaming
<1>2. card # None
  BY <1>1 DEF SoundCall, SoundFiles, Trailing, Arg, NewKey
<1>3. call' = [call EXCEPT ![c] = [@ EXCEPT !.pc = "rewrite", !.held = card]] /\ Keeps
  BY <1>2 DEF RenameRead
<1>4. call'[c].pc = "rewrite" /\ call'[c].request = call[c].request /\ call'[c].held = card
  BY <1>3 DEF TypeInv, CallsInv, CallRecord
<1>5. OldKey(call'[c]) = OldKey(call[c])
  BY <1>1, <1>4 DEF OldKey, Trailing
<1>6. card.relations \subseteq Present(disk) \cup OldKey(call[c])
  BY <1>1, <1>2 DEF SoundCall, SoundFiles, Named, Present
<1>7. SoundFiles(call'[c])
  BY <1>1, <1>4, <1>5 DEF SoundCall, SoundFiles, Trailing, Quiet
<1>8. SoundHeld(call'[c])
  BY <1>4, <1>5, <1>6 DEF SoundHeld
<1>9. QED
  BY <1>3, <1>7, <1>8, KeepsSound DEF SoundCall

LEMMA RenameWriteSound ==
  ASSUME TypeInv, Described, NEW c \in Call, RenameWrite(c), SoundCall(call[c]), call[c].request.sync
  PROVE  Described' /\ SoundCall(call[c])'
<1> DEFINE k == Asked(c)
           a == NewKey(c)
           card == [call[c].held EXCEPT !.key = a]
           left == Present(disk) \cup {a}
<1>1. call[c].pc = "rewrite" /\ a \in Key /\ call[c].held \in Card
  BY AtFacts, RenameFacts DEF RenameWrite, At, Renaming, Ended, CallOK
<1>2. OldKey(call[c]) = {k}
  BY <1>1 DEF OldKey, Trailing, Asked
<1>3. card \in Card /\ card.key = a /\ card.relations \subseteq Present(disk) \cup {k}
  BY <1>1, <1>2 DEF Card, SoundCall, SoundHeld
<1>4. PutCard(a, card)
  BY DEF RenameWrite
<1> HIDE DEF card
<1>5. Named(Present(disk) \cup {k}) /\ Torn(disk) \subseteq {a}
  BY <1>1, <1>2 DEF SoundCall, SoundFiles, Arg, NewKey
<1>6. call' = [call EXCEPT ![c] = [@ EXCEPT !.pc = "sweep", !.held = None, !.left = left]]
  BY DEF RenameWrite
<1> HIDE DEF left
<1>7. call'[c].pc = "sweep" /\ call'[c].request = call[c].request /\ call'[c].left = left
  BY <1>6 DEF TypeInv, CallsInv, CallRecord
<1>8. /\ Present(disk)' = Present(disk) \cup {a}
      /\ \A p \in Present(disk)' : disk'[p].relations \subseteq Present(disk)' \cup {k}
      /\ \A f \in Code : code'[f] \subseteq Present(disk)' \cup {k}
  <2>1. /\ Present(disk)' = Present(disk) \cup {a} /\ UNCHANGED code /\ disk'[a] = card
        /\ \A q \in Present(disk)' : q # a => q \in Present(disk) /\ disk'[q] = disk[q]
    BY <1>1, <1>3, <1>4, PutCardFiles
  <2>2. QED
    BY <1>3, <1>5, <2>1 DEF Named
<1>9. Torn(disk)' = {} /\ disk'[a] # None
  <2>1. Torn(disk') \subseteq Torn(disk)
    BY <1>1, <1>3, <1>4, PutKeepsKeys
  <2>2. disk'[a] = card /\ card # None
    BY <1>1, <1>3, <1>4, ToolsAssumption DEF PutCard, TypeInv, DataInv, Disk
  <2>3. QED
    BY <1>3, <1>5, <2>1, <2>2 DEF Torn
<1>10. Described'
  BY <1>1, <1>4, PutCardDescribed
<1>11. OldKey(call[c])' = {k}
  BY <1>2, <1>7 DEF OldKey, Trailing, Asked
<1>12. SoundFiles(call[c])'
  BY <1>7, <1>8, <1>9, <1>11 DEF SoundFiles, Named, Quiet, Trailing, Arg, NewKey, left
<1>13. SoundHeld(call[c])'
  BY <1>7 DEF SoundHeld
<1>14. QED
  BY <1>10, <1>12, <1>13 DEF SoundCall

LEMMA SweepReadSound ==
  ASSUME TypeInv, Described, NEW c \in Call, SweepRead(c), SoundCall(call[c])
  PROVE  Described' /\ SoundCall(call[c])'
<1>1. call[c].pc = "sweep" /\ call[c].left \subseteq Present(disk)
  BY DEF SweepRead, At, SoundCall, SoundFiles
<1>2. ASSUME call'[c].pc \in Trailing \ {"reread", "rewrite"}, call'[c].request = call[c].request,
             call'[c].left \subseteq Present(disk) \/ call'[c].pc = "sweepcode",
             SoundHeld(call'[c]), Keeps
      PROVE  Described' /\ SoundCall(call[c])'
  <2>1. OldKey(call'[c]) = OldKey(call[c])
    BY <1>1, <1>2 DEF OldKey, Trailing
  <2>2. SoundFiles(call'[c])
    BY <1>1, <1>2, <2>1 DEF SoundCall, SoundFiles, Trailing, Quiet
  <2>3. QED
    BY <1>2, <2>2, KeepsSound DEF SoundCall
<1>3. CASE Swept(c) /\ Keeps
  <2>1. call'[c].pc = "sweepcode" /\ call'[c].request = call[c].request
    BY <1>3 DEF Swept, TypeInv, CallsInv, CallRecord
  <2>2. QED
    BY <1>2, <1>3, <2>1 DEF Trailing, SoundHeld
<1>4. ASSUME NEW p \in call[c].left, disk[p] # None, Keeps,
             call' = [call EXCEPT ![c] =
                        IF Asked(c) \in disk[p].relations
                        THEN [@ EXCEPT !.pc = "patch", !.held = <<p, disk[p]>>, !.left = call[c].left \ {p}]
                        ELSE [@ EXCEPT !.left = call[c].left \ {p}]]
      PROVE  Described' /\ SoundCall(call[c])'
  <2>1. CASE Asked(c) \in disk[p].relations
    <3>1. /\ call'[c].pc = "patch" /\ call'[c].request = call[c].request
          /\ call'[c].held = <<p, disk[p]>> /\ call'[c].left = call[c].left \ {p}
      BY <1>4, <2>1 DEF TypeInv, CallsInv, CallRecord
    <3>2. OldKey(call'[c]) = OldKey(call[c])
      BY <1>1, <3>1 DEF OldKey, Trailing
    <3>3. p \in Present(disk) /\ disk[p].key = p
      BY <1>1, <1>4 DEF SoundCall, SoundFiles, Torn
    <3>4. disk[p].relations \subseteq Present(disk) \cup OldKey(call[c])
      BY <3>3 DEF SoundCall, SoundFiles, Named
    <3>5. SoundHeld(call'[c])
      BY <3>1, <3>2, <3>3, <3>4 DEF SoundHeld
    <3>6. QED
      BY <1>1, <1>2, <1>4, <3>1, <3>5 DEF Trailing
  <2>2. CASE Asked(c) \notin disk[p].relations
    <3>1. call'[c].pc = "sweep" /\ call'[c].request = call[c].request /\ call'[c].left = call[c].left \ {p}
      BY <1>1, <1>4, <2>2 DEF TypeInv, CallsInv, CallRecord
    <3>2. QED
      BY <1>1, <1>2, <1>4, <3>1 DEF Trailing, SoundHeld
  <2>3. QED
    BY <2>1, <2>2
<1>5. QED
  BY <1>1, <1>3, <1>4 DEF SweepRead, Present

LEMMA SweepWriteSound ==
  ASSUME TypeInv, Described, NEW c \in Call, SweepWrite(c), SoundCall(call[c])
  PROVE  Described' /\ SoundCall(call[c])'
<1> DEFINE k == Asked(c)
           a == NewKey(c)
           p == call[c].held[1]
           held == call[c].held[2]
           card == [held EXCEPT !.relations = Renamed(c, @)]
<1>1. call[c].pc = "patch" /\ call[c].held \in Key \X Card /\ a \in Key
  BY AtFacts, RenameFacts DEF SweepWrite, At, Renaming, Ended, CallOK
<1>2. OldKey(call[c]) = {k}
  BY <1>1 DEF OldKey, Trailing, Asked
<1>3. /\ p \in Present(disk) /\ held.key = p /\ held.relations \subseteq Present(disk) \cup {k}
      /\ a \in Present(disk) /\ call[c].left \subseteq Present(disk)
      /\ Named(Present(disk) \cup {k}) /\ Torn(disk) = {}
  BY <1>1, <1>2 DEF SoundCall, SoundFiles, SoundHeld, Trailing, Present, Arg, NewKey
<1>4. p \in Key /\ held \in Card /\ held.relations \subseteq Name
  BY <1>1 DEF Card
<1>5. card \in Card /\ card.key = p /\ card.relations = (held.relations \ {k}) \cup {a}
  BY <1>1, <1>3, <1>4, ToolsAssumption DEF Card, Renamed
<1>6. PutCard(p, card) /\ call' = [call EXCEPT ![c] = [@ EXCEPT !.pc = "sweep", !.held = None]]
  BY DEF SweepWrite
<1> HIDE DEF card
<1>7. call'[c].pc = "sweep" /\ call'[c].request = call[c].request /\ call'[c].left = call[c].left
  BY <1>6 DEF TypeInv, CallsInv, CallRecord
<1>8. card.relations \subseteq Present(disk) \cup {k}
  BY <1>3, <1>5
<1> HIDE DEF p, held
<1>9. /\ Present(disk)' = Present(disk)
      /\ \A q \in Present(disk)' : disk'[q].relations \subseteq Present(disk)' \cup {k}
      /\ \A f \in Code : code'[f] \subseteq Present(disk)' \cup {k}
  <2>1. /\ Present(disk)' = Present(disk) /\ UNCHANGED code /\ disk'[p] = card
        /\ \A q \in Present(disk)' : q # p => q \in Present(disk) /\ disk'[q] = disk[q]
    BY <1>3, <1>4, <1>5, <1>6, PutCardFiles
  <2>2. QED
    BY <1>3, <1>8, <2>1 DEF Named
<1>10. Torn(disk)' = {}
  BY <1>3, <1>4, <1>5, <1>6, PutKeepsKeys
<1>11. Described'
  BY <1>4, <1>6, PutCardDescribed
<1>12. OldKey(call[c])' = {k}
  BY <1>2, <1>7 DEF OldKey, Trailing, Asked
<1>13. disk'[a] # None
  BY <1>3, <1>9 DEF Present
<1>14. SoundFiles(call[c])'
  BY <1>3, <1>7, <1>9, <1>10, <1>12, <1>13 DEF SoundFiles, Named, Quiet, Trailing, Arg, NewKey
<1>15. SoundHeld(call[c])'
  BY <1>7 DEF SoundHeld
<1>16. QED
  BY <1>11, <1>14, <1>15 DEF SoundCall

LEMMA SweepCodeReadSound ==
  ASSUME TypeInv, Described, NEW c \in Call, SweepCodeRead(c), SoundCall(call[c]), call[c].request.sync
  PROVE  Described' /\ SoundCall(call[c])'
<1>1. call[c].pc = "sweepcode" /\ call[c].request.op = "rename" /\ call[c].left \subseteq Code /\ Keeps
  BY AtFacts, RenameFacts DEF SweepCodeRead, At, Renaming, Ended, CallOK, Op
<1>2. ASSUME call'[c].pc \in {"sweepcode", "patchcode", "scan"}, call'[c].request = call[c].request,
             SoundHeld(call'[c])
      PROVE  Described' /\ SoundCall(call[c])'
  <2>1. OldKey(call'[c]) = OldKey(call[c])
    BY <1>1, <1>2 DEF OldKey, Trailing
  <2>2. SoundFiles(call'[c])
    BY <1>1, <1>2, <2>1 DEF SoundCall, SoundFiles, Trailing, Quiet
  <2>3. QED
    BY <1>1, <1>2, <2>2, KeepsSound DEF SoundCall
<1>3. CASE Written(c)
  BY <1>2, <1>3, WrittenFields DEF SoundHeld
<1>4. ASSUME NEW f \in call[c].left,
             call' = [call EXCEPT ![c] =
                        IF Asked(c) \in code[f]
                        THEN [@ EXCEPT !.pc = "patchcode", !.held = <<f, code[f]>>, !.left = call[c].left \ {f}]
                        ELSE [@ EXCEPT !.left = call[c].left \ {f}]]
      PROVE  Described' /\ SoundCall(call[c])'
  <2>1. CASE Asked(c) \in code[f]
    <3>1. call'[c].pc = "patchcode" /\ call'[c].request = call[c].request /\ call'[c].held = <<f, code[f]>>
      BY <1>4, <2>1 DEF TypeInv, CallsInv, CallRecord
    <3>2. OldKey(call'[c]) = OldKey(call[c])
      BY <1>1, <3>1 DEF OldKey, Trailing
    <3>3. code[f] \subseteq Present(disk) \cup OldKey(call[c])
      BY <1>1 DEF SoundCall, SoundFiles, Named
    <3>4. SoundHeld(call'[c])
      BY <3>1, <3>2, <3>3 DEF SoundHeld
    <3>5. QED
      BY <1>2, <3>1, <3>4
  <2>2. CASE Asked(c) \notin code[f]
    <3>1. call'[c].pc = "sweepcode" /\ call'[c].request = call[c].request
      BY <1>1, <1>4, <2>2 DEF TypeInv, CallsInv, CallRecord
    <3>2. QED
      BY <1>2, <3>1 DEF SoundHeld
  <2>3. QED
    BY <2>1, <2>2
<1>5. QED
  BY <1>3, <1>4 DEF SweepCodeRead

LEMMA SweepCodeWriteSound ==
  ASSUME TypeInv, Described, NEW c \in Call, SweepCodeWrite(c), SoundCall(call[c])
  PROVE  Described' /\ SoundCall(call[c])'
<1> DEFINE k == Asked(c)
           a == NewKey(c)
           g == call[c].held[1]
           held == call[c].held[2]
           text == Renamed(c, held)
<1>1. call[c].pc = "patchcode" /\ g \in Code /\ a \in Key
  BY AtFacts, RenameFacts DEF SweepCodeWrite, At, Renaming, Ended, CallOK
<1>2. OldKey(call[c]) = {k}
  BY <1>1 DEF OldKey, Trailing, Asked
<1>3. /\ held \subseteq Present(disk) \cup {k} /\ a \in Present(disk)
      /\ Named(Present(disk) \cup {k}) /\ Torn(disk) = {}
  BY <1>1, <1>2 DEF SoundCall, SoundFiles, SoundHeld, Trailing, Present, Arg, NewKey
<1>4. text \subseteq Present(disk)
  BY <1>3 DEF Renamed
<1>5. PutCode(g, text) /\ call' = [call EXCEPT ![c] = [@ EXCEPT !.pc = "sweepcode", !.held = None]]
  BY DEF SweepCodeWrite
<1> HIDE DEF g, text, held
<1>6. call'[c].pc = "sweepcode" /\ call'[c].request = call[c].request
  BY <1>5 DEF TypeInv, CallsInv, CallRecord
<1>7. /\ Present(disk)' = Present(disk) /\ Torn(disk)' = {} /\ disk' = disk
      /\ \A f \in Code : code'[f] = IF f = g THEN text ELSE code[f]
  BY <1>1, <1>3, <1>5, PutCodeFiles
<1>8. /\ \A p \in Present(disk)' : disk'[p].relations \subseteq Present(disk)' \cup {k}
      /\ \A f \in Code : code'[f] \subseteq Present(disk)' \cup {k}
  BY <1>3, <1>4, <1>7 DEF Named
<1>9. Described'
  BY <1>1, <1>5, PutCodeDescribed
<1>10. OldKey(call[c])' = {k}
  BY <1>2, <1>6 DEF OldKey, Trailing, Asked
<1>11. disk'[a] # None
  BY <1>3, <1>7 DEF Present
<1>12. SoundFiles(call[c])'
  BY <1>6, <1>7, <1>8, <1>10, <1>11 DEF SoundFiles, Named, Quiet, Trailing, Arg, NewKey
<1>13. SoundHeld(call[c])'
  BY <1>6 DEF SoundHeld
<1>14. QED
  BY <1>9, <1>12, <1>13 DEF SoundCall

LEMMA ReadCodeSound ==
  ASSUME TypeInv, Described, NEW c \in Call, ReadCode(c), SoundCall(call[c]), call[c].request.sync
  PROVE  Described' /\ SoundCall(call[c])'
<1> DEFINE names == code[Arg(c)]
<1>1. /\ call[c].pc = "readcode" /\ call[c].pc \in Quiet /\ Keeps
      /\ call[c].request \in Request /\ call[c].request.op \in {"link", "unlink"}
  BY AtFacts DEF ReadCode, Ended, Quiet, Place, Trailing, CallOK
<1>2. Arg(c) \in Code
  BY <1>1, RequestFacts DEF Arg
<1>3. Named(Present(disk)) /\ Torn(disk) = {}
  BY <1>1 DEF SoundCall, SoundFiles, OldKey, Trailing
<1>4. CASE Written(c)
  <2>1. SoundCall(call'[c])
    BY <1>3, <1>4, WrittenFields, <1>1 DEF SoundCall, SoundFiles, SoundHeld, OldKey, Trailing, Quiet
  <2>2. QED
    BY <1>1, <2>1, KeepsSound
<1>5. CASE call' = [call EXCEPT ![c] = [@ EXCEPT !.pc = "writecode", !.held = names]]
  <2>1. call'[c].pc = "writecode" /\ call'[c].request = call[c].request /\ call'[c].held = names
    BY <1>5 DEF TypeInv, CallsInv, CallRecord
  <2>2. names \subseteq Present(disk)
    BY <1>2, <1>3 DEF Named
  <2>3. SoundFiles(call'[c])
    BY <1>1, <2>1 DEF SoundCall, SoundFiles, OldKey, Trailing, Quiet
  <2>4. SoundHeld(call'[c])
    BY <1>1, <2>1, <2>2 DEF SoundCall, SoundHeld, OldKey, Trailing
  <2>5. QED
    BY <1>1, <2>3, <2>4, KeepsSound DEF SoundCall
<1>6. QED
  BY <1>4, <1>5 DEF ReadCode

LEMMA WriteCodeSound ==
  ASSUME TypeInv, Described, NEW c \in Call, WriteCode(c), SoundCall(call[c]), call[c].request.sync
  PROVE  Described' /\ SoundCall(call[c])'
<1> DEFINE g == Arg(c)
           text == Relinked(c, call[c].held)
<1>1. /\ call[c].pc = "writecode" /\ call[c].request \in Request
      /\ call[c].request.op \in {"link", "unlink"}
  BY AtFacts DEF WriteCode, Ended, CallOK
<1>2. g \in Code
  BY <1>1, RequestFacts DEF Arg
<1>3. /\ Named(Present(disk)) /\ Torn(disk) = {} /\ call[c].held \subseteq Present(disk)
      /\ Brings(call[c].request) \subseteq Present(disk)
  BY <1>1 DEF SoundCall, SoundFiles, SoundHeld, OldKey, Trailing
<1>4. text \subseteq Present(disk)
  BY <1>1, <1>3 DEF Relinked, Brings, Op, Target, Asked
<1>5. PutCode(g, text)
  BY DEF WriteCode
<1> HIDE DEF g, text
<1>6. /\ Present(disk)' = Present(disk) /\ Torn(disk)' = {} /\ disk' = disk
      /\ \A f \in Code : code'[f] = IF f = g THEN text ELSE code[f]
  BY <1>2, <1>3, <1>5, PutCodeFiles
<1>7. Named(Present(disk))'
  BY <1>3, <1>4, <1>6 DEF Named
<1>8. Described'
  BY <1>2, <1>5, PutCodeDescribed
<1>9. call'[c].pc = "scan" /\ call'[c].request.op # "rename"
  BY <1>1, WrittenFields DEF WriteCode
<1>10. SoundCall(call[c])'
  BY <1>6, <1>7, <1>9 DEF SoundCall, SoundFiles, SoundHeld, OldKey, Trailing, Quiet
<1>11. QED
  BY <1>8, <1>10

LEMMA KeywordSound ==
  ASSUME TypeInv, Described, NEW c \in Call, Keyword(c), SoundCall(call[c])
  PROVE  Described' /\ SoundCall(call[c])'
<1>1. call[c].pc \in Quiet
  BY DEF Keyword, Quiet, Place, Trailing
<1>2. QED
  BY <1>1, EndSound DEF Keyword, Ended

LEMMA ScanSound ==
  ASSUME TypeInv, Described, NEW c \in Call, Scan(c), SoundCall(call[c])
  PROVE  Described' /\ SoundCall(call[c])'
<1>1. call[c].pc = "scan" /\ Keeps
  BY DEF Scan, At
<1>2. call'[c].pc = "index" /\ call'[c].request = call[c].request
  BY DEF Scan, TypeInv, CallsInv, CallRecord
<1>3. OldKey(call'[c]) = OldKey(call[c])
  BY <1>1, <1>2 DEF OldKey, Trailing
<1>4. SoundCall(call'[c])
  BY <1>1, <1>2, <1>3 DEF SoundCall, SoundFiles, SoundHeld, Trailing, Quiet
<1>5. QED
  BY <1>1, <1>4, KeepsSound

(* A reindex over files that are in order leaves tables that describe them. *)
LEMMA WriteIndexDescribes ==
  ASSUME TypeInv, Described, NEW t \in Tables, NEW files \in SUBSET File, NEW rows \in RowsOf(files),
         Named(Present(disk)), Torn(disk) = {},
         files \cap Key \subseteq Present(disk),
         Present(disk) \cup Code \subseteq t.fresh \cup files,
         t.fresh \cap Key \subseteq Present(disk),
         \A k \in Key : t.rows[k] \in {k, None} /\ (k \in t.fresh => t.rows[k] = k),
         \A p \in t.fresh \cap Key : Related(t, p) = disk[p].relations,
         \A f \in t.fresh \cap Code : Linked(t, f) = code[f],
         index' = WithRows(t, files, rows), UNCHANGED <<disk, code>>
  PROVE  Described' /\ Whole'
<1> DEFINE keys == {k \in Key : rows[k] # None}
           all == [k \in Key |-> IF k \in keys THEN rows[k] ELSE t.rows[k]]
           existing == {k \in Key : all[k] # None}
<1>1. ASSUME NEW k \in Key
      PROVE  rows[k] = IF k \in files THEN k ELSE None
  <2>1. \A p \in files \cap Key : disk[p].key = p
    BY DEF Torn
  <2>2. {p \in files \cap Key : disk[p].key = k} = IF k \in files THEN {k} ELSE {}
    BY <2>1
  <2>3. QED
    BY <2>2 DEF RowsOf
<1>2. keys = files \cap Key
  BY <1>1, ToolsAssumption DEF File
<1>3. \A k \in Key : all[k] \in {k, None} /\ (k \in t.fresh \cup files => all[k] = k)
  BY <1>1, <1>2
<1>4. Present(disk) \subseteq existing
  BY <1>3, ToolsAssumption DEF Present, File
<1>5. /\ index'.rows = all /\ index'.fresh = t.fresh \cup files
      /\ index'.relations = {r \in t.relations : r[1] \notin keys}
                              \cup {r \in keys \X existing : r[2] \in Read(disk[rows[r[1]]].relations)}
      /\ index'.links = {l \in t.links : l[2] \notin files}
                          \cup {l \in existing \X (files \cap Code) : l[1] \in Read(code[l[2]])}
  BY DEF WithRows
<1> HIDE DEF all, keys, existing
<1>6. ASSUME NEW p \in Present(disk)
      PROVE  Related(index', p) = disk[p].relations
  <2>1. p \in Key /\ disk[p].relations \subseteq Present(disk)
    BY DEF Named, Present
  <2>2. CASE p \in files
    <3>1. p \in keys /\ rows[p] = p
      BY <1>1, <1>2, <2>1, <2>2
    <3>2. disk[p].relations \subseteq Key
      BY <2>1 DEF Present
    <3>3. Read(disk[p].relations) = disk[p].relations
      BY <3>2, ReadKeys
    <3>4. QED
      BY <1>4, <1>5, <2>1, <3>1, <3>2, <3>3 DEF Related
  <2>3. CASE p \notin files
    <3>1. p \notin keys /\ Related(t, p) = disk[p].relations
      BY <1>2, <2>1, <2>3
    <3>2. QED
      BY <1>5, <3>1 DEF Related
  <2>4. QED
    BY <2>2, <2>3
<1>7. ASSUME NEW f \in Code
      PROVE  Linked(index', f) = code[f]
  <2>1. code[f] \subseteq existing /\ code[f] \subseteq Key
    BY <1>4 DEF Named, Present
  <2>2. CASE f \in files
    <3>1. Read(code[f]) = code[f]
      BY <2>1, ReadKeys
    <3>2. existing \subseteq Key
      BY DEF existing
    <3>3. QED
      BY <1>5, <2>1, <2>2, <3>1, <3>2 DEF Linked
  <2>3. CASE f \notin files
    <3>1. Linked(t, f) = code[f]
      BY <2>3
    <3>2. QED
      BY <1>5, <2>3, <3>1 DEF Linked
  <2>4. QED
    BY <2>2, <2>3
<1>8. Present(disk)' = Present(disk)
  BY DEF Present
<1>9. Described'
  BY <1>3, <1>5, <1>6, <1>7, <1>8 DEF Described
<1>10. Whole'
  BY <1>5, <1>8 DEF Whole
<1>11. QED
  BY <1>9, <1>10

LEMMA WriteIndexSound ==
  ASSUME TypeInv, Described, Sane(index), NEW c \in Call, WriteIndex(c), SoundCall(call[c]), Scanned(c),
         call[c].request.op = "rename" => Phase(c), sound'
  PROVE  Described' /\ SoundCall(call[c])'
<1> DEFINE files == call[c].left
           t == IF Mode(c) = "full" THEN Cleared ELSE Dropped(Gone)
<1>1. call[c].pc = "index" /\ UNCHANGED <<disk, code>>
  BY DEF WriteIndex, At
<1>2. files = Outdated(Mode(c)) /\ call[c].held = Gone
  BY <1>1 DEF Scanned
<1>3. PICK rows \in RowsOf(files) : index' = WithRows(t, files, rows) /\ Over(c, "done")
  BY <1>2 DEF WriteIndex
<1>4. Named(Present(disk)) /\ Torn(disk) = {}
  <2>1. Named(Present(disk) \cup OldKey(call[c])) /\ Torn(disk) = {}
    BY <1>1 DEF SoundCall, SoundFiles
  <2>2. CASE call[c].request.op = "rename"
    <3>1. OldKey(call[c]) = {Asked(c)}
      BY <1>1, <2>2 DEF OldKey, Asked
    <3>2. /\ \A p \in Present(disk) : Asked(c) \notin disk[p].relations
          /\ \A f \in Code : Asked(c) \notin code[f]
      BY <1>1, <2>2 DEF Phase
    <3>3. QED
      BY <2>1, <3>1, <3>2 DEF Named
  <2>3. CASE call[c].request.op # "rename"
    BY <1>1, <2>1, <2>3 DEF OldKey, Trailing, Named
  <2>4. QED
    BY <2>2, <2>3
<1>5. index \in Tables /\ Gone \in SUBSET Key
  BY DEF TypeInv, DataInv, Gone
<1>6. t \in Tables /\ files \in SUBSET File
  BY <1>2, <1>5, ClearedType, DroppedType, OutdatedType
<1>7. files \cap Key \subseteq Present(disk)
  BY <1>2, ToolsAssumption DEF Outdated, Present
<1>8. /\ Present(disk) \cup Code \subseteq t.fresh \cup files
      /\ t.fresh \cap Key \subseteq Present(disk)
      /\ \A k \in Key : t.rows[k] \in {k, None} /\ (k \in t.fresh => t.rows[k] = k)
      /\ \A p \in t.fresh \cap Key : Related(t, p) = disk[p].relations
      /\ \A f \in t.fresh \cap Code : Linked(t, f) = code[f]
  <2>1. CASE Mode(c) = "full"
    BY <1>2, <2>1 DEF Cleared, Outdated
  <2>2. CASE Mode(c) # "full"
    <3> DEFINE keys == {k \in Key : index.rows[k] \in Gone}
    <3>1. /\ t.rows = [k \in Key |-> IF k \in keys THEN None ELSE index.rows[k]]
          /\ t.relations = {r \in index.relations : r[1] \notin keys /\ r[2] \notin keys}
          /\ t.links = {l \in index.links : l[1] \notin keys}
          /\ t.fresh = index.fresh \ Gone
      BY <1>5, <2>2 DEF Dropped, Tables
    <3> HIDE DEF t
    <3>2. \A k \in Present(disk) : k \in Key /\ k \notin Gone /\ None \notin Gone
      BY <1>5, ToolsAssumption DEF Gone, Present, File
    <3>3. \A k \in Present(disk) : k \notin keys
      BY <3>2 DEF Described
    <3> HIDE DEF keys
    <3>4. t.fresh \cap Key \subseteq Present(disk)
      BY <3>1 DEF Sane, Gone, Present
    <3>5. Present(disk) \cup Code \subseteq t.fresh \cup files
      BY <1>2, <1>5, <2>2, <3>1, <3>2, ToolsAssumption DEF Outdated
    <3>6. \A k \in Key : t.rows[k] \in {k, None} /\ (k \in t.fresh => t.rows[k] = k)
      BY <3>1, <3>3, <3>4 DEF Described
    <3>7. ASSUME NEW p \in t.fresh \cap Key
          PROVE  Related(t, p) = disk[p].relations
      <4>1. p \in Present(disk) \cap index.fresh /\ disk[p].relations \subseteq Present(disk)
        BY <1>4, <3>1, <3>4 DEF Named
      <4>2. Related(index, p) = disk[p].relations
        BY <4>1 DEF Described
      <4>3. QED
        BY <3>1, <3>3, <4>1, <4>2 DEF Related
    <3>8. ASSUME NEW f \in t.fresh \cap Code
          PROVE  Linked(t, f) = code[f]
      <4>1. f \in index.fresh /\ code[f] \subseteq Present(disk)
        BY <1>4, <3>1 DEF Named
      <4>2. Linked(index, f) = code[f]
        BY <4>1 DEF Described
      <4>3. QED
        BY <3>1, <3>3, <4>1, <4>2 DEF Linked
    <3>9. QED
      BY <3>4, <3>5, <3>6, <3>7, <3>8
  <2>3. QED
    BY <2>1, <2>2
<1> HIDE DEF t
<1>9. Described' /\ Whole'
  BY <1>1, <1>3, <1>4, <1>6, <1>7, <1>8, WriteIndexDescribes
<1>10. call'[c].pc = "done" /\ Present(disk)' = Present(disk) /\ Torn(disk)' = {}
  BY <1>1, <1>3, <1>4, OverFields DEF Present, Torn
<1>11. Named(Present(disk))'
  BY <1>1, <1>4, <1>10 DEF Named
<1>12. SoundFiles(call[c])'
  BY <1>9, <1>10, <1>11 DEF SoundFiles, OldKey, Trailing, Named
<1>13. SoundHeld(call[c])'
  BY <1>10 DEF SoundHeld
<1>14. QED
  BY <1>9, <1>12, <1>13 DEF SoundCall

LEMMA StepSound ==
  ASSUME TypeInv, Described, Sane(index), NEW c \in Call, Step(c), SoundCall(call[c]), Scanned(c),
         call[c].request.sync, AsksByKey(call[c].request), call[c].request.op = "rename" => Phase(c), sound'
  PROVE  Described' /\ SoundCall(call[c])'
<1>1. CASE CreateExists(c) \/ CreateWrite(c) \/ ReadCard(c) \/ WriteCard(c)
  BY <1>1, CreateExistsSound, CreateWriteSound, ReadCardSound, WriteCardSound
<1>2. CASE DeleteReferences(c) \/ FileExists(c) \/ DeleteUnlink(c)
  BY <1>2, DeleteReferencesSound, FileExistsSound, DeleteUnlinkSound
<1>3. CASE RenameTarget(c) \/ RenameMove(c) \/ RenameRead(c) \/ RenameWrite(c)
  BY <1>3, RenameTargetSound, RenameMoveSound, RenameReadSound, RenameWriteSound
<1>4. CASE SweepRead(c) \/ SweepWrite(c) \/ SweepCodeRead(c) \/ SweepCodeWrite(c)
  BY <1>4, SweepReadSound, SweepWriteSound, SweepCodeReadSound, SweepCodeWriteSound
<1>5. CASE ReadCode(c) \/ WriteCode(c) \/ Keyword(c)
  BY <1>5, ReadCodeSound, WriteCodeSound, KeywordSound
<1>6. CASE Scan(c) \/ WriteIndex(c)
  BY <1>6, ScanSound, WriteIndexSound
<1>7. QED
  BY <1>1, <1>2, <1>3, <1>4, <1>5, <1>6 DEF Step

(* A call that reindexes begins where it has not written anything. *)
LEMMA StartSound ==
  ASSUME NEW c \in Call, NEW request \in Request, Start(c, request), request.sync,
         Named(Present(disk)), Torn(disk) = {}, Whole, Brings(request) \subseteq Present(disk)
  PROVE  SoundCall(call[c])'
<1> DEFINE others == {d \in Call \ {c} : Running(d)}
           place == CASE request.op = "create" -> "exists"
                      [] request.op = "delete" -> IF request.sync THEN "references" ELSE "exists"
                      [] request.op = "rename" -> "exists"
                      [] request.op \in {"link", "unlink"} -> "readcode"
                      [] request.op \in {"keyword", "unkeyword"} -> "table"
                      [] request.op = "index" -> "scan"
                      [] OTHER -> "read"
<1>1. /\ place \in {"exists", "references", "readcode", "table", "scan", "read"}
      /\ place = "exists" => request.op # "delete"
      /\ place = "scan" => request.op # "rename"
  OBVIOUS
<1> HIDE DEF place
<1> DEFINE alone == others = {}
<1>2. call'[c] = [pc |-> place, request |-> request, held |-> None, left |-> {}, alone |-> alone]
  BY DEF Start, place
<1> HIDE DEF alone
<1>3. call'[c].pc = place /\ call'[c].request = request
  BY <1>2
<1>4. UNCHANGED <<disk, code, index>> /\ Present(disk)' = Present(disk) /\ Torn(disk)' = {}
  BY DEF Start, Present, Torn
<1>5. Named(Present(disk))' /\ Whole'
  BY <1>4 DEF Named, Whole
<1>6. OldKey(call[c])' = {}
  BY <1>1, <1>3 DEF OldKey, Trailing
<1>7. SoundFiles(call[c])'
  BY <1>1, <1>3, <1>4, <1>5, <1>6 DEF SoundFiles, Named, Trailing
<1>8. SoundHeld(call[c])'
  BY <1>1, <1>3, <1>4 DEF SoundHeld, Brings
<1>9. QED
  BY <1>7, <1>8 DEF SoundCall

LEMMA SoundStep ==
  TypeInv /\ AloneInv /\ RenameInv /\ ScanInv /\ Sane(index) /\ SoundInv /\ [Next]_vars => SoundInv'
<1> DEFINE Ready == Named(Present(disk)) /\ Torn(disk) = {} /\ Whole
           Lone(c) == call[c].alone /\ call[c].request.sync /\ AsksByKey(call[c].request) /\ SoundCall(call[c])
<1> SUFFICES ASSUME TypeInv, AloneInv, RenameInv, ScanInv, Sane(index), SoundInv, [Next]_vars, sound'
             PROVE  /\ Described'
                    /\ \A c \in Call : Running(c)' => Lone(c)'
                    /\ (\A c \in Call : ~Running(c)') => Ready'
  BY DEF SoundInv
<1>1. CASE UNCHANGED vars
  <2>1. UNCHANGED <<disk, code, index, call, sound>> /\ Present(disk)' = Present(disk) /\ Torn(disk)' = Torn(disk)
    BY <1>1 DEF vars, Present, Torn
  <2>2. Described' = Described /\ Ready' = Ready
    BY <2>1 DEF Described, Named, Whole
  <2>3. \A c \in Call : SoundCall(call[c])' = SoundCall(call[c])
    BY <2>1 DEF SoundCall, SoundFiles, SoundHeld, OldKey, Named, Unnamed, Whole, Brings
  <2>4. \A c \in Call : Running(c)' = Running(c)
    BY <2>1 DEF Running
  <2>5. QED
    BY <2>1, <2>2, <2>3, <2>4 DEF SoundInv
<1>2. CASE Crash
  BY <1>2 DEF Crash
<1>3. ASSUME NEW c \in Call, NEW request \in Request, Start(c, request)
      PROVE  /\ Described'
             /\ \A d \in Call : Running(d)' => Lone(d)'
             /\ (\A d \in Call : ~Running(d)') => Ready'
  <2>1. /\ sound /\ request.sync /\ AsksByKey(request) /\ Brings(request) \subseteq Present(disk) /\ ~Running(c)
        /\ {d \in Call \ {c} : Running(d)} = {}
    BY <1>3 DEF Start
  <2>2. Described /\ Ready
    BY <2>1 DEF SoundInv
  <2>3. UNCHANGED <<disk, code, index>> /\ Present(disk)' = Present(disk) /\ Torn(disk)' = Torn(disk)
    BY <1>3 DEF Start, Present, Torn
  <2>4. Described' /\ Ready'
    BY <2>2, <2>3 DEF Described, Named, Whole
  <2>5. Lone(c)'
    BY <1>3, <2>1, <2>2, StartBegins, StartSound
  <2>6. \A d \in Call : d # c => ~Running(d)'
    BY <1>3, <2>1, StartAlone
  <2>7. QED
    BY <2>4, <2>5, <2>6
<1>4. ASSUME NEW c \in Call, Step(c)
      PROVE  /\ Described'
             /\ \A d \in Call : Running(d)' => Lone(d)'
             /\ (\A d \in Call : ~Running(d)') => Ready'
  <2>1. sound
    BY <1>4 DEF Step, CreateExists, CreateWrite, ReadCard, WriteCard, DeleteReferences, FileExists, DeleteUnlink,
       RenameTarget, RenameMove, RenameRead, RenameWrite, SweepRead, SweepWrite, SweepCodeRead, SweepCodeWrite,
       ReadCode, WriteCode, Keyword, Scan, WriteIndex, Reject, Keeps, PutCard, PutCode
  <2>2. /\ Running(c) /\ call'[c].request = call[c].request /\ call'[c].alone = call[c].alone
    BY <1>4, StepSelf
  <2>3. Described /\ Lone(c)
    BY <2>1, <2>2 DEF SoundInv
  <2>4. Scanned(c) /\ (call[c].request.op = "rename" => Phase(c))
    BY <2>2, <2>3 DEF ScanInv, RenameInv, Op
  <2>5. Described' /\ SoundCall(call[c])'
    BY <1>4, <2>3, <2>4, StepSound
  <2>6. \A d \in Call : d # c => ~Running(d)'
    BY <1>4, <2>2, <2>3, OthersStay DEF AloneInv, Running
  <2>7. ~Running(c)' => Ready'
    <3>1. ~Running(c)' => OldKey(call[c])' = {} /\ call'[c].pc \in Quiet /\ call'[c].pc \notin Trailing
      BY DEF Running, OldKey, Trailing, Ended, Quiet, Place
    <3>2. QED
      BY <2>5, <3>1 DEF SoundCall, SoundFiles, Named, Trailing
  <2>8. QED
    BY <2>2, <2>3, <2>5, <2>6, <2>7
<1>5. QED
  BY <1>1, <1>2, <1>3, <1>4 DEF Next

LEMMA SoundInit == Init => SoundInv
<1> SUFFICES ASSUME Init, sound PROVE SoundInv
  BY DEF SoundInv
<1>1. Named(Present(disk)) /\ Torn(disk) = {}
  BY DEF Init, InOrder, Named
<1> DEFINE files == Present(disk) \cup Code
<1>2. PICK rows \in RowsOf(files) : index = WithRows(Cleared, files, rows)
  BY DEF Init
<1>3. disk \in Disk /\ files \cap Key = Present(disk)
  BY ToolsAssumption DEF Init, Present
<1>4. ASSUME NEW k \in Key
      PROVE  rows[k] = IF k \in Present(disk) THEN k ELSE None
  <2>1. {p \in files \cap Key : disk[p].key = k} = IF k \in Present(disk) THEN {k} ELSE {}
    BY <1>1, <1>3 DEF Torn
  <2>2. QED
    BY <2>1 DEF RowsOf
<1> DEFINE keys == {k \in Key : rows[k] # None}
           all == [k \in Key |-> IF k \in keys THEN rows[k] ELSE None]
           existing == {k \in Key : all[k] # None}
<1>5. keys = Present(disk) /\ existing = Present(disk)
  BY <1>4, ToolsAssumption DEF File, Present
<1>6. /\ index.rows = all /\ index.fresh = files
      /\ index.relations = {r \in keys \X existing : r[2] \in Read(disk[rows[r[1]]].relations)}
      /\ index.links = {l \in existing \X (files \cap Code) : l[1] \in Read(code[l[2]])}
  BY <1>2 DEF WithRows, Cleared
<1> HIDE DEF all, keys, existing
<1>7. Described
  <2>1. \A k \in Key : index.rows[k] \in {k, None} /\ (k \in index.fresh => index.rows[k] = k)
    BY <1>3, <1>4, <1>5, <1>6 DEF all
  <2>2. ASSUME NEW p \in Present(disk) PROVE Related(index, p) = disk[p].relations
    <3>1. p \in Key /\ disk[p].relations \subseteq Present(disk) /\ Present(disk) \subseteq Key
      BY <1>1 DEF Named, Present
    <3>2. Read(disk[p].relations) = disk[p].relations
      BY <3>1, ReadKeys
    <3>3. rows[p] = p
      BY <1>4, <3>1
    <3>4. QED
      BY <1>5, <1>6, <3>1, <3>2, <3>3 DEF Related
  <2>3. ASSUME NEW f \in Code PROVE Linked(index, f) = code[f]
    <3>1. code[f] \subseteq Present(disk) /\ Present(disk) \subseteq Key
      BY <1>1 DEF Named, Present
    <3>2. Read(code[f]) = code[f]
      BY <3>1, ReadKeys
    <3>3. QED
      BY <1>5, <1>6, <3>1, <3>2 DEF Linked
  <2>4. QED
    BY <2>1, <2>2, <2>3 DEF Described
<1>8. Whole
  BY <1>6 DEF Whole
<1>9. \A c \in Call : ~Running(c)
  BY DEF Init, Running, Idle, Ended
<1>10. QED
  BY <1>1, <1>7, <1>8, <1>9 DEF SoundInv

Inv ==
  /\ TypeInv /\ AloneInv /\ RenameInv /\ ScanInv /\ Sane(index)
  /\ SoundInv

LEMMA InvStep == Inv /\ [Next]_vars => Inv'
BY NextType, AloneStep, RenameStep, ScanStep, SaneStep, SoundStep DEF Inv

LEMMA InvInit == Init => Inv
<1>1. Init => RenameInv /\ ScanInv
  BY DEF Init, RenameInv, ScanInv, Running, Idle, Ended
<1>2. QED
  BY <1>1, InitType, AloneInit, SaneInit, SoundInit DEF Inv

(* What card_delete's check and card_rename's sweep are for, over any       *)
(* number of cards and calls: when the files were in order at the start,    *)
(* calls that come one after the other, reindex with success, bring keys of *)
(* cards that exist and name the card to delete or rename by its key leave  *)
(* files that are in order.                                                 *)
THEOREM ReferencesCorrect == Spec => []ReferencesHold
<1>1. SoundInv => ReferencesHold
  BY DEF SoundInv, Named, ReferencesHold, InOrder
<1>2. QED
  BY <1>1, InvInit, InvStep, PTL DEF Spec, Inv

-----------------------------------------------------------------------------
(* What a tool returns with *)

(* Tables that describe files which are in order have them read in. *)
LEMMA DescribedIsRead ==
  ASSUME TypeInv', Described', Named(Present(disk))', Torn(disk)' = {}, Whole', UNCHANGED <<disk, code>>
  PROVE  ReadInto(index', Present(disk) \cup Code)
<1>1. Present(disk)' = Present(disk) /\ Torn(disk) = {} /\ Present(disk) \subseteq Key
  BY DEF Present, Torn
<1>2. Present(disk) \cup Code \subseteq index'.fresh
  BY <1>1 DEF Whole
<1>3. Present(disk) \subseteq Existing(index')
  BY <1>1, <1>2, ToolsAssumption DEF Described, Existing, File
<1>4. ASSUME NEW p \in (Present(disk) \cup Code) \cap Key
      PROVE  /\ disk[p].key \in Existing(index')
             /\ Related(index', disk[p].key) = Read(disk[p].relations) \cap Existing(index')
  <2>1. p \in Present(disk)
    BY ToolsAssumption
  <2>2. disk[p].key = p /\ disk[p].relations \subseteq Present(disk)
    BY <1>1, <2>1 DEF Torn, Named
  <2>3. Related(index', p) = disk[p].relations
    BY <1>1, <1>2, <2>1 DEF Described
  <2>4. Read(disk[p].relations) = disk[p].relations
    BY <1>1, <2>2, ReadKeys
  <2>5. QED
    BY <1>3, <2>1, <2>2, <2>3, <2>4
<1>5. ASSUME NEW f \in Code
      PROVE  Linked(index', f) = Read(code[f]) \cap Existing(index')
  <2>1. code[f] \subseteq Present(disk)
    BY <1>1 DEF Named
  <2>2. Linked(index', f) = code[f]
    BY <1>2 DEF Described
  <2>3. Read(code[f]) = code[f]
    BY <1>1, <2>1, ReadKeys
  <2>4. QED
    BY <1>3, <2>1, <2>2, <2>3
<1>6. QED
  BY <1>4, <1>5 DEF ReadInto

(* A tool whose reindex runs beside no other call returns with every file   *)
(* as it is in file_state, nothing dangling, and exactly the relations and  *)
(* links of what it found changed, whatever earlier calls have left; and of *)
(* every file when the calls were sound.                                    *)
THEOREM StepCorrect == Spec => ReturnsInStep
<1> DEFINE InStep == \A c \in Call :
       call[c].pc = "index" /\ call'[c].pc = "done" /\ call[c].alone =>
         /\ index'.fresh = Present(disk) \cup Code
         /\ NothingDangles(index')
         /\ ReadInto(index', call[c].left)
         /\ sound => ReadInto(index', Present(disk) \cup Code)
<1>1. Inv /\ Inv' /\ [Next]_vars => [InStep]_vars
  <2> SUFFICES ASSUME Inv, Inv', Next, NEW c \in Call, call[c].pc = "index", call'[c].pc = "done", call[c].alone
               PROVE  /\ index'.fresh = Present(disk) \cup Code
                      /\ NothingDangles(index')
                      /\ ReadInto(index', call[c].left)
                      /\ sound => ReadInto(index', Present(disk) \cup Code)
    OBVIOUS
  <2>1. Running(c) /\ ~Running(c)' /\ TypeInv
    BY DEF Running, Ended, Inv
  <2>2. ~Crash
    BY DEF Crash, Idle
  <2>3. ASSUME NEW d \in Call, NEW request \in Request, Start(d, request) PROVE FALSE
    <3>1. d # c
      BY <2>1, <2>3 DEF Start
    <3>2. call'[c] = [call[c] EXCEPT !.alone = FALSE]
      BY <2>1, <2>3, <3>1 DEF Start
    <3>3. QED
      BY <2>1, <3>2 DEF TypeInv, CallsInv, CallRecord
  <2>4. PICK d \in Call : Step(d)
    BY <2>2, <2>3 DEF Next
  <2>5. d = c
    BY <2>1, <2>4, OthersStay
  <2>6. WriteIndex(c)
    BY <2>4, <2>5 DEF Step, CreateExists, CreateWrite, ReadCard, WriteCard, DeleteReferences, FileExists,
       DeleteUnlink, RenameTarget, RenameMove, RenameRead, RenameWrite, SweepRead, SweepWrite, SweepCodeRead,
       SweepCodeWrite, ReadCode, WriteCode, Keyword, Scan, At
  <2>7. Scanned(c) /\ Sane(index)
    BY <2>1 DEF ScanInv, Inv
  <2>8. ASSUME sound PROVE ReadInto(index', Present(disk) \cup Code)
    <3>1. sound' /\ UNCHANGED <<disk, code>>
      <4>1. ~Over(c, "rejected")
        BY <2>1, OverFields
      <4>2. QED
        BY <2>6, <2>8, <4>1 DEF WriteIndex
    <3>2. \A e \in Call : ~Running(e)'
      BY <2>1, <2>4, <2>5, OthersStay DEF Inv, AloneInv, Running
    <3>3. Described' /\ Named(Present(disk))' /\ Torn(disk)' = {} /\ Whole' /\ TypeInv'
      BY <3>1, <3>2 DEF Inv, SoundInv
    <3>4. QED
      BY <3>1, <3>3, DescribedIsRead
  <2>9. QED
    BY <2>1, <2>6, <2>7, <2>8, WriteInStep
<1>2. Spec => [][InStep]_vars
  BY <1>1, InvInit, InvStep, PTL DEF Spec
<1>3. QED
  BY <1>2 DEF ReturnsInStep
=============================================================================
