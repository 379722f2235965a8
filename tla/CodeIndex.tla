------------------------------ MODULE CodeIndex ------------------------------
(***************************************************************************)
(* What indexProject() (packages/cli/src/mcp/index/index-project.ts) keeps *)
(* of the source files: the entities, the relations between them and their *)
(* links to cards, after a full reindex and incremental ones, with the     *)
(* moves of files that it recognises by fingerprints.                      *)
(*                                                                         *)
(* A snapshot d gives the source files there are and their contents:       *)
(*   symbols    the declarations [name, kind, signature], in their order   *)
(*   relations  [type, src, dst]: from the name of a symbol, or Module, to *)
(*              an entity                                                  *)
(*   sees       the cards that @see names                                  *)
(* An entity is <<file, name>> with the name Module for the file itself.   *)
(* The tables are sets: rows that are alike are one.                       *)
(***************************************************************************)
EXTENDS Integers, Sequences, SequencesExt, FiniteSets

CONSTANTS
  Card,    \* the keys of the rows of the table card
  Module,  \* the entity of a whole file
  NoSignature

NoTables == [entities |-> << >>, relations |-> {}, links |-> {}, tracked |-> << >>]

Restricted(f, keys) == [x \in keys |-> f[x]]

(* Rows that replace those of the same key. *)
Upserted(f, rows) == [x \in DOMAIN f \cup DOMAIN rows |-> IF x \in DOMAIN rows THEN rows[x] ELSE f[x]]

-----------------------------------------------------------------------------
(* One file *)

(* extractTopLevelDeclaredSymbols(): of two declarations of a name, the     *)
(* last one counts.                                                         *)
Declared(content) ==
  [n \in {content.symbols[i].name : i \in DOMAIN content.symbols} |->
     LET same == SelectSeq(content.symbols, LAMBDA s : s.name = n)
     IN [kind |-> Last(same).kind, signature |-> Last(same).signature]]

(* Relations to files that do not exist are left out. *)
FilteredRelations(d, f) ==
  {<<r.type, <<f, r.src>>, r.dst>> : r \in {r \in d[f].relations : r.dst[1] \in DOMAIN d}}

(* The row of an entity, as the file f has it written: what another file    *)
(* declares is no more than a symbol to f.  A module's signature is its     *)
(* content.                                                                 *)
EnsureCodeEntity(d, f, e) ==
  CASE e[2] = Module -> [kind |-> "module", signature |-> d[e[1]]]
    [] e[2] # Module /\ e[1] = f /\ e[2] \in DOMAIN Declared(d[f]) -> Declared(d[f])[e[2]]
    [] OTHER -> [kind |-> "symbol", signature |-> NoSignature]

(* The entities that the file no longer declares keep their rows. *)
IndexFile(d, t, f) ==
  LET rows == FilteredRelations(d, f)
      keys == {<<f, Module>>} \cup {<<f, n>> : n \in DOMAIN Declared(d[f])} \cup UNION {{r[2], r[3]} : r \in rows}
      entities == Upserted(t.entities, [e \in keys |-> EnsureCodeEntity(d, f, e)])
      own == {e \in DOMAIN entities : e[1] = f}
  IN [entities |-> entities,
      relations |-> {r \in t.relations : r[2] \notin own} \cup rows,
      links |-> {l \in t.links : l[2] # f} \cup {<<c, f>> : c \in d[f].sees \cap Card},
      tracked |-> Upserted(t.tracked, [x \in {f} |-> d[x]])]

IndexFiles(d, t, files) == FoldLeft(LAMBDA s, f : IndexFile(d, s, f), t, files)

-----------------------------------------------------------------------------
(* Files that are gone *)

FaultyDeleteRemovedFile(t, f, kept) ==
  LET keys == {e \in DOMAIN t.entities : e[1] = f} \ kept
  IN [t EXCEPT !.entities = Restricted(@, DOMAIN @ \ keys),
               !.relations = {r \in @ : r[2] \notin keys},
               !.links = {l \in @ : l[2] # f},
               !.tracked = Restricted(@, DOMAIN @ \ {f})]

(* With the entities go the relations at whose ends they are. *)
DeleteRemovedFile(t, f, kept) ==
  LET keys == {e \in DOMAIN t.entities : e[1] = f} \ kept
  IN [t EXCEPT !.entities = Restricted(@, DOMAIN @ \ keys),
               !.relations = {r \in @ : {r[2], r[3]} \cap keys = {}},
               !.links = {l \in @ : l[2] # f},
               !.tracked = Restricted(@, DOMAIN @ \ {f})]

DeleteRemovedFiles(t, files, kept) == FoldLeft(LAMBDA s, f : DeleteRemovedFile(s, f, kept), t, files)

(* computeFingerprint(): a symbol's does not tell its file. *)
Fingerprint(entities, e) == <<e[2], entities[e]>>

(* <<old, new>>: the only entity of the removed files with its fingerprint, *)
(* and the only one of the files that were added.                           *)
Moved(before, after, removed, added) ==
  LET olds == {e \in DOMAIN before : e[1] \in removed}
      news == {e \in DOMAIN after : e[1] \in added}
      alike(es, rows, print) == {e \in es : Fingerprint(rows, e) = print}
  IN {x \in olds \X news :
        /\ alike(olds, before, Fingerprint(before, x[1])) = {x[1]}
        /\ alike(news, after, Fingerprint(before, x[1])) = {x[2]}}

(* The relations and links of what has moved are those of the new entity    *)
(* from then on, its own and the ones of the old.                           *)
Retarget(t, moved) ==
  LET to(e) == IF \E x \in moved : x[1] = e THEN (CHOOSE x \in moved : x[1] = e)[2] ELSE e
  IN [t EXCEPT !.entities = Restricted(@, DOMAIN @ \ {x[1] : x \in moved}),
               !.relations = {<<r[1], to(r[2]), to(r[3])>> : r \in @},
               !.links = {<<l[1], to(<<l[2], Module>>)[1]>> : l \in @}]

-----------------------------------------------------------------------------
(* indexProject() for the source files *)

Full(d) == IndexFiles(d, NoTables, SetToSeq(DOMAIN d))

(* The entities of the removed files are read before the others are written. *)
Incremental(t, d) ==
  LET removed == DOMAIN t.tracked \ DOMAIN d
      added == DOMAIN d \ DOMAIN t.tracked
      changed == SetToSeq({f \in DOMAIN d : f \in added \/ t.tracked[f] # d[f]})
      indexed == IndexFiles(d, t, changed)
      moved == Moved(t.entities, indexed.entities, removed, added)
  IN DeleteRemovedFiles(Retarget(indexed, moved), SetToSeq(removed), {x[1] : x \in moved})

(* A full reindex, and an incremental one for each snapshot after. *)
Indexed(history) == FoldLeft(Incremental, Full(Head(history)), Tail(history))

-----------------------------------------------------------------------------
(* Properties; t is the tables after the history *)

(* Both ends of each relation have their rows, whatever has been removed,   *)
(* moved or renamed.                                                        *)
EndsHaveRows(t) == \A r \in t.relations : {r[2], r[3]} \subseteq DOMAIN t.entities

(* The links are those of a full reindex, also after files were moved.      *)
LinksFollowCode(history, t) == t.links = Full(Last(history)).links

(* A relation that a full reindex would write is there if its file was last *)
(* indexed when the file it leads to was there, which has been there since. *)
RelationsAreKept(history, t) ==
  LET now == Last(history)
      same(f, i) == \A j \in i .. Len(history) : f \in DOMAIN history[j] /\ history[j][f] = now[f]
      since(f) == CHOOSE i \in DOMAIN history : same(f, i) /\ \A j \in DOMAIN history : same(f, j) => i <= j
  IN \A r \in Full(now).relations :
       (\A i \in since(r[2][1]) .. Len(history) : r[3][1] \in DOMAIN history[i]) => r \in t.relations
=============================================================================
