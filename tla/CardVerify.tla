----------------------------- MODULE CardVerify -----------------------------
(***************************************************************************)
(* What `mcp verify' reports of the cards and the code of a project        *)
(* (packages/cli/src/mcp/verify/verify-project.ts), and what a full        *)
(* reindex (packages/cli/src/mcp/index/index-project.ts) makes of the same *)
(* files: two readers of one set of files, written apart.                  *)
(*                                                                         *)
(* A project p has                                                         *)
(*   p.cards       the card files in the order of the scan, each           *)
(*                 [key, status, words, relations], a relation being       *)
(*                 [type, target]; keys and targets are as written         *)
(*   p.code        the code files, each the set of the @see texts in it    *)
(*   p.registered  the keywords and tags in the keyword and tag tables     *)
(* Files that the configuration excludes are not in it.                    *)
(***************************************************************************)
EXTENDS Integers, Sequences, SequencesExt, FiniteSets

CONSTANTS
  Raw,        \* keys as they are written in cards and after @see
  Normal,     \* parseFullKey(): the key of each, or NoKey where it throws
  NoKey,
  Word,       \* keywords and tags as they are written
  Folded,     \* trim() and toLowerCase() of each
  Allowed     \* config.mcp.card.relations

Issue(code, about) == [code |-> code, about |-> about]

-----------------------------------------------------------------------------
(* The cards *)

Places(p) == DOMAIN p.cards

KeyAt(p, i) == Normal[p.cards[i].key]

Readable(p) == {i \in Places(p) : KeyAt(p, i) # NoKey}

(* cardByKey: of the files with the same key, the one scanned first. *)
CardByKey(p) ==
  [k \in {KeyAt(p, i) : i \in Readable(p)} |->
     p.cards[CHOOSE i \in Readable(p) : KeyAt(p, i) = k /\ \A j \in Readable(p) : KeyAt(p, j) = k => i <= j]]

KeyIssues(p) ==
  {Issue("CARD_KEY_INVALID", p.cards[i].key) : i \in Places(p) \ Readable(p)}
    \cup {Issue("CARD_KEY_DUPLICATE", KeyAt(p, i)) :
            i \in {i \in Readable(p) : \E j \in Readable(p) : j # i /\ KeyAt(p, j) = KeyAt(p, i)}}

Registered(p) == {w \in Word : \E r \in p.registered : Folded[w] = Folded[r]}

ClassificationIssues(p) ==
  {Issue("CARD_CLASSIFICATION_NOT_REGISTERED", k) :
     k \in {k \in DOMAIN CardByKey(p) : ~(CardByKey(p)[k].words \subseteq Registered(p))}}

FaultyRelationIssues(p) ==
  LET cards == CardByKey(p) IN
  UNION {{Issue("RELATION_TYPE_NOT_ALLOWED", k) : r \in {r \in cards[k].relations : r.type \notin Allowed}}
           : k \in DOMAIN cards}

(* NoKey is no card's key, so a target that cannot be parsed is missing. *)
RelationIssues(p) ==
  LET cards == CardByKey(p) IN
  UNION {{Issue("RELATION_TYPE_NOT_ALLOWED", k) : r \in {r \in cards[k].relations : r.type \notin Allowed}}
           \cup {Issue("RELATION_TARGET_MISSING", k) :
                   r \in {r \in cards[k].relations : Normal[r.target] \notin DOMAIN cards}}
           : k \in DOMAIN cards}

-----------------------------------------------------------------------------
(* The code that refers to cards *)

SeeIssues(p) ==
  UNION {{Issue(IF Normal[s] = NoKey THEN "SEE_KEY_INVALID" ELSE "SEE_TARGET_MISSING", f) :
            s \in {s \in p.code[f] : Normal[s] \notin DOMAIN CardByKey(p)}} : f \in DOMAIN p.code}

SeeRefs(p, k) == {f \in DOMAIN p.code : \E s \in p.code[f] : Normal[s] = k}

Unlinked(p, statuses) ==
  {k \in DOMAIN CardByKey(p) : CardByKey(p)[k].status \in statuses /\ SeeRefs(p, k) = {}}

-----------------------------------------------------------------------------
(* Warnings about the cards as a whole *)

DependsOn(p) ==
  [k \in DOMAIN CardByKey(p) |->
     {Normal[r.target] : r \in {r \in CardByKey(p)[k].relations : r.type = "depends-on"}} \cap DOMAIN CardByKey(p)]

(* The last step of dfs(): the node leaves the stack, not the visited. *)
Closed(s, node) == [s EXCEPT !.stack = @ \ {node}]

(* dfs() of these nodes in turn, each of which searches its dependencies    *)
(* first.  A node that was visited is passed over, and nothing more is done *)
(* once a dependency in the stack is found.                                 *)
Search(next) ==
  LET After[s \in [visited : SUBSET DOMAIN next, stack : SUBSET DOMAIN next, found : BOOLEAN],
            nodes \in Seq(DOMAIN next)] ==
        IF nodes = << >> \/ s.found THEN s
        ELSE LET n == Head(nodes) IN
             IF n \in s.visited THEN After[[s EXCEPT !.found = n \in s.stack], Tail(nodes)]
             ELSE LET in == [s EXCEPT !.visited = @ \cup {n}, !.stack = @ \cup {n}]
                      out == After[in, SetToSeq(next[n])]
                  IN After[IF out.found THEN out ELSE Closed(out, n), Tail(nodes)]
  IN After[[visited |-> {}, stack |-> {}, found |-> FALSE], SetToSeq(DOMAIN next)]

CycleFound(p) == Search(DependsOn(p)).found

Deprecated(p) == {k \in DOMAIN CardByKey(p) : CardByKey(p)[k].status = "deprecated"}

(* A relation's target is compared as it is written. *)
DeprecatedReferenced(p) ==
  \/ \E k \in DOMAIN CardByKey(p) : \E r \in CardByKey(p)[k].relations : r.target \in Deprecated(p)
  \/ \E k \in Deprecated(p) : SeeRefs(p, k) # {}

-----------------------------------------------------------------------------
VerifyProject(p) ==
  LET errors == KeyIssues(p) \cup ClassificationIssues(p) \cup RelationIssues(p) \cup SeeIssues(p)
                  \cup {Issue("IMPLEMENTED_CARD_NO_CODE_LINKS", k) : k \in Unlinked(p, {"implemented"})}
      warnings == {Issue("CONFIRMED_CARD_NO_CODE_LINKS", k) : k \in Unlinked(p, {"accepted", "implementing"})}
                    \cup {Issue("DEPENDS_ON_CYCLE", NoKey) : x \in {x \in {1} : CycleFound(p)}}
                    \cup {Issue("REFERENCES_DEPRECATED_CARD", NoKey) : x \in {x \in {1} : DeprecatedReferenced(p)}}
  IN [ok |-> errors = {}, errors |-> errors, warnings |-> warnings]

-----------------------------------------------------------------------------
(* indexProject() in full mode *)

(* A card whose key cannot be parsed, or with a word that is not registered *)
(* as it is written, throws and rolls all back.                             *)
IndexBuilds(p) == \A i \in Places(p) : KeyAt(p, i) # NoKey /\ p.cards[i].words \subseteq p.registered

(* Of the files with the same key the last one gives the row. *)
CardRows(p) ==
  [k \in {KeyAt(p, i) : i \in Places(p)} |->
     p.cards[CHOOSE i \in Places(p) : KeyAt(p, i) = k /\ \A j \in Places(p) : KeyAt(p, j) = k => j <= i]]

(* Relations of a type that is not allowed, or to no card, are left out. *)
RelationRows(p) ==
  LET rows == CardRows(p) IN
  UNION {{[type |-> r.type, src |-> k, dst |-> Normal[r.target]] :
            r \in {r \in rows[k].relations : r.type \in Allowed /\ Normal[r.target] \in DOMAIN rows}}
           : k \in DOMAIN rows}

LinkRows(p) == UNION {{<<Normal[s], f>> : s \in {s \in p.code[f] : Normal[s] \in DOMAIN CardRows(p)}} : f \in DOMAIN p.code}

-----------------------------------------------------------------------------
(* Properties *)

(* A project without errors is indexed whole: the build goes through, each  *)
(* card file has its row, and every relation and every @see of the files is *)
(* a row, none of them dropped.  The words have to be registered as they    *)
(* are written, which verify does not ask.                                  *)
PassedIsIndexed(p) ==
  VerifyProject(p).ok /\ (\A i \in Places(p) : \A w \in p.cards[i].words : w \in Registered(p) => w \in p.registered)
    => /\ IndexBuilds(p)
       /\ Cardinality(DOMAIN CardRows(p)) = Len(p.cards) /\ CardRows(p) = CardByKey(p)
       /\ \A i \in Places(p) : \A r \in p.cards[i].relations :
            [type |-> r.type, src |-> KeyAt(p, i), dst |-> Normal[r.target]] \in RelationRows(p)
       /\ \A f \in DOMAIN p.code : \A s \in p.code[f] : <<Normal[s], f>> \in LinkRows(p)

(* The warning is there exactly if a card depends on itself through one or  *)
(* more relations; stated without a search, by paths of growing length.     *)
CycleIsReported(p) ==
  LET next == DependsOn(p)
      reach[i \in 0 .. Cardinality(DOMAIN next)] ==
        [k \in DOMAIN next |-> IF i = 0 THEN next[k] ELSE reach[i - 1][k] \cup UNION {next[x] : x \in reach[i - 1][k]}]
  IN Issue("DEPENDS_ON_CYCLE", NoKey) \in VerifyProject(p).warnings
       <=> \E k \in DOMAIN next : k \in reach[Cardinality(DOMAIN next)][k]
=============================================================================
