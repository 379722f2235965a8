----------------------------- MODULE CardQueries -----------------------------
(***************************************************************************)
(* What the MCP tools that read return for the tables of the index         *)
(* (packages/cli/src/mcp/server/mcp-server.ts): a function of the tables   *)
(* and of the tool's arguments.                                            *)
(*                                                                         *)
(* A table is a set of rows.  The text search, which SQLite does, and the  *)
(* order and number of the rows of a list are left out.                    *)
(***************************************************************************)
EXTENDS Integers, Sequences, SequencesExt, FiniteSets

CONSTANTS
  CardKey,  \* keys of cards
  Entity,   \* keys of code entities: those that begin with module: or symbol:
  NoRow     \* null

Node == CardKey \cup Entity

(* t.cards: the cards with their status, keywords and tags; t.relations:    *)
(* rows [type, src, dst, reverse]; t.links: <<card, entity>>; t.entities;   *)
(* t.calls: the rows <<src, dst>> of code_relation.                         *)

-----------------------------------------------------------------------------
(* The rows of one card or one entity *)

ListCardRelations(t, k) == {r \in t.relations : r.src = k \/ r.dst = k}

ListCardCodeLinks(t, k) == {l \in t.links : l[1] = k}

GetCard(t, k) == IF k \in DOMAIN t.cards THEN k ELSE NoRow

GetCodeEntity(t, e) == IF e \in t.entities THEN e ELSE NoRow

LinksOfEntity(t, e) == {l \in t.links : l[2] = e}

CallsOf(t, e) == {x \in t.calls : x[1] = e \/ x[2] = e}

(* Each relation has two rows, of which the reverse ones are not shown. *)
GetRelations(t, k, direction) ==
  {r \in ListCardRelations(t, k) :
     /\ ~r.reverse
     /\ direction = "outgoing" => r.src = k
     /\ direction = "incoming" => r.dst = k}

(* The cards at the other end of a card's relations, itself left out. *)
Ends(t, k) == UNION {{r.src, r.dst} : r \in ListCardRelations(t, k)} \ {k}

GetContext(t, target) ==
  IF target \in CardKey
  THEN [card |-> GetCard(t, target),
        entity |-> NoRow,
        relations |-> ListCardRelations(t, target),
        links |-> ListCardCodeLinks(t, target),
        linkedCards |-> Ends(t, target) \cap DOMAIN t.cards,
        linkedCode |-> {l[2] : l \in ListCardCodeLinks(t, target)} \cap t.entities,
        calls |-> {}]
  ELSE [card |-> NoRow,
        entity |-> GetCodeEntity(t, target),
        relations |-> {},
        links |-> LinksOfEntity(t, target),
        linkedCards |-> {l[1] : l \in LinksOfEntity(t, target)} \cap DOMAIN t.cards,
        linkedCode |-> {},
        calls |-> CallsOf(t, target)]

-----------------------------------------------------------------------------
(* Lists *)

(* A filter that is not given, NoRow or the empty set of tags, lets all pass. *)
ListCards(t, status, word, tags) ==
  {k \in DOMAIN t.cards :
     /\ status # NoRow => t.cards[k].status = status
     /\ word # NoRow => word \in t.cards[k].keywords
     /\ tags # {} => tags \cap t.cards[k].tags # {}}

ListUnlinked(t, status) ==
  {k \in DOMAIN t.cards :
     /\ status # NoRow => t.cards[k].status = status
     /\ ListCardCodeLinks(t, k) = {}}

CoverageReport(t, k) ==
  [card |-> GetCard(t, k),
   links |-> ListCardCodeLinks(t, k),
   linkedEntityCount |-> Cardinality(ListCardCodeLinks(t, k))]

-----------------------------------------------------------------------------
(* Walks *)

Clamped(low, high, n) == IF n < low THEN low ELSE IF n > high THEN high ELSE n

(* The edges that lead out of a node, with the node each leads to. *)
EdgesAt(t, n) ==
  IF n \in CardKey
  THEN {[type |-> r.type, from |-> n, to |-> IF r.src = n THEN r.dst ELSE r.src] :
          r \in ListCardRelations(t, n)}
         \cup {[type |-> "see", from |-> n, to |-> l[2]] : l \in ListCardCodeLinks(t, n)}
  ELSE {[type |-> "see", from |-> n, to |-> l[1]] : l \in LinksOfEntity(t, n)}
         \cup {[type |-> "code", from |-> n, to |-> IF x[1] = n THEN x[2] ELSE x[1]] :
                 x \in CallsOf(t, n)}

Neighbours(t) == [n \in Node |-> {e.to : e \in EdgesAt(t, n)}]

FaultyExpands(depth, limit) == depth <= limit

Expands(depth, limit) == depth < limit

(* The loop that the three walks share: a queue, the nodes that have been   *)
(* in it with their depth, and for each the node that put it there.         *)
RECURSIVE Visited(_, _, _, _)
Visited(next, limit, queue, seen) ==
  IF queue = << >> THEN seen
  ELSE LET cur == Head(queue)
           new == IF Expands(seen[cur].depth, limit) THEN next[cur] \ DOMAIN seen ELSE {}
           more == [n \in DOMAIN seen \cup new |->
                      IF n \in new THEN [depth |-> seen[cur].depth + 1, prev |-> cur] ELSE seen[n]]
       IN Visited(next, limit, Tail(queue) \o SetToSeq(new), more)

WalkFrom(next, limit, n) == Visited(next, limit, <<n>>, [x \in {n} |-> [depth |-> 0, prev |-> NoRow]])

GetSubgraph(t, center, hops) ==
  LET limit == Clamped(0, 5, hops)
      seen == WalkFrom(Neighbours(t), limit, center)
  IN [nodes |-> DOMAIN seen,
      edges |-> UNION {EdgesAt(t, n) : n \in {n \in DOMAIN seen : Expands(seen[n].depth, limit)}}]

(* The rows of depends-on relations that other cards have to this one. *)
Dependents(t) ==
  [n \in Node |-> {r.dst : r \in {r \in t.relations : r.src = n /\ r.type = "depends-on" /\ r.reverse}}]

ImpactAnalysis(t, k, depth) ==
  LET affected == DOMAIN WalkFrom(Dependents(t), Clamped(1, 10, depth), k)
  IN [cards |-> affected \cap DOMAIN t.cards,
      code |-> {l[2] : l \in {l \in t.links : l[1] \in affected}} \cap t.entities]

(* Back from a node to the one that the walk began at. *)
RECURSIVE PathTo(_, _)
PathTo(seen, n) == IF seen[n].prev = NoRow THEN <<n>> ELSE Append(PathTo(seen, seen[n].prev), n)

TraceChain(t, from, to, maxHops) ==
  LET seen == WalkFrom(Neighbours(t), Clamped(1, 10, maxHops), from)
  IN IF to \in DOMAIN seen THEN PathTo(seen, to) ELSE NoRow

-----------------------------------------------------------------------------
(* Properties *)

(* Tables as a reindex leaves them: a relation has its reverse, and links   *)
(* and relations are of cards and entities that have a row.                 *)
Consistent(t) ==
  /\ \A r \in t.relations :
       /\ [type |-> r.type, src |-> r.dst, dst |-> r.src, reverse |-> ~r.reverse] \in t.relations
       /\ r.src \in DOMAIN t.cards /\ r.dst \in DOMAIN t.cards
  /\ \A l \in t.links : l[1] \in DOMAIN t.cards /\ l[2] \in t.entities
  /\ \A x \in t.calls : x[1] \in t.entities /\ x[2] \in t.entities

(* The nodes at most n steps away, without queue or depths. *)
Within(next, from, n) ==
  LET ball[i \in 0 .. n] ==
        IF i = 0 THEN {from} ELSE ball[i - 1] \cup UNION {next[x] : x \in ball[i - 1]}
  IN ball[n]

(* get_subgraph: every node within the hops and every edge between one that *)
(* is nearer and its neighbour, so that no edge leads out of the graph.     *)
SubgraphIsBall(t) ==
  \A n \in Node, hops \in 0 .. 3 :
    LET g == GetSubgraph(t, n, hops)
        next == Neighbours(t)
    IN /\ g.nodes = Within(next, n, hops)
       /\ \A e \in g.edges : {e.from, e.to} \subseteq g.nodes
       /\ hops > 0 => \A x \in Within(next, n, hops - 1) : \A y \in next[x] :
                        \E e \in g.edges : e.from = x /\ e.to = y

(* trace_chain: a path is found if there is one within the hops, and none   *)
(* is shorter.                                                              *)
ChainIsShortest(t) ==
  \A from, to \in Node, hops \in 1 .. 3 :
    LET next == Neighbours(t)
        path == TraceChain(t, from, to, hops)
    IN IF to \notin Within(next, from, hops) THEN path = NoRow
       ELSE /\ path # NoRow /\ path[1] = from /\ path[Len(path)] = to
            /\ \A i \in 1 .. Len(path) - 1 : path[i + 1] \in next[path[i]]
            /\ Len(path) > 1 => to \notin Within(next, from, Len(path) - 2)

(* impact_analysis: the cards from which depends-on relations lead to the   *)
(* card, and the code of each: stated with the relations as the files have  *)
(* them, while the tool walks the reverse rows.                             *)
ImpactIsDependents(t) ==
  \A k \in DOMAIN t.cards, depth \in 1 .. 3 :
    LET on == [n \in Node |-> {x \in CardKey : \E r \in t.relations :
                                 r.type = "depends-on" /\ ~r.reverse /\ r.src = x /\ r.dst = n}]
        impact == ImpactAnalysis(t, k, depth)
    IN /\ impact.cards = Within(on, k, depth)
       /\ impact.code = {e \in Entity : \E c \in impact.cards : <<c, e>> \in t.links}

(* Tools that answer the same question in two ways agree: the context of a  *)
(* node is what one hop of the subgraph reaches, a card is listed unlinked  *)
(* when its coverage is zero, and the relations in both directions are each *)
(* one of the outgoing or the incoming.                                     *)
ReadsAgree(t) ==
  /\ \A k \in CardKey :
       LET context == GetContext(t, k) IN
       /\ context.linkedCards \cup context.linkedCode = GetSubgraph(t, k, 1).nodes \ {k}
       /\ k \in DOMAIN t.cards => (k \in ListUnlinked(t, NoRow) <=> CoverageReport(t, k).linkedEntityCount = 0)
       /\ GetRelations(t, k, "both") = GetRelations(t, k, "outgoing") \cup GetRelations(t, k, "incoming")
       /\ context.relations # {} => GetRelations(t, k, "both") # {}
  /\ \A e \in Entity :
       LET context == GetContext(t, e) IN
       context.linkedCards \cup (UNION {{x[1], x[2]} : x \in context.calls} \ {e})
         = GetSubgraph(t, e, 1).nodes \ {e}
=============================================================================
