----------------------------- MODULE CardSamples -----------------------------
(* Small tables, projects and histories of files, for the functions of the *)
(* cards and of the code they are linked to.                               *)
EXTENDS Integers, Sequences, FiniteSets

-----------------------------------------------------------------------------
(* Tables of the index: four cards and two entities, with every choice of   *)
(* relations that make chains, a cycle and a second way, of links and calls. *)

Q == INSTANCE CardQueries WITH CardKey <- {"a", "b", "c", "d"}, Entity <- {"e", "f"}, NoRow <- "null"

Rel(type, src, dst) == [type |-> type, src |-> src, dst |-> dst, reverse |-> FALSE]

WithReverses(rs) == rs \cup {[type |-> r.type, src |-> r.dst, dst |-> r.src, reverse |-> TRUE] : r \in rs}

Tables ==
  {[cards |-> [k \in {"a", "b", "c", "d"} |->
                 [status |-> IF k = "a" THEN "draft" ELSE "accepted", keywords |-> {}, tags |-> {}]],
    relations |-> WithReverses(rs), links |-> ls, entities |-> {"e", "f"}, calls |-> calls] :
      rs \in SUBSET {Rel("depends-on", "a", "b"), Rel("depends-on", "b", "c"), Rel("depends-on", "c", "a"),
                     Rel("depends-on", "c", "d"), Rel("related", "a", "d")},
      ls \in SUBSET {<<"a", "e">>, <<"c", "e">>, <<"d", "f">>},
      calls \in {{}, {<<"e", "f">>}}}

-----------------------------------------------------------------------------
(* CardProjects: up to three card files.  The key "/a" is another writing of a, *)
(* and x the key of no card.                                                *)

NormalOf == [k \in {"a", "/a", "b", "c", "x", "bad"} |-> IF k = "/a" THEN "a" ELSE IF k = "bad" THEN "no key" ELSE k]

FoldedOf == [w \in {"w", "W", "v"} |-> IF w = "W" THEN "w" ELSE w]

CardFile(key, status, words, rels) == [key |-> key, status |-> status, words |-> words, relations |-> rels]

To(type, targets) == {[type |-> type, target |-> t] : t \in targets}

(* Three cards that depend on each other in every way. *)
DependencyWebs ==
  {[cards |-> <<CardFile("a", "implemented", {}, To("depends-on", as)),
                CardFile("b", "deprecated", {}, To("depends-on", bs)),
                CardFile("c", "draft", {}, To("depends-on", cs) \cup To("related", {"a"}))>>,
    code |-> [f \in {"f"} |-> {"a"}],
    registered |-> {}] : as \in SUBSET {"b", "c"}, bs \in SUBSET {"a", "c"}, cs \in SUBSET {"a", "b", "c"}}

(* One or two cards with everything that can be wrong with them. *)
BrokenProjects ==
  LET files(keys) == {CardFile(k, s, ws, rs) : k \in keys, s \in {"implemented", "draft"}, ws \in {{}, {"w"}, {"v"}},
                        rs \in {{}, To("related", {"a"}), To("depends-on", {"x"}), To("banned", {"/a"})}}
  IN {[cards |-> cards, code |-> [f \in {"f", "g"} |-> IF f = "f" THEN sees ELSE {}], registered |-> {word}] :
        cards \in {<<x>> : x \in files({"a", "bad"})}
                    \cup {<<x, y>> : x \in files({"a"}),
                                     y \in {CardFile(k, "draft", {}, rs) : k \in {"/a", "b"}, rs \in {{}, To("related", {"a"})}}},
        sees \in {{}, {"a"}, {"/a", "b"}, {"bad"}},
        word \in {"w", "W"}}

CardProjects == DependencyWebs \cup BrokenProjects

-----------------------------------------------------------------------------
(* Histories of two source files and a third that one of them is moved to.  *)

Content(symbols, rels, sees) == [symbols |-> symbols, relations |-> rels, sees |-> sees]

SymbolOf(n, sig) == [name |-> n, kind |-> "function", signature |-> sig]

Call(src, file, dst) == [type |-> "calls", src |-> src, dst |-> <<file, dst>>]

(* What a file may contain: s, which calls t of g; two declarations of t;   *)
(* or t, which calls s of f.  A call to the same file is one within it.     *)
Contents ==
  {Content(<<SymbolOf("s", "1")>>, {Call("s", "g", "t"), Call("module", "g", "module")}, {"c1", "c3"}),
   Content(<<SymbolOf("s", "1"), SymbolOf("t", "1"), SymbolOf("t", "2")>>, {}, {"c2"}),
   Content(<<SymbolOf("t", "1")>>, {Call("t", "f", "s")}, {})}

Snapshots == UNION {[files -> Contents] : files \in {{}, {"f"}, {"f", "g"}, {"g", "h"}, {"h"}}}

Histories == {<<a, b, c>> : a \in {a \in Snapshots : Cardinality(DOMAIN a) = 2}, b, c \in Snapshots}
=============================================================================
