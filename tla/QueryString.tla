----------------------------- MODULE QueryString -----------------------------
(***************************************************************************)
(* QueryParser.parse()                                                     *)
(* (packages/http-adapter/src/middlewares/query-parser/query-parser.ts).   *)
(*                                                                         *)
(* A query is a sequence of tokens: "?", "&", "=", "[", "]", and texts     *)
(* without them, percent-decoded.  A name or a value is a sequence of      *)
(* tokens.  A parsed value is a record of one field: str, rec (a function  *)
(* of names) or arr (a function of indices, which may leave some out).     *)
(* Indices are written without leading zeros; what a name __proto__ does   *)
(* to the prototype of an object is left out.                              *)
(*                                                                         *)
(* o: [depth, parameterLimit, arrayLimit, parseArrays, strict, hpp]        *)
(***************************************************************************)
EXTENDS Integers, Sequences, SequencesExt, FiniteSets

CONSTANTS
  Reserved,  \* the texts constructor, prototype, ...
  IndexOf    \* the number that each text of digits stands for

Thrown == [thrown |-> TRUE]

IsThrown(x) == "thrown" \in DOMAIN x

Is(x, kind) == kind \in DOMAIN x

IsContainer(x) == Is(x, "arr") \/ Is(x, "rec")

IsIndex(name) == Len(name) = 1 /\ name[1] \in DOMAIN IndexOf

IsReserved(name) == Len(name) = 1 /\ name[1] \in Reserved

EmptyRecord == [rec |-> [n \in {} |-> 0]]

With(f, n, x) == [m \in DOMAIN f \cup {n} |-> IF m = n THEN x ELSE f[m]]

Put(c, n, x) == IF Is(c, "rec") THEN [rec |-> With(c.rec, n, x)] ELSE [arr |-> With(c.arr, n, x)]

(* The length of an array is one more than its last index. *)
Length(c) == IF DOMAIN c.arr = {} THEN 0 ELSE 1 + (CHOOSE i \in DOMAIN c.arr : \A j \in DOMAIN c.arr : j <= i)

Push(c, x) == Put(c, Length(c), x)

(* arrayToMaybeObject() *)
ToObject(c) ==
  [rec |-> [n \in {<<t>> : t \in {t \in DOMAIN IndexOf : IndexOf[t] \in DOMAIN c.arr}} |-> c.arr[IndexOf[n[1]]]]]

ShouldCreateArray(o, next) == next = << >> \/ (IsIndex(next) /\ IndexOf[next[1]] <= o.arrayLimit)

Container(o, next) == IF ShouldCreateArray(o, next) THEN [arr |-> [i \in {} |-> 0]] ELSE EmptyRecord

-----------------------------------------------------------------------------
(* assignLeaf() in an object *)
AssignLeaf(o, obj, key, value) ==
  LET leaf == [str |-> value] IN
  IF IsReserved(key) THEN obj
  ELSE IF key \notin DOMAIN obj.rec THEN Put(obj, key, leaf)
  ELSE LET existing == obj.rec[key]
           joins == Is(existing, "arr") /\ o.hpp = "array" IN
       CASE IsContainer(existing) /\ ~joins /\ o.strict -> Thrown
         [] IsContainer(existing) /\ ~joins /\ ~o.strict /\ o.hpp # "last" -> obj
         [] o.hpp = "last" /\ ~(IsContainer(existing) /\ o.strict) -> Put(obj, key, leaf)
         [] joins -> Put(obj, key, Push(existing, leaf))
         [] o.hpp = "array" /\ Is(existing, "str") -> Put(obj, key, [arr |-> 0 :> existing @@ 1 :> leaf])
         [] OTHER -> obj

(* What is under a name, made a container for the next one. *)
Entered(o, obj, name, next) ==
  CASE name \notin DOMAIN obj.rec -> Container(o, next)
    [] name \in DOMAIN obj.rec /\ IsContainer(obj.rec[name]) -> obj.rec[name]
    [] OTHER -> IF o.strict THEN Thrown ELSE Container(o, next)

TooDeep(o, depth) == depth >= o.depth

PutUnder(c, key, made) == IF IsThrown(made) THEN Thrown ELSE Put(c, key, made)

RECURSIVE Descend(_, _, _, _, _)

(* The loop over the names in brackets: what becomes of a container.  It    *)
(* ends early, with what it has made so far, beyond a limit.                *)
Descend(o, current, names, depth, value) ==
  LET prop == Head(names)
      isLast == Len(names) = 1
      next == IF isLast THEN << >> ELSE names[2]
      mixed == Is(current, "arr") /\ prop # << >> /\ ~IsIndex(prop)
      c == IF mixed THEN ToObject(current) ELSE current
      under(key, child) == PutUnder(c, key, Descend(o, child, Tail(names), depth + 1, value))
  IN CASE TooDeep(o, depth) -> current
       [] ~TooDeep(o, depth) /\ mixed /\ o.strict -> Thrown
       [] OTHER ->
          IF Is(c, "arr")
          THEN LET i == IF prop = << >> THEN Length(c) ELSE IndexOf[prop[1]] IN
               CASE prop # << >> /\ i > o.arrayLimit -> c
                 [] (prop = << >> \/ i <= o.arrayLimit) /\ isLast -> Put(c, i, [str |-> value])
                 [] OTHER -> under(i, IF i \in DOMAIN c.arr /\ IsContainer(c.arr[i]) THEN c.arr[i] ELSE Container(o, next))
          ELSE IF isLast THEN AssignLeaf(o, c, prop, value)
          ELSE LET child == Entered(o, c, prop, next) IN
               CASE IsThrown(child) -> Thrown
                 [] ~IsThrown(child) /\ IsReserved(prop) -> Put(c, prop, child)
                 [] OTHER -> under(prop, child)

-----------------------------------------------------------------------------
(* The brackets of a key *)

Brace(key) == SelectInSeq(key, LAMBDA t : t = "[")

(* strict: is every bracket closed, and none within another? *)
Balanced(key) ==
  LET open(i) == Cardinality({j \in 1 .. i : key[j] = "["}) - Cardinality({j \in 1 .. i : key[j] = "]"})
  IN \A i \in DOMAIN key : open(i) \in {0, 1} /\ (i = Len(key) => open(i) = 0)

(* The names in brackets; text between brackets is skipped, and a bracket   *)
(* within brackets starts the name anew.  open is 0 outside of brackets.    *)
Brackets(key) ==
  FoldLeft(LAMBDA s, i :
             CASE key[i] = "[" -> [s EXCEPT !.open = i]
               [] key[i] = "]" /\ s.open # 0 -> [open |-> 0, names |-> Append(s.names, SubSeq(key, s.open + 1, i - 1))]
               [] OTHER -> s,
           [open |-> 0, names |-> << >>], [i \in DOMAIN key |-> i])

(* parseComplexKey() *)
ParseComplexKey(o, root, key, value) ==
  LET rootKey == SubSeq(key, 1, Brace(key) - 1)
      part == Brackets(key)
      child == Entered(o, root, rootKey, part.names[1])
  IN CASE rootKey = << >> \/ IsReserved(rootKey) -> root
       [] rootKey # << >> /\ ~IsReserved(rootKey) /\ o.strict /\ ~Balanced(SubSeq(key, Brace(key), Len(key))) -> Thrown
       [] rootKey # << >> /\ ~IsReserved(rootKey) /\ ~o.strict /\ part.open # 0 -> AssignLeaf(o, root, key, value)
       [] OTHER -> IF IsThrown(child) THEN Thrown
                   ELSE PutUnder(root, rootKey, Descend(o, child, part.names, 0, value))

ProcessPair(o, res, key, value) ==
  CASE IsThrown(res) \/ key = << >> -> res
    [] ~IsThrown(res) /\ key # << >> /\ o.parseArrays /\ Brace(key) # 0 -> ParseComplexKey(o, res, key, value)
    [] OTHER -> IF o.strict /\ ~Balanced(key) THEN Thrown ELSE AssignLeaf(o, res, key, value)

-----------------------------------------------------------------------------
(* The scan.  Positions are those of the tokens; key and value are those    *)
(* from keyStart and valStart up to keyEnd and the end; 0 is "not yet".     *)

Slice(qs, from, end) == SubSeq(qs, from, end - 1)

Pair(o, qs, s, end) ==
  LET keyEnd == IF s.keyEnd = 0 THEN end ELSE s.keyEnd
      valStart == IF s.keyEnd = 0 THEN end ELSE s.valStart
  IN [s EXCEPT !.res = ProcessPair(o, @, Slice(qs, s.keyStart, keyEnd), Slice(qs, valStart, end)),
               !.keyEnd = keyEnd, !.valStart = valStart]

FaultyReset(s, i) == [s EXCEPT !.keyStart = i + 1]

Reset(s, i) == [s EXCEPT !.keyStart = i + 1, !.keyEnd = 0, !.valStart = 0]

(* At the limit the loop ends before the start of the key is moved on. *)
Counted(o, s, i) == IF s.count >= o.parameterLimit THEN [s EXCEPT !.over = TRUE] ELSE Reset(s, i)

ScanToken(o, qs, s, i) ==
  CASE s.over -> s
    [] ~s.over /\ qs[i] = "=" /\ s.keyEnd = 0 -> [s EXCEPT !.keyEnd = i, !.valStart = i + 1]
    [] ~s.over /\ qs[i] = "&" -> Counted(o, [Pair(o, qs, s, i) EXCEPT !.count = @ + 1], i)
    [] OTHER -> s

Parse(o, qs) ==
  LET start == IF qs # << >> /\ qs[1] = "?" THEN 2 ELSE 1
      init == [res |-> EmptyRecord, keyStart |-> start, keyEnd |-> 0, valStart |-> 0, count |-> 0, over |-> FALSE]
      s == FoldLeft(LAMBDA t, i : ScanToken(o, qs, t, i), init, [k \in 1 .. Len(qs) - start + 1 |-> k + start - 1])
  IN IF s.keyStart <= Len(qs) THEN Pair(o, qs, s, Len(qs) + 1).res ELSE s.res

-----------------------------------------------------------------------------
(* Properties *)

(* The parameters of a query: the parts between the ampersands. *)
RECURSIVE Parts(_)
Parts(qs) ==
  LET at == SelectInSeq(qs, LAMBDA t : t = "&")
  IN IF at = 0 THEN <<qs>> ELSE <<SubSeq(qs, 1, at - 1)>> \o Parts(SubSeq(qs, at + 1, Len(qs)))

KeyOf(part) ==
  LET at == SelectInSeq(part, LAMBDA t : t = "=") IN IF at = 0 THEN part ELSE SubSeq(part, 1, at - 1)

ValueOf(part) == SubSeq(part, Len(KeyOf(part)) + 2, Len(part))

(* Flat queries within the limit: a key has the first, the last or all of   *)
(* the values it is given, and no key is lost or made up, with or without ?. *)
FlatIsRead(o, qs) ==
  LET parts == SelectSeq(Parts(qs), LAMBDA p : KeyOf(p) # << >> /\ ~IsReserved(KeyOf(p)))
      values(k) == LET mine == SelectSeq(parts, LAMBDA p : KeyOf(p) = k) IN [i \in DOMAIN mine |-> [str |-> ValueOf(mine[i])]]
  IN ~o.parseArrays /\ ~o.strict /\ Len(Parts(qs)) <= o.parameterLimit =>
       \A lead \in {<< >>, <<"?">>} : Parse(o, lead \o qs) =
         [rec |-> [k \in {KeyOf(parts[i]) : i \in DOMAIN parts} |->
            LET vs == values(k) IN
            CASE o.hpp = "first" \/ Len(vs) = 1 -> vs[1]
              [] o.hpp = "last" /\ Len(vs) > 1 -> Last(vs)
              [] OTHER -> [arr |-> [i \in 0 .. Len(vs) - 1 |-> vs[i + 1]]]]]

(* A tree of names and values as a query: each leaf is a parameter whose    *)
(* key has the way to it in brackets.                                       *)
RECURSIVE Leaves(_)
Leaves(tree) ==
  IF Is(tree, "str") THEN <<[way |-> << >>, value |-> tree.str]>>
  ELSE LET names == SetToSeq(IF Is(tree, "rec") THEN DOMAIN tree.rec ELSE DOMAIN tree.arr)
           nameOf(n) == IF Is(tree, "rec") THEN n ELSE <<CHOOSE t \in DOMAIN IndexOf : IndexOf[t] = n>>
           child(n) == IF Is(tree, "rec") THEN tree.rec[n] ELSE tree.arr[n]
       IN FlattenSeq([i \in DOMAIN names |->
            LET ls == Leaves(child(names[i]))
            IN [j \in DOMAIN ls |-> [ls[j] EXCEPT !.way = <<nameOf(names[i])>> \o @]]])

AsQuery(tree) ==
  LET ls == Leaves(tree)
      one(l) == l.way[1] \o FlattenSeq([i \in 1 .. Len(l.way) - 1 |-> <<"[">> \o l.way[i + 1] \o <<"]">>])
                  \o <<"=">> \o l.value
  IN FlattenSeq([i \in DOMAIN ls |-> IF i = 1 THEN one(ls[i]) ELSE <<"&">> \o one(ls[i])])

ReadBack(o, tree, parsed) ==
  LET deep == {Len(Leaves(tree)[i].way) - 1 : i \in DOMAIN Leaves(tree)} IN
  /\ (\A d \in deep : d <= o.depth) => parsed = tree
  /\ (\A d \in deep : d > o.depth) /\ ~IsThrown(parsed) => Leaves(parsed) = << >>

(* A nested value written as a query is read back as it was: objects and    *)
(* arrays, whatever the mode, as long as it is within the depth.  One level *)
(* deeper nothing of the leaf is left.                                      *)
NestedIsRead(o, tree) == ReadBack(o, tree, Parse(o, AsQuery(tree)))
=============================================================================
