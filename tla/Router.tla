-------------------------------- MODULE Router --------------------------------
(***************************************************************************)
(* The router of the HTTP adapter (packages/http-adapter/src/router), as   *)
(* RouteHandler sets it up: trailing slashes ignored, slashes collapsed,   *)
(* dot segments resolved, with a cache.  All routes are added before the   *)
(* server listens, and a route that is refused ends the start.             *)
(*                                                                         *)
(* A node of the tree is named by the way to it, a sequence of parts: a    *)
(* node has one static child for a segment, one parameter for a name, and  *)
(* one wildcard.  The code never makes a node of several static parts.     *)
(***************************************************************************)
EXTENDS Naturals, Sequences, SequencesExt

CONSTANTS
  Method,
  Name,           \* the segments of static parts and the names of parameters
  Pattern,        \* the regular expressions of parameters
  None,           \* no pattern, no node, no answer, a parameter without a value
  NameRank,       \* NameRank[n]: where localeCompare() puts a name
  PatternLength,  \* PatternLength[p]: the length of its source
  Accepts,        \* Accepts[p]: the segments it accepts
  Route,          \* the routes that may be added
  Request,        \* the paths that may be asked for, split at the slashes
  MaxRoutes,      \* bound: how many routes are added
  CacheSize

Wild == {"star", "multi", "zero"}
Kind == {"static", "param"} \cup Wild

(* As handleParam() parses them; in a normalized path no segment is empty   *)
(* or of dots.                                                              *)
Part ==
  {p \in [kind : Kind, name : Name, pattern : Pattern \cup {None}, optional : BOOLEAN] :
     /\ p.pattern # None => p.kind = "param"
     /\ p.optional => p.kind \in {"param", "multi"}
     /\ p.kind = "static" => p.name \notin {"", ".", ".."}}

ASSUME RouterAssumption ==
  /\ Route \subseteq [method : Method, path : Seq(Part)]
  /\ Name \subseteq STRING /\ Request \subseteq Seq(STRING)
  /\ NameRank \in [Name -> Nat]
  /\ \A a, b \in Name : NameRank[a] = NameRank[b] => a = b
  /\ PatternLength \in [Pattern -> Nat]
  /\ None \notin Pattern \cup Seq(Part) \cup Seq(STRING)
  /\ MaxRoutes \in Nat
  /\ CacheSize \in Nat \ {0}

VARIABLES
  routes,     \* what was added, which is what Builder.handlers is indexed by
  tree,       \* tree[node][method]: the index of the handler, or 0
  staticMap,  \* <<path, method, index>>
  defaults,   \* defaults[index]: the parameters recorded as omitted
  refused,    \* did a route throw?
  serving,    \* the server listens
  cache,      \* the entries, the one used last at the end
  answer      \* the last answer, None before the first

vars == <<routes, tree, staticMap, defaults, refused, serving, cache, answer>>

NoHandler == [m \in Method |-> 0]

Miss == [handler |-> 0, params |-> {}]

TypeOK ==
  /\ Len(routes) <= MaxRoutes /\ Range(routes) \subseteq Route
  /\ << >> \in DOMAIN tree
  /\ \A n \in DOMAIN tree :
       /\ n \in Seq({p \in Part : ~p.optional})
       /\ tree[n] \in [Method -> 0 .. Len(routes)]
       /\ n # << >> => Front(n) \in DOMAIN tree
  /\ staticMap \subseteq Seq(Name \cup {""}) \X Method \X DOMAIN routes
  /\ defaults \in [DOMAIN routes -> SUBSET Name]
  /\ refused \in BOOLEAN /\ serving \in BOOLEAN
  /\ Len(cache) <= CacheSize
  /\ \A i, j \in DOMAIN cache : cache[i].key = cache[j].key => i = j
  /\ answer # None => answer.request \in Request /\ answer.handler \in 0 .. Len(routes)

Init ==
  /\ routes = << >>
  /\ tree = [n \in {<< >>} |-> NoHandler]
  /\ staticMap = {}
  /\ defaults = << >>
  /\ refused = FALSE /\ serving = FALSE
  /\ cache = << >>
  /\ answer = None

-----------------------------------------------------------------------------
(* Definitions named Faulty... are not part of the model: each is a slip     *)
(* that a property would catch in the definition after it.                  *)

(* Builder.add().  An optional parameter is left out first, then taken; the  *)
(* variants are put together from the last part back.                       *)
Skip(v, p) == [v EXCEPT !.omitted = @ \cup {p.name}]

Take(v, p) == [v EXCEPT !.parts = <<[p EXCEPT !.optional = FALSE]>> \o @]

WithPart(p, rest) ==
  (IF p.optional THEN [i \in DOMAIN rest |-> Skip(rest[i], p)] ELSE << >>)
    \o [i \in DOMAIN rest |-> Take(rest[i], p)]

Variants(path) ==
  FoldLeft(LAMBDA rest, p : WithPart(p, rest), << [parts |-> << >>, omitted |-> {}] >>, Reverse(path))

Children(t, n) == {Last(c) : c \in {c \in DOMAIN t : c # << >> /\ Front(c) = n}}

(* A parameter with a pattern is never found again: the source of the       *)
(* compiled expression is not the source that it is compared with.          *)
Known(t, n, p) == p.pattern = None /\ Append(n, p) \in DOMAIN t

(* The conflicts with what is at a node already. *)
Blocked(t, n, p) ==
  LET siblings == Children(t, n)
      wildcard == {q \in siblings : q.kind \in Wild}
  IN CASE p.kind = "static" -> ~Known(t, n, p) /\ wildcard # {}
       [] p.kind = "param"  -> /\ ~Known(t, n, p)
                               /\ \/ wildcard # {}
                                  \/ \E q \in siblings : q.kind = "param" /\ q.name = p.name
       [] p.kind = "star"   -> siblings \ {p} # {}
       [] OTHER             -> wildcard \ {p} # {}

Rejects(t, parts, m) ==
  \/ \E k \in DOMAIN parts :
       \/ parts[k].kind \in Wild /\ k # Len(parts)
       \/ Blocked(t, SubSeq(parts, 1, k - 1), parts[k])
  \/ \E j, k \in DOMAIN parts :
       j # k /\ parts[j].kind # "static" /\ parts[k].kind # "static" /\ parts[j].name = parts[k].name
  \/ parts \in DOMAIN t /\ t[parts][m] # 0

Insert(t, parts, m, index) ==
  [n \in DOMAIN t \cup Prefixes(parts) |->
     LET row == IF n \in DOMAIN t THEN t[n] ELSE NoHandler
     IN IF n = parts THEN [row EXCEPT ![m] = index] ELSE row]

(* OptionalParamDefaults.record(): a later variant replaces an earlier one. *)
Record(omitted, v) == IF v.omitted = {} THEN omitted ELSE v.omitted

AddVariant(b, v, m, index) ==
  IF b.refused \/ Rejects(b.tree, v.parts, m) THEN [b EXCEPT !.refused = TRUE]
  ELSE [b EXCEPT !.tree = Insert(@, v.parts, m, index), !.omitted = Record(@, v)]

Built(route, index) ==
  FoldLeft(LAMBDA b, v : AddVariant(b, v, route.method, index),
           [tree |-> tree, refused |-> FALSE, omitted |-> {}], Variants(route.path))

IsDynamic(path) == \E k \in DOMAIN path : path[k].kind # "static"

(* The normalized path of these segments: "/" is one empty segment. *)
PathOf(segments) == IF segments = << >> THEN <<"">> ELSE segments

Add(route) ==
  /\ ~serving /\ ~refused
  /\ Len(routes) < MaxRoutes
  /\ LET index == Len(routes) + 1
         built == Built(route, index)
         names == [k \in DOMAIN route.path |-> route.path[k].name]
     IN /\ routes' = Append(routes, route)
        /\ tree' = built.tree /\ refused' = built.refused
        /\ defaults' = Append(defaults, built.omitted)
        /\ staticMap' =
             IF IsDynamic(route.path) THEN staticMap
             ELSE {s \in staticMap : <<s[1], s[2]>> # <<PathOf(names), route.method>>}
                    \cup {<<PathOf(names), route.method, index>>}
  /\ UNCHANGED <<serving, cache, answer>>

Serve ==
  /\ ~serving /\ ~refused
  /\ serving' = TRUE
  /\ UNCHANGED <<routes, tree, staticMap, defaults, refused, cache, answer>>

-----------------------------------------------------------------------------
(* Router.match() *)

SearchPath(request) ==
  IF Len(request) > 1 /\ Last(request) = "" THEN Front(request) ELSE request

(* Processor.normalize() *)
ResolveDot(stack, s) ==
  CASE s = "." -> stack
    [] s = ".." -> IF stack = << >> THEN stack ELSE Front(stack)
    [] OTHER -> Append(stack, s)

ResolveDots(segments) == FoldLeft(LAMBDA stack, s : ResolveDot(stack, s), << >>, segments)

CollapseSlash(kept, s) == IF s = "" THEN kept ELSE Append(kept, s)

Normalized(path) == FoldLeft(LAMBDA kept, s : CollapseSlash(kept, s), << >>, ResolveDots(path))

StaticAt(path, m) == {s[3] : s \in {r \in staticMap : r[1] = path /\ r[2] = m}}

(* sortParamChildren() *)
SortsBefore(p, q) ==
  LET length(r) == IF r.pattern = None THEN 0 ELSE PatternLength[r.pattern] IN
  \/ p.pattern # None /\ q.pattern = None
  \/ (p.pattern = None <=> q.pattern = None) /\ length(p) > length(q)
  \/ (p.pattern = None <=> q.pattern = None) /\ length(p) = length(q) /\ NameRank[p.name] < NameRank[q.name]

(* Static children are tried before parameters, wildcards last. *)
Before(p, q) ==
  \/ p.kind = "static" /\ q.kind # "static"
  \/ p.kind = "param" /\ q.kind \in Wild
  \/ p.kind = "param" /\ q.kind = "param" /\ SortsBefore(p, q)

Fits(p, segment) ==
  IF p.kind = "static" THEN segment = p.name ELSE p.pattern # None => segment \in Accepts[p.pattern]

(* Matcher.walk(), from a node that the first Len(n) segments have led to:  *)
(* its handler when no segment is left, or what the first child that leads  *)
(* anywhere leads to, or its wildcard.  found: what each child leads to.    *)
Hits(t, segments, n, found) ==
  {p \in Children(t, n) :
     /\ Len(n) < Len(segments) /\ p.kind \notin Wild
     /\ Fits(p, segments[Len(n) + 1])
     /\ found[Append(n, p)] # None}

Tails(t, m, segments, n) ==
  {p \in Children(t, n) :
     /\ p.kind \in Wild
     /\ t[Append(n, p)][m] # 0
     /\ p.kind = "multi" => Len(n) < Len(segments)}

FirstOf(hits) == CHOOSE p \in hits : \A q \in hits \ {p} : Before(p, q)

Visit(t, m, segments, n, found) ==
  LET hits  == Hits(t, segments, n, found)
      tails == Tails(t, m, segments, n)
      ends  == Len(n) >= Len(segments) /\ t[n][m] # 0
  IN CASE ends -> n
       [] ~ends /\ hits # {} -> found[Append(n, FirstOf(hits))]
       [] ~ends /\ hits = {} /\ tails # {} -> Append(n, CHOOSE p \in tails : TRUE)
       [] OTHER -> None

Walk(t, m, segments) ==
  LET Found[n \in DOMAIN t] == Visit(t, m, segments, n, Found) IN Found[<< >>]

(* The segment of a parameter, and all that is left for a wildcard. *)
Captured(parts, segments) ==
  {<<parts[k].name,
     IF parts[k].kind \in Wild THEN SubSeq(segments, k, Len(segments)) ELSE <<segments[k]>> >> :
     k \in {k \in DOMAIN parts : parts[k].kind # "static"}}

(* OptionalParamDefaults.apply() *)
WithDefaults(params, index) ==
  params \cup ((defaults[index] \ {x[1] : x \in params}) \X {None})

Outcome(m, path) ==
  LET segments == Normalized(path)
      leaf == Walk(tree, m, segments)
  IN IF leaf = None THEN Miss
     ELSE [handler |-> tree[leaf][m], params |-> WithDefaults(Captured(leaf, segments), tree[leaf][m])]

Answer(request, m, result) ==
  answer' = [request |-> request, method |-> m, handler |-> result.handler, params |-> result.params]

FaultyCacheKey(m, path) == <<path>>

CacheKey(m, path) == <<m, path>>

FaultyEntry(m, path, result) ==
  [key |-> CacheKey(m, path), value |-> [result EXCEPT !.params = {x \in @ : x[2] # None}]]

Entry(m, path, result) == [key |-> CacheKey(m, path), value |-> result]

CachedAt(m, path) == {i \in DOMAIN cache : cache[i].key = CacheKey(m, path)}

MatchStatic(m, request) ==
  \E index \in StaticAt(SearchPath(request), m) :
    /\ Answer(request, m, [handler |-> index, params |-> {}])
    /\ UNCHANGED cache

(* RouterCache.get() moves the entry to the end. *)
MatchCached(m, request) ==
  LET path == SearchPath(request) IN
  /\ StaticAt(path, m) = {}
  /\ \E i \in CachedAt(m, path) :
       /\ cache' = Append(RemoveAt(cache, i), cache[i])
       /\ Answer(request, m, cache[i].value)

(* RouterCache.set() *)
RoomIn(c) == IF Len(c) >= CacheSize THEN Tail(c) ELSE c

MatchDynamic(m, request) ==
  LET path == SearchPath(request)
      static == StaticAt(PathOf(Normalized(path)), m)
      result == Outcome(m, path)
  IN /\ StaticAt(path, m) = {} /\ CachedAt(m, path) = {}
     /\ IF static # {}
        THEN /\ \E index \in static : Answer(request, m, [handler |-> index, params |-> {}])
             /\ UNCHANGED cache
        ELSE /\ Answer(request, m, result)
             /\ cache' = Append(RoomIn(cache), Entry(m, path, result))

Match(m, request) ==
  /\ serving
  /\ MatchStatic(m, request) \/ MatchCached(m, request) \/ MatchDynamic(m, request)
  /\ UNCHANGED <<routes, tree, staticMap, defaults, refused, serving>>

Next ==
  \/ \E route \in Route : Add(route)
  \/ Serve
  \/ \E m \in Method, request \in Request : Match(m, request)

Spec == Init /\ [][Next]_vars

-----------------------------------------------------------------------------
(* Properties *)

(* Which of the routes should answer, without tree, order of registration   *)
(* or backtracking: of all variants of all routes that fit the whole path,  *)
(* the first where the first part that differs decides.                     *)
FitsWhole(parts, segments) ==
  LET wild == parts # << >> /\ Last(parts).kind \in Wild
      plain == IF wild THEN Len(parts) - 1 ELSE Len(parts)
  IN /\ IF wild THEN Len(segments) >= plain ELSE Len(segments) = plain
     /\ wild /\ Last(parts).kind = "multi" => Len(segments) > plain
     /\ \A k \in 1 .. plain : Fits(parts[k], segments[k])

Candidates(m, segments) ==
  UNION {{[index |-> i, parts |-> v.parts] :
            v \in {v \in Range(Variants(routes[i].path)) : FitsWhole(v.parts, segments)}} :
          i \in {i \in DOMAIN routes : routes[i].method = m}}

Wins(parts, others) ==
  \/ IsPrefix(parts, others)
  \/ \E k \in DOMAIN parts \cap DOMAIN others :
       (\A j \in 1 .. k - 1 : parts[j] = others[j]) /\ Before(parts[k], others[k])

(* Wherever an answer comes from, the static map, the cache or the tree, it *)
(* is that of the best route, with the values that the path has for its     *)
(* parameters.                                                              *)
AnswerIsBest ==
  answer # None =>
    LET segments == Normalized(SearchPath(answer.request))
        all == Candidates(answer.method, segments)
        best == CHOOSE b \in all : \A c \in all \ {b} : Wins(b.parts, c.parts)
    IN IF all = {} THEN answer.handler = 0
       ELSE /\ answer.handler = best.index
            /\ {x \in answer.params : x[2] # None} = Captured(best.parts, segments)

(* The cache changes nothing: a path that the static map does not know is   *)
(* answered with what the tree has for it.                                  *)
CacheTransparent ==
  answer # None =>
    LET path == SearchPath(answer.request)
        result == Outcome(answer.method, path)
    IN StaticAt(path, answer.method) = {} /\ StaticAt(PathOf(Normalized(path)), answer.method) = {} =>
         answer.handler = result.handler /\ answer.params = result.params
=============================================================================
