----------------------------- MODULE Router_proofs -----------------------------
(***************************************************************************)
(* Theorems about Router for every set of routes and of requests, and      *)
(* every size of the cache: the cache changes no answer, and every answer  *)
(* is that of the best route.                                              *)
(***************************************************************************)
EXTENDS Router, SequenceTheorems, FiniteSetTheorems, WellFoundedInduction, TLAPS

-----------------------------------------------------------------------------
(* What RouterCache does to its entries. *)
LEMMA RoomLemma ==
  ASSUME NEW S, NEW c \in Seq(S), Len(c) <= CacheSize
  PROVE  RoomIn(c) \in Seq(S) /\ Len(RoomIn(c)) < CacheSize
<1>1. CacheSize \in Nat /\ CacheSize > 0 /\ Len(c) \in Nat
  BY RouterAssumption
<1>2. CASE Len(c) >= CacheSize
  <2>1. Len(c) = CacheSize /\ c # << >>
    BY <1>1, <1>2
  <2>2. Tail(c) \in Seq(S) /\ Len(Tail(c)) = Len(c) - 1
    BY <2>1
  <2>3. QED
    BY <1>1, <1>2, <2>1, <2>2 DEF RoomIn
<1>3. CASE ~(Len(c) >= CacheSize)
  BY <1>1, <1>3 DEF RoomIn
<1>4. QED
  BY <1>2, <1>3

LEMMA ConcatLemma ==
  ASSUME NEW S, NEW c \in Seq(S), NEW d \in Seq(S)
  PROVE  c \o d \in Seq(S) /\ Len(c \o d) = Len(c) + Len(d)
OBVIOUS

LEMMA RemoveLemma ==
  ASSUME NEW S, NEW c \in Seq(S), NEW i \in 1 .. Len(c)
  PROVE  RemoveAt(c, i) \in Seq(S) /\ Len(RemoveAt(c, i)) = Len(c) - 1
<1>1. i \in Nat /\ Len(c) \in Nat /\ i >= 1 /\ i <= Len(c)
  OBVIOUS
<1>2. SubSeq(c, 1, i - 1) \in Seq(S) /\ Len(SubSeq(c, 1, i - 1)) = i - 1
  OBVIOUS
<1>3. SubSeq(c, i + 1, Len(c)) \in Seq(S) /\ Len(SubSeq(c, i + 1, Len(c))) = Len(c) - i
  OBVIOUS
<1>4. RemoveAt(c, i) = SubSeq(c, 1, i - 1) \o SubSeq(c, i + 1, Len(c))
  BY DEF RemoveAt
<1> HIDE DEF RemoveAt
<1>5. RemoveAt(c, i) \in Seq(S) /\ Len(RemoveAt(c, i)) = (i - 1) + (Len(c) - i)
  BY <1>2, <1>3, <1>4, ConcatLemma
<1>6. QED
  BY <1>1, <1>5

-----------------------------------------------------------------------------
(* The entries that the tree would make. *)
Entries ==
  {Entry(m, SearchPath(request), Outcome(m, SearchPath(request))) : m \in Method, request \in Request}

CacheInv ==
  /\ cache \in Seq(Entries) /\ Len(cache) <= CacheSize
  /\ ~serving => cache = << >> /\ answer = None

AnswerInv ==
  answer # None =>
    /\ answer.method \in Method /\ answer.request \in Request
    /\ CacheTransparent

RouterInv == CacheInv /\ AnswerInv

LEMMA SameTree ==
  ASSUME UNCHANGED <<tree, defaults>>
  PROVE  /\ \A m, path : Outcome(m, path)' = Outcome(m, path)
         /\ Entries' = Entries
<1>1. ASSUME NEW m, NEW path PROVE Outcome(m, path)' = Outcome(m, path)
  BY DEF Outcome, WithDefaults
<1>2. Entries' = Entries
  BY <1>1 DEF Entries, Entry
<1>3. QED
  BY <1>1, <1>2

LEMMA EntryFound ==
  ASSUME cache \in Seq(Entries), NEW m \in Method, NEW request \in Request,
         NEW i \in CachedAt(m, SearchPath(request))
  PROVE  /\ i \in 1 .. Len(cache) /\ cache[i] \in Entries
         /\ cache[i].value = Outcome(m, SearchPath(request))
<1>1. i \in 1 .. Len(cache) /\ cache[i] \in Entries
  BY DEF CachedAt
<1>2. cache[i].key = <<m, SearchPath(request)>>
  BY DEF CachedAt, CacheKey
<1>3. PICK n \in Method, r \in Request : cache[i] = Entry(n, SearchPath(r), Outcome(n, SearchPath(r)))
  BY <1>1 DEF Entries
<1>4. <<n, SearchPath(r)>> = <<m, SearchPath(request)>>
  BY <1>2, <1>3 DEF Entry, CacheKey
<1>5. n = m /\ SearchPath(r) = SearchPath(request)
  BY <1>4
<1>6. QED
  BY <1>1, <1>3, <1>5 DEF Entry

-----------------------------------------------------------------------------
LEMMA InitInv == Init => RouterInv
BY RouterAssumption DEF Init, RouterInv, CacheInv, AnswerInv

(* Before the server listens there is nothing that a new route could change. *)
LEMMA BuildInv ==
  ASSUME RouterInv, Serve \/ \E route \in Route : Add(route)
  PROVE  RouterInv'
<1>1. cache = << >> /\ answer = None /\ UNCHANGED <<cache, answer>>
  BY DEF RouterInv, CacheInv, Serve, Add
<1>2. cache' \in Seq(Entries') /\ Len(cache') <= CacheSize
  BY <1>1, RouterAssumption
<1>3. CacheInv'
  BY <1>1, <1>2 DEF CacheInv
<1>4. AnswerInv'
  BY <1>1 DEF AnswerInv
<1>5. QED
  BY <1>3, <1>4 DEF RouterInv

LEMMA MatchInv ==
  ASSUME RouterInv, NEW m \in Method, NEW request \in Request, Match(m, request)
  PROVE  RouterInv'
<1> DEFINE path == SearchPath(request)
           result == Outcome(m, path)
<1>1. cache \in Seq(Entries) /\ Len(cache) <= CacheSize /\ serving
  BY DEF RouterInv, CacheInv, Match
<1>2. serving' /\ UNCHANGED <<tree, defaults, staticMap>>
  BY DEF Match
<1>3. Entries' = Entries /\ Outcome(m, path)' = result
  BY <1>2, SameTree
<1>4. cache' \in Seq(Entries) /\ Len(cache') <= CacheSize
  <2>1. CASE UNCHANGED cache
    BY <1>1, <2>1
  <2>2. CASE MatchCached(m, request)
    <3>1. PICK i \in CachedAt(m, path) : cache' = Append(RemoveAt(cache, i), cache[i])
      BY <2>2 DEF MatchCached
    <3>2. i \in 1 .. Len(cache) /\ cache[i] \in Entries
      BY <1>1, EntryFound
    <3>3. RemoveAt(cache, i) \in Seq(Entries) /\ Len(RemoveAt(cache, i)) = Len(cache) - 1
      BY <1>1, <3>2, RemoveLemma
    <3>4. QED
      BY <1>1, <3>1, <3>2, <3>3
  <2>3. CASE cache' = Append(RoomIn(cache), Entry(m, path, result))
    <3>1. RoomIn(cache) \in Seq(Entries) /\ Len(RoomIn(cache)) < CacheSize
      BY <1>1, RoomLemma
    <3>2. Entry(m, path, result) \in Entries
      BY DEF Entries
    <3>3. QED
      BY <2>3, <3>1, <3>2, RouterAssumption
  <2>4. QED
    BY <2>1, <2>2, <2>3 DEF Match, MatchStatic, MatchDynamic
<1>5. CacheInv'
  BY <1>2, <1>3, <1>4 DEF CacheInv
<1>6. /\ answer'.method = m /\ answer'.request = request
      /\ \/ StaticAt(path, m) # {}
         \/ StaticAt(PathOf(Normalized(path)), m) # {}
         \/ answer'.handler = result.handler /\ answer'.params = result.params
  <2>1. CASE MatchStatic(m, request)
    BY <2>1 DEF MatchStatic, Answer
  <2>2. CASE MatchCached(m, request)
    <3>1. PICK i \in CachedAt(m, path) : Answer(request, m, cache[i].value)
      BY <2>2 DEF MatchCached
    <3>2. cache[i].value = result
      BY <1>1, EntryFound
    <3>3. QED
      BY <3>1, <3>2 DEF Answer
  <2>3. CASE MatchDynamic(m, request)
    BY <2>3 DEF MatchDynamic, Answer
  <2>4. QED
    BY <2>1, <2>2, <2>3 DEF Match
<1>7. AnswerInv'
  <2>1. /\ StaticAt(path, m)' = StaticAt(path, m)
        /\ StaticAt(PathOf(Normalized(path)), m)' = StaticAt(PathOf(Normalized(path)), m)
    BY <1>2 DEF StaticAt
  <2>2. CacheTransparent'
    BY <1>3, <1>6, <2>1 DEF CacheTransparent
  <2>3. QED
    BY <1>6, <2>2 DEF AnswerInv
<1>8. QED
  BY <1>5, <1>7 DEF RouterInv

LEMMA RouterInductive == RouterInv /\ [Next]_vars => RouterInv'
<1> SUFFICES ASSUME RouterInv, [Next]_vars PROVE RouterInv'
  OBVIOUS
<1>1. CASE Serve \/ \E route \in Route : Add(route)
  BY <1>1, BuildInv
<1>2. ASSUME NEW m \in Method, NEW request \in Request, Match(m, request) PROVE RouterInv'
  BY <1>2, MatchInv
<1>3. CASE UNCHANGED vars
  <2>1. UNCHANGED <<tree, defaults, staticMap, serving, cache, answer>>
    BY <1>3 DEF vars
  <2>2. /\ Entries' = Entries
        /\ \A m, path : Outcome(m, path)' = Outcome(m, path) /\ StaticAt(path, m)' = StaticAt(path, m)
    BY <2>1, SameTree DEF StaticAt
  <2>3. CacheInv'
    BY <2>1, <2>2 DEF RouterInv, CacheInv
  <2>4. answer # None => CacheTransparent'
    BY <2>1, <2>2 DEF RouterInv, AnswerInv, CacheTransparent
  <2>5. QED
    BY <2>1, <2>3, <2>4 DEF RouterInv, AnswerInv
<1>4. QED
  BY <1>1, <1>2, <1>3 DEF Next

(* The cache of the router never gives another answer than its tree would   *)
(* (Router.match and RouterCache), with any number of routes, of methods    *)
(* and of entries, in any order of requests.                                *)
THEOREM CacheCorrect == Spec => []CacheTransparent
<1>1. RouterInv => CacheTransparent
  BY DEF RouterInv, AnswerInv, CacheTransparent
<1>2. QED
  BY InitInv, RouterInductive, <1>1, PTL DEF Spec
(* Induction, and the sequence of values that a fold goes through. *)
LEMMA SetInduction ==
  ASSUME NEW S, 0 \in S, \A n \in Nat : n \in S => n + 1 \in S
  PROVE  Nat \subseteq S
<1> DEFINE left == Nat \ S
<1>1. SUFFICES ASSUME left # {} PROVE FALSE
  OBVIOUS
<1>2. PICK n \in left : \A m \in left : ~(<<m, n>> \in OpToRel(<, Nat))
  BY <1>1, NatLessThanWellFounded, WFMin
<1>3. n \in Nat /\ n # 0
  OBVIOUS
<1>4. n - 1 \in Nat /\ n - 1 < n
  BY <1>3
<1>5. n - 1 \notin left
  BY <1>2, <1>3, <1>4 DEF OpToRel
<1>6. QED
  BY <1>3, <1>4, <1>5

(* The steps of the folds of Router. *)
Step(kind, d, s, x) ==
  CASE kind = "parts" -> WithPart(x, s)
    [] kind = "variants" -> AddVariant(s, x, d.method, d.index)
    [] kind = "dots" -> ResolveDot(s, x)
    [] kind = "slashes" -> CollapseSlash(s, x)

IsFold(it, kind, d, base, seq, n) ==
  it = [u \in SUBSET (1 .. n) |->
          IF u = {} THEN base ELSE Step(kind, d, it[u \ {Max(u)}], seq[Max(u)])]

LEMMA FoldExists ==
  ASSUME NEW kind, NEW d, NEW base, NEW seq, NEW n \in Nat
  PROVE  \E it : IsFold(it, kind, d, base, seq, n)
<1> DEFINE good == {k \in Nat : \E it : IsFold(it, kind, d, base, seq, k)}
<1>1. 0 \in good
  <2> DEFINE it == [u \in SUBSET (1 .. 0) |-> base]
  <2>1. 1 .. 0 = {}
    OBVIOUS
  <2>2. \A u \in SUBSET (1 .. 0) : u = {}
    BY <2>1
  <2>3. IsFold(it, kind, d, base, seq, 0)
    BY <2>2 DEF IsFold
  <2>4. QED
    BY <2>3
<1>2. ASSUME NEW k \in Nat, k \in good PROVE k + 1 \in good
  <2>1. PICK it : IsFold(it, kind, d, base, seq, k)
    BY <1>2
  <2> DEFINE next == [u \in SUBSET (1 .. k + 1) |->
                        IF u = {} THEN base ELSE Step(kind, d, it[u \ {Max(u)}], seq[Max(u)])]
  <2>2. 1 .. k \subseteq 1 .. k + 1
    OBVIOUS
  <2>3. ASSUME NEW u \in SUBSET (1 .. k) PROVE next[u] = it[u]
    <3>1. u \in SUBSET (1 .. k + 1)
      BY <2>2
    <3>2. it[u] = IF u = {} THEN base ELSE Step(kind, d, it[u \ {Max(u)}], seq[Max(u)])
      BY <2>1, <2>3 DEF IsFold
    <3>3. QED
      BY <3>1, <3>2
  <2>4. ASSUME NEW u \in SUBSET (1 .. k + 1) PROVE u \ {Max(u)} \in SUBSET (1 .. k)
    <3>1. CASE k + 1 \in u
      <4>1. \A y \in u : k + 1 >= y
        OBVIOUS
      <4>2. \A x \in u : (\A y \in u : x >= y) => x = k + 1
        BY <3>1, <4>1
      <4>3. Max(u) = k + 1
        BY <3>1, <4>1, <4>2 DEF Max
      <4>4. QED
        BY <4>3
    <3>2. CASE k + 1 \notin u
      <4>1. \A x \in u : x \in 1 .. k
        BY <3>2
      <4>2. QED
        BY <4>1
    <3>3. QED
      BY <3>1, <3>2
  <2>5. next = [u \in SUBSET (1 .. k + 1) |->
                  IF u = {} THEN base ELSE Step(kind, d, next[u \ {Max(u)}], seq[Max(u)])]
    <3>1. \A u \in SUBSET (1 .. k + 1) : next[u \ {Max(u)}] = it[u \ {Max(u)}]
      BY <2>3, <2>4
    <3>2. \A u \in SUBSET (1 .. k + 1) :
             next[u] = IF u = {} THEN base ELSE Step(kind, d, next[u \ {Max(u)}], seq[Max(u)])
      BY <3>1
    <3>3. next = [u \in SUBSET (1 .. k + 1) |-> next[u]]
      OBVIOUS
    <3> HIDE DEF next
    <3>4. QED
      BY <3>2, <3>3
  <2>6. IsFold(next, kind, d, base, seq, k + 1)
    BY <2>5 DEF IsFold
  <2>7. QED
    BY <2>6
<1>3. n \in good
  BY <1>1, <1>2, SetInduction
<1>4. QED
  BY <1>3

IsRun(tr, kind, d, base, seq, n) ==
  tr[0] = base /\ \A k \in 0 .. n - 1 : tr[k + 1] = Step(kind, d, tr[k], seq[k + 1])

LEMMA FoldRuns ==
  ASSUME NEW kind, NEW d, NEW base, NEW seq, NEW n \in Nat, NEW it, IsFold(it, kind, d, base, seq, n)
  PROVE  IsRun([k \in 0 .. n |-> it[1 .. k]], kind, d, base, seq, n)
<1>1. it[1 .. 0] = base
  <2>1. 1 .. 0 = {} /\ {} \in SUBSET (1 .. n)
    OBVIOUS
  <2>2. QED
    BY <2>1 DEF IsFold
<1>2. ASSUME NEW k \in 0 .. n - 1 PROVE it[1 .. k + 1] = Step(kind, d, it[1 .. k], seq[k + 1])
  <2>1. k + 1 \in 1 .. k + 1 /\ \A y \in 1 .. k + 1 : k + 1 >= y
    OBVIOUS
  <2>2. \A x \in 1 .. k + 1 : (\A y \in 1 .. k + 1 : x >= y) => x = k + 1
    BY <2>1
  <2>3. Max(1 .. k + 1) = k + 1
    BY <2>1, <2>2 DEF Max
  <2>4. (1 .. k + 1) \ {k + 1} = 1 .. k /\ 1 .. k + 1 # {} /\ 1 .. k + 1 \in SUBSET (1 .. n)
    OBVIOUS
  <2>5. QED
    BY <2>3, <2>4 DEF IsFold
<1>3. QED
  BY <1>1, <1>2 DEF IsRun

LEMMA PartsRun ==
  ASSUME NEW path, NEW n \in Nat, DOMAIN Reverse(path) = 1 .. n
  PROVE  \E tr : IsRun(tr, "parts", 0, << [parts |-> << >>, omitted |-> {}] >>, Reverse(path), n) /\ Variants(path) = tr[n]
<1> DEFINE base == << [parts |-> << >>, omitted |-> {}] >>
           P(it) == it = [u \in SUBSET (1 .. n) |->
                       IF u = {} THEN base ELSE WithPart(Reverse(path)[Max(u)], it[u \ {Max(u)}])]
           it == CHOOSE it : P(it)
<1>1. \A x : P(x) <=> IsFold(x, "parts", 0, base, Reverse(path), n)
  <2>1. \A s, x : WithPart(x, s) = Step("parts", 0, s, x)
    BY DEF Step
  <2> HIDE DEF base
  <2>2. QED
    BY <2>1 DEF IsFold
<1>2. P(it)
  BY <1>1, FoldExists
<1>3. Variants(path) = it[1 .. n]
  BY DEF Variants, FoldLeft, MapThenFoldSet
<1>4. IsFold(it, "parts", 0, base, Reverse(path), n)
  BY <1>1, <1>2
<1>5. [k \in 0 .. n |-> it[1 .. k]][n] = it[1 .. n]
  OBVIOUS
<1> HIDE DEF it
<1>6. QED
  BY <1>3, <1>4, <1>5, FoldRuns

LEMMA VariantsRun ==
  ASSUME NEW route, NEW index, NEW n \in Nat, DOMAIN Variants(route.path) = 1 .. n
  PROVE  \E tr : IsRun(tr, "variants", [method |-> route.method, index |-> index], [tree |-> tree, refused |-> FALSE, omitted |-> {}], Variants(route.path), n) /\ Built(route, index) = tr[n]
<1> DEFINE base == [tree |-> tree, refused |-> FALSE, omitted |-> {}]
           P(it) == it = [u \in SUBSET (1 .. n) |->
                       IF u = {} THEN base ELSE AddVariant(it[u \ {Max(u)}], Variants(route.path)[Max(u)], route.method, index)]
           it == CHOOSE it : P(it)
<1>1. \A x : P(x) <=> IsFold(x, "variants", [method |-> route.method, index |-> index], base, Variants(route.path), n)
  <2>1. \A s, x : AddVariant(s, x, route.method, index) = Step("variants", [method |-> route.method, index |-> index], s, x)
    BY DEF Step
  <2> HIDE DEF base
  <2>2. QED
    BY <2>1 DEF IsFold
<1>2. P(it)
  BY <1>1, FoldExists
<1>3. Built(route, index) = it[1 .. n]
  BY DEF Built, FoldLeft, MapThenFoldSet
<1>4. IsFold(it, "variants", [method |-> route.method, index |-> index], base, Variants(route.path), n)
  BY <1>1, <1>2
<1>5. [k \in 0 .. n |-> it[1 .. k]][n] = it[1 .. n]
  OBVIOUS
<1> HIDE DEF it
<1>6. QED
  BY <1>3, <1>4, <1>5, FoldRuns

LEMMA DotsRun ==
  ASSUME NEW segments, NEW n \in Nat, DOMAIN segments = 1 .. n
  PROVE  \E tr : IsRun(tr, "dots", 0, << >>, segments, n) /\ ResolveDots(segments) = tr[n]
<1> DEFINE base == << >>
           P(it) == it = [u \in SUBSET (1 .. n) |->
                       IF u = {} THEN base ELSE ResolveDot(it[u \ {Max(u)}], segments[Max(u)])]
           it == CHOOSE it : P(it)
<1>1. \A x : P(x) <=> IsFold(x, "dots", 0, base, segments, n)
  <2>1. \A s, x : ResolveDot(s, x) = Step("dots", 0, s, x)
    BY DEF Step
  <2> HIDE DEF base
  <2>2. QED
    BY <2>1 DEF IsFold
<1>2. P(it)
  BY <1>1, FoldExists
<1>3. ResolveDots(segments) = it[1 .. n]
  BY DEF ResolveDots, FoldLeft, MapThenFoldSet
<1>4. IsFold(it, "dots", 0, base, segments, n)
  BY <1>1, <1>2
<1>5. [k \in 0 .. n |-> it[1 .. k]][n] = it[1 .. n]
  OBVIOUS
<1> HIDE DEF it
<1>6. QED
  BY <1>3, <1>4, <1>5, FoldRuns

LEMMA SlashesRun ==
  ASSUME NEW path, NEW n \in Nat, DOMAIN ResolveDots(path) = 1 .. n
  PROVE  \E tr : IsRun(tr, "slashes", 0, << >>, ResolveDots(path), n) /\ Normalized(path) = tr[n]
<1> DEFINE base == << >>
           P(it) == it = [u \in SUBSET (1 .. n) |->
                       IF u = {} THEN base ELSE CollapseSlash(it[u \ {Max(u)}], ResolveDots(path)[Max(u)])]
           it == CHOOSE it : P(it)
<1>1. \A x : P(x) <=> IsFold(x, "slashes", 0, base, ResolveDots(path), n)
  <2>1. \A s, x : CollapseSlash(s, x) = Step("slashes", 0, s, x)
    BY DEF Step
  <2> HIDE DEF base
  <2>2. QED
    BY <2>1 DEF IsFold
<1>2. P(it)
  BY <1>1, FoldExists
<1>3. Normalized(path) = it[1 .. n]
  BY DEF Normalized, FoldLeft, MapThenFoldSet
<1>4. IsFold(it, "slashes", 0, base, ResolveDots(path), n)
  BY <1>1, <1>2
<1>5. [k \in 0 .. n |-> it[1 .. k]][n] = it[1 .. n]
  OBVIOUS
<1> HIDE DEF it
<1>6. QED
  BY <1>3, <1>4, <1>5, FoldRuns

-----------------------------------------------------------------------------
(* Sequences *)
LEMMA AppendFacts ==
  ASSUME NEW S, NEW n \in Seq(S), NEW p \in S
  PROVE  /\ Append(n, p) \in Seq(S) /\ Append(n, p) # << >>
         /\ Len(Append(n, p)) = Len(n) + 1
         /\ \A i \in 1 .. Len(n) : Append(n, p)[i] = n[i]
         /\ Append(n, p)[Len(n) + 1] = p
         /\ Front(Append(n, p)) = n /\ Last(Append(n, p)) = p
<1>1. /\ Append(n, p) \in Seq(S) /\ Append(n, p) # << >> /\ Len(Append(n, p)) = Len(n) + 1 /\ Len(n) \in Nat
      /\ \A i \in 1 .. Len(n) : Append(n, p)[i] = n[i]
      /\ Append(n, p)[Len(n) + 1] = p
  OBVIOUS
<1>2. Last(Append(n, p)) = p
  BY <1>1 DEF Last
<1>3. Front(Append(n, p)) \in Seq(S) /\ Len(Front(Append(n, p))) = Len(n) /\ \A i \in 1 .. Len(n) : Front(Append(n, p))[i] = n[i]
  BY <1>1 DEF Front
<1>4. Front(Append(n, p)) = n
  BY <1>3, SeqEqual
<1>5. QED
  BY <1>1, <1>2, <1>4

(* The first k elements of a sequence. *)
LEMMA TakeFacts ==
  ASSUME NEW S, NEW c \in Seq(S), NEW k \in 0 .. Len(c)
  PROVE  /\ SubSeq(c, 1, k) \in Seq(S) /\ Len(SubSeq(c, 1, k)) = k
         /\ \A i \in 1 .. k : SubSeq(c, 1, k)[i] = c[i]
         /\ k < Len(c) => SubSeq(c, 1, k + 1) = Append(SubSeq(c, 1, k), c[k + 1])
         /\ \A j \in 0 .. k : SubSeq(SubSeq(c, 1, k), 1, j) = SubSeq(c, 1, j)
         /\ k = Len(c) => SubSeq(c, 1, k) = c
<1>1. \A j \in 0 .. Len(c) : /\ SubSeq(c, 1, j) \in Seq(S) /\ Len(SubSeq(c, 1, j)) = j
                             /\ \A i \in 1 .. j : SubSeq(c, 1, j)[i] = c[i]
  OBVIOUS
<1>2. ASSUME k < Len(c) PROVE SubSeq(c, 1, k + 1) = Append(SubSeq(c, 1, k), c[k + 1])
  <2>1. k + 1 \in 0 .. Len(c) /\ c[k + 1] \in S
    BY <1>2
  <2>2. /\ SubSeq(c, 1, k + 1) \in Seq(S) /\ Len(SubSeq(c, 1, k + 1)) = k + 1
        /\ \A i \in 1 .. k + 1 : SubSeq(c, 1, k + 1)[i] = c[i]
    BY <1>1, <2>1
  <2>3. /\ Append(SubSeq(c, 1, k), c[k + 1]) \in Seq(S) /\ Len(Append(SubSeq(c, 1, k), c[k + 1])) = k + 1
        /\ \A i \in 1 .. k : Append(SubSeq(c, 1, k), c[k + 1])[i] = c[i]
        /\ Append(SubSeq(c, 1, k), c[k + 1])[k + 1] = c[k + 1]
    BY <1>1, <2>1, AppendFacts
  <2>4. \A i \in 1 .. k + 1 : i \in 1 .. k \/ i = k + 1
    OBVIOUS
  <2>5. \A i \in 1 .. k + 1 : Append(SubSeq(c, 1, k), c[k + 1])[i] = c[i]
    BY <2>3, <2>4
  <2>6. QED
    BY <2>2, <2>3, <2>5, SeqEqual
<1>3. ASSUME NEW j \in 0 .. k PROVE SubSeq(SubSeq(c, 1, k), 1, j) = SubSeq(c, 1, j)
  <2> DEFINE d == SubSeq(c, 1, k)
  <2>1. d \in Seq(S) /\ Len(d) = k /\ \A i \in 1 .. k : d[i] = c[i]
    BY <1>1
  <2> HIDE DEF d
  <2>2. SubSeq(d, 1, j) \in Seq(S) /\ Len(SubSeq(d, 1, j)) = j /\ \A i \in 1 .. j : SubSeq(d, 1, j)[i] = d[i]
    BY <2>1
  <2>3. \A i \in 1 .. j : i \in 1 .. k
    OBVIOUS
  <2>4. SubSeq(c, 1, j) \in Seq(S) /\ Len(SubSeq(c, 1, j)) = j /\ \A i \in 1 .. j : SubSeq(c, 1, j)[i] = c[i]
    BY <1>1
  <2>5. SubSeq(d, 1, j) = SubSeq(c, 1, j)
    BY <2>1, <2>2, <2>3, <2>4, SeqEqual
  <2>6. QED
    BY <2>5 DEF d
<1>4. ASSUME k = Len(c) PROVE SubSeq(c, 1, k) = c
  BY <1>1, <1>4, SeqEqual
<1>5. QED
  BY <1>1, <1>2, <1>3, <1>4

LEMMA FrontLast ==
  ASSUME NEW S, NEW c \in Seq(S), c # << >>
  PROVE  /\ Front(c) \in Seq(S) /\ Last(c) \in S
         /\ Len(c) \in Nat \ {0} /\ Len(Front(c)) = Len(c) - 1
         /\ c = Append(Front(c), Last(c))
<1>0. Len(c) \in Nat \ {0}
  BY EmptySeq
<1>1. Len(c) \in Nat /\ Len(c) # 0
  BY <1>0
<1>2. Front(c) \in Seq(S) /\ Len(Front(c)) = Len(c) - 1 /\ \A i \in 1 .. Len(c) - 1 : Front(c)[i] = c[i]
  <2>1. Len(c) - 1 \in 0 .. Len(c)
    BY <1>1
  <2>2. QED
    BY <2>1, TakeFacts DEF Front
<1>3. Last(c) = c[Len(c)] /\ Last(c) \in S
  BY <1>1 DEF Last
<1> HIDE DEF Front, Last
<1>4. Append(Front(c), Last(c)) \in Seq(S) /\ Len(Append(Front(c), Last(c))) = Len(c)
  BY <1>1, <1>2, <1>3
<1>5. \A i \in 1 .. Len(c) : Append(Front(c), Last(c))[i] = c[i]
  BY <1>1, <1>2, <1>3
<1>6. c = Append(Front(c), Last(c))
  BY <1>4, <1>5, SeqEqual
<1>7. QED
  BY <1>1, <1>2, <1>3, <1>6

-----------------------------------------------------------------------------
(* The tree *)
Plain == {p \in Part : ~p.optional}

(* What two children of a node are never both. *)
Compatible(p, q) ==
  \/ p = q
  \/ /\ ~(p.kind \in Wild /\ q.kind \in Wild)
     /\ ~(p.kind = "param" /\ q.kind = "param" /\ p.name = q.name)

Shape(t) ==
  /\ << >> \in DOMAIN t /\ IsFiniteSet(DOMAIN t)
  /\ \A n \in DOMAIN t :
       /\ n \in Seq(Plain) /\ t[n] \in [Method -> Nat]
       /\ \A k \in 0 .. Len(n) : SubSeq(n, 1, k) \in DOMAIN t
       /\ \A k \in 1 .. Len(n) : n[k].kind \in Wild => k = Len(n)
  /\ \A n \in Seq(Plain), p, q \in Plain :
       Append(n, p) \in DOMAIN t /\ Append(n, q) \in DOMAIN t => Compatible(p, q)

(* The empty segment, which the solvers know only by a name. *)
Blank == ""

LEMMA PlainFacts ==
  ASSUME NEW p \in Plain
  PROVE  /\ p \in Part /\ p.optional = FALSE
         /\ p.kind \in {"static", "param", "star", "multi", "zero"} /\ p.name \in Name
         /\ p.pattern \in Pattern \cup {None}
         /\ p.kind # "param" => p.pattern = None
         /\ p.kind = "static" => p.name \notin {Blank, ".", ".."}
         /\ p = [kind |-> p.kind, name |-> p.name, pattern |-> p.pattern, optional |-> FALSE]
<1>1. /\ p \in Part /\ p.optional = FALSE
      /\ p \in [kind : Kind, name : Name, pattern : Pattern \cup {None}, optional : BOOLEAN]
      /\ p.pattern # None => p.kind = "param"
      /\ p.kind = "static" => p.name \notin {Blank, ".", ".."}
  BY Zenon DEF Plain, Part, Blank
<1>2. QED
  BY <1>1 DEF Kind, Wild

LEMMA ChildrenFacts ==
  ASSUME NEW t, DOMAIN t \subseteq Seq(Plain), NEW n \in Seq(Plain)
  PROVE  Children(t, n) = {p \in Plain : Append(n, p) \in DOMAIN t}
<1>1. ASSUME NEW p \in Children(t, n) PROVE p \in Plain /\ Append(n, p) \in DOMAIN t
  <2>1. PICK c \in DOMAIN t : c # << >> /\ Front(c) = n /\ p = Last(c)
    BY <1>1 DEF Children
  <2>2. c \in Seq(Plain)
    BY <2>1
  <2>3. c = Append(n, p) /\ p \in Plain
    BY <2>1, <2>2, FrontLast
  <2>4. QED
    BY <2>1, <2>3
<1>2. ASSUME NEW p \in Plain, Append(n, p) \in DOMAIN t PROVE p \in Children(t, n)
  <2>1. Append(n, p) # << >> /\ Front(Append(n, p)) = n /\ Last(Append(n, p)) = p
    BY AppendFacts
  <2>2. QED
    BY <1>2, <2>1 DEF Children
<1>3. QED
  BY <1>1, <1>2

-----------------------------------------------------------------------------
(* The order of the children *)
LEMMA SortsBeforeFacts ==
  ASSUME NEW p \in Plain, NEW q \in Plain
  PROVE  /\ ~(SortsBefore(p, q) /\ SortsBefore(q, p))
         /\ p.name # q.name => SortsBefore(p, q) \/ SortsBefore(q, p)
         /\ \A r \in Plain : SortsBefore(p, q) /\ SortsBefore(q, r) => SortsBefore(p, r)
<1> DEFINE length(r) == IF r.pattern = None THEN 0 ELSE PatternLength[r.pattern]
<1>1. \A r \in Plain : length(r) \in Nat /\ r.name \in Name
  BY PlainFacts, RouterAssumption
<1>2. \A r \in Plain : NameRank[r.name] \in Nat
  BY <1>1, RouterAssumption
<1>3. NameRank[p.name] = NameRank[q.name] => p.name = q.name
  BY <1>1, RouterAssumption
<1>4. \A a, b : SortsBefore(a, b) <=>
         \/ a.pattern # None /\ b.pattern = None
         \/ (a.pattern = None <=> b.pattern = None) /\ length(a) > length(b)
         \/ (a.pattern = None <=> b.pattern = None) /\ length(a) = length(b) /\ NameRank[a.name] < NameRank[b.name]
  BY DEF SortsBefore
<1> HIDE DEF length
<1>5. QED
  BY <1>1, <1>2, <1>3, <1>4

LEMMA BeforeFacts ==
  ASSUME NEW p \in Plain, NEW q \in Plain
  PROVE  /\ ~Before(p, p)
         /\ ~(Before(p, q) /\ Before(q, p))
         /\ p.kind \notin Wild /\ q.kind \in Wild => Before(p, q)
         /\ p.kind \notin Wild /\ q.kind \notin Wild /\ p.name # q.name /\ ~(p.kind = "static" /\ q.kind = "static")
              => Before(p, q) \/ Before(q, p)
         /\ p.kind = "static" /\ q.kind # "static" => Before(p, q)
         /\ \A r \in Plain : Before(p, q) /\ Before(q, r) => Before(p, r)
<1>1. \A r \in Plain : r.kind \in {"static", "param", "star", "multi", "zero"}
  BY PlainFacts
<1>2. \A r \in Plain, s \in Plain : ~(SortsBefore(r, s) /\ SortsBefore(s, r))
  BY SortsBeforeFacts
<1>3. p.name # q.name => SortsBefore(p, q) \/ SortsBefore(q, p)
  BY SortsBeforeFacts
<1>4. \A r \in Plain : SortsBefore(p, q) /\ SortsBefore(q, r) => SortsBefore(p, r)
  BY SortsBeforeFacts
<1>5. QED
  BY <1>1, <1>2, <1>3, <1>4 DEF Before, Wild

(* Of finitely many children that may all be tried, one is tried first. *)
LEMMA FirstExists ==
  ASSUME NEW hits \in SUBSET Plain, IsFiniteSet(hits), hits # {},
         \A p, q \in hits : p = q \/ Before(p, q) \/ Before(q, p)
  PROVE  FirstOf(hits) \in hits /\ \A q \in hits \ {FirstOf(hits)} : Before(FirstOf(hits), q)
<1> DEFINE good == {k \in Nat : \A S \in SUBSET hits :
                      Cardinality(S) = k + 1 => \E p \in S : \A q \in S \ {p} : Before(p, q)}
<1>1. \A S \in SUBSET hits : IsFiniteSet(S)
  BY FS_Subset
<1>2. 0 \in good
  <2>1. ASSUME NEW S \in SUBSET hits, Cardinality(S) = 0 + 1 PROVE \E p \in S : \A q \in S \ {p} : Before(p, q)
    <3>1. PICK x : S = {x}
      BY <1>1, <2>1, FS_Singleton
    <3>2. QED
      BY <3>1
  <2>2. QED
    BY <2>1
<1>3. ASSUME NEW k \in Nat, k \in good PROVE k + 1 \in good
  <2>1. ASSUME NEW S \in SUBSET hits, Cardinality(S) = k + 1 + 1 PROVE \E p \in S : \A q \in S \ {p} : Before(p, q)
    <3>1. S # {}
      BY <2>1, FS_EmptySet
    <3>2. PICK x \in S : TRUE
      BY <3>1
    <3>3. IsFiniteSet(S \ {x}) /\ Cardinality(S \ {x}) = Cardinality(S) - 1
      BY <1>1, <3>2, FS_RemoveElement
    <3>4. S \ {x} \in SUBSET hits /\ Cardinality(S \ {x}) = k + 1
      BY <2>1, <3>3
    <3>5. PICK p \in S \ {x} : \A q \in (S \ {x}) \ {p} : Before(p, q)
      BY <1>3, <3>4
    <3>6. p \in Plain /\ x \in Plain /\ p # x
      BY <3>2
    <3>7. CASE Before(p, x)
      BY <3>5, <3>7
    <3>8. CASE Before(x, p)
      <4>1. ASSUME NEW q \in S \ {x} PROVE Before(x, q)
        <5>1. CASE q = p
          BY <3>8, <5>1
        <5>2. CASE q # p
          BY <3>5, <3>6, <3>8, <5>2, BeforeFacts
        <5>3. QED
          BY <5>1, <5>2
      <4>2. QED
        BY <3>2, <4>1
    <3>9. QED
      BY <3>2, <3>5, <3>6, <3>7, <3>8
  <2>2. QED
    BY <2>1
<1>4. Cardinality(hits) \in Nat /\ Cardinality(hits) # 0
  BY FS_CardinalityType, FS_EmptySet
<1>5. Cardinality(hits) - 1 \in good
  <2>1. Nat \subseteq good
    <3> HIDE DEF good
    <3>1. QED
      BY <1>2, <1>3, SetInduction
  <2>2. Cardinality(hits) - 1 \in Nat
    BY <1>4
  <2>3. QED
    BY <2>1, <2>2
<1>6. \E p \in hits : \A q \in hits \ {p} : Before(p, q)
  BY <1>4, <1>5
<1>7. QED
  BY <1>6 DEF FirstOf

-----------------------------------------------------------------------------
(* Matcher.walk() *)
LEMMA HitsFacts ==
  ASSUME NEW t, Shape(t), NEW n \in Seq(Plain), NEW segments, NEW f
  PROVE  LET hits == Hits(t, segments, n, f) IN
         /\ hits = {p \in Plain : /\ Append(n, p) \in DOMAIN t
                                  /\ Len(n) < Len(segments) /\ p.kind \notin Wild
                                  /\ Fits(p, segments[Len(n) + 1])
                                  /\ f[Append(n, p)] # None}
         /\ hits # {} => FirstOf(hits) \in hits /\ \A q \in hits \ {FirstOf(hits)} : Before(FirstOf(hits), q)
<1> DEFINE hits == Hits(t, segments, n, f)
<1>1. DOMAIN t \subseteq Seq(Plain) /\ IsFiniteSet(DOMAIN t)
  BY DEF Shape
<1>2. Children(t, n) = {p \in Plain : Append(n, p) \in DOMAIN t}
  BY <1>1, ChildrenFacts
<1>3. hits = {p \in Plain : /\ Append(n, p) \in DOMAIN t
                            /\ Len(n) < Len(segments) /\ p.kind \notin Wild
                            /\ Fits(p, segments[Len(n) + 1])
                            /\ f[Append(n, p)] # None}
  BY <1>2 DEF Hits
<1>4. IsFiniteSet(hits)
  <2> DEFINE S == {c \in DOMAIN t : c # << >> /\ Front(c) = n}
             last == [c \in S |-> Last(c)]
  <2>1. IsFiniteSet(S)
    BY <1>1, FS_Subset
  <2>2. last \in Surjection(S, Children(t, n))
    BY DEF Children, Surjection
  <2>3. IsFiniteSet(Children(t, n))
    <3> HIDE DEF last, S
    <3>1. QED
      BY <2>1, <2>2, FS_Surjection
  <2>4. hits \in SUBSET Children(t, n)
    BY DEF Hits
  <2>5. QED
    BY <2>3, <2>4, FS_Subset
<1>5. ASSUME NEW p \in hits, NEW q \in hits PROVE p = q \/ Before(p, q) \/ Before(q, p)
  <2>1. Compatible(p, q) /\ p \in Plain /\ q \in Plain /\ p.kind \notin Wild /\ q.kind \notin Wild
    BY <1>3 DEF Shape
  <2>2. p.kind = "static" /\ q.kind = "static" => p.name = q.name
    BY <1>3 DEF Fits
  <2>3. p.kind = "static" /\ q.kind = "static" => p = q
    BY <2>1, <2>2, PlainFacts
  <2>4. p.kind \in {"static", "param"} /\ q.kind \in {"static", "param"}
    BY <2>1, PlainFacts DEF Wild
  <2>5. QED
    BY <2>1, <2>3, <2>4, BeforeFacts DEF Compatible
<1>6. hits \in SUBSET Plain
  BY <1>3
<1>7. hits # {} => FirstOf(hits) \in hits /\ \A q \in hits \ {FirstOf(hits)} : Before(FirstOf(hits), q)
  <2> HIDE DEF hits
  <2>1. QED
    BY <1>4, <1>5, <1>6, FirstExists
<1>8. QED
  BY <1>3, <1>7

IsFound(f, t, m, segments) == f = [n \in DOMAIN t |-> Visit(t, m, segments, n, f)]

(* What a node leads to depends only on its children. *)
LEMMA VisitLocal ==
  ASSUME NEW t, Shape(t), NEW m, NEW segments, NEW n \in Seq(Plain), NEW f, NEW g,
         \A p \in Plain : Append(n, p) \in DOMAIN t /\ Len(n) < Len(segments) => f[Append(n, p)] = g[Append(n, p)]
  PROVE  Visit(t, m, segments, n, f) = Visit(t, m, segments, n, g)
<1>1. Hits(t, segments, n, f) = Hits(t, segments, n, g)
  <2> DEFINE S(h) == {p \in Plain : /\ Append(n, p) \in DOMAIN t
                                   /\ Len(n) < Len(segments) /\ p.kind \notin Wild
                                   /\ Fits(p, segments[Len(n) + 1])
                                   /\ h[Append(n, p)] # None}
  <2>1. Hits(t, segments, n, f) = S(f) /\ Hits(t, segments, n, g) = S(g)
    BY HitsFacts
  <2>2. S(f) = S(g)
    OBVIOUS
  <2>3. QED
    BY <2>1, <2>2
<1>2. ASSUME Hits(t, segments, n, f) # {}
      PROVE  f[Append(n, FirstOf(Hits(t, segments, n, f)))] = g[Append(n, FirstOf(Hits(t, segments, n, g)))]
  <2> DEFINE p == FirstOf(Hits(t, segments, n, f))
  <2>1. p \in Hits(t, segments, n, f)
    BY <1>2, HitsFacts
  <2>2. p \in Plain /\ Append(n, p) \in DOMAIN t /\ Len(n) < Len(segments)
    <3> HIDE DEF p
    <3>1. QED
      BY <2>1, HitsFacts
  <2>3. QED
    BY <1>1, <2>2
<1>3. QED
  BY <1>1, <1>2 DEF Visit

LEMMA FoundExists ==
  ASSUME NEW t, Shape(t), NEW m \in Method, NEW S, NEW segments \in Seq(S)
  PROVE  \E f : IsFound(f, t, m, segments)
<1> DEFINE late(k) == {n \in DOMAIN t : Len(n) + k >= Len(segments)}
           good == {k \in Nat : \E f : DOMAIN f = DOMAIN t /\ \A n \in late(k) : f[n] = Visit(t, m, segments, n, f)}
<1>1. DOMAIN t \subseteq Seq(Plain) /\ Len(segments) \in Nat
  BY DEF Shape
<1>2. \A n \in DOMAIN t : Len(n) \in Nat /\ n \in Seq(Plain)
  BY <1>1
<1>3. 0 \in good
  <2> DEFINE f == [n \in DOMAIN t |-> Visit(t, m, segments, n, 0)]
  <2>1. ASSUME NEW n \in late(0) PROVE f[n] = Visit(t, m, segments, n, f)
    <3>1. n \in Seq(Plain) /\ ~(Len(n) < Len(segments)) /\ f[n] = Visit(t, m, segments, n, 0)
      BY <1>1, <1>2
    <3> HIDE DEF f
    <3>2. Visit(t, m, segments, n, 0) = Visit(t, m, segments, n, f)
      BY <3>1, VisitLocal
    <3>3. QED
      BY <3>1, <3>2
  <2>2. QED
    BY <2>1
<1>4. ASSUME NEW k \in Nat, k \in good PROVE k + 1 \in good
  <2>1. PICK f : DOMAIN f = DOMAIN t /\ \A n \in late(k) : f[n] = Visit(t, m, segments, n, f)
    BY <1>4
  <2> DEFINE g == [n \in DOMAIN t |-> Visit(t, m, segments, n, f)]
  <2>2. \A n \in late(k) : g[n] = f[n]
    BY <2>1
  <2>3. ASSUME NEW n \in late(k + 1) PROVE g[n] = Visit(t, m, segments, n, g)
    <3>1. n \in DOMAIN t /\ n \in Seq(Plain) /\ Len(n) \in Nat /\ Len(n) + (k + 1) >= Len(segments)
      BY <1>2
    <3>2. g[n] = Visit(t, m, segments, n, f)
      BY <3>1
    <3> HIDE DEF g
    <3>3. ASSUME NEW p \in Plain, Append(n, p) \in DOMAIN t PROVE f[Append(n, p)] = g[Append(n, p)]
      <4>1. Len(Append(n, p)) = Len(n) + 1
        BY <3>1
      <4>2. Append(n, p) \in late(k)
        BY <1>1, <3>1, <3>3, <4>1
      <4>3. QED
        BY <2>2, <4>2
    <3>4. Visit(t, m, segments, n, f) = Visit(t, m, segments, n, g)
      BY <3>1, <3>3, VisitLocal
    <3>5. QED
      BY <3>2, <3>4
  <2>4. DOMAIN g = DOMAIN t
    OBVIOUS
  <2> HIDE DEF g
  <2>5. QED
    BY <2>3, <2>4
<1>5. Len(segments) \in good
  <2> HIDE DEF good
  <2>1. QED
    BY <1>1, <1>3, <1>4, SetInduction
<1>6. PICK f : DOMAIN f = DOMAIN t /\ \A n \in late(Len(segments)) : f[n] = Visit(t, m, segments, n, f)
  BY <1>5
<1>7. \A n \in DOMAIN t : n \in late(Len(segments))
  BY <1>1, <1>2
<1> DEFINE g == [n \in DOMAIN t |-> Visit(t, m, segments, n, f)]
<1>8. \A n \in DOMAIN t : f[n] = g[n]
  BY <1>6, <1>7
<1>9. ASSUME NEW n \in DOMAIN t PROVE Visit(t, m, segments, n, f) = Visit(t, m, segments, n, g)
  <2>1. n \in Seq(Plain)
    BY <1>2
  <2> HIDE DEF g
  <2>2. QED
    BY <1>8, <2>1, VisitLocal
<1>10. g = [n \in DOMAIN t |-> Visit(t, m, segments, n, g)]
  <2>1. \A n \in DOMAIN t : g[n] = Visit(t, m, segments, n, g)
    <3>1. \A n \in DOMAIN t : g[n] = Visit(t, m, segments, n, f)
      OBVIOUS
    <3> HIDE DEF g
    <3>2. QED
      BY <1>9, <3>1
  <2>2. g = [n \in DOMAIN t |-> g[n]]
    OBVIOUS
  <2> HIDE DEF g
  <2>3. QED
    BY <2>1, <2>2
<1>11. QED
  BY <1>10 DEF IsFound

LEMMA WalkIsFound ==
  ASSUME NEW t, Shape(t), NEW m \in Method, NEW S, NEW segments \in Seq(S)
  PROVE  \E f : IsFound(f, t, m, segments) /\ Walk(t, m, segments) = f[<< >>]
<1> DEFINE f == CHOOSE f : f = [n \in DOMAIN t |-> Visit(t, m, segments, n, f)]
<1>1. IsFound(f, t, m, segments)
  BY FoundExists DEF IsFound
<1>2. Walk(t, m, segments) = f[<< >>]
  BY DEF Walk
<1>3. QED
  BY <1>1, <1>2

-----------------------------------------------------------------------------
(* The best of the leaves below a node *)
WildLast(c) == \A k \in 1 .. Len(c) : c[k].kind \in Wild => k = Len(c)

LEMMA FitsIff ==
  ASSUME NEW c \in Seq(Plain), WildLast(c), NEW S, NEW segments \in Seq(S)
  PROVE  FitsWhole(c, segments) <=>
           /\ \A k \in 1 .. Len(c) :
                /\ c[k].kind \in Wild => Len(segments) >= k - 1 /\ (c[k].kind = "multi" => Len(segments) >= k)
                /\ c[k].kind \notin Wild => k <= Len(segments) /\ Fits(c[k], segments[k])
           /\ (\A k \in 1 .. Len(c) : c[k].kind \notin Wild) => Len(segments) = Len(c)
<1>1. Len(c) \in Nat /\ Len(segments) \in Nat
  OBVIOUS
<1>2. c # << >> <=> Len(c) # 0
  BY EmptySeq
<1>3. CASE \A k \in 1 .. Len(c) : c[k].kind \notin Wild
  <2>1. ~(c # << >> /\ Last(c).kind \in Wild)
    <3>1. c # << >> => Len(c) \in 1 .. Len(c)
      BY <1>1, <1>2
    <3>2. QED
      BY <1>3, <3>1 DEF Last
  <2>2. FitsWhole(c, segments) <=> Len(segments) = Len(c) /\ \A k \in 1 .. Len(c) : Fits(c[k], segments[k])
    BY <2>1 DEF FitsWhole
  <2>3. QED
    BY <1>1, <1>3, <2>2
<1>4. ASSUME NEW w \in 1 .. Len(c), c[w].kind \in Wild
      PROVE  FitsWhole(c, segments) <=>
               \A k \in 1 .. Len(c) :
                 /\ c[k].kind \in Wild => Len(segments) >= k - 1 /\ (c[k].kind = "multi" => Len(segments) >= k)
                 /\ c[k].kind \notin Wild => k <= Len(segments) /\ Fits(c[k], segments[k])
  <2>1. w = Len(c) /\ c # << >> /\ Last(c).kind \in Wild /\ Last(c) = c[w]
    BY <1>2, <1>4 DEF WildLast, Last
  <2>2. \A k \in 1 .. Len(c) : c[k].kind \in Wild <=> k = Len(c)
    BY <1>4, <2>1 DEF WildLast
  <2>3. FitsWhole(c, segments) <=>
          /\ Len(segments) >= Len(c) - 1
          /\ c[w].kind = "multi" => Len(segments) > Len(c) - 1
          /\ \A k \in 1 .. Len(c) - 1 : Fits(c[k], segments[k])
    BY <2>1 DEF FitsWhole
  <2>4. \A k \in 1 .. Len(c) : k = Len(c) \/ k \in 1 .. Len(c) - 1
    BY <1>1
  <2>5. \A k \in 1 .. Len(c) - 1 : k \in 1 .. Len(c) /\ k # Len(c)
    BY <1>1
  <2> DEFINE ok(k) == /\ c[k].kind \in Wild => Len(segments) >= k - 1 /\ (c[k].kind = "multi" => Len(segments) >= k)
                      /\ c[k].kind \notin Wild => k <= Len(segments) /\ Fits(c[k], segments[k])
  <2>6. ASSUME FitsWhole(c, segments), NEW k \in 1 .. Len(c) PROVE ok(k)
    <3>1. CASE k = Len(c)
      BY <1>1, <2>1, <2>3, <2>6, <3>1
    <3>2. CASE k # Len(c)
      <4>1. k \in 1 .. Len(c) - 1 /\ c[k].kind \notin Wild /\ k <= Len(segments)
        BY <1>1, <2>2, <2>3, <2>4, <2>6, <3>2
      <4>2. QED
        BY <2>3, <2>6, <4>1
    <3>3. QED
      BY <3>1, <3>2
  <2>7. ASSUME \A k \in 1 .. Len(c) : ok(k) PROVE FitsWhole(c, segments)
    <3>1. ok(w)
      BY <2>7
    <3>2. Len(segments) >= Len(c) - 1 /\ (c[w].kind = "multi" => Len(segments) > Len(c) - 1)
      BY <1>1, <1>4, <2>1, <3>1
    <3>3. \A k \in 1 .. Len(c) - 1 : Fits(c[k], segments[k])
      BY <2>2, <2>5, <2>7
    <3>4. QED
      BY <2>3, <3>2, <3>3
  <2>8. QED
    BY <2>6, <2>7
<1>5. QED
  <2>1. (\E w \in 1 .. Len(c) : c[w].kind \in Wild) \/ \A k \in 1 .. Len(c) : c[k].kind \notin Wild
    OBVIOUS
  <2>2. QED
    BY <1>3, <1>4, <2>1

Reached(n, segments) ==
  Len(n) <= Len(segments) /\ \A k \in 1 .. Len(n) : n[k].kind \notin Wild /\ Fits(n[k], segments[k])

Under(t, m, segments, n) ==
  {c \in DOMAIN t : /\ Len(n) <= Len(c) /\ SubSeq(c, 1, Len(n)) = n
                    /\ t[c][m] # 0 /\ FitsWhole(c, segments)}

IsBest(leaf, all) ==
  IF leaf = None THEN all = {} ELSE leaf \in all /\ \A c \in all \ {leaf} : Wins(leaf, c)

LEMMA WinsAt ==
  ASSUME NEW n \in Seq(Plain), NEW a \in Seq(Plain), NEW b \in Seq(Plain),
         Len(n) < Len(a), Len(n) < Len(b), SubSeq(a, 1, Len(n)) = n, SubSeq(b, 1, Len(n)) = n,
         Before(a[Len(n) + 1], b[Len(n) + 1])
  PROVE  Wins(a, b)
<1> DEFINE k == Len(n) + 1
<1>1. Len(n) \in Nat /\ Len(a) \in Nat /\ Len(b) \in Nat /\ DOMAIN a = 1 .. Len(a) /\ DOMAIN b = 1 .. Len(b)
  OBVIOUS
<1>2. k \in DOMAIN a \cap DOMAIN b
  BY <1>1
<1>3. ASSUME NEW j \in 1 .. k - 1 PROVE a[j] = b[j]
  <2>1. Len(n) \in 0 .. Len(a) /\ Len(n) \in 0 .. Len(b) /\ j \in 1 .. Len(n)
    BY <1>1
  <2>2. SubSeq(a, 1, Len(n))[j] = a[j] /\ SubSeq(b, 1, Len(n))[j] = b[j]
    BY <2>1, TakeFacts
  <2>3. QED
    BY <2>2
<1> HIDE DEF k
<1>4. Before(a[k], b[k])
  BY DEF k
<1>5. QED
  BY <1>2, <1>3, <1>4 DEF Wins

LEMMA WinsPrefix ==
  ASSUME NEW n \in Seq(Plain), NEW c \in Seq(Plain), Len(n) <= Len(c), SubSeq(c, 1, Len(n)) = n
  PROVE  Wins(n, c)
<1>1. Len(n) \in 0 .. Len(n)
  OBVIOUS
<1>2. SubSeq(n, 1, Len(n)) = n
  BY <1>1, TakeFacts
<1>3. QED
  BY <1>2 DEF Wins, IsPrefix

LEMMA NoneIsNoNode ==
  ASSUME NEW c \in Seq(Plain)
  PROVE  c # None
<1>1. Plain \subseteq Part
  BY DEF Plain
<1>2. c \in Seq(Part)
  BY <1>1
<1>3. QED
  BY <1>2, RouterAssumption

(* A leaf below a node is the node itself, its wildcard, or below a child. *)
Split(t, m, segments, n, c) ==
  \/ c = n /\ Len(n) = Len(segments)
  \/ \E p \in Plain :
       /\ Len(n) < Len(c) /\ c[Len(n) + 1] = p /\ Append(n, p) \in DOMAIN t
       /\ \/ /\ p.kind \in Wild /\ c = Append(n, p)
             /\ p.kind = "multi" => Len(n) < Len(segments)
          \/ /\ p.kind \notin Wild /\ Len(n) < Len(segments) /\ Fits(p, segments[Len(n) + 1])
             /\ Reached(Append(n, p), segments)
             /\ c \in Under(t, m, segments, Append(n, p))

LEMMA UnderSplit ==
  ASSUME NEW t, Shape(t), NEW m, NEW S, NEW segments \in Seq(S), NEW n \in DOMAIN t, Reached(n, segments),
         NEW c \in Under(t, m, segments, n)
  PROVE  Split(t, m, segments, n, c)
<1> USE DEF Split
<1>1. /\ n \in Seq(Plain) /\ c \in Seq(Plain) /\ WildLast(c) /\ c \in DOMAIN t
      /\ Len(n) \in Nat /\ Len(c) \in Nat /\ Len(segments) \in Nat
      /\ Len(n) <= Len(c) /\ SubSeq(c, 1, Len(n)) = n /\ t[c][m] # 0 /\ FitsWhole(c, segments)
      /\ \A k \in 0 .. Len(c) : SubSeq(c, 1, k) \in DOMAIN t
  <2>1. \A x \in DOMAIN t : x \in Seq(Plain) /\ WildLast(x) /\ \A k \in 0 .. Len(x) : SubSeq(x, 1, k) \in DOMAIN t
    BY DEF Shape, WildLast
  <2>2. n \in Seq(Plain) /\ c \in Seq(Plain)
    BY <2>1 DEF Under
  <2>3. QED
    BY <2>1, <2>2 DEF Under
<1>2. /\ \A k \in 1 .. Len(c) :
           /\ c[k].kind \in Wild => Len(segments) >= k - 1 /\ (c[k].kind = "multi" => Len(segments) >= k)
           /\ c[k].kind \notin Wild => k <= Len(segments) /\ Fits(c[k], segments[k])
      /\ (\A k \in 1 .. Len(c) : c[k].kind \notin Wild) => Len(segments) = Len(c)
  BY <1>1, FitsIff
<1>3. CASE Len(c) = Len(n)
  <2>1. Len(c) \in 0 .. Len(c)
    BY <1>1
  <2>2. c = n
    BY <1>1, <1>3, <2>1, TakeFacts
  <2>3. QED
    BY <1>2, <2>2 DEF Reached
<1>4. CASE Len(n) < Len(c)
  <2> DEFINE p == c[Len(n) + 1]
  <2>1. Len(n) + 1 \in 1 .. Len(c) /\ p \in Plain
    BY <1>1, <1>4
  <2>2. SubSeq(c, 1, Len(n) + 1) = Append(n, p) /\ Append(n, p) \in DOMAIN t
    <3>1. Len(n) \in 0 .. Len(c) /\ Len(n) + 1 \in 0 .. Len(c)
      BY <1>1, <1>4
    <3>2. SubSeq(c, 1, Len(n)) = n /\ Len(n) < Len(c) /\ c \in Seq(Plain)
      BY <1>1, <1>4
    <3>3. SubSeq(c, 1, Len(n) + 1) = Append(SubSeq(c, 1, Len(n)), c[Len(n) + 1])
      BY <3>1, <3>2, TakeFacts
    <3>4. QED
      BY <1>1, <3>1, <3>2, <3>3
  <2>3. Append(n, p) \in Seq(Plain) /\ Len(Append(n, p)) = Len(n) + 1
    BY <1>1, <2>1
  <2>4. CASE p.kind \in Wild
    <3>1. Len(n) + 1 = Len(c)
      BY <1>1, <2>1, <2>4 DEF WildLast
    <3>2. c = Append(n, p)
      <4>1. Len(c) \in 0 .. Len(c)
        BY <1>1
      <4>2. SubSeq(c, 1, Len(c)) = c
        BY <1>1, <4>1, TakeFacts
      <4>3. QED
        BY <2>2, <3>1, <4>2
    <3>3. p.kind = "multi" => Len(n) < Len(segments)
      BY <1>1, <1>2, <2>1, <2>4
    <3>4. QED
      BY <1>4, <2>1, <2>2, <2>4, <3>2, <3>3
  <2>5. CASE p.kind \notin Wild
    <3>1. Len(n) < Len(segments) /\ Fits(p, segments[Len(n) + 1])
      BY <1>1, <1>2, <2>1, <2>5
    <3>2. Reached(Append(n, p), segments)
      <4>1. ASSUME NEW k \in 1 .. Len(n) + 1
            PROVE  Append(n, p)[k].kind \notin Wild /\ Fits(Append(n, p)[k], segments[k])
        <5>1. CASE k = Len(n) + 1
          <6>1. Append(n, p)[k] = p
            BY <1>1, <2>1, <5>1
          <6>2. QED
            BY <2>5, <3>1, <5>1, <6>1
        <5>2. CASE k # Len(n) + 1
          <6>1. k \in 1 .. Len(n)
            BY <1>1, <5>2
          <6>2. Append(n, p)[k] = n[k]
            BY <1>1, <2>1, <6>1
          <6>3. QED
            BY <6>1, <6>2 DEF Reached
        <5>3. QED
          BY <5>1, <5>2
      <4>2. QED
        BY <1>1, <2>3, <3>1, <4>1 DEF Reached
    <3>3. c \in Under(t, m, segments, Append(n, p))
      BY <1>1, <1>4, <2>2, <2>3 DEF Under
    <3>4. QED
      BY <1>4, <2>1, <2>2, <2>5, <3>1, <3>2, <3>3
  <2>6. QED
    BY <2>4, <2>5
<1>5. QED
  BY <1>1, <1>3, <1>4

LEMMA BestAt ==
  ASSUME NEW t, Shape(t), NEW m \in Method, NEW S, NEW segments \in Seq(S),
         NEW f, IsFound(f, t, m, segments),
         NEW n \in DOMAIN t, Reached(n, segments),
         \A p \in Plain : Append(n, p) \in DOMAIN t /\ Reached(Append(n, p), segments) =>
           IsBest(f[Append(n, p)], Under(t, m, segments, Append(n, p)))
  PROVE  IsBest(f[n], Under(t, m, segments, n))
<1> DEFINE all == Under(t, m, segments, n)
           hits == Hits(t, segments, n, f)
           tails == Tails(t, m, segments, n)
           ends == Len(n) >= Len(segments) /\ t[n][m] # 0
           below(p) == Under(t, m, segments, Append(n, p))
<1>1. DOMAIN t \subseteq Seq(Plain) /\ \A x \in DOMAIN t : WildLast(x)
  BY DEF Shape, WildLast
<1>2. n \in Seq(Plain) /\ Len(n) \in Nat /\ Len(segments) \in Nat /\ Len(n) <= Len(segments)
  BY <1>1 DEF Reached
<1>3. f[n] = CASE ends -> n
               [] ~ends /\ hits # {} -> f[Append(n, FirstOf(hits))]
               [] ~ends /\ hits = {} /\ tails # {} -> Append(n, CHOOSE p \in tails : TRUE)
               [] OTHER -> None
  BY DEF IsFound, Visit
<1>4. hits = {p \in Plain : /\ Append(n, p) \in DOMAIN t
                            /\ Len(n) < Len(segments) /\ p.kind \notin Wild
                            /\ Fits(p, segments[Len(n) + 1])
                            /\ f[Append(n, p)] # None}
  BY <1>2, HitsFacts
<1>5. hits # {} => FirstOf(hits) \in hits /\ \A q \in hits \ {FirstOf(hits)} : Before(FirstOf(hits), q)
  BY <1>2, HitsFacts
<1>6. tails = {p \in Plain : /\ Append(n, p) \in DOMAIN t
                             /\ p.kind \in Wild /\ t[Append(n, p)][m] # 0
                             /\ p.kind = "multi" => Len(n) < Len(segments)}
  BY <1>1, <1>2, ChildrenFacts DEF Tails
<1>7. \A p \in Plain : /\ Append(n, p) \in Seq(Plain) /\ Len(Append(n, p)) = Len(n) + 1
                       /\ SubSeq(Append(n, p), 1, Len(n)) = n
                       /\ Append(n, p)[Len(n) + 1] = p
  <2>1. ASSUME NEW p \in Plain
        PROVE  /\ Append(n, p) \in Seq(Plain) /\ Len(Append(n, p)) = Len(n) + 1
               /\ Append(n, p)[Len(n) + 1] = p
               /\ Front(Append(n, p)) = n
    BY <1>2, AppendFacts
  <2>2. ASSUME NEW p \in Plain PROVE Front(Append(n, p)) = SubSeq(Append(n, p), 1, Len(n))
    BY <1>2, <2>1 DEF Front
  <2>3. QED
    BY <2>1, <2>2
<1>8. \A c \in all : /\ c \in DOMAIN t /\ c \in Seq(Plain) /\ Len(c) \in Nat /\ Len(n) <= Len(c)
                     /\ SubSeq(c, 1, Len(n)) = n /\ t[c][m] # 0 /\ FitsWhole(c, segments)
  BY <1>1 DEF Under
<1>9. ASSUME NEW p \in hits
      PROVE  /\ f[Append(n, p)] \in below(p)
             /\ \A c \in below(p) \ {f[Append(n, p)]} : Wins(f[Append(n, p)], c)
             /\ \A c \in below(p) : c \in all /\ Len(n) < Len(c) /\ c[Len(n) + 1] = p
  <2>1. p \in Plain /\ Append(n, p) \in DOMAIN t /\ f[Append(n, p)] # None /\ Append(n, p) \in Seq(Plain)
    BY <1>4, <1>7
  <2>2. Reached(Append(n, p), segments)
    <3>1. Len(n) < Len(segments) /\ p.kind \notin Wild /\ Fits(p, segments[Len(n) + 1])
      BY <1>4
    <3>2. Append(n, p)[Len(n) + 1] = p /\ \A k \in 1 .. Len(n) : Append(n, p)[k] = n[k]
      BY <1>2, <2>1, AppendFacts
    <3>3. \A k \in 1 .. Len(n) + 1 : k \in 1 .. Len(n) \/ k = Len(n) + 1
      BY <1>2
    <3>4. Len(Append(n, p)) = Len(n) + 1
      BY <1>7, <2>1
    <3>5. \A k \in 1 .. Len(n) + 1 : Append(n, p)[k].kind \notin Wild /\ Fits(Append(n, p)[k], segments[k])
      BY <3>1, <3>2, <3>3 DEF Reached
    <3>6. QED
      BY <1>2, <3>1, <3>4, <3>5 DEF Reached
  <2>3. IsBest(f[Append(n, p)], below(p))
    BY <2>1, <2>2
  <2>4. ASSUME NEW c \in below(p) PROVE c \in all /\ Len(n) < Len(c) /\ c[Len(n) + 1] = p
    <3>1. /\ c \in DOMAIN t /\ c \in Seq(Plain) /\ Len(c) \in Nat /\ Len(n) + 1 <= Len(c)
          /\ SubSeq(c, 1, Len(n) + 1) = Append(n, p) /\ t[c][m] # 0 /\ FitsWhole(c, segments)
      BY <1>1, <1>7, <2>1 DEF Under
    <3>2. Len(n) + 1 \in 0 .. Len(c) /\ Len(n) \in 0 .. Len(n) + 1 /\ Len(n) + 1 \in 1 .. Len(n) + 1
      BY <1>2, <3>1
    <3>3. SubSeq(SubSeq(c, 1, Len(n) + 1), 1, Len(n)) = SubSeq(c, 1, Len(n))
      BY <3>1, <3>2, TakeFacts
    <3>4. SubSeq(c, 1, Len(n) + 1)[Len(n) + 1] = c[Len(n) + 1]
      BY <3>1, <3>2, TakeFacts
    <3>5. SubSeq(c, 1, Len(n)) = n /\ c[Len(n) + 1] = p
      BY <1>7, <2>1, <3>1, <3>3, <3>4
    <3>6. Len(n) < Len(c)
      BY <1>2, <3>1
    <3>7. QED
      BY <3>1, <3>5, <3>6 DEF Under
  <2>5. QED
    BY <2>1, <2>3, <2>4 DEF IsBest
<1>10. ASSUME NEW c \in all, ~ends
       PROVE  \E p \in Plain : /\ Len(n) < Len(c) /\ c[Len(n) + 1] = p
                               /\ \/ p \in tails /\ c = Append(n, p)
                                  \/ p \in hits /\ c \in below(p)
  <2>1. ~(c = n /\ Len(n) = Len(segments))
    BY <1>2, <1>8, <1>10
  <2>2. PICK p \in Plain :
          /\ Len(n) < Len(c) /\ c[Len(n) + 1] = p /\ Append(n, p) \in DOMAIN t
          /\ \/ /\ p.kind \in Wild /\ c = Append(n, p)
                /\ p.kind = "multi" => Len(n) < Len(segments)
             \/ /\ p.kind \notin Wild /\ Len(n) < Len(segments) /\ Fits(p, segments[Len(n) + 1])
                /\ Reached(Append(n, p), segments)
                /\ c \in below(p)
    <3>1. c \in Under(t, m, segments, n)
      OBVIOUS
    <3> HIDE DEF below, all, ends
    <3>2. Split(t, m, segments, n, c)
      BY <3>1, UnderSplit
    <3>3. QED
      BY <2>1, <3>2 DEF below, Split
  <2>3. CASE p.kind \in Wild
    <3>1. c = Append(n, p) /\ p \in tails
      BY <1>6, <1>8, <2>2, <2>3
    <3>2. QED
      BY <2>2, <3>1
  <2>4. CASE p.kind \notin Wild
    <3>1. IsBest(f[Append(n, p)], below(p)) /\ c \in below(p)
      BY <2>2, <2>4
    <3>2. f[Append(n, p)] # None
      BY <3>1 DEF IsBest
    <3>3. p \in hits
      BY <1>4, <2>2, <2>4, <3>2
    <3>4. QED
      BY <2>2, <3>1, <3>3
  <2>5. QED
    BY <2>3, <2>4
<1>11. CASE ends
  <2>1. f[n] = n /\ n # None
    BY <1>2, <1>3, <1>11, NoneIsNoNode
  <2>2. n \in all
    <3>1. Len(n) \in 0 .. Len(n)
      BY <1>2
    <3>2. SubSeq(n, 1, Len(n)) = n
      BY <1>2, <3>1, TakeFacts
    <3>3. WildLast(n)
      BY <1>1
    <3>4. FitsWhole(n, segments)
      <4>1. Len(segments) = Len(n) /\ \A k \in 1 .. Len(n) : n[k].kind \notin Wild /\ Fits(n[k], segments[k])
        BY <1>2, <1>11 DEF Reached
      <4>2. \A k \in 1 .. Len(n) : k <= Len(segments)
        BY <1>2, <4>1
      <4>3. QED
        BY <1>2, <3>3, <4>1, <4>2, FitsIff
    <3>5. QED
      BY <1>2, <1>11, <3>2, <3>4 DEF Under
  <2>3. \A c \in all : Wins(n, c)
    BY <1>2, <1>8, WinsPrefix
  <2>4. QED
    BY <2>1, <2>2, <2>3 DEF IsBest
<1>12. CASE ~ends /\ hits # {}
  <2> DEFINE p == FirstOf(hits)
             leaf == f[Append(n, p)]
  <2>1. f[n] = leaf /\ p \in hits /\ \A q \in hits \ {p} : Before(p, q)
    BY <1>3, <1>5, <1>12
  <2>2. p \in Plain /\ p.kind \notin Wild
    BY <1>4, <2>1
  <2> HIDE DEF p
  <2>3. leaf \in below(p) /\ \A c \in below(p) \ {leaf} : Wins(leaf, c)
    BY <1>9, <2>1
  <2>4. leaf \in all /\ Len(n) < Len(leaf) /\ leaf[Len(n) + 1] = p /\ leaf \in Seq(Plain) /\ leaf # None
    BY <1>8, <1>9, <2>1, <2>3, NoneIsNoNode
  <2> HIDE DEF leaf
  <2>5. ASSUME NEW c \in all \ {leaf} PROVE Wins(leaf, c)
    <3>1. PICK q \in Plain : /\ Len(n) < Len(c) /\ c[Len(n) + 1] = q
                             /\ \/ q \in tails /\ c = Append(n, q)
                                \/ q \in hits /\ c \in below(q)
      BY <1>10, <1>12
    <3>2. CASE q = p
      <4>1. q \notin tails
        BY <1>6, <2>2, <3>2
      <4>2. QED
        BY <2>3, <3>1, <3>2, <4>1
    <3>3. CASE q # p
      <4>1. Before(p, q)
        <5>1. CASE q \in tails
          BY <1>6, <2>2, <5>1, BeforeFacts
        <5>2. QED
          BY <2>1, <3>1, <3>3, <5>1
      <4>2. QED
        BY <1>2, <1>8, <2>4, <3>1, <4>1, WinsAt
    <3>4. QED
      BY <3>2, <3>3
  <2>6. QED
    BY <2>1, <2>4, <2>5 DEF IsBest
<1>13. CASE ~ends /\ hits = {} /\ tails # {}
  <2> DEFINE p == CHOOSE p \in tails : TRUE
             leaf == Append(n, p)
  <2>1. f[n] = leaf /\ p \in tails
    BY <1>3, <1>13
  <2> HIDE DEF p
  <2>2. p \in Plain /\ p.kind \in Wild /\ leaf \in DOMAIN t /\ t[leaf][m] # 0 /\ (p.kind = "multi" => Len(n) < Len(segments))
    BY <1>6, <2>1
  <2>3. leaf \in Seq(Plain) /\ Len(leaf) = Len(n) + 1 /\ SubSeq(leaf, 1, Len(n)) = n /\ leaf[Len(n) + 1] = p /\ leaf # None
    BY <1>7, <2>2, NoneIsNoNode
  <2>4. FitsWhole(leaf, segments)
    <3>1. WildLast(leaf)
      BY <1>1, <2>2
    <3>2. \A k \in 1 .. Len(n) : leaf[k] = n[k]
      BY <1>2, <2>2, AppendFacts
    <3>3. \A k \in 1 .. Len(n) : n[k].kind \notin Wild /\ Fits(n[k], segments[k]) /\ k <= Len(segments)
      BY <1>2 DEF Reached
    <3>4. \A k \in 1 .. Len(leaf) : k \in 1 .. Len(n) \/ k = Len(n) + 1
      BY <1>2, <2>3
    <3>5. Len(n) + 1 \in 1 .. Len(leaf)
      BY <1>2, <2>3
    <3> HIDE DEF leaf
    <3>6. ~ \A k \in 1 .. Len(leaf) : leaf[k].kind \notin Wild
      BY <2>2, <2>3, <3>5
    <3>7. ASSUME NEW k \in 1 .. Len(leaf)
          PROVE  /\ leaf[k].kind \in Wild => Len(segments) >= k - 1 /\ (leaf[k].kind = "multi" => Len(segments) >= k)
                 /\ leaf[k].kind \notin Wild => k <= Len(segments) /\ Fits(leaf[k], segments[k])
      <4>1. CASE k \in 1 .. Len(n)
        BY <3>2, <3>3, <4>1
      <4>2. CASE k = Len(n) + 1
        BY <1>2, <2>2, <2>3, <4>2
      <4>3. QED
        BY <3>4, <4>1, <4>2
    <3>8. QED
      BY <2>3, <3>1, <3>6, <3>7, FitsIff
  <2>5. leaf \in all
    <3> HIDE DEF leaf
    <3>1. Len(n) <= Len(leaf)
      BY <1>2, <2>3
    <3>2. QED
      BY <2>2, <2>3, <2>4, <3>1 DEF Under
  <2>6. ASSUME NEW c \in all PROVE c = leaf
    <3>1. PICK q \in Plain : q \in tails /\ c = Append(n, q)
      BY <1>10, <1>13
    <3>2. Compatible(p, q)
      BY <1>2, <1>6, <2>2, <3>1 DEF Shape
    <3>3. q.kind \in Wild
      BY <1>6, <3>1
    <3>4. p = q
      BY <2>2, <3>2, <3>3 DEF Compatible
    <3>5. QED
      BY <3>1, <3>4
  <2> HIDE DEF leaf
  <2>7. QED
    BY <2>1, <2>3, <2>5, <2>6 DEF IsBest
<1>14. CASE ~ends /\ hits = {} /\ tails = {}
  <2>1. f[n] = None
    BY <1>3, <1>14
  <2>2. all = {}
    BY <1>10, <1>14
  <2>3. QED
    BY <2>1, <2>2 DEF IsBest
<1>15. QED
  BY <1>11, <1>12, <1>13, <1>14

(* The matcher finds the best of all leaves that fit the path. *)
LEMMA BestWalk ==
  ASSUME NEW t, Shape(t), NEW m \in Method, NEW S, NEW segments \in Seq(S)
  PROVE  IsBest(Walk(t, m, segments), {c \in DOMAIN t : t[c][m] # 0 /\ FitsWhole(c, segments)})
<1>1. PICK f : IsFound(f, t, m, segments) /\ Walk(t, m, segments) = f[<< >>]
  BY WalkIsFound
<1>2. DOMAIN t \subseteq Seq(Plain) /\ << >> \in DOMAIN t /\ Len(segments) \in Nat
  BY DEF Shape
<1> DEFINE good == {k \in Nat : \A n \in DOMAIN t : Reached(n, segments) /\ Len(n) + k >= Len(segments) =>
                      IsBest(f[n], Under(t, m, segments, n))}
<1>3. 0 \in good
  <2>1. ASSUME NEW n \in DOMAIN t, Reached(n, segments), Len(n) + 0 >= Len(segments)
        PROVE  IsBest(f[n], Under(t, m, segments, n))
    <3>1. n \in Seq(Plain) /\ Len(n) \in Nat
      BY <1>2
    <3>2. \A p \in Plain : Len(Append(n, p)) = Len(n) + 1
      BY <3>1
    <3>3. \A p \in Plain : ~Reached(Append(n, p), segments)
      BY <1>2, <2>1, <3>1, <3>2 DEF Reached
    <3>4. QED
      BY <1>1, <2>1, <3>3, BestAt
  <2>2. QED
    BY <2>1
<1>4. ASSUME NEW k \in Nat, k \in good PROVE k + 1 \in good
  <2>1. ASSUME NEW n \in DOMAIN t, Reached(n, segments), Len(n) + (k + 1) >= Len(segments)
        PROVE  IsBest(f[n], Under(t, m, segments, n))
    <3>1. n \in Seq(Plain) /\ Len(n) \in Nat
      BY <1>2
    <3>2. \A p \in Plain : Len(Append(n, p)) + k >= Len(segments)
      BY <1>2, <2>1, <3>1
    <3>3. \A p \in Plain : Append(n, p) \in DOMAIN t /\ Reached(Append(n, p), segments) =>
            IsBest(f[Append(n, p)], Under(t, m, segments, Append(n, p)))
      BY <1>4, <3>2
    <3>4. QED
      BY <1>1, <2>1, <3>3, BestAt
  <2>2. QED
    BY <2>1
<1>5. Len(segments) \in good
  <2> HIDE DEF good
  <2>1. QED
    BY <1>2, <1>3, <1>4, SetInduction
<1>6. Reached(<< >>, segments) /\ Len(<< >>) + Len(segments) >= Len(segments)
  BY <1>2 DEF Reached
<1>7. IsBest(f[<< >>], Under(t, m, segments, << >>))
  BY <1>2, <1>5, <1>6
<1>8. Under(t, m, segments, << >>) = {c \in DOMAIN t : t[c][m] # 0 /\ FitsWhole(c, segments)}
  <2>1. \A c \in DOMAIN t : Len(<< >>) <= Len(c) /\ SubSeq(c, 1, Len(<< >>)) = << >>
    <3>1. ASSUME NEW c \in DOMAIN t PROVE Len(<< >>) <= Len(c) /\ SubSeq(c, 1, Len(<< >>)) = << >>
      <4>1. c \in Seq(Plain) /\ Len(c) \in Nat /\ 0 \in 0 .. Len(c)
        BY <1>2
      <4>2. SubSeq(c, 1, 0) \in Seq(Plain) /\ Len(SubSeq(c, 1, 0)) = 0
        BY <4>1, TakeFacts
      <4>3. SubSeq(c, 1, 0) = << >>
        BY <4>2, EmptySeq
      <4>4. QED
        BY <4>1, <4>3
    <3>2. QED
      BY <3>1
  <2>2. QED
    BY <2>1 DEF Under
<1>9. QED
  BY <1>1, <1>7, <1>8

-----------------------------------------------------------------------------
(* The answer of the tree *)
LEMMA WinsAsymmetric ==
  ASSUME NEW a \in Seq(Plain), NEW b \in Seq(Plain), Wins(a, b), Wins(b, a)
  PROVE  a = b
<1>1. Len(a) \in Nat /\ Len(b) \in Nat /\ DOMAIN a = 1 .. Len(a) /\ DOMAIN b = 1 .. Len(b)
  OBVIOUS
<1>2. \A k \in DOMAIN a : a[k] \in Plain
  OBVIOUS
<1>3. \A k \in DOMAIN b : b[k] \in Plain
  OBVIOUS
<1>4. ASSUME NEW c \in Seq(Plain), NEW d \in Seq(Plain), IsPrefix(c, d)
      PROVE  Len(c) <= Len(d) /\ \A k \in 1 .. Len(c) : c[k] = d[k]
  <2>1. Len(c) \in 0 .. Len(c) /\ Len(c) \in 0 .. Len(d) /\ SubSeq(c, 1, Len(c)) = SubSeq(d, 1, Len(c))
    BY <1>4 DEF IsPrefix
  <2>2. \A k \in 1 .. Len(c) : SubSeq(c, 1, Len(c))[k] = c[k] /\ SubSeq(d, 1, Len(c))[k] = d[k]
    BY <2>1, TakeFacts
  <2>3. QED
    BY <2>1, <2>2
<1>5. CASE IsPrefix(a, b) /\ IsPrefix(b, a)
  <2>0. Len(a) <= Len(b) /\ \A k \in 1 .. Len(a) : a[k] = b[k]
    BY <1>4, <1>5
  <2>1. Len(a) = Len(b)
    <3>1. Len(b) <= Len(a)
      BY <1>4, <1>5
    <3>2. \A i, j \in Nat : i <= j /\ j <= i => i = j
      OBVIOUS
    <3>3. QED
      BY <1>1, <2>0, <3>1, <3>2
  <2>2. QED
    BY <2>0, <2>1, SeqEqual
<1>6. ASSUME NEW c \in Seq(Plain), NEW d \in Seq(Plain), IsPrefix(c, d),
             NEW k \in DOMAIN c \cap DOMAIN d, Before(d[k], c[k])
      PROVE  FALSE
  <2>1. c[k] = d[k] /\ c[k] \in Plain
    BY <1>4, <1>6
  <2>2. QED
    BY <1>6, <2>1, BeforeFacts
<1>7. ASSUME NEW k \in DOMAIN a \cap DOMAIN b, \A j \in 1 .. k - 1 : a[j] = b[j], Before(a[k], b[k]),
             NEW l \in DOMAIN b \cap DOMAIN a, \A j \in 1 .. l - 1 : b[j] = a[j], Before(b[l], a[l])
      PROVE  FALSE
  <2>1. a[k] \in Plain /\ b[k] \in Plain /\ a[l] \in Plain /\ b[l] \in Plain /\ k \in Nat \ {0} /\ l \in Nat \ {0}
    BY <1>1, <1>2, <1>3
  <2>2. a[k] # b[k] /\ a[l] # b[l]
    BY <1>7, <2>1, BeforeFacts
  <2>3. k = l
    BY <1>7, <2>1, <2>2
  <2>4. QED
    BY <1>7, <2>1, <2>3, BeforeFacts
<1>8. QED
  <2> DEFINE At(c, d) == \E k \in DOMAIN c \cap DOMAIN d :
                           (\A j \in 1 .. k - 1 : c[j] = d[j]) /\ Before(c[k], d[k])
  <2>1. (IsPrefix(a, b) \/ At(a, b)) /\ (IsPrefix(b, a) \/ At(b, a))
    BY DEF Wins
  <2>2. ~(IsPrefix(a, b) /\ At(b, a)) /\ ~(IsPrefix(b, a) /\ At(a, b))
    BY <1>6
  <2>3. ~(At(a, b) /\ At(b, a))
    BY <1>7
  <2> HIDE DEF At
  <2>4. QED
    BY <1>5, <2>1, <2>2, <2>3

Expected(rs, c, m, i) ==
  i \in DOMAIN rs /\ rs[i].method = m /\ \E v \in Range(Variants(rs[i].path)) : v.parts = c

(* Every variant of every route is in the tree, and nothing else. *)
TreeInv ==
  /\ Shape(tree)
  /\ \A c \in Seq(Plain), m \in Method, i \in Nat \ {0} :
       c \in DOMAIN tree /\ tree[c][m] = i <=> Expected(routes, c, m, i)

VariantSet == [parts : Seq(Plain), omitted : SUBSET Name]

Right(m, segments, handler, params) ==
  LET all == Candidates(m, segments)
      best == CHOOSE b \in all : \A c \in all \ {b} : Wins(b.parts, c.parts)
  IN IF all = {} THEN handler = 0
     ELSE /\ handler = best.index
          /\ {x \in params : x[2] # None} = Captured(best.parts, segments)

Leaves(m, segments) == {c \in DOMAIN tree : tree[c][m] # 0 /\ FitsWhole(c, segments)}

LEMMA CandidatesAreLeaves ==
  ASSUME TreeInv, routes \in Seq(Route), \A p \in Seq(Part) : Variants(p) \in Seq(VariantSet),
         NEW m \in Method, NEW segments
  PROVE  Candidates(m, segments) = {[index |-> tree[c][m], parts |-> c] : c \in Leaves(m, segments)}
<1>1. DOMAIN tree \subseteq Seq(Plain) /\ \A c \in DOMAIN tree : tree[c][m] \in Nat
  BY DEF TreeInv, Shape
<1>2. \A i \in DOMAIN routes : i \in Nat \ {0} /\ routes[i].path \in Seq(Part)
  <2>1. \A i \in DOMAIN routes : i \in Nat \ {0} /\ routes[i] \in Route
    OBVIOUS
  <2>2. QED
    BY <2>1, RouterAssumption
<1>3. ASSUME NEW x \in Candidates(m, segments)
      PROVE  x \in {[index |-> tree[c][m], parts |-> c] : c \in Leaves(m, segments)}
  <2>0. PICK i \in DOMAIN routes :
          \E v \in Range(Variants(routes[i].path)) :
            routes[i].method = m /\ FitsWhole(v.parts, segments) /\ x = [index |-> i, parts |-> v.parts]
    BY DEF Candidates
  <2>1. PICK v \in Range(Variants(routes[i].path)) :
          routes[i].method = m /\ FitsWhole(v.parts, segments) /\ x = [index |-> i, parts |-> v.parts]
    BY <2>0
  <2>2. v.parts \in Seq(Plain)
    <3>1. Variants(routes[i].path) \in Seq(VariantSet)
      BY <1>2
    <3>2. v \in VariantSet
      BY <3>1 DEF Range
    <3>3. QED
      BY <3>2 DEF VariantSet
  <2>3. Expected(routes, v.parts, m, i)
    BY <2>1 DEF Expected
  <2>4. v.parts \in DOMAIN tree /\ tree[v.parts][m] = i /\ i # 0
    BY <1>2, <2>2, <2>3 DEF TreeInv
  <2>5. QED
    BY <2>1, <2>4 DEF Leaves
<1>4. ASSUME NEW c \in Leaves(m, segments) PROVE [index |-> tree[c][m], parts |-> c] \in Candidates(m, segments)
  <2>1. c \in DOMAIN tree /\ c \in Seq(Plain) /\ tree[c][m] \in Nat \ {0} /\ FitsWhole(c, segments)
    BY <1>1 DEF Leaves
  <2>2. Expected(routes, c, m, tree[c][m])
    BY <2>1 DEF TreeInv
  <2>3. PICK v \in Range(Variants(routes[tree[c][m]].path)) : v.parts = c
    BY <2>2 DEF Expected
  <2>4. QED
    BY <2>1, <2>2, <2>3 DEF Expected, Candidates
<1>5. QED
  BY <1>3, <1>4

(* There is but one best candidate. *)
LEMMA RightIf ==
  ASSUME TreeInv, routes \in Seq(Route), \A p \in Seq(Part) : Variants(p) \in Seq(VariantSet),
         NEW m \in Method, NEW segments, NEW leaf \in Leaves(m, segments),
         \A c \in Leaves(m, segments) \ {leaf} : Wins(leaf, c),
         NEW params, {x \in params : x[2] # None} = Captured(leaf, segments)
  PROVE  Right(m, segments, tree[leaf][m], params)
<1> DEFINE all == Candidates(m, segments)
           b == [index |-> tree[leaf][m], parts |-> leaf]
           IsTop(x) == \A c \in all \ {x} : Wins(x.parts, c.parts)
<1>1. all = {[index |-> tree[c][m], parts |-> c] : c \in Leaves(m, segments)}
  BY CandidatesAreLeaves
<1>2. \A c \in Leaves(m, segments) : c \in Seq(Plain)
  BY DEF Leaves, TreeInv, Shape
<1> HIDE DEF all
<1>3. b \in all
  BY <1>1
<1>4. \A x \in all : x.parts \in Leaves(m, segments) /\ x = [index |-> tree[x.parts][m], parts |-> x.parts]
  BY <1>1
<1>5. IsTop(b)
  <2>1. ASSUME NEW c \in all \ {b} PROVE Wins(leaf, c.parts)
    BY <1>4
  <2>2. QED
    BY <2>1
<1>6. ASSUME NEW x \in all, IsTop(x) PROVE x = b
  <2>1. SUFFICES ASSUME x # b PROVE FALSE
    OBVIOUS
  <2>2. Wins(x.parts, leaf) /\ Wins(leaf, x.parts)
    <3>1. Wins(x.parts, b.parts) /\ Wins(b.parts, x.parts)
      BY <1>3, <1>5, <1>6, <2>1
    <3>2. QED
      BY <3>1
  <2>3. x.parts = leaf
    BY <1>2, <1>4, <2>2, WinsAsymmetric
  <2>4. QED
    BY <1>4, <2>1, <2>3
<1> HIDE DEF b
<1>7. (CHOOSE x \in all : IsTop(x)) = b
  <2>1. \E x \in all : IsTop(x)
    BY <1>3, <1>5
  <2> HIDE DEF IsTop
  <2>2. (CHOOSE x \in all : IsTop(x)) \in all /\ IsTop(CHOOSE x \in all : IsTop(x))
    BY <2>1
  <2>3. QED
    BY <1>6, <2>2
<1>8. all # {}
  BY <1>3
<1>9. (CHOOSE x \in all : \A c \in all \ {x} : Wins(x.parts, c.parts)) = b
  BY <1>7
<1>10. b.index = tree[leaf][m] /\ b.parts = leaf
  BY DEF b
<1>11. QED
  BY <1>8, <1>9, <1>10 DEF Right, all

LEMMA OneFacts ==
  ASSUME NEW S, NEW s \in S
  PROVE  <<s>> \in Seq(S) /\ Len(<<s>>) = 1 /\ <<s>>[1] = s
OBVIOUS

LEMMA CapturedFacts ==
  ASSUME NEW c \in Seq(Plain), WildLast(c), NEW segments \in Seq(STRING), FitsWhole(c, segments)
  PROVE  \A x \in Captured(c, segments) : x[2] # None
<1>1. ASSUME NEW k \in DOMAIN c, c[k].kind # "static"
      PROVE  (IF c[k].kind \in Wild THEN SubSeq(segments, k, Len(segments)) ELSE <<segments[k]>>) \in Seq(STRING)
  <2>1. k \in 1 .. Len(c) /\ k \in Nat /\ k >= 1 /\ Len(segments) \in Nat
    OBVIOUS
  <2>2. SubSeq(segments, k, Len(segments)) \in Seq(STRING)
    BY <2>1
  <2>3. c[k].kind \notin Wild => k <= Len(segments)
    BY <2>1, FitsIff
  <2>4. c[k].kind \notin Wild => segments[k] \in STRING
    BY <2>1, <2>3
  <2>5. ASSUME NEW s \in STRING PROVE <<s>> \in Seq(STRING)
    BY OneFacts
  <2>6. CASE c[k].kind \in Wild
    BY <2>2, <2>6
  <2>7. CASE c[k].kind \notin Wild
    BY <2>4, <2>5, <2>7
  <2>8. QED
    BY <2>6, <2>7
<1>2. ASSUME NEW x \in Captured(c, segments) PROVE x[2] # None
  <2>1. PICK k \in DOMAIN c : /\ c[k].kind # "static"
                              /\ x = <<c[k].name, IF c[k].kind \in Wild THEN SubSeq(segments, k, Len(segments))
                                                  ELSE <<segments[k]>> >>
    BY DEF Captured
  <2>2. x[2] \in Seq(STRING)
    BY <1>1, <2>1
  <2>3. QED
    BY <2>2, RouterAssumption
<1>3. QED
  BY <1>2

LEMMA TreeIsRight ==
  ASSUME TreeInv, routes \in Seq(Route), \A p \in Seq(Part) : Variants(p) \in Seq(VariantSet),
         NEW m \in Method, NEW path, Normalized(path) \in Seq(STRING)
  PROVE  Right(m, Normalized(path), Outcome(m, path).handler, Outcome(m, path).params)
<1> DEFINE segments == Normalized(path)
           leaf == Walk(tree, m, segments)
           captured == Captured(leaf, segments)
           params == WithDefaults(captured, tree[leaf][m])
<1>1. IsBest(leaf, Leaves(m, segments))
  BY BestWalk DEF Leaves, TreeInv
<1> HIDE DEF leaf
<1>2. CASE leaf = None
  <2>1. Leaves(m, segments) = {}
    BY <1>1, <1>2 DEF IsBest
  <2>2. Candidates(m, segments) = {}
    BY <2>1, CandidatesAreLeaves
  <2>3. Outcome(m, path).handler = 0
    BY <1>2 DEF Outcome, Miss, leaf
  <2>4. QED
    BY <2>2, <2>3 DEF Right
<1>3. CASE leaf # None
  <2>1. leaf \in Leaves(m, segments) /\ \A c \in Leaves(m, segments) \ {leaf} : Wins(leaf, c)
    BY <1>1, <1>3 DEF IsBest
  <2>2. leaf \in Seq(Plain) /\ WildLast(leaf) /\ FitsWhole(leaf, segments)
    BY <2>1 DEF Leaves, TreeInv, Shape, WildLast
  <2>3. \A x \in captured : x[2] # None
    BY <2>2, CapturedFacts
  <2>4. {x \in params : x[2] # None} = captured
    <3> HIDE DEF captured
    <3>1. params = captured \cup ((defaults[tree[leaf][m]] \ {x[1] : x \in captured}) \X {None})
      BY DEF WithDefaults
    <3>2. \A x \in (defaults[tree[leaf][m]] \ {y[1] : y \in captured}) \X {None} : x[2] = None
      OBVIOUS
    <3> HIDE DEF params
    <3>3. QED
      BY <2>3, <3>1, <3>2
  <2>5. Right(m, segments, tree[leaf][m], params)
    <3> HIDE DEF params
    <3>1. QED
      BY <2>1, <2>4, RightIf
  <2>6. Outcome(m, path) = [handler |-> tree[leaf][m], params |-> params]
    BY <1>3 DEF Outcome, leaf
  <2>7. QED
    BY <2>5, <2>6
<1>4. QED
  BY <1>2, <1>3

-----------------------------------------------------------------------------
(* Builder.addSegments() *)
LEMMA PrefixFacts ==
  ASSUME NEW parts \in Seq(Plain)
  PROVE  /\ IsFiniteSet(Prefixes(parts))
         /\ parts \in Prefixes(parts)
         /\ \A n \in Prefixes(parts) :
              /\ n \in Seq(Plain) /\ Len(n) \in 0 .. Len(parts) /\ n = SubSeq(parts, 1, Len(n))
              /\ \A k \in 1 .. Len(n) : n[k] = parts[k]
              /\ \A k \in 0 .. Len(n) : SubSeq(n, 1, k) \in Prefixes(parts)
<1>1. Prefixes(parts) = {SubSeq(parts, 1, l) : l \in 0 .. Len(parts)} /\ Len(parts) \in Nat
  BY DEF Prefixes
<1>2. IsFiniteSet(Prefixes(parts))
  <2> DEFINE f == [l \in 0 .. Len(parts) |-> SubSeq(parts, 1, l)]
  <2>1. f \in Surjection(0 .. Len(parts), Prefixes(parts))
    BY <1>1 DEF Surjection
  <2>2. IsFiniteSet(0 .. Len(parts))
    BY <1>1, FS_Interval
  <2> HIDE DEF f
  <2>3. QED
    BY <2>1, <2>2, FS_Surjection
<1>3. parts \in Prefixes(parts)
  <2>1. Len(parts) \in 0 .. Len(parts)
    BY <1>1
  <2>2. SubSeq(parts, 1, Len(parts)) = parts
    BY <2>1, TakeFacts
  <2>3. QED
    BY <1>1, <2>1, <2>2
<1>4. ASSUME NEW n \in Prefixes(parts)
      PROVE  /\ n \in Seq(Plain) /\ Len(n) \in 0 .. Len(parts) /\ n = SubSeq(parts, 1, Len(n))
             /\ \A k \in 1 .. Len(n) : n[k] = parts[k]
             /\ \A k \in 0 .. Len(n) : SubSeq(n, 1, k) \in Prefixes(parts)
  <2>1. PICK l \in 0 .. Len(parts) : n = SubSeq(parts, 1, l)
    BY <1>1
  <2>2. SubSeq(parts, 1, l) \in Seq(Plain) /\ Len(SubSeq(parts, 1, l)) = l
    BY TakeFacts
  <2>3. n \in Seq(Plain) /\ Len(n) = l /\ \A k \in 1 .. l : n[k] = parts[k]
    BY <2>1, <2>2, TakeFacts
  <2>4. ASSUME NEW k \in 0 .. l PROVE SubSeq(n, 1, k) \in Prefixes(parts)
    <3>1. SubSeq(n, 1, k) = SubSeq(parts, 1, k)
      BY <2>1, TakeFacts
    <3>2. k \in 0 .. Len(parts)
      BY <1>1
    <3>3. QED
      BY <1>1, <3>1, <3>2
  <2>5. QED
    BY <2>1, <2>3, <2>4
<1>5. QED
  BY <1>2, <1>3, <1>4

(* A new child of a node agrees with the children that are there. *)
LEMMA UnblockedFits ==
  ASSUME NEW t, Shape(t), NEW n \in Seq(Plain), NEW p \in Plain, ~Blocked(t, n, p),
         NEW q \in Plain, Append(n, q) \in DOMAIN t
  PROVE  Compatible(p, q)
<1>1. Children(t, n) = {c \in Plain : Append(n, c) \in DOMAIN t}
  <2>1. DOMAIN t \subseteq Seq(Plain)
    BY DEF Shape
  <2>2. QED
    BY <2>1, ChildrenFacts
<1>2. q \in Children(t, n)
  BY <1>1
<1>3. Known(t, n, p) => Compatible(p, q)
  BY DEF Known, Shape
<1>4. p.kind \in {"static", "param", "star", "multi", "zero"}
  BY PlainFacts
<1>5. CASE p.kind = "static"
  BY <1>5 DEF Compatible, Wild
<1>6. CASE p.kind = "param"
  <2>1. CASE Known(t, n, p)
    BY <1>3, <2>1
  <2>2. CASE ~Known(t, n, p)
    <3>1. ~(q.kind = "param" /\ q.name = p.name)
      BY <1>2, <1>6, <2>2 DEF Blocked
    <3>2. QED
      BY <1>6, <3>1 DEF Compatible, Wild
  <2>3. QED
    BY <2>1, <2>2
<1>7. CASE p.kind = "star"
  <2>1. Children(t, n) \ {p} = {}
    BY <1>7 DEF Blocked
  <2>2. QED
    BY <1>2, <2>1 DEF Compatible
<1>8. CASE p.kind \in {"multi", "zero"}
  <2>1. {c \in Children(t, n) : c.kind \in Wild} \ {p} = {}
    BY <1>8 DEF Blocked
  <2>2. q.kind \in Wild => q = p
    BY <1>2, <2>1
  <2>3. QED
    BY <1>8, <2>2 DEF Compatible
<1>9. QED
  BY <1>4, <1>5, <1>6, <1>7, <1>8

LEMMA InsertFacts ==
  ASSUME NEW t, Shape(t), NEW parts \in Seq(Plain), NEW m \in Method, NEW index \in Nat \ {0},
         ~Rejects(t, parts, m)
  PROVE  LET u == Insert(t, parts, m, index) IN
         /\ Shape(u)
         /\ \A c \in Seq(Plain), x \in Method, i \in Nat \ {0} :
              c \in DOMAIN u /\ u[c][x] = i <=>
                \/ c \in DOMAIN t /\ t[c][x] = i
                \/ c = parts /\ x = m /\ i = index
<1> DEFINE u == Insert(t, parts, m, index)
           row(n) == IF n \in DOMAIN t THEN t[n] ELSE NoHandler
<1>1. /\ << >> \in DOMAIN t /\ IsFiniteSet(DOMAIN t) /\ DOMAIN t \subseteq Seq(Plain)
      /\ \A n \in DOMAIN t :
           /\ t[n] \in [Method -> Nat]
           /\ \A k \in 0 .. Len(n) : SubSeq(n, 1, k) \in DOMAIN t
           /\ \A k \in 1 .. Len(n) : n[k].kind \in Wild => k = Len(n)
      /\ \A n \in Seq(Plain), p, q \in Plain :
           Append(n, p) \in DOMAIN t /\ Append(n, q) \in DOMAIN t => Compatible(p, q)
  BY DEF Shape
<1>2. DOMAIN u = DOMAIN t \cup Prefixes(parts)
  BY DEF Insert
<1>3. \A n \in DOMAIN u : u[n] = IF n = parts THEN [row(n) EXCEPT ![m] = index] ELSE row(n)
  BY DEF Insert
<1>4. \A n : row(n) \in [Method -> Nat]
  BY <1>1 DEF NoHandler
<1>5. \A k \in 1 .. Len(parts) : /\ parts[k].kind \in Wild => k = Len(parts)
                                 /\ ~Blocked(t, SubSeq(parts, 1, k - 1), parts[k])
  BY DEF Rejects
<1>6. ~(parts \in DOMAIN t /\ t[parts][m] # 0)
  BY DEF Rejects
<1> HIDE DEF u, row
<1>7. IsFiniteSet(DOMAIN u) /\ << >> \in DOMAIN u /\ parts \in DOMAIN u
  <2>1. IsFiniteSet(Prefixes(parts)) /\ parts \in Prefixes(parts)
    BY PrefixFacts
  <2>2. IsFiniteSet(DOMAIN t \cup Prefixes(parts))
    BY <1>1, <2>1, FS_Union
  <2>3. QED
    BY <1>1, <1>2, <2>1, <2>2
<1>8. ASSUME NEW n \in DOMAIN u
      PROVE  /\ n \in Seq(Plain) /\ u[n] \in [Method -> Nat]
             /\ \A k \in 0 .. Len(n) : SubSeq(n, 1, k) \in DOMAIN u
             /\ \A k \in 1 .. Len(n) : n[k].kind \in Wild => k = Len(n)
  <2>1. u[n] \in [Method -> Nat]
    BY <1>3, <1>4
  <2>2. CASE n \in DOMAIN t
    BY <1>1, <1>2, <2>1, <2>2
  <2>3. CASE n \in Prefixes(parts)
    <3>1. /\ n \in Seq(Plain) /\ Len(n) \in 0 .. Len(parts)
          /\ \A k \in 1 .. Len(n) : n[k] = parts[k]
          /\ \A k \in 0 .. Len(n) : SubSeq(n, 1, k) \in DOMAIN u
      BY <1>2, <2>3, PrefixFacts
    <3>2. ASSUME NEW k \in 1 .. Len(n), n[k].kind \in Wild PROVE k = Len(n)
      <4>1. k \in 1 .. Len(parts) /\ parts[k].kind \in Wild
        BY <3>1, <3>2
      <4>2. k = Len(parts) /\ k \in Nat /\ k <= Len(n) /\ Len(n) <= Len(parts)
        BY <1>5, <3>1, <4>1
      <4>3. QED
        BY <3>1, <4>2
    <3>3. QED
      BY <2>1, <3>1, <3>2
  <2>4. QED
    BY <1>2, <2>2, <2>3
<1>9. ASSUME NEW n \in Seq(Plain), NEW p \in Plain, Append(n, p) \in Prefixes(parts)
      PROVE  Len(n) + 1 \in 1 .. Len(parts) /\ p = parts[Len(n) + 1] /\ n = SubSeq(parts, 1, Len(n))
  <2> DEFINE c == Append(n, p)
  <2>1. c \in Seq(Plain) /\ Len(c) = Len(n) + 1 /\ Len(n) \in Nat /\ c[Len(n) + 1] = p /\ Front(c) = n
    BY AppendFacts
  <2>2. Front(c) = SubSeq(c, 1, Len(n))
    BY <2>1 DEF Front
  <2>3. Len(c) \in 0 .. Len(parts) /\ c = SubSeq(parts, 1, Len(c)) /\ \A k \in 1 .. Len(c) : c[k] = parts[k]
    BY <1>9, PrefixFacts
  <2> HIDE DEF c
  <2>4. Len(n) + 1 \in 1 .. Len(parts) /\ Len(n) + 1 \in 1 .. Len(c) /\ Len(n) \in 0 .. Len(c)
    BY <2>1, <2>3
  <2>5. SubSeq(SubSeq(parts, 1, Len(c)), 1, Len(n)) = SubSeq(parts, 1, Len(n))
    BY <2>3, <2>4, TakeFacts
  <2>6. QED
    BY <2>1, <2>2, <2>3, <2>4, <2>5
<1>10. ASSUME NEW n \in Seq(Plain), NEW p \in Plain, NEW q \in Plain,
              Append(n, p) \in Prefixes(parts), Append(n, q) \in DOMAIN t
       PROVE  Compatible(p, q)
  <2>1. Len(n) + 1 \in 1 .. Len(parts) /\ p = parts[Len(n) + 1] /\ n = SubSeq(parts, 1, Len(n)) /\ Len(n) \in Nat
    BY <1>9, <1>10
  <2>2. ~Blocked(t, SubSeq(parts, 1, Len(n) + 1 - 1), parts[Len(n) + 1])
    BY <1>5, <2>1
  <2>3. ~Blocked(t, n, p)
    <3>1. Len(n) + 1 - 1 = Len(n)
      BY <2>1
    <3>2. QED
      BY <2>1, <2>2, <3>1
  <2>4. QED
    BY <1>10, <2>3, UnblockedFits
<1>11. ASSUME NEW n \in Seq(Plain), NEW p \in Plain, NEW q \in Plain,
              Append(n, p) \in DOMAIN u, Append(n, q) \in DOMAIN u
       PROVE  Compatible(p, q)
  <2>1. Compatible(q, p) => Compatible(p, q)
    BY DEF Compatible
  <2>2. CASE Append(n, p) \in Prefixes(parts) /\ Append(n, q) \in Prefixes(parts)
    <3>1. p = q
      BY <1>9, <2>2
    <3>2. QED
      BY <3>1 DEF Compatible
  <2>3. QED
    BY <1>1, <1>2, <1>10, <1>11, <2>1, <2>2
<1>12. Shape(u)
  BY <1>7, <1>8, <1>11 DEF Shape
<1>13. ASSUME NEW c \in Seq(Plain), NEW x \in Method, NEW i \in Nat \ {0}
       PROVE  c \in DOMAIN u /\ u[c][x] = i <=>
                \/ c \in DOMAIN t /\ t[c][x] = i
                \/ c = parts /\ x = m /\ i = index
  <2>1. c \notin DOMAIN t => row(c)[x] = 0
    BY DEF row, NoHandler
  <2>2. c \in DOMAIN t => row(c) = t[c]
    BY DEF row
  <2>3. CASE c = parts
    <3>1. u[c] = [row(c) EXCEPT ![m] = index] /\ c \in DOMAIN u /\ row(c) \in [Method -> Nat]
      BY <1>3, <1>4, <1>7, <2>3
    <3>2. u[c][x] = IF x = m THEN index ELSE row(c)[x]
      BY <3>1
    <3>3. QED
      BY <1>6, <2>1, <2>2, <2>3, <3>1, <3>2
  <2>4. CASE c # parts
    <3>1. c \in DOMAIN u => u[c] = row(c)
      BY <1>3, <2>4
    <3>2. QED
      BY <1>2, <2>1, <2>2, <2>4, <3>1
  <2>5. QED
    BY <2>3, <2>4
<1>14. QED
  BY <1>12, <1>13 DEF u

-----------------------------------------------------------------------------
(* The variants of a route *)
LEMMA ConcatFacts ==
  ASSUME NEW S, NEW c \in Seq(S), NEW d \in Seq(S)
  PROVE  /\ c \o d \in Seq(S) /\ Len(c \o d) = Len(c) + Len(d)
         /\ \A i \in 1 .. Len(c) : (c \o d)[i] = c[i]
         /\ \A i \in 1 .. Len(d) : (c \o d)[Len(c) + i] = d[i]
OBVIOUS

LEMMA SuffixFacts ==
  ASSUME NEW S, NEW c \in Seq(S), NEW a \in 1 .. Len(c)
  PROVE  <<c[a]>> \o SubSeq(c, a + 1, Len(c)) = SubSeq(c, a, Len(c))
<1> DEFINE rest == SubSeq(c, a + 1, Len(c))
           one == <<c[a]>>
           all == SubSeq(c, a, Len(c))
<1>1. a \in Nat /\ Len(c) \in Nat /\ a >= 1 /\ a <= Len(c) /\ c[a] \in S
  OBVIOUS
<1>2. rest \in Seq(S) /\ Len(rest) = Len(c) - a /\ \A i \in 1 .. Len(c) - a : rest[i] = c[a + i]
  BY <1>1
<1>3. all \in Seq(S) /\ Len(all) = Len(c) - a + 1 /\ \A i \in 1 .. Len(c) - a + 1 : all[i] = c[a + i - 1]
  BY <1>1
<1>4. one \in Seq(S) /\ Len(one) = 1 /\ one[1] = c[a]
  BY <1>1
<1> HIDE DEF rest, all, one
<1>5. /\ one \o rest \in Seq(S) /\ Len(one \o rest) = 1 + Len(rest)
      /\ \A i \in 1 .. 1 : (one \o rest)[i] = one[i]
      /\ \A i \in 1 .. Len(rest) : (one \o rest)[1 + i] = rest[i]
  <2>1. /\ one \o rest \in Seq(S) /\ Len(one \o rest) = Len(one) + Len(rest)
        /\ \A i \in 1 .. Len(one) : (one \o rest)[i] = one[i]
        /\ \A i \in 1 .. Len(rest) : (one \o rest)[Len(one) + i] = rest[i]
    <3>1. one \in Seq(S) /\ rest \in Seq(S)
      BY <1>2, <1>4
    <3>2. QED
      BY ONLY <3>1, ConcatFacts
  <2>2. QED
    BY <1>4, <2>1
<1>6. ASSUME NEW i \in 1 .. Len(all) PROVE (one \o rest)[i] = all[i]
  <2>1. CASE i = 1
    BY <1>1, <1>3, <1>4, <1>5, <2>1
  <2>2. CASE i # 1
    <3>1. i - 1 \in 1 .. Len(rest) /\ 1 + (i - 1) = i /\ i \in 1 .. Len(c) - a + 1 /\ a + (i - 1) = a + i - 1
      BY <1>1, <1>2, <1>3, <2>2
    <3>2. (one \o rest)[1 + (i - 1)] = rest[i - 1] /\ rest[i - 1] = c[a + (i - 1)]
      BY <1>2, <1>5, <3>1
    <3>3. QED
      BY <1>3, <3>1, <3>2
  <2>3. QED
    BY <2>1, <2>2
<1>7. Len(one \o rest) = Len(all)
  BY <1>1, <1>2, <1>3, <1>5
<1>8. QED
  BY <1>3, <1>5, <1>6, <1>7, SeqEqual DEF rest, all, one

LEMMA TakenFacts ==
  ASSUME NEW v \in VariantSet, NEW p \in Part
  PROVE  /\ [p EXCEPT !.optional = FALSE] \in Plain
         /\ Skip(v, p) \in VariantSet /\ Take(v, p) \in VariantSet
         /\ Take(v, p).parts = <<[p EXCEPT !.optional = FALSE]>> \o v.parts
<1> DEFINE x == [p EXCEPT !.optional = FALSE]
<1>1. x \in Plain
  BY DEF Plain, Part
<1>2. v.parts \in Seq(Plain) /\ v.omitted \in SUBSET Name /\ p.name \in Name
  BY DEF VariantSet, Part
<1>3. Skip(v, p) \in VariantSet
  BY <1>2 DEF Skip, VariantSet
<1>4. <<x>> \o v.parts \in Seq(Plain)
  <2> HIDE DEF x
  <2>1. <<x>> \in Seq(Plain)
    BY <1>1, OneFacts
  <2>2. QED
    BY <1>2, <2>1, ConcatFacts
<1>5. Take(v, p) = [v EXCEPT !.parts = <<x>> \o v.parts]
  BY DEF Take
<1> HIDE DEF x
<1>6. Take(v, p) \in VariantSet /\ Take(v, p).parts = <<x>> \o v.parts
  BY <1>4, <1>5 DEF VariantSet
<1>7. QED
  BY <1>1, <1>3, <1>6 DEF x

LEMMA WithPartFacts ==
  ASSUME NEW p \in Part, NEW rest \in Seq(VariantSet)
  PROVE  /\ WithPart(p, rest) \in Seq(VariantSet)
         /\ \A j \in 1 .. Len(rest) : \E i \in 1 .. Len(WithPart(p, rest)) : WithPart(p, rest)[i] = Take(rest[j], p)
<1> DEFINE skipped == IF p.optional THEN [i \in DOMAIN rest |-> Skip(rest[i], p)] ELSE << >>
           taken == [i \in DOMAIN rest |-> Take(rest[i], p)]
<1>1. DOMAIN rest = 1 .. Len(rest) /\ Len(rest) \in Nat /\ \A i \in 1 .. Len(rest) : rest[i] \in VariantSet
  OBVIOUS
<1>2. taken \in Seq(VariantSet) /\ Len(taken) = Len(rest)
  <2>1. \A i \in 1 .. Len(rest) : Take(rest[i], p) \in VariantSet
    BY <1>1, TakenFacts
  <2>2. taken \in [1 .. Len(rest) -> VariantSet]
    BY <1>1, <2>1
  <2> HIDE DEF taken
  <2>3. QED
    BY <1>1, <2>2
<1>3. skipped \in Seq(VariantSet)
  <2>1. \A i \in 1 .. Len(rest) : Skip(rest[i], p) \in VariantSet
    BY <1>1, TakenFacts
  <2> DEFINE s == [i \in DOMAIN rest |-> Skip(rest[i], p)]
  <2>2. s \in [1 .. Len(rest) -> VariantSet]
    BY <1>1, <2>1
  <2> HIDE DEF s
  <2>3. s \in Seq(VariantSet)
    BY <1>1, <2>2
  <2>4. QED
    BY <2>3 DEF s
<1>4. WithPart(p, rest) = skipped \o taken
  BY DEF WithPart
<1>5. \A j \in 1 .. Len(rest) : taken[j] = Take(rest[j], p)
  BY <1>1
<1> HIDE DEF skipped, taken
<1>6. /\ WithPart(p, rest) \in Seq(VariantSet) /\ Len(WithPart(p, rest)) = Len(skipped) + Len(taken)
      /\ \A j \in 1 .. Len(taken) : WithPart(p, rest)[Len(skipped) + j] = taken[j]
  <2>1. /\ skipped \o taken \in Seq(VariantSet) /\ Len(skipped \o taken) = Len(skipped) + Len(taken)
        /\ \A j \in 1 .. Len(taken) : (skipped \o taken)[Len(skipped) + j] = taken[j]
    <3>1. skipped \in Seq(VariantSet) /\ taken \in Seq(VariantSet)
      BY <1>2, <1>3
    <3>2. QED
      BY <3>1
  <2>2. QED
    BY <1>4, <2>1
<1>7. ASSUME NEW j \in 1 .. Len(rest)
      PROVE  \E i \in 1 .. Len(WithPart(p, rest)) : WithPart(p, rest)[i] = Take(rest[j], p)
  <2>1. Len(skipped) \in Nat
    BY <1>3
  <2>2. Len(skipped) + j \in 1 .. Len(WithPart(p, rest))
    BY <1>1, <1>2, <1>6, <2>1
  <2>3. QED
    BY <1>2, <1>5, <1>6, <2>2
<1>8. QED
  BY <1>6, <1>7

LEMMA VariantsFacts ==
  ASSUME NEW path \in Seq(Part)
  PROVE  /\ Variants(path) \in Seq(VariantSet)
         /\ ~IsDynamic(path) => \E v \in Range(Variants(path)) : v.parts = path
<1> DEFINE N == Len(path)
           R == Reverse(path)
           base == << [parts |-> << >>, omitted |-> {}] >>
<1>1. N \in Nat /\ DOMAIN path = 1 .. N
  OBVIOUS
<1>2. DOMAIN R = 1 .. N /\ \A k \in 0 .. N - 1 : R[k + 1] = path[N - k] /\ N - k \in 1 .. N /\ R[k + 1] \in Part
  <2>1. R = [i \in 1 .. N |-> path[(N - i) + 1]]
    BY DEF Reverse
  <2> HIDE DEF R
  <2>2. DOMAIN R = 1 .. N
    BY <2>1
  <2>3. ASSUME NEW k \in 0 .. N - 1 PROVE R[k + 1] = path[N - k] /\ N - k \in 1 .. N /\ R[k + 1] \in Part
    <3>1. k + 1 \in 1 .. N /\ (N - (k + 1)) + 1 = N - k /\ N - k \in 1 .. N
      BY <1>1
    <3>2. R[k + 1] = path[N - k]
      BY <2>1, <3>1
    <3>3. QED
      BY <3>1, <3>2
  <2>4. QED
    BY <2>2, <2>3
<1>3. PICK tr : IsRun(tr, "parts", 0, base, R, N) /\ Variants(path) = tr[N]
  BY <1>1, <1>2, PartsRun
<1> HIDE DEF R, N
<1>4. tr[0] = base /\ \A k \in 0 .. N - 1 : tr[k + 1] = WithPart(R[k + 1], tr[k])
  BY <1>3 DEF IsRun, Step
<1>5. base \in Seq(VariantSet) /\ Len(base) = 1 /\ base[1].parts = << >>
  <2>1. [parts |-> << >>, omitted |-> {}] \in VariantSet
    BY DEF VariantSet
  <2>2. QED
    BY <2>1
<1> DEFINE good == {k \in Nat : k <= N =>
                      /\ tr[k] \in Seq(VariantSet)
                      /\ ~IsDynamic(path) => \E j \in 1 .. Len(tr[k]) : tr[k][j].parts = SubSeq(path, N - k + 1, N)}
<1>6. 0 \in good
  <2>1. SubSeq(path, N - 0 + 1, N) = << >>
    <3>1. SubSeq(path, N + 1, N) \in Seq(Part) /\ Len(SubSeq(path, N + 1, N)) = 0
      BY <1>1 DEF N
    <3>2. SubSeq(path, N + 1, N) = << >>
      BY <3>1, EmptySeq
    <3>3. N - 0 + 1 = N + 1
      BY <1>1
    <3>4. QED
      BY <3>2, <3>3
  <2>2. 1 \in 1 .. Len(base)
    BY <1>5
  <2> HIDE DEF base
  <2>3. QED
    BY <1>4, <1>5, <2>1, <2>2
<1>7. ASSUME NEW k \in Nat, k \in good PROVE k + 1 \in good
  <2>1. SUFFICES ASSUME k + 1 <= N
                 PROVE  /\ tr[k + 1] \in Seq(VariantSet)
                        /\ ~IsDynamic(path) =>
                             \E j \in 1 .. Len(tr[k + 1]) : tr[k + 1][j].parts = SubSeq(path, N - (k + 1) + 1, N)
    OBVIOUS
  <2> DEFINE p == R[k + 1]
  <2>2. k \in 0 .. N - 1 /\ k <= N
    BY <1>1, <2>1
  <2>3. /\ tr[k] \in Seq(VariantSet)
        /\ ~IsDynamic(path) => \E j \in 1 .. Len(tr[k]) : tr[k][j].parts = SubSeq(path, N - k + 1, N)
    BY <1>7, <2>2
  <2>4. tr[k + 1] = WithPart(p, tr[k]) /\ p = path[N - k] /\ N - k \in 1 .. N /\ p \in Part
    BY <1>2, <1>4, <2>2
  <2> HIDE DEF p
  <2>5. tr[k + 1] \in Seq(VariantSet)
    BY <2>3, <2>4, WithPartFacts
  <2>6. ASSUME ~IsDynamic(path)
        PROVE  \E j \in 1 .. Len(tr[k + 1]) : tr[k + 1][j].parts = SubSeq(path, N - (k + 1) + 1, N)
    <3>1. PICK j \in 1 .. Len(tr[k]) : tr[k][j].parts = SubSeq(path, N - k + 1, N)
      BY <2>3, <2>6
    <3>2. PICK i \in 1 .. Len(tr[k + 1]) : tr[k + 1][i] = Take(tr[k][j], p)
      <4>1. tr[k] \in Seq(VariantSet) /\ p \in Part /\ j \in 1 .. Len(tr[k])
        BY <2>3, <2>4
      <4>2. \E i \in 1 .. Len(WithPart(p, tr[k])) : WithPart(p, tr[k])[i] = Take(tr[k][j], p)
        BY <4>1, WithPartFacts
      <4>3. QED
        BY <2>4, <4>2
    <3>3. tr[k][j] \in VariantSet
      BY <2>3
    <3>4. tr[k + 1][i].parts = <<[p EXCEPT !.optional = FALSE]>> \o tr[k][j].parts
      BY <2>4, <3>2, <3>3, TakenFacts
    <3>5. [p EXCEPT !.optional = FALSE] = p
      <4>1. p.kind = "static"
        BY <1>1, <2>4, <2>6 DEF IsDynamic
      <4>2. p.optional = FALSE
        BY <2>4, <4>1 DEF Part
      <4>3. QED
        BY <2>4, <4>2 DEF Part
    <3>6. <<path[N - k]>> \o SubSeq(path, (N - k) + 1, N) = SubSeq(path, N - k, N)
      BY <2>4, SuffixFacts DEF N
    <3>7. N - (k + 1) + 1 = N - k
      BY <1>1
    <3>8. QED
      BY <2>4, <3>1, <3>2, <3>4, <3>5, <3>6, <3>7
  <2>7. QED
    BY <2>5, <2>6
<1>8. N \in good
  <2> HIDE DEF good
  <2>1. QED
    BY <1>1, <1>6, <1>7, SetInduction
<1>9. /\ Variants(path) \in Seq(VariantSet)
      /\ ~IsDynamic(path) => \E j \in 1 .. Len(Variants(path)) : Variants(path)[j].parts = SubSeq(path, N - N + 1, N)
  BY <1>1, <1>3, <1>8
<1>10. SubSeq(path, N - N + 1, N) = path
  <2>1. N - N + 1 = 1 /\ N \in 0 .. Len(path) /\ N = Len(path)
    BY <1>1 DEF N
  <2>2. SubSeq(path, 1, N) = path
    BY <2>1, TakeFacts
  <2>3. QED
    BY <2>1, <2>2
<1>11. QED
  <2>1. \A j \in 1 .. Len(Variants(path)) : Variants(path)[j] \in Range(Variants(path))
    BY <1>9 DEF Range
  <2>2. QED
    BY <1>9, <1>10, <2>1

-----------------------------------------------------------------------------
(* Builder.add(): all variants of a route, unless one is refused *)
LEMMA BuiltFacts ==
  ASSUME Shape(tree), NEW route \in Route, NEW index \in Nat \ {0}, ~Built(route, index).refused
  PROVE  LET u == Built(route, index).tree IN
         /\ Shape(u)
         /\ \A c \in Seq(Plain), x \in Method, i \in Nat \ {0} :
              c \in DOMAIN u /\ u[c][x] = i <=>
                \/ c \in DOMAIN tree /\ tree[c][x] = i
                \/ i = index /\ x = route.method /\ \E v \in Range(Variants(route.path)) : v.parts = c
<1> DEFINE vs == Variants(route.path)
           N == Len(vs)
           d == [method |-> route.method, index |-> index]
           base == [tree |-> tree, refused |-> FALSE, omitted |-> {}]
<1>1. route.method \in Method /\ route.path \in Seq(Part)
  BY RouterAssumption
<1>2. vs \in Seq(VariantSet)
  BY <1>1, VariantsFacts
<1>3. N \in Nat /\ DOMAIN vs = 1 .. N
  BY <1>2
<1>4. PICK tr : IsRun(tr, "variants", d, base, vs, N) /\ Built(route, index) = tr[N]
  BY <1>3, VariantsRun
<1>5. tr[0] = base /\ \A k \in 0 .. N - 1 : tr[k + 1] = AddVariant(tr[k], vs[k + 1], route.method, index)
  BY <1>4 DEF IsRun, Step
<1> HIDE DEF N, vs
<1> DEFINE added(k, c) == \E j \in 1 .. k : vs[j].parts = c
           grown(t, k) == \A c \in Seq(Plain), x \in Method, i \in Nat \ {0} :
                            c \in DOMAIN t /\ t[c][x] = i <=>
                              \/ c \in DOMAIN tree /\ tree[c][x] = i
                              \/ i = index /\ x = route.method /\ added(k, c)
           IsBuild(b) == b = [tree |-> b.tree, refused |-> b.refused, omitted |-> b.omitted]
           good == {k \in Nat : k <= N => /\ IsBuild(tr[k])
                                          /\ ~tr[k].refused => Shape(tr[k].tree) /\ grown(tr[k].tree, k)}
<1>6. 0 \in good
  <2>1. \A c : ~added(0, c)
    OBVIOUS
  <2>2. tr[0].tree = tree /\ IsBuild(tr[0])
    BY <1>5
  <2>3. QED
    BY <2>1, <2>2
<1>7. ASSUME NEW k \in Nat, k \in good PROVE k + 1 \in good
  <2>1. SUFFICES ASSUME k + 1 <= N
                 PROVE  /\ IsBuild(tr[k + 1])
                        /\ ~tr[k + 1].refused => Shape(tr[k + 1].tree) /\ grown(tr[k + 1].tree, k + 1)
    OBVIOUS
  <2> DEFINE b == tr[k]
             v == vs[k + 1]
             u == Insert(b.tree, v.parts, route.method, index)
  <2>2. k \in 0 .. N - 1 /\ k <= N /\ k + 1 \in 1 .. N
    BY <1>3, <2>1
  <2>3. tr[k + 1] = AddVariant(b, v, route.method, index)
    BY <1>5, <2>2
  <2>4. v.parts \in Seq(Plain)
    <3>1. v \in VariantSet
      BY <1>2, <1>3, <2>2
    <3>2. QED
      BY <3>1 DEF VariantSet
  <2> HIDE DEF b, v
  <2>5. b = [tree |-> b.tree, refused |-> b.refused, omitted |-> b.omitted]
    BY <1>7, <2>2 DEF b
  <2>6. CASE b.refused \/ Rejects(b.tree, v.parts, route.method)
    <3>1. tr[k + 1] = [b EXCEPT !.refused = TRUE]
      BY <2>3, <2>6 DEF AddVariant
    <3>2. tr[k + 1] = [tree |-> b.tree, refused |-> TRUE, omitted |-> b.omitted]
      BY <2>5, <3>1
    <3>3. QED
      BY <3>2
  <2>7. CASE ~(b.refused \/ Rejects(b.tree, v.parts, route.method))
    <3>1. tr[k + 1] = [b EXCEPT !.tree = u, !.omitted = Record(b.omitted, v)]
      BY <2>3, <2>7 DEF AddVariant
    <3> HIDE DEF u
    <3>2. tr[k + 1] = [tree |-> u, refused |-> b.refused, omitted |-> Record(b.omitted, v)]
      BY <2>5, <3>1
    <3>3. IsBuild(tr[k + 1]) /\ tr[k + 1].tree = u
      BY <3>2
    <3>4. Shape(b.tree) /\ grown(b.tree, k)
      BY <1>7, <2>2, <2>7 DEF b
    <3>5. /\ Shape(u)
          /\ \A c \in Seq(Plain), x \in Method, i \in Nat \ {0} :
               c \in DOMAIN u /\ u[c][x] = i <=>
                 \/ c \in DOMAIN b.tree /\ b.tree[c][x] = i
                 \/ c = v.parts /\ x = route.method /\ i = index
      BY <1>1, <2>4, <2>7, <3>4, InsertFacts DEF u
    <3>6. \A c : added(k + 1, c) <=> added(k, c) \/ v.parts = c
      <4>1. \A j \in 1 .. k + 1 : j \in 1 .. k \/ j = k + 1
        OBVIOUS
      <4>2. k + 1 \in 1 .. k + 1 /\ \A j \in 1 .. k : j \in 1 .. k + 1
        OBVIOUS
      <4>3. QED
        BY <4>1, <4>2 DEF v
    <3> HIDE DEF added
    <3>7. ASSUME NEW c \in Seq(Plain), NEW x \in Method, NEW i \in Nat \ {0}
          PROVE  c \in DOMAIN u /\ u[c][x] = i <=>
                   \/ c \in DOMAIN tree /\ tree[c][x] = i
                   \/ i = index /\ x = route.method /\ added(k + 1, c)
      <4>1. c \in DOMAIN u /\ u[c][x] = i <=>
              \/ c \in DOMAIN b.tree /\ b.tree[c][x] = i
              \/ c = v.parts /\ x = route.method /\ i = index
        BY <3>5
      <4>2. c \in DOMAIN b.tree /\ b.tree[c][x] = i <=>
              \/ c \in DOMAIN tree /\ tree[c][x] = i
              \/ i = index /\ x = route.method /\ added(k, c)
        BY <3>4
      <4>3. added(k + 1, c) <=> added(k, c) \/ v.parts = c
        BY <3>6
      <4>4. QED
        BY <4>1, <4>2, <4>3
    <3>8. QED
      BY <3>3, <3>5, <3>7
  <2>8. QED
    BY <2>6, <2>7
<1>8. N \in good
  <2> HIDE DEF good
  <2>1. QED
    BY <1>3, <1>6, <1>7, SetInduction
<1>9. Shape(tr[N].tree) /\ grown(tr[N].tree, N)
  BY <1>3, <1>4, <1>8
<1>10. \A c : added(N, c) <=> \E v \in Range(vs) : v.parts = c
  BY <1>3 DEF Range
<1> HIDE DEF added
<1>11. QED
  BY <1>4, <1>9, <1>10 DEF vs

-----------------------------------------------------------------------------
(* Processor.normalize() *)
LEMMA ResolveDotsFacts ==
  ASSUME NEW path \in Seq(STRING)
  PROVE  /\ ResolveDots(path) \in Seq(STRING)
         /\ (\A k \in 1 .. Len(path) : path[k] \notin {".", ".."}) => ResolveDots(path) = path
<1> DEFINE N == Len(path)
<1>1. N \in Nat /\ DOMAIN path = 1 .. N
  OBVIOUS
<1>2. PICK tr : IsRun(tr, "dots", 0, << >>, path, N) /\ ResolveDots(path) = tr[N]
  BY <1>1, DotsRun
<1>3. tr[0] = << >> /\ \A k \in 0 .. N - 1 : tr[k + 1] = ResolveDot(tr[k], path[k + 1])
  BY <1>2 DEF IsRun, Step
<1> DEFINE clean == \A k \in 1 .. N : path[k] \notin {".", ".."}
           good == {k \in Nat : k <= N => tr[k] \in Seq(STRING) /\ (clean => tr[k] = SubSeq(path, 1, k))}
<1>4. 0 \in good
  <2>1. 0 \in 0 .. Len(path)
    BY <1>1
  <2>2. SubSeq(path, 1, 0) \in Seq(STRING) /\ Len(SubSeq(path, 1, 0)) = 0
    BY <2>1, TakeFacts
  <2>3. SubSeq(path, 1, 0) = << >>
    BY <2>2, EmptySeq
  <2>4. QED
    BY <1>3, <2>2, <2>3
<1>5. ASSUME NEW k \in Nat, k \in good PROVE k + 1 \in good
  <2>1. SUFFICES ASSUME k + 1 <= N
                 PROVE  tr[k + 1] \in Seq(STRING) /\ (clean => tr[k + 1] = SubSeq(path, 1, k + 1))
    OBVIOUS
  <2> DEFINE s == path[k + 1]
  <2>2. k \in 0 .. N - 1 /\ k + 1 \in 1 .. N /\ k \in 0 .. Len(path) /\ k < Len(path) /\ s \in STRING
    BY <1>1, <2>1
  <2>3. tr[k + 1] = ResolveDot(tr[k], s)
    BY <1>3, <2>2
  <2>4. tr[k] \in Seq(STRING) /\ (clean => tr[k] = SubSeq(path, 1, k))
    BY <1>5, <2>2
  <2>5. ResolveDot(tr[k], s) \in Seq(STRING)
    <3>1. tr[k] # << >> => Front(tr[k]) \in Seq(STRING)
      BY <2>4, FrontLast
    <3>2. Append(tr[k], s) \in Seq(STRING)
      BY <2>2, <2>4
    <3>3. QED
      BY <2>4, <3>1, <3>2 DEF ResolveDot
  <2>6. ASSUME clean PROVE tr[k + 1] = SubSeq(path, 1, k + 1)
    <3>1. s \notin {".", ".."}
      BY <2>2, <2>6
    <3>2. tr[k + 1] = Append(SubSeq(path, 1, k), s)
      BY <2>3, <2>4, <2>6, <3>1 DEF ResolveDot
    <3>3. QED
      BY <2>2, <3>2, TakeFacts
  <2>7. QED
    BY <2>3, <2>5, <2>6
<1>6. N \in good
  <2> HIDE DEF good
  <2>1. QED
    BY <1>1, <1>4, <1>5, SetInduction
<1>7. N \in 0 .. Len(path)
  BY <1>1
<1>8. SubSeq(path, 1, N) = path
  BY <1>7, TakeFacts
<1>9. QED
  BY <1>1, <1>2, <1>6, <1>8

LEMMA BlankFacts ==
  /\ Blank \notin {".", ".."}
  /\ \A kept, s : CollapseSlash(kept, s) = IF s = Blank THEN kept ELSE Append(kept, s)
  /\ \A names : PathOf(names) = IF names = << >> THEN <<Blank>> ELSE names
BY Zenon DEF Blank, CollapseSlash, PathOf

Segment == STRING \ {Blank}

LEMMA WiderSeq ==
  ASSUME NEW S, NEW T, S \subseteq T, NEW c \in Seq(S)
  PROVE  c \in Seq(T)
OBVIOUS

LEMMA SegmentFacts ==
  /\ \A c \in Seq(Segment) : c \in Seq(STRING) /\ \A k \in 1 .. Len(c) : c[k] # Blank
  /\ \A s \in STRING : s # Blank => s \in Segment
  /\ << >> \in Seq(Segment)
<1>1. Segment \subseteq STRING /\ Blank \notin Segment /\ \A s \in STRING : s # Blank => s \in Segment
  BY DEF Segment
<1>2. ASSUME NEW c \in Seq(Segment) PROVE c \in Seq(STRING) /\ \A k \in 1 .. Len(c) : c[k] # Blank
  <2>1. \A k \in 1 .. Len(c) : c[k] \in Segment
    OBVIOUS
  <2>2. c \in Seq(STRING)
    BY <1>1, WiderSeq
  <2>3. QED
    BY <1>1, <2>1, <2>2
<1>3. << >> \in Seq(Segment)
  OBVIOUS
<1>4. QED
  BY <1>1, <1>2, <1>3

LEMMA NormalizedFacts ==
  ASSUME NEW path \in Seq(STRING)
  PROVE  /\ Normalized(path) \in Seq(STRING)
         /\ \A k \in 1 .. Len(Normalized(path)) : Normalized(path)[k] # Blank
         /\ (\A k \in 1 .. Len(path) : path[k] \notin {Blank, ".", ".."}) => Normalized(path) = path
<1> DEFINE flat == ResolveDots(path)
           N == Len(flat)
<1>0. flat \in Seq(STRING) /\ ((\A k \in 1 .. Len(path) : path[k] \notin {".", ".."}) => flat = path)
  BY ResolveDotsFacts
<1> HIDE DEF flat
<1>1. N \in Nat /\ DOMAIN flat = 1 .. N
  BY <1>0
<1>2. PICK tr : IsRun(tr, "slashes", 0, << >>, flat, N) /\ Normalized(path) = tr[N]
  BY <1>1, SlashesRun DEF flat
<1>3. tr[0] = << >> /\ \A k \in 0 .. N - 1 : tr[k + 1] = CollapseSlash(tr[k], flat[k + 1])
  BY <1>2 DEF IsRun, Step
<1> DEFINE clean == \A k \in 1 .. N : flat[k] # Blank
           good == {k \in Nat : k <= N => tr[k] \in Seq(Segment) /\ (clean => tr[k] = SubSeq(flat, 1, k))}
<1>4. 0 \in good
  <2>1. 0 \in 0 .. Len(flat)
    BY <1>1
  <2>2. SubSeq(flat, 1, 0) \in Seq(STRING) /\ Len(SubSeq(flat, 1, 0)) = 0
    BY <1>0, <2>1, TakeFacts
  <2>3. SubSeq(flat, 1, 0) = << >>
    BY <2>2, EmptySeq
  <2>4. QED
    BY <1>3, <2>3, SegmentFacts
<1>5. ASSUME NEW k \in Nat, k \in good PROVE k + 1 \in good
  <2>1. SUFFICES ASSUME k + 1 <= N
                 PROVE  tr[k + 1] \in Seq(Segment) /\ (clean => tr[k + 1] = SubSeq(flat, 1, k + 1))
    OBVIOUS
  <2> DEFINE s == flat[k + 1]
  <2>2. k \in 0 .. N - 1 /\ k + 1 \in 1 .. N /\ k \in 0 .. Len(flat) /\ k < Len(flat) /\ s \in STRING
    BY <1>0, <1>1, <2>1
  <2>3. tr[k + 1] = CollapseSlash(tr[k], s)
    BY <1>3, <2>2
  <2>4. tr[k] \in Seq(Segment) /\ (clean => tr[k] = SubSeq(flat, 1, k))
    BY <1>5, <2>2
  <2>5. CollapseSlash(tr[k], s) \in Seq(Segment)
    <3>1. s # Blank => s \in Segment
      BY <2>2, SegmentFacts
    <3> HIDE DEF s
    <3>2. s # Blank => Append(tr[k], s) \in Seq(Segment)
      BY <2>4, <3>1
    <3>3. QED
      BY <2>4, <3>2, BlankFacts
  <2>6. ASSUME clean PROVE tr[k + 1] = SubSeq(flat, 1, k + 1)
    <3>1. s # Blank
      BY <2>2, <2>6
    <3>2. tr[k + 1] = Append(SubSeq(flat, 1, k), s)
      BY <2>3, <2>4, <2>6, <3>1, BlankFacts
    <3>3. QED
      BY <1>0, <2>2, <3>2, TakeFacts
  <2>7. QED
    BY <2>3, <2>5, <2>6
<1>6. N \in good
  <2> HIDE DEF good
  <2>1. QED
    BY <1>1, <1>4, <1>5, SetInduction
<1>7. N \in 0 .. Len(flat)
  BY <1>1
<1>8. SubSeq(flat, 1, N) = flat
  BY <1>0, <1>7, TakeFacts
<1>9. Normalized(path) \in Seq(Segment) /\ (clean => Normalized(path) = flat)
  BY <1>1, <1>2, <1>6, <1>8
<1>10. Normalized(path) \in Seq(STRING) /\ \A k \in 1 .. Len(Normalized(path)) : Normalized(path)[k] # Blank
  BY <1>9, SegmentFacts
<1>11. ASSUME \A k \in 1 .. Len(path) : path[k] \notin {Blank, ".", ".."} PROVE Normalized(path) = path
  <2>1. flat = path
    BY <1>0, <1>11
  <2>2. clean
    BY <1>11, <2>1
  <2>3. QED
    BY <1>9, <2>1, <2>2
<1>12. QED
  BY <1>10, <1>11


(* "/" *)
LEMMA RootFacts == Normalized(<<Blank>>) = << >>
<1> DEFINE root == <<Blank>>
<1>1. DOMAIN root = 1 .. 1 /\ root[1] = Blank /\ Append(<< >>, Blank) = root
  OBVIOUS
<1> HIDE DEF root
<1>2. PICK tr : IsRun(tr, "dots", 0, << >>, root, 1) /\ ResolveDots(root) = tr[1]
  BY <1>1, DotsRun
<1>3. tr[0] = << >> /\ tr[0 + 1] = ResolveDot(tr[0], root[0 + 1])
  BY <1>2 DEF IsRun, Step
<1>4. ResolveDots(root) = root
  BY <1>1, <1>2, <1>3, BlankFacts DEF ResolveDot
<1>5. DOMAIN ResolveDots(root) = 1 .. 1
  BY <1>1, <1>4
<1>6. PICK sl : IsRun(sl, "slashes", 0, << >>, ResolveDots(root), 1) /\ Normalized(root) = sl[1]
  BY <1>5, SlashesRun
<1>7. sl[0] = << >> /\ sl[0 + 1] = CollapseSlash(sl[0], root[0 + 1])
  BY <1>4, <1>6 DEF IsRun, Step
<1>8. sl[1] = << >>
  BY <1>1, <1>7, BlankFacts
<1>9. QED
  BY <1>6, <1>8 DEF root

-----------------------------------------------------------------------------
(* The answers of the static map *)
NamesOf(path) == [k \in DOMAIN path |-> path[k].name]

LEMMA LeastNatural ==
  ASSUME NEW S \in SUBSET Nat, S # {}
  PROVE  \E n \in S : \A k \in S : n <= k
<1>1. PICK n \in S : \A k \in S : ~(<<k, n>> \in OpToRel(<, Nat))
  BY NatLessThanWellFounded, WFMin
<1>2. ASSUME NEW k \in S PROVE n <= k
  <2>1. k \in Nat /\ n \in Nat /\ ~(k < n)
    BY <1>1 DEF OpToRel
  <2>2. QED
    BY <2>1
<1>3. QED
  BY <1>2

LEMMA NamesFacts ==
  ASSUME NEW path \in Seq(Part), ~IsDynamic(path)
  PROVE  /\ path \in Seq(Plain) /\ \A k \in 1 .. Len(path) : path[k].kind = "static"
         /\ NamesOf(path) \in Seq(STRING) /\ Len(NamesOf(path)) = Len(path)
         /\ \A k \in 1 .. Len(path) : NamesOf(path)[k] = path[k].name
         /\ \A k \in 1 .. Len(path) : NamesOf(path)[k] # Blank
         /\ Normalized(PathOf(NamesOf(path))) = NamesOf(path)
<1>1. Len(path) \in Nat /\ DOMAIN path = 1 .. Len(path) /\ path \in [1 .. Len(path) -> Part]
  OBVIOUS
<1>2. \A k \in 1 .. Len(path) : path[k].kind = "static" /\ path[k] \in Part
  BY <1>1 DEF IsDynamic
<1>3. \A p \in Part : p.kind = "static" => p \in Plain /\ p.name \in STRING
  <2>1. \A p \in Part : p.name \in Name /\ p.optional \in BOOLEAN /\ (p.kind = "static" => ~p.optional)
    BY DEF Part
  <2>2. QED
    BY <2>1, RouterAssumption DEF Plain
<1>4. path \in Seq(Plain)
  <2>1. path \in [1 .. Len(path) -> Plain]
    BY <1>1, <1>2, <1>3
  <2>2. QED
    BY <1>1, <2>1
<1> DEFINE names == NamesOf(path)
<1>5. \A k \in 1 .. Len(path) : names[k] = path[k].name
  BY <1>1 DEF NamesOf
<1>6. names \in Seq(STRING) /\ Len(names) = Len(path)
  <2>1. \A k \in 1 .. Len(path) : path[k].name \in STRING
    BY <1>2, <1>3
  <2>2. names = [k \in 1 .. Len(path) |-> path[k].name]
    BY <1>1 DEF NamesOf
  <2> HIDE DEF names
  <2>3. names \in [1 .. Len(path) -> STRING]
    BY <2>1, <2>2
  <2>4. QED
    BY <1>1, <2>2, <2>3
<1>7. \A k \in 1 .. Len(path) : names[k] \notin {Blank, ".", ".."}
  BY <1>2, <1>3, <1>5, PlainFacts
<1> HIDE DEF names
<1>8. Normalized(PathOf(names)) = names
  <2>1. CASE names = << >>
    BY <2>1, RootFacts, BlankFacts
  <2>2. CASE names # << >>
    <3>1. PathOf(names) = names
      BY <2>2, BlankFacts
    <3>2. \A k \in 1 .. Len(names) : names[k] \notin {Blank, ".", ".."}
      BY <1>6, <1>7
    <3>3. QED
      BY <1>6, <3>1, <3>2, NormalizedFacts
  <2>3. QED
    BY <2>1, <2>2
<1>9. QED
  BY <1>2, <1>4, <1>5, <1>6, <1>7, <1>8 DEF names

LEMMA PathOfInjective ==
  ASSUME NEW a \in Seq(STRING), NEW b \in Seq(STRING), PathOf(a) = PathOf(b),
         \A k \in 1 .. Len(a) : a[k] # Blank, \A k \in 1 .. Len(b) : b[k] # Blank
  PROVE  a = b
<1>1. a # <<Blank>> /\ b # <<Blank>>
  <2>1. Len(<<Blank>>) = 1 /\ <<Blank>>[1] = Blank /\ 1 \in 1 .. 1
    OBVIOUS
  <2>2. QED
    BY <2>1
<1>2. QED
  BY <1>1, BlankFacts

(* A route of static parts only is better than any other that fits. *)
LEMMA StaticIsRight ==
  ASSUME TreeInv, routes \in Seq(Route), NEW i \in DOMAIN routes, ~IsDynamic(routes[i].path)
  PROVE  Right(routes[i].method, NamesOf(routes[i].path), i, {})
<1> DEFINE path == routes[i].path
           m == routes[i].method
           names == NamesOf(path)
<1>1. path \in Seq(Part) /\ m \in Method /\ i \in Nat \ {0}
  <2>1. routes[i] \in Route /\ i \in Nat \ {0}
    OBVIOUS
  <2>2. QED
    BY <2>1, RouterAssumption
<1>2. /\ path \in Seq(Plain) /\ \A k \in 1 .. Len(path) : path[k].kind = "static"
      /\ names \in Seq(STRING) /\ Len(names) = Len(path)
      /\ \A k \in 1 .. Len(path) : names[k] = path[k].name
  BY <1>1, NamesFacts
<1>3. \A p \in Seq(Part) : Variants(p) \in Seq(VariantSet)
  BY VariantsFacts
<1>4. Expected(routes, path, m, i)
  BY <1>1, VariantsFacts DEF Expected
<1>5. path \in DOMAIN tree /\ tree[path][m] = i
  BY <1>1, <1>2, <1>4 DEF TreeInv
<1> HIDE DEF path, m, names
<1>6. Len(path) \in Nat /\ DOMAIN path = 1 .. Len(path)
  BY <1>2
<1>7. FitsWhole(path, names)
  <2>1. \A k \in 1 .. Len(path) : path[k].kind \notin Wild
    BY <1>2 DEF Wild
  <2>2. WildLast(path)
    BY <2>1 DEF WildLast
  <2>3. \A k \in 1 .. Len(path) : k <= Len(names) /\ Fits(path[k], names[k])
    BY <1>2, <1>6 DEF Fits
  <2>4. QED
    BY <1>2, <2>1, <2>2, <2>3, FitsIff
<1>8. path \in Leaves(m, names)
  BY <1>1, <1>5, <1>7 DEF Leaves
<1>9. ASSUME NEW c \in Leaves(m, names) \ {path} PROVE Wins(path, c)
  <2>1. c \in Seq(Plain) /\ WildLast(c) /\ FitsWhole(c, names) /\ c # path
    BY DEF Leaves, TreeInv, Shape, WildLast
  <2>2. /\ \A k \in 1 .. Len(c) :
             /\ c[k].kind \in Wild => Len(names) >= k - 1 /\ (c[k].kind = "multi" => Len(names) >= k)
             /\ c[k].kind \notin Wild => k <= Len(names) /\ Fits(c[k], names[k])
        /\ (\A k \in 1 .. Len(c) : c[k].kind \notin Wild) => Len(names) = Len(c)
    BY <1>2, <2>1, FitsIff
  <2>3. Len(c) \in Nat /\ DOMAIN c = 1 .. Len(c)
    BY <2>1
  <2>4. ASSUME NEW k \in 1 .. Len(c), c[k].kind = "static"
        PROVE  k \in 1 .. Len(path) /\ c[k] = path[k]
    <3>1. k <= Len(names) /\ Fits(c[k], names[k])
      BY <2>2, <2>4 DEF Wild
    <3>2. k \in 1 .. Len(path) /\ c[k].name = path[k].name
      BY <1>2, <1>6, <2>3, <2>4, <3>1 DEF Fits
    <3>3. c[k] \in Plain /\ path[k] \in Plain /\ path[k].kind = "static"
      BY <1>2, <2>1, <3>2
    <3>4. c[k] = [kind |-> "static", name |-> path[k].name, pattern |-> None, optional |-> FALSE]
      BY <2>4, <3>2, <3>3, PlainFacts
    <3>5. path[k] = [kind |-> "static", name |-> path[k].name, pattern |-> None, optional |-> FALSE]
      BY <3>3, PlainFacts
    <3>6. QED
      BY <3>2, <3>4, <3>5
  <2> DEFINE other == {k \in 1 .. Len(c) : c[k].kind # "static"}
  <2>5. other # {}
    <3>1. SUFFICES ASSUME other = {} PROVE FALSE
      OBVIOUS
    <3>2. \A k \in 1 .. Len(c) : c[k].kind = "static"
      BY <3>1
    <3>3. Len(c) = Len(path)
      BY <1>2, <2>2, <3>2 DEF Wild
    <3>4. \A k \in 1 .. Len(c) : c[k] = path[k]
      BY <2>4, <3>2
    <3>5. QED
      BY <1>2, <2>1, <3>3, <3>4, SeqEqual
  <2>6. PICK w \in other : \A k \in other : w <= k
    <3>1. other \in SUBSET Nat
      OBVIOUS
    <3>2. QED
      BY <2>5, <3>1, LeastNatural
  <2>7. \A k \in 1 .. w - 1 : k \in 1 .. Len(path) /\ c[k] = path[k]
    <3>1. ASSUME NEW k \in 1 .. w - 1 PROVE k \in 1 .. Len(c) /\ c[k].kind = "static"
      <4>1. w \in 1 .. Len(c) /\ k \in 1 .. Len(c) /\ ~(w <= k)
        BY <2>3
      <4>2. k \notin other
        BY <2>6, <4>1
      <4>3. QED
        BY <4>1, <4>2
    <3>2. QED
      BY <2>4, <3>1
  <2>8. w \in 1 .. Len(c) /\ c[w].kind # "static" /\ w \in Nat
    OBVIOUS
  <2> HIDE DEF other
  <2>9. CASE w <= Len(path)
    <3>1. w \in DOMAIN path \cap DOMAIN c
      BY <1>6, <2>3, <2>8, <2>9
    <3>2. path[w].kind = "static"
      BY <1>2, <1>6, <3>1
    <3>3. Before(path[w], c[w])
      BY <2>8, <3>2 DEF Before
    <3>4. QED
      BY <2>7, <3>1, <3>3 DEF Wins
  <2>10. CASE ~(w <= Len(path))
    <3>1. Len(path) <= w - 1 /\ Len(path) <= Len(c)
      BY <1>6, <2>3, <2>8, <2>10
    <3>2. Len(path) \in 0 .. Len(c) /\ Len(path) \in 0 .. Len(path)
      BY <1>6, <2>3, <3>1
    <3>3. /\ SubSeq(c, 1, Len(path)) \in Seq(Plain) /\ Len(SubSeq(c, 1, Len(path))) = Len(path)
          /\ \A k \in 1 .. Len(path) : SubSeq(c, 1, Len(path))[k] = c[k]
      BY <2>1, <3>2, TakeFacts
    <3>4. \A k \in 1 .. Len(path) : c[k] = path[k]
      BY <1>6, <2>7, <2>8, <3>1
    <3>5. SubSeq(c, 1, Len(path)) = path
      BY <1>2, <3>3, <3>4, SeqEqual
    <3>6. QED
      BY <1>2, <2>1, <3>1, <3>5, WinsPrefix
  <2>11. QED
    BY <2>9, <2>10
<1>10. {x \in {} : x[2] # None} = Captured(path, names)
  <2>1. Captured(path, names) = {}
    BY <1>2, <1>6 DEF Captured
  <2>2. QED
    BY <2>1
<1>11. Right(m, names, tree[path][m], {})
  BY <1>1, <1>3, <1>8, <1>9, <1>10, RightIf
<1>12. QED
  BY <1>5, <1>11 DEF path, m, names

-----------------------------------------------------------------------------
(* Every answer is that of the best route *)
StaticInv ==
  \A s \in staticMap :
    /\ s[3] \in DOMAIN routes /\ routes[s[3]].method = s[2]
    /\ ~IsDynamic(routes[s[3]].path) /\ s[1] = PathOf(NamesOf(routes[s[3]].path))

BestInv ==
  /\ routes \in Seq(Route)
  /\ ~refused => TreeInv
  /\ StaticInv
  /\ serving => ~refused
  /\ ~serving => answer = None
  /\ AnswerIsBest

LEMMA AnswerIsRight ==
  AnswerIsBest <=>
    (answer # None => Right(answer.method, Normalized(SearchPath(answer.request)), answer.handler, answer.params))
BY DEF AnswerIsBest, Right

LEMMA SameRoutes ==
  ASSUME UNCHANGED routes
  PROVE  \A m, segments, handler, params :
           Right(m, segments, handler, params)' = Right(m, segments, handler, params)
BY DEF Right, Candidates

LEMMA SameTreeInv ==
  ASSUME UNCHANGED <<routes, tree, staticMap>>
  PROVE  TreeInv' = TreeInv /\ StaticInv' = StaticInv
BY DEF TreeInv, StaticInv

LEMMA SearchFacts ==
  ASSUME NEW request \in Request
  PROVE  /\ SearchPath(request) \in Seq(STRING)
         /\ Normalized(SearchPath(request)) \in Seq(STRING)
         /\ \A k \in 1 .. Len(Normalized(SearchPath(request))) : Normalized(SearchPath(request))[k] # Blank
<1>1. SearchPath(request) = request \/ (Len(request) > 1 /\ SearchPath(request) = Front(request))
  BY Zenon DEF SearchPath
<1>2. request \in Seq(STRING)
  BY RouterAssumption
<1>3. Len(request) > 1 => Front(request) \in Seq(STRING)
  <2>1. Len(request) > 1 => request # << >>
    BY <1>2
  <2>2. QED
    BY <1>2, <2>1, FrontLast
<1>4. SearchPath(request) \in Seq(STRING)
  BY <1>1, <1>2, <1>3
<1>5. QED
  BY <1>4, NormalizedFacts

LEMMA BestInit == Init => BestInv
<1> SUFFICES ASSUME Init PROVE BestInv
  OBVIOUS
<1>1. routes = << >> /\ tree = [n \in {<< >>} |-> NoHandler] /\ staticMap = {} /\ ~serving /\ answer = None
  BY DEF Init
<1>2. Shape(tree)
  <2>1. DOMAIN tree = {<< >>} /\ IsFiniteSet({<< >>})
    BY <1>1, FS_Singleton
  <2>2. << >> \in Seq(Plain) /\ Len(<< >>) = 0 /\ tree[<< >>] \in [Method -> Nat]
    BY <1>1 DEF NoHandler
  <2>3. SubSeq(<< >>, 1, 0) = << >>
    <3>1. 0 \in 0 .. Len(<< >>)
      BY <2>2
    <3>2. SubSeq(<< >>, 1, 0) \in Seq(Plain) /\ Len(SubSeq(<< >>, 1, 0)) = 0
      BY <2>2, <3>1, TakeFacts
    <3>3. QED
      BY <3>2, EmptySeq
  <2>4. \A k \in 0 .. Len(<< >>) : k = 0
    BY <2>2
  <2>5. \A k \in 1 .. Len(<< >>) : FALSE
    BY <2>2
  <2>6. \A n \in Seq(Plain), p \in Plain : Append(n, p) # << >>
    BY AppendFacts
  <2>7. \A n \in DOMAIN tree :
          /\ n \in Seq(Plain) /\ tree[n] \in [Method -> Nat]
          /\ \A k \in 0 .. Len(n) : SubSeq(n, 1, k) \in DOMAIN tree
          /\ \A k \in 1 .. Len(n) : n[k].kind \in Wild => k = Len(n)
    BY <2>1, <2>2, <2>3, <2>4, <2>5
  <2>8. \A n \in Seq(Plain), p \in Plain : Append(n, p) \notin DOMAIN tree
    BY <2>1, <2>6
  <2>9. QED
    BY <2>1, <2>7, <2>8 DEF Shape
<1>3. TreeInv
  <2>1. \A c \in Seq(Plain), m \in Method, i \in Nat \ {0} : ~(c \in DOMAIN tree /\ tree[c][m] = i)
    BY <1>1 DEF NoHandler
  <2>2. \A c, m, i : ~Expected(routes, c, m, i)
    BY <1>1 DEF Expected
  <2>3. QED
    BY <1>2, <2>1, <2>2 DEF TreeInv
<1>4. QED
  BY <1>1, <1>3, AnswerIsRight DEF BestInv, StaticInv

LEMMA BestAdd ==
  ASSUME BestInv, NEW route \in Route, Add(route)
  PROVE  BestInv'
<1> DEFINE index == Len(routes) + 1
           names == NamesOf(route.path)
<1>1. routes \in Seq(Route) /\ Len(routes) \in Nat /\ ~refused /\ ~serving /\ answer = None /\ TreeInv /\ StaticInv
  BY DEF BestInv, Add
<1>2. /\ routes' = Append(routes, route) /\ UNCHANGED <<serving, answer>>
      /\ tree' = Built(route, index).tree /\ refused' = Built(route, index).refused
      /\ staticMap' = IF IsDynamic(route.path) THEN staticMap
                      ELSE {s \in staticMap : <<s[1], s[2]>> # <<PathOf(names), route.method>>}
                             \cup {<<PathOf(names), route.method, index>>}
  BY DEF Add, NamesOf
<1>3. route.path \in Seq(Part) /\ route.method \in Method /\ index \in Nat \ {0}
  BY <1>1, RouterAssumption
<1>4. /\ routes' \in Seq(Route) /\ DOMAIN routes' = DOMAIN routes \cup {index}
      /\ index \notin DOMAIN routes /\ routes'[index] = route
      /\ \A i \in DOMAIN routes : routes'[i] = routes[i]
  BY <1>1, <1>2
<1> HIDE DEF index, names
<1>5. ASSUME ~refused' PROVE TreeInv'
  <2> DEFINE u == Built(route, index).tree
  <2>1. ~Built(route, index).refused
    BY <1>2, <1>5
  <2>2. Shape(tree) /\ \A c \in Seq(Plain), m \in Method, i \in Nat \ {0} :
          c \in DOMAIN tree /\ tree[c][m] = i <=> Expected(routes, c, m, i)
    BY <1>1 DEF TreeInv
  <2>3. /\ Shape(u)
        /\ \A c \in Seq(Plain), x \in Method, i \in Nat \ {0} :
             c \in DOMAIN u /\ u[c][x] = i <=>
               \/ c \in DOMAIN tree /\ tree[c][x] = i
               \/ i = index /\ x = route.method /\ \E v \in Range(Variants(route.path)) : v.parts = c
    BY <1>3, <2>1, <2>2, BuiltFacts
  <2>4. ASSUME NEW c, NEW x, NEW i
        PROVE  Expected(routes', c, x, i) <=>
                 \/ Expected(routes, c, x, i)
                 \/ i = index /\ x = route.method /\ \E v \in Range(Variants(route.path)) : v.parts = c
    <3>1. CASE i \in DOMAIN routes
      BY <1>4, <3>1 DEF Expected
    <3>2. CASE i = index
      BY <1>4, <3>2 DEF Expected
    <3>3. CASE i \notin DOMAIN routes /\ i # index
      BY <1>4, <3>3 DEF Expected
    <3>4. QED
      BY <3>1, <3>2, <3>3
  <2> HIDE DEF u
  <2>5. \A c \in Seq(Plain), x \in Method, i \in Nat \ {0} :
          c \in DOMAIN u /\ u[c][x] = i <=> Expected(routes', c, x, i)
    BY <2>2, <2>3, <2>4
  <2>6. tree' = u
    BY <1>2 DEF u
  <2>7. Shape(tree') /\ \A c \in Seq(Plain), x \in Method, i \in Nat \ {0} :
          c \in DOMAIN tree' /\ tree'[c][x] = i <=> Expected(routes', c, x, i)
    BY <2>3, <2>5, <2>6
  <2>8. QED
    BY <2>7 DEF TreeInv
<1>6. StaticInv'
  <2>1. ASSUME NEW s \in staticMap'
        PROVE  /\ s[3] \in DOMAIN routes' /\ routes'[s[3]].method = s[2]
               /\ ~IsDynamic(routes'[s[3]].path) /\ s[1] = PathOf(NamesOf(routes'[s[3]].path))
    <3>1. CASE s \in staticMap
      BY <1>1, <1>4, <3>1 DEF StaticInv
    <3>2. CASE s \notin staticMap
      <4>1. ~IsDynamic(route.path) /\ s = <<PathOf(names), route.method, index>>
        BY <1>2, <3>2
      <4>2. s[1] = PathOf(names) /\ s[2] = route.method /\ s[3] = index
        BY <4>1
      <4>3. QED
        BY <1>4, <4>1, <4>2 DEF names
    <3>3. QED
      BY <3>1, <3>2
  <2>2. QED
    BY <2>1 DEF StaticInv
<1>7. AnswerIsBest'
  <2>1. answer' = None
    BY <1>1, <1>2
  <2>2. QED
    BY <2>1 DEF AnswerIsBest
<1>8. QED
  BY <1>1, <1>2, <1>4, <1>5, <1>6, <1>7 DEF BestInv

LEMMA BestMatch ==
  ASSUME RouterInv, BestInv, NEW m \in Method, NEW request \in Request, Match(m, request)
  PROVE  BestInv'
<1> DEFINE path == SearchPath(request)
           segments == Normalized(path)
<1>1. /\ serving /\ ~refused /\ TreeInv /\ StaticInv /\ routes \in Seq(Route) /\ cache \in Seq(Entries)
      /\ UNCHANGED <<routes, tree, staticMap, refused, serving>>
  BY DEF BestInv, RouterInv, CacheInv, Match
<1>2. segments \in Seq(STRING) /\ \A k \in 1 .. Len(segments) : segments[k] # Blank
  BY SearchFacts
<1>3. Right(m, segments, Outcome(m, path).handler, Outcome(m, path).params)
  <2>1. \A p \in Seq(Part) : Variants(p) \in Seq(VariantSet)
    BY VariantsFacts
  <2>2. QED
    BY <1>1, <1>2, <2>1, TreeIsRight
<1> HIDE DEF path, segments
<1>4. ASSUME NEW s \in staticMap, s[2] = m, s[1] = path \/ s[1] = PathOf(segments)
      PROVE  Right(m, segments, s[3], {})
  <2> DEFINE i == s[3]
             names == NamesOf(routes[i].path)
  <2>1. i \in DOMAIN routes /\ routes[i].method = m /\ ~IsDynamic(routes[i].path) /\ s[1] = PathOf(names)
    BY <1>1, <1>4 DEF StaticInv
  <2>2. routes[i].path \in Seq(Part)
    <3>1. routes[i] \in Route
      BY <1>1, <2>1
    <3>2. QED
      BY <3>1, RouterAssumption
  <2>3. /\ names \in Seq(STRING) /\ Normalized(PathOf(names)) = names
        /\ \A k \in 1 .. Len(names) : names[k] # Blank
    BY <2>1, <2>2, NamesFacts
  <2>4. Right(m, names, i, {})
    BY <1>1, <2>1, StaticIsRight
  <2> HIDE DEF names
  <2>5. segments = names
    <3>1. CASE s[1] = path
      BY <2>1, <2>3, <3>1 DEF segments
    <3>2. CASE s[1] = PathOf(segments)
      BY <1>2, <2>1, <2>3, <3>2, PathOfInjective
    <3>3. QED
      BY <1>4, <3>1, <3>2
  <2>6. QED
    BY <2>4, <2>5
<1>5. ASSUME NEW index \in StaticAt(path, m) \cup StaticAt(PathOf(segments), m)
      PROVE  Right(m, segments, index, {})
  <2>1. PICK s \in staticMap : s[2] = m /\ s[3] = index /\ (s[1] = path \/ s[1] = PathOf(segments))
    BY DEF StaticAt
  <2>2. QED
    BY <1>4, <2>1
<1>6. \E result : Answer(request, m, result) /\ Right(m, segments, result.handler, result.params)
  <2>1. ASSUME NEW index \in StaticAt(path, m) \cup StaticAt(PathOf(segments), m),
               Answer(request, m, [handler |-> index, params |-> {}])
        PROVE  \E result : Answer(request, m, result) /\ Right(m, segments, result.handler, result.params)
    <3>1. [handler |-> index, params |-> {}].handler = index /\ [handler |-> index, params |-> {}].params = {}
      OBVIOUS
    <3>2. QED
      BY <1>5, <2>1, <3>1
  <2>2. CASE MatchStatic(m, request)
    <3>1. PICK index \in StaticAt(path, m) : Answer(request, m, [handler |-> index, params |-> {}])
      BY <2>2 DEF MatchStatic, path
    <3>2. QED
      BY <2>1, <3>1
  <2>3. CASE MatchCached(m, request)
    <3>1. PICK i \in CachedAt(m, path) : Answer(request, m, cache[i].value)
      BY <2>3 DEF MatchCached, path
    <3>2. cache[i].value = Outcome(m, path)
      BY <1>1, EntryFound DEF path
    <3>3. QED
      BY <1>3, <3>1, <3>2
  <2>4. CASE MatchDynamic(m, request)
    <3>1. \/ \E index \in StaticAt(PathOf(segments), m) : Answer(request, m, [handler |-> index, params |-> {}])
          \/ Answer(request, m, Outcome(m, path))
      BY <2>4 DEF MatchDynamic, path, segments
    <3>2. QED
      BY <1>3, <2>1, <3>1
  <2>5. QED
    BY <2>2, <2>3, <2>4 DEF Match
<1>7. PICK result : Answer(request, m, result) /\ Right(m, segments, result.handler, result.params)
  BY <1>6
<1>8. /\ answer'.method = m /\ answer'.request = request
      /\ answer'.handler = result.handler /\ answer'.params = result.params
  BY <1>7 DEF Answer
<1>9. Right(m, segments, result.handler, result.params)' = Right(m, segments, result.handler, result.params)
  BY <1>1, SameRoutes
<1>10. AnswerIsBest'
  <2>1. AnswerIsBest' <=>
          (answer' # None => Right(answer.method, Normalized(SearchPath(answer.request)), answer.handler, answer.params)')
    BY DEF AnswerIsBest, Right
  <2>2. QED
    BY <1>7, <1>8, <1>9, <2>1, SameRoutes DEF path, segments
<1>11. TreeInv' /\ StaticInv'
  BY <1>1, SameTreeInv
<1>12. QED
  BY <1>1, <1>10, <1>11 DEF BestInv

LEMMA BestInductive == RouterInv /\ BestInv /\ [Next]_vars => BestInv'
<1> SUFFICES ASSUME RouterInv, BestInv, [Next]_vars PROVE BestInv'
  OBVIOUS
<1>1. ASSUME NEW route \in Route, Add(route) PROVE BestInv'
  BY <1>1, BestAdd
<1>2. ASSUME NEW m \in Method, NEW request \in Request, Match(m, request) PROVE BestInv'
  BY <1>2, BestMatch
<1>3. CASE Serve \/ UNCHANGED vars
  <2>1. UNCHANGED <<routes, tree, staticMap, refused, answer>> /\ (serving' => serving \/ ~refused) /\ (serving => serving')
    BY <1>3 DEF Serve, vars
  <2>2. TreeInv' = TreeInv /\ StaticInv' = StaticInv
    BY <2>1, SameTreeInv
  <2>3. AnswerIsBest' = AnswerIsBest
    BY <2>1 DEF AnswerIsBest, Candidates
  <2>4. QED
    BY <2>1, <2>2, <2>3 DEF BestInv
<1>4. QED
  BY <1>1, <1>2, <1>3 DEF Next

(* With any routes, added in any order, whatever answers (the static map,   *)
(* the cache or the tree, Router.match), the answer is that of the best     *)
(* route of all that fit, with the values of its own parameters: neither    *)
(* the order in which the routes were added nor the backtracking of         *)
(* Matcher.walk decides.                                                    *)
THEOREM BestAnswers == Spec => []AnswerIsBest
<1>1. BestInv => AnswerIsBest
  BY DEF BestInv
<1>2. QED
  BY InitInv, RouterInductive, BestInit, BestInductive, <1>1, PTL DEF Spec

=============================================================================
