-------------------------- MODULE InputChecks_proofs --------------------------
(***************************************************************************)
(* What InputChecks says of the functions, for all inputs and all names.   *)
(***************************************************************************)
EXTENDS InputChecks, SequenceTheorems, FiniteSetTheorems, WellFoundedInduction, TLAPS

-----------------------------------------------------------------------------
(* A sample is one of the inputs of its kind. *)
SampleInv ==
  \/ sample = NoSample
  \/ /\ DOMAIN sample = {"kind", "of"} /\ sample = [kind |-> sample.kind, of |-> sample.of]
     /\ sample.kind \in DOMAIN Samples
     /\ sample.of # << >> => sample.of[1] \in Samples[sample.kind]

LEMMA SampleTaken == SampleSpec => []SampleInv
<1>1. SampleInit => SampleInv
  BY DEF SampleInit, SampleInv
<1>2. ASSUME SampleInv, [SampleNext]_sample PROVE SampleInv'
  <2>1. CASE ChooseKind
    BY <2>1 DEF ChooseKind, SampleInv
  <2>2. CASE TakeSample
    BY <1>2, <2>2 DEF TakeSample, SampleInv
  <2>3. CASE UNCHANGED sample
    BY <1>2, <2>3 DEF SampleInv
  <2>4. QED
    BY <1>2, <2>1, <2>2, <2>3 DEF SampleNext
<1>3. QED
  BY <1>1, <1>2, PTL DEF SampleSpec

OriginKinds == {"off", "any", "echo", "exact", "list", "function"}

(* "*" is matched only by the option that allows every origin, and not      *)
(* together with credentials; no request comes from an origin "*".          *)
LEMMA MatchFacts ==
  ASSUME NEW o, o.origin.kind \in OriginKinds, NEW origin, origin # "*", NoHeader # "*"
  PROVE  /\ MatchOrigin(o, origin) = "*" <=> o.origin.kind = "any" /\ ~o.credentials
         /\ MatchOrigin(o, origin) \in {"*", origin, NoHeader}
<1>1. CASE o.origin.kind = "off"
  BY <1>1 DEF MatchOrigin
<1>2. CASE o.origin.kind = "any"
  BY <1>2 DEF MatchOrigin
<1>3. CASE o.origin.kind = "echo"
  BY <1>3 DEF MatchOrigin
<1>4. CASE o.origin.kind \in {"exact", "list", "function"}
  BY <1>4 DEF MatchOrigin
<1>5. QED
  BY <1>1, <1>2, <1>3, <1>4 DEF OriginKinds

LEMMA HeaderFacts ==
  ASSUME NEW o, NEW r, Handle(o, r).headers # {}
  PROVE  /\ r.origin # NoHeader /\ MatchOrigin(o, r.origin) # NoHeader
         /\ Handle(o, r).headers = CommonHeaders(o, MatchOrigin(o, r.origin))
                                     \cup (IF IsPreflight(r) THEN PreflightHeaders(o, r) ELSE {})
         /\ Handle(o, r).vary = Vary(o, r)
BY DEF Handle

LEMMA CorsCorrect ==
  ASSUME NoHeader # "*", NEW o, o.origin.kind \in OriginKinds,
         NEW requests, \A r \in requests : r.origin # "*"
  PROVE  AnswersFit(o, requests)
<1>1. ASSUME NEW r \in requests,
             <<"Access-Control-Allow-Origin", "*">> \in Handle(o, r).headers,
             <<"Access-Control-Allow-Credentials", "true">> \in Handle(o, r).headers
      PROVE  FALSE
  <2>1. /\ MatchOrigin(o, r.origin) = "*" <=> o.origin.kind = "any" /\ ~o.credentials
        /\ Handle(o, r).headers = CommonHeaders(o, MatchOrigin(o, r.origin))
                                    \cup (IF IsPreflight(r) THEN PreflightHeaders(o, r) ELSE {})
    BY <1>1, MatchFacts, HeaderFacts
  <2>2. <<"Access-Control-Allow-Origin", "*">> \in CommonHeaders(o, MatchOrigin(o, r.origin))
    BY <1>1, <2>1 DEF PreflightHeaders, Only
  <2>3. <<"Access-Control-Allow-Credentials", "true">> \in CommonHeaders(o, MatchOrigin(o, r.origin))
    BY <1>1, <2>1 DEF PreflightHeaders, Only
  <2>4. MatchOrigin(o, r.origin) = "*"
    BY <2>2 DEF CommonHeaders, Only
  <2>5. o.credentials
    BY <2>3 DEF CommonHeaders, Only
  <2>6. QED
    BY <2>1, <2>4, <2>5
<1>2. ASSUME NEW r \in requests, NEW s \in requests, r.method = s.method, IsPreflight(r) <=> IsPreflight(s),
             s.origin # NoHeader, Reused(o, r, s)
      PROVE  /\ Handle(o, r).headers \subseteq Handle(o, s).headers
             /\ Unmarked(o, r) \/ Handle(o, r).headers = Handle(o, s).headers
  <2>1. CASE Handle(o, r).headers = {}
    BY <2>1 DEF Unmarked
  <2>2. CASE Handle(o, r).headers # {}
    <3> DEFINE origin == MatchOrigin(o, r.origin)
    <3>1. /\ origin # NoHeader /\ Handle(o, r).vary = Vary(o, r)
          /\ Handle(o, r).headers = CommonHeaders(o, origin)
                                      \cup (IF IsPreflight(r) THEN PreflightHeaders(o, r) ELSE {})
      BY <2>2, HeaderFacts
    <3>2. MatchOrigin(o, s.origin) = origin
      <4>1. CASE origin = "*"
        <5>1. o.origin.kind = "any" /\ ~o.credentials
          BY <4>1, MatchFacts
        <5>2. QED
          BY <4>1, <5>1, MatchFacts
      <4>2. CASE origin # "*"
        <5>1. "Origin" \in Vary(o, r)
          BY <4>2 DEF Vary
        <5>2. QED
          BY <1>2, <3>1, <5>1 DEF Reused
      <4>3. QED
        BY <4>1, <4>2
    <3>3. Handle(o, s).headers = CommonHeaders(o, origin)
                                  \cup (IF IsPreflight(s) THEN PreflightHeaders(o, s) ELSE {})
      BY <1>2, <3>1, <3>2 DEF Handle
    <3>4. CASE ~IsPreflight(r) \/ o.allowedHeaders # NoHeader
      BY <1>2, <3>1, <3>3, <3>4 DEF PreflightHeaders
    <3>5. CASE IsPreflight(r) /\ o.allowedHeaders = NoHeader /\ r.requestHeaders # NoHeader
      <4>1. "Access-Control-Request-Headers" \in Handle(o, r).vary
        BY <3>1, <3>5 DEF Vary
      <4>2. s.requestHeaders = r.requestHeaders
        BY <1>2, <4>1 DEF Reused
      <4>3. QED
        BY <1>2, <3>1, <3>3, <4>2 DEF PreflightHeaders
    <3>6. CASE IsPreflight(r) /\ o.allowedHeaders = NoHeader /\ r.requestHeaders = NoHeader
      <4>1. PreflightHeaders(o, r) \subseteq PreflightHeaders(o, s)
        BY <3>6 DEF PreflightHeaders, Only
      <4>2. QED
        BY <1>2, <3>1, <3>3, <3>6, <4>1 DEF Unmarked
    <3>7. QED
      BY <3>4, <3>5, <3>6
  <2>3. QED
    BY <2>1, <2>2
<1>3. QED
  BY <1>1, <1>2 DEF AnswersFit

(* Whatever the options, no answer of handle() allows every origin together *)
(* with credentials, and none that a cache has kept allows a request        *)
(* anything that its own answer would not.                                  *)
THEOREM AnswersCorrect == SampleSpec => []AnswersAreUsable
<1>1. SampleInv => AnswersAreUsable
  BY CorsAssumption, CorsCorrect DEF SampleInv, AnswersAreUsable, Of, It, NoSample, OriginKinds
<1>2. QED
  BY <1>1, SampleTaken, PTL

-----------------------------------------------------------------------------
(* What verify has read of a project in which it finds no wrong key. *)
LEMMA KeysRead ==
  ASSUME NEW p, IsList(p.cards), KeyIssues(p) = {}
  PROVE  /\ Readable(p) = DOMAIN p.cards
         /\ \A i, j \in DOMAIN p.cards : KeyAt(p, i) = KeyAt(p, j) => i = j
<1>1. \A i \in DOMAIN p.cards : i \in Readable(p)
  BY DEF KeyIssues, Places
<1>2. Readable(p) = DOMAIN p.cards
  BY <1>1 DEF Readable, Places
<1>3. QED
  BY <1>2 DEF KeyIssues

LEMMA RowsRead ==
  ASSUME NEW p, IsList(p.cards), KeyIssues(p) = {}
  PROVE  /\ CardRows(p) = CardByKey(p)
         /\ DOMAIN CardByKey(p) = {KeyAt(p, i) : i \in DOMAIN p.cards}
         /\ \A i \in DOMAIN p.cards : CardByKey(p)[KeyAt(p, i)] = p.cards[i]
<1> DEFINE places == DOMAIN p.cards
           keys == {KeyAt(p, i) : i \in places}
           at(k) == CHOOSE i \in places : KeyAt(p, i) = k
<1>1. /\ Readable(p) = places /\ Places(p) = places /\ \A i \in places : i \in Nat
      /\ \A i, j \in places : KeyAt(p, i) = KeyAt(p, j) => i = j
  BY KeysRead DEF Places, IsList
<1>2. ASSUME NEW k \in keys
      PROVE  /\ at(k) \in places /\ KeyAt(p, at(k)) = k
             /\ (CHOOSE i \in places : KeyAt(p, i) = k /\ \A j \in places : KeyAt(p, j) = k => i <= j) = at(k)
             /\ (CHOOSE i \in places : KeyAt(p, i) = k /\ \A j \in places : KeyAt(p, j) = k => j <= i) = at(k)
  <2>1. at(k) \in places /\ KeyAt(p, at(k)) = k
    OBVIOUS
  <2>2. \A i \in places : KeyAt(p, i) = k <=> i = at(k)
    BY <1>1, <2>1
  <2>3. at(k) <= at(k)
    BY <1>1, <2>1
  <2>4. QED
    BY <2>1, <2>2, <2>3
<1>3. CardByKey(p) = [k \in keys |-> p.cards[at(k)]]
  BY <1>1, <1>2 DEF CardByKey
<1>4. CardRows(p) = [k \in keys |-> p.cards[at(k)]]
  BY <1>1, <1>2 DEF CardRows
<1>5. ASSUME NEW i \in places PROVE CardByKey(p)[KeyAt(p, i)] = p.cards[i]
  BY <1>1, <1>2, <1>3
<1>6. QED
  BY <1>3, <1>4, <1>5

LEMMA RowsCounted ==
  ASSUME NEW p, IsList(p.cards), KeyIssues(p) = {}
  PROVE  Cardinality(DOMAIN CardRows(p)) = Len(p.cards)
<1> DEFINE keys == {KeyAt(p, i) : i \in DOMAIN p.cards}
           f == [i \in DOMAIN p.cards |-> KeyAt(p, i)]
<1>1. DOMAIN CardRows(p) = keys
  BY RowsRead
<1>2. f \in Bijection(1 .. Len(p.cards), keys)
  <2>1. DOMAIN p.cards = 1 .. Len(p.cards)
    BY DEF IsList
  <2>2. f \in [1 .. Len(p.cards) -> keys]
    BY <2>1
  <2>3. \A i, j \in 1 .. Len(p.cards) : f[i] = f[j] => i = j
    BY <2>1, KeysRead
  <2>4. \A k \in keys : \E i \in 1 .. Len(p.cards) : f[i] = k
    BY <2>1
  <2>5. QED
    BY <2>2, <2>3, <2>4 DEF Bijection, Injection, Surjection, IsInjective
<1>3. IsFiniteSet(1 .. Len(p.cards)) /\ Cardinality(1 .. Len(p.cards)) = Len(p.cards)
  BY FS_Interval DEF IsList
<1>4. QED
  BY <1>1, <1>2, <1>3, FS_Bijection DEF ExistsBijection

(* A project in which verify finds no error is indexed whole: two readers   *)
(* of the same files, written apart, agree.                                 *)
LEMMA VerifyCorrect ==
  ASSUME NEW p, IsList(p.cards)
  PROVE  PassedIsIndexed(p)
<1> SUFFICES ASSUME VerifyProject(p).ok,
                    \A i \in Places(p) : \A w \in p.cards[i].words : w \in Registered(p) => w \in p.registered
             PROVE  /\ IndexBuilds(p)
                    /\ Cardinality(DOMAIN CardRows(p)) = Len(p.cards) /\ CardRows(p) = CardByKey(p)
                    /\ \A i \in Places(p) : \A r \in p.cards[i].relations :
                         [type |-> r.type, src |-> KeyAt(p, i), dst |-> Normal[r.target]] \in RelationRows(p)
                    /\ \A f \in DOMAIN p.code : \A s \in p.code[f] : <<Normal[s], f>> \in LinkRows(p)
  BY DEF PassedIsIndexed
<1>1. /\ KeyIssues(p) = {} /\ ClassificationIssues(p) = {}
      /\ RelationIssues(p) = {} /\ SeeIssues(p) = {}
  BY DEF VerifyProject
<1>2. /\ CardRows(p) = CardByKey(p)
      /\ DOMAIN CardByKey(p) = {KeyAt(p, i) : i \in DOMAIN p.cards}
      /\ \A i \in DOMAIN p.cards : CardByKey(p)[KeyAt(p, i)] = p.cards[i]
  BY <1>1, RowsRead
<1>3. IndexBuilds(p)
  <2>1. ASSUME NEW i \in DOMAIN p.cards
        PROVE  KeyAt(p, i) # NoKey /\ p.cards[i].words \subseteq Registered(p)
    <3>1. KeyAt(p, i) # NoKey
      BY <1>1, KeysRead DEF Readable
    <3>2. CardByKey(p)[KeyAt(p, i)].words \subseteq Registered(p)
      BY <1>1, <1>2 DEF ClassificationIssues
    <3>3. QED
      BY <1>2, <3>1, <3>2
  <2>2. QED
    BY <2>1 DEF IndexBuilds, Places
<1>4. ASSUME NEW i \in DOMAIN p.cards, NEW r \in p.cards[i].relations
      PROVE  [type |-> r.type, src |-> KeyAt(p, i), dst |-> Normal[r.target]] \in RelationRows(p)
  <2>1. KeyAt(p, i) \in DOMAIN CardByKey(p) /\ r \in CardByKey(p)[KeyAt(p, i)].relations
    BY <1>2
  <2>2. r.type \in Allowed /\ Normal[r.target] \in DOMAIN CardByKey(p)
    BY <1>1, <2>1 DEF RelationIssues
  <2>3. QED
    BY <1>2, <2>1, <2>2 DEF RelationRows
<1>5. ASSUME NEW f \in DOMAIN p.code, NEW s \in p.code[f] PROVE <<Normal[s], f>> \in LinkRows(p)
  <2>1. Normal[s] \in DOMAIN CardByKey(p)
    BY <1>1 DEF SeeIssues
  <2>2. QED
    BY <1>2, <2>1 DEF LinkRows
<1>6. Cardinality(DOMAIN CardRows(p)) = Len(p.cards)
  BY <1>1, RowsCounted
<1>7. QED
  BY <1>2, <1>3, <1>4, <1>5, <1>6 DEF Places

THEOREM VerifiedCorrect == SampleSpec => []VerifiedIsIndexed
<1>1. SampleInv => VerifiedIsIndexed
  BY CardsAssumption, VerifyCorrect DEF SampleInv, VerifiedIsIndexed, Of, It, NoSample
<1>2. QED
  BY <1>1, SampleTaken, PTL

-----------------------------------------------------------------------------
(* Induction, and the sequence of values that a fold goes through. *)
LEMMA SetInduction ==
  ASSUME NEW S, 0 \in S, \A n \in Nat : n \in S => n + 1 \in S
  PROVE  Nat \subseteq S
<1> DEFINE left == Nat \ S
<1>1. SUFFICES ASSUME left # {} PROVE FALSE
  OBVIOUS
<1>2. PICK n \in left : \A m \in left : ~(<<m, n>> \in OpToRel(<, Nat))
  BY <1>1, NatLessThanWellFounded, WFMin
<1>3. n \in Nat /\ n # 0
  OBVIOUS
<1>4. n - 1 \in Nat /\ n - 1 < n
  BY <1>3
<1>5. n - 1 \notin left
  BY <1>2, <1>3, <1>4 DEF OpToRel
<1>6. QED
  BY <1>3, <1>4, <1>5

Collect(s, x) == IF \E i \in DOMAIN s : s[i] = x THEN s ELSE Append(s, x)

(* The steps of the folds of CodeIndex, RouteRegistry, ClientIp, Injection,  *)
(* ModuleGraph and GeneratedContainer.                                       *)
Step(kind, d, s, x) ==
  CASE kind = "index" -> IndexFile(d, s, x)
    [] kind = "delete" -> DeleteRemovedFile(s, x, d)
    [] kind = "history" -> Incremental(s, x)
    [] kind = "tokens" -> Collect(s, x)
    [] kind = "methods" -> RegisterMethod(d.registry, d.class, d.instance, s, x)
    [] kind = "controllers" -> RegisterController(d, s, x)
    [] kind = "addresses" -> Pushed(s, x)
    [] kind = "pairs" -> CollectPair(s, x)
    [] kind = "elements" -> CollectElement(s, x)
    [] kind = "arguments" -> WithArgument(d, s, x)
    [] kind = "gets" -> Get(d, s, x).c
    [] kind = "providers" -> RegisterProvider(s, x)
    [] kind = "steps" -> RegisterAll(s, Providers(d, x))
    [] kind = "calls" -> d[<<s, x>>]
    [] kind = "dynamic" -> LoadProvider(s, d, x)
    [] kind = "path" -> s + 1 + LengthOf[x]
    [] kind = "classes" -> s \o d[x].classes
    [] kind = "implicit" -> IF x.injectable THEN With(s, x.name, Decorated(d.p, d.m, x)) ELSE s
    [] kind = "explicit" -> Explicit(d.p, d.m, s, x)
    [] kind = "nodes" -> With(s, x, Node(d, x))
    [] kind = "entries" -> WithEntry(d.g, d.m, s, x)
    [] kind = "containers" -> WithEntries(d, s, x)
    [] kind = "keys" -> WithKeys(d, s, x)

IsFold(it, kind, d, base, seq, n) ==
  it = [u \in SUBSET (1 .. n) |->
          IF u = {} THEN base ELSE Step(kind, d, it[u \ {Max(u)}], seq[Max(u)])]

LEMMA FoldExists ==
  ASSUME NEW kind, NEW d, NEW base, NEW seq, NEW n \in Nat
  PROVE  \E it : IsFold(it, kind, d, base, seq, n)
<1> DEFINE good == {k \in Nat : \E it : IsFold(it, kind, d, base, seq, k)}
<1>1. 0 \in good
  <2> DEFINE it == [u \in SUBSET (1 .. 0) |-> base]
  <2>1. 1 .. 0 = {}
    OBVIOUS
  <2>2. \A u \in SUBSET (1 .. 0) : u = {}
    BY <2>1
  <2>3. IsFold(it, kind, d, base, seq, 0)
    BY <2>2 DEF IsFold
  <2>4. QED
    BY <2>3
<1>2. ASSUME NEW k \in Nat, k \in good PROVE k + 1 \in good
  <2>1. PICK it : IsFold(it, kind, d, base, seq, k)
    BY <1>2
  <2> DEFINE next == [u \in SUBSET (1 .. k + 1) |->
                        IF u = {} THEN base ELSE Step(kind, d, it[u \ {Max(u)}], seq[Max(u)])]
  <2>2. 1 .. k \subseteq 1 .. k + 1
    OBVIOUS
  <2>3. ASSUME NEW u \in SUBSET (1 .. k) PROVE next[u] = it[u]
    <3>1. u \in SUBSET (1 .. k + 1)
      BY <2>2
    <3>2. it[u] = IF u = {} THEN base ELSE Step(kind, d, it[u \ {Max(u)}], seq[Max(u)])
      BY <2>1, <2>3 DEF IsFold
    <3>3. QED
      BY <3>1, <3>2
  <2>4. ASSUME NEW u \in SUBSET (1 .. k + 1) PROVE u \ {Max(u)} \in SUBSET (1 .. k)
    <3>1. CASE k + 1 \in u
      <4>1. \A y \in u : k + 1 >= y
        OBVIOUS
      <4>2. \A x \in u : (\A y \in u : x >= y) => x = k + 1
        BY <3>1, <4>1
      <4>3. Max(u) = k + 1
        BY <3>1, <4>1, <4>2 DEF Max
      <4>4. QED
        BY <4>3
    <3>2. CASE k + 1 \notin u
      <4>1. \A x \in u : x \in 1 .. k
        BY <3>2
      <4>2. QED
        BY <4>1
    <3>3. QED
      BY <3>1, <3>2
  <2>5. next = [u \in SUBSET (1 .. k + 1) |->
                  IF u = {} THEN base ELSE Step(kind, d, next[u \ {Max(u)}], seq[Max(u)])]
    <3>1. \A u \in SUBSET (1 .. k + 1) : next[u \ {Max(u)}] = it[u \ {Max(u)}]
      BY <2>3, <2>4
    <3>2. \A u \in SUBSET (1 .. k + 1) :
             next[u] = IF u = {} THEN base ELSE Step(kind, d, next[u \ {Max(u)}], seq[Max(u)])
      BY <3>1
    <3>3. next = [u \in SUBSET (1 .. k + 1) |-> next[u]]
      OBVIOUS
    <3> HIDE DEF next
    <3>4. QED
      BY <3>2, <3>3
  <2>6. IsFold(next, kind, d, base, seq, k + 1)
    BY <2>5 DEF IsFold
  <2>7. QED
    BY <2>6
<1>3. n \in good
  BY <1>1, <1>2, SetInduction
<1>4. QED
  BY <1>3

IsRun(tr, kind, d, base, seq, n) ==
  tr[0] = base /\ \A k \in 0 .. n - 1 : tr[k + 1] = Step(kind, d, tr[k], seq[k + 1])

LEMMA FoldRuns ==
  ASSUME NEW kind, NEW d, NEW base, NEW seq, NEW n \in Nat, NEW it, IsFold(it, kind, d, base, seq, n)
  PROVE  IsRun([k \in 0 .. n |-> it[1 .. k]], kind, d, base, seq, n)
<1>1. it[1 .. 0] = base
  <2>1. 1 .. 0 = {} /\ {} \in SUBSET (1 .. n)
    OBVIOUS
  <2>2. QED
    BY <2>1 DEF IsFold
<1>2. ASSUME NEW k \in 0 .. n - 1 PROVE it[1 .. k + 1] = Step(kind, d, it[1 .. k], seq[k + 1])
  <2>1. k + 1 \in 1 .. k + 1 /\ \A y \in 1 .. k + 1 : k + 1 >= y
    OBVIOUS
  <2>2. \A x \in 1 .. k + 1 : (\A y \in 1 .. k + 1 : x >= y) => x = k + 1
    BY <2>1
  <2>3. Max(1 .. k + 1) = k + 1
    BY <2>1, <2>2 DEF Max
  <2>4. (1 .. k + 1) \ {k + 1} = 1 .. k /\ 1 .. k + 1 # {} /\ 1 .. k + 1 \in SUBSET (1 .. n)
    OBVIOUS
  <2>5. QED
    BY <2>3, <2>4 DEF IsFold
<1>3. QED
  BY <1>1, <1>2 DEF IsRun

LEMMA IndexRuns ==
  ASSUME NEW d, NEW t, NEW seq, NEW n \in Nat, DOMAIN seq = 1 .. n
  PROVE  \E tr : IsRun(tr, "index", d, t, seq, n) /\ IndexFiles(d, t, seq) = tr[n]
<1> DEFINE P(it) == it = [u \in SUBSET (1 .. n) |->
                       IF u = {} THEN t ELSE IndexFile(d, it[u \ {Max(u)}], seq[Max(u)])]
           it == CHOOSE it : P(it)
<1>1. \A x : P(x) <=> IsFold(x, "index", d, t, seq, n)
  BY DEF IsFold, Step
<1>2. P(it)
  BY <1>1, FoldExists
<1>3. IndexFiles(d, t, seq) = it[1 .. n]
  BY DEF IndexFiles, FoldLeft, MapThenFoldSet
<1>4. IsFold(it, "index", d, t, seq, n)
  BY <1>1, <1>2
<1>5. [k \in 0 .. n |-> it[1 .. k]][n] = it[1 .. n]
  OBVIOUS
<1> HIDE DEF it
<1>6. QED
  BY <1>3, <1>4, <1>5, FoldRuns

LEMMA DeleteRuns ==
  ASSUME NEW kept, NEW t, NEW seq, NEW n \in Nat, DOMAIN seq = 1 .. n
  PROVE  \E tr : IsRun(tr, "delete", kept, t, seq, n) /\ DeleteRemovedFiles(t, seq, kept) = tr[n]
<1> DEFINE P(it) == it = [u \in SUBSET (1 .. n) |->
                       IF u = {} THEN t ELSE DeleteRemovedFile(it[u \ {Max(u)}], seq[Max(u)], kept)]
           it == CHOOSE it : P(it)
<1>1. \A x : P(x) <=> IsFold(x, "delete", kept, t, seq, n)
  BY DEF IsFold, Step
<1>2. P(it)
  BY <1>1, FoldExists
<1>3. DeleteRemovedFiles(t, seq, kept) = it[1 .. n]
  BY DEF DeleteRemovedFiles, FoldLeft, MapThenFoldSet
<1>4. IsFold(it, "delete", kept, t, seq, n)
  BY <1>1, <1>2
<1>5. [k \in 0 .. n |-> it[1 .. k]][n] = it[1 .. n]
  OBVIOUS
<1> HIDE DEF it
<1>6. QED
  BY <1>3, <1>4, <1>5, FoldRuns

LEMMA HistoryRuns ==
  ASSUME NEW h, NEW n \in Nat, DOMAIN Tail(h) = 1 .. n
  PROVE  \E tr : IsRun(tr, "history", 0, Full(Head(h)), Tail(h), n) /\ Indexed(h) = tr[n]
<1> DEFINE P(it) == it = [u \in SUBSET (1 .. n) |->
                       IF u = {} THEN Full(Head(h)) ELSE Incremental(it[u \ {Max(u)}], Tail(h)[Max(u)])]
           it == CHOOSE it : P(it)
<1>1. \A x : P(x) <=> IsFold(x, "history", 0, Full(Head(h)), Tail(h), n)
  <2>1. \A s, x : Step("history", 0, s, x) = Incremental(s, x)
    BY DEF Step
  <2>2. QED
    BY <2>1 DEF IsFold
<1>2. P(it)
  BY <1>1, FoldExists
<1>3. Indexed(h) = it[1 .. n]
  BY DEF Indexed, FoldLeft, MapThenFoldSet
<1>4. IsFold(it, "history", 0, Full(Head(h)), Tail(h), n)
  BY <1>1, <1>2
<1> HIDE DEF it
<1>5. [k \in 0 .. n |-> it[1 .. k]][n] = it[1 .. n]
  OBVIOUS
<1>6. QED
  BY <1>3, <1>4, <1>5, FoldRuns

(* The sequence that SetToSeq chooses names each element of a finite set. *)
LEMMA SetToSeqFacts ==
  ASSUME NEW S, IsFiniteSet(S)
  PROVE  \E n \in Nat : DOMAIN SetToSeq(S) = 1 .. n /\ S = {SetToSeq(S)[i] : i \in 1 .. n}
<1> DEFINE n == Cardinality(S)
           P(f) == f \in [1 .. n -> S] /\ IsInjective(f)
<1>1. n \in Nat
  BY FS_CardinalityType
<1>2. PICK f : f \in Bijection(1 .. n, S)
  BY FS_CardinalityType DEF ExistsBijection
<1>3. P(f)
  BY <1>2 DEF Bijection, Injection
<1>4. SetToSeq(S) = CHOOSE g : P(g)
  BY DEF SetToSeq, IsInjective
<1>5. P(SetToSeq(S))
  BY <1>3, <1>4
<1>6. SetToSeq(S) \in Injection(1 .. n, S)
  BY <1>5 DEF Injection
<1>7. \A s \in S : \E i \in 1 .. n : SetToSeq(S)[i] = s
  <2>1. IsFiniteSet(1 .. n) /\ Cardinality(1 .. n) = n
    BY <1>1, FS_Interval
  <2>2. SetToSeq(S) \in Surjection(1 .. n, S)
    BY <2>1, <1>6, FS_Injection
  <2>3. QED
    BY <2>2 DEF Surjection
<1>8. QED
  BY <1>1, <1>5, <1>7

-----------------------------------------------------------------------------
(* The tables of CodeIndex *)

IsTables(t) == DOMAIN t = {"entities", "relations", "links", "tracked"}

ModuleRow(content) == [kind |-> "module", signature |-> content]

(* The entity of a relation is a file and a name. *)
IsSnapshot(d) ==
  /\ IsFiniteSet(DOMAIN d)
  /\ \A f \in DOMAIN d : \A r \in d[f].relations : r.dst = <<r.dst[1], r.dst[2]>>

IsEntity(e) == e = <<e[1], e[2]>>

LinksOf(d, files) == UNION {{<<c, f>> : c \in d[f].sees \cap Card} : f \in files}

(* What the tables s are when the files of done, which are files of d, have *)
(* been indexed over the tables t.                                          *)
IndexedOver(d, t, done, s) ==
  /\ IsTables(s)
  /\ DOMAIN s.tracked = DOMAIN t.tracked \cup done
  /\ \A f \in DOMAIN s.tracked : s.tracked[f] = IF f \in done THEN d[f] ELSE t.tracked[f]
  /\ s.links = {l \in t.links : l[2] \notin done} \cup LinksOf(d, done)
  /\ EndsHaveRows(s)
  /\ DOMAIN t.entities \subseteq DOMAIN s.entities
  /\ \A e \in DOMAIN s.entities :
       /\ IsEntity(e)
       /\ e[2] = Module =>
            \/ e[1] \in DOMAIN d /\ s.entities[e] = ModuleRow(d[e[1]])
            \/ e[1] \notin done /\ e \in DOMAIN t.entities /\ s.entities[e] = t.entities[e]
  /\ \A r \in t.relations : r[2][1] \notin done => r \in s.relations
  /\ \A f \in done : FilteredRelations(d, f) \subseteq s.relations
  /\ \A r \in s.relations : r \in t.relations \/ r \in UNION {FilteredRelations(d, f) : f \in done}

LEMMA IndexFileStep ==
  ASSUME NEW d, IsSnapshot(d), NEW t, NEW done, NEW s, IndexedOver(d, t, done, s), NEW f \in DOMAIN d
  PROVE  IndexedOver(d, t, done \cup {f}, IndexFile(d, s, f))
<1> DEFINE n == IndexFile(d, s, f)
           rows == FilteredRelations(d, f)
           keys == {<<f, Module>>} \cup {<<f, m>> : m \in DOMAIN Declared(d[f])} \cup UNION {{r[2], r[3]} : r \in rows}
           written == [e \in keys |-> EnsureCodeEntity(d, f, e)]
           entities == Upserted(s.entities, written)
           own == {e \in DOMAIN entities : e[1] = f}
           relations == {r \in s.relations : r[2] \notin own} \cup rows
<1>1. /\ n.entities = entities
      /\ n.relations = relations
      /\ n.links = {l \in s.links : l[2] # f} \cup {<<c, f>> : c \in d[f].sees \cap Card}
      /\ n.tracked = Upserted(s.tracked, [x \in {f} |-> d[x]])
      /\ IsTables(n)
  BY DEF IndexFile, IsTables
<1>2. \A r \in rows : IsEntity(r[2]) /\ r[2][1] = f /\ IsEntity(r[3]) /\ r[3][1] \in DOMAIN d
  BY DEF FilteredRelations, IsSnapshot, IsEntity
<1>3. \A e \in keys : IsEntity(e) /\ e[1] \in DOMAIN d
  BY <1>2 DEF IsEntity
<1>4. /\ DOMAIN entities = DOMAIN s.entities \cup keys
      /\ \A e \in keys : entities[e] = EnsureCodeEntity(d, f, e)
      /\ \A e \in DOMAIN s.entities : e \notin keys => entities[e] = s.entities[e]
  BY DEF Upserted
<1>5. DOMAIN n.tracked = DOMAIN t.tracked \cup (done \cup {f})
  BY <1>1 DEF Upserted, IndexedOver
<1>6. ASSUME NEW g \in DOMAIN n.tracked
      PROVE  n.tracked[g] = IF g \in done \cup {f} THEN d[g] ELSE t.tracked[g]
  BY <1>1, <1>6 DEF Upserted, IndexedOver
<1>7. n.links = {l \in t.links : l[2] \notin done \cup {f}} \cup LinksOf(d, done \cup {f})
  <2>1. s.links = {l \in t.links : l[2] \notin done} \cup LinksOf(d, done)
    BY DEF IndexedOver
  <2>2. {l \in LinksOf(d, done) : l[2] # f} \cup {<<c, f>> : c \in d[f].sees \cap Card} = LinksOf(d, done \cup {f})
    BY DEF LinksOf
  <2>3. QED
    BY <1>1, <2>1, <2>2
<1>8. EndsHaveRows(n)
  <2>1. ASSUME NEW r \in relations PROVE {r[2], r[3]} \subseteq DOMAIN entities
    <3>1. CASE r \in rows
      BY <1>4, <3>1
    <3>2. CASE r \in s.relations
      BY <1>4, <3>2 DEF IndexedOver, EndsHaveRows
    <3>3. QED
      BY <3>1, <3>2
  <2>2. QED
    BY <1>1, <2>1 DEF EndsHaveRows
<1>9. DOMAIN t.entities \subseteq DOMAIN n.entities
  BY <1>1, <1>4 DEF IndexedOver
<1>10. ASSUME NEW e \in DOMAIN n.entities
       PROVE  /\ IsEntity(e)
              /\ e[2] = Module =>
                   \/ e[1] \in DOMAIN d /\ n.entities[e] = ModuleRow(d[e[1]])
                   \/ e[1] \notin done \cup {f} /\ e \in DOMAIN t.entities /\ n.entities[e] = t.entities[e]
  <2>1. CASE e \in keys
    <3>1. IsEntity(e) /\ e[1] \in DOMAIN d
      BY <1>3, <2>1
    <3>2. e[2] = Module => n.entities[e] = ModuleRow(d[e[1]])
      BY <1>1, <1>4, <2>1 DEF EnsureCodeEntity, ModuleRow
    <3>3. QED
      BY <3>1, <3>2
  <2>2. CASE e \notin keys
    <3>1. e \in DOMAIN s.entities /\ n.entities[e] = s.entities[e]
      BY <1>1, <1>4, <2>2
    <3>2. IsEntity(e)
      BY <3>1 DEF IndexedOver
    <3>3. ~(e[1] = f /\ e[2] = Module)
      BY <2>2, <3>2 DEF IsEntity
    <3>4. QED
      BY <3>1, <3>2, <3>3 DEF IndexedOver
  <2>3. QED
    BY <2>1, <2>2
<1>11. ASSUME NEW r \in t.relations, r[2][1] \notin done \cup {f} PROVE r \in n.relations
  BY <1>1, <1>11 DEF IndexedOver
<1>12. ASSUME NEW g \in done \cup {f} PROVE FilteredRelations(d, g) \subseteq n.relations
  <2>1. CASE g = f
    BY <1>1, <2>1
  <2>2. CASE g # f
    <3>1. \A r \in FilteredRelations(d, g) : r \in s.relations /\ r[2][1] = g
      BY <2>2 DEF IndexedOver, FilteredRelations
    <3>2. QED
      BY <1>1, <2>2, <3>1
  <2>3. QED
    BY <2>1, <2>2
<1>13. ASSUME NEW r \in n.relations
       PROVE  r \in t.relations \/ r \in UNION {FilteredRelations(d, g) : g \in done \cup {f}}
  BY <1>1, <1>13 DEF IndexedOver
<1> HIDE DEF n, rows, keys, written, entities, own, relations
<1>14. IndexedOver(d, t, done \cup {f}, n)
  BY <1>1, <1>5, <1>6, <1>7, <1>8, <1>9, <1>10, <1>11, <1>12, <1>13 DEF IndexedOver
<1>15. QED
  BY <1>14 DEF n

LEMMA IndexFilesFacts ==
  ASSUME NEW d, IsSnapshot(d), NEW t, IsTables(t), EndsHaveRows(t),
         \A e \in DOMAIN t.entities : IsEntity(e),
         NEW files \in SUBSET DOMAIN d
  PROVE  IndexedOver(d, t, files, IndexFiles(d, t, SetToSeq(files)))
<1> DEFINE seq == SetToSeq(files)
<1>1. PICK n \in Nat : DOMAIN seq = 1 .. n /\ files = {seq[i] : i \in 1 .. n}
  <2>1. IsFiniteSet(files)
    BY FS_Subset DEF IsSnapshot
  <2>2. QED
    BY <2>1, SetToSeqFacts
<1> HIDE DEF seq
<1>2. PICK tr : IsRun(tr, "index", d, t, seq, n) /\ IndexFiles(d, t, seq) = tr[n]
  BY <1>1, IndexRuns
<1> DEFINE done(k) == {seq[i] : i \in 1 .. k}
           good == {k \in Nat : k <= n => IndexedOver(d, t, done(k), tr[k])}
<1>3. 0 \in good
  <2>1. done(0) = {}
    OBVIOUS
  <2>2. IndexedOver(d, t, {}, t)
    BY DEF IndexedOver, LinksOf
  <2>3. QED
    BY <1>2, <2>1, <2>2 DEF IsRun
<1>4. ASSUME NEW k \in Nat, k \in good PROVE k + 1 \in good
  <2> SUFFICES ASSUME k + 1 <= n PROVE IndexedOver(d, t, done(k + 1), tr[k + 1])
    OBVIOUS
  <2>1. k \in 0 .. n - 1 /\ k + 1 \in 1 .. n
    OBVIOUS
  <2>2. IndexedOver(d, t, done(k), tr[k])
    BY <1>4, <2>1
  <2>3. tr[k + 1] = IndexFile(d, tr[k], seq[k + 1])
    BY <1>2, <2>1 DEF IsRun, Step
  <2>4. seq[k + 1] \in DOMAIN d
    BY <1>1, <2>1
  <2>5. done(k + 1) = done(k) \cup {seq[k + 1]}
    <3>1. 1 .. k + 1 = (1 .. k) \cup {k + 1}
      OBVIOUS
    <3>2. QED
      BY <3>1
  <2> HIDE DEF done
  <2>6. QED
    BY <2>2, <2>3, <2>4, <2>5, IndexFileStep
<1>5. n \in good
  BY <1>3, <1>4, SetInduction
<1>6. IndexedOver(d, t, done(n), tr[n])
  BY <1>5
<1>7. QED
  BY <1>1, <1>2, <1>6 DEF seq

(* What the tables s are when the files of gone have been deleted from t.   *)
DeletedFrom(t, gone, s) ==
  /\ IsTables(s)
  /\ DOMAIN s.tracked = DOMAIN t.tracked \ gone
  /\ \A f \in DOMAIN s.tracked : s.tracked[f] = t.tracked[f]
  /\ s.links = {l \in t.links : l[2] \notin gone}
  /\ EndsHaveRows(s)
  /\ \A e \in DOMAIN s.entities : e \in DOMAIN t.entities /\ s.entities[e] = t.entities[e]
  /\ \A r \in t.relations : r[2][1] \notin gone /\ r[3][1] \notin gone => r \in s.relations

LEMMA DeleteStep ==
  ASSUME NEW kept, NEW t, NEW gone, NEW s, DeletedFrom(t, gone, s), NEW f
  PROVE  DeletedFrom(t, gone \cup {f}, DeleteRemovedFile(s, f, kept))
<1> DEFINE n == DeleteRemovedFile(s, f, kept)
           keys == {e \in DOMAIN s.entities : e[1] = f} \ kept
<1>1. /\ n.entities = Restricted(s.entities, DOMAIN s.entities \ keys)
      /\ n.relations = {r \in s.relations : {r[2], r[3]} \cap keys = {}}
      /\ n.links = {l \in s.links : l[2] # f}
      /\ n.tracked = Restricted(s.tracked, DOMAIN s.tracked \ {f})
      /\ IsTables(n)
  BY DEF DeleteRemovedFile, DeletedFrom, IsTables
<1>2. DOMAIN n.entities = DOMAIN s.entities \ keys /\ \A e \in DOMAIN n.entities : n.entities[e] = s.entities[e]
  BY <1>1 DEF Restricted
<1>3. DOMAIN n.tracked = DOMAIN s.tracked \ {f} /\ \A g \in DOMAIN n.tracked : n.tracked[g] = s.tracked[g]
  BY <1>1 DEF Restricted
<1>4. EndsHaveRows(n)
  BY <1>1, <1>2 DEF DeletedFrom, EndsHaveRows
<1>5. ASSUME NEW r \in t.relations, r[2][1] \notin gone \cup {f}, r[3][1] \notin gone \cup {f} PROVE r \in n.relations
  BY <1>1, <1>5 DEF DeletedFrom
<1>6. n.links = {l \in t.links : l[2] \notin gone \cup {f}}
  BY <1>1 DEF DeletedFrom
<1>7. DOMAIN n.tracked = DOMAIN t.tracked \ (gone \cup {f}) /\ \A g \in DOMAIN n.tracked : n.tracked[g] = t.tracked[g]
  BY <1>3 DEF DeletedFrom
<1>8. \A e \in DOMAIN n.entities : e \in DOMAIN t.entities /\ n.entities[e] = t.entities[e]
  BY <1>2 DEF DeletedFrom
<1> HIDE DEF n, keys
<1>9. DeletedFrom(t, gone \cup {f}, n)
  BY <1>1, <1>4, <1>5, <1>6, <1>7, <1>8 DEF DeletedFrom
<1>10. QED
  BY <1>9 DEF n

LEMMA DeleteFacts ==
  ASSUME NEW kept, NEW t, IsTables(t), EndsHaveRows(t), NEW gone, IsFiniteSet(gone)
  PROVE  DeletedFrom(t, gone, DeleteRemovedFiles(t, SetToSeq(gone), kept))
<1> DEFINE seq == SetToSeq(gone)
<1>1. PICK n \in Nat : DOMAIN seq = 1 .. n /\ gone = {seq[i] : i \in 1 .. n}
  BY SetToSeqFacts
<1> HIDE DEF seq
<1>2. PICK tr : IsRun(tr, "delete", kept, t, seq, n) /\ DeleteRemovedFiles(t, seq, kept) = tr[n]
  BY <1>1, DeleteRuns
<1> DEFINE done(k) == {seq[i] : i \in 1 .. k}
           good == {k \in Nat : k <= n => DeletedFrom(t, done(k), tr[k])}
<1>3. 0 \in good
  <2>1. done(0) = {}
    OBVIOUS
  <2>2. DeletedFrom(t, {}, t)
    BY DEF DeletedFrom
  <2>3. QED
    BY <1>2, <2>1, <2>2 DEF IsRun
<1>4. ASSUME NEW k \in Nat, k \in good PROVE k + 1 \in good
  <2> SUFFICES ASSUME k + 1 <= n PROVE DeletedFrom(t, done(k + 1), tr[k + 1])
    OBVIOUS
  <2>1. k \in 0 .. n - 1
    OBVIOUS
  <2>2. DeletedFrom(t, done(k), tr[k])
    BY <1>4, <2>1
  <2>3. tr[k + 1] = DeleteRemovedFile(tr[k], seq[k + 1], kept)
    BY <1>2, <2>1 DEF IsRun, Step
  <2>4. done(k + 1) = done(k) \cup {seq[k + 1]}
    <3>1. 1 .. k + 1 = (1 .. k) \cup {k + 1}
      OBVIOUS
    <3>2. QED
      BY <3>1
  <2> HIDE DEF done
  <2>5. QED
    BY <2>2, <2>3, <2>4, DeleteStep
<1>5. n \in good
  BY <1>3, <1>4, SetInduction
<1>6. DeletedFrom(t, done(n), tr[n])
  BY <1>5
<1>7. QED
  BY <1>1, <1>2, <1>6 DEF seq

(* What the tables t are after a reindex of d. *)
TablesOf(d, t) ==
  /\ IsTables(t)
  /\ DOMAIN t.tracked = DOMAIN d /\ \A f \in DOMAIN d : t.tracked[f] = d[f]
  /\ t.links = LinksOf(d, DOMAIN d)
  /\ EndsHaveRows(t)
  /\ \A e \in DOMAIN t.entities :
       IsEntity(e) /\ (e[2] = Module /\ e[1] \in DOMAIN d => t.entities[e] = ModuleRow(d[e[1]]))

LEMMA FullFacts ==
  ASSUME NEW d, IsSnapshot(d)
  PROVE  /\ TablesOf(d, Full(d))
         /\ \A f \in DOMAIN d : FilteredRelations(d, f) \subseteq Full(d).relations
         /\ \A r \in Full(d).relations : \E f \in DOMAIN d : r \in FilteredRelations(d, f)
<1>1. /\ IsTables(NoTables) /\ EndsHaveRows(NoTables) /\ DOMAIN NoTables.entities = {}
      /\ DOMAIN NoTables.tracked = {} /\ NoTables.links = {} /\ NoTables.relations = {}
  BY DEF NoTables, IsTables, EndsHaveRows
<1>2. IndexedOver(d, NoTables, DOMAIN d, Full(d))
  <2>1. DOMAIN d \in SUBSET DOMAIN d
    OBVIOUS
  <2>2. QED
    BY <1>1, <2>1, IndexFilesFacts DEF Full
<1>3. QED
  BY <1>1, <1>2 DEF IndexedOver, TablesOf

(* A moved entity has the name and the row of the one that it was. *)
LEMMA MovedFacts ==
  ASSUME NEW before, NEW after, NEW removed, NEW added, NEW x \in Moved(before, after, removed, added)
  PROVE  /\ x[1] \in DOMAIN before /\ x[1][1] \in removed
         /\ x[2] \in DOMAIN after /\ x[2][1] \in added
         /\ x[1][2] = x[2][2] /\ before[x[1]] = after[x[2]]
<1> DEFINE olds == {e \in DOMAIN before : e[1] \in removed}
           news == {e \in DOMAIN after : e[1] \in added}
           print == Fingerprint(before, x[1])
<1>1. x \in olds \X news /\ {e \in news : Fingerprint(after, e) = print} = {x[2]}
  BY DEF Moved
<1>2. x[1] \in olds /\ x[2] \in news
  BY <1>1
<1>3. Fingerprint(after, x[2]) = Fingerprint(before, x[1])
  BY <1>1
<1>4. QED
  BY <1>2, <1>3 DEF Fingerprint

LEMMA RetargetFacts ==
  ASSUME NEW t, IsTables(t), EndsHaveRows(t), NEW moved, NEW removed,
         \A x \in moved : x[1][1] \in removed /\ x[2] \in DOMAIN t.entities /\ x[2][1] \notin removed
  PROVE  LET r == Retarget(t, moved) IN
         /\ IsTables(r) /\ r.tracked = t.tracked /\ EndsHaveRows(r)
         /\ \A e \in DOMAIN r.entities : e \in DOMAIN t.entities /\ r.entities[e] = t.entities[e]
         /\ \A y, a, b : <<y, a, b>> \in t.relations /\ a[1] \notin removed /\ b[1] \notin removed => <<y, a, b>> \in r.relations
         /\ \A l \in r.links :
              \/ l[2] \in removed
              \/ \E k \in t.links : l[2] = k[2] /\ l = <<k[1], k[2]>>
              \/ \E k \in t.links, x \in moved : x[1] = <<k[2], Module>> /\ l = <<k[1], x[2][1]>>
         /\ \A c, f : <<c, f>> \in t.links /\ f \notin removed => <<c, f>> \in r.links
<1> DEFINE to(e) == IF \E x \in moved : x[1] = e THEN (CHOOSE x \in moved : x[1] = e)[2] ELSE e
           r == Retarget(t, moved)
<1>1. /\ IsTables(r) /\ r.tracked = t.tracked
      /\ r.entities = Restricted(t.entities, DOMAIN t.entities \ {x[1] : x \in moved})
      /\ r.relations = {<<q[1], to(q[2]), to(q[3])>> : q \in t.relations}
      /\ r.links = {<<l[1], to(<<l[2], Module>>)[1]>> : l \in t.links}
  BY DEF Retarget, IsTables
<1>2. \A e : e[1] \notin removed => to(e) = e
  OBVIOUS
<1>3. \A e : \/ to(e) = e /\ e \notin {x[1] : x \in moved}
             \/ \E x \in moved : x[1] = e /\ to(e) = x[2]
  OBVIOUS
<1>4. /\ DOMAIN r.entities = DOMAIN t.entities \ {x[1] : x \in moved}
      /\ \A e \in DOMAIN r.entities : r.entities[e] = t.entities[e]
  BY <1>1 DEF Restricted
<1>5. \A e \in DOMAIN t.entities : to(e) \in DOMAIN r.entities
  BY <1>3, <1>4
<1> HIDE DEF to
<1>6. EndsHaveRows(r)
  BY <1>1, <1>5 DEF EndsHaveRows
<1>7. ASSUME NEW y, NEW a, NEW b, <<y, a, b>> \in t.relations, a[1] \notin removed, b[1] \notin removed
      PROVE  <<y, a, b>> \in r.relations
  <2>1. to(a) = a /\ to(b) = b
    BY <1>2, <1>7
  <2> DEFINE q == <<y, a, b>>
  <2>2. q \in t.relations /\ q[1] = y /\ q[2] = a /\ q[3] = b
    BY <1>7
  <2>3. <<q[1], to(q[2]), to(q[3])>> \in r.relations
    BY <1>1, <2>2
  <2>4. QED
    BY <2>1, <2>2, <2>3
<1>8. ASSUME NEW l \in r.links
      PROVE  \/ l[2] \in removed
             \/ \E k \in t.links : l[2] = k[2] /\ l = <<k[1], k[2]>>
             \/ \E k \in t.links, x \in moved : x[1] = <<k[2], Module>> /\ l = <<k[1], x[2][1]>>
  <2>1. PICK k \in t.links : l = <<k[1], to(<<k[2], Module>>)[1]>>
    BY <1>1, <1>8
  <2>2. CASE to(<<k[2], Module>>) = <<k[2], Module>>
    BY <2>1, <2>2
  <2>3. CASE \E x \in moved : x[1] = <<k[2], Module>> /\ to(<<k[2], Module>>) = x[2]
    BY <2>1, <2>3
  <2>4. QED
    BY <1>3, <2>2, <2>3
<1>9. ASSUME NEW c, NEW f, <<c, f>> \in t.links, f \notin removed PROVE <<c, f>> \in r.links
  <2>1. to(<<f, Module>>) = <<f, Module>>
    BY <1>2, <1>9
  <2> DEFINE l == <<c, f>>
  <2>2. l \in t.links /\ l[1] = c /\ l[2] = f
    BY <1>9
  <2>3. <<l[1], to(<<l[2], Module>>)[1]>> \in r.links
    BY <1>1, <2>2
  <2>4. to(<<l[2], Module>>)[1] = f
    BY <2>1, <2>2
  <2>5. QED
    BY <2>2, <2>3, <2>4
<1> HIDE DEF r
<1>10. QED
  BY <1>1, <1>4, <1>6, <1>7, <1>8, <1>9 DEF r

LEMMA IncrementalFacts ==
  ASSUME NEW b, IsSnapshot(b), NEW t, TablesOf(b, t), NEW d, IsSnapshot(d)
  PROVE  /\ TablesOf(d, Incremental(t, d))
         /\ \A f \in DOMAIN d : f \notin DOMAIN b \/ b[f] # d[f] =>
              FilteredRelations(d, f) \subseteq Incremental(t, d).relations
         /\ \A y, p, q :
              <<y, p, q>> \in t.relations /\ p[1] \in DOMAIN b \cap DOMAIN d /\ b[p[1]] = d[p[1]] /\ q[1] \in DOMAIN d
                => <<y, p, q>> \in Incremental(t, d).relations
<1> DEFINE removed == DOMAIN t.tracked \ DOMAIN d
           added == DOMAIN d \ DOMAIN t.tracked
           changed == {f \in DOMAIN d : f \in added \/ t.tracked[f] # d[f]}
           indexed == IndexFiles(d, t, SetToSeq(changed))
           moved == Moved(t.entities, indexed.entities, removed, added)
           r == Retarget(indexed, moved)
           n == DeleteRemovedFiles(r, SetToSeq(removed), {x[1] : x \in moved})
<1>1. Incremental(t, d) = n
  BY DEF Incremental
<1>2. IndexedOver(d, t, changed, indexed)
  <2>1. changed \in SUBSET DOMAIN d
    OBVIOUS
  <2>2. QED
    BY <2>1, IndexFilesFacts DEF TablesOf
<1> HIDE DEF indexed
<1>3. \A x \in moved : /\ x[1] \in DOMAIN t.entities /\ x[1][1] \in removed
                       /\ x[2] \in DOMAIN indexed.entities /\ x[2][1] \in added
                       /\ x[1][2] = x[2][2] /\ t.entities[x[1]] = indexed.entities[x[2]]
  BY MovedFacts
<1> HIDE DEF moved
<1>4. /\ IsTables(r) /\ r.tracked = indexed.tracked /\ EndsHaveRows(r)
      /\ \A e \in DOMAIN r.entities : e \in DOMAIN indexed.entities /\ r.entities[e] = indexed.entities[e]
      /\ \A y, p, q : <<y, p, q>> \in indexed.relations /\ p[1] \notin removed /\ q[1] \notin removed => <<y, p, q>> \in r.relations
      /\ \A l \in r.links :
           \/ l[2] \in removed
           \/ \E k \in indexed.links : l[2] = k[2] /\ l = <<k[1], k[2]>>
           \/ \E k \in indexed.links, x \in moved : x[1] = <<k[2], Module>> /\ l = <<k[1], x[2][1]>>
      /\ \A c, f : <<c, f>> \in indexed.links /\ f \notin removed => <<c, f>> \in r.links
  <2>1. IsTables(indexed) /\ EndsHaveRows(indexed)
    BY <1>2 DEF IndexedOver
  <2>2. \A x \in moved : x[1][1] \in removed /\ x[2] \in DOMAIN indexed.entities /\ x[2][1] \notin removed
    BY <1>3
  <2> HIDE DEF removed
  <2>3. QED
    BY <2>1, <2>2, RetargetFacts
<1> HIDE DEF r
<1>5. DeletedFrom(r, removed, n)
  <2>1. IsFiniteSet(removed)
    BY FS_Difference DEF TablesOf, IsSnapshot
  <2>2. QED
    BY <1>4, <2>1, DeleteFacts
<1> HIDE DEF n
<1>6. /\ DOMAIN n.tracked = DOMAIN d
      /\ \A f \in DOMAIN d : n.tracked[f] = d[f]
  <2>1. /\ DOMAIN n.tracked = (DOMAIN t.tracked \cup changed) \ removed
        /\ \A f \in DOMAIN n.tracked : n.tracked[f] = IF f \in changed THEN d[f] ELSE t.tracked[f]
    BY <1>2, <1>4, <1>5 DEF IndexedOver, DeletedFrom
  <2>2. (DOMAIN t.tracked \cup changed) \ removed = DOMAIN d
    OBVIOUS
  <2>3. \A f \in DOMAIN d : f \notin changed => t.tracked[f] = d[f]
    OBVIOUS
  <2> HIDE DEF changed
  <2>4. QED
    BY <2>1, <2>2, <2>3
<1>7. \A e \in DOMAIN n.entities :
        IsEntity(e) /\ (e[2] = Module /\ e[1] \in DOMAIN d => n.entities[e] = ModuleRow(d[e[1]]))
  <2>1. \A e \in DOMAIN n.entities : e \in DOMAIN indexed.entities /\ n.entities[e] = indexed.entities[e]
    BY <1>4, <1>5 DEF DeletedFrom
  <2>2. \A e \in DOMAIN indexed.entities :
          IsEntity(e) /\ (e[2] = Module /\ e[1] \in DOMAIN d => indexed.entities[e] = ModuleRow(d[e[1]]))
    BY <1>2 DEF IndexedOver, TablesOf
  <2>3. QED
    BY <2>1, <2>2
<1>8. indexed.links = LinksOf(b, removed) \cup LinksOf(d, DOMAIN d)
  <2>1. indexed.links = {l \in LinksOf(b, DOMAIN b) : l[2] \notin changed} \cup LinksOf(d, changed)
    BY <1>2 DEF IndexedOver, TablesOf
  <2>2. \A f \in DOMAIN b : f \notin changed => f \in removed \/ (f \in DOMAIN d /\ b[f] = d[f])
    BY DEF TablesOf
  <2>3. \A f \in DOMAIN d : f \notin changed => f \in DOMAIN b /\ b[f] = d[f]
    BY DEF TablesOf
  <2>4. removed \subseteq DOMAIN b /\ removed \cap changed = {} /\ changed \subseteq DOMAIN d
    BY DEF TablesOf
  <2> HIDE DEF changed, removed
  <2>5. QED
    BY <2>1, <2>2, <2>3, <2>4 DEF LinksOf
<1>9. n.links = LinksOf(d, DOMAIN d)
  <2>1. ASSUME NEW l \in n.links PROVE l \in LinksOf(d, DOMAIN d)
    <3>1. l \in r.links /\ l[2] \notin removed
      BY <1>5, <2>1 DEF DeletedFrom
    <3>2. CASE \E k \in indexed.links : l[2] = k[2] /\ l = <<k[1], k[2]>>
      BY <1>8, <3>1, <3>2 DEF LinksOf
    <3>3. CASE \E k \in indexed.links, x \in moved : x[1] = <<k[2], Module>> /\ l = <<k[1], x[2][1]>>
      <4>1. PICK k \in indexed.links, x \in moved : x[1] = <<k[2], Module>> /\ l = <<k[1], x[2][1]>>
        BY <3>3
      <4>2. k[2] \in removed /\ k[2] \in DOMAIN b
        BY <1>3, <4>1 DEF TablesOf
      <4>3. k[1] \in b[k[2]].sees \cap Card
        BY <1>8, <4>2 DEF LinksOf
      <4>4. indexed.entities[x[2]] = ModuleRow(b[k[2]])
        BY <1>3, <4>1, <4>2 DEF TablesOf
      <4>5. x[2][1] \in DOMAIN d /\ x[2][1] \in changed /\ x[2][2] = Module /\ x[2] \in DOMAIN indexed.entities
        BY <1>3, <4>1
      <4>6. indexed.entities[x[2]] = ModuleRow(d[x[2][1]])
        BY <1>2, <4>5 DEF IndexedOver
      <4>7. d[x[2][1]] = b[k[2]]
        BY <4>4, <4>6 DEF ModuleRow
      <4>8. QED
        BY <4>1, <4>3, <4>5, <4>7 DEF LinksOf
    <3>4. QED
      BY <1>4, <3>1, <3>2, <3>3
  <2>2. ASSUME NEW f \in DOMAIN d, NEW c \in d[f].sees \cap Card PROVE <<c, f>> \in n.links
    <3>1. <<c, f>> \in indexed.links
      BY <1>8 DEF LinksOf
    <3>2. <<c, f>> \in r.links
      BY <1>4, <3>1
    <3>3. QED
      BY <1>5, <3>2 DEF DeletedFrom
  <2>3. QED
    BY <2>1, <2>2 DEF LinksOf
<1>10. \A y, p, q : <<y, p, q>> \in indexed.relations /\ p[1] \in DOMAIN d /\ q[1] \in DOMAIN d => <<y, p, q>> \in n.relations
  <2>1. ASSUME NEW y, NEW p, NEW q, <<y, p, q>> \in indexed.relations, p[1] \in DOMAIN d, q[1] \in DOMAIN d
        PROVE  <<y, p, q>> \in n.relations
    <3>1. p[1] \notin removed /\ q[1] \notin removed
      BY <2>1
    <3>2. <<y, p, q>> \in r.relations
      BY <1>4, <2>1, <3>1
    <3>3. QED
      BY <1>5, <3>1, <3>2 DEF DeletedFrom
  <2>2. QED
    BY <2>1
<1>11. ASSUME NEW f \in DOMAIN d, f \notin DOMAIN b \/ b[f] # d[f] PROVE FilteredRelations(d, f) \subseteq n.relations
  <2>1. f \in changed
    BY <1>11 DEF TablesOf
  <2>2. FilteredRelations(d, f) \subseteq indexed.relations
    BY <1>2, <2>1 DEF IndexedOver
  <2>3. \A s \in FilteredRelations(d, f) :
          /\ s = <<s[1], s[2], s[3]>>
          /\ s[2][1] \in DOMAIN d /\ s[3][1] \in DOMAIN d
    BY DEF FilteredRelations
  <2>4. QED
    BY <1>10, <2>2, <2>3
<1>12. ASSUME NEW y, NEW p, NEW q, <<y, p, q>> \in t.relations, p[1] \in DOMAIN b \cap DOMAIN d, b[p[1]] = d[p[1]], q[1] \in DOMAIN d
       PROVE  <<y, p, q>> \in n.relations
  <2>1. p[1] \notin changed
    BY <1>12 DEF TablesOf
  <2>2. <<y, p, q>> \in indexed.relations
    BY <1>2, <1>12, <2>1 DEF IndexedOver
  <2>3. QED
    BY <1>10, <1>12, <2>2
<1>13. TablesOf(d, n)
  BY <1>5, <1>6, <1>7, <1>9 DEF TablesOf, DeletedFrom
<1>14. QED
  BY <1>1, <1>11, <1>12, <1>13

-----------------------------------------------------------------------------
(* IndexFollowsCode: after each snapshot of a history, the tables are those *)
(* of it, and have the relations whose file has not been indexed since a    *)
(* time at which the other end was there.                                   *)
Kept(h, k, t) ==
  \A i \in 1 .. k : \A f \in DOMAIN h[k] : \A r \in h[k][f].relations :
    /\ i = 1 \/ f \notin DOMAIN h[i - 1] \/ h[i - 1][f] # h[k][f]
    /\ \A j \in i .. k : f \in DOMAIN h[j] /\ h[j][f] = h[k][f] /\ r.dst[1] \in DOMAIN h[j]
    => <<r.type, <<f, r.src>>, r.dst>> \in t.relations

LEMMA Written ==
  ASSUME NEW d, NEW f, NEW r \in d[f].relations, r.dst[1] \in DOMAIN d
  PROVE  <<r.type, <<f, r.src>>, r.dst>> \in FilteredRelations(d, f)
BY DEF FilteredRelations

LEMMA KeptFirst ==
  ASSUME NEW h, IsSnapshot(h[1])
  PROVE  TablesOf(h[1], Full(h[1])) /\ Kept(h, 1, Full(h[1]))
<1>1. TablesOf(h[1], Full(h[1])) /\ \A f \in DOMAIN h[1] : FilteredRelations(h[1], f) \subseteq Full(h[1]).relations
  BY FullFacts
<1>2. ASSUME NEW f \in DOMAIN h[1], NEW r \in h[1][f].relations, r.dst[1] \in DOMAIN h[1]
      PROVE  <<r.type, <<f, r.src>>, r.dst>> \in Full(h[1]).relations
  BY <1>1, <1>2, Written
<1>3. Kept(h, 1, Full(h[1]))
  <2>1. 1 \in 1 .. 1 /\ \A i \in 1 .. 1 : i = 1
    OBVIOUS
  <2>2. QED
    BY <1>2, <2>1 DEF Kept
<1>4. QED
  BY <1>1, <1>3

LEMMA KeptStep ==
  ASSUME NEW h, NEW k \in Nat, k >= 1, IsSnapshot(h[k]), IsSnapshot(h[k + 1]),
         NEW t, TablesOf(h[k], t), Kept(h, k, t)
  PROVE  TablesOf(h[k + 1], Incremental(t, h[k + 1])) /\ Kept(h, k + 1, Incremental(t, h[k + 1]))
<1> DEFINE b == h[k]
           d == h[k + 1]
           n == Incremental(t, d)
<1>1. /\ TablesOf(d, n)
      /\ \A f \in DOMAIN d : f \notin DOMAIN b \/ b[f] # d[f] => FilteredRelations(d, f) \subseteq n.relations
      /\ \A y, p, q :
           <<y, p, q>> \in t.relations /\ p[1] \in DOMAIN b \cap DOMAIN d /\ b[p[1]] = d[p[1]] /\ q[1] \in DOMAIN d
             => <<y, p, q>> \in n.relations
  <2> HIDE DEF b, d
  <2>1. IsSnapshot(b) /\ TablesOf(b, t) /\ IsSnapshot(d)
    BY DEF b, d
  <2>2. QED
    BY <2>1, IncrementalFacts
<1> HIDE DEF n
<1>2. ASSUME NEW i \in 1 .. k + 1, NEW f \in DOMAIN d, NEW r \in d[f].relations,
             i = 1 \/ f \notin DOMAIN h[i - 1] \/ h[i - 1][f] # d[f],
             \A j \in i .. k + 1 : f \in DOMAIN h[j] /\ h[j][f] = d[f] /\ r.dst[1] \in DOMAIN h[j]
      PROVE  <<r.type, <<f, r.src>>, r.dst>> \in n.relations
  <2>1. r.dst[1] \in DOMAIN d
    BY <1>2
  <2>2. CASE i = k + 1
    <3>1. f \notin DOMAIN b \/ b[f] # d[f]
      <4>1. i # 1 /\ i - 1 = k
        BY <2>2
      <4>2. QED
        BY <1>2, <4>1
    <3>2. QED
      BY <1>1, <2>1, <3>1, Written
  <2>3. CASE i # k + 1
    <3>1. i \in 1 .. k /\ k \in i .. k + 1 /\ i .. k \subseteq i .. k + 1
      BY <2>3
    <3>2. f \in DOMAIN b /\ b[f] = d[f]
      BY <1>2, <3>1
    <3>3. \A j \in i .. k : f \in DOMAIN h[j] /\ h[j][f] = b[f] /\ r.dst[1] \in DOMAIN h[j]
      BY <1>2, <3>1, <3>2
    <3>4. i = 1 \/ f \notin DOMAIN h[i - 1] \/ h[i - 1][f] # b[f]
      BY <1>2, <3>2
    <3>5. <<r.type, <<f, r.src>>, r.dst>> \in t.relations
      BY <3>1, <3>2, <3>3, <3>4 DEF Kept
    <3> DEFINE p == <<f, r.src>>
    <3>6. p[1] = f
      OBVIOUS
    <3> HIDE DEF p
    <3>7. <<r.type, p, r.dst>> \in t.relations
      BY <3>5 DEF p
    <3>8. <<r.type, p, r.dst>> \in n.relations
      BY <1>1, <2>1, <3>2, <3>6, <3>7
    <3>9. QED
      BY <3>8 DEF p
  <2>4. QED
    BY <2>2, <2>3
<1>3. Kept(h, k + 1, n)
  BY <1>2 DEF Kept
<1>4. QED
  BY <1>1, <1>3 DEF n

LEMMA LeastIn ==
  ASSUME NEW S \in SUBSET Nat, S # {}
  PROVE  \E m \in S : \A j \in S : m <= j
<1>1. PICK m \in S : \A j \in S : ~(<<j, m>> \in OpToRel(<, Nat))
  BY NatLessThanWellFounded, WFMin
<1>2. \A j \in S : ~(j < m)
  BY <1>1 DEF OpToRel
<1>3. ASSUME NEW j \in S PROVE m <= j
  <2>1. j \in Nat /\ m \in Nat
    OBVIOUS
  <2>2. QED
    BY <1>2, <2>1
<1>4. QED
  BY <1>3

LEMMA HistoryCorrect ==
  ASSUME NEW h, IsList(h), h # << >>, \A i \in DOMAIN h : IsSnapshot(h[i])
  PROVE  EndsHaveRows(Indexed(h)) /\ LinksFollowCode(h, Indexed(h)) /\ RelationsAreKept(h, Indexed(h))
<1> DEFINE n == Len(h)
<1>1. /\ n \in Nat /\ n >= 1 /\ DOMAIN h = 1 .. n
      /\ Head(h) = h[1] /\ DOMAIN Tail(h) = 1 .. n - 1 /\ \A i \in 1 .. n - 1 : Tail(h)[i] = h[i + 1]
  <2> DEFINE S == {h[i] : i \in 1 .. n}
  <2>1. n \in Nat /\ h = [i \in 1 .. n |-> h[i]]
    BY DEF IsList
  <2>2. h \in Seq(S)
    BY <2>1
  <2>3. QED
    BY <2>1, <2>2
<1> HIDE DEF n
<1>2. PICK tr : IsRun(tr, "history", 0, Full(Head(h)), Tail(h), n - 1) /\ Indexed(h) = tr[n - 1]
  <2>1. n - 1 \in Nat
    BY <1>1
  <2>2. QED
    BY <1>1, <2>1, HistoryRuns
<1> DEFINE good == {k \in Nat : k <= n - 1 => TablesOf(h[k + 1], tr[k]) /\ Kept(h, k + 1, tr[k])}
<1>3. 0 \in good
  <2>1. tr[0] = Full(h[1])
    BY <1>1, <1>2 DEF IsRun
  <2>2. IsSnapshot(h[1])
    BY <1>1
  <2>3. QED
    BY <2>1, <2>2, KeptFirst
<1>4. ASSUME NEW k \in Nat, k \in good PROVE k + 1 \in good
  <2> SUFFICES ASSUME k + 1 <= n - 1 PROVE TablesOf(h[(k + 1) + 1], tr[k + 1]) /\ Kept(h, (k + 1) + 1, tr[k + 1])
    OBVIOUS
  <2>1. k \in 0 .. (n - 1) - 1 /\ k + 1 \in 1 .. n - 1 /\ k + 1 \in 1 .. n /\ (k + 1) + 1 \in 1 .. n
    BY <1>1
  <2>2. tr[k + 1] = Incremental(tr[k], h[(k + 1) + 1])
    BY <1>1, <1>2, <2>1 DEF IsRun, Step
  <2>3. TablesOf(h[k + 1], tr[k]) /\ Kept(h, k + 1, tr[k])
    BY <1>1, <1>4, <2>1
  <2>4. IsSnapshot(h[k + 1]) /\ IsSnapshot(h[(k + 1) + 1])
    BY <1>1, <2>1
  <2>5. k + 1 \in Nat /\ k + 1 >= 1
    OBVIOUS
  <2>6. QED
    BY <2>2, <2>3, <2>4, <2>5, KeptStep
<1>5. n - 1 \in good
  <2> HIDE DEF good
  <2>1. Nat \subseteq good
    BY <1>3, <1>4, SetInduction
  <2>2. n - 1 \in Nat
    BY <1>1
  <2>3. QED
    BY <2>1, <2>2
<1> DEFINE t == Indexed(h)
           now == h[n]
<1>6. TablesOf(now, t) /\ Kept(h, n, t)
  <2>1. (n - 1) + 1 = n
    BY <1>1
  <2>2. QED
    BY <1>1, <1>2, <1>5, <2>1
<1>7. Last(h) = now /\ IsSnapshot(now)
  BY <1>1 DEF Last, n
<1> HIDE DEF t, now
<1>8. EndsHaveRows(t)
  BY <1>6 DEF TablesOf
<1>9. LinksFollowCode(h, t)
  BY <1>6, <1>7, FullFacts DEF LinksFollowCode, TablesOf
<1>10. RelationsAreKept(h, t)
  <2> DEFINE same(f, i) == \A j \in i .. n : f \in DOMAIN h[j] /\ h[j][f] = now[f]
             since(f) == CHOOSE i \in DOMAIN h : same(f, i) /\ \A j \in DOMAIN h : same(f, j) => i <= j
  <2>1. ASSUME NEW r \in Full(now).relations, \A i \in since(r[2][1]) .. n : r[3][1] \in DOMAIN h[i]
        PROVE  r \in t.relations
    <3>0. PICK f \in DOMAIN now : r \in FilteredRelations(now, f)
      BY <1>7, <2>1, FullFacts
    <3>1. PICK q \in now[f].relations : r = <<q.type, <<f, q.src>>, q.dst>>
      BY <3>0 DEF FilteredRelations
    <3>2. r[2][1] = f /\ r[3] = q.dst
      BY <3>1
    <3>3. PICK m \in DOMAIN h : same(f, m) /\ \A j \in DOMAIN h : same(f, j) => m <= j
      <4> DEFINE S == {i \in 1 .. n : same(f, i)}
      <4>1. same(f, n)
        BY <1>1 DEF now
      <4>2. n \in S /\ S \in SUBSET Nat
        BY <1>1, <4>1
      <4>3. PICK m \in S : \A j \in S : m <= j
        BY <4>2, LeastIn
      <4>4. QED
        BY <1>1, <4>3
    <3> DEFINE i == since(f)
    <3>4. i \in 1 .. n /\ same(f, i) /\ \A j \in DOMAIN h : same(f, j) => i <= j
      BY <1>1, <3>3
    <3> HIDE DEF i
    <3>5. \A j \in i .. n : q.dst[1] \in DOMAIN h[j]
      BY <2>1, <3>2 DEF i
    <3>6. i = 1 \/ f \notin DOMAIN h[i - 1] \/ h[i - 1][f] # now[f]
      <4> SUFFICES ASSUME i # 1, f \in DOMAIN h[i - 1], h[i - 1][f] = now[f] PROVE FALSE
        OBVIOUS
      <4>1. i - 1 \in DOMAIN h /\ ~(i <= i - 1)
        BY <1>1, <3>4
      <4>2. \A j \in (i - 1) .. n : j = i - 1 \/ j \in i .. n
        BY <1>1, <3>4
      <4>3. same(f, i - 1)
        BY <3>4, <4>2
      <4>4. QED
        BY <3>4, <4>1, <4>3
    <3>7. <<q.type, <<f, q.src>>, q.dst>> \in t.relations
      BY <1>6, <3>1, <3>4, <3>5, <3>6 DEF Kept, now
    <3>8. QED
      BY <3>1, <3>7
  <2>2. QED
    BY <1>7, <2>1 DEF RelationsAreKept, n
<1>11. QED
  BY <1>8, <1>9, <1>10 DEF t

(* However files come, change, move and go, incremental reindexes leave the *)
(* links of a full one, no relation without rows at its ends, and every     *)
(* relation whose file was last indexed when its other end was there.       *)
THEOREM IndexCorrect == SampleSpec => []IndexFollowsCode
<1>1. SampleInv => IndexFollowsCode
  <2> SUFFICES ASSUME SampleInv, Of("history")
               PROVE  LET t == Indexed(It) IN EndsHaveRows(t) /\ LinksFollowCode(It, t) /\ RelationsAreKept(It, t)
    BY DEF IndexFollowsCode
  <2>1. It \in Samples["history"] /\ "history" \in DOMAIN Samples
    BY DEF SampleInv, Of, It, NoSample
  <2>2. IsList(It) /\ It # << >> /\ \A i \in DOMAIN It : IsSnapshot(It[i])
    BY <2>1, HistoryAssumption DEF IsSnapshot
  <2>3. QED
    BY <2>2, HistoryCorrect
<1>2. QED
  BY <1>1, SampleTaken, PTL

-----------------------------------------------------------------------------
(* Lists *)
LEMMA ListFacts ==
  ASSUME NEW s, IsList(s)
  PROVE  Len(s) \in Nat /\ DOMAIN s = 1 .. Len(s) /\ \A S : (\A i \in DOMAIN s : s[i] \in S) => s \in Seq(S)
<1>1. Len(s) \in Nat /\ s = [i \in 1 .. Len(s) |-> s[i]]
  BY DEF IsList
<1>2. DOMAIN s = 1 .. Len(s)
  BY <1>1
<1>3. ASSUME NEW S, \A i \in DOMAIN s : s[i] \in S PROVE s \in Seq(S)
  <2>1. s \in [1 .. Len(s) -> S]
    BY <1>1, <1>2, <1>3
  <2>2. QED
    BY <1>1, <2>1, IsASeq
<1>4. QED
  BY <1>1, <1>2, <1>3

LEMMA SeqIsList ==
  ASSUME NEW S, NEW s \in Seq(S)
  PROVE  IsList(s)
<1>1. Len(s) \in Nat /\ s \in [1 .. Len(s) -> S]
  BY LenProperties
<1>2. QED
  BY <1>1 DEF IsList

LEMMA ListAppended ==
  ASSUME NEW s, IsList(s), NEW x
  PROVE  /\ IsList(Append(s, x)) /\ Len(Append(s, x)) = Len(s) + 1
         /\ \A i \in 1 .. Len(s) : Append(s, x)[i] = s[i]
         /\ Append(s, x)[Len(s) + 1] = x
<1> DEFINE S == {s[i] : i \in DOMAIN s} \cup {x}
<1>1. s \in Seq(S) /\ x \in S
  <2>1. \A i \in DOMAIN s : s[i] \in S
    OBVIOUS
  <2> HIDE DEF S
  <2>2. s \in Seq(S)
    BY <2>1, ListFacts
  <2>3. QED
    BY <2>2 DEF S
<1> HIDE DEF S
<1>2. Append(s, x) \in Seq(S)
  BY <1>1, AppendProperties
<1>3. Len(Append(s, x)) = Len(s) + 1 /\ \A i \in 1 .. Len(s) : Append(s, x)[i] = s[i]
  BY <1>1, AppendProperties
<1>4. Append(s, x)[Len(s) + 1] = x
  BY <1>1, AppendProperties
<1>5. IsList(Append(s, x))
  BY <1>2, SeqIsList
<1>6. QED
  BY <1>3, <1>4, <1>5

LEMMA ListJoined ==
  ASSUME NEW s, IsList(s), NEW t, IsList(t)
  PROVE  /\ IsList(s \o t) /\ Len(s \o t) = Len(s) + Len(t)
         /\ \A i \in 1 .. Len(s) : (s \o t)[i] = s[i]
         /\ \A i \in 1 .. Len(t) : (s \o t)[Len(s) + i] = t[i]
<1> DEFINE S == {s[i] : i \in DOMAIN s} \cup {t[i] : i \in DOMAIN t}
           n == Len(s)
           k == Len(t)
<1>1. (\A i \in DOMAIN s : s[i] \in S) /\ (\A i \in DOMAIN t : t[i] \in S)
  OBVIOUS
<1> HIDE DEF S
<1>2. s \in Seq(S) /\ t \in Seq(S) /\ n \in Nat /\ k \in Nat
  BY <1>1, ListFacts
<1>3. /\ s \o t \in Seq(S) /\ Len(s \o t) = n + k
      /\ \A i \in 1 .. n + k : (s \o t)[i] = IF i <= n THEN s[i] ELSE t[i - n]
  BY <1>2, ConcatProperties
<1>4. IsList(s \o t)
  BY <1>3, SeqIsList
<1> DEFINE u == s \o t
<1> HIDE DEF u, n, k
<1>5. \A i \in 1 .. n + k : u[i] = IF i <= n THEN s[i] ELSE t[i - n]
  BY <1>3 DEF u
<1>6. \A i \in 1 .. n : i \in 1 .. n + k /\ i <= n
  BY <1>2
<1>7. \A i \in 1 .. k : n + i \in 1 .. n + k /\ ~(n + i <= n) /\ (n + i) - n = i
  BY <1>2
<1>8. (\A i \in 1 .. n : u[i] = s[i]) /\ (\A i \in 1 .. k : u[n + i] = t[i])
  BY <1>5, <1>6, <1>7
<1>9. QED
  BY <1>3, <1>4, <1>8 DEF u, n, k

-----------------------------------------------------------------------------
(* RoutesAreGuarded *)

(* FilterTokens: each token once, at the place of its first occurrence.     *)
Collected(a, k, out) ==
  /\ IsList(out)
  /\ \A p, q \in DOMAIN out : out[p] = out[q] => p = q
  /\ \A i \in 1 .. k : \E p \in DOMAIN out : out[p] = a[i]
  /\ \A p \in DOMAIN out : \E i \in 1 .. k : out[p] = a[i]
  /\ \A p, q \in DOMAIN out : p < q => \E i \in 1 .. k : a[i] = out[p] /\ \A j \in 1 .. k : a[j] = out[q] => i < j

LEMMA CollectStep ==
  ASSUME NEW a, NEW k \in Nat, NEW out, Collected(a, k, out)
  PROVE  Collected(a, k + 1, Collect(out, a[k + 1]))
<1>1. CASE \E i \in DOMAIN out : out[i] = a[k + 1]
  <2>1. \A i \in 1 .. k + 1 : i \in 1 .. k \/ i = k + 1
    OBVIOUS
  <2>2. \A i \in 1 .. k : i \in 1 .. k + 1 /\ i < k + 1
    OBVIOUS
  <2>3. Collected(a, k + 1, out)
    BY <1>1, <2>1, <2>2 DEF Collected
  <2>4. QED
    BY <1>1, <2>3 DEF Collect
<1>2. CASE ~ \E i \in DOMAIN out : out[i] = a[k + 1]
  <2> DEFINE new == Append(out, a[k + 1])
             n == Len(out)
  <2>1. IsList(out) /\ n \in Nat /\ DOMAIN out = 1 .. n
    BY ListFacts DEF Collected
  <2>2. /\ IsList(new) /\ DOMAIN new = 1 .. n + 1
        /\ \A i \in 1 .. n : new[i] = out[i]
        /\ new[n + 1] = a[k + 1]
    BY <2>1, ListAppended, ListFacts
  <2>3. \A i \in 1 .. k + 1 : i \in 1 .. k \/ i = k + 1
    OBVIOUS
  <2>4. \A i \in 1 .. k : i \in 1 .. k + 1 /\ i < k + 1
    OBVIOUS
  <2>5. k + 1 \in 1 .. k + 1
    OBVIOUS
  <2> HIDE DEF new, n
  <2>6. \A p \in 1 .. n + 1 : p \in 1 .. n \/ p = n + 1
    BY <2>1
  <2>7. n + 1 \in 1 .. n + 1 /\ \A p \in 1 .. n : p \in 1 .. n + 1 /\ p < n + 1 /\ ~(n + 1 < p)
    BY <2>1
  <2>8. \A p \in 1 .. n : out[p] # a[k + 1]
    BY <1>2, <2>1
  <2>9. \A p, q \in DOMAIN new : new[p] = new[q] => p = q
    BY <2>1, <2>2, <2>6, <2>8 DEF Collected
  <2>10. \A i \in 1 .. k + 1 : \E p \in DOMAIN new : new[p] = a[i]
    <3>1. ASSUME NEW i \in 1 .. k PROVE \E p \in DOMAIN new : new[p] = a[i]
      <4>1. PICK p \in 1 .. n : out[p] = a[i]
        BY <2>1 DEF Collected
      <4>2. QED
        BY <2>2, <2>7, <4>1
    <3>2. \E p \in DOMAIN new : new[p] = a[k + 1]
      BY <2>2, <2>7
    <3>3. QED
      BY <2>3, <3>1, <3>2
  <2>11. \A p \in DOMAIN new : \E i \in 1 .. k + 1 : new[p] = a[i]
    <3>1. ASSUME NEW p \in 1 .. n PROVE \E i \in 1 .. k + 1 : new[p] = a[i]
      <4>1. PICK i \in 1 .. k : out[p] = a[i]
        BY <2>1 DEF Collected
      <4>2. QED
        BY <2>2, <2>4, <4>1
    <3>2. \E i \in 1 .. k + 1 : new[n + 1] = a[i]
      BY <2>2, <2>5
    <3>3. QED
      BY <2>2, <2>6, <3>1, <3>2
  <2>12. ASSUME NEW p \in DOMAIN new, NEW q \in DOMAIN new, p < q
         PROVE  \E i \in 1 .. k + 1 : a[i] = new[p] /\ \A j \in 1 .. k + 1 : a[j] = new[q] => i < j
    <3>1. p \in 1 .. n /\ new[p] = out[p]
      BY <2>1, <2>2, <2>12
    <3>2. CASE q \in 1 .. n
      <4>1. PICK i \in 1 .. k : a[i] = out[p] /\ \A j \in 1 .. k : a[j] = out[q] => i < j
        BY <2>1, <2>12, <3>1, <3>2 DEF Collected
      <4>2. QED
        BY <2>2, <2>3, <2>4, <3>1, <3>2, <4>1
    <3>3. CASE q = n + 1
      <4>1. PICK i \in 1 .. k : a[i] = out[p]
        BY <2>1, <3>1 DEF Collected
      <4>2. \A j \in 1 .. k : a[j] # a[k + 1]
        BY <2>1, <2>8 DEF Collected
      <4>3. QED
        BY <2>2, <2>3, <2>4, <3>1, <3>3, <4>1, <4>2
    <3>4. QED
      BY <2>2, <2>6, <3>2, <3>3
  <2>13. Collected(a, k + 1, new)
    BY <2>2, <2>9, <2>10, <2>11, <2>12 DEF Collected
  <2>14. QED
    BY <1>2, <2>13 DEF new, Collect
<1>3. QED
  BY <1>1, <1>2

AskedOf(g, class, method) == method.filters \o g.meta[class].filters

LEMMA TokensRun ==
  ASSUME NEW g, NEW class, NEW method, NEW n \in Nat, DOMAIN AskedOf(g, class, method) = 1 .. n
  PROVE  \E tr : /\ IsRun(tr, "tokens", 0, << >>, AskedOf(g, class, method), n)
                 /\ FilterTokens(g, class, method) = tr[n]
<1> DEFINE seq == AskedOf(g, class, method)
           P(it) == it = [u \in SUBSET (1 .. n) |->
                       IF u = {} THEN << >> ELSE Collect(it[u \ {Max(u)}], seq[Max(u)])]
           it == CHOOSE it : P(it)
<1>2. FilterTokens(g, class, method) = it[1 .. n]
  BY DEF FilterTokens, FoldLeft, MapThenFoldSet, AskedOf, Collect
<1>3. \A x : P(x) <=> IsFold(x, "tokens", 0, << >>, seq, n)
  BY DEF IsFold, Step
<1>4. P(it)
  BY <1>3, FoldExists
<1>5. IsFold(it, "tokens", 0, << >>, seq, n)
  BY <1>3, <1>4
<1> HIDE DEF it
<1>6. IsRun([k \in 0 .. n |-> it[1 .. k]], "tokens", 0, << >>, seq, n)
  BY <1>5, FoldRuns
<1>7. [k \in 0 .. n |-> it[1 .. k]][n] = it[1 .. n]
  OBVIOUS
<1>8. QED
  BY <1>2, <1>6, <1>7

Controlled(g, class) == [registry |-> g, class |-> class, instance |-> ControllerInstance(g, class)]

LEMMA MethodsRun ==
  ASSUME NEW g, NEW s, NEW class, NEW n \in Nat, DOMAIN g.meta[class].methods = 1 .. n,
         ~s.thrown, g.meta[class].controller, ControllerInstance(g, class) # Unresolved
  PROVE  \E tr : /\ IsRun(tr, "methods", Controlled(g, class), s, g.meta[class].methods, n)
                 /\ RegisterController(g, s, class) = tr[n]
<1> DEFINE seq == g.meta[class].methods
           d == Controlled(g, class)
           instance == ControllerInstance(g, class)
           P(it) == it = [u \in SUBSET (1 .. n) |->
                       IF u = {} THEN s ELSE RegisterMethod(g, class, instance, it[u \ {Max(u)}], seq[Max(u)])]
           it == CHOOSE it : P(it)
<1>2. \A x : P(x) <=> IsFold(x, "methods", d, s, seq, n)
  <2>1. d.registry = g /\ d.class = class /\ d.instance = instance
    BY DEF Controlled
  <2> HIDE DEF d, instance
  <2>2. QED
    BY <2>1 DEF IsFold, Step
<1>3. P(it)
  BY <1>2, FoldExists
<1>4. RegisterController(g, s, class) = it[1 .. n]
  BY DEF RegisterController, FoldLeft, MapThenFoldSet
<1>5. IsFold(it, "methods", d, s, seq, n)
  BY <1>2, <1>3
<1> HIDE DEF it
<1>6. IsRun([k \in 0 .. n |-> it[1 .. k]], "methods", d, s, seq, n)
  BY <1>5, FoldRuns
<1>7. [k \in 0 .. n |-> it[1 .. k]][n] = it[1 .. n]
  OBVIOUS
<1>8. QED
  BY <1>4, <1>6, <1>7

LEMMA ControllersRun ==
  ASSUME NEW g, NEW n \in Nat, DOMAIN g.order = 1 .. n
  PROVE  \E tr : IsRun(tr, "controllers", g, [routes |-> << >>, thrown |-> FALSE], g.order, n) /\ Register(g) = tr[n]
<1> DEFINE base == [routes |-> << >>, thrown |-> FALSE]
           P(it) == it = [u \in SUBSET (1 .. n) |->
                       IF u = {} THEN base ELSE RegisterController(g, it[u \ {Max(u)}], g.order[Max(u)])]
           it == CHOOSE it : P(it)
<1>2. \A x : P(x) <=> IsFold(x, "controllers", g, base, g.order, n)
  <2>1. \A u, f : RegisterController(g, f[u \ {Max(u)}], g.order[Max(u)])
                  = Step("controllers", g, f[u \ {Max(u)}], g.order[Max(u)])
    BY DEF Step
  <2> HIDE DEF base
  <2>2. QED
    BY <2>1 DEF IsFold
<1>3. P(it)
  BY <1>2, FoldExists
<1>4. Register(g) = it[1 .. n]
  BY DEF Register, FoldLeft, MapThenFoldSet
<1>5. IsFold(it, "controllers", g, base, g.order, n)
  BY <1>2, <1>3
<1> HIDE DEF it
<1>6. IsRun([k \in 0 .. n |-> it[1 .. k]], "controllers", g, base, g.order, n)
  BY <1>5, FoldRuns
<1>7. [k \in 0 .. n |-> it[1 .. k]][n] = it[1 .. n]
  OBVIOUS
<1>8. QED
  BY <1>4, <1>6, <1>7

LEMMA RunCollects ==
  ASSUME NEW a, NEW n \in Nat, NEW tr, IsRun(tr, "tokens", 0, << >>, a, n)
  PROVE  Collected(a, n, tr[n])
<1> DEFINE good == {k \in Nat : k <= n => Collected(a, k, tr[k])}
<1>1. 0 \in good
  <2>1. IsList(<< >>) /\ DOMAIN << >> = {}
    BY DEF IsList
  <2>2. 1 .. 0 = {}
    OBVIOUS
  <2>3. Collected(a, 0, << >>)
    BY <2>1, <2>2 DEF Collected
  <2>4. QED
    BY <2>3 DEF IsRun
<1>2. ASSUME NEW k \in Nat, k \in good PROVE k + 1 \in good
  <2> SUFFICES ASSUME k + 1 <= n PROVE Collected(a, k + 1, tr[k + 1])
    OBVIOUS
  <2>1. k \in 0 .. n - 1 /\ k <= n
    OBVIOUS
  <2>2. tr[k + 1] = Collect(tr[k], a[k + 1])
    BY <2>1 DEF IsRun, Step
  <2>3. Collected(a, k, tr[k])
    BY <1>2, <2>1
  <2>4. QED
    BY <2>2, <2>3, CollectStep
<1>3. n \in good
  <2> HIDE DEF good
  <2>1. QED
    BY <1>1, <1>2, SetInduction
<1>4. QED
  BY <1>3

LEMMA TokensFacts ==
  ASSUME NEW g, NEW class, NEW method, IsList(AskedOf(g, class, method))
  PROVE  Collected(AskedOf(g, class, method), Len(AskedOf(g, class, method)), FilterTokens(g, class, method))
<1> DEFINE a == AskedOf(g, class, method)
           n == Len(a)
<1>1. n \in Nat /\ DOMAIN a = 1 .. n
  BY ListFacts
<1>2. PICK tr : IsRun(tr, "tokens", 0, << >>, a, n) /\ FilterTokens(g, class, method) = tr[n]
  BY <1>1, TokensRun
<1> HIDE DEF a, n
<1>3. QED
  BY <1>1, <1>2, RunCollects DEF a, n

(* A route that is there has been made of its method, with all its filters. *)
Served(g, r) ==
  /\ r.class \in DOMAIN g.meta
  /\ \E j \in DOMAIN g.meta[r.class].methods : r.method = g.meta[r.class].methods[j]
  /\ r.filters = ResolveErrorFilters(g, r.class, r.method)
  /\ \A j \in DOMAIN r.filters : r.filters[j] # Unresolved
  /\ r.params = ParamFactory(r.method)

IsMade(g, s) ==
  /\ s = [routes |-> s.routes, thrown |-> s.thrown]
  /\ IsList(s.routes) /\ \A i \in DOMAIN s.routes : Served(g, s.routes[i])

HasIt(s, class, method) == \E i \in DOMAIN s.routes : s.routes[i].class = class /\ s.routes[i].method = method

Grows(s, t) ==
  /\ s.thrown => t.thrown
  /\ \A i \in DOMAIN s.routes : i \in DOMAIN t.routes /\ t.routes[i] = s.routes[i]

LEMMA HasGrows ==
  ASSUME NEW s, NEW t, Grows(s, t), NEW class, NEW method, HasIt(s, class, method)
  PROVE  HasIt(t, class, method)
BY DEF Grows, HasIt

LEMMA GrowsOn ==
  ASSUME NEW s, NEW t, NEW u, Grows(s, t), Grows(t, u)
  PROVE  Grows(s, u)
BY DEF Grows

LEMMA MethodStep ==
  ASSUME NEW g, NEW s, IsMade(g, s), NEW class \in DOMAIN g.meta, NEW instance,
         NEW j \in DOMAIN g.meta[class].methods
  PROVE  LET m == g.meta[class].methods[j]
             t == RegisterMethod(g, class, instance, s, m)
         IN  /\ IsMade(g, t) /\ Grows(s, t)
             /\ ~t.thrown /\ m.verb # Unresolved => HasIt(t, class, m)
<1> DEFINE m == g.meta[class].methods[j]
           filters == ResolveErrorFilters(g, class, m)
           missing == (\E i \in DOMAIN filters : filters[i] = Unresolved) \/ m.name \notin Methods(g, instance.of)
           r == [class |-> class, method |-> m, instance |-> instance,
                 middlewares |-> ResolveMiddlewares(g, class, m), filters |-> filters, params |-> ParamFactory(m)]
           t == RegisterMethod(g, class, instance, s, m)
<1>1. CASE s.thrown \/ m.verb = Unresolved
  <2>1. t = s
    BY <1>1 DEF RegisterMethod
  <2>2. Grows(s, s)
    BY DEF Grows
  <2>3. QED
    BY <1>1, <2>1, <2>2
<1>2. CASE ~(s.thrown \/ m.verb = Unresolved) /\ missing
  <2>1. t = [s EXCEPT !.thrown = TRUE]
    BY <1>2 DEF RegisterMethod
  <2> HIDE DEF t
  <2>2. t.routes = s.routes /\ t.thrown /\ t = [routes |-> t.routes, thrown |-> t.thrown]
    BY <2>1 DEF IsMade
  <2>3. IsMade(g, t)
    BY <2>2 DEF IsMade
  <2>4. QED
    BY <2>2, <2>3 DEF Grows, t
<1>3. CASE ~(s.thrown \/ m.verb = Unresolved) /\ ~missing
  <2>1. t = [s EXCEPT !.routes = Append(@, r)]
    BY <1>3 DEF RegisterMethod
  <2>2. Served(g, r) /\ r.class = class /\ r.method = m
    BY <1>3 DEF Served
  <2> HIDE DEF t, r, m
  <2>3. t.routes = Append(s.routes, r) /\ t.thrown = s.thrown /\ t = [routes |-> t.routes, thrown |-> t.thrown]
    BY <2>1 DEF IsMade
  <2> DEFINE n == Len(s.routes)
  <2>4. n \in Nat /\ DOMAIN s.routes = 1 .. n
    BY ListFacts DEF IsMade
  <2>5. /\ IsList(t.routes) /\ Len(t.routes) = n + 1
        /\ \A i \in 1 .. n : t.routes[i] = s.routes[i]
        /\ t.routes[n + 1] = r
    BY <2>3, ListAppended DEF IsMade
  <2>6. DOMAIN t.routes = 1 .. n + 1
    BY <2>5, ListFacts
  <2> HIDE DEF n
  <2>7. n + 1 \in 1 .. n + 1 /\ (\A i \in 1 .. n : i \in 1 .. n + 1) /\ \A i \in 1 .. n + 1 : i \in 1 .. n \/ i = n + 1
    BY <2>4
  <2>8. \A i \in DOMAIN t.routes : Served(g, t.routes[i])
    BY <2>2, <2>4, <2>5, <2>6, <2>7 DEF IsMade
  <2>9. IsMade(g, t)
    BY <2>3, <2>5, <2>8 DEF IsMade
  <2>10. Grows(s, t)
    BY <2>3, <2>4, <2>5, <2>6, <2>7 DEF Grows
  <2>11. HasIt(t, class, m)
    BY <2>2, <2>5, <2>6, <2>7 DEF HasIt
  <2>12. QED
    BY <2>9, <2>10, <2>11 DEF t, m
<1>4. QED
  BY <1>1, <1>2, <1>3

(* The methods of a controller that is made all have their routes, or the   *)
(* start has failed.                                                        *)
AllHere(g, s, class) ==
  g.meta[class].controller /\ ControllerInstance(g, class) # Unresolved =>
    \A j \in DOMAIN g.meta[class].methods :
      g.meta[class].methods[j].verb # Unresolved => HasIt(s, class, g.meta[class].methods[j])

LEMMA ControllerStep ==
  ASSUME NEW g, IsRegistry(g), NEW s, IsMade(g, s), NEW class \in DOMAIN g.meta
  PROVE  LET t == RegisterController(g, s, class)
         IN  IsMade(g, t) /\ Grows(s, t) /\ (~t.thrown => AllHere(g, t, class))
<1> DEFINE instance == ControllerInstance(g, class)
           methods == g.meta[class].methods
           n == Len(methods)
           t == RegisterController(g, s, class)
<1>0. Grows(s, s)
  BY DEF Grows
<1>1. CASE s.thrown \/ ~g.meta[class].controller \/ instance = Unresolved
  <2>1. t = s
    BY <1>1 DEF RegisterController
  <2>2. QED
    BY <1>0, <1>1, <2>1 DEF AllHere
<1>2. CASE ~(s.thrown \/ ~g.meta[class].controller \/ instance = Unresolved)
  <2>1. n \in Nat /\ DOMAIN methods = 1 .. n
    BY ListFacts DEF IsRegistry
  <2>2. PICK tr : IsRun(tr, "methods", Controlled(g, class), s, methods, n) /\ t = tr[n]
    BY <1>2, <2>1, MethodsRun
  <2>3. /\ tr[0] = s
        /\ \A k \in 0 .. n - 1 : tr[k + 1] = RegisterMethod(g, class, instance, tr[k], methods[k + 1])
    BY <2>2 DEF IsRun, Step, Controlled
  <2> HIDE DEF n, t, instance
  <2> DEFINE good == {k \in Nat : k <= n =>
                        /\ IsMade(g, tr[k]) /\ Grows(s, tr[k])
                        /\ ~tr[k].thrown => \A j \in 1 .. k : methods[j].verb # Unresolved => HasIt(tr[k], class, methods[j])}
  <2>4. 0 \in good
    BY <1>0, <2>3
  <2>5. ASSUME NEW k \in Nat, k \in good PROVE k + 1 \in good
    <3> SUFFICES ASSUME k + 1 <= n
                 PROVE  /\ IsMade(g, tr[k + 1]) /\ Grows(s, tr[k + 1])
                        /\ ~tr[k + 1].thrown =>
                             \A j \in 1 .. k + 1 : methods[j].verb # Unresolved => HasIt(tr[k + 1], class, methods[j])
      OBVIOUS
    <3>1. k \in 0 .. n - 1 /\ k <= n /\ k + 1 \in DOMAIN methods
      BY <2>1
    <3>2. /\ IsMade(g, tr[k]) /\ Grows(s, tr[k])
          /\ ~tr[k].thrown => \A j \in 1 .. k : methods[j].verb # Unresolved => HasIt(tr[k], class, methods[j])
      BY <2>5, <3>1
    <3>3. /\ IsMade(g, tr[k + 1]) /\ Grows(tr[k], tr[k + 1])
          /\ ~tr[k + 1].thrown /\ methods[k + 1].verb # Unresolved => HasIt(tr[k + 1], class, methods[k + 1])
      BY <2>3, <3>1, <3>2, MethodStep
    <3>4. Grows(s, tr[k + 1])
      BY <3>2, <3>3, GrowsOn
    <3>5. ASSUME ~tr[k + 1].thrown, NEW j \in 1 .. k + 1, methods[j].verb # Unresolved
          PROVE  HasIt(tr[k + 1], class, methods[j])
      <4>1. CASE j = k + 1
        BY <3>3, <3>5, <4>1
      <4>2. CASE j \in 1 .. k
        <5>1. ~tr[k].thrown
          BY <3>3, <3>5 DEF Grows
        <5>2. HasIt(tr[k], class, methods[j])
          BY <3>2, <3>5, <4>2, <5>1
        <5>3. QED
          BY <3>3, <5>2, HasGrows
      <4>3. QED
        BY <4>1, <4>2
    <3>6. QED
      BY <3>3, <3>4, <3>5
  <2>6. n \in good
    <3> HIDE DEF good
    <3>1. QED
      BY <2>1, <2>4, <2>5, SetInduction
  <2>7. IsMade(g, t) /\ Grows(s, t) /\ (~t.thrown => AllHere(g, t, class))
    BY <2>1, <2>2, <2>6 DEF AllHere
  <2>8. QED
    BY <2>7 DEF t
<1>3. QED
  BY <1>1, <1>2

LEMMA RegisterFacts ==
  ASSUME NEW g, IsRegistry(g)
  PROVE  LET out == Register(g)
         IN  IsMade(g, out) /\ (~out.thrown => \A i \in DOMAIN g.order : AllHere(g, out, g.order[i]))
<1> DEFINE n == Len(g.order)
           base == [routes |-> << >>, thrown |-> FALSE]
           out == Register(g)
<1>1. n \in Nat /\ DOMAIN g.order = 1 .. n /\ \A i \in 1 .. n : g.order[i] \in DOMAIN g.meta
  BY ListFacts DEF IsRegistry
<1>2. PICK tr : IsRun(tr, "controllers", g, base, g.order, n) /\ out = tr[n]
  BY <1>1, ControllersRun
<1>3. tr[0] = base /\ \A k \in 0 .. n - 1 : tr[k + 1] = RegisterController(g, tr[k], g.order[k + 1])
  BY <1>2 DEF IsRun, Step
<1> HIDE DEF n, out
<1> DEFINE good == {k \in Nat : k <= n =>
                      IsMade(g, tr[k]) /\ (~tr[k].thrown => \A i \in 1 .. k : AllHere(g, tr[k], g.order[i]))}
<1>4. 0 \in good
  <2>1. IsList(<< >>) /\ DOMAIN << >> = {}
    BY DEF IsList
  <2>2. IsMade(g, base)
    BY <2>1 DEF IsMade
  <2>3. QED
    BY <1>3, <2>2
<1>5. ASSUME NEW k \in Nat, k \in good PROVE k + 1 \in good
  <2> SUFFICES ASSUME k + 1 <= n
               PROVE  /\ IsMade(g, tr[k + 1])
                      /\ ~tr[k + 1].thrown => \A i \in 1 .. k + 1 : AllHere(g, tr[k + 1], g.order[i])
    OBVIOUS
  <2>1. k \in 0 .. n - 1 /\ k <= n /\ g.order[k + 1] \in DOMAIN g.meta
    BY <1>1
  <2>2. IsMade(g, tr[k]) /\ (~tr[k].thrown => \A i \in 1 .. k : AllHere(g, tr[k], g.order[i]))
    BY <1>5, <2>1
  <2>3. /\ IsMade(g, tr[k + 1]) /\ Grows(tr[k], tr[k + 1])
        /\ ~tr[k + 1].thrown => AllHere(g, tr[k + 1], g.order[k + 1])
    BY <1>3, <2>1, <2>2, ControllerStep
  <2>4. ASSUME ~tr[k + 1].thrown, NEW i \in 1 .. k PROVE AllHere(g, tr[k + 1], g.order[i])
    <3>1. AllHere(g, tr[k], g.order[i])
      BY <2>2, <2>3, <2>4 DEF Grows
    <3>2. QED
      BY <2>3, <3>1, HasGrows DEF AllHere
  <2>5. \A i \in 1 .. k + 1 : i \in 1 .. k \/ i = k + 1
    OBVIOUS
  <2>6. QED
    BY <2>3, <2>4, <2>5
<1>6. n \in good
  <2> HIDE DEF good
  <2>1. QED
    BY <1>1, <1>4, <1>5, SetInduction
<1>7. QED
  BY <1>1, <1>2, <1>6 DEF out

LEMMA LengthIs ==
  ASSUME NEW k \in Nat, NEW s, s = [i \in 1 .. k |-> s[i]]
  PROVE  Len(s) = k
<1> DEFINE S == {s[i] : i \in 1 .. k}
<1>1. s \in [1 .. k -> S] /\ DOMAIN s = 1 .. k
  OBVIOUS
<1> HIDE DEF S
<1>2. s \in Seq(S)
  BY <1>1, SeqDef
<1>3. Len(s) \in Nat /\ DOMAIN s = 1 .. Len(s)
  BY <1>2, LenProperties
<1>4. 1 .. k = 1 .. Len(s)
  BY <1>1, <1>3
<1>5. (k = 0 \/ k \in 1 .. Len(s)) /\ (Len(s) = 0 \/ Len(s) \in 1 .. k)
  BY <1>3, <1>4
<1>6. QED
  BY <1>3, <1>5

CollectedIn(a, n, out, k) ==
  /\ \A p, q \in 1 .. k : out[p] = out[q] => p = q
  /\ \A i \in 1 .. n : \E p \in 1 .. k : out[p] = a[i]
  /\ \A p \in 1 .. k : \E i \in 1 .. n : out[p] = a[i]
  /\ \A p, q \in 1 .. k : p < q =>
       \E i \in 1 .. n : a[i] = out[p] /\ \A j \in 1 .. n : a[j] = out[q] => i < j

LEMMA CollectedAt ==
  ASSUME NEW a, NEW n, NEW out, NEW k, DOMAIN out = 1 .. k, Collected(a, n, out)
  PROVE  CollectedIn(a, n, out, k)
<1>1. \A p, q \in 1 .. k : out[p] = out[q] => p = q
  BY DEF Collected
<1>2. \A i \in 1 .. n : \E p \in 1 .. k : out[p] = a[i]
  BY DEF Collected
<1>3. \A p \in 1 .. k : \E i \in 1 .. n : out[p] = a[i]
  BY DEF Collected
<1>4. ASSUME NEW p \in 1 .. k, NEW q \in 1 .. k, p < q
      PROVE  \E i \in 1 .. n : a[i] = out[p] /\ \A j \in 1 .. n : a[j] = out[q] => i < j
  <2>1. \A x, y \in DOMAIN out : x < y => \E i \in 1 .. n : a[i] = out[x] /\ \A j \in 1 .. n : a[j] = out[y] => i < j
    BY DEF Collected
  <2>2. p \in DOMAIN out /\ q \in DOMAIN out
    OBVIOUS
  <2>3. QED
    BY <1>4, <2>1, <2>2
<1>5. QED
  BY <1>1, <1>2, <1>3, <1>4 DEF CollectedIn

(* All error filters that are asked for, each once, the method's first.     *)
LEMMA FiltersInOrder ==
  ASSUME NEW g, IsRegistry(g), NEW r, Served(g, r)
  PROVE  LET asked == r.method.filters \o g.meta[r.class].filters
             first(t) == CHOOSE n \in DOMAIN asked : asked[n] = t /\ \A m \in DOMAIN asked : asked[m] = t => n <= m
         IN /\ \A j \in DOMAIN r.filters : IsKind(r.filters[j], "filter")
            /\ Len(r.filters) = Cardinality({asked[n] : n \in DOMAIN asked})
            /\ \A t, u \in {asked[n] : n \in DOMAIN asked} : first(t) < first(u) =>
                 \E j, k \in DOMAIN r.filters : j < k /\ r.filters[j] = Guard(g, t, "filter") /\ r.filters[k] = Guard(g, u, "filter")
<1> DEFINE asked == AskedOf(g, r.class, r.method)
           first(t) == CHOOSE n \in DOMAIN asked : asked[n] = t /\ \A m \in DOMAIN asked : asked[m] = t => n <= m
           tokens == FilterTokens(g, r.class, r.method)
           n == Len(asked)
           k == Len(tokens)
           all == {asked[i] : i \in DOMAIN asked}
<1>1. IsList(asked)
  BY ListJoined DEF AskedOf, Served, IsRegistry
<1>2. n \in Nat /\ DOMAIN asked = 1 .. n /\ Collected(asked, n, tokens)
  BY <1>1, ListFacts, TokensFacts
<1>3. k \in Nat /\ DOMAIN tokens = 1 .. k /\ IsList(tokens)
  BY <1>2, ListFacts DEF Collected
<1>4. r.filters = [i \in DOMAIN tokens |-> Guard(g, tokens[i], "filter")]
  BY DEF Served, ResolveErrorFilters
<1> HIDE DEF asked, tokens, n, k
<1>0. /\ \A p, q \in 1 .. k : tokens[p] = tokens[q] => p = q
      /\ \A i \in 1 .. n : \E p \in 1 .. k : tokens[p] = asked[i]
      /\ \A p \in 1 .. k : \E i \in 1 .. n : tokens[p] = asked[i]
      /\ \A p, q \in 1 .. k : p < q =>
           \E i \in 1 .. n : asked[i] = tokens[p] /\ \A j \in 1 .. n : asked[j] = tokens[q] => i < j
  <2>1. Collected(asked, n, tokens) /\ DOMAIN tokens = 1 .. k
    BY <1>2, <1>3
  <2>2. CollectedIn(asked, n, tokens, k)
    BY <2>1, CollectedAt
  <2>3. QED
    BY <2>2 DEF CollectedIn
<1>5. ASSUME NEW j \in DOMAIN r.filters PROVE IsKind(r.filters[j], "filter")
  <2>1. r.filters[j] # Unresolved /\ r.filters[j] = Guard(g, tokens[j], "filter")
    BY <1>4 DEF Served
  <2>2. QED
    BY <2>1 DEF Guard
<1>6. Len(r.filters) = Cardinality(all)
  <2>1. DOMAIN r.filters = 1 .. k /\ r.filters = [i \in 1 .. k |-> r.filters[i]]
    BY <1>3, <1>4
  <2>2. Len(r.filters) = k
    BY <1>3, <2>1, LengthIs
  <2>3. tokens \in Bijection(1 .. k, all)
    <3>1. tokens = [i \in 1 .. k |-> tokens[i]]
      BY <1>3 DEF IsList, k
    <3>2. \A p \in 1 .. k : tokens[p] \in all
      BY <1>0, <1>2
    <3>3. tokens \in [1 .. k -> all]
      BY <3>1, <3>2
    <3>4. \A p, q \in 1 .. k : tokens[p] = tokens[q] => p = q
      BY <1>0
    <3>5. ASSUME NEW t \in all PROVE \E p \in 1 .. k : tokens[p] = t
      <4>1. PICK i \in 1 .. n : t = asked[i]
        BY <1>2
      <4>2. QED
        BY <1>0, <4>1
    <3>6. QED
      BY <3>3, <3>4, <3>5 DEF Bijection, Injection, Surjection, IsInjective
  <2>4. IsFiniteSet(1 .. k) /\ Cardinality(1 .. k) = k
    BY <1>3, FS_Interval
  <2>5. Cardinality(all) = k
    BY <2>3, <2>4, FS_Bijection DEF ExistsBijection
  <2>6. QED
    BY <2>2, <2>5
<1>7. ASSUME NEW t \in all
      PROVE  first(t) \in 1 .. n /\ asked[first(t)] = t /\ \A m \in 1 .. n : asked[m] = t => first(t) <= m
  <2> DEFINE at == {i \in 1 .. n : asked[i] = t}
  <2>1. at \in SUBSET Nat /\ at # {}
    BY <1>2
  <2>2. \E i \in at : \A m \in at : i <= m
    BY <2>1, LeastIn
  <2>3. \E i \in DOMAIN asked : asked[i] = t /\ \A m \in DOMAIN asked : asked[m] = t => i <= m
    BY <1>2, <2>2
  <2>4. QED
    BY <1>2, <2>3
<1>8. ASSUME NEW t \in all, NEW u \in all, first(t) < first(u)
      PROVE  \E p, q \in DOMAIN r.filters : p < q /\ r.filters[p] = Guard(g, t, "filter") /\ r.filters[q] = Guard(g, u, "filter")
  <2>1. /\ first(t) \in 1 .. n /\ asked[first(t)] = t
        /\ \A m \in 1 .. n : asked[m] = t => first(t) <= m
    BY <1>7
  <2>2. /\ first(u) \in 1 .. n /\ asked[first(u)] = u
        /\ \A m \in 1 .. n : asked[m] = u => first(u) <= m
    BY <1>7
  <2>3. ~(first(u) <= first(t)) /\ ~(first(u) < first(t)) /\ first(t) \in Nat /\ first(u) \in Nat
    BY <1>2, <1>8, <2>1, <2>2
  <2> HIDE DEF first
  <2>10. \E p \in 1 .. k : tokens[p] = t
    BY <1>0, <2>1
  <2>11. \E q \in 1 .. k : tokens[q] = u
    BY <1>0, <2>2
  <2>4. (\E p \in 1 .. k : tokens[p] = t) /\ \E q \in 1 .. k : tokens[q] = u
    BY <2>10, <2>11
  <2>5. PICK p \in 1 .. k, q \in 1 .. k : tokens[p] = t /\ tokens[q] = u
    BY <2>4
  <2>6. p # q
    BY <2>1, <2>2, <2>3, <2>5
  <2>7. ~(q < p)
    <3> SUFFICES ASSUME q < p PROVE FALSE
      OBVIOUS
    <3>1. PICK i \in 1 .. n : asked[i] = u /\ \A j \in 1 .. n : asked[j] = t => i < j
      <4>1. \E i \in 1 .. n : asked[i] = tokens[q] /\ \A j \in 1 .. n : asked[j] = tokens[p] => i < j
        BY <1>0
      <4>2. QED
        BY <2>5, <4>1
    <3>2. i < first(t) /\ first(u) <= i /\ i \in Nat
      BY <1>2, <2>1, <2>2, <3>1
    <3>3. QED
      BY <2>3, <3>2
  <2>8. p < q
    BY <1>3, <2>6, <2>7
  <2>9. QED
    BY <1>3, <1>4, <2>5, <2>8
<1>9. QED
  BY <1>5, <1>6, <1>8 DEF asked, AskedOf

LEMMA RoutesFacts ==
  ASSUME NEW g, IsRegistry(g)
  PROVE  ServedIsGuarded(g)
<1> DEFINE out == Register(g)
<1>1. IsMade(g, out) /\ (~out.thrown => \A i \in DOMAIN g.order : AllHere(g, out, g.order[i]))
  BY RegisterFacts
<1> HIDE DEF out
<1>2. ASSUME NEW i \in DOMAIN out.routes, NEW j \in DOMAIN out.routes[i].params,
             out.routes[i].params[j].value = "body", out.routes[i].method.params[j].type # Unresolved
      PROVE  out.routes[i].params[j].validated
  <2> DEFINE r == out.routes[i]
             kind == ParamKind(r.method.params[j])
  <2>1. r.params = ParamFactory(r.method)
    BY <1>1 DEF IsMade, Served
  <2> HIDE DEF r
  <2>2. j \in DOMAIN r.params
    BY DEF r
  <2>3. j \in DOMAIN r.method.params
    BY <2>1, <2>2 DEF ParamFactory
  <2>4. r.params[j] = [value |-> ArgumentOf(kind), validated |-> r.method.params[j].type # Unresolved /\ kind \in {"body", "query"}]
    BY <2>1, <2>3 DEF ParamFactory
  <2> HIDE DEF kind
  <2>5. ArgumentOf(kind) = "body" /\ r.method.params[j].type # Unresolved
    BY <1>2, <2>4 DEF r
  <2>6. kind = "body"
    BY <2>5 DEF ArgumentOf
  <2>7. (r.method.params[j].type # Unresolved /\ kind \in {"body", "query"}) = TRUE
    BY <2>5, <2>6
  <2>8. r.params[j] = [value |-> ArgumentOf(kind), validated |-> TRUE]
    BY <2>4, <2>7, Zenon
  <2>9. r.params[j].validated
    BY <2>8
  <2>10. QED
    BY <2>9 DEF r
<1>3. ASSUME NEW i \in DOMAIN out.routes
      PROVE  LET r == out.routes[i]
                 asked == r.method.filters \o g.meta[r.class].filters
                 first(t) == CHOOSE n \in DOMAIN asked : asked[n] = t /\ \A m \in DOMAIN asked : asked[m] = t => n <= m
             IN /\ \A j \in DOMAIN r.filters : IsKind(r.filters[j], "filter")
                /\ Len(r.filters) = Cardinality({asked[n] : n \in DOMAIN asked})
                /\ \A t, u \in {asked[n] : n \in DOMAIN asked} : first(t) < first(u) =>
                     \E j, k \in DOMAIN r.filters : j < k /\ r.filters[j] = Guard(g, t, "filter") /\ r.filters[k] = Guard(g, u, "filter")
  <2>1. Served(g, out.routes[i])
    BY <1>1 DEF IsMade
  <2>2. QED
    BY <2>1, FiltersInOrder
<1>4. ~out.thrown =>
        \A i \in DOMAIN g.order : \A j \in DOMAIN g.meta[g.order[i]].methods :
          LET m == g.meta[g.order[i]].methods[j] IN
          g.meta[g.order[i]].controller /\ m.verb # Unresolved /\ ControllerInstance(g, g.order[i]) # Unresolved =>
            \E n \in DOMAIN out.routes : out.routes[n].class = g.order[i] /\ out.routes[n].method = m
  BY <1>1 DEF AllHere, HasIt
<1>5. QED
  BY <1>2, <1>3, <1>4, Zenon DEF ServedIsGuarded, out

-----------------------------------------------------------------------------
(* ResolvedIsNamed *)
Stated(k) == IF SuffixOf[k] = Unresolved THEN TokenName[k] ELSE SuffixOf[k]

Named(instance, t) == instance # Unresolved => TokenName[instance.of] = TokenName[t]

LEMMA GetNamed ==
  ASSUME NEW g, IsRegistry(g), NEW t, SuffixOf[t] = Unresolved,
         \A k \in DOMAIN g.instances : TokenName[g.instances[k].of] = Stated(k),
         \A k \in DOMAIN g.scoped : Stated(g.scoped[k]) = TokenName[k]
  PROVE  /\ Named(TryGetFromContainer(g, t), t)
         /\ Named(GetInstance(g, IF t \in DOMAIN g.scoped THEN g.scoped[t] ELSE t), t)
<1>1. \A k : Stated(k) = TokenName[t] => Named(GetInstance(g, k), t)
  BY DEF GetInstance, Named
<1>2. Stated(t) = TokenName[t]
  BY DEF Stated
<1>3. Named(TryGetFromContainerBySuffix(g, t), t)
  <2> DEFINE S == Suffixed(g, t)
  <2>1. CASE TokenName[t] = Unresolved \/ S = {}
    BY <2>1 DEF TryGetFromContainerBySuffix, Named
  <2>2. CASE ~(TokenName[t] = Unresolved \/ S = {})
    <3>1. S \in SUBSET Nat
      BY ListFacts DEF Suffixed, IsRegistry
    <3>2. \E m \in S : \A j \in S : m <= j
      BY <2>2, <3>1, LeastIn
    <3>3. Min(S) \in S
      BY <3>2 DEF Min
    <3>4. SuffixOf[g.keys[Min(S)]] = TokenName[t]
      BY <3>3 DEF Suffixed
    <3>5. Stated(g.keys[Min(S)]) = TokenName[t]
      BY <2>2, <3>4 DEF Stated
    <3>6. TryGetFromContainerBySuffix(g, t) = GetInstance(g, g.keys[Min(S)])
      BY <2>2 DEF TryGetFromContainerBySuffix
    <3>7. QED
      BY <1>1, <3>5, <3>6
  <2>3. QED
    BY <2>1, <2>2
<1>4. \/ t \in DOMAIN g.scoped /\ TryGetFromContainer(g, t) = GetInstance(g, g.scoped[t])
      \/ TryGetFromContainer(g, t) = GetInstance(g, t)
      \/ TryGetFromContainer(g, t) = TryGetFromContainerBySuffix(g, t)
  BY DEF TryGetFromContainer
<1>5. Named(TryGetFromContainer(g, t), t)
  BY <1>1, <1>2, <1>3, <1>4
<1>6. QED
  BY <1>1, <1>2, <1>5

LEMMA ResolvedFacts ==
  ASSUME NEW g, IsRegistry(g)
  PROVE  ResolvedIsNamed(g)
<1> SUFFICES ASSUME \A k \in DOMAIN g.instances : TokenName[g.instances[k].of] = Stated(k),
                    \A k \in DOMAIN g.scoped : Stated(g.scoped[k]) = TokenName[k],
                    NEW t \in DOMAIN g.meta
             PROVE  /\ Named(TryGetFromContainer(g, t), t)
                    /\ Named(ControllerInstance(g, t), t)
                    /\ \A kind \in {"middleware", "filter"} : Named(Guard(g, t, kind), t)
                    /\ TryCreateControllerInstance(g, t) # Unresolved =>
                         \A i \in DOMAIN g.meta[t].inject :
                           SuffixOf[g.meta[t].inject[i]] = Unresolved =>
                             Named(TryCreateControllerInstance(g, t).deps[i], g.meta[t].inject[i])
  BY DEF ResolvedIsNamed, Stated, Named
<1>1. SuffixOf[t] = Unresolved
  BY DEF IsRegistry
<1>2. /\ Named(TryGetFromContainer(g, t), t)
      /\ Named(GetInstance(g, IF t \in DOMAIN g.scoped THEN g.scoped[t] ELSE t), t)
  BY <1>1, GetNamed
<1>3. TryCreateControllerInstance(g, t) # Unresolved =>
        TryCreateControllerInstance(g, t) =
          [of |-> t, deps |-> [i \in DOMAIN g.meta[t].inject |-> TryGetFromContainer(g, g.meta[t].inject[i])]]
  BY DEF TryCreateControllerInstance
<1>4. Named(TryCreateControllerInstance(g, t), t)
  BY <1>3 DEF Named
<1>5. Named(ControllerInstance(g, t), t)
  BY <1>2, <1>4 DEF ControllerInstance
<1>6. ASSUME NEW kind PROVE Named(Guard(g, t, kind), t)
  <2>1. Guard(g, t, kind) \in {TryGetFromContainer(g, t), TryCreateControllerInstance(g, t), Unresolved}
    BY DEF Guard
  <2>2. Named(Unresolved, t)
    BY DEF Named
  <2>3. QED
    BY <1>2, <1>4, <2>1, <2>2
<1>7. ASSUME TryCreateControllerInstance(g, t) # Unresolved,
             NEW i \in DOMAIN g.meta[t].inject, SuffixOf[g.meta[t].inject[i]] = Unresolved
      PROVE  Named(TryCreateControllerInstance(g, t).deps[i], g.meta[t].inject[i])
  <2>1. TryCreateControllerInstance(g, t).deps[i] = TryGetFromContainer(g, g.meta[t].inject[i])
    BY <1>3, <1>7
  <2>2. QED
    BY <1>7, <2>1, GetNamed
<1>8. QED
  BY <1>2, <1>5, <1>6, <1>7

(* A route that is served is guarded by all the error filters asked for, in *)
(* their order, and every token stands for an instance of its name, however *)
(* a container's keys, the classes and their lists are named and arranged.  *)
THEOREM RoutesCorrect == SampleSpec => []RoutesAreGuarded
<1>1. SampleInv => RoutesAreGuarded
  <2> SUFFICES ASSUME SampleInv, Of("registry")
               PROVE  ServedIsGuarded(It) /\ ResolvedIsNamed(It)
    BY DEF RoutesAreGuarded
  <2>1. IsRegistry(It)
    BY RegistryAssumption DEF SampleInv, Of, It, NoSample
  <2>2. QED
    BY <2>1, RoutesFacts, ResolvedFacts
<1>2. QED
  BY <1>1, SampleTaken, PTL

-----------------------------------------------------------------------------
(* ClientIsFirst *)
Pair(m) == <<m.address.host, 0>>

(* What has been read of some mentions, each address at least once.         *)
Reads(out, mentions) ==
  /\ IsList(out)
  /\ \A i \in DOMAIN out : \E m \in Naming(mentions) : out[i] = Pair(m)
  /\ \A m \in Naming(mentions) : \E i \in DOMAIN out : out[i] = Pair(m)
  /\ \A m : IsFirst(m, Naming(mentions)) => out[1] = Pair(m)

AllBefore(mentions, place) == \A m \in mentions : IsEarlier(m.place, place)

LEMMA OneRead ==
  ASSUME NEW a, WellWritten(a)
  PROVE  ExtractHeaderIp(a) = IF a.host \in V4 \cup V6 THEN <<a.host, 0>> ELSE << >>
<1>1. CASE a.host \notin V4 \cup V6
  BY <1>1 DEF ExtractHeaderIp, NoIp
<1>2. CASE a.host \in V4 \cup V6
  <2>1. a.host \notin Placeholder
    BY <1>2, HeadersAssumption
  <2>2. a.port = 0 \/ a.bracket \/ PortIsStripped(a)
    BY <1>2 DEF WellWritten, PortIsStripped
  <2>3. (IF a.bracket \/ PortIsStripped(a) THEN 0 ELSE a.port) = 0
    BY <2>2
  <2>4. ExtractHeaderIp(a) = <<a.host, 0>>
    BY <1>2, <2>1, <2>3 DEF ExtractHeaderIp
  <2>5. QED
    BY <1>2, <2>4
<1>3. QED
  BY <1>1, <1>2

LEMMA NoPairIsNone == \A h : <<h, 0>> # << >>
OBVIOUS

LEMMA NothingRead == Reads(<< >>, {})
<1>1. IsList(<< >>) /\ DOMAIN << >> = {}
  BY DEF IsList
<1>2. Naming({}) = {}
  BY DEF Naming
<1>3. QED
  BY <1>1, <1>2 DEF Reads, IsFirst

LEMMA ReadsEmpty ==
  ASSUME NEW out, NEW M, Reads(out, M)
  PROVE  /\ out = << >> <=> Naming(M) = {}
         /\ Naming(M) # {} => 1 \in DOMAIN out
<1>1. Len(out) \in Nat /\ DOMAIN out = 1 .. Len(out) /\ out = [i \in 1 .. Len(out) |-> out[i]]
  BY ListFacts DEF Reads, IsList
<1>2. CASE Naming(M) = {}
  <2>1. DOMAIN out = {}
    BY <1>2 DEF Reads
  <2>2. out = << >>
    BY <1>1, <2>1
  <2>3. QED
    BY <1>2, <2>2
<1>3. CASE Naming(M) # {}
  <2>1. DOMAIN out # {}
    BY <1>3 DEF Reads
  <2>2. 1 \in DOMAIN out
    BY <1>1, <2>1
  <2>3. out # << >>
    BY <2>1
  <2>4. QED
    BY <1>3, <2>2, <2>3
<1>4. QED
  BY <1>2, <1>3

(* One more address is read, behind all the others.                         *)
LEMMA PushedReads ==
  ASSUME NEW out, NEW M, Reads(out, M), NEW m, WellWritten(m.address), AllBefore(M, m.place)
  PROVE  Reads(Pushed(out, m.address), M \cup {m})
<1> DEFINE N == Naming(M)
           after == Naming(M \cup {m})
<1>1. CASE m.address.host \notin V4 \cup V6
  <2>1. Pushed(out, m.address) = out
    BY <1>1, OneRead DEF Pushed, NoIp
  <2>2. after = N
    BY <1>1 DEF Naming
  <2>3. QED
    BY <2>1, <2>2 DEF Reads
<1>2. CASE m.address.host \in V4 \cup V6
  <2> DEFINE new == Append(out, Pair(m))
             n == Len(out)
  <2>1. Pushed(out, m.address) = new
    BY <1>2, OneRead, NoPairIsNone DEF Pushed, NoIp, Pair
  <2>2. after = N \cup {m} /\ m \in after
    BY <1>2 DEF Naming
  <2>3. n \in Nat /\ DOMAIN out = 1 .. n
    BY ListFacts DEF Reads
  <2>4. /\ IsList(new) /\ DOMAIN new = 1 .. n + 1
        /\ \A i \in 1 .. n : new[i] = out[i]
        /\ new[n + 1] = Pair(m)
    BY <2>3, ListAppended, ListFacts DEF Reads
  <2> HIDE DEF new, n, N, after
  <2>5. n + 1 \in 1 .. n + 1 /\ (\A i \in 1 .. n : i \in 1 .. n + 1) /\ \A i \in 1 .. n + 1 : i \in 1 .. n \/ i = n + 1
    BY <2>3
  <2>6. /\ \A i \in 1 .. n : \E x \in N : out[i] = Pair(x)
        /\ \A x \in N : \E i \in 1 .. n : out[i] = Pair(x)
        /\ \A x : IsFirst(x, N) => out[1] = Pair(x)
    BY <2>3 DEF Reads, N
  <2>7. \A i \in DOMAIN new : \E x \in after : new[i] = Pair(x)
    BY <2>2, <2>4, <2>5, <2>6
  <2>8. \A x \in after : \E i \in DOMAIN new : new[i] = Pair(x)
    BY <2>2, <2>4, <2>5, <2>6
  <2>9. ASSUME NEW x, IsFirst(x, after) PROVE new[1] = Pair(x)
    <3>1. CASE N = {}
      <4>1. x = m
        BY <2>2, <2>9, <3>1 DEF IsFirst
      <4>2. \A i \in 1 .. n : FALSE
        BY <2>6, <3>1
      <4>3. n = 0
        BY <2>3, <4>2
      <4>4. QED
        BY <2>4, <4>1, <4>3
    <3>2. CASE N # {}
      <4>1. PICK y \in N : TRUE
        BY <3>2
      <4>2. IsEarlier(y.place, m.place) /\ y \in after
        BY <2>2, <4>1 DEF AllBefore, N, Naming
      <4>3. x \in N /\ IsFirst(x, N)
        BY <2>2, <2>9, <4>2 DEF IsFirst
      <4>4. 1 \in 1 .. n
        BY <2>3, <2>6, <4>1
      <4>5. QED
        BY <2>4, <2>6, <4>3, <4>4
    <3>3. QED
      BY <3>1, <3>2
  <2>10. Reads(new, M \cup {m})
    BY <2>4, <2>7, <2>8, <2>9 DEF Reads, after
  <2>11. QED
    BY <2>1, <2>10 DEF new
<1>3. QED
  BY <1>1, <1>2

(* What was read of two headers, one before the other.                      *)
LEMMA JoinedReads ==
  ASSUME NEW s, NEW M, Reads(s, M), NEW t, NEW N, Reads(t, N), \A x \in N : AllBefore(M, x.place)
  PROVE  Reads(s \o t, M \cup N)
<1> DEFINE u == s \o t
           n == Len(s)
           k == Len(t)
           both == Naming(M \cup N)
<1>1. both = Naming(M) \cup Naming(N)
  BY DEF Naming
<1>2. n \in Nat /\ k \in Nat /\ DOMAIN s = 1 .. n /\ DOMAIN t = 1 .. k
  BY ListFacts DEF Reads
<1>3. /\ IsList(u) /\ DOMAIN u = 1 .. n + k
      /\ \A i \in 1 .. n : u[i] = s[i]
      /\ \A i \in 1 .. k : u[n + i] = t[i]
  BY ListJoined, ListFacts DEF Reads
<1> HIDE DEF u, n, k, both
<1>4. /\ \A i \in 1 .. n : i \in 1 .. n + k
      /\ \A i \in 1 .. k : n + i \in 1 .. n + k
      /\ \A i \in 1 .. n + k : i \in 1 .. n \/ (i - n \in 1 .. k /\ n + (i - n) = i)
  BY <1>2
<1>5. /\ \A i \in 1 .. n : \E x \in Naming(M) : s[i] = Pair(x)
      /\ \A x \in Naming(M) : \E i \in 1 .. n : s[i] = Pair(x)
      /\ \A i \in 1 .. k : \E x \in Naming(N) : t[i] = Pair(x)
      /\ \A x \in Naming(N) : \E i \in 1 .. k : t[i] = Pair(x)
  BY <1>2 DEF Reads
<1>6. ASSUME NEW i \in DOMAIN u PROVE \E x \in both : u[i] = Pair(x)
  <2>1. CASE i \in 1 .. n
    BY <1>1, <1>3, <1>5, <2>1
  <2>2. CASE i - n \in 1 .. k /\ n + (i - n) = i
    <3>1. u[i] = t[i - n]
      BY <1>3, <2>2
    <3>2. QED
      BY <1>1, <1>5, <2>2, <3>1
  <2>3. QED
    BY <1>3, <1>4, <2>1, <2>2
<1>7. ASSUME NEW x \in both PROVE \E i \in DOMAIN u : u[i] = Pair(x)
  <2>1. CASE x \in Naming(M)
    BY <1>3, <1>4, <1>5, <2>1
  <2>2. CASE x \in Naming(N)
    <3>1. PICK i \in 1 .. k : t[i] = Pair(x)
      BY <1>5, <2>2
    <3>2. n + i \in DOMAIN u /\ u[n + i] = Pair(x)
      BY <1>3, <1>4, <3>1
    <3>3. QED
      BY <3>2
  <2>3. QED
    BY <1>1, <2>1, <2>2
<1>8. ASSUME NEW x, IsFirst(x, both) PROVE u[1] = Pair(x)
  <2>1. CASE Naming(M) = {}
    <3>1. n = 0
      <4>1. \A i \in 1 .. n : FALSE
        BY <1>5, <2>1
      <4>2. QED
        BY <1>2, <4>1
    <3>2. IsFirst(x, Naming(N)) /\ Naming(N) # {}
      BY <1>1, <1>8, <2>1 DEF IsFirst
    <3>3. t[1] = Pair(x) /\ 1 \in DOMAIN t
      BY <3>2, ReadsEmpty DEF Reads
    <3>4. u[0 + 1] = t[1]
      BY <1>2, <1>3, <3>1, <3>3
    <3>5. QED
      BY <3>3, <3>4
  <2>2. CASE Naming(M) # {}
    <3>1. PICK y \in Naming(M) : TRUE
      BY <2>2
    <3>2. ASSUME x \in Naming(N) PROVE FALSE
      <4>1. x \in N /\ y \in M
        BY <3>1, <3>2 DEF Naming
      <4>2. IsEarlier(y.place, x.place)
        BY <4>1 DEF AllBefore
      <4>3. QED
        BY <1>1, <1>8, <3>1, <4>2 DEF IsFirst
    <3>3. IsFirst(x, Naming(M))
      BY <1>1, <1>8, <3>2 DEF IsFirst
    <3>4. s[1] = Pair(x) /\ 1 \in DOMAIN s
      BY <2>2, <3>3, ReadsEmpty DEF Reads
    <3>5. QED
      BY <1>2, <1>3, <3>4
  <2>3. QED
    BY <2>1, <2>2
<1>9. QED
  BY <1>3, <1>6, <1>7, <1>8 DEF Reads, u, both

(* Addresses that are there twice are left out once.                        *)
LEMMA DedupedReads ==
  ASSUME NEW s, NEW M, Reads(s, M), NEW out, Collected(s, Len(s), out)
  PROVE  Reads(out, M)
<1> DEFINE n == Len(s)
           k == Len(out)
<1>1. n \in Nat /\ DOMAIN s = 1 .. n
  BY ListFacts DEF Reads
<1>2. IsList(out) /\ k \in Nat /\ DOMAIN out = 1 .. k
  BY ListFacts DEF Collected
<1>3. CollectedIn(s, n, out, k)
  BY <1>2, CollectedAt
<1> HIDE DEF n, k
<1>4. \A i \in DOMAIN out : \E m \in Naming(M) : out[i] = Pair(m)
  <2> SUFFICES ASSUME NEW i \in 1 .. k PROVE \E m \in Naming(M) : out[i] = Pair(m)
    BY <1>2
  <2>1. PICK j \in 1 .. n : out[i] = s[j]
    BY <1>3 DEF CollectedIn
  <2>2. QED
    BY <1>1, <2>1 DEF Reads
<1>5. \A m \in Naming(M) : \E i \in DOMAIN out : out[i] = Pair(m)
  <2> SUFFICES ASSUME NEW m \in Naming(M) PROVE \E i \in 1 .. k : out[i] = Pair(m)
    BY <1>2
  <2>1. PICK j \in 1 .. n : s[j] = Pair(m)
    BY <1>1 DEF Reads
  <2>2. QED
    BY <1>3, <2>1 DEF CollectedIn
<1>6. ASSUME NEW m, IsFirst(m, Naming(M)) PROVE out[1] = Pair(m)
  <2>1. s[1] = Pair(m) /\ 1 \in 1 .. n
    BY <1>1, <1>6, ReadsEmpty DEF Reads, IsFirst
  <2>2. PICK p \in 1 .. k : out[p] = s[1]
    BY <1>3, <2>1 DEF CollectedIn
  <2>3. ASSUME p # 1 PROVE FALSE
    <3>1. 1 \in 1 .. k /\ 1 < p
      BY <1>2, <2>3
    <3>2. \E i \in 1 .. n : s[i] = out[1] /\ \A j \in 1 .. n : s[j] = out[p] => i < j
      BY <1>3, <3>1 DEF CollectedIn
    <3>3. PICK i \in 1 .. n : i < 1
      BY <2>1, <2>2, <3>2
    <3>4. QED
      BY <1>1, <3>3
  <2>4. QED
    BY <2>1, <2>2, <2>3
<1>7. QED
  BY <1>2, <1>4, <1>5, <1>6 DEF Reads

(* The loops of getIps().                                                   *)
LEMMA AddressesRun ==
  ASSUME NEW header, NEW n \in Nat, DOMAIN header = 1 .. n
  PROVE  \E tr : IsRun(tr, "addresses", 0, << >>, header, n) /\ CollectXForwardedFor(header) = tr[n]
<1> DEFINE P(it) == it = [u \in SUBSET (1 .. n) |->
                       IF u = {} THEN << >> ELSE Pushed(it[u \ {Max(u)}], header[Max(u)])]
           it == CHOOSE it : P(it)
<1>2. CollectXForwardedFor(header) = it[1 .. n]
  BY DEF CollectXForwardedFor, FoldLeft, MapThenFoldSet
<1>3. \A x : P(x) <=> IsFold(x, "addresses", 0, << >>, header, n)
  BY DEF IsFold, Step
<1>4. P(it)
  BY <1>3, FoldExists
<1>5. IsFold(it, "addresses", 0, << >>, header, n)
  BY <1>3, <1>4
<1> HIDE DEF it
<1>6. IsRun([k \in 0 .. n |-> it[1 .. k]], "addresses", 0, << >>, header, n)
  BY <1>5, FoldRuns
<1>7. [k \in 0 .. n |-> it[1 .. k]][n] = it[1 .. n]
  OBVIOUS
<1>8. QED
  BY <1>2, <1>6, <1>7

LEMMA PairsRun ==
  ASSUME NEW found, NEW element, NEW n \in Nat, DOMAIN element = 1 .. n
  PROVE  \E tr : IsRun(tr, "pairs", 0, found, element, n) /\ CollectElement(found, element) = tr[n]
<1> DEFINE P(it) == it = [u \in SUBSET (1 .. n) |->
                       IF u = {} THEN found ELSE CollectPair(it[u \ {Max(u)}], element[Max(u)])]
           it == CHOOSE it : P(it)
<1>2. CollectElement(found, element) = it[1 .. n]
  BY DEF CollectElement, FoldLeft, MapThenFoldSet
<1>3. \A x : P(x) <=> IsFold(x, "pairs", 0, found, element, n)
  BY DEF IsFold, Step
<1>4. P(it)
  BY <1>3, FoldExists
<1>5. IsFold(it, "pairs", 0, found, element, n)
  BY <1>3, <1>4
<1> HIDE DEF it
<1>6. IsRun([k \in 0 .. n |-> it[1 .. k]], "pairs", 0, found, element, n)
  BY <1>5, FoldRuns
<1>7. [k \in 0 .. n |-> it[1 .. k]][n] = it[1 .. n]
  OBVIOUS
<1>8. QED
  BY <1>2, <1>6, <1>7

LEMMA ElementsRun ==
  ASSUME NEW header, NEW n \in Nat, DOMAIN header = 1 .. n
  PROVE  \E tr : IsRun(tr, "elements", 0, << >>, header, n) /\ CollectForwardedFor(header) = tr[n]
<1> DEFINE P(it) == it = [u \in SUBSET (1 .. n) |->
                       IF u = {} THEN << >> ELSE CollectElement(it[u \ {Max(u)}], header[Max(u)])]
           it == CHOOSE it : P(it)
<1>2. CollectForwardedFor(header) = it[1 .. n]
  BY DEF CollectForwardedFor, FoldLeft, MapThenFoldSet
<1>3. \A x : P(x) <=> IsFold(x, "elements", 0, << >>, header, n)
  BY DEF IsFold, Step
<1>4. P(it)
  BY <1>3, FoldExists
<1>5. IsFold(it, "elements", 0, << >>, header, n)
  BY <1>3, <1>4
<1> HIDE DEF it
<1>6. IsRun([k \in 0 .. n |-> it[1 .. k]], "elements", 0, << >>, header, n)
  BY <1>5, FoldRuns
<1>7. [k \in 0 .. n |-> it[1 .. k]][n] = it[1 .. n]
  OBVIOUS
<1>8. QED
  BY <1>2, <1>6, <1>7

LEMMA DedupeRun ==
  ASSUME NEW values, NEW n \in Nat, DOMAIN values = 1 .. n
  PROVE  \E tr : IsRun(tr, "tokens", 0, << >>, values, n) /\ DedupePreserveOrder(values) = tr[n]
<1> DEFINE P(it) == it = [u \in SUBSET (1 .. n) |->
                       IF u = {} THEN << >> ELSE Collect(it[u \ {Max(u)}], values[Max(u)])]
           it == CHOOSE it : P(it)
<1>2. DedupePreserveOrder(values) = it[1 .. n]
  BY DEF DedupePreserveOrder, Collect, FoldLeft, MapThenFoldSet
<1>3. \A x : P(x) <=> IsFold(x, "tokens", 0, << >>, values, n)
  BY DEF IsFold, Step
<1>4. P(it)
  BY <1>3, FoldExists
<1>5. IsFold(it, "tokens", 0, << >>, values, n)
  BY <1>3, <1>4
<1> HIDE DEF it
<1>6. IsRun([k \in 0 .. n |-> it[1 .. k]], "tokens", 0, << >>, values, n)
  BY <1>5, FoldRuns
<1>7. [k \in 0 .. n |-> it[1 .. k]][n] = it[1 .. n]
  OBVIOUS
<1>8. QED
  BY <1>2, <1>6, <1>7

(* X-Forwarded-For, up to its k-th element.                                 *)
LEMMA AddressesRead ==
  ASSUME NEW header, IsList(header),
         \A i \in DOMAIN header : WellWritten(header[i])
  PROVE  Reads(CollectXForwardedFor(header), {Mention(2, i, 1, header[i]) : i \in DOMAIN header})
<1> DEFINE n == Len(header)
           X(k) == {Mention(2, i, 1, header[i]) : i \in 1 .. k}
<1>1. n \in Nat /\ DOMAIN header = 1 .. n
  BY ListFacts
<1> HIDE DEF n
<1>2. PICK tr : IsRun(tr, "addresses", 0, << >>, header, n) /\ CollectXForwardedFor(header) = tr[n]
  BY <1>1, AddressesRun
<1> DEFINE good == {k \in Nat : k <= n => Reads(tr[k], X(k))}
<1>3. 0 \in good
  <2>1. X(0) = {}
    OBVIOUS
  <2>2. Reads(tr[0], X(0))
    BY <1>2, <2>1, NothingRead DEF IsRun
  <2> HIDE DEF X
  <2>3. QED
    BY <2>2
<1>4. ASSUME NEW k \in Nat, k \in good PROVE k + 1 \in good
  <2> SUFFICES ASSUME k + 1 <= n PROVE Reads(tr[k + 1], X(k + 1))
    OBVIOUS
  <2> DEFINE m == Mention(2, k + 1, 1, header[k + 1])
  <2>1. k \in 0 .. n - 1 /\ k <= n /\ k + 1 \in DOMAIN header
    BY <1>1
  <2>2. tr[k + 1] = Pushed(tr[k], header[k + 1])
    BY <1>2, <2>1 DEF IsRun, Step
  <2>3. Reads(tr[k], X(k))
    BY <1>4, <2>1
  <2>4. m.address = header[k + 1] /\ m.place = <<2, k + 1, 1>>
    BY DEF Mention
  <2>5. AllBefore(X(k), m.place)
    <3>1. ASSUME NEW i \in 1 .. k PROVE IsEarlier(<<2, i, 1>>, <<2, k + 1, 1>>)
      BY DEF IsEarlier
    <3>2. QED
      BY <2>4, <3>1 DEF AllBefore, Mention
  <2>6. X(k + 1) = X(k) \cup {m}
    <3>1. 1 .. k + 1 = (1 .. k) \cup {k + 1}
      OBVIOUS
    <3>2. QED
      BY <3>1
  <2> HIDE DEF X, m
  <2>7. WellWritten(m.address)
    BY <2>1, <2>4
  <2>8. QED
    BY <2>2, <2>3, <2>4, <2>5, <2>6, <2>7, PushedReads
<1>5. n \in good
  <2> HIDE DEF good
  <2>1. QED
    BY <1>1, <1>3, <1>4, SetInduction
<1>6. Reads(tr[n], X(n))
  BY <1>1, <1>5
<1>7. QED
  BY <1>1, <1>2, <1>6

(* One element of Forwarded, behind others.                                 *)
PairsUpTo(element, i, k) ==
  {Mention(1, i, j, element[j].value) : j \in {j \in 1 .. k : element[j].key = "for"}}

LEMMA PairsRead ==
  ASSUME NEW found, NEW M, Reads(found, M), NEW i \in Nat, NEW element, IsList(element),
         \A m \in M : \A j \in Nat : IsEarlier(m.place, <<1, i, j>>),
         \A j \in DOMAIN element : element[j].key = "for" => WellWritten(element[j].value)
  PROVE  Reads(CollectElement(found, element), M \cup PairsUpTo(element, i, Len(element)))
<1> DEFINE n == Len(element)
           X(k) == PairsUpTo(element, i, k)
<1>1. n \in Nat /\ DOMAIN element = 1 .. n
  BY ListFacts
<1> HIDE DEF n
<1>2. PICK tr : IsRun(tr, "pairs", 0, found, element, n) /\ CollectElement(found, element) = tr[n]
  BY <1>1, PairsRun
<1> DEFINE good == {k \in Nat : k <= n => Reads(tr[k], M \cup X(k))}
<1>3. 0 \in good
  <2>1. X(0) = {}
    BY DEF PairsUpTo
  <2>2. M \cup X(0) = M
    BY <2>1
  <2>3. Reads(tr[0], M \cup X(0))
    BY <1>2, <2>2 DEF IsRun
  <2> HIDE DEF X
  <2>4. QED
    BY <2>3
<1>4. ASSUME NEW k \in Nat, k \in good PROVE k + 1 \in good
  <2> SUFFICES ASSUME k + 1 <= n PROVE Reads(tr[k + 1], M \cup X(k + 1))
    OBVIOUS
  <2> DEFINE m == Mention(1, i, k + 1, element[k + 1].value)
  <2>1. k \in 0 .. n - 1 /\ k <= n /\ k + 1 \in DOMAIN element
    BY <1>1
  <2>2. tr[k + 1] = CollectPair(tr[k], element[k + 1])
    BY <1>2, <2>1 DEF IsRun, Step
  <2>3. Reads(tr[k], M \cup X(k))
    BY <1>4, <2>1
  <2>4. \A j \in 1 .. k + 1 : j \in 1 .. k \/ j = k + 1
    OBVIOUS
  <2>5. k + 1 \in 1 .. k + 1 /\ \A j \in 1 .. k : j \in 1 .. k + 1
    OBVIOUS
  <2>6. CASE element[k + 1].key # "for"
    <3>1. {j \in 1 .. k + 1 : element[j].key = "for"} = {j \in 1 .. k : element[j].key = "for"}
      BY <2>4, <2>5, <2>6
    <3>2. X(k + 1) = X(k)
      BY <3>1 DEF PairsUpTo
    <3>3. tr[k + 1] = tr[k]
      BY <2>2, <2>6 DEF CollectPair
    <3> HIDE DEF X
    <3>4. QED
      BY <2>3, <3>2, <3>3
  <2>7. CASE element[k + 1].key = "for"
    <3>1. {j \in 1 .. k + 1 : element[j].key = "for"} = {j \in 1 .. k : element[j].key = "for"} \cup {k + 1}
      BY <2>4, <2>5, <2>7
    <3>2. X(k + 1) = X(k) \cup {m}
      BY <3>1 DEF PairsUpTo
    <3>3. m.address = element[k + 1].value /\ m.place = <<1, i, k + 1>>
      BY DEF Mention
    <3>4. AllBefore(M \cup X(k), m.place)
      <4>1. ASSUME NEW j \in 1 .. k PROVE IsEarlier(<<1, i, j>>, <<1, i, k + 1>>)
        BY DEF IsEarlier
      <4>2. \A x \in X(k) : IsEarlier(x.place, <<1, i, k + 1>>)
        BY <4>1 DEF PairsUpTo, Mention
      <4>3. \A x \in M : IsEarlier(x.place, <<1, i, k + 1>>)
        OBVIOUS
      <4> HIDE DEF X, m
      <4>4. QED
        BY <3>3, <4>2, <4>3 DEF AllBefore
    <3>5. tr[k + 1] = Pushed(tr[k], element[k + 1].value)
      BY <2>2, <2>7 DEF CollectPair
    <3> HIDE DEF X, m
    <3>6. WellWritten(m.address)
      BY <2>1, <2>7, <3>3
    <3>7. Reads(Pushed(tr[k], m.address), (M \cup X(k)) \cup {m})
      BY <2>3, <3>4, <3>6, PushedReads
    <3>8. (M \cup X(k)) \cup {m} = M \cup X(k + 1)
      BY <3>2
    <3>9. QED
      BY <3>3, <3>5, <3>7, <3>8
  <2>8. QED
    BY <2>6, <2>7
<1>5. n \in good
  <2> HIDE DEF good
  <2>1. QED
    BY <1>1, <1>3, <1>4, SetInduction
<1>6. Reads(tr[n], M \cup X(n))
  BY <1>1, <1>5
<1>7. QED
  BY <1>2, <1>6 DEF n

(* Forwarded, up to its k-th element.                                       *)
ElementsUpTo(header, k) == UNION {PairsUpTo(header[i], i, Len(header[i])) : i \in 1 .. k}

LEMMA ElementsRead ==
  ASSUME NEW header, IsList(header), \A i \in DOMAIN header : IsList(header[i]),
         \A i \in DOMAIN header : \A j \in DOMAIN header[i] :
           header[i][j].key = "for" => WellWritten(header[i][j].value)
  PROVE  Reads(CollectForwardedFor(header), ElementsUpTo(header, Len(header)))
<1> DEFINE n == Len(header)
           X(k) == ElementsUpTo(header, k)
<1>1. n \in Nat /\ DOMAIN header = 1 .. n
  BY ListFacts
<1> HIDE DEF n
<1>2. PICK tr : IsRun(tr, "elements", 0, << >>, header, n) /\ CollectForwardedFor(header) = tr[n]
  BY <1>1, ElementsRun
<1> DEFINE good == {k \in Nat : k <= n => Reads(tr[k], X(k))}
<1>3. 0 \in good
  <2>1. X(0) = {}
    BY DEF ElementsUpTo
  <2>2. Reads(tr[0], X(0))
    BY <1>2, <2>1, NothingRead DEF IsRun
  <2> HIDE DEF X
  <2>3. QED
    BY <2>2
<1>4. ASSUME NEW k \in Nat, k \in good PROVE k + 1 \in good
  <2> SUFFICES ASSUME k + 1 <= n PROVE Reads(tr[k + 1], X(k + 1))
    OBVIOUS
  <2> DEFINE element == header[k + 1]
             new == PairsUpTo(element, k + 1, Len(element))
  <2>1. k \in 0 .. n - 1 /\ k <= n /\ k + 1 \in DOMAIN header
    BY <1>1
  <2>2. tr[k + 1] = CollectElement(tr[k], element)
    BY <1>2, <2>1 DEF IsRun, Step
  <2>3. Reads(tr[k], X(k))
    BY <1>4, <2>1
  <2>4. \A x \in X(k) : \E i \in 1 .. k : x \in PairsUpTo(header[i], i, Len(header[i]))
    BY DEF ElementsUpTo
  <2>5. ASSUME NEW x \in X(k), NEW j \in Nat PROVE IsEarlier(x.place, <<1, k + 1, j>>)
    <3>1. PICK i \in 1 .. k : x \in PairsUpTo(header[i], i, Len(header[i]))
      BY <2>4
    <3>2. PICK l : x.place = <<1, i, l>>
      BY <3>1 DEF PairsUpTo, Mention
    <3>3. QED
      BY <3>2 DEF IsEarlier
  <2>6. X(k + 1) = X(k) \cup new
    <3>1. 1 .. k + 1 = (1 .. k) \cup {k + 1}
      OBVIOUS
    <3>2. QED
      BY <3>1 DEF ElementsUpTo
  <2> HIDE DEF X, new
  <2>7. /\ IsList(element)
        /\ \A j \in DOMAIN element : element[j].key = "for" => WellWritten(element[j].value)
    BY <2>1
  <2> HIDE DEF element
  <2>8. Reads(CollectElement(tr[k], element), X(k) \cup new)
    BY <2>3, <2>5, <2>7, PairsRead DEF new
  <2>9. QED
    BY <2>2, <2>6, <2>8
<1>5. n \in good
  <2> HIDE DEF good
  <2>1. QED
    BY <1>1, <1>3, <1>4, SetInduction
<1>6. Reads(tr[n], X(n))
  BY <1>1, <1>5
<1>7. QED
  BY <1>2, <1>6 DEF n

IsHeaders(r) ==
  /\ IsList(r.xForwardedFor) /\ IsList(r.forwarded)
  /\ \A i \in DOMAIN r.forwarded : IsList(r.forwarded[i])

Chained(r) == IF r.trustProxy THEN Forwarded(r) \cup XForwardedFor(r) ELSE {}

LEMMA ChainRead ==
  ASSUME NEW r, IsHeaders(r), \A m \in Mentions(r) : WellWritten(m.address)
  PROVE  /\ Reads(Chain(r), Chained(r))
         /\ \A i, j \in DOMAIN Chain(r) : Chain(r)[i] = Chain(r)[j] => i = j
<1>1. CASE ~r.trustProxy
  <2>1. Chain(r) = << >> /\ Chained(r) = {}
    BY <1>1 DEF Chain, Chained
  <2>2. QED
    BY <2>1, NothingRead
<1>2. CASE r.trustProxy
  <2> DEFINE f == CollectForwardedFor(r.forwarded)
             x == CollectXForwardedFor(r.xForwardedFor)
             all == f \o x
  <2>1. Forwarded(r) = ElementsUpTo(r.forwarded, Len(r.forwarded))
    <3>1. DOMAIN r.forwarded = 1 .. Len(r.forwarded)
      BY ListFacts DEF IsHeaders
    <3>2. ASSUME NEW i \in DOMAIN r.forwarded
          PROVE  PairsUpTo(r.forwarded[i], i, Len(r.forwarded[i])) = InElement(i, r.forwarded[i])
      <4>1. DOMAIN r.forwarded[i] = 1 .. Len(r.forwarded[i])
        BY ListFacts DEF IsHeaders
      <4>2. QED
        BY <4>1 DEF PairsUpTo, InElement
    <3>3. {PairsUpTo(r.forwarded[i], i, Len(r.forwarded[i])) : i \in 1 .. Len(r.forwarded)}
            = {InElement(i, r.forwarded[i]) : i \in DOMAIN r.forwarded}
      BY <3>1, <3>2
    <3>4. QED
      BY <3>3 DEF Forwarded, ElementsUpTo
  <2>2. Forwarded(r) \subseteq Mentions(r) /\ XForwardedFor(r) \subseteq Mentions(r)
    BY <1>2 DEF Mentions
  <2>3. Reads(f, Forwarded(r))
    <3>1. ASSUME NEW i \in DOMAIN r.forwarded, NEW j \in DOMAIN r.forwarded[i], r.forwarded[i][j].key = "for"
          PROVE  WellWritten(r.forwarded[i][j].value)
      <4>1. Mention(1, i, j, r.forwarded[i][j].value) \in Forwarded(r)
        BY <3>1 DEF Forwarded, InElement
      <4>2. WellWritten(Mention(1, i, j, r.forwarded[i][j].value).address)
        BY <2>2, <4>1
      <4>3. QED
        BY <4>2 DEF Mention
    <3>2. QED
      BY <2>1, <3>1, ElementsRead DEF IsHeaders
  <2>4. Reads(x, XForwardedFor(r))
    <3>1. ASSUME NEW i \in DOMAIN r.xForwardedFor PROVE WellWritten(r.xForwardedFor[i])
      <4>1. Mention(2, i, 1, r.xForwardedFor[i]) \in XForwardedFor(r)
        BY DEF XForwardedFor
      <4>2. WellWritten(Mention(2, i, 1, r.xForwardedFor[i]).address)
        BY <2>2, <4>1
      <4>3. QED
        BY <4>2 DEF Mention
    <3>2. QED
      BY <3>1, AddressesRead DEF IsHeaders, XForwardedFor
  <2>5. ASSUME NEW m \in XForwardedFor(r) PROVE AllBefore(Forwarded(r), m.place)
    <3>1. m.place[1] = 2
      BY DEF XForwardedFor, Mention
    <3>2. \A y \in Forwarded(r) : y.place[1] = 1
      BY DEF Forwarded, InElement, Mention
    <3>3. QED
      BY <3>1, <3>2 DEF AllBefore, IsEarlier
  <2> HIDE DEF f, x
  <2>6. Reads(all, Chained(r))
    BY <1>2, <2>3, <2>4, <2>5, JoinedReads DEF Chained
  <2>7. Chain(r) = DedupePreserveOrder(all)
    BY <1>2 DEF Chain, f, x
  <2> HIDE DEF all
  <2>8. Len(all) \in Nat /\ DOMAIN all = 1 .. Len(all)
    BY <2>6, ListFacts DEF Reads
  <2>9. Collected(all, Len(all), Chain(r))
    <3>1. PICK tr : IsRun(tr, "tokens", 0, << >>, all, Len(all)) /\ DedupePreserveOrder(all) = tr[Len(all)]
      BY <2>8, DedupeRun
    <3>2. QED
      BY <2>7, <2>8, <3>1, RunCollects
  <2>10. Reads(Chain(r), Chained(r))
    BY <2>6, <2>9, DedupedReads
  <2>11. QED
    BY <2>9, <2>10 DEF Collected
<1>3. QED
  BY <1>1, <1>2

LEMMA ClientFacts ==
  ASSUME NEW r, IsHeaders(r)
  PROVE  FirstIsClient(r)
<1> DEFINE named == Naming(Mentions(r))
           chain == Chain(r)
           reached == Naming(Chained(r))
           realAt == Mention(3, 1, 1, r.xRealIp)
           socketAt == Mention(4, 1, 1, r.socket)
           real == IF r.trustProxy /\ r.xRealIp # << >> THEN ExtractHeaderIp(r.xRealIp) ELSE << >>
           socket == IF r.socket # << >> THEN ExtractHeaderIp(r.socket) ELSE << >>
           answer == GetIps(r)
<1> SUFFICES ASSUME \A m \in Mentions(r) : WellWritten(m.address)
             PROVE  /\ named = {} => answer.ip = << >>
                    /\ \A m \in named : IsFirst(m, named) => answer.ip = <<m.address.host, 0>>
                    /\ {answer.ips[i] : i \in DOMAIN answer.ips} = {<<m.address.host, 0>> : m \in {m \in named : m.place[1] <= 2}}
                    /\ \A i, j \in DOMAIN answer.ips : answer.ips[i] = answer.ips[j] => i = j
  BY DEF FirstIsClient, NoIp
<1>1. /\ Reads(chain, Chained(r))
      /\ \A i, j \in DOMAIN chain : chain[i] = chain[j] => i = j
  BY ChainRead
<1>2. (chain = << >> <=> reached = {})
  BY <1>1, ReadsEmpty
<1>3. answer.ips = chain
  BY DEF GetIps, NoIp
<1>4. answer.ip = IF chain # << >> THEN chain[1] ELSE IF real # << >> THEN real ELSE socket
  BY DEF GetIps, NoIp
<1>5. /\ realAt.address = r.xRealIp /\ realAt.place = <<3, 1, 1>>
      /\ socketAt.address = r.socket /\ socketAt.place = <<4, 1, 1>>
  BY DEF Mention
<1>6. Mentions(r) = Chained(r) \cup (IF r.trustProxy /\ r.xRealIp # << >> THEN {realAt} ELSE {})
                                 \cup (IF r.socket # << >> THEN {socketAt} ELSE {})
  BY DEF Mentions, Chained, NoIp
<1>7. \A m \in Chained(r) : m.place[1] \in {1, 2}
  BY DEF Chained, Forwarded, InElement, XForwardedFor, Mention
<1>8. /\ r.trustProxy /\ r.xRealIp # << >> =>
           real = IF r.xRealIp.host \in V4 \cup V6 THEN <<r.xRealIp.host, 0>> ELSE << >>
      /\ ~(r.trustProxy /\ r.xRealIp # << >>) => real = << >>
  <2>1. CASE r.trustProxy /\ r.xRealIp # << >>
    <3>1. WellWritten(r.xRealIp)
      BY <1>5, <1>6, <2>1
    <3>2. real = ExtractHeaderIp(r.xRealIp)
      BY <2>1
    <3>3. QED
      BY <2>1, <3>1, <3>2, OneRead
  <2>2. CASE ~(r.trustProxy /\ r.xRealIp # << >>)
    BY <2>2
  <2>3. QED
    BY <2>1, <2>2
<1>9. /\ r.socket # << >> =>
           socket = IF r.socket.host \in V4 \cup V6 THEN <<r.socket.host, 0>> ELSE << >>
      /\ r.socket = << >> => socket = << >>
  <2>1. CASE r.socket # << >>
    <3>1. WellWritten(r.socket)
      BY <1>5, <1>6, <2>1
    <3>2. QED
      BY <2>1, <3>1, OneRead
  <2>2. CASE r.socket = << >>
    BY <2>2
  <2>3. QED
    BY <2>1, <2>2
<1> HIDE DEF realAt, socketAt, real, socket, chain, answer
<1>10. /\ reached = {m \in Chained(r) : m.address.host \in V4 \cup V6}
       /\ named = {m \in Mentions(r) : m.address.host \in V4 \cup V6}
       /\ reached \subseteq named
  BY <1>6 DEF Naming
<1>11. real # << >> <=> realAt \in Mentions(r) /\ realAt \in named /\ r.trustProxy /\ r.xRealIp # << >>
  BY <1>5, <1>6, <1>8, <1>10, NoPairIsNone
<1>12. real # << >> => real = Pair(realAt) /\ realAt \in named
  BY <1>5, <1>8, <1>11 DEF Pair
<1>13. socket # << >> => socket = Pair(socketAt) /\ socketAt \in named
  BY <1>5, <1>6, <1>9, <1>10 DEF Pair
<1>14. ASSUME NEW m \in named
       PROVE  \/ m \in reached
              \/ m = realAt /\ real # << >>
              \/ m = socketAt /\ socket = Pair(socketAt)
  <2>1. CASE m \in Chained(r)
    BY <1>10, <2>1
  <2>2. CASE m = realAt /\ r.trustProxy /\ r.xRealIp # << >>
    BY <1>10, <1>11, <2>2
  <2>3. CASE m = socketAt /\ r.socket # << >>
    <3>1. r.socket.host \in V4 \cup V6
      BY <1>5, <1>10, <2>3
    <3>2. QED
      BY <1>5, <1>9, <2>3, <3>1 DEF Pair
  <2>4. QED
    BY <1>6, <1>10, <2>1, <2>2, <2>3
<1>15. ASSUME named = {} PROVE answer.ip = << >>
  BY <1>2, <1>4, <1>10, <1>12, <1>13, <1>15
<1>16. ASSUME NEW m \in named, IsFirst(m, named) PROVE answer.ip = Pair(m)
  <2>1. \A y \in named : ~IsEarlier(y.place, m.place)
    BY <1>16 DEF IsFirst
  <2>2. CASE reached # {}
    <3>1. PICK y \in reached : TRUE
      BY <2>2
    <3>2. y.place[1] \in {1, 2} /\ y \in named
      BY <1>7, <1>10
    <3>3. m.place[1] \notin {3, 4}
      BY <2>1, <3>2 DEF IsEarlier
    <3>4. m # realAt /\ m # socketAt
      BY <1>5, <3>3
    <3>5. IsFirst(m, reached)
      BY <1>10, <1>14, <2>1, <3>4 DEF IsFirst
    <3>6. chain[1] = Pair(m)
      BY <1>1, <3>5 DEF Reads
    <3>7. QED
      BY <1>2, <1>4, <2>2, <3>6
  <2>3. CASE reached = {} /\ real # << >>
    <3>1. realAt \in named
      BY <1>12, <2>3
    <3>2. m # socketAt
      BY <1>5, <2>1, <3>1 DEF IsEarlier
    <3>3. m = realAt
      BY <1>14, <2>3, <3>2
    <3>4. QED
      BY <1>2, <1>4, <1>12, <2>3, <3>3
  <2>4. CASE reached = {} /\ real = << >>
    <3>1. m = socketAt /\ socket = Pair(socketAt)
      BY <1>14, <2>4
    <3>2. QED
      BY <1>2, <1>4, <2>4, <3>1
  <2>5. QED
    BY <2>2, <2>3, <2>4
<1>17. {answer.ips[i] : i \in DOMAIN answer.ips} = {<<m.address.host, 0>> : m \in {m \in named : m.place[1] <= 2}}
  <2>1. {m \in named : m.place[1] <= 2} = reached
    <3>1. ASSUME NEW m \in named, m.place[1] <= 2 PROVE m \in reached
      <4>1. m # realAt /\ m # socketAt
        BY <1>5, <3>1
      <4>2. QED
        BY <1>14, <4>1
    <3>2. ASSUME NEW m \in reached PROVE m \in named /\ m.place[1] <= 2
      BY <1>7, <1>10
    <3>3. QED
      BY <3>1, <3>2
  <2>2. \A i \in DOMAIN chain : \E m \in reached : chain[i] = <<m.address.host, 0>>
    BY <1>1 DEF Reads, Pair
  <2>3. \A m \in reached : \E i \in DOMAIN chain : chain[i] = <<m.address.host, 0>>
    BY <1>1 DEF Reads, Pair
  <2> HIDE DEF reached, named
  <2>4. {chain[i] : i \in DOMAIN chain} = {<<m.address.host, 0>> : m \in reached}
    BY <2>2, <2>3
  <2>5. QED
    BY <1>3, <2>1, <2>4
<1>18. QED
  BY <1>1, <1>3, <1>15, <1>16, <1>17 DEF Pair

(* The client is the first address that any of the headers names, however   *)
(* many elements and pairs they have, and the chain has each address once.  *)
THEOREM ClientCorrect == SampleSpec => []ClientIsFirst
<1>1. SampleInv => ClientIsFirst
  <2> SUFFICES ASSUME SampleInv, Of("headers") PROVE FirstIsClient(It)
    BY DEF ClientIsFirst
  <2>1. IsHeaders(It)
    BY HeadersAssumption DEF SampleInv, Of, It, NoSample, IsHeaders
  <2>2. QED
    BY <2>1, ClientFacts
<1>2. QED
  BY <1>1, SampleTaken, PTL

-----------------------------------------------------------------------------
(* SingletonsAreOne *)

(* The folds of Injection. *)
LEMMA ArgumentsRun ==
  ASSUME NEW got, NEW c, NEW wants, NEW n \in Nat, DOMAIN wants = 1 .. n
  PROVE  \E tr : IsRun(tr, "arguments", got, [c |-> c, values |-> << >>, thrown |-> FALSE], wants, n) /\ Args(got, c, wants) = tr[n]
<1> DEFINE base == [c |-> c, values |-> << >>, thrown |-> FALSE]
           P(it) == it = [u \in SUBSET (1 .. n) |-> IF u = {} THEN base ELSE WithArgument(got, it[u \ {Max(u)}], wants[Max(u)])]
           it == CHOOSE it : P(it)
<1>2. Args(got, c, wants) = it[1 .. n]
  BY DEF Args, FoldLeft, MapThenFoldSet
<1>3. \A x : P(x) <=> IsFold(x, "arguments", got, base, wants, n)
  <2>1. \A u, f : WithArgument(got, f[u \ {Max(u)}], wants[Max(u)]) = Step("arguments", got, f[u \ {Max(u)}], wants[Max(u)])
    BY DEF Step
  <2> HIDE DEF base
  <2>2. QED
    BY <2>1 DEF IsFold
<1>4. P(it)
  BY <1>3, FoldExists
<1>5. IsFold(it, "arguments", got, base, wants, n)
  BY <1>3, <1>4
<1> HIDE DEF it
<1>6. IsRun([k \in 0 .. n |-> it[1 .. k]], "arguments", got, base, wants, n)
  BY <1>5, FoldRuns
<1>7. [k \in 0 .. n |-> it[1 .. k]][n] = it[1 .. n]
  OBVIOUS
<1>8. QED
  BY <1>2, <1>6, <1>7

LEMMA GetsRun ==
  ASSUME NEW w, NEW c, NEW tokens, NEW n \in Nat, DOMAIN tokens = 1 .. n
  PROVE  \E tr : IsRun(tr, "gets", w, c, tokens, n) /\ Gets(w, c, tokens) = tr[n]
<1> DEFINE base == c
           P(it) == it = [u \in SUBSET (1 .. n) |-> IF u = {} THEN base ELSE Get(w, it[u \ {Max(u)}], tokens[Max(u)]).c]
           it == CHOOSE it : P(it)
<1>2. Gets(w, c, tokens) = it[1 .. n]
  BY DEF Gets, FoldLeft, MapThenFoldSet
<1>3. \A x : P(x) <=> IsFold(x, "gets", w, base, tokens, n)
  <2>1. \A u, f : Get(w, f[u \ {Max(u)}], tokens[Max(u)]).c = Step("gets", w, f[u \ {Max(u)}], tokens[Max(u)])
    BY DEF Step
  <2> HIDE DEF base
  <2>2. QED
    BY <2>1 DEF IsFold
<1>4. P(it)
  BY <1>3, FoldExists
<1>5. IsFold(it, "gets", w, base, tokens, n)
  BY <1>3, <1>4
<1> HIDE DEF it
<1>6. IsRun([k \in 0 .. n |-> it[1 .. k]], "gets", w, base, tokens, n)
  BY <1>5, FoldRuns
<1>7. [k \in 0 .. n |-> it[1 .. k]][n] = it[1 .. n]
  OBVIOUS
<1>8. QED
  BY <1>2, <1>6, <1>7

LEMMA ProvidersRun ==
  ASSUME NEW c, NEW providers, NEW n \in Nat, DOMAIN providers = 1 .. n
  PROVE  \E tr : IsRun(tr, "providers", 0, c, providers, n) /\ RegisterAll(c, providers) = tr[n]
<1> DEFINE base == c
           P(it) == it = [u \in SUBSET (1 .. n) |-> IF u = {} THEN base ELSE RegisterProvider(it[u \ {Max(u)}], providers[Max(u)])]
           it == CHOOSE it : P(it)
<1>2. RegisterAll(c, providers) = it[1 .. n]
  BY DEF RegisterAll, FoldLeft, MapThenFoldSet
<1>3. \A x : P(x) <=> IsFold(x, "providers", 0, base, providers, n)
  <2>1. \A u, f : RegisterProvider(f[u \ {Max(u)}], providers[Max(u)]) = Step("providers", 0, f[u \ {Max(u)}], providers[Max(u)])
    BY DEF Step
  <2> HIDE DEF base
  <2>2. QED
    BY <2>1 DEF IsFold
<1>4. P(it)
  BY <1>3, FoldExists
<1>5. IsFold(it, "providers", 0, base, providers, n)
  BY <1>3, <1>4
<1> HIDE DEF it
<1>6. IsRun([k \in 0 .. n |-> it[1 .. k]], "providers", 0, base, providers, n)
  BY <1>5, FoldRuns
<1>7. [k \in 0 .. n |-> it[1 .. k]][n] = it[1 .. n]
  OBVIOUS
<1>8. QED
  BY <1>2, <1>6, <1>7

LEMMA DynamicRun ==
  ASSUME NEW c, NEW scope, NEW providers, NEW n \in Nat, DOMAIN providers = 1 .. n
  PROVE  \E tr : IsRun(tr, "dynamic", scope, c, providers, n) /\ LoadDynamicModule(c, scope, providers) = tr[n]
<1> DEFINE base == c
           P(it) == it = [u \in SUBSET (1 .. n) |-> IF u = {} THEN base ELSE LoadProvider(it[u \ {Max(u)}], scope, providers[Max(u)])]
           it == CHOOSE it : P(it)
<1>2. LoadDynamicModule(c, scope, providers) = it[1 .. n]
  BY DEF LoadDynamicModule, FoldLeft, MapThenFoldSet
<1>3. \A x : P(x) <=> IsFold(x, "dynamic", scope, base, providers, n)
  <2>1. \A u, f : LoadProvider(f[u \ {Max(u)}], scope, providers[Max(u)]) = Step("dynamic", scope, f[u \ {Max(u)}], providers[Max(u)])
    BY DEF Step
  <2> HIDE DEF base
  <2>2. QED
    BY <2>1 DEF IsFold
<1>4. P(it)
  BY <1>3, FoldExists
<1>5. IsFold(it, "dynamic", scope, base, providers, n)
  BY <1>3, <1>4
<1> HIDE DEF it
<1>6. IsRun([k \in 0 .. n |-> it[1 .. k]], "dynamic", scope, base, providers, n)
  BY <1>5, FoldRuns
<1>7. [k \in 0 .. n |-> it[1 .. k]][n] = it[1 .. n]
  OBVIOUS
<1>8. QED
  BY <1>2, <1>6, <1>7

LEMMA ImportsRun ==
  ASSUME NEW scanned, NEW c, NEW imports, NEW n \in Nat, DOMAIN imports = 1 .. n
  PROVE  \E tr : IsRun(tr, "calls", scanned, c, imports, n) /\ ScanImports(scanned, c, imports) = tr[n]
<1> DEFINE base == c
           P(it) == it = [u \in SUBSET (1 .. n) |-> IF u = {} THEN base ELSE scanned[<<it[u \ {Max(u)}], imports[Max(u)]>>]]
           it == CHOOSE it : P(it)
<1>2. ScanImports(scanned, c, imports) = it[1 .. n]
  BY DEF ScanImports, FoldLeft, MapThenFoldSet
<1>3. \A x : P(x) <=> IsFold(x, "calls", scanned, base, imports, n)
  <2>1. \A u, f : scanned[<<f[u \ {Max(u)}], imports[Max(u)]>>] = Step("calls", scanned, f[u \ {Max(u)}], imports[Max(u)])
    BY DEF Step
  <2> HIDE DEF base
  <2>2. QED
    BY <2>1 DEF IsFold
<1>4. P(it)
  BY <1>3, FoldExists
<1>5. IsFold(it, "calls", scanned, base, imports, n)
  BY <1>3, <1>4
<1> HIDE DEF it
<1>6. IsRun([k \in 0 .. n |-> it[1 .. k]], "calls", scanned, base, imports, n)
  BY <1>5, FoldRuns
<1>7. [k \in 0 .. n |-> it[1 .. k]][n] = it[1 .. n]
  OBVIOUS
<1>8. QED
  BY <1>2, <1>6, <1>7

LEMMA StepsRun ==
  ASSUME NEW modules, NEW steps, NEW n \in Nat, DOMAIN steps = 1 .. n
  PROVE  \E tr : IsRun(tr, "steps", modules, EmptyContainer, steps, n) /\ RegisterSteps(modules, steps) = tr[n]
<1> DEFINE base == EmptyContainer
           P(it) == it = [u \in SUBSET (1 .. n) |-> IF u = {} THEN base ELSE RegisterAll(it[u \ {Max(u)}], Providers(modules, steps[Max(u)]))]
           it == CHOOSE it : P(it)
<1>2. RegisterSteps(modules, steps) = it[1 .. n]
  BY DEF RegisterSteps, FoldLeft, MapThenFoldSet
<1>3. \A x : P(x) <=> IsFold(x, "steps", modules, base, steps, n)
  <2>1. \A u, f : RegisterAll(f[u \ {Max(u)}], Providers(modules, steps[Max(u)])) = Step("steps", modules, f[u \ {Max(u)}], steps[Max(u)])
    BY DEF Step
  <2> HIDE DEF base
  <2>2. QED
    BY <2>1 DEF IsFold
<1>4. P(it)
  BY <1>3, FoldExists
<1>5. IsFold(it, "steps", modules, base, steps, n)
  BY <1>3, <1>4
<1> HIDE DEF it
<1>6. IsRun([k \in 0 .. n |-> it[1 .. k]], "steps", modules, base, steps, n)
  BY <1>5, FoldRuns
<1>7. [k \in 0 .. n |-> it[1 .. k]][n] = it[1 .. n]
  OBVIOUS
<1>8. QED
  BY <1>2, <1>6, <1>7

-----------------------------------------------------------------------------
Onward(next, S) == UNION {next[x] : x \in S}

ReachIn(next, k, fewer) == [m \in DOMAIN next |-> IF k = 0 THEN next[m] ELSE fewer[m] \cup Onward(next, fewer[m])]

(* What a recursive function of Injection or ModuleGraph has at each depth. *)
Level(kind, d, k, lower) ==
  CASE kind = "get" -> Attempts(d.w, d.c, k, lower)
    [] kind = "ends" -> IF k = 0 THEN {} ELSE AskOnly(d.w, d.c, lower)
    [] kind = "scan" -> ScanModules(d, k, lower)
    [] kind = "search" -> SearchTo(d, k, lower)
    [] kind = "queue" -> IF k = 0 THEN [queue |-> SetToSeq(d.changed), affected |-> d.changed] ELSE FromQueue(d.p, lower)
    [] kind = "reach" -> ReachIn(d, k, lower)

IsTower(f, kind, d, n) == f = [k \in 0 .. n |-> Level(kind, d, k, f[k - 1])]

LEMMA TowerExists ==
  ASSUME NEW kind, NEW d, NEW n \in Nat, \A x, y : Level(kind, d, 0, x) = Level(kind, d, 0, y)
  PROVE  \E f : IsTower(f, kind, d, n)
<1> DEFINE good == {k \in Nat : \E f : IsTower(f, kind, d, k)}
<1>1. 0 \in good
  <2> DEFINE f == [k \in 0 .. 0 |-> Level(kind, d, 0, 0)]
  <2>1. \A k \in 0 .. 0 : f[k] = Level(kind, d, k, f[k - 1])
    <3>1. \A k \in 0 .. 0 : k = 0
      OBVIOUS
    <3>2. QED
      BY <3>1
  <2>2. f = [k \in 0 .. 0 |-> f[k]]
    OBVIOUS
  <2> HIDE DEF f
  <2>3. IsTower(f, kind, d, 0)
    BY <2>1, <2>2 DEF IsTower
  <2>4. QED
    BY <2>3
<1>2. ASSUME NEW k \in Nat, k \in good PROVE k + 1 \in good
  <2>1. PICK f : IsTower(f, kind, d, k)
    BY <1>2
  <2> DEFINE g == [i \in 0 .. k + 1 |-> IF i <= k THEN f[i] ELSE Level(kind, d, i, f[k])]
  <2>2. \A i \in 0 .. k + 1 : i <= k => g[i] = f[i] /\ f[i] = Level(kind, d, i, f[i - 1])
    BY <2>1 DEF IsTower
  <2>3. g[k + 1] = Level(kind, d, k + 1, f[k])
    OBVIOUS
  <2>4. g = [i \in 0 .. k + 1 |-> g[i]]
    OBVIOUS
  <2> HIDE DEF g
  <2>5. ASSUME NEW i \in 0 .. k + 1 PROVE g[i] = Level(kind, d, i, g[i - 1])
    <3>1. CASE i = 0
      <4>1. g[0] = Level(kind, d, 0, f[0 - 1])
        BY <2>2, <3>1
      <4>2. QED
        BY <3>1, <4>1
    <3>2. CASE i # 0 /\ i <= k
      <4>1. i - 1 \in 0 .. k + 1 /\ i - 1 <= k
        BY <3>2
      <4>2. QED
        BY <2>2, <3>2, <4>1
    <3>3. CASE i = k + 1
      <4>1. i - 1 = k /\ k \in 0 .. k + 1 /\ k <= k
        BY <3>3
      <4>2. QED
        BY <2>2, <2>3, <3>3, <4>1
    <3>4. QED
      BY <3>1, <3>2, <3>3
  <2>6. IsTower(g, kind, d, k + 1)
    BY <2>4, <2>5 DEF IsTower
  <2>7. QED
    BY <2>6
<1>3. n \in good
  <2> HIDE DEF good
  <2>1. QED
    BY <1>1, <1>2, SetInduction
<1>4. QED
  BY <1>3

LEMMA TowerLevels ==
  ASSUME NEW kind, NEW d, NEW n \in Nat, NEW f, IsTower(f, kind, d, n)
  PROVE  \A k \in 0 .. n : f[k] = Level(kind, d, k, f[k - 1])
BY DEF IsTower

LEMMA AttemptAtBottom ==
  ASSUME NEW w, NEW c, NEW x, NEW y
  PROVE  Attempts(w, c, 0, x) = Attempts(w, c, 0, y)
<1>1. ASSUME NEW s, NEW t PROVE Attempt(w, 0, x, s, t) = Attempt(w, 0, y, s, t)
  <2>1. CASE s.instances[t] # 0
    BY <2>1 DEF Attempt
  <2>2. CASE s.instances[t] = 0
    BY <2>2 DEF Attempt
  <2>3. QED
    BY <2>1, <2>2
<1>2. \A s, t : Attempt(w, 0, x, s, t) = Attempt(w, 0, y, s, t)
  BY <1>1
<1>3. QED
  BY <1>2 DEF Attempts

LEMMA GetTower ==
  ASSUME NEW w, NEW c, StackLimit \in Nat
  PROVE  \E f : /\ IsTower(f, "get", [w |-> w, c |-> c], StackLimit)
                /\ \A token : Get(w, c, token) = Asked(f[StackLimit], c, token)
<1> DEFINE d == [w |-> w, c |-> c]
           P(f) == f = [k \in 0 .. StackLimit |-> Attempts(w, c, k, f[k - 1])]
           f == CHOOSE f : P(f)
<1>1. \A k, x : Level("get", d, k, x) = Attempts(w, c, k, x)
  BY DEF Level
<1>2. \A x, y : Level("get", d, 0, x) = Level("get", d, 0, y)
  <2> HIDE DEF d
  <2>1. QED
    BY <1>1, AttemptAtBottom
<1>3. \A x : P(x) <=> IsTower(x, "get", d, StackLimit)
  <2> HIDE DEF d
  <2>1. QED
    BY <1>1 DEF IsTower
<1>4. P(f)
  <2> HIDE DEF d
  <2>1. QED
    BY <1>2, <1>3, TowerExists
<1>5. \A token : Get(w, c, token) = Asked(f[StackLimit], c, token)
  BY DEF Get
<1> HIDE DEF f
<1>6. QED
  BY <1>3, <1>4, <1>5

LEMMA EndsTower ==
  ASSUME NEW w, NEW c, StackLimit \in Nat
  PROVE  \E f : /\ IsTower(f, "ends", [w |-> w, c |-> c], StackLimit)
                /\ Acyclic(w, c) <=> f[StackLimit] = DOMAIN c.factories
<1> DEFINE d == [w |-> w, c |-> c]
           P(f) == f = [k \in 0 .. StackLimit |-> IF k = 0 THEN {} ELSE AskOnly(w, c, f[k - 1])]
           f == CHOOSE f : P(f)
<1>1. \A k, x : Level("ends", d, k, x) = IF k = 0 THEN {} ELSE AskOnly(w, c, x)
  BY DEF Level
<1>2. \A x, y : Level("ends", d, 0, x) = Level("ends", d, 0, y)
  BY <1>1
<1>3. \A x : P(x) <=> IsTower(x, "ends", d, StackLimit)
  <2> HIDE DEF d
  <2>1. QED
    BY <1>1 DEF IsTower
<1>4. P(f)
  <2> HIDE DEF d
  <2>1. QED
    BY <1>2, <1>3, TowerExists
<1>5. Acyclic(w, c) <=> f[StackLimit] = DOMAIN c.factories
  BY DEF Acyclic
<1> HIDE DEF f
<1>6. QED
  BY <1>3, <1>4, <1>5

LEMMA ScanTower ==
  ASSUME NEW modules, Cardinality(DOMAIN modules) \in Nat
  PROVE  \E f : /\ IsTower(f, "scan", modules, Cardinality(DOMAIN modules))
                /\ \A root : ScanSteps(modules, root) =
                     f[Cardinality(DOMAIN modules)][<<[steps |-> << >>, visited |-> {}], root>>].steps
<1> DEFINE n == Cardinality(DOMAIN modules)
           P(f) == f = [k \in 0 .. n |-> ScanModules(modules, k, f[k - 1])]
           f == CHOOSE f : P(f)
<1>1. \A k, x : Level("scan", modules, k, x) = ScanModules(modules, k, x)
  BY DEF Level
<1>2. \A x, y : Level("scan", modules, 0, x) = Level("scan", modules, 0, y)
  <2>1. \A x, y : ScanModules(modules, 0, x) = ScanModules(modules, 0, y)
    BY DEF ScanModules
  <2>2. QED
    BY <1>1, <2>1
<1>3. \A root : ScanSteps(modules, root) = f[n][<<[steps |-> << >>, visited |-> {}], root>>].steps
  BY DEF ScanSteps
<1>4. \A x : P(x) <=> IsTower(x, "scan", modules, n)
  <2> HIDE DEF n
  <2>1. QED
    BY <1>1 DEF IsTower
<1>5. P(f)
  <2>1. \E x : IsTower(x, "scan", modules, n)
    BY <1>2, TowerExists
  <2> HIDE DEF n, P
  <2>2. \E x : P(x)
    BY <1>4, <2>1
  <2>3. QED
    BY <2>2
<1> HIDE DEF f
<1>6. QED
  BY <1>3, <1>4, <1>5

-----------------------------------------------------------------------------
(* What a container with the factories of c may come to: the tokens whose    *)
(* objects can be made are the same whatever has been asked for, and what    *)
(* there is of an object, or of a failure, is never taken back.              *)
Asks(w, c, t) == Wants(w, c, c.factories[t])

(* Factories ask for lists of tokens; an alias asks for one, and does not
   catch its failure. *)
IsWired(w, c) ==
  \A t \in DOMAIN c.factories :
    /\ IsList(Asks(w, c, t))
    /\ c.factories[t].use = "existing" => Len(Asks(w, c, t)) = 1 /\ ~Asks(w, c, t)[1].caught

(* The tokens whose factories make objects. *)
Makers(c) == {t \in DOMAIN c.factories : c.factories[t].use # "existing"}

Refuses(w, c, t) == c.factories[t].use = "class" /\ c.factories[t].of \in w.throws

(* The tokens without which a factory throws. *)
Needs(w, c, t) == {Asks(w, c, t)[i].token : i \in {i \in DOMAIN Asks(w, c, t) : ~Asks(w, c, t)[i].caught}}

(* The tokens that get() has an instance for, whatever was asked before: the
   largest set whose factories do not refuse and need none but these. *)
CanBeMade(w, c) ==
  UNION {S \in SUBSET DOMAIN c.factories : \A t \in S : ~Refuses(w, c, t) /\ Needs(w, c, t) \subseteq S}

LEMMA CanBeMadeFacts ==
  ASSUME NEW w, NEW c
  PROVE  /\ CanBeMade(w, c) \subseteq DOMAIN c.factories
         /\ \A t \in DOMAIN c.factories :
              t \in CanBeMade(w, c) <=> ~Refuses(w, c, t) /\ Needs(w, c, t) \subseteq CanBeMade(w, c)
<1>1. CanBeMade(w, c) \subseteq DOMAIN c.factories
  BY DEF CanBeMade
<1>2. ASSUME NEW t \in CanBeMade(w, c) PROVE ~Refuses(w, c, t) /\ Needs(w, c, t) \subseteq CanBeMade(w, c)
  BY DEF CanBeMade
<1>3. ASSUME NEW t \in DOMAIN c.factories, ~Refuses(w, c, t), Needs(w, c, t) \subseteq CanBeMade(w, c)
      PROVE  t \in CanBeMade(w, c)
  <2> DEFINE S == CanBeMade(w, c) \cup {t}
  <2>1. S \in SUBSET DOMAIN c.factories
    BY <1>1
  <2>2. \A u \in S : ~Refuses(w, c, u) /\ Needs(w, c, u) \subseteq S
    BY <1>2, <1>3
  <2>3. t \in S
    OBVIOUS
  <2> HIDE DEF S
  <2>4. QED
    BY <2>1, <2>2, <2>3 DEF CanBeMade
<1>4. QED
  BY <1>1, <1>2, <1>3

(* What every call of get() keeps: the objects of s are those of its tokens,
   one each, and have the instances of s for what their factories ask for. *)
IsOrderly(w, c, s) ==
  /\ s \in Becomes(c)
  /\ \A t \in DOMAIN c.factories : s.instances[t] # 0 => t \in CanBeMade(w, c) /\ s.instances[t] \in 1 .. Len(s.made)
  /\ \A t \in DOMAIN c.factories \ Makers(c) :
       s.instances[t] # 0 => s.instances[t] = InstanceOf(s, Asks(w, c, t)[1].token)
  /\ \A t \in Makers(c) : s.instances[t] # 0 =>
       s.made[s.instances[t]].of = c.factories[t].of /\ DOMAIN s.made[s.instances[t]].deps = DOMAIN Asks(w, c, t)
  /\ \A t \in Makers(c) : s.instances[t] # 0 => \A i \in DOMAIN Asks(w, c, t) :
       /\ s.made[s.instances[t]].deps[i] = InstanceOf(s, Asks(w, c, t)[i].token)
       /\ Asks(w, c, t)[i].token \in CanBeMade(w, c) => InstanceOf(s, Asks(w, c, t)[i].token) # 0
  /\ \A t, u \in Makers(c) : s.instances[t] # 0 /\ s.instances[t] = s.instances[u] => t = u
  /\ \A n \in 1 .. Len(s.made) : \E t \in Makers(c) : s.instances[t] = n

(* Only tokens of S have got an instance since. *)
Stays(c, s, r, S) ==
  \A t \in DOMAIN c.factories : s.instances[t] # 0 \/ t \notin S => r.instances[t] = s.instances[t]

(* get() has done what it can. *)
Answers(w, c, s, t, r, S) ==
  /\ IsOrderly(w, c, r.c) /\ Stays(c, s, r.c, S)
  /\ r.thrown <=> t \notin CanBeMade(w, c)
  /\ r.value = InstanceOf(r.c, t)
  /\ t \in CanBeMade(w, c) => r.value # 0

(* So do all calls one level deeper, for the tokens of S. *)
AnswersAll(w, c, got, S) ==
  \A s, t : IsOrderly(w, c, s) /\ t \in S => Answers(w, c, s, t, got[<<s, t>>], S)

LEMMA BecomesFacts ==
  ASSUME NEW c, NEW s \in Becomes(c)
  PROVE  /\ s.factories = c.factories /\ s.instances \in [DOMAIN c.factories -> Nat]
         /\ s.made \in Seq([of : {c.factories[t].of : t \in Makers(c)}, deps : Seq(Nat)])
         /\ s = [factories |-> c.factories, instances |-> s.instances, made |-> s.made]
         /\ Becomes(s) = Becomes(c)
         /\ \A x : InstanceOf(s, x) = IF x \in DOMAIN c.factories THEN s.instances[x] ELSE 0
<1>1. \A x : Becomes(x) = [factories : {x.factories}, instances : [DOMAIN x.factories -> Nat],
                             made : Seq([of : {x.factories[t].of : t \in Makers(x)}, deps : Seq(Nat)])]
  BY DEF Becomes, Makers
<1>2. /\ s.factories = c.factories /\ s.instances \in [DOMAIN c.factories -> Nat]
      /\ s.made \in Seq([of : {c.factories[t].of : t \in Makers(c)}, deps : Seq(Nat)])
      /\ s = [factories |-> s.factories, instances |-> s.instances, made |-> s.made]
  <2> DEFINE D == {c.factories}
             E == [DOMAIN c.factories -> Nat]
             F == Seq([of : {c.factories[t].of : t \in Makers(c)}, deps : Seq(Nat)])
  <2>1. s \in [factories : D, instances : E, made : F]
    BY <1>1
  <2>2. \A x : x \in D => x = c.factories
    OBVIOUS
  <2> HIDE DEF D, E, F
  <2>3. s.factories \in D /\ s.instances \in E /\ s.made \in F
        /\ s = [factories |-> s.factories, instances |-> s.instances, made |-> s.made]
    BY <2>1
  <2>4. s.factories = c.factories
    BY <2>2, <2>3
  <2>5. QED
    BY <2>3, <2>4 DEF E, F
<1>3. Makers(s) = Makers(c)
  BY <1>2 DEF Makers
<1>4. Becomes(s) = Becomes(c)
  BY <1>1, <1>2, <1>3
<1>5. \A x : InstanceOf(s, x) = IF x \in DOMAIN c.factories THEN s.instances[x] ELSE 0
  BY <1>2 DEF InstanceOf, Has
<1>6. QED
  BY <1>2, <1>4, <1>5

LEMMA Instances ==
  ASSUME NEW w, NEW c, NEW s, IsOrderly(w, c, s)
  PROVE  /\ s.factories = c.factories /\ s.instances \in [DOMAIN c.factories -> Nat]
         /\ \A x : InstanceOf(s, x) = IF x \in DOMAIN c.factories THEN s.instances[x] ELSE 0
         /\ \A t \in DOMAIN c.factories : s.instances[t] # 0 => t \in CanBeMade(w, c)
<1>1. s \in Becomes(c) /\ \A t \in DOMAIN c.factories : s.instances[t] # 0 => t \in CanBeMade(w, c)
  BY DEF IsOrderly
<1>2. s.factories = c.factories /\ s.instances \in [DOMAIN c.factories -> Nat]
      /\ \A x : InstanceOf(s, x) = IF x \in DOMAIN c.factories THEN s.instances[x] ELSE 0
  BY <1>1, BecomesFacts
<1>3. QED
  BY <1>1, <1>2

LEMMA InstanceFacts ==
  ASSUME NEW w, NEW c, NEW s, IsOrderly(w, c, s), NEW x
  PROVE  InstanceOf(s, x) \in Nat /\ (InstanceOf(s, x) # 0 => x \in CanBeMade(w, c))
<1>1. CASE x \in DOMAIN c.factories
  <2>1. InstanceOf(s, x) = s.instances[x] /\ s.instances[x] \in Nat
    BY <1>1, Instances
  <2>2. s.instances[x] # 0 => x \in CanBeMade(w, c)
    BY <1>1, Instances
  <2>3. QED
    BY <2>1, <2>2
<1>2. CASE x \notin DOMAIN c.factories
  BY <1>2, Instances
<1>3. QED
  BY <1>1, <1>2

LEMMA InstanceStays ==
  ASSUME NEW w, NEW c, NEW s, NEW r, NEW S, IsOrderly(w, c, s), IsOrderly(w, c, r), Stays(c, s, r, S), NEW x,
         InstanceOf(s, x) # 0
  PROVE  InstanceOf(r, x) = InstanceOf(s, x)
<1>1. x \in DOMAIN c.factories /\ InstanceOf(s, x) = s.instances[x]
  BY Instances
<1>2. InstanceOf(r, x) = r.instances[x]
  BY <1>1, Instances
<1>3. QED
  BY <1>1, <1>2 DEF Stays

LEMMA AskedAnswers ==
  ASSUME NEW w, NEW c, NEW s, IsOrderly(w, c, s), NEW S, NEW got, AnswersAll(w, c, got, S),
         NEW x, x \in DOMAIN c.factories => x \in S
  PROVE  Answers(w, c, s, x, Asked(got, s, x), S)
<1>1. s \in Becomes(c)
  BY DEF IsOrderly
<1>2. s.factories = c.factories
  BY <1>1, BecomesFacts
<1>3. CASE x \in DOMAIN c.factories
  BY <1>2, <1>3 DEF AnswersAll, Asked, Has
<1>4. CASE x \notin DOMAIN c.factories
  <2>1. Asked(got, s, x) = [c |-> s, value |-> 0, thrown |-> TRUE]
    BY <1>2, <1>4 DEF Asked, Has, Thrown
  <2>2. x \notin CanBeMade(w, c)
    BY <1>4, CanBeMadeFacts
  <2>3. InstanceOf(s, x) = 0
    BY <1>1, <1>4, BecomesFacts
  <2>4. QED
    BY <2>1, <2>2, <2>3 DEF Answers, Stays
<1>5. QED
  BY <1>3, <1>4

LEMMA StaysTwice ==
  ASSUME NEW c, NEW s, NEW r, NEW q, NEW S, Stays(c, s, r, S), Stays(c, r, q, S)
  PROVE  Stays(c, s, q, S)
BY DEF Stays

LEMMA StaysNothing ==
  ASSUME NEW w, NEW c, NEW s, NEW r, NEW S, IsOrderly(w, c, s), IsOrderly(w, c, r), Stays(c, s, r, S), NEW x,
         x \in CanBeMade(w, c) => InstanceOf(s, x) # 0
  PROVE  InstanceOf(r, x) = InstanceOf(s, x)
<1>1. CASE InstanceOf(s, x) # 0
  BY <1>1, InstanceStays
<1>2. CASE InstanceOf(s, x) = 0
  <2>1. x \notin CanBeMade(w, c)
    BY <1>2
  <2>2. InstanceOf(r, x) = 0
    BY <2>1, InstanceFacts
  <2>3. QED
    BY <1>2, <2>2
<1>3. QED
  BY <1>1, <1>2

(* The arguments that have been asked for. *)
Given(w, c, s, S, wants, k, a) ==
  /\ IsOrderly(w, c, a.c) /\ Stays(c, s, a.c, S)
  /\ a.thrown <=> \E i \in 1 .. k : ~wants[i].caught /\ wants[i].token \notin CanBeMade(w, c)
  /\ ~a.thrown => /\ a.values \in Seq(Nat) /\ Len(a.values) = k
                  /\ \A i \in 1 .. k : /\ a.values[i] = InstanceOf(a.c, wants[i].token)
                                       /\ wants[i].token \in CanBeMade(w, c) => a.values[i] # 0

LEMMA GivenStep ==
  ASSUME NEW w, NEW c, NEW s, NEW S, NEW got, AnswersAll(w, c, got, S),
         NEW wants, NEW k \in Nat, NEW a, Given(w, c, s, S, wants, k, a),
         wants[k + 1].token \in DOMAIN c.factories => wants[k + 1].token \in S
  PROVE  Given(w, c, s, S, wants, k + 1, WithArgument(got, a, wants[k + 1]))
<1> DEFINE want == wants[k + 1]
           one == Asked(got, a.c, want.token)
           b == WithArgument(got, a, want)
           Fails(i) == ~wants[i].caught /\ wants[i].token \notin CanBeMade(w, c)
<1>1. CASE a.thrown
  <2>1. b = a
    BY <1>1 DEF WithArgument
  <2>2. PICK i \in 1 .. k : Fails(i)
    BY <1>1 DEF Given
  <2>3. i \in 1 .. k + 1
    OBVIOUS
  <2>4. IsOrderly(w, c, a.c) /\ Stays(c, s, a.c, S)
    BY DEF Given
  <2> HIDE DEF b
  <2>5. QED
    BY <1>1, <2>1, <2>2, <2>3, <2>4 DEF Given, b
<1>2. CASE ~a.thrown
  <2>1. b = [c |-> one.c, values |-> Append(a.values, one.value), thrown |-> one.thrown /\ ~want.caught]
    BY <1>2 DEF WithArgument
  <2>2. IsOrderly(w, c, a.c) /\ Stays(c, s, a.c, S)
    BY DEF Given
  <2>3. Answers(w, c, a.c, want.token, one, S)
    BY <2>2, AskedAnswers
  <2>4. IsOrderly(w, c, one.c) /\ Stays(c, a.c, one.c, S)
    BY <2>3 DEF Answers
  <2>5. one.thrown <=> want.token \notin CanBeMade(w, c)
    BY <2>3 DEF Answers
  <2>6. one.value = InstanceOf(one.c, want.token) /\ (want.token \in CanBeMade(w, c) => one.value # 0)
    BY <2>3 DEF Answers
  <2>7. one.value \in Nat
    BY <2>4, <2>6, InstanceFacts
  <2>8. Stays(c, s, one.c, S)
    BY <2>2, <2>4, StaysTwice
  <2>9. \A i \in 1 .. k : ~Fails(i)
    BY <1>2 DEF Given
  <2>10. /\ a.values \in Seq(Nat) /\ Len(a.values) = k
         /\ \A i \in 1 .. k : /\ a.values[i] = InstanceOf(a.c, wants[i].token)
                              /\ wants[i].token \in CanBeMade(w, c) => a.values[i] # 0
    BY <1>2 DEF Given
  <2>11. \A i \in 1 .. k : InstanceOf(one.c, wants[i].token) = InstanceOf(a.c, wants[i].token)
    BY <2>2, <2>4, <2>10, StaysNothing
  <2> HIDE DEF one
  <2>12. /\ Append(a.values, one.value) \in Seq(Nat) /\ Len(Append(a.values, one.value)) = k + 1
         /\ Append(a.values, one.value)[k + 1] = one.value
         /\ \A i \in 1 .. k : Append(a.values, one.value)[i] = a.values[i]
    BY <2>7, <2>10, AppendProperties
  <2>13. \A i \in 1 .. k + 1 : i \in 1 .. k \/ i = k + 1
    OBVIOUS
  <2>14. b.c = one.c /\ b.values = Append(a.values, one.value) /\ (b.thrown <=> one.thrown /\ ~want.caught)
    <3> DEFINE r == [c |-> one.c, values |-> Append(a.values, one.value), thrown |-> one.thrown /\ ~want.caught]
    <3>1. r.c = one.c /\ r.values = Append(a.values, one.value)
      OBVIOUS
    <3>2. r.thrown = (one.thrown /\ ~want.caught)
      OBVIOUS
    <3>3. b = r
      BY <2>1
    <3> HIDE DEF b, r
    <3>4. QED
      BY <3>1, <3>2, <3>3
  <2> HIDE DEF b
  <2>15. b.thrown <=> Fails(k + 1)
    BY <2>5, <2>14
  <2>16. b.thrown <=> \E i \in 1 .. k + 1 : Fails(i)
    BY <2>9, <2>13, <2>15
  <2>17. \A i \in 1 .. k + 1 : /\ b.values[i] = InstanceOf(b.c, wants[i].token)
                               /\ wants[i].token \in CanBeMade(w, c) => b.values[i] # 0
    BY <2>6, <2>10, <2>11, <2>12, <2>13, <2>14
  <2>18. QED
    BY <2>4, <2>8, <2>12, <2>14, <2>16, <2>17 DEF Given, b
<1>3. QED
  BY <1>1, <1>2

LEMMA ArgsAnswer ==
  ASSUME NEW w, NEW c, NEW s, IsOrderly(w, c, s), NEW S, NEW got, AnswersAll(w, c, got, S),
         NEW wants, IsList(wants), \A i \in DOMAIN wants : wants[i].token \in DOMAIN c.factories => wants[i].token \in S
  PROVE  Given(w, c, s, S, wants, Len(wants), Args(got, s, wants))
<1> DEFINE n == Len(wants)
           base == [c |-> s, values |-> << >>, thrown |-> FALSE]
<1>1. n \in Nat /\ DOMAIN wants = 1 .. n
  BY DEF IsList
<1> HIDE DEF n
<1>2. PICK tr : IsRun(tr, "arguments", got, base, wants, n) /\ Args(got, s, wants) = tr[n]
  BY <1>1, ArgumentsRun
<1> DEFINE good == {k \in Nat : k <= n => Given(w, c, s, S, wants, k, tr[k])}
<1>3. 0 \in good
  <2>1. tr[0] = base
    BY <1>2 DEF IsRun
  <2>2. base.c = s /\ base.values = << >> /\ ~base.thrown
    OBVIOUS
  <2>3. 1 .. 0 = {}
    OBVIOUS
  <2>4. Stays(c, s, s, S)
    BY DEF Stays
  <2> HIDE DEF base
  <2>5. Given(w, c, s, S, wants, 0, base)
    BY <2>2, <2>3, <2>4 DEF Given
  <2>6. QED
    BY <2>1, <2>5
<1>4. ASSUME NEW k \in Nat, k \in good PROVE k + 1 \in good
  <2>1. CASE k + 1 <= n
    <3>1. k \in 0 .. n - 1 /\ k <= n /\ k + 1 \in DOMAIN wants
      BY <1>1, <2>1
    <3>2. tr[k + 1] = WithArgument(got, tr[k], wants[k + 1])
      BY <1>2, <3>1 DEF IsRun, Step
    <3>3. Given(w, c, s, S, wants, k, tr[k])
      BY <1>4, <3>1
    <3>4. wants[k + 1].token \in DOMAIN c.factories => wants[k + 1].token \in S
      BY <3>1
    <3>5. QED
      BY <3>2, <3>3, <3>4, GivenStep
  <2>2. QED
    BY <2>1
<1> HIDE DEF good
<1>5. n \in good
  BY <1>1, <1>3, <1>4, SetInduction
<1>6. QED
  BY <1>1, <1>2, <1>5 DEF good, n

LEMMA WantsSame ==
  ASSUME NEW w, NEW c, NEW s, s.factories = c.factories, NEW f
  PROVE  Wants(w, s, f) = Wants(w, c, f)
<1>1. \A scope, t : DynamicWant(s, scope, t) = DynamicWant(c, scope, t)
  BY DEF DynamicWant, Has
<1>2. [i \in DOMAIN Params(w, f.of) |-> DynamicWant(s, f.scope, Params(w, f.of)[i])]
        = [i \in DOMAIN Params(w, f.of) |-> DynamicWant(c, f.scope, Params(w, f.of)[i])]
  BY <1>1
<1>3. <<Want(DynamicWant(s, f.scope, f.of).token, FALSE)>> = <<Want(DynamicWant(c, f.scope, f.of).token, FALSE)>>
  BY <1>1
<1>4. QED
  BY <1>2, <1>3, Zenon DEF Wants

(* An instance is stored of a token that had none and that no other waits for. *)
IsStore(c, a, t, v, made, r) ==
  /\ r = [factories |-> a.factories, instances |-> [a.instances EXCEPT ![t] = v], made |-> made]
  /\ made \in Seq([of : {c.factories[u].of : u \in Makers(c)}, deps : Seq(Nat)])
  /\ v \in 1 .. Len(made)

Holds(c, a, t, v, made, r) ==
  /\ r \in Becomes(c) /\ r.instances \in [DOMAIN c.factories -> Nat] /\ r.made = made /\ r.factories = c.factories
  /\ r.instances[t] = v /\ \A u \in DOMAIN c.factories : u # t => r.instances[u] = a.instances[u]
  /\ InstanceOf(r, t) = v
  /\ \A x : x # t => InstanceOf(r, x) = InstanceOf(a, x)

LEMMA InstanceOfMeans ==
  \A s, x : InstanceOf(s, x) = IF x \in DOMAIN s.factories THEN s.instances[x] ELSE 0
BY DEF InstanceOf, Has

LEMMA StoreInstances ==
  ASSUME NEW w, NEW c, NEW a, IsOrderly(w, c, a), NEW t \in DOMAIN c.factories, a.instances[t] = 0, NEW v, NEW made,
         NEW r, IsStore(c, a, t, v, made, r)
  PROVE  Holds(c, a, t, v, made, r)
<1>0. /\ r = [factories |-> a.factories, instances |-> [a.instances EXCEPT ![t] = v], made |-> made]
      /\ made \in Seq([of : {c.factories[u].of : u \in Makers(c)}, deps : Seq(Nat)])
      /\ v \in 1 .. Len(made)
  BY DEF IsStore
<1>1. a.factories = c.factories /\ a.instances \in [DOMAIN c.factories -> Nat]
      /\ \A x : InstanceOf(a, x) = IF x \in DOMAIN c.factories THEN a.instances[x] ELSE 0
  BY Instances
<1>2. v \in Nat
  <2>1. Len(made) \in Nat
    BY <1>0, LenProperties
  <2>2. QED
    BY <1>0, <2>1
<1> DEFINE g == [a.instances EXCEPT ![t] = v]
<1>3. g \in [DOMAIN c.factories -> Nat] /\ g[t] = v /\ \A u \in DOMAIN c.factories : u # t => g[u] = a.instances[u]
  BY <1>1, <1>2
<1> DEFINE E == [DOMAIN c.factories -> Nat]
           F == Seq([of : {c.factories[u].of : u \in Makers(c)}, deps : Seq(Nat)])
<1>4. Becomes(c) = [factories : {c.factories}, instances : E, made : F]
  BY DEF Becomes, Makers
<1>5. g \in E /\ made \in F
  BY <1>0, <1>3
<1> HIDE DEF E, F, g
<1>6. r.factories = c.factories /\ r.instances = g /\ r.made = made
  BY <1>0, <1>1 DEF g
<1>7. r \in Becomes(c)
  BY <1>0, <1>1, <1>4, <1>5 DEF g
<1>8. \A x : InstanceOf(r, x) = IF x \in DOMAIN c.factories THEN g[x] ELSE 0
  BY <1>6, InstanceOfMeans
<1>9. InstanceOf(r, t) = v
  BY <1>3, <1>8
<1>10. ASSUME NEW x, x # t PROVE InstanceOf(r, x) = InstanceOf(a, x)
  BY <1>1, <1>3, <1>8, <1>10
<1>11. QED
  BY <1>3, <1>6, <1>7, <1>9, <1>10 DEF Holds

LEMMA StoreInOrder ==
  ASSUME NEW w, NEW c, NEW a, IsOrderly(w, c, a), NEW t \in DOMAIN c.factories, a.instances[t] = 0, NEW v, NEW made,
         NEW r, IsStore(c, a, t, v, made, r), Len(made) \in Nat, v \in 1 .. Len(made),
         t \in CanBeMade(w, c), \A u \in DOMAIN c.factories \ Makers(c) : DOMAIN Asks(w, c, u) = 1 .. 1 /\ Needs(w, c, u) = {Asks(w, c, u)[1].token},
         Len(a.made) <= Len(made), \A n \in 1 .. Len(a.made) : made[n] = a.made[n],
         \A i \in DOMAIN Asks(w, c, t) : Asks(w, c, t)[i].token # t,
         t \notin Makers(c) => made = a.made /\ v = InstanceOf(a, Asks(w, c, t)[1].token),
         t \in Makers(c) => /\ Len(made) = Len(a.made) + 1 /\ v = Len(made)
                            /\ made[v].of = c.factories[t].of /\ DOMAIN made[v].deps = DOMAIN Asks(w, c, t)
                            /\ \A i \in DOMAIN Asks(w, c, t) :
                                 /\ made[v].deps[i] = InstanceOf(a, Asks(w, c, t)[i].token)
                                 /\ Asks(w, c, t)[i].token \in CanBeMade(w, c) => InstanceOf(a, Asks(w, c, t)[i].token) # 0
  PROVE  IsOrderly(w, c, r)
<1>1. /\ r \in Becomes(c) /\ r.instances \in [DOMAIN c.factories -> Nat] /\ r.made = made /\ r.factories = c.factories
      /\ r.instances[t] = v /\ \A u \in DOMAIN c.factories : u # t => r.instances[u] = a.instances[u]
      /\ InstanceOf(r, t) = v
      /\ \A x : x # t => InstanceOf(r, x) = InstanceOf(a, x)
  <2>1. Holds(c, a, t, v, made, r)
    BY StoreInstances
  <2>2. QED
    BY <2>1 DEF Holds
<1>2. /\ \A u \in DOMAIN c.factories : a.instances[u] # 0 => u \in CanBeMade(w, c) /\ a.instances[u] \in 1 .. Len(a.made)
      /\ \A u \in DOMAIN c.factories \ Makers(c) : a.instances[u] # 0 => a.instances[u] = InstanceOf(a, Asks(w, c, u)[1].token)
      /\ \A u \in Makers(c) : a.instances[u] # 0 =>
           a.made[a.instances[u]].of = c.factories[u].of /\ DOMAIN a.made[a.instances[u]].deps = DOMAIN Asks(w, c, u)
      /\ \A u \in Makers(c) : a.instances[u] # 0 => \A i \in DOMAIN Asks(w, c, u) :
           /\ a.made[a.instances[u]].deps[i] = InstanceOf(a, Asks(w, c, u)[i].token)
           /\ Asks(w, c, u)[i].token \in CanBeMade(w, c) => InstanceOf(a, Asks(w, c, u)[i].token) # 0
      /\ \A x, y \in Makers(c) : a.instances[x] # 0 /\ a.instances[x] = a.instances[y] => x = y
      /\ \A n \in 1 .. Len(a.made) : \E u \in Makers(c) : a.instances[u] = n
  BY DEF IsOrderly
<1>3. InstanceOf(a, t) = 0
  BY Instances
<1>4. Makers(c) \subseteq DOMAIN c.factories
  BY DEF Makers
<1>5. Len(a.made) \in Nat /\ Len(made) \in Nat
  <2>1. a \in Becomes(c)
    BY DEF IsOrderly
  <2>2. a.made \in Seq([of : {c.factories[u].of : u \in Makers(c)}, deps : Seq(Nat)])
    BY <2>1, BecomesFacts
  <2>3. QED
    BY <2>2, LenProperties
<1>6. ASSUME NEW u \in DOMAIN c.factories, r.instances[u] # 0
      PROVE  u \in CanBeMade(w, c) /\ r.instances[u] \in 1 .. Len(made)
  <2>1. CASE u = t
    BY <1>1, <2>1
  <2>2. CASE u # t
    <3>1. u \in CanBeMade(w, c) /\ a.instances[u] \in 1 .. Len(a.made)
      BY <1>1, <1>2, <1>6, <2>2
    <3>2. r.instances[u] = a.instances[u]
      BY <1>1, <2>2
    <3>3. QED
      BY <1>5, <3>1, <3>2
  <2>3. QED
    BY <2>1, <2>2
<1>7. ASSUME NEW u \in DOMAIN c.factories \ Makers(c), r.instances[u] # 0
      PROVE  r.instances[u] = InstanceOf(r, Asks(w, c, u)[1].token)
  <2>1. 1 \in DOMAIN Asks(w, c, u)
    OBVIOUS
  <2>2. CASE u = t
    <3>1. Asks(w, c, t)[1].token # t
      BY <2>1, <2>2
    <3>2. QED
      BY <1>1, <2>2, <3>1
  <2>3. CASE u # t
    <3>1. a.instances[u] # 0 /\ r.instances[u] = a.instances[u]
      BY <1>1, <1>7, <2>3
    <3>2. a.instances[u] = InstanceOf(a, Asks(w, c, u)[1].token)
      BY <1>2, <3>1
    <3>3. Asks(w, c, u)[1].token # t
      BY <1>3, <3>1, <3>2
    <3>4. QED
      BY <1>1, <3>1, <3>2, <3>3
  <2>4. QED
    BY <2>2, <2>3
<1>8. ASSUME NEW u \in Makers(c), r.instances[u] # 0, NEW i \in DOMAIN Asks(w, c, u)
      PROVE  /\ r.made[r.instances[u]].deps[i] = InstanceOf(r, Asks(w, c, u)[i].token)
             /\ Asks(w, c, u)[i].token \in CanBeMade(w, c) => InstanceOf(r, Asks(w, c, u)[i].token) # 0
  <2>1. CASE u = t
    <3>1. Asks(w, c, t)[i].token # t
      BY <2>1
    <3>2. /\ made[v].deps[i] = InstanceOf(a, Asks(w, c, t)[i].token)
          /\ Asks(w, c, t)[i].token \in CanBeMade(w, c) => InstanceOf(a, Asks(w, c, t)[i].token) # 0
      BY <2>1
    <3>3. r.made = made /\ r.instances[u] = v /\ InstanceOf(r, Asks(w, c, t)[i].token) = InstanceOf(a, Asks(w, c, t)[i].token)
      BY <1>1, <2>1, <3>1
    <3>4. QED
      BY <2>1, <3>2, <3>3
  <2>2. CASE u # t
    <3>1. a.instances[u] # 0 /\ r.instances[u] = a.instances[u]
      BY <1>1, <1>4, <1>8, <2>2
    <3>2. /\ a.made[a.instances[u]].deps[i] = InstanceOf(a, Asks(w, c, u)[i].token)
          /\ Asks(w, c, u)[i].token \in CanBeMade(w, c) => InstanceOf(a, Asks(w, c, u)[i].token) # 0
      BY <1>2, <3>1
    <3>3. Asks(w, c, u)[i].token # t
      BY <1>3, <3>2
    <3>4. a.instances[u] \in 1 .. Len(a.made)
      BY <1>2, <1>4, <3>1
    <3>5. made[a.instances[u]] = a.made[a.instances[u]]
      BY <3>4
    <3>6. InstanceOf(r, Asks(w, c, u)[i].token) = InstanceOf(a, Asks(w, c, u)[i].token)
      BY <1>1, <3>3
    <3>7. QED
      BY <1>1, <3>1, <3>2, <3>5, <3>6
  <2>3. QED
    BY <2>1, <2>2
<1>8a. ASSUME NEW u \in Makers(c), r.instances[u] # 0
       PROVE  r.made[r.instances[u]].of = c.factories[u].of /\ DOMAIN r.made[r.instances[u]].deps = DOMAIN Asks(w, c, u)
  <2>1. CASE u = t
    BY <1>1, <2>1
  <2>2. CASE u # t
    <3>1. a.instances[u] # 0 /\ r.instances[u] = a.instances[u]
      BY <1>1, <1>4, <1>8a, <2>2
    <3>2. a.made[a.instances[u]].of = c.factories[u].of /\ DOMAIN a.made[a.instances[u]].deps = DOMAIN Asks(w, c, u)
      BY <1>2, <3>1
    <3>3. made[a.instances[u]] = a.made[a.instances[u]]
      BY <1>2, <1>4, <3>1
    <3>4. QED
      BY <1>1, <3>1, <3>2, <3>3
  <2>3. QED
    BY <2>1, <2>2
<1>9. ASSUME NEW x \in Makers(c), NEW y \in Makers(c), r.instances[x] # 0, r.instances[x] = r.instances[y]
      PROVE  x = y
  <2>1. CASE x # t /\ y # t
    BY <1>1, <1>2, <1>4, <1>9, <2>1
  <2>2. CASE x # t /\ y = t
    <3>1. a.instances[x] \in 1 .. Len(a.made)
      BY <1>1, <1>2, <1>4, <1>9, <2>2
    <3>2. r.instances[x] = a.instances[x] /\ r.instances[y] = Len(a.made) + 1
      BY <1>1, <1>4, <2>2
    <3>3. a.instances[x] = Len(a.made) + 1
      BY <1>9, <3>2
    <3>4. QED
      BY <1>5, <3>1, <3>3
  <2>3. CASE x = t /\ y # t
    <3>1. a.instances[y] \in 1 .. Len(a.made)
      BY <1>1, <1>2, <1>4, <1>9, <2>3
    <3>2. r.instances[y] = a.instances[y] /\ r.instances[x] = Len(a.made) + 1
      BY <1>1, <1>4, <2>3
    <3>3. a.instances[y] = Len(a.made) + 1
      BY <1>9, <3>2
    <3>4. QED
      BY <1>5, <3>1, <3>3
  <2>4. QED
    BY <2>1, <2>2, <2>3
<1>10. ASSUME NEW n \in 1 .. Len(made) PROVE \E u \in Makers(c) : r.instances[u] = n
  <2>1. CASE n \in 1 .. Len(a.made)
    <3>1. PICK u \in Makers(c) : a.instances[u] = n
      BY <1>2, <2>1
    <3>2. u # t /\ u \in DOMAIN c.factories
      BY <1>4, <2>1, <3>1
    <3>3. QED
      BY <1>1, <3>1, <3>2
  <2>2. CASE n \notin 1 .. Len(a.made)
    <3>1. t \in Makers(c)
      BY <2>2
    <3>2. n = v
      BY <1>5, <2>2, <3>1
    <3>3. QED
      BY <1>1, <3>1, <3>2
  <2>3. QED
    BY <2>1, <2>2
<1>11. QED
  BY <1>1, <1>6, <1>7, <1>8, <1>8a, <1>9, <1>10 DEF IsOrderly

LEMMA StoredMeans ==
  ASSUME NEW f, NEW g, NEW m, NEW t, NEW v
  PROVE  Stored([factories |-> f, instances |-> g, made |-> m], t, v) = [factories |-> f, instances |-> [g EXCEPT ![t] = v], made |-> m]
BY DEF Stored

(* What create() comes to for a token whose wanted tokens are answered. *)
LEMMA CreateAnswers ==
  ASSUME NEW w, NEW c, IsWired(w, c), NEW s, IsOrderly(w, c, s), NEW t \in DOMAIN c.factories, s.instances[t] = 0,
         NEW S, NEW got, AnswersAll(w, c, got, S), t \notin S,
         \A i \in DOMAIN Asks(w, c, t) : Asks(w, c, t)[i].token \in DOMAIN c.factories => Asks(w, c, t)[i].token \in S
  PROVE  Answers(w, c, s, t, Create(w, got, s, t), S \cup {t})
<1> DEFINE f == c.factories[t]
           wants == Asks(w, c, t)
           args == Args(got, s, wants)
           a == args.c
           made == Append(a.made, [of |-> f.of, deps |-> args.values])
           r == Create(w, got, s, t)
<1>1. s.factories = c.factories
  BY Instances
<1>2. Wants(w, s, s.factories[t]) = wants
  BY <1>1, WantsSame DEF Asks
<1>3. IsList(wants) /\ (f.use = "existing" => Len(wants) = 1 /\ ~wants[1].caught)
  BY DEF IsWired
<1>4. Len(wants) \in Nat /\ DOMAIN wants = 1 .. Len(wants)
  BY <1>3 DEF IsList
<1>5. Given(w, c, s, S, wants, Len(wants), args)
  <2> HIDE DEF wants
  <2>1. QED
    BY <1>3, ArgsAnswer DEF wants
<1>6. r = CASE args.thrown \/ (f.use = "class" /\ f.of \in w.throws) -> Thrown(a)
            [] ~args.thrown /\ f.use = "existing" -> Returned(Stored(a, t, args.values[1]), args.values[1])
            [] OTHER -> Returned(Stored([a EXCEPT !.made = made], t, Len(made)), Len(made))
  BY <1>1, <1>2 DEF Create
<1> HIDE DEF r, args
<1>7. IsOrderly(w, c, a) /\ Stays(c, s, a, S)
  BY <1>5 DEF Given
<1>8. a.instances[t] = 0 /\ a.factories = c.factories
  BY <1>7, Instances DEF Stays
<1>9. InstanceOf(a, t) = 0
  BY <1>7, <1>8, Instances
<1>10. args.thrown <=> \E i \in DOMAIN wants : ~wants[i].caught /\ wants[i].token \notin CanBeMade(w, c)
  BY <1>4, <1>5 DEF Given
<1>11. args.thrown <=> ~(Needs(w, c, t) \subseteq CanBeMade(w, c))
  <2>1. Needs(w, c, t) = {wants[i].token : i \in {i \in DOMAIN wants : ~wants[i].caught}}
    BY DEF Needs
  <2> HIDE DEF wants
  <2>2. QED
    BY <1>10, <2>1
<1>12. Refuses(w, c, t) <=> (f.use = "class" /\ f.of \in w.throws)
  BY DEF Refuses
<1>13. t \in CanBeMade(w, c) <=> ~Refuses(w, c, t) /\ ~args.thrown
  BY <1>11, CanBeMadeFacts
<1>14. \A i \in DOMAIN wants : wants[i].token # t
  OBVIOUS
<1>15. a \in Becomes(c)
  BY <1>7 DEF IsOrderly
<1> DEFINE O == [of : {c.factories[u].of : u \in Makers(c)}, deps : Seq(Nat)]
<1>16. a.made \in Seq(O) /\ a = [factories |-> a.factories, instances |-> a.instances, made |-> a.made]
  <2> HIDE DEF a
  <2>1. QED
    BY <1>15, BecomesFacts
<1>17. \A u \in DOMAIN c.factories \ Makers(c) : DOMAIN Asks(w, c, u) = 1 .. 1 /\ Needs(w, c, u) = {Asks(w, c, u)[1].token}
  <2>1. TAKE u \in DOMAIN c.factories \ Makers(c)
  <2>2. c.factories[u].use = "existing"
    BY DEF Makers
  <2>3. IsList(Asks(w, c, u)) /\ Len(Asks(w, c, u)) = 1 /\ ~Asks(w, c, u)[1].caught
    BY <2>2 DEF IsWired
  <2>4. DOMAIN Asks(w, c, u) = 1 .. 1
    BY <2>3 DEF IsList
  <2>5. \A i \in 1 .. 1 : i = 1
    OBVIOUS
  <2>6. QED
    BY <2>3, <2>4, <2>5 DEF Needs
<1> HIDE DEF wants, f
<1>18. CASE args.thrown \/ Refuses(w, c, t)
  <2>1. r = [c |-> a, value |-> 0, thrown |-> TRUE]
    BY <1>6, <1>12, <1>18 DEF Thrown
  <2>2. t \notin CanBeMade(w, c)
    BY <1>13, <1>18
  <2>3. r.c = a /\ r.value = 0 /\ r.thrown
    BY <2>1
  <2>4. Stays(c, s, a, S \cup {t})
    BY <1>7 DEF Stays
  <2> HIDE DEF a
  <2>5. QED
    BY <1>7, <1>9, <2>2, <2>3, <2>4 DEF Answers, r
<1>19. ASSUME ~args.thrown, ~Refuses(w, c, t), NEW v, NEW m, NEW b,
              b = [factories |-> a.factories, instances |-> [a.instances EXCEPT ![t] = v], made |-> m],
              r = [c |-> b, value |-> v, thrown |-> FALSE], v \in 1 .. Len(m), Len(m) \in Nat, IsOrderly(w, c, b)
       PROVE  Answers(w, c, s, t, r, S \cup {t})
  <2>1. t \in CanBeMade(w, c)
    BY <1>13, <1>19
  <2>2. r.c = b /\ r.value = v /\ ~r.thrown
    BY <1>19
  <2>3. v # 0
    BY <1>19
  <2>4. b.instances[t] = v /\ \A u \in DOMAIN c.factories : u # t => b.instances[u] = a.instances[u]
    BY <1>7, <1>19, Instances
  <2>5. Stays(c, s, b, S \cup {t})
    BY <1>7, <2>4 DEF Stays
  <2>6. InstanceOf(b, t) = v
    BY <1>19, <2>4, Instances
  <2>7. QED
    BY <1>19, <2>1, <2>2, <2>3, <2>5, <2>6 DEF Answers
<1>20. CASE ~args.thrown /\ ~Refuses(w, c, t) /\ f.use = "existing"
  <2> DEFINE v == args.values[1]
             b == [factories |-> a.factories, instances |-> [a.instances EXCEPT ![t] = v], made |-> a.made]
  <2>1. r = Returned(Stored(a, t, v), v)
    BY <1>6, <1>12, <1>20
  <2>2. Stored(a, t, v) = b
    <3>1. Stored([factories |-> a.factories, instances |-> a.instances, made |-> a.made], t, v) = b
      BY StoredMeans
    <3> HIDE DEF a, b
    <3>2. QED
      BY <1>16, <3>1
  <2>3. r = [c |-> b, value |-> v, thrown |-> FALSE]
    BY <2>1, <2>2 DEF Returned
  <2>4. Len(wants) = 1 /\ ~wants[1].caught /\ 1 \in DOMAIN wants /\ t \notin Makers(c)
    BY <1>3, <1>4, <1>20 DEF Makers, f
  <2>5. wants[1].token \in CanBeMade(w, c)
    BY <1>10, <1>20, <2>4
  <2>6. v = InstanceOf(a, wants[1].token) /\ v # 0
    BY <1>5, <1>20, <2>4, <2>5 DEF Given
  <2>7. v \in 1 .. Len(a.made) /\ Len(a.made) \in Nat
    <3>1. wants[1].token \in DOMAIN c.factories
      BY <2>5, CanBeMadeFacts
    <3>2. v = a.instances[wants[1].token]
      BY <1>7, <2>6, <3>1, Instances
    <3>3. Len(a.made) \in Nat
      BY <1>16, LenProperties
    <3>4. QED
      BY <1>7, <2>6, <3>1, <3>2, <3>3 DEF IsOrderly
  <2> HIDE DEF v
  <2>8. IsStore(c, a, t, v, a.made, b)
    BY <1>16, <2>7 DEF IsStore
  <2> HIDE DEF b, a
  <2>9. IsOrderly(w, c, b)
    <3>1. t \in CanBeMade(w, c)
      BY <1>13, <1>20
    <3>2. \A n \in 1 .. Len(a.made) : a.made[n] = a.made[n]
      OBVIOUS
    <3>3. Len(a.made) <= Len(a.made)
      BY <2>7
    <3>4. QED
      BY <1>7, <1>8, <1>14, <1>17, <2>4, <2>6, <2>7, <2>8, <3>1, <3>2, <3>3, StoreInOrder DEF wants
  <2>10. b = [factories |-> a.factories, instances |-> [a.instances EXCEPT ![t] = v], made |-> a.made]
    BY DEF b
  <2>11. QED
    BY <1>19, <1>20, <2>3, <2>7, <2>9, <2>10 DEF r
<1>21. CASE ~args.thrown /\ ~Refuses(w, c, t) /\ f.use # "existing"
  <2> DEFINE v == Len(made)
             b == [factories |-> a.factories, instances |-> [a.instances EXCEPT ![t] = v], made |-> made]
  <2>1. r = Returned(Stored([a EXCEPT !.made = made], t, v), v)
    BY <1>6, <1>12, <1>21
  <2>2. Stored([a EXCEPT !.made = made], t, v) = b
    <3> HIDE DEF made, v
    <3>1. [a EXCEPT !.made = made] = [factories |-> a.factories, instances |-> a.instances, made |-> made]
      BY <1>16
    <3>2. Stored([factories |-> a.factories, instances |-> a.instances, made |-> made], t, v) = b
      BY StoredMeans
    <3> HIDE DEF a, b
    <3>3. QED
      BY <3>1, <3>2
  <2>3. r = [c |-> b, value |-> v, thrown |-> FALSE]
    BY <2>1, <2>2 DEF Returned
  <2>4. t \in Makers(c)
    BY <1>21 DEF Makers, f
  <2>5. args.values \in Seq(Nat) /\ Len(args.values) = Len(wants)
        /\ \A i \in DOMAIN wants : /\ args.values[i] = InstanceOf(a, wants[i].token)
                                   /\ wants[i].token \in CanBeMade(w, c) => args.values[i] # 0
    BY <1>4, <1>5, <1>21 DEF Given
  <2> DEFINE object == [of |-> f.of, deps |-> args.values]
  <2>6. object \in O /\ object.deps = args.values /\ object.of = c.factories[t].of
    BY <2>4, <2>5 DEF f
  <2> HIDE DEF object, O
  <2>7. made \in Seq(O) /\ Len(made) = Len(a.made) + 1 /\ made[Len(a.made) + 1] = object
        /\ \A n \in 1 .. Len(a.made) : made[n] = a.made[n]
    BY <1>16, <2>6, AppendProperties DEF object
  <2>8. Len(a.made) \in Nat
    BY <1>16, LenProperties
  <2> HIDE DEF made
  <2>9. v \in 1 .. Len(made) /\ v = Len(a.made) + 1 /\ Len(made) \in Nat
    BY <2>7, <2>8
  <2>10. \A i \in DOMAIN wants : /\ made[v].deps[i] = InstanceOf(a, wants[i].token)
                                 /\ wants[i].token \in CanBeMade(w, c) => InstanceOf(a, wants[i].token) # 0
    BY <2>5, <2>6, <2>7, <2>9
  <2>10a. made[v].of = c.factories[t].of /\ DOMAIN made[v].deps = DOMAIN wants
    <3>1. made[v] = object /\ DOMAIN args.values = 1 .. Len(wants)
      BY <2>5, <2>7, <2>9
    <3>2. QED
      BY <1>4, <2>6, <3>1
  <2> HIDE DEF v
  <2>11. IsStore(c, a, t, v, made, b)
    BY <2>7, <2>9 DEF IsStore, O
  <2> HIDE DEF b, a
  <2>12. IsOrderly(w, c, b)
    <3>1. t \in CanBeMade(w, c)
      BY <1>13, <1>21
    <3>2. Len(a.made) <= Len(made)
      BY <2>7, <2>8
    <3>3. v = Len(made)
      BY DEF v
    <3>4. QED
      BY <1>7, <1>8, <1>14, <1>17, <2>4, <2>7, <2>9, <2>10, <2>10a, <2>11, <3>1, <3>2, <3>3, StoreInOrder DEF wants
  <2>13. b = [factories |-> a.factories, instances |-> [a.instances EXCEPT ![t] = v], made |-> made]
    BY DEF b
  <2>14. QED
    BY <1>19, <1>21, <2>3, <2>9, <2>12, <2>13 DEF r
<1>22. QED
  BY <1>18, <1>20, <1>21 DEF r

LEMMA AskOnlyMeans ==
  ASSUME NEW w, NEW c, NEW T, NEW t
  PROVE  t \in AskOnly(w, c, T) <=>
           t \in DOMAIN c.factories /\ \A i \in DOMAIN Asks(w, c, t) :
             Asks(w, c, t)[i].token \in DOMAIN c.factories => Asks(w, c, t)[i].token \in T
<1> DEFINE asked(u) == {Wants(w, c, c.factories[u])[i].token : i \in DOMAIN Wants(w, c, c.factories[u])}
<1>1. AskOnly(w, c, T) = {u \in DOMAIN c.factories : asked(u) \cap DOMAIN c.factories \subseteq T}
  BY DEF AskOnly
<1>2. asked(t) = {Asks(w, c, t)[i].token : i \in DOMAIN Asks(w, c, t)}
  BY DEF Asks
<1> HIDE DEF asked
<1>3. t \in AskOnly(w, c, T) <=> t \in DOMAIN c.factories /\ asked(t) \cap DOMAIN c.factories \subseteq T
  BY <1>1
<1>4. QED
  BY <1>2, <1>3

LEMMA EndsGrow ==
  ASSUME NEW w, NEW c, NEW n \in Nat, NEW e, IsTower(e, "ends", [w |-> w, c |-> c], n)
  PROVE  /\ e[0] = {}
         /\ \A j \in 0 .. n - 1 : e[j + 1] = AskOnly(w, c, e[j]) /\ e[j] \subseteq e[j + 1]
<1> DEFINE d == [w |-> w, c |-> c]
<1>1. \A k, x : Level("ends", d, k, x) = IF k = 0 THEN {} ELSE AskOnly(w, c, x)
  BY DEF Level
<1>2. \A k \in 0 .. n : e[k] = Level("ends", d, k, e[k - 1])
  <2> HIDE DEF d
  <2>1. QED
    BY TowerLevels DEF d
<1> HIDE DEF d
<1>3. e[0] = {}
  BY <1>1, <1>2
<1>4. \A j \in 0 .. n - 1 : e[j + 1] = AskOnly(w, c, e[j])
  <2>1. TAKE j \in 0 .. n - 1
  <2>2. j + 1 \in 0 .. n /\ j + 1 # 0 /\ (j + 1) - 1 = j
    OBVIOUS
  <2>3. e[j + 1] = Level("ends", d, j + 1, e[j])
    BY <1>2, <2>2
  <2>4. QED
    BY <1>1, <2>2, <2>3
<1> DEFINE good == {j \in Nat : j < n => e[j] \subseteq e[j + 1]}
<1>5. 0 \in good
  BY <1>3
<1>6. ASSUME NEW j \in Nat, j \in good PROVE j + 1 \in good
  <2>1. CASE j + 1 < n
    <3>1. j \in 0 .. n - 1 /\ j + 1 \in 0 .. n - 1
      BY <2>1
    <3>2. e[j] \subseteq e[j + 1]
      BY <1>6, <3>1
    <3>3. AskOnly(w, c, e[j]) \subseteq AskOnly(w, c, e[j + 1])
      BY <3>2, AskOnlyMeans
    <3>4. e[j + 1] = AskOnly(w, c, e[j]) /\ e[(j + 1) + 1] = AskOnly(w, c, e[j + 1])
      BY <1>4, <3>1
    <3>5. QED
      BY <3>3, <3>4
  <2>2. QED
    BY <2>1
<1> HIDE DEF good
<1>7. Nat \subseteq good
  BY <1>5, <1>6, SetInduction
<1>8. QED
  BY <1>3, <1>4, <1>7 DEF good

LEMMA AnswersMore ==
  ASSUME NEW w, NEW c, NEW s, NEW t, NEW r, NEW S, NEW T, S \subseteq T, Answers(w, c, s, t, r, S)
  PROVE  Answers(w, c, s, t, r, T)
<1>1. Stays(c, s, r.c, S)
  BY DEF Answers
<1>2. Stays(c, s, r.c, T)
  BY <1>1 DEF Stays
<1>3. QED
  BY <1>2 DEF Answers

(* A token whose chains end within the depth is answered. *)
LEMMA AttemptAnswers ==
  ASSUME NEW w, NEW c, IsWired(w, c), NEW s, IsOrderly(w, c, s), NEW k \in Nat, k # 0, NEW S,
         NEW lower, AnswersAll(w, c, lower, S), NEW t \in AskOnly(w, c, S), t \notin S, S \subseteq AskOnly(w, c, S)
  PROVE  Answers(w, c, s, t, Attempt(w, k, lower, s, t), AskOnly(w, c, S))
<1> DEFINE T == AskOnly(w, c, S)
<1>1. t \in DOMAIN c.factories /\ \A i \in DOMAIN Asks(w, c, t) :
        Asks(w, c, t)[i].token \in DOMAIN c.factories => Asks(w, c, t)[i].token \in S
  BY AskOnlyMeans
<1>2. CASE s.instances[t] # 0
  <2>1. Attempt(w, k, lower, s, t) = [c |-> s, value |-> s.instances[t], thrown |-> FALSE]
    BY <1>2 DEF Attempt, Returned
  <2> DEFINE r == Attempt(w, k, lower, s, t)
  <2>2. r.c = s /\ r.value = s.instances[t] /\ ~r.thrown
    BY <2>1
  <2>3. InstanceOf(s, t) = s.instances[t] /\ t \in CanBeMade(w, c)
    BY <1>1, <1>2, Instances
  <2>4. Stays(c, s, s, T)
    BY DEF Stays
  <2> HIDE DEF r, T
  <2>5. QED
    BY <1>2, <2>2, <2>3, <2>4 DEF Answers, r, T
<1>3. CASE s.instances[t] = 0
  <2>1. Attempt(w, k, lower, s, t) = Create(w, lower, s, t)
    BY <1>3 DEF Attempt
  <2>2. Answers(w, c, s, t, Create(w, lower, s, t), S \cup {t})
    BY <1>1, <1>3, CreateAnswers
  <2>3. S \cup {t} \subseteq T
    OBVIOUS
  <2> HIDE DEF T
  <2>4. QED
    BY <2>1, <2>2, <2>3, AnswersMore DEF T
<1>4. QED
  BY <1>2, <1>3

LEMMA TowerAnswers ==
  ASSUME NEW w, NEW c, IsWired(w, c), NEW n \in Nat, NEW e, IsTower(e, "ends", [w |-> w, c |-> c], n),
         NEW f, IsTower(f, "get", [w |-> w, c |-> c], n)
  PROVE  AnswersAll(w, c, f[n], e[n])
<1> DEFINE d == [w |-> w, c |-> c]
           good == {j \in Nat : \A k \in 0 .. n : j <= k => AnswersAll(w, c, f[k], e[j])}
<1>1. \A k \in 0 .. n : f[k] = Attempts(w, c, k, f[k - 1])
  <2>1. \A k, x : Level("get", d, k, x) = Attempts(w, c, k, x)
    BY DEF Level
  <2> HIDE DEF d
  <2>2. \A k \in 0 .. n : f[k] = Level("get", d, k, f[k - 1])
    BY TowerLevels DEF d
  <2>3. QED
    BY <2>1, <2>2
<1>2. e[0] = {} /\ \A j \in 0 .. n - 1 : e[j + 1] = AskOnly(w, c, e[j]) /\ e[j] \subseteq e[j + 1]
  BY EndsGrow
<1>3. 0 \in good
  BY <1>2 DEF AnswersAll
<1>4. ASSUME NEW j \in Nat, j \in good PROVE j + 1 \in good
  <2>1. SUFFICES ASSUME NEW k \in 0 .. n, j + 1 <= k PROVE AnswersAll(w, c, f[k], e[j + 1])
    OBVIOUS
  <2>2. k # 0 /\ k - 1 \in 0 .. n /\ j <= k - 1 /\ j <= k /\ j \in 0 .. n - 1
    BY <2>1
  <2>3. AnswersAll(w, c, f[k - 1], e[j]) /\ AnswersAll(w, c, f[k], e[j])
    BY <1>4, <2>2
  <2>4. e[j + 1] = AskOnly(w, c, e[j]) /\ e[j] \subseteq e[j + 1]
    BY <1>2, <2>2
  <2>5. SUFFICES ASSUME NEW s, NEW t, IsOrderly(w, c, s), t \in e[j + 1]
                 PROVE  Answers(w, c, s, t, f[k][<<s, t>>], e[j + 1])
    BY DEF AnswersAll
  <2>6. CASE t \in e[j]
    <3>1. Answers(w, c, s, t, f[k][<<s, t>>], e[j])
      BY <2>3, <2>5, <2>6 DEF AnswersAll
    <3>2. QED
      BY <2>4, <3>1, AnswersMore
  <2>7. CASE t \notin e[j]
    <3>1. s \in Becomes(c) /\ t \in DOMAIN c.factories
      BY <2>4, <2>5, AskOnlyMeans DEF IsOrderly
    <3>2. f[k][<<s, t>>] = Attempt(w, k, f[k - 1], s, t)
      <4>1. <<s, t>> \in Becomes(c) \X DOMAIN c.factories
        BY <3>1
      <4>2. <<s, t>>[1] = s /\ <<s, t>>[2] = t
        OBVIOUS
      <4>3. QED
        BY <1>1, <4>1, <4>2 DEF Attempts
    <3>3. Answers(w, c, s, t, Attempt(w, k, f[k - 1], s, t), AskOnly(w, c, e[j]))
      BY <2>2, <2>3, <2>4, <2>5, <2>7, AttemptAnswers
    <3>4. QED
      BY <2>4, <3>2, <3>3
  <2>8. QED
    BY <2>6, <2>7
<1> HIDE DEF good
<1>5. n \in good
  BY <1>3, <1>4, SetInduction
<1>6. QED
  BY <1>5 DEF good

LEMMA GetAnswers ==
  ASSUME StackLimit \in Nat, NEW w, NEW c, IsWired(w, c), Acyclic(w, c), NEW s, IsOrderly(w, c, s), NEW x
  PROVE  Answers(w, c, s, x, Get(w, s, x), DOMAIN c.factories)
<1> DEFINE d == [w |-> w, c |-> c]
           b == [w |-> w, c |-> s]
<1>1. PICK e : IsTower(e, "ends", d, StackLimit) /\ e[StackLimit] = DOMAIN c.factories
  BY EndsTower
<1>2. PICK f : IsTower(f, "get", b, StackLimit) /\ \A token : Get(w, s, token) = Asked(f[StackLimit], s, token)
  BY GetTower
<1>3. s.factories = c.factories /\ Becomes(s) = Becomes(c)
  <2>1. s \in Becomes(c)
    BY DEF IsOrderly
  <2>2. QED
    BY <2>1, BecomesFacts
<1>4. \A k, y : Level("get", d, k, y) = Level("get", b, k, y)
  <2>1. \A k, y : Level("get", d, k, y) = Attempts(w, c, k, y)
    BY DEF Level
  <2>2. \A k, y : Level("get", b, k, y) = Attempts(w, s, k, y)
    BY DEF Level
  <2> HIDE DEF b, d
  <2>3. \A k, y : Attempts(w, s, k, y) = Attempts(w, c, k, y)
    BY <1>3, Zenon DEF Attempts
  <2>4. QED
    BY <2>1, <2>2, <2>3
<1> HIDE DEF b, d
<1>5. IsTower(f, "get", d, StackLimit)
  BY <1>2, <1>4 DEF IsTower
<1>6. AnswersAll(w, c, f[StackLimit], DOMAIN c.factories)
  BY <1>1, <1>5, TowerAnswers DEF d
<1>7. Answers(w, c, s, x, Asked(f[StackLimit], s, x), DOMAIN c.factories)
  BY <1>6, AskedAnswers
<1>8. QED
  BY <1>2, <1>7

LEMMA GetsAnswer ==
  ASSUME StackLimit \in Nat, NEW w, NEW c, IsWired(w, c), Acyclic(w, c), NEW s, IsOrderly(w, c, s),
         NEW tokens, IsList(tokens)
  PROVE  /\ IsOrderly(w, c, Gets(w, s, tokens))
         /\ \A i \in DOMAIN tokens : tokens[i] \in CanBeMade(w, c) => InstanceOf(Gets(w, s, tokens), tokens[i]) # 0
<1> DEFINE n == Len(tokens)
<1>1. n \in Nat /\ DOMAIN tokens = 1 .. n
  BY DEF IsList
<1> HIDE DEF n
<1>2. PICK tr : IsRun(tr, "gets", w, s, tokens, n) /\ Gets(w, s, tokens) = tr[n]
  BY <1>1, GetsRun
<1> DEFINE Had(k) == \A i \in 1 .. k : tokens[i] \in CanBeMade(w, c) => InstanceOf(tr[k], tokens[i]) # 0
           good == {k \in Nat : k <= n => IsOrderly(w, c, tr[k]) /\ Had(k)}
<1>3. 0 \in good
  <2>1. tr[0] = s
    BY <1>2 DEF IsRun
  <2>2. QED
    BY <2>1
<1>4. ASSUME NEW k \in Nat, k \in good PROVE k + 1 \in good
  <2>1. CASE k + 1 <= n
    <3>1. k \in 0 .. n - 1 /\ k <= n
      BY <1>1, <2>1
    <3>2. tr[k + 1] = Get(w, tr[k], tokens[k + 1]).c
      <4>1. tr[k + 1] = Step("gets", w, tr[k], tokens[k + 1])
        BY <1>2, <3>1 DEF IsRun
      <4>2. QED
        BY <4>1 DEF Step
    <3>3. IsOrderly(w, c, tr[k]) /\ Had(k)
      BY <1>4, <3>1
    <3> DEFINE r == Get(w, tr[k], tokens[k + 1])
    <3>4. Answers(w, c, tr[k], tokens[k + 1], r, DOMAIN c.factories)
      BY <3>3, GetAnswers
    <3> HIDE DEF r
    <3>5. IsOrderly(w, c, r.c) /\ Stays(c, tr[k], r.c, DOMAIN c.factories)
      BY <3>4 DEF Answers
    <3>6. tokens[k + 1] \in CanBeMade(w, c) => InstanceOf(r.c, tokens[k + 1]) # 0
      BY <3>4 DEF Answers
    <3>7. ASSUME NEW i \in 1 .. k + 1, tokens[i] \in CanBeMade(w, c) PROVE InstanceOf(r.c, tokens[i]) # 0
      <4>1. CASE i = k + 1
        BY <3>6, <3>7, <4>1
      <4>2. CASE i # k + 1
        <5>1. i \in 1 .. k
          BY <4>2
        <5>2. InstanceOf(tr[k], tokens[i]) # 0
          BY <3>3, <3>7, <5>1
        <5>3. InstanceOf(r.c, tokens[i]) = InstanceOf(tr[k], tokens[i])
          BY <3>3, <3>5, <5>2, InstanceStays
        <5>4. QED
          BY <5>2, <5>3
      <4>3. QED
        BY <4>1, <4>2
    <3>8. tr[k + 1] = r.c
      BY <3>2 DEF r
    <3>9. QED
      BY <3>5, <3>7, <3>8
  <2>2. QED
    BY <2>1
<1> HIDE DEF good
<1>5. n \in good
  BY <1>1, <1>3, <1>4, SetInduction
<1>6. QED
  BY <1>1, <1>2, <1>5 DEF good

(* A container that nothing has been asked of. *)
IsFresh(c) ==
  /\ c = [factories |-> c.factories, instances |-> c.instances, made |-> << >>]
  /\ c.instances \in [DOMAIN c.factories -> {0}]

LEMMA FreshInOrder ==
  ASSUME NEW w, NEW c, IsFresh(c)
  PROVE  IsOrderly(w, c, c)
<1> DEFINE E == [DOMAIN c.factories -> Nat]
           F == Seq([of : {c.factories[u].of : u \in Makers(c)}, deps : Seq(Nat)])
<1>1. Becomes(c) = [factories : {c.factories}, instances : E, made : F]
  BY DEF Becomes, Makers
<1>2. \A t \in DOMAIN c.factories : c.instances[t] = 0
  BY DEF IsFresh
<1>3. c.instances \in E /\ << >> \in F
  BY DEF IsFresh
<1> HIDE DEF E, F
<1>4. c \in Becomes(c)
  BY <1>1, <1>3 DEF IsFresh
<1>5. c.made = << >>
  BY DEF IsFresh
<1>6. Len(c.made) = 0 /\ 1 .. 0 = {}
  BY <1>5
<1>7. Makers(c) \subseteq DOMAIN c.factories
  BY DEF Makers
<1>8. QED
  BY <1>2, <1>4, <1>6, <1>7 DEF IsOrderly

LEMMA SingletonsHold ==
  ASSUME StackLimit \in Nat, NEW w, NEW c, IsWired(w, c), IsFresh(c), NEW tokens, IsList(tokens)
  PROVE  ObjectsAreOne(w, c, tokens)
<1> DEFINE after == Gets(w, c, tokens)
           wants(t) == Wants(w, c, c.factories[t])
           held == {t \in DOMAIN c.factories : after.instances[t] # 0}
           makers == {t \in held : c.factories[t].use # "existing"}
<1>1. SUFFICES ASSUME Acyclic(w, c)
               PROVE  /\ \A t \in held \ makers : after.instances[t] = InstanceOf(after, wants(t)[1].token)
                      /\ \A t \in makers : /\ after.made[after.instances[t]].of = c.factories[t].of
                                            /\ DOMAIN after.made[after.instances[t]].deps = DOMAIN wants(t)
                      /\ \A t \in makers : \A i \in DOMAIN wants(t) :
                           after.made[after.instances[t]].deps[i] = InstanceOf(after, wants(t)[i].token)
                      /\ \A t, u \in makers : after.instances[t] = after.instances[u] => t = u
                      /\ \A n \in DOMAIN after.made : \E t \in makers : after.instances[t] = n
                      /\ \A i \in DOMAIN tokens : InstanceOf(after, tokens[i]) = 0 => Get(w, after, tokens[i]).thrown
  BY DEF ObjectsAreOne
<1>2. /\ IsOrderly(w, c, after)
      /\ \A i \in DOMAIN tokens : tokens[i] \in CanBeMade(w, c) => InstanceOf(after, tokens[i]) # 0
  BY <1>1, FreshInOrder, GetsAnswer
<1> HIDE DEF after
<1>3. \A t : wants(t) = Asks(w, c, t)
  BY DEF Asks
<1>4. Makers(c) \subseteq DOMAIN c.factories /\ makers = {t \in Makers(c) : after.instances[t] # 0} /\ held \ makers = {t \in DOMAIN c.factories \ Makers(c) : after.instances[t] # 0}
  BY DEF Makers
<1> HIDE DEF wants, held, makers
<1>5. \A t \in held \ makers : after.instances[t] = InstanceOf(after, wants(t)[1].token)
  BY <1>2, <1>3, <1>4 DEF IsOrderly
<1>6. \A t \in makers : \A i \in DOMAIN wants(t) :
        after.made[after.instances[t]].deps[i] = InstanceOf(after, wants(t)[i].token)
  BY <1>2, <1>3, <1>4 DEF IsOrderly
<1>6a. \A t \in makers : /\ after.made[after.instances[t]].of = c.factories[t].of
                         /\ DOMAIN after.made[after.instances[t]].deps = DOMAIN wants(t)
  BY <1>2, <1>3, <1>4 DEF IsOrderly
<1>7. \A t, u \in makers : after.instances[t] = after.instances[u] => t = u
  BY <1>2, <1>4 DEF IsOrderly
<1>8. \A n \in DOMAIN after.made : \E t \in makers : after.instances[t] = n
  <2>1. DOMAIN after.made = 1 .. Len(after.made)
    <3>1. after \in Becomes(c)
      BY <1>2 DEF IsOrderly
    <3>2. after.made \in Seq([of : {c.factories[t].of : t \in Makers(c)}, deps : Seq(Nat)])
      BY <3>1, BecomesFacts
    <3>3. QED
      BY <3>2
  <2>2. TAKE n \in DOMAIN after.made
  <2>3. PICK t \in Makers(c) : after.instances[t] = n
    BY <1>2, <2>1 DEF IsOrderly
  <2>4. n # 0
    BY <2>1
  <2>5. t \in makers
    BY <1>4, <2>3, <2>4
  <2>6. QED
    BY <2>3, <2>5
<1>9. \A i \in DOMAIN tokens : InstanceOf(after, tokens[i]) = 0 => Get(w, after, tokens[i]).thrown
  <2>1. SUFFICES ASSUME NEW i \in DOMAIN tokens, InstanceOf(after, tokens[i]) = 0 PROVE Get(w, after, tokens[i]).thrown
    OBVIOUS
  <2>2. tokens[i] \notin CanBeMade(w, c)
    BY <1>2, <2>1
  <2>3. Answers(w, c, after, tokens[i], Get(w, after, tokens[i]), DOMAIN c.factories)
    BY <1>1, <1>2, GetAnswers
  <2>4. QED
    BY <2>2, <2>3 DEF Answers
<1>10. QED
  BY <1>5, <1>6, <1>6a, <1>7, <1>8, <1>9

LEMMA FunctionIsList ==
  ASSUME NEW n \in Nat, NEW g, g = [i \in 1 .. n |-> g[i]]
  PROVE  IsList(g) /\ DOMAIN g = 1 .. n
<1> DEFINE S == {g[i] : i \in 1 .. n}
<1>1. g \in [1 .. n -> S]
  BY DEF S
<1> HIDE DEF S
<1>2. g \in Seq(S) /\ DOMAIN g = 1 .. n
  BY <1>1, IsASeq
<1>3. QED
  BY <1>2, SeqIsList

LEMMA OneIsList ==
  ASSUME NEW x
  PROVE  IsList(<<x>>) /\ Len(<<x>>) = 1 /\ <<x>>[1] = x
BY DEF IsList

LEMMA WantFields ==
  ASSUME NEW token, NEW caught
  PROVE  Want(token, caught).token = token /\ Want(token, caught).caught = caught
BY DEF Want

(* Whatever a factory asks for is a list; of an alias, one token. *)
LEMMA WantsListed ==
  ASSUME NEW w, IsWorld(w), NEW c, NEW f, IsList(f.inject)
  PROVE  /\ IsList(Wants(w, c, f))
         /\ f.use = "existing" => Len(Wants(w, c, f)) = 1 /\ ~Wants(w, c, f)[1].caught
<1> DEFINE params == Params(w, f.of)
           scanned == [i \in DOMAIN params |-> ScannerWant(w, params[i])]
           loaded == [i \in DOMAIN params |-> DynamicWant(c, f.scope, params[i])]
           injected == [i \in DOMAIN f.inject |-> Want(f.inject[i], f.by = "generated" /\ f.inject[i].name = NoName)]
           found == Want(DynamicWant(c, f.scope, f.of).token, FALSE)
           alias == Want(f.of, FALSE)
<1>1. Wants(w, c, f) = CASE f.use = "value" -> << >>
                           [] f.use = "class" /\ f.by = "scanner" -> scanned
                           [] f.use = "class" /\ f.by = "dynamic" -> loaded
                           [] f.use = "existing" /\ f.by = "dynamic" -> <<found>>
                           [] f.use = "existing" /\ f.by # "dynamic" -> <<alias>>
                           [] OTHER -> injected
  BY DEF Wants
<1>2. IsList(params)
  <2>1. IsList(<< >>)
    BY DEF IsList
  <2>2. QED
    BY <2>1 DEF Params, IsWorld
<1> DEFINE n == Len(params)
           k == Len(f.inject)
<1>3. n \in Nat /\ DOMAIN params = 1 .. n /\ k \in Nat /\ DOMAIN f.inject = 1 .. k
  BY <1>2, ListFacts
<1>4. ~found.caught /\ ~alias.caught
  BY WantFields, Zenon
<1> HIDE DEF params, found, alias
<1>5. IsList(scanned) /\ IsList(loaded)
  <2>1. scanned = [i \in 1 .. n |-> scanned[i]] /\ loaded = [i \in 1 .. n |-> loaded[i]]
    BY <1>3
  <2> HIDE DEF scanned, loaded, n
  <2>2. QED
    BY <1>3, <2>1, FunctionIsList
<1>6. IsList(injected)
  <2>1. injected = [i \in 1 .. k |-> injected[i]]
    BY <1>3
  <2> HIDE DEF injected, k
  <2>2. QED
    BY <1>3, <2>1, FunctionIsList
<1> DEFINE wants == Wants(w, c, f)
<1> HIDE DEF scanned, loaded, injected, n, k, wants
<1>7. CASE f.use = "existing" /\ f.by = "dynamic"
  <2>1. wants = <<found>>
    BY <1>1, <1>7 DEF wants
  <2>2. QED
    BY <1>4, <2>1, OneIsList DEF wants
<1>8. CASE f.use = "existing" /\ f.by # "dynamic"
  <2>1. wants = <<alias>>
    BY <1>1, <1>8 DEF wants
  <2>2. QED
    BY <1>4, <2>1, OneIsList DEF wants
<1>9. CASE f.use # "existing"
  <2>1. wants \in {<< >>, scanned, loaded, injected}
    BY <1>1, <1>9 DEF wants
  <2>2. IsList(<< >>)
    BY DEF IsList
  <2>3. QED
    BY <1>5, <1>6, <1>9, <2>1, <2>2 DEF wants
<1>10. QED
  BY <1>7, <1>8, <1>9

LEMMA ListedIsWired ==
  ASSUME NEW w, IsWorld(w), NEW c, \A t \in DOMAIN c.factories : IsList(c.factories[t].inject)
  PROVE  IsWired(w, c)
BY WantsListed DEF IsWired, Asks

LEMMA ScopedHold ==
  ASSUME StackLimit \in Nat, NEW w, IsWorld(w), NEW c, IsWired(w, c), IsFresh(c), NEW tokens, IsList(tokens)
  PROVE  ScopedIsInjected(w, c, tokens)
<1> DEFINE after == Gets(w, c, tokens)
<1>1. SUFFICES ASSUME Acyclic(w, c), NEW t \in DOMAIN c.factories, after.instances[t] # 0,
                      c.factories[t].use = "class", c.factories[t].by = "scanner",
                      NEW i \in DOMAIN Params(w, c.factories[t].of)
               PROVE  LET params == Params(w, c.factories[t].of)
                          deps == after.made[after.instances[t]].deps
                      IN /\ params[i] \in DOMAIN w.scoped => deps[i] = InstanceOf(after, w.scoped[params[i]])
                         /\ params[i].class /\ {params[i], Text(params[i].name)} \cap DOMAIN w.scoped = {}
                              /\ Text(params[i].name) \notin DOMAIN c.factories => deps[i] = 0
  BY DEF ScopedIsInjected
<1> DEFINE params == Params(w, c.factories[t].of)
           deps == after.made[after.instances[t]].deps
           param == params[i]
<1>2. IsOrderly(w, c, after)
  BY <1>1, FreshInOrder, GetsAnswer
<1> HIDE DEF after
<1>3. Wants(w, c, c.factories[t]) = [x \in DOMAIN params |-> ScannerWant(w, params[x])]
  BY <1>1 DEF Wants
<1>4. Asks(w, c, t)[i] = ScannerWant(w, param) /\ i \in DOMAIN Asks(w, c, t)
  BY <1>3 DEF Asks
<1>5. deps[i] = InstanceOf(after, Asks(w, c, t)[i].token)
  BY <1>1, <1>2, <1>4 DEF IsOrderly, Makers
<1>6. ASSUME param \in DOMAIN w.scoped PROVE deps[i] = InstanceOf(after, w.scoped[param])
  <2>1. ScannerWant(w, param) = [token |-> w.scoped[param], caught |-> TRUE]
    BY <1>6 DEF ScannerWant, Want
  <2>2. ScannerWant(w, param).token = w.scoped[param]
    BY <2>1
  <2>3. QED
    BY <1>4, <1>5, <2>2
<1>7. ASSUME param.class, {param, Text(param.name)} \cap DOMAIN w.scoped = {}, Text(param.name) \notin DOMAIN c.factories
      PROVE  deps[i] = 0
  <2>1. param = Class(param.name)
    <3>1. c.factories[t].of \in DOMAIN w.params /\ params = w.params[c.factories[t].of]
      BY DEF Params
    <3>2. QED
      BY <1>7, <3>1 DEF IsWorld
  <2>2. Key(param.scope, param.name) = Text(param.name)
    <3>1. param = [class |-> TRUE, scope |-> NoName, name |-> param.name]
      BY <2>1 DEF Class
    <3> HIDE DEF param
    <3>2. param.scope = NoName
      BY <3>1
    <3>3. QED
      BY <3>2 DEF Text, Key
  <2>3. param \notin DOMAIN w.scoped /\ Text(param.name) \notin DOMAIN w.scoped
    BY <1>7
  <2> HIDE DEF param
  <2>4. ScannerWant(w, param) = [token |-> Text(param.name), caught |-> TRUE]
    BY <2>2, <2>3 DEF ScannerWant, Want
  <2>5. ScannerWant(w, param).token = Text(param.name)
    BY <2>4
  <2>6. InstanceOf(after, Text(param.name)) = 0
    BY <1>2, <1>7, Instances
  <2>7. QED
    BY <1>4, <1>5, <2>5, <2>6
<1>8. QED
  BY <1>6, <1>7

-----------------------------------------------------------------------------
(* The container of an application, before anything is asked of it. *)
IsListed(c) == IsFresh(c) /\ \A t \in DOMAIN c.factories : IsList(c.factories[t].inject)

LEMMA SetFacts ==
  ASSUME NEW c, IsListed(c), NEW token, NEW factory, IsList(factory.inject)
  PROVE  /\ IsListed(Set(c, token, factory))
         /\ token \in DOMAIN Set(c, token, factory).factories
         /\ Set(c, token, factory).factories[token] = factory
         /\ \A t \in DOMAIN c.factories : t # token =>
              /\ t \in DOMAIN Set(c, token, factory).factories
              /\ Set(c, token, factory).factories[t] = c.factories[t]
<1> DEFINE r == Set(c, token, factory)
           g == With(c.factories, token, factory)
           h == IF token \in DOMAIN c.instances THEN c.instances ELSE With(c.instances, token, 0)
<1>1. c = [factories |-> c.factories, instances |-> c.instances, made |-> << >>]
      /\ c.instances \in [DOMAIN c.factories -> {0}]
  BY DEF IsListed, IsFresh
<1>2. DOMAIN g = DOMAIN c.factories \cup {token} /\ \A t \in DOMAIN g : g[t] = IF t = token THEN factory ELSE c.factories[t]
  BY DEF With
<1>3. h \in [DOMAIN g -> {0}]
  <2>1. DOMAIN c.instances = DOMAIN c.factories /\ \A t \in DOMAIN c.instances : c.instances[t] = 0
    BY <1>1
  <2>2. CASE token \in DOMAIN c.instances
    <3>1. DOMAIN g = DOMAIN c.factories
      BY <1>2, <2>1, <2>2
    <3>2. QED
      BY <1>1, <2>2, <3>1
  <2>3. CASE token \notin DOMAIN c.instances
    <3>1. h = [y \in DOMAIN g |-> IF y = token THEN 0 ELSE c.instances[y]]
      BY <1>2, <2>1, <2>3 DEF With
    <3> HIDE DEF h, g
    <3>2. \A y \in DOMAIN g : y # token => y \in DOMAIN c.instances
      BY <1>2, <2>1
    <3>3. QED
      BY <2>1, <3>1, <3>2
  <2>4. QED
    BY <2>2, <2>3
<1>4. c.made = << >>
  BY <1>1
<1>5. r = [factories |-> g, instances |-> h, made |-> << >>]
  BY <1>4 DEF Set
<1> HIDE DEF r, g, h
<1>6. r.factories = g /\ r.instances = h /\ r.made = << >>
  BY <1>5
<1>7. IsFresh(r)
  BY <1>3, <1>5, <1>6 DEF IsFresh
<1>8. \A t \in DOMAIN g : IsList(g[t].inject)
  BY <1>2 DEF IsListed
<1>9. QED
  BY <1>2, <1>6, <1>7, <1>8 DEF IsListed, r

LEMMA EmptyIsListed ==
  IsListed(EmptyContainer)
<1>1. EmptyContainer.factories = << >> /\ EmptyContainer.instances = << >> /\ EmptyContainer.made = << >>
  BY DEF EmptyContainer
<1>2. EmptyContainer = [factories |-> << >>, instances |-> << >>, made |-> << >>]
  BY DEF EmptyContainer
<1>3. DOMAIN << >> = {}
  OBVIOUS
<1>4. << >> \in [{} -> {0}]
  OBVIOUS
<1>5. QED
  BY <1>1, <1>2, <1>3, <1>4 DEF IsListed, IsFresh

LEMMA FactoryFields ==
  ASSUME NEW provider, NEW by, NEW scope
  PROVE  FactoryOf(provider, by, scope).inject = provider.inject
BY DEF FactoryOf

InjectLists(providers) == IsList(providers) /\ \A i \in DOMAIN providers : IsList(providers[i].inject)

(* Each provider's factory, unless a later one has its token. *)
Enlisted(c, providers, k, r) ==
  /\ IsListed(r)
  /\ \A i \in 1 .. k : (\A j \in 1 .. k : j > i => providers[j].token # providers[i].token) =>
       /\ providers[i].token \in DOMAIN r.factories
       /\ r.factories[providers[i].token] = FactoryOf(providers[i], "scanner", NoName)

LEMMA ProvidersFacts ==
  ASSUME NEW c, IsListed(c), NEW providers, InjectLists(providers)
  PROVE  Enlisted(c, providers, Len(providers), RegisterAll(c, providers))
<1> DEFINE n == Len(providers)
<1>1. n \in Nat /\ DOMAIN providers = 1 .. n
  BY ListFacts DEF InjectLists
<1> HIDE DEF n
<1>2. PICK tr : IsRun(tr, "providers", 0, c, providers, n) /\ RegisterAll(c, providers) = tr[n]
  BY <1>1, ProvidersRun
<1> DEFINE good == {k \in Nat : k <= n => Enlisted(c, providers, k, tr[k])}
<1>3. 0 \in good
  <2>1. tr[0] = c
    BY <1>2 DEF IsRun
  <2>2. QED
    BY <2>1 DEF Enlisted
<1>4. ASSUME NEW k \in Nat, k \in good PROVE k + 1 \in good
  <2>1. SUFFICES ASSUME k + 1 <= n PROVE Enlisted(c, providers, k + 1, tr[k + 1])
    OBVIOUS
  <2>2. k \in 0 .. n - 1 /\ k <= n /\ k + 1 \in DOMAIN providers
    BY <1>1, <2>1
  <2> DEFINE p == providers[k + 1]
             r == Set(tr[k], p.token, FactoryOf(p, "scanner", NoName))
  <2>3. tr[k + 1] = r
    <3>1. tr[k + 1] = Step("providers", 0, tr[k], p)
      BY <1>2, <2>2 DEF IsRun
    <3>2. QED
      BY <3>1 DEF Step, RegisterProvider
  <2>4. Enlisted(c, providers, k, tr[k])
    BY <1>4, <2>2
  <2>5. IsList(FactoryOf(p, "scanner", NoName).inject)
    BY <2>2, FactoryFields DEF InjectLists
  <2>6. /\ IsListed(r)
        /\ p.token \in DOMAIN r.factories /\ r.factories[p.token] = FactoryOf(p, "scanner", NoName)
        /\ \A t \in DOMAIN tr[k].factories : t # p.token => t \in DOMAIN r.factories /\ r.factories[t] = tr[k].factories[t]
    BY <2>4, <2>5, SetFacts DEF Enlisted
  <2> HIDE DEF r
  <2>7. ASSUME NEW i \in 1 .. k + 1, \A j \in 1 .. k + 1 : j > i => providers[j].token # providers[i].token
        PROVE  /\ providers[i].token \in DOMAIN r.factories
               /\ r.factories[providers[i].token] = FactoryOf(providers[i], "scanner", NoName)
    <3>1. CASE i = k + 1
      BY <2>6, <3>1
    <3>2. CASE i # k + 1
      <4>1. i \in 1 .. k /\ k + 1 > i /\ k + 1 \in 1 .. k + 1 /\ 1 .. k \subseteq 1 .. k + 1
        BY <3>2
      <4>2. p.token # providers[i].token
        BY <2>7, <4>1
      <4>3. /\ providers[i].token \in DOMAIN tr[k].factories
            /\ tr[k].factories[providers[i].token] = FactoryOf(providers[i], "scanner", NoName)
        BY <2>4, <2>7, <4>1 DEF Enlisted
      <4>4. QED
        BY <2>6, <4>2, <4>3
    <3>3. QED
      BY <3>1, <3>2
  <2>8. QED
    BY <2>3, <2>6, <2>7 DEF Enlisted
<1> HIDE DEF good
<1>5. n \in good
  BY <1>1, <1>3, <1>4, SetInduction
<1>6. QED
  BY <1>1, <1>2, <1>5 DEF good, n

LEMMA LoadedIsListed ==
  ASSUME NEW c, IsListed(c), NEW scope, NEW providers, InjectLists(providers)
  PROVE  IsListed(LoadDynamicModule(c, scope, providers))
<1> DEFINE n == Len(providers)
<1>1. n \in Nat /\ DOMAIN providers = 1 .. n
  BY ListFacts DEF InjectLists
<1> HIDE DEF n
<1>2. PICK tr : IsRun(tr, "dynamic", scope, c, providers, n) /\ LoadDynamicModule(c, scope, providers) = tr[n]
  BY <1>1, DynamicRun
<1> DEFINE good == {k \in Nat : k <= n => IsListed(tr[k])}
<1>3. 0 \in good
  BY <1>2 DEF IsRun
<1>4. ASSUME NEW k \in Nat, k \in good PROVE k + 1 \in good
  <2>1. SUFFICES ASSUME k + 1 <= n PROVE IsListed(tr[k + 1])
    OBVIOUS
  <2>2. k \in 0 .. n - 1 /\ k <= n /\ k + 1 \in DOMAIN providers
    BY <1>1, <2>1
  <2> DEFINE p == providers[k + 1]
  <2>3. tr[k + 1] = LoadProvider(tr[k], scope, p)
    <3>1. tr[k + 1] = Step("dynamic", scope, tr[k], p)
      BY <1>2, <2>2 DEF IsRun
    <3>2. QED
      BY <3>1 DEF Step
  <2>4. IsListed(tr[k])
    BY <1>4, <2>2
  <2>5. IsList(FactoryOf(p, "dynamic", scope).inject)
    BY <2>2, FactoryFields DEF InjectLists
  <2>6. IsListed(Set(tr[k], Key(scope, p.token.name), FactoryOf(p, "dynamic", scope)))
    BY <2>4, <2>5, SetFacts
  <2>7. QED
    BY <2>3, <2>4, <2>6 DEF LoadProvider
<1> HIDE DEF good
<1>5. n \in good
  BY <1>1, <1>3, <1>4, SetInduction
<1>6. QED
  BY <1>1, <1>2, <1>5 DEF good, n

(* The steps of a scan. *)
StepsOf(modules) == [module : DOMAIN modules, own : BOOLEAN]

LEMMA StepFields ==
  ASSUME NEW M, NEW m \in M, NEW own \in BOOLEAN
  PROVE  ScanStep(m, own) \in [module : M, own : BOOLEAN] /\ ScanStep(m, own).module = m /\ ScanStep(m, own).own = own
BY DEF ScanStep

LEMMA ScanFields ==
  ASSUME NEW modules, NEW steps \in Seq(StepsOf(modules)), NEW visited \in SUBSET DOMAIN modules,
         NEW s, s = [steps |-> steps, visited |-> visited]
  PROVE  s \in Scans(modules) /\ s.steps = steps /\ s.visited = visited
<1> DEFINE T == Seq(StepsOf(modules))
<1>1. Scans(modules) = [steps : T, visited : SUBSET DOMAIN modules]
  BY DEF Scans, StepsOf
<1> HIDE DEF T
<1>2. steps \in T
  BY DEF T
<1>3. QED
  BY <1>1, <1>2

LEMMA ScansMean ==
  ASSUME NEW modules, NEW s \in Scans(modules)
  PROVE  /\ s.steps \in Seq(StepsOf(modules)) /\ s.visited \in SUBSET DOMAIN modules
         /\ s = [steps |-> s.steps, visited |-> s.visited]
<1> DEFINE T == Seq(StepsOf(modules))
<1>1. Scans(modules) = [steps : T, visited : SUBSET DOMAIN modules]
  BY DEF Scans, StepsOf
<1> HIDE DEF T
<1>2. s.steps \in T /\ s.visited \in SUBSET DOMAIN modules /\ s = [steps |-> s.steps, visited |-> s.visited]
  BY <1>1
<1>3. QED
  BY <1>2 DEF T

ScansWell(modules, scanned) ==
  \A s \in Scans(modules), m \in DOMAIN modules : scanned[<<s, m>>] \in Scans(modules)

LEMMA ImportsScanned ==
  ASSUME NEW modules, NEW scanned, ScansWell(modules, scanned), NEW s \in Scans(modules),
         NEW imports, IsList(imports), \A i \in DOMAIN imports : imports[i] \in DOMAIN modules
  PROVE  ScanImports(scanned, s, imports) \in Scans(modules)
<1> DEFINE n == Len(imports)
<1>1. n \in Nat /\ DOMAIN imports = 1 .. n
  BY ListFacts
<1> HIDE DEF n
<1>2. PICK tr : IsRun(tr, "calls", scanned, s, imports, n) /\ ScanImports(scanned, s, imports) = tr[n]
  BY <1>1, ImportsRun
<1> DEFINE good == {k \in Nat : k <= n => tr[k] \in Scans(modules)}
<1>3. 0 \in good
  BY <1>2 DEF IsRun
<1>4. ASSUME NEW k \in Nat, k \in good PROVE k + 1 \in good
  <2>1. SUFFICES ASSUME k + 1 <= n PROVE tr[k + 1] \in Scans(modules)
    OBVIOUS
  <2>2. k \in 0 .. n - 1 /\ k <= n /\ k + 1 \in DOMAIN imports
    BY <1>1, <2>1
  <2>3. tr[k + 1] = scanned[<<tr[k], imports[k + 1]>>]
    <3>1. tr[k + 1] = Step("calls", scanned, tr[k], imports[k + 1])
      BY <1>2, <2>2 DEF IsRun
    <3>2. QED
      BY <3>1 DEF Step
  <2>4. tr[k] \in Scans(modules) /\ imports[k + 1] \in DOMAIN modules
    BY <1>4, <2>2
  <2>5. QED
    BY <2>3, <2>4 DEF ScansWell
<1> HIDE DEF good
<1>5. n \in good
  BY <1>1, <1>3, <1>4, SetInduction
<1>6. QED
  BY <1>1, <1>2, <1>5 DEF good

IsModule(modules, m) ==
  /\ m \in DOMAIN modules
  /\ modules[m].object \in BOOLEAN
  /\ IsList(modules[m].imports)
  /\ \A i \in DOMAIN modules[m].imports : modules[m].imports[i] \in DOMAIN modules

EndsWithOwn(modules, m, steps) ==
  \E before \in Seq(StepsOf(modules)) : steps = Append(before, ScanStep(m, TRUE))

(* A module that is a class registers its own providers at the end. *)
LEMMA ModuleScanned ==
  ASSUME NEW modules, NEW scanned, ScansWell(modules, scanned), NEW s \in Scans(modules), NEW m, IsModule(modules, m)
  PROVE  /\ ScanModule(modules, scanned, s, m) \in Scans(modules)
         /\ m \notin s.visited /\ ~modules[m].object => EndsWithOwn(modules, m, ScanModule(modules, scanned, s, m).steps)
<1>0. /\ m \in DOMAIN modules /\ modules[m].object \in BOOLEAN /\ IsList(modules[m].imports)
      /\ \A i \in DOMAIN modules[m].imports : modules[m].imports[i] \in DOMAIN modules
  BY DEF IsModule
<1> DEFINE object == modules[m].object
           begun == [steps |-> Append(s.steps, ScanStep(m, object)), visited |-> s.visited \cup {m}]
           imported == ScanImports(scanned, begun, modules[m].imports)
           r == ScanModule(modules, scanned, s, m)
<1>1. r = CASE m \in s.visited -> s
            [] m \notin s.visited /\ object -> imported
            [] OTHER -> [steps |-> Append(imported.steps, ScanStep(m, TRUE)), visited |-> imported.visited]
  BY DEF ScanModule
<1> HIDE DEF r
<1>2. ScanStep(m, object) \in StepsOf(modules) /\ ScanStep(m, TRUE) \in StepsOf(modules)
  BY <1>0, StepFields DEF StepsOf
<1>3. begun \in Scans(modules)
  <2> DEFINE steps == Append(s.steps, ScanStep(m, object))
  <2>1. steps \in Seq(StepsOf(modules)) /\ s.visited \cup {m} \in SUBSET DOMAIN modules
    <3>1. s.steps \in Seq(StepsOf(modules)) /\ s.visited \in SUBSET DOMAIN modules
      BY ScansMean
    <3> DEFINE step == ScanStep(m, object)
    <3> HIDE DEF step
    <3>2. Append(s.steps, step) \in Seq(StepsOf(modules))
      BY <1>2, <3>1, AppendProperties DEF step
    <3>3. QED
      BY <1>0, <3>1, <3>2 DEF step
  <2> DEFINE visited == s.visited \cup {m}
  <2>2. begun = [steps |-> steps, visited |-> visited] /\ visited \in SUBSET DOMAIN modules
    BY <2>1
  <2> HIDE DEF steps, visited, begun
  <2>3. QED
    BY <2>1, <2>2, ScanFields
<1> HIDE DEF begun
<1>4. imported \in Scans(modules)
  BY <1>0, <1>3, ImportsScanned
<1> DEFINE steps == Append(imported.steps, ScanStep(m, TRUE))
           last == [steps |-> steps, visited |-> imported.visited]
<1> HIDE DEF imported
<1>5. imported.steps \in Seq(StepsOf(modules)) /\ imported.visited \in SUBSET DOMAIN modules
      /\ imported = [steps |-> imported.steps, visited |-> imported.visited]
  BY <1>4, ScansMean
<1>6. last = [steps |-> Append(imported.steps, ScanStep(m, TRUE)), visited |-> imported.visited]
  OBVIOUS
<1>7. steps \in Seq(StepsOf(modules))
  BY <1>2, <1>5, AppendProperties
<1>8. last \in Scans(modules) /\ last.steps = steps
  <2> HIDE DEF steps
  <2>1. last = [steps |-> steps, visited |-> imported.visited]
    OBVIOUS
  <2> HIDE DEF last
  <2>2. QED
    BY <1>5, <1>7, <2>1, ScanFields
<1> HIDE DEF last, object
<1>9. r \in {s, imported, last} /\ (m \notin s.visited /\ ~object => r = last)
  BY <1>1, <1>6
<1>10. r \in Scans(modules)
  BY <1>4, <1>8, <1>9
<1>11. r = last => EndsWithOwn(modules, m, r.steps)
  BY <1>5, <1>8 DEF EndsWithOwn, steps
<1>12. QED
  BY <1>9, <1>10, <1>11 DEF r, object

LEMMA StepsFacts ==
  ASSUME NEW a, IsApplication(a)
  PROVE  /\ ScanSteps(a.modules, a.root) \in Seq(StepsOf(a.modules))
         /\ ~a.modules[a.root].object => EndsWithOwn(a.modules, a.root, ScanSteps(a.modules, a.root))
<1> DEFINE modules == a.modules
           n == Cardinality(DOMAIN modules)
           empty == [steps |-> << >>, visited |-> {}]
<1>1. n \in Nat /\ n # 0 /\ a.root \in DOMAIN modules
  BY FS_CardinalityType, FS_EmptySet DEF IsApplication
<1>2. \A m \in DOMAIN modules : IsModule(modules, m)
  BY DEF IsApplication, IsModule
<1> HIDE DEF modules
<1>3. PICK f : /\ IsTower(f, "scan", modules, n)
               /\ \A root : ScanSteps(modules, root) = f[n][<<empty, root>>].steps
  BY <1>1, ScanTower
<1> HIDE DEF n
<1>4. \A k \in 0 .. n : f[k] = ScanModules(modules, k, f[k - 1])
  <2>1. \A k, x : Level("scan", modules, k, x) = ScanModules(modules, k, x)
    BY DEF Level
  <2>2. QED
    BY <1>1, <1>3, <2>1, TowerLevels
<1>5. \A k \in 0 .. n, s \in Scans(modules), m \in DOMAIN modules :
        f[k][<<s, m>>] = IF k = 0 THEN s ELSE ScanModule(modules, f[k - 1], s, m)
  <2>1. TAKE k \in 0 .. n, s \in Scans(modules), m \in DOMAIN modules
  <2>2. <<s, m>> \in Scans(modules) \X DOMAIN modules /\ <<s, m>>[1] = s /\ <<s, m>>[2] = m
    OBVIOUS
  <2>3. QED
    BY <1>4, <2>2 DEF ScanModules
<1> DEFINE good == {k \in Nat : k <= n => ScansWell(modules, f[k])}
<1>6. 0 \in good
  BY <1>1, <1>5 DEF ScansWell
<1>7. ASSUME NEW k \in Nat, k \in good PROVE k + 1 \in good
  <2>1. SUFFICES ASSUME k + 1 <= n PROVE ScansWell(modules, f[k + 1])
    OBVIOUS
  <2>2. k + 1 \in 0 .. n /\ k + 1 # 0 /\ (k + 1) - 1 = k /\ k <= n
    BY <1>1, <2>1
  <2>3. ScansWell(modules, f[k])
    BY <1>7, <2>2
  <2>4. SUFFICES ASSUME NEW s \in Scans(modules), NEW m \in DOMAIN modules PROVE f[k + 1][<<s, m>>] \in Scans(modules)
    BY DEF ScansWell
  <2>5. f[k + 1][<<s, m>>] = ScanModule(modules, f[k], s, m)
    BY <1>5, <2>2
  <2>6. QED
    BY <1>2, <2>3, <2>5, ModuleScanned
<1> HIDE DEF good
<1>8. Nat \subseteq good
  BY <1>6, <1>7, SetInduction
<1>9. ScansWell(modules, f[n - 1])
  <2>1. n - 1 \in Nat /\ n - 1 <= n
    BY <1>1
  <2>2. QED
    BY <1>8, <2>1 DEF good
<1>10. empty \in Scans(modules) /\ empty.visited = {}
  <2>1. << >> \in Seq(StepsOf(modules)) /\ {} \in SUBSET DOMAIN modules
    OBVIOUS
  <2>2. empty = [steps |-> << >>, visited |-> {}]
    OBVIOUS
  <2> HIDE DEF empty
  <2>3. QED
    BY <2>1, <2>2, ScanFields
<1> HIDE DEF empty
<1> DEFINE r == ScanModule(modules, f[n - 1], empty, a.root)
<1>11. f[n][<<empty, a.root>>] = r
  BY <1>1, <1>5, <1>10
<1>12. r \in Scans(modules) /\ (~modules[a.root].object => EndsWithOwn(modules, a.root, r.steps))
  <2>1. IsModule(modules, a.root) /\ a.root \notin empty.visited
    BY <1>1, <1>2, <1>10
  <2>2. QED
    BY <1>9, <1>10, <2>1, ModuleScanned
<1> HIDE DEF r
<1>13. ScanSteps(modules, a.root) = r.steps
  BY <1>3, <1>11 DEF empty
<1>14. r.steps \in Seq(StepsOf(modules))
  BY <1>12, ScansMean
<1>15. QED
  BY <1>12, <1>13, <1>14 DEF modules

(* A step's providers are a module's own, then its controllers. *)
OwnFirst(modules, m, all) ==
  LET own == modules[m].providers
      controllers == modules[m].controllers
  IN /\ Len(all) = Len(own) + Len(controllers)
     /\ \A i \in 1 .. Len(own) : all[i] = own[i]
     /\ \A k \in 1 .. Len(controllers) : all[Len(own) + k] = Itself(controllers[k])

LEMMA OwnOfStep ==
  ASSUME NEW modules, NEW m \in DOMAIN modules, NEW step, step.module = m,
         InjectLists(modules[m].providers), IsList(modules[m].controllers)
  PROVE  /\ InjectLists(Providers(modules, step))
         /\ step.own => OwnFirst(modules, m, Providers(modules, step))
<1> DEFINE own == modules[m].providers
           controllers == modules[m].controllers
           themselves == [i \in DOMAIN controllers |-> Itself(controllers[i])]
           all == own \o themselves
<1>1. Providers(modules, step) = IF step.own THEN all ELSE <<Itself(m)>>
  BY DEF Providers
<1>2. \A class : Itself(class).inject = << >>
  BY DEF Itself
<1>3. IsList(<< >>)
  BY DEF IsList
<1>4. Len(controllers) \in Nat /\ DOMAIN controllers = 1 .. Len(controllers)
  BY ListFacts
<1>5. IsList(themselves) /\ DOMAIN themselves = 1 .. Len(controllers) /\ Len(themselves) = Len(controllers)
  <2> DEFINE n == Len(controllers)
  <2>1. themselves = [i \in 1 .. n |-> themselves[i]]
    BY <1>4
  <2> HIDE DEF themselves, n
  <2>2. n \in Nat
    BY <1>4 DEF n
  <2>3. IsList(themselves) /\ DOMAIN themselves = 1 .. n
    BY <2>1, <2>2, FunctionIsList
  <2>4. Len(themselves) \in Nat /\ DOMAIN themselves = 1 .. Len(themselves)
    BY <2>3, ListFacts
  <2>5. Len(themselves) = n
    BY <2>2, <2>3, <2>4
  <2>6. QED
    BY <2>3, <2>5 DEF n
<1>6. \A i \in 1 .. Len(controllers) : themselves[i] = Itself(controllers[i])
  BY <1>4
<1>7. IsList(own) /\ \A i \in DOMAIN own : IsList(own[i].inject)
  BY DEF InjectLists
<1> HIDE DEF own, controllers, themselves
<1>8. /\ IsList(all) /\ Len(all) = Len(own) + Len(themselves)
      /\ \A i \in 1 .. Len(own) : all[i] = own[i]
      /\ \A i \in 1 .. Len(themselves) : all[Len(own) + i] = themselves[i]
  <2>1. IsList(own) /\ IsList(themselves)
    BY <1>5, <1>7
  <2>2. IsList(all) /\ Len(all) = Len(own) + Len(themselves)
    BY <2>1, ListJoined
  <2>3. \A i \in 1 .. Len(own) : all[i] = own[i]
    BY <2>1, ListJoined
  <2>4. \A i \in 1 .. Len(themselves) : all[Len(own) + i] = themselves[i]
    BY <2>1, ListJoined
  <2>5. QED
    BY <2>2, <2>3, <2>4
<1> HIDE DEF all
<1>9. Len(own) \in Nat /\ DOMAIN own = 1 .. Len(own) /\ DOMAIN all = 1 .. Len(own) + Len(controllers)
  BY <1>5, <1>7, <1>8, ListFacts
<1>10. InjectLists(all)
  <2>1. ASSUME NEW i \in DOMAIN all PROVE IsList(all[i].inject)
    <3>1. CASE i \in 1 .. Len(own)
      BY <1>7, <1>8, <1>9, <3>1
    <3>2. CASE i \notin 1 .. Len(own)
      <4>1. PICK k \in 1 .. Len(controllers) : i = Len(own) + k
        <5>1. i - Len(own) \in 1 .. Len(controllers) /\ i = Len(own) + (i - Len(own))
          BY <1>4, <1>9, <3>2
        <5>2. QED
          BY <5>1
      <4>2. all[i] = Itself(controllers[k])
        BY <1>5, <1>6, <1>8, <4>1
      <4>3. QED
        BY <1>2, <1>3, <4>2
    <3>3. QED
      BY <3>1, <3>2
  <2>2. QED
    BY <1>8, <2>1 DEF InjectLists
<1>11. InjectLists(<<Itself(m)>>)
  <2>1. IsList(<<Itself(m)>>) /\ DOMAIN <<Itself(m)>> = 1 .. 1 /\ <<Itself(m)>>[1] = Itself(m)
    BY DEF IsList
  <2>2. QED
    BY <1>2, <1>3, <2>1 DEF InjectLists
<1>12. OwnFirst(modules, m, all)
  BY <1>5, <1>6, <1>8 DEF OwnFirst, own, controllers
<1>13. QED
  BY <1>1, <1>10, <1>11, <1>12

(* What has been registered before a step of a scan. *)
LEMMA ScanFacts ==
  ASSUME NEW modules, NEW steps \in Seq(StepsOf(modules)),
         \A m \in DOMAIN modules : InjectLists(modules[m].providers) /\ IsList(modules[m].controllers)
  PROVE  /\ IsListed(RegisterSteps(modules, steps))
         /\ Len(steps) # 0 => \E c : /\ IsListed(c)
                                     /\ RegisterSteps(modules, steps) = RegisterAll(c, Providers(modules, steps[Len(steps)]))
<1> DEFINE n == Len(steps)
<1>1. n \in Nat /\ DOMAIN steps = 1 .. n /\ \A i \in 1 .. n : steps[i] \in StepsOf(modules)
  BY LenProperties, ElementOfSeq
<1> HIDE DEF n
<1>2. PICK tr : IsRun(tr, "steps", modules, EmptyContainer, steps, n) /\ RegisterSteps(modules, steps) = tr[n]
  BY <1>1, StepsRun
<1>3. \A k \in 0 .. n - 1 : tr[k + 1] = RegisterAll(tr[k], Providers(modules, steps[k + 1]))
  <2>1. TAKE k \in 0 .. n - 1
  <2>2. tr[k + 1] = Step("steps", modules, tr[k], steps[k + 1])
    BY <1>2 DEF IsRun
  <2>3. QED
    BY <2>2 DEF Step
<1> DEFINE good == {k \in Nat : k <= n => IsListed(tr[k])}
<1>4. 0 \in good
  BY <1>2, EmptyIsListed DEF IsRun
<1>5. ASSUME NEW k \in Nat, k \in good PROVE k + 1 \in good
  <2>1. SUFFICES ASSUME k + 1 <= n PROVE IsListed(tr[k + 1])
    OBVIOUS
  <2>2. k \in 0 .. n - 1 /\ k <= n /\ k + 1 \in 1 .. n
    BY <1>1, <2>1
  <2> DEFINE step == steps[k + 1]
             providers == Providers(modules, step)
  <2>3. step.module \in DOMAIN modules
    BY <1>1, <2>2 DEF StepsOf
  <2> HIDE DEF step
  <2>4. InjectLists(providers)
    BY <2>3, OwnOfStep
  <2>5. IsListed(tr[k])
    BY <1>5, <2>2
  <2> HIDE DEF providers
  <2>6. IsListed(RegisterAll(tr[k], providers))
    BY <2>4, <2>5, ProvidersFacts DEF Enlisted
  <2>7. QED
    BY <1>3, <2>2, <2>6 DEF providers, step
<1> HIDE DEF good
<1>6. Nat \subseteq good
  BY <1>4, <1>5, SetInduction
<1>7. IsListed(tr[n])
  BY <1>1, <1>6 DEF good
<1>8. n # 0 => IsListed(tr[n - 1]) /\ tr[n] = RegisterAll(tr[n - 1], Providers(modules, steps[n]))
  <2>1. SUFFICES ASSUME n # 0 PROVE IsListed(tr[n - 1]) /\ tr[n] = RegisterAll(tr[n - 1], Providers(modules, steps[n]))
    OBVIOUS
  <2>2. n - 1 \in Nat /\ n - 1 <= n /\ n - 1 \in 0 .. n - 1 /\ (n - 1) + 1 = n
    BY <1>1, <2>1
  <2>3. IsListed(tr[n - 1])
    BY <1>6, <2>2 DEF good
  <2>4. QED
    BY <1>3, <2>2, <2>3
<1>9. QED
  BY <1>2, <1>7, <1>8 DEF n

LEMMA OwnWins ==
  ASSUME NEW a, IsApplication(a)
  PROVE  OwnProviderWins(a.modules, a.root)
<1> DEFINE modules == a.modules
           root == a.root
           own == modules[root].providers
           controllers == modules[root].controllers
           all == Providers(modules, ScanStep(root, TRUE))
           c == Scan(modules, root)
<1>1. SUFFICES ASSUME ~modules[root].object, NEW i \in DOMAIN own,
                      \A j \in DOMAIN own : own[j].token = own[i].token => j <= i,
                      \A k \in DOMAIN controllers : Class(controllers[k]) # own[i].token
               PROVE  c.factories[own[i].token] = FactoryOf(own[i], "scanner", NoName)
  <2>1. root \in DOMAIN modules
    BY DEF IsApplication
  <2>2. QED
    BY <2>1 DEF OwnProviderWins
<1>2. root \in DOMAIN modules
      /\ \A m \in DOMAIN modules : InjectLists(modules[m].providers) /\ IsList(modules[m].controllers)
  BY DEF IsApplication, IsProvider, InjectLists
<1>3. PICK before \in Seq(StepsOf(modules)) : ScanSteps(modules, root) = Append(before, ScanStep(root, TRUE))
  BY <1>1, StepsFacts DEF EndsWithOwn
<1> DEFINE step == ScanStep(root, TRUE)
           steps == ScanSteps(modules, root)
<1>4. step \in StepsOf(modules) /\ step.module = root /\ step.own
  BY <1>2, StepFields DEF StepsOf
<1> HIDE DEF step
<1>5. steps \in Seq(StepsOf(modules)) /\ Len(steps) # 0 /\ steps[Len(steps)] = step
  <2>1. steps = Append(before, step)
    BY <1>3 DEF step
  <2> HIDE DEF steps
  <2>2. Len(before) \in Nat /\ steps \in Seq(StepsOf(modules)) /\ Len(steps) = Len(before) + 1
        /\ steps[Len(before) + 1] = step
    BY <1>4, <2>1, LenProperties, AppendProperties
  <2>3. QED
    BY <2>2
<1>6. c = RegisterSteps(modules, steps)
  BY DEF Scan
<1> HIDE DEF steps, c, modules, root
<1>7. PICK b : IsListed(b) /\ c = RegisterAll(b, Providers(modules, step))
  BY <1>2, <1>5, <1>6, ScanFacts
<1> DEFINE providers == Providers(modules, step)
           n == Len(own)
           k == Len(controllers)
<1>8. /\ InjectLists(providers) /\ Len(providers) = n + k
      /\ \A j \in 1 .. n : providers[j] = own[j]
      /\ \A j \in 1 .. k : providers[n + j] = Itself(controllers[j])
  <2>1. InjectLists(providers) /\ OwnFirst(modules, root, providers)
    BY <1>2, <1>4, OwnOfStep
  <2>2. QED
    BY <2>1 DEF OwnFirst
<1> HIDE DEF providers
<1>9. Enlisted(b, providers, Len(providers), c)
  BY <1>7, <1>8, ProvidersFacts DEF providers
<1>10. n \in Nat /\ DOMAIN own = 1 .. n /\ k \in Nat /\ DOMAIN controllers = 1 .. k
  <2>1. IsList(own) /\ IsList(controllers)
    BY <1>2 DEF InjectLists
  <2>2. QED
    BY <2>1, ListFacts
<1>11. \A class : Itself(class).token = Class(class)
  BY DEF Itself
<1> HIDE DEF own, controllers, n, k
<1>12. ASSUME NEW j \in 1 .. n + k, j > i PROVE providers[j].token # providers[i].token
  <2>1. i \in 1 .. n /\ providers[i] = own[i]
    BY <1>8, <1>10
  <2>2. CASE j \in 1 .. n
    <3>1. providers[j] = own[j] /\ j \in DOMAIN own
      BY <1>8, <1>10, <2>2
    <3>2. ~(j <= i)
      BY <1>10, <1>12, <2>1
    <3>3. own[j].token # own[i].token
      BY <1>1, <3>1, <3>2
    <3>4. QED
      BY <2>1, <3>1, <3>3
  <2>3. CASE j \notin 1 .. n
    <3>1. j - n \in 1 .. k /\ j = n + (j - n)
      BY <1>10, <1>12, <2>3
    <3>2. providers[j] = Itself(controllers[j - n])
      BY <1>8, <3>1
    <3>3. Class(controllers[j - n]) # own[i].token
      BY <1>1, <1>10, <3>1
    <3>4. QED
      BY <1>11, <2>1, <3>2, <3>3
  <2>4. QED
    BY <2>2, <2>3
<1>13. i \in 1 .. n + k /\ providers[i] = own[i]
  BY <1>8, <1>10
<1>14. c.factories[providers[i].token] = FactoryOf(providers[i], "scanner", NoName)
  BY <1>8, <1>9, <1>12, <1>13 DEF Enlisted
<1>15. QED
  BY <1>13, <1>14 DEF own

LEMMA ContainerIsListed ==
  ASSUME NEW a, IsApplication(a)
  PROVE  IsListed(ContainerOf(a))
<1> DEFINE steps == ScanSteps(a.modules, a.root)
<1>1. \A m \in DOMAIN a.modules : InjectLists(a.modules[m].providers) /\ IsList(a.modules[m].controllers)
  BY DEF IsApplication, IsProvider, InjectLists
<1>2. steps \in Seq(StepsOf(a.modules))
  BY StepsFacts
<1> HIDE DEF steps
<1>3. IsListed(RegisterSteps(a.modules, steps))
  BY <1>1, <1>2, ScanFacts
<1>4. IsListed(Scan(a.modules, a.root))
  BY <1>3 DEF Scan, steps
<1>5. InjectLists(a.dynamic)
  BY DEF IsApplication, IsProvider, InjectLists
<1>6. QED
  BY <1>4, <1>5, LoadedIsListed DEF ContainerOf

(* The container is right for all applications, all worlds and all tokens    *)
(* asked for: no object is made twice, each is given the instances of what   *)
(* it asks for, and a module's own provider is the one that is used.         *)
THEOREM SingletonsCorrect == SampleSpec => []SingletonsAreOne
<1>1. SampleInv => SingletonsAreOne
  <2> DEFINE c == ContainerOf(It.application)
  <2> SUFFICES ASSUME SampleInv, Of("container")
               PROVE  /\ ObjectsAreOne(It.w, c, It.tokens)
                      /\ ScopedIsInjected(It.w, c, It.tokens)
                      /\ OwnProviderWins(It.application.modules, It.application.root)
    BY DEF SingletonsAreOne
  <2>1. StackLimit \in Nat /\ IsApplication(It.application) /\ IsWorld(It.w) /\ IsList(It.tokens)
    BY ContainerAssumption DEF SampleInv, Of, It, NoSample
  <2>2. IsListed(c)
    BY <2>1, ContainerIsListed
  <2> HIDE DEF c
  <2>3. IsFresh(c) /\ IsWired(It.w, c)
    BY <2>1, <2>2, ListedIsWired DEF IsListed
  <2>4. ObjectsAreOne(It.w, c, It.tokens) /\ ScopedIsInjected(It.w, c, It.tokens)
    BY <2>1, <2>3, SingletonsHold, ScopedHold
  <2>5. OwnProviderWins(It.application.modules, It.application.root)
    BY <2>1, OwnWins
  <2>6. QED
    BY <2>4, <2>5
<1>2. QED
  BY <1>1, SampleTaken, PTL

-----------------------------------------------------------------------------
(* The numbers of a finite set in their order are all its members. *)
LEMMA InOrderFacts ==
  ASSUME NEW S, IsFiniteSet(S), S \subseteq Nat
  PROVE  \E n \in Nat : DOMAIN InOrder(S) = 1 .. n /\ S = {InOrder(S)[i] : i \in 1 .. n}
<1> DEFINE n == Cardinality(S)
           upTo(f) == {g \in S : g <= f}
           rank == [f \in S |-> Cardinality(upTo(f))]
<1>1. n \in Nat /\ DOMAIN InOrder(S) = 1 .. n
  BY FS_CardinalityType DEF InOrder
<1>2. ASSUME NEW f \in S PROVE IsFiniteSet(upTo(f)) /\ Cardinality(upTo(f)) \in 1 .. n
  <2>1. upTo(f) \in SUBSET S /\ f \in upTo(f)
    OBVIOUS
  <2> HIDE DEF upTo
  <2>2. IsFiniteSet(upTo(f)) /\ Cardinality(upTo(f)) <= n
    BY <2>1, FS_Subset
  <2>3. Cardinality(upTo(f)) \in Nat /\ Cardinality(upTo(f)) # 0
    BY <2>1, <2>2, FS_CardinalityType, FS_EmptySet
  <2>4. QED
    BY <1>1, <2>2, <2>3
<1>3. ASSUME NEW f \in S, NEW g \in S, f < g PROVE Cardinality(upTo(f)) < Cardinality(upTo(g))
  <2>1. f \in Nat /\ g \in Nat /\ \A x \in S : x \in Nat
    OBVIOUS
  <2>2. \A x \in upTo(f) : x \in upTo(g)
    BY <1>3, <2>1
  <2>3. g \in upTo(g) /\ g \notin upTo(f)
    BY <1>3, <2>1
  <2> HIDE DEF upTo
  <2>4. IsFiniteSet(upTo(g)) /\ upTo(f) \in SUBSET upTo(g) /\ upTo(f) # upTo(g)
    BY <1>2, <2>2, <2>3
  <2>5. /\ Cardinality(upTo(f)) <= Cardinality(upTo(g))
        /\ Cardinality(upTo(f)) = Cardinality(upTo(g)) => upTo(f) = upTo(g)
    BY <2>4, FS_Subset
  <2>6. Cardinality(upTo(f)) \in Nat /\ Cardinality(upTo(g)) \in Nat
    BY <1>2, FS_CardinalityType
  <2>7. QED
    BY <2>4, <2>5, <2>6
<1>4. rank \in Injection(S, 1 .. n)
  <2>1. rank \in [S -> 1 .. n]
    BY <1>2
  <2>2. ASSUME NEW f \in S, NEW g \in S, rank[f] = rank[g] PROVE f = g
    <3>1. f \in Nat /\ g \in Nat /\ Cardinality(upTo(f)) \in Nat /\ Cardinality(upTo(f)) = Cardinality(upTo(g))
      BY <1>2, <2>2
    <3> HIDE DEF upTo
    <3>2. QED
      BY <1>3, <3>1
  <2>3. QED
    BY <2>1, <2>2 DEF Injection, IsInjective
<1>5. \A i \in 1 .. n : \E f \in S : rank[f] = i
  <2>1. IsFiniteSet(1 .. n) /\ Cardinality(1 .. n) = n
    BY <1>1, FS_Interval
  <2>2. rank \in Surjection(S, 1 .. n)
    BY <2>1, <1>4, FS_Injection
  <2>3. QED
    BY <2>2 DEF Surjection
<1>6. \A f \in S : rank[f] = Cardinality({g \in S : g <= f})
  OBVIOUS
<1>7. \A f, g \in S : rank[f] = rank[g] => f = g
  BY <1>4 DEF Injection, IsInjective
<1>8. \A f \in S : rank[f] \in 1 .. n
  BY <1>2
<1>9. \A i \in 1 .. n : InOrder(S)[i] = CHOOSE f \in S : Cardinality({g \in S : g <= f}) = i
  BY <1>1 DEF InOrder
<1> HIDE DEF rank, n
<1>10. ASSUME NEW i \in 1 .. n PROVE InOrder(S)[i] \in S /\ rank[InOrder(S)[i]] = i
  <2>1. \E f \in S : Cardinality({g \in S : g <= f}) = i
    BY <1>5, <1>6
  <2>2. InOrder(S)[i] \in S /\ Cardinality({g \in S : g <= InOrder(S)[i]}) = i
    BY <1>9, <2>1
  <2>3. QED
    BY <1>6, <2>2
<1>11. \A f \in S : InOrder(S)[rank[f]] = f
  BY <1>7, <1>8, <1>10
<1>12. QED
  BY <1>1, <1>8, <1>10, <1>11

-----------------------------------------------------------------------------
(* FilesHaveNearestModule *)
IsPath(tr, dir, n) == tr[0] = 0 /\ \A k \in 0 .. n - 1 : tr[k + 1] = tr[k] + 1 + LengthOf[dir[k + 1]]

LEMMA PathRuns ==
  ASSUME NEW p, NEW f, HasPath(p[f].dir)
  PROVE  \E tr : IsPath(tr, p[f].dir, Len(p[f].dir)) /\ PathLength(p, f) = tr[Len(p[f].dir)]
<1> DEFINE dir == p[f].dir
           n == Len(dir)
           P(it) == it = [u \in SUBSET (1 .. n) |-> IF u = {} THEN 0 ELSE it[u \ {Max(u)}] + 1 + LengthOf[dir[Max(u)]]]
           it == CHOOSE it : P(it)
<1>1. n \in Nat /\ DOMAIN dir = 1 .. n
  BY ListFacts DEF HasPath
<1>2. PathLength(p, f) = it[1 .. n]
  BY <1>1 DEF PathLength, FoldLeft, MapThenFoldSet
<1> HIDE DEF n
<1>3. \A x : P(x) <=> IsFold(x, "path", 0, 0, dir, n)
  BY DEF IsFold, Step
<1>4. P(it)
  BY <1>1, <1>3, FoldExists
<1>5. IsFold(it, "path", 0, 0, dir, n)
  BY <1>3, <1>4
<1> HIDE DEF it
<1> DEFINE tr == [k \in 0 .. n |-> it[1 .. k]]
<1>6. IsRun(tr, "path", 0, 0, dir, n)
  BY <1>1, <1>5, FoldRuns
<1>7. tr[n] = it[1 .. n]
  BY <1>1
<1> HIDE DEF tr, dir
<1>8. IsPath(tr, dir, n)
  BY <1>6 DEF IsRun, IsPath, Step
<1>9. QED
  BY <1>2, <1>7, <1>8 DEF n, dir

LEMMA PathGrows ==
  ASSUME NEW dir, HasPath(dir), NEW n \in Nat, n = Len(dir), NEW tr, IsPath(tr, dir, n)
  PROVE  \A j \in 0 .. n : tr[j] \in Nat /\ \A i \in 0 .. j : tr[i] \in Nat /\ (i < j => tr[i] < tr[j])
<1> DEFINE P(j) == tr[j] \in Nat /\ \A i \in 0 .. j : tr[i] \in Nat /\ (i < j => tr[i] < tr[j])
           good == {j \in Nat : j <= n => P(j)}
<1>1. 0 \in good
  BY DEF IsPath
<1>2. ASSUME NEW j \in Nat, j \in good PROVE j + 1 \in good
  <2>1. SUFFICES ASSUME j + 1 <= n PROVE P(j + 1)
    OBVIOUS
  <2>2. j \in 0 .. n - 1 /\ j + 1 \in DOMAIN dir /\ j <= n
    BY <2>1, ListFacts DEF HasPath
  <2>3. P(j) /\ tr[j + 1] = tr[j] + 1 + LengthOf[dir[j + 1]] /\ LengthOf[dir[j + 1]] \in Nat
    BY <1>2, <2>2 DEF IsPath, HasPath
  <2>4. tr[j + 1] \in Nat /\ tr[j] < tr[j + 1]
    BY <2>3
  <2>5. ASSUME NEW i \in 0 .. j + 1 PROVE tr[i] \in Nat /\ (i < j + 1 => tr[i] < tr[j + 1])
    <3>1. CASE i = j + 1
      BY <2>4, <3>1
    <3>2. CASE i = j
      BY <2>3, <2>4, <3>2
    <3>3. CASE i \notin {j, j + 1}
      <4>1. i \in 0 .. j /\ i < j
        BY <3>3
      <4>2. tr[i] < tr[j] /\ tr[i] \in Nat
        BY <2>3, <4>1
      <4>3. QED
        BY <2>3, <2>4, <4>2
    <3>4. QED
      BY <3>1, <3>2, <3>3
  <2>6. QED
    BY <2>4, <2>5
<1> HIDE DEF P
<1>3. ASSUME NEW j \in 0 .. n PROVE P(j)
  <2> HIDE DEF good
  <2>1. Nat \subseteq good
    BY <1>1, <1>2, SetInduction
  <2>2. QED
    BY <2>1 DEF good
<1>4. QED
  BY <1>3 DEF P

LEMMA PrefixMeans ==
  ASSUME NEW s, NEW t, IsList(s), IsList(t), IsPrefix(s, t)
  PROVE  Len(s) <= Len(t) /\ \A i \in 1 .. Len(s) : s[i] = t[i]
<1> DEFINE S == {s[i] : i \in DOMAIN s} \cup {t[i] : i \in DOMAIN t}
           n == Len(s)
<1>1. n \in Nat /\ Len(t) \in Nat /\ DOMAIN s = 1 .. n /\ DOMAIN t = 1 .. Len(t)
  BY ListFacts
<1>2. n <= Len(t) /\ SubSeq(s, 1, n) = SubSeq(t, 1, n)
  BY DEF IsPrefix
<1>3. (\A i \in 1 .. n : s[i] \in S) /\ \A i \in 1 .. n : t[i] \in S
  BY <1>1, <1>2
<1> HIDE DEF S, n
<1>4. ASSUME NEW i \in 1 .. n PROVE s[i] = t[i]
  <2>1. 1 \in Int /\ n \in Int /\ i \in 1 .. n - 1 + 1 /\ 1 + i - 1 = i
    BY <1>1
  <2>2. SubSeq(s, 1, n)[i] = s[1 + i - 1]
    BY <1>3, <2>1, SubSeqProperties
  <2>3. SubSeq(t, 1, n)[i] = t[1 + i - 1]
    BY <1>3, <2>1, SubSeqProperties
  <2>4. QED
    BY <1>2, <2>1, <2>2, <2>3
<1>5. QED
  BY <1>2, <1>4 DEF n

LEMMA PathOfPrefix ==
  ASSUME NEW p, NEW m, NEW f, HasPath(p[m].dir), HasPath(p[f].dir), IsPrefix(p[m].dir, p[f].dir),
         NEW tr, IsPath(tr, p[f].dir, Len(p[f].dir))
  PROVE  Len(p[m].dir) \in 0 .. Len(p[f].dir) /\ PathLength(p, m) = tr[Len(p[m].dir)]
<1> DEFINE inner == p[m].dir
           outer == p[f].dir
           n == Len(inner)
<1>1. /\ n \in Nat /\ Len(outer) \in Nat /\ n <= Len(outer)
      /\ \A i \in 1 .. n : inner[i] = outer[i]
  BY ListFacts, PrefixMeans DEF HasPath
<1>2. PICK u : IsPath(u, inner, n) /\ PathLength(p, m) = u[n]
  BY PathRuns
<1> DEFINE good == {k \in Nat : k <= n => u[k] = tr[k]}
<1>3. 0 \in good
  BY <1>2 DEF IsPath
<1> HIDE DEF n, inner, outer
<1>4. ASSUME NEW k \in Nat, k \in good PROVE k + 1 \in good
  <2>1. SUFFICES ASSUME k + 1 <= n PROVE u[k + 1] = tr[k + 1]
    OBVIOUS
  <2>2. k \in 0 .. n - 1 /\ k \in 0 .. Len(outer) - 1 /\ k + 1 \in 1 .. n /\ k <= n
    BY <1>1, <2>1
  <2>3. u[k] = tr[k] /\ inner[k + 1] = outer[k + 1]
    BY <1>1, <1>4, <2>2
  <2>4. u[k + 1] = u[k] + 1 + LengthOf[inner[k + 1]]
    BY <1>2, <2>2 DEF IsPath
  <2>5. tr[k + 1] = tr[k] + 1 + LengthOf[outer[k + 1]]
    BY <2>2 DEF IsPath, outer
  <2>6. QED
    BY <2>3, <2>4, <2>5
<1> HIDE DEF good
<1>5. n \in good
  BY <1>1, <1>3, <1>4, SetInduction
<1>6. QED
  BY <1>1, <1>2, <1>5 DEF good, n, inner, outer

(* A path that is longer is of more names, among the directories around a    *)
(* file.                                                                     *)
LEMMA AroundFacts ==
  ASSUME NEW p, \A x \in DOMAIN p : HasPath(p[x].dir), NEW f \in DOMAIN p
  PROVE  /\ \A m \in Around(p, f) : m \in DOMAIN p /\ PathLength(p, m) \in Nat /\ PathLength(p, m) <= PathLength(p, f)
         /\ PathLength(p, f) \in Nat
         /\ \A m, x \in Around(p, f) : PathLength(p, x) <= PathLength(p, m) => Len(p[x].dir) <= Len(p[m].dir)
<1> DEFINE n == Len(p[f].dir)
<1>1. PICK tr : IsPath(tr, p[f].dir, n) /\ PathLength(p, f) = tr[n]
  BY PathRuns
<1>2. n \in Nat
  BY ListFacts DEF HasPath
<1>3. \A j \in 0 .. n : tr[j] \in Nat /\ \A i \in 0 .. j : tr[i] \in Nat /\ (i < j => tr[i] < tr[j])
  BY <1>1, <1>2, PathGrows
<1>4. ASSUME NEW m \in Around(p, f)
      PROVE  m \in DOMAIN p /\ Len(p[m].dir) \in 0 .. n /\ PathLength(p, m) = tr[Len(p[m].dir)]
  BY <1>1, <1>4, PathOfPrefix DEF Around, ModuleFiles
<1> HIDE DEF n
<1>5. ASSUME NEW m \in Around(p, f) PROVE PathLength(p, m) \in Nat /\ PathLength(p, m) <= PathLength(p, f)
  <2>1. n \in 0 .. n
    BY <1>2
  <2>2. CASE Len(p[m].dir) = n
    BY <1>1, <1>3, <1>4, <2>1, <2>2
  <2>3. CASE Len(p[m].dir) # n
    <3>1. Len(p[m].dir) < n
      BY <1>2, <1>4, <2>3
    <3>2. QED
      BY <1>1, <1>3, <1>4, <2>1, <3>1
  <2>4. QED
    BY <2>2, <2>3
<1>6. ASSUME NEW m \in Around(p, f), NEW x \in Around(p, f), PathLength(p, x) <= PathLength(p, m)
      PROVE  Len(p[x].dir) <= Len(p[m].dir)
  <2>1. SUFFICES ASSUME Len(p[m].dir) < Len(p[x].dir) PROVE FALSE
    BY <1>2, <1>4
  <2>2. Len(p[m].dir) \in 0 .. Len(p[x].dir)
    BY <1>4, <2>1
  <2>3. PathLength(p, m) < PathLength(p, x)
    BY <1>3, <1>4, <2>1, <2>2
  <2>4. QED
    BY <1>5, <1>6, <2>3
<1>7. PathLength(p, f) \in Nat
  BY <1>1, <1>2, <1>3
<1>8. QED
  BY <1>4, <1>5, <1>6, <1>7

LEMMA LeastOf ==
  ASSUME NEW S, S \subseteq Nat, S # {}
  PROVE  \E n \in S : \A m \in S : n <= m
<1>1. PICK n \in S : \A m \in S : ~(<<m, n>> \in OpToRel(<, Nat))
  BY NatLessThanWellFounded, WFMin
<1>2. ASSUME NEW m \in S PROVE n <= m
  <2>1. n \in Nat /\ m \in Nat
    OBVIOUS
  <2>2. ~(m < n)
    BY <1>1, <2>1 DEF OpToRel
  <2>3. QED
    BY <2>1, <2>2
<1>3. QED
  BY <1>2

LEMMA GreatestOf ==
  ASSUME NEW S, S \subseteq Nat, S # {}, IsFiniteSet(S)
  PROVE  \E n \in S : \A m \in S : m <= n
<1> DEFINE above(n) == {m \in S : n <= m}
           sizes == {Cardinality(above(n)) : n \in S}
<1>1. ASSUME NEW n \in S PROVE IsFiniteSet(above(n)) /\ Cardinality(above(n)) \in Nat
  <2>1. above(n) \subseteq S
    OBVIOUS
  <2> HIDE DEF above
  <2>2. QED
    BY <2>1, FS_Subset, FS_CardinalityType
<1>2. sizes \subseteq Nat /\ sizes # {}
  <2> HIDE DEF above
  <2>1. QED
    BY <1>1
<1>3. PICK l \in sizes : \A k \in sizes : l <= k
  <2> HIDE DEF sizes
  <2>1. QED
    BY <1>2, LeastOf
<1>4. PICK n \in S : \A m \in S : Cardinality(above(n)) <= Cardinality(above(m))
  <2> HIDE DEF above
  <2>1. QED
    BY <1>3
<1>5. ASSUME NEW m \in S, n < m PROVE FALSE
  <2>1. n \in Nat /\ m \in Nat /\ \A x \in S : x \in Nat
    OBVIOUS
  <2>2. \A x \in above(m) : x \in above(n)
    BY <1>5, <2>1
  <2>3. n \in above(n) /\ n \notin above(m)
    BY <1>5, <2>1
  <2> HIDE DEF above
  <2>4. IsFiniteSet(above(n)) /\ above(m) \in SUBSET above(n) /\ above(m) # above(n)
    BY <1>1, <2>2, <2>3
  <2>5. /\ Cardinality(above(m)) <= Cardinality(above(n))
        /\ Cardinality(above(m)) = Cardinality(above(n)) => above(m) = above(n)
    BY <2>4, FS_Subset
  <2>6. Cardinality(above(m)) \in Nat /\ Cardinality(above(n)) \in Nat
    BY <1>1
  <2>7. QED
    BY <1>4, <2>4, <2>5, <2>6
<1>6. QED
  BY <1>5

(* Of the modules around a file there is one that is met first. *)
LEMMA FirstMet ==
  ASSUME NEW p, \A x \in DOMAIN p : HasPath(p[x].dir), DOMAIN p \subseteq Nat, NEW f \in DOMAIN p, Around(p, f) # {}
  PROVE  \E m \in Around(p, f) : \A x \in Around(p, f) \ {m} : MetBefore(p, m, x)
<1> DEFINE around == Around(p, f)
           path(m) == PathLength(p, m)
<1>1. /\ \A m \in around : m \in Nat /\ path(m) \in Nat /\ path(m) <= path(f)
      /\ path(f) \in Nat /\ around # {}
  BY AroundFacts
<1> HIDE DEF around, path
<1> DEFINE lefts == {path(f) - path(m) : m \in around}
<1>2. lefts \subseteq Nat /\ lefts # {}
  BY <1>1
<1>3. PICK l \in lefts : \A k \in lefts : l <= k
  BY <1>2, LeastOf
<1> DEFINE longest == {m \in around : path(f) - path(m) = l}
<1>4. longest \subseteq Nat /\ longest # {}
  BY <1>1, <1>3
<1>5. PICK m \in longest : \A x \in longest : m <= x
  BY <1>4, LeastOf
<1>6. ASSUME NEW x \in around, x # m PROVE path(m) > path(x) \/ (path(m) = path(x) /\ m < x)
  <2>1. path(f) - path(m) <= path(f) - path(x) /\ path(m) \in Nat /\ path(x) \in Nat /\ m \in Nat /\ x \in Nat
    BY <1>1, <1>3, <1>5
  <2>2. path(x) = path(m) => x \in longest
    BY <1>1, <1>5
  <2>3. QED
    BY <1>1, <1>5, <1>6, <2>1, <2>2
<1>7. m \in around
  BY <1>5
<1>8. QED
  BY <1>6, <1>7 DEF around, path, MetBefore

LEMMA NearestHolds ==
  ASSUME NEW p, IsList(p), \A x \in DOMAIN p : HasPath(p[x].dir)
  PROVE  FilesHaveNearestModule(p)
<1>1. DOMAIN p \subseteq Nat
  BY ListFacts
<1>2. SUFFICES ASSUME NEW f \in DOMAIN p, ~p[f].module
               PROVE  IF Around(p, f) = {} THEN f \in Orphans(p)
                      ELSE \E m \in Around(p, f) : /\ {x \in ModuleFiles(p) : f \in Owned(p, x)} = {m}
                                                   /\ \A x \in Around(p, f) : Len(p[x].dir) <= Len(p[m].dir)
  BY DEF FilesHaveNearestModule
<1>3. CASE Around(p, f) = {}
  BY <1>2, <1>3 DEF Owner, Orphans
<1>4. CASE Around(p, f) # {}
  <2> DEFINE m == Owner(p, f)
  <2>1. m = CHOOSE y \in Around(p, f) : \A x \in Around(p, f) \ {y} : MetBefore(p, y, x)
    BY <1>2, <1>4 DEF Owner
  <2> HIDE DEF m
  <2>2. m \in Around(p, f) /\ \A x \in Around(p, f) \ {m} : MetBefore(p, m, x)
    BY <1>1, <1>4, <2>1, FirstMet
  <2>3. {x \in ModuleFiles(p) : f \in Owned(p, x)} = {m}
    <3>1. \A x : f \in Owned(p, x) <=> x = m
      BY <1>2 DEF Owned, m
    <3>2. m \in ModuleFiles(p)
      BY <2>2 DEF Around
    <3>3. QED
      BY <3>1, <3>2
  <2>4. ASSUME NEW x \in Around(p, f) PROVE Len(p[x].dir) <= Len(p[m].dir)
    <3>1. PathLength(p, x) \in Nat /\ PathLength(p, m) \in Nat
      BY <2>2, AroundFacts
    <3>2. PathLength(p, x) <= PathLength(p, m)
      BY <2>2, <3>1 DEF MetBefore
    <3>3. QED
      BY <2>2, <3>2, AroundFacts
  <2>5. QED
    BY <1>4, <2>2, <2>3, <2>4
<1>5. QED
  BY <1>3, <1>4

LEMMA SetToSeqIsSeq ==
  ASSUME NEW S, IsFiniteSet(S)
  PROVE  /\ SetToSeq(S) \in Seq(S) /\ Len(SetToSeq(S)) = Cardinality(S)
         /\ \A x \in S : \E i \in 1 .. Len(SetToSeq(S)) : SetToSeq(S)[i] = x
<1>1. PICK n \in Nat : DOMAIN SetToSeq(S) = 1 .. n /\ S = {SetToSeq(S)[i] : i \in 1 .. n}
  BY SetToSeqFacts
<1> DEFINE n0 == Cardinality(S)
           P(f) == f \in [1 .. n0 -> S] /\ IsInjective(f)
<1>2. n0 \in Nat
  BY FS_CardinalityType
<1>3. PICK f : f \in Bijection(1 .. n0, S)
  BY FS_CardinalityType DEF ExistsBijection
<1>4. P(f)
  BY <1>3 DEF Bijection, Injection
<1>5. SetToSeq(S) = CHOOSE g : P(g)
  BY DEF SetToSeq, IsInjective
<1>6. P(SetToSeq(S))
  BY <1>4, <1>5
<1> HIDE DEF n0
<1>7. SetToSeq(S) \in Seq(S) /\ Len(SetToSeq(S)) = n0 /\ DOMAIN SetToSeq(S) = 1 .. n0
  BY <1>2, <1>6
<1>8. QED
  BY <1>1, <1>7 DEF n0

-----------------------------------------------------------------------------
(* ImpactIsClosed *)
IsClosed(p, S) == S \subseteq DOMAIN p /\ \A g \in DOMAIN p : p[g].imports \cap S # {} => g \in S

(* A file is in the queue, or those that import it are known. *)
IsImpact(p, changed, k, s) ==
  /\ s = [queue |-> s.queue, affected |-> s.affected]
  /\ s.affected \subseteq DOMAIN p /\ changed \subseteq s.affected /\ s.queue \in Seq(s.affected)
  /\ s.queue # << >> => Cardinality(s.affected) = k + Len(s.queue)
  /\ \A f \in s.affected : (\E i \in 1 .. Len(s.queue) : s.queue[i] = f) \/ ReverseDeps(p)[f] \subseteq s.affected
  /\ \A S : IsClosed(p, S) /\ changed \subseteq S => s.affected \subseteq S

LEMMA ImpactStarts ==
  ASSUME NEW p, IsFiniteSet(DOMAIN p), NEW changed, changed \subseteq DOMAIN p
  PROVE  IsImpact(p, changed, 0, [queue |-> SetToSeq(changed), affected |-> changed])
<1>1. IsFiniteSet(changed) /\ Cardinality(changed) \in Nat
  BY FS_Subset, FS_CardinalityType
<1>2. /\ SetToSeq(changed) \in Seq(changed) /\ Len(SetToSeq(changed)) = Cardinality(changed)
      /\ \A x \in changed : \E i \in 1 .. Len(SetToSeq(changed)) : SetToSeq(changed)[i] = x
  BY <1>1, SetToSeqIsSeq
<1>3. QED
  BY <1>1, <1>2 DEF IsImpact

LEMMA ImpactGrows ==
  ASSUME NEW p, IsFiniteSet(DOMAIN p), NEW changed, NEW k \in Nat, NEW s, IsImpact(p, changed, k, s)
  PROVE  IsImpact(p, changed, k + 1, FromQueue(p, s))
<1>1. CASE s.queue = << >>
  BY <1>1 DEF FromQueue, IsImpact
<1>2. CASE s.queue # << >>
  <2> DEFINE queue == s.queue
             affected == s.affected
             new == NewDependents(p, affected, Head(queue))
             t == FromQueue(p, s)
  <2>1. t = [queue |-> Tail(queue) \o SetToSeq(new), affected |-> affected \cup new]
    BY <1>2 DEF FromQueue
  <2>2. /\ affected \subseteq DOMAIN p /\ changed \subseteq affected /\ queue \in Seq(affected) /\ queue # << >>
        /\ Cardinality(affected) = k + Len(queue)
        /\ \A f \in affected : (\E i \in 1 .. Len(queue) : queue[i] = f) \/ ReverseDeps(p)[f] \subseteq affected
        /\ \A S : IsClosed(p, S) /\ changed \subseteq S => affected \subseteq S
    BY <1>2 DEF IsImpact
  <2>3. Head(queue) \in affected /\ Head(queue) = queue[1] /\ Len(queue) \in Nat /\ Len(queue) # 0
    BY <2>2
  <2> HIDE DEF queue, affected
  <2>4. new = {g \in DOMAIN p : Head(queue) \in p[g].imports} \ affected
    BY <2>2, <2>3 DEF NewDependents, ReverseDeps
  <2>5. IsFiniteSet(new) /\ IsFiniteSet(affected) /\ new \cap affected = {} /\ new \subseteq DOMAIN p
    <3>1. new \subseteq DOMAIN p /\ new \cap affected = {}
      BY <2>4
    <3> HIDE DEF new
    <3>2. QED
      BY <2>2, <3>1, FS_Subset
  <2>6. ReverseDeps(p)[Head(queue)] \subseteq affected \cup new
    BY <2>2, <2>3, <2>4 DEF ReverseDeps
  <2> HIDE DEF new
  <2> DEFINE more == SetToSeq(new)
  <2>7. more \in Seq(new) /\ Len(more) = Cardinality(new) /\ \A x \in new : \E i \in 1 .. Len(more) : more[i] = x
    BY <2>5, SetToSeqIsSeq
  <2> HIDE DEF more
  <2>8. Cardinality(affected \cup new) = Cardinality(affected) + Cardinality(new) /\ Cardinality(new) \in Nat
    <3>1. Cardinality(affected \cap new) = 0
      BY <2>5, FS_EmptySet
    <3>2. /\ Cardinality(affected \cup new) = Cardinality(affected) + Cardinality(new) - Cardinality(affected \cap new)
          /\ Cardinality(new) \in Nat /\ Cardinality(affected) \in Nat
      BY <2>5, FS_Union, FS_CardinalityType
    <3>3. QED
      BY <3>1, <3>2
  <2>9. Tail(queue) \in Seq(affected \cup new) /\ more \in Seq(affected \cup new) /\ Len(Tail(queue)) = Len(queue) - 1
    BY <2>2, <2>7
  <2>10. /\ Tail(queue) \o more \in Seq(affected \cup new)
         /\ Len(Tail(queue) \o more) = Len(queue) - 1 + Len(more)
    BY <2>9
  <2>11. Cardinality(affected \cup new) = k + 1 + Len(Tail(queue) \o more)
    BY <2>2, <2>3, <2>7, <2>8, <2>10, SMTT(30)
  <2>12. ASSUME NEW f \in affected \cup new
         PROVE  (\E i \in 1 .. Len(Tail(queue) \o more) : (Tail(queue) \o more)[i] = f) \/ ReverseDeps(p)[f] \subseteq affected \cup new
    <3>1. CASE f \in new
      <4>1. PICK i \in 1 .. Len(more) : more[i] = f
        BY <2>7, <3>1
      <4>2. i + Len(queue) - 1 \in 1 .. Len(Tail(queue) \o more) /\ (Tail(queue) \o more)[i + Len(queue) - 1] = f
        BY <2>3, <2>7, <2>8, <2>9, <2>10, <4>1
      <4>3. QED
        BY <4>2
    <3>2. CASE f \in affected /\ ReverseDeps(p)[f] \subseteq affected
      BY <3>2
    <3>3. CASE f = Head(queue)
      BY <2>6, <3>3
    <3>4. CASE f \in affected /\ f # Head(queue) /\ \E i \in 1 .. Len(queue) : queue[i] = f
      <4>1. PICK i \in 1 .. Len(queue) : queue[i] = f
        BY <3>4
      <4>2. i # 1
        BY <2>3, <3>4, <4>1
      <4>3. i - 1 \in 1 .. Len(Tail(queue)) /\ Tail(queue)[i - 1] = f
        BY <2>2, <2>3, <2>9, <4>1, <4>2
      <4>4. i - 1 \in 1 .. Len(Tail(queue) \o more) /\ (Tail(queue) \o more)[i - 1] = f
        BY <2>3, <2>7, <2>8, <2>9, <2>10, <4>3
      <4>5. QED
        BY <4>4
    <3>5. QED
      BY <2>2, <3>1, <3>2, <3>3, <3>4
  <2>13. ASSUME NEW S, IsClosed(p, S), changed \subseteq S PROVE affected \cup new \subseteq S
    <3>1. affected \subseteq S
      BY <2>2, <2>13
    <3>2. ASSUME NEW g \in new PROVE g \in S
      <4>1. g \in DOMAIN p /\ Head(queue) \in p[g].imports /\ Head(queue) \in S
        BY <2>3, <2>4, <3>1, <3>2
      <4>2. QED
        BY <2>13, <4>1 DEF IsClosed
    <3>3. QED
      BY <3>1, <3>2
  <2>14. t.queue = Tail(queue) \o more /\ t.affected = affected \cup new /\ t = [queue |-> t.queue, affected |-> t.affected]
    BY <2>1 DEF more
  <2> HIDE DEF t
  <2>15. IsImpact(p, changed, k + 1, t)
    <3>1. t.affected \subseteq DOMAIN p /\ changed \subseteq t.affected /\ t.queue \in Seq(t.affected)
      BY <2>2, <2>5, <2>10, <2>14
    <3>2. QED
      BY <2>11, <2>12, <2>13, <2>14, <3>1 DEF IsImpact
  <2>16. QED
    BY <2>15 DEF t
<1>3. QED
  BY <1>1, <1>2

LEMMA ImpactTower ==
  ASSUME NEW p, IsList(p), NEW changed
  PROVE  \E f : IsTower(f, "queue", [p |-> p, changed |-> changed], Len(p)) /\ AffectedFiles(p, changed) = f[Len(p)].affected
<1> DEFINE d == [p |-> p, changed |-> changed]
           P(f) == f = [n \in 0 .. Len(p) |->
                          IF n = 0 THEN [queue |-> SetToSeq(changed), affected |-> changed] ELSE FromQueue(p, f[n - 1])]
           f == CHOOSE f : P(f)
<1>1. AffectedFiles(p, changed) = f[Len(p)].affected
  BY DEF AffectedFiles
<1>2. \A x : P(x) <=> IsTower(x, "queue", d, Len(p))
  BY DEF IsTower, Level
<1>3. \A x, y : Level("queue", d, 0, x) = Level("queue", d, 0, y)
  BY DEF Level
<1>4. Len(p) \in Nat
  BY DEF IsList
<1>5. \E x : IsTower(x, "queue", d, Len(p))
  BY <1>3, <1>4, TowerExists
<1>6. P(f)
  BY <1>2, <1>5
<1>7. QED
  BY <1>1, <1>2, <1>6

LEMMA ImpactEnds ==
  ASSUME NEW p, IsList(p), NEW changed, changed \subseteq DOMAIN p
  PROVE  \E s : IsImpact(p, changed, Len(p), s) /\ s.queue = << >> /\ AffectedFiles(p, changed) = s.affected
<1> DEFINE n == Len(p)
           d == [p |-> p, changed |-> changed]
<1>1. n \in Nat /\ DOMAIN p = 1 .. n
  BY ListFacts
<1>2. IsFiniteSet(DOMAIN p) /\ Cardinality(DOMAIN p) = n
  BY <1>1, FS_Interval
<1>3. PICK f : IsTower(f, "queue", d, n) /\ AffectedFiles(p, changed) = f[n].affected
  BY ImpactTower
<1>4. \A k \in 0 .. n : f[k] = Level("queue", d, k, f[k - 1])
  BY <1>1, <1>3, TowerLevels
<1> HIDE DEF n
<1> DEFINE good == {k \in Nat : k <= n => IsImpact(p, changed, k, f[k])}
<1>5. 0 \in good
  <2>1. f[0] = [queue |-> SetToSeq(changed), affected |-> changed]
    BY <1>1, <1>4 DEF Level
  <2>2. QED
    BY <1>2, <2>1, ImpactStarts
<1>6. ASSUME NEW k \in Nat, k \in good PROVE k + 1 \in good
  <2>1. SUFFICES ASSUME k + 1 <= n PROVE IsImpact(p, changed, k + 1, f[k + 1])
    OBVIOUS
  <2>2. k + 1 \in 0 .. n /\ k + 1 # 0 /\ k + 1 - 1 = k
    BY <1>1, <2>1
  <2>3. f[k + 1] = FromQueue(p, f[k])
    BY <1>4, <2>2 DEF Level
  <2>4. IsImpact(p, changed, k, f[k])
    BY <1>1, <1>6, <2>1
  <2>5. QED
    BY <1>2, <2>3, <2>4, ImpactGrows
<1>7. IsImpact(p, changed, n, f[n])
  <2> HIDE DEF good
  <2>1. n \in good
    BY <1>1, <1>5, <1>6, SetInduction
  <2>2. QED
    BY <1>1, <2>1 DEF good
<1>8. f[n].queue = << >>
  <2>1. SUFFICES ASSUME f[n].queue # << >> PROVE FALSE
    OBVIOUS
  <2>2. Cardinality(f[n].affected) = n + Len(f[n].queue) /\ f[n].affected \subseteq DOMAIN p /\ f[n].queue \in Seq(f[n].affected)
    BY <1>7, <2>1 DEF IsImpact
  <2>3. Cardinality(f[n].affected) <= n
    BY <1>2, <2>2, FS_Subset
  <2>4. Len(f[n].queue) \in Nat /\ Len(f[n].queue) # 0
    BY <2>1, <2>2
  <2>5. QED
    BY <1>1, <2>2, <2>3, <2>4
<1>9. QED
  BY <1>3, <1>7, <1>8 DEF n

LEMMA ImpactHolds ==
  ASSUME NEW p, IsList(p)
  PROVE  ImpactIsClosed(p)
<1>1. SUFFICES ASSUME NEW changed \in SUBSET DOMAIN p, BuildModuleImpact(p, changed).ok
               PROVE  AffectedFiles(p, changed) =
                        {f \in DOMAIN p : \A S \in {S \in SUBSET DOMAIN p : changed \subseteq S /\ \A g \in DOMAIN p : p[g].imports \cap S # {} => g \in S} : f \in S}
  <2>1. ASSUME NEW changed \in SUBSET DOMAIN p, BuildModuleImpact(p, changed).ok
        PROVE  BuildModuleImpact(p, changed).affectedModules = {Owner(p, f) : f \in AffectedFiles(p, changed)}
    BY <2>1 DEF BuildModuleImpact
  <2>2. QED
    BY <2>1 DEF ImpactIsClosed
<1> DEFINE least == {f \in DOMAIN p : \A S : IsClosed(p, S) /\ changed \subseteq S => f \in S}
<1>2. PICK s : IsImpact(p, changed, Len(p), s) /\ s.queue = << >> /\ AffectedFiles(p, changed) = s.affected
  BY ImpactEnds
<1>3. /\ s.affected \subseteq DOMAIN p /\ changed \subseteq s.affected
      /\ \A f \in s.affected : (\E i \in 1 .. Len(s.queue) : s.queue[i] = f) \/ ReverseDeps(p)[f] \subseteq s.affected
      /\ \A S : IsClosed(p, S) /\ changed \subseteq S => s.affected \subseteq S
  BY <1>2 DEF IsImpact
<1>4. \A f \in s.affected : ReverseDeps(p)[f] \subseteq s.affected
  BY <1>2, <1>3
<1>5. IsClosed(p, s.affected)
  <2>1. SUFFICES ASSUME NEW g \in DOMAIN p, NEW f \in p[g].imports \cap s.affected PROVE g \in s.affected
    BY <1>3 DEF IsClosed
  <2>2. g \in ReverseDeps(p)[f]
    BY <1>3, <2>1 DEF ReverseDeps
  <2>3. QED
    BY <1>4, <2>1, <2>2
<1>6. AffectedFiles(p, changed) = least
  BY <1>2, <1>3, <1>5
<1>7. QED
  BY <1>6 DEF IsClosed

-----------------------------------------------------------------------------
(* CycleIsTold *)
AreDistinct(c) == \A i, j \in 1 .. Len(c) : c[i] = c[j] => i = j

IsRing(next, c) ==
  /\ c \in Seq(DOMAIN next) /\ c # << >> /\ AreDistinct(c)
  /\ \A i \in 1 .. Len(c) : c[IF i = Len(c) THEN 1 ELSE i + 1] \in next[c[i]]

IsTold(next, c) == IsRing(next, c) /\ \A j \in 1 .. Len(c) : c[1] <= c[j]

LEMMA RingIsNormalized ==
  ASSUME NEW next, DOMAIN next \subseteq Nat, NEW path, IsRing(next, path)
  PROVE  IsTold(next, NormalizeCycle(path))
<1> DEFINE n == Len(path)
           D == DOMAIN next
           first == CHOOSE i \in DOMAIN path : \A j \in DOMAIN path : path[i] <= path[j]
           c == NormalizeCycle(path)
           at(i) == IF i <= n - first + 1 THEN first + i - 1 ELSE i - (n - first + 1)
<1>1. path \in Seq(D) /\ n \in Nat /\ n # 0 /\ DOMAIN path = 1 .. n /\ \A i \in 1 .. n : path[i] \in D /\ path[i] \in Nat
  BY DEF IsRing
<1> HIDE DEF n, D
<1>2. first \in 1 .. n /\ \A j \in 1 .. n : path[first] <= path[j]
  <2>1. {path[i] : i \in 1 .. n} \subseteq Nat /\ {path[i] : i \in 1 .. n} # {}
    BY <1>1
  <2>2. PICK x \in {path[i] : i \in 1 .. n} : \A y \in {path[i] : i \in 1 .. n} : x <= y
    BY <2>1, LeastOf
  <2>3. \E i \in DOMAIN path : \A j \in DOMAIN path : path[i] <= path[j]
    BY <1>1, <2>2
  <2>4. QED
    BY <1>1, <2>3
<1>3. c = SubSeq(path, first, n) \o SubSeq(path, 1, first - 1)
  BY DEF NormalizeCycle, n
<1> HIDE DEF first, c
<1>4. /\ SubSeq(path, first, n) \in Seq(D) /\ Len(SubSeq(path, first, n)) = n - first + 1
      /\ \A i \in 1 .. n - first + 1 : SubSeq(path, first, n)[i] = path[first + i - 1]
  <2>1. \A i \in first .. n : path[i] \in D
    BY <1>1, <1>2
  <2>2. QED
    BY <1>1, <1>2, <2>1, SubSeqProperties
<1>5. /\ SubSeq(path, 1, first - 1) \in Seq(D) /\ Len(SubSeq(path, 1, first - 1)) = first - 1
      /\ \A i \in 1 .. first - 1 : SubSeq(path, 1, first - 1)[i] = path[i]
  <2>1. \A i \in 1 .. first - 1 : path[i] \in D
    BY <1>1, <1>2
  <2>2. /\ SubSeq(path, 1, first - 1) \in Seq(D)
        /\ Len(SubSeq(path, 1, first - 1)) = IF 1 <= first - 1 THEN first - 1 - 1 + 1 ELSE 0
        /\ \A i \in 1 .. first - 1 - 1 + 1 : SubSeq(path, 1, first - 1)[i] = path[1 + i - 1]
    BY <1>1, <1>2, <2>1, SubSeqProperties
  <2>3. \A i \in 1 .. first - 1 : SubSeq(path, 1, first - 1)[i] = path[1 + i - 1]
    BY <1>1, <1>2, <2>2
  <2>4. \A i \in 1 .. first - 1 : 1 + i - 1 = i
    OBVIOUS
  <2>5. QED
    BY <1>1, <1>2, <2>2, <2>3, <2>4
<1>6. c \in Seq(D) /\ Len(c) = n /\ \A i \in 1 .. n : c[i] = path[at(i)] /\ at(i) \in 1 .. n
  <2>1. c \in Seq(D) /\ Len(c) = n
    BY <1>1, <1>2, <1>3, <1>4, <1>5
  <2>2. ASSUME NEW i \in 1 .. n PROVE c[i] = path[at(i)] /\ at(i) \in 1 .. n
    <3>1. CASE i <= n - first + 1
      <4>1. i \in 1 .. n - first + 1 /\ at(i) = first + i - 1 /\ at(i) \in 1 .. n
        BY <1>1, <1>2, <3>1
      <4>2. c[i] = SubSeq(path, first, n)[i]
        BY <1>1, <1>2, <1>3, <1>4, <1>5, <3>1, <4>1
      <4>3. QED
        BY <1>4, <4>1, <4>2
    <3>2. CASE ~(i <= n - first + 1)
      <4>1. i - (n - first + 1) \in 1 .. first - 1 /\ at(i) = i - (n - first + 1) /\ at(i) \in 1 .. n
        BY <1>1, <1>2, <3>2
      <4>2. c[i] = SubSeq(path, 1, first - 1)[i - (n - first + 1)]
        BY <1>1, <1>2, <1>3, <1>4, <1>5, <3>2, <4>1
      <4>3. QED
        BY <1>5, <4>1, <4>2
    <3>3. QED
      BY <3>1, <3>2
  <2>3. QED
    BY <2>1, <2>2
<1>7. \A i, j \in 1 .. n : at(i) = at(j) => i = j
  BY <1>1, <1>2
<1>8. \A i, j \in 1 .. n : path[i] = path[j] => i = j
  BY DEF IsRing, AreDistinct, n
<1>9. AreDistinct(c)
  <2> HIDE DEF at
  <2>1. QED
    BY <1>6, <1>7, <1>8 DEF AreDistinct
<1>10. \A i \in 1 .. n : path[IF i = n THEN 1 ELSE i + 1] \in next[path[i]]
  BY DEF IsRing, n
<1>11. ASSUME NEW i \in 1 .. n PROVE c[IF i = n THEN 1 ELSE i + 1] \in next[c[i]]
  <2> DEFINE j == IF i = n THEN 1 ELSE i + 1
  <2>1. j \in 1 .. n /\ at(j) = IF at(i) = n THEN 1 ELSE at(i) + 1
    BY <1>1, <1>2
  <2> HIDE DEF at
  <2>2. c[j] = path[at(j)] /\ c[i] = path[at(i)] /\ at(i) \in 1 .. n
    BY <1>6, <2>1
  <2>3. QED
    BY <1>10, <2>1, <2>2
<1>12. \A j \in 1 .. n : c[1] <= c[j]
  <2>1. at(1) = first /\ 1 \in 1 .. n
    BY <1>1, <1>2
  <2> HIDE DEF at
  <2>2. QED
    BY <1>2, <1>6, <2>1
<1>13. c # << >>
  BY <1>1, <1>6
<1>14. IsTold(next, c)
  BY <1>6, <1>9, <1>11, <1>12, <1>13 DEF IsTold, IsRing, D
<1>15. QED
  BY <1>14 DEF c

(* The end of the stack, from the module that is met again. *)
LEMMA StackIsRing ==
  ASSUME NEW next, NEW stack \in Seq(DOMAIN next), AreDistinct(stack),
         \A i \in 1 .. Len(stack) - 1 : stack[i + 1] \in next[stack[i]],
         NEW start \in 1 .. Len(stack), stack[start] \in next[stack[Len(stack)]]
  PROVE  IsRing(next, SubSeq(stack, start, Len(stack)))
<1> DEFINE n == Len(stack)
           c == SubSeq(stack, start, n)
           k == n - start + 1
<1>1. n \in Nat /\ start \in 1 .. n /\ \A i \in start .. n : stack[i] \in DOMAIN next
  OBVIOUS
<1>2. c \in Seq(DOMAIN next) /\ Len(c) = k /\ \A i \in 1 .. k : c[i] = stack[start + i - 1]
  <2> HIDE DEF n
  <2>1. QED
    BY <1>1, SubSeqProperties
<1>3. \A i \in 1 .. n - 1 : stack[i + 1] \in next[stack[i]]
  OBVIOUS
<1>4. \A i, j \in 1 .. n : stack[i] = stack[j] => i = j
  BY DEF AreDistinct
<1>5. stack[start] \in next[stack[n]]
  OBVIOUS
<1> HIDE DEF n, c
<1>6. k \in Nat /\ k # 0
  BY <1>1
<1>7. ASSUME NEW i \in 1 .. k, NEW j \in 1 .. k, c[i] = c[j] PROVE i = j
  <2>1. start + i - 1 \in 1 .. n /\ start + j - 1 \in 1 .. n
    BY <1>1
  <2>2. start + i - 1 = start + j - 1
    BY <1>2, <1>4, <1>7, <2>1
  <2>3. QED
    BY <1>1, <2>2
<1>8. ASSUME NEW i \in 1 .. k PROVE c[IF i = k THEN 1 ELSE i + 1] \in next[c[i]]
  <2>1. CASE i = k
    <3>1. start + i - 1 = n /\ start + 1 - 1 = start /\ 1 \in 1 .. k
      BY <1>1, <1>6, <2>1
    <3>2. c[i] = stack[n] /\ c[1] = stack[start]
      BY <1>2, <3>1
    <3>3. QED
      BY <1>5, <2>1, <3>2
  <2>2. CASE i # k
    <3>1. i + 1 \in 1 .. k /\ start + i - 1 \in 1 .. n - 1 /\ start + (i + 1) - 1 = start + i - 1 + 1
      BY <1>1, <1>6, <2>2
    <3>2. c[i] = stack[start + i - 1] /\ c[i + 1] = stack[start + i - 1 + 1]
      BY <1>2, <3>1, SMTT(30)
    <3>3. QED
      BY <1>3, <2>2, <3>1, <3>2
  <2>3. QED
    BY <2>1, <2>2
<1>9. IsRing(next, c)
  BY <1>2, <1>6, <1>7, <1>8 DEF IsRing, AreDistinct
<1>10. QED
  BY <1>9 DEF c, n

IsNext(next) == IsFiniteSet(DOMAIN next) /\ DOMAIN next \subseteq Nat /\ \A v \in DOMAIN next : next[v] \subseteq DOMAIN next

Escapes(next, v) ==
  \E S \in SUBSET DOMAIN next : v \notin S /\ next[v] \subseteq S /\ \A x \in S : next[x] \subseteq S

(* The modules whose search has ended. *)
Left(s) == {v \in s.visited : \A i \in 1 .. Len(s.stack) : s.stack[i] # v}

(* The stack is a path; without a cycle no module that is left leads to itself. *)
IsSearch(next, s) ==
  /\ s \in Searches(next)
  /\ s.stack \in Seq(s.visited) /\ AreDistinct(s.stack)
  /\ \A i \in 1 .. Len(s.stack) - 1 : s.stack[i + 1] \in next[s.stack[i]]
  /\ \A c \in s.cycles : IsTold(next, c)
  /\ s.cycles = {} => \A v \in Left(s) : next[v] \subseteq Left(s) /\ Escapes(next, v)

Follows(next, s, m) == s.stack # << >> => m \in next[s.stack[Len(s.stack)]]

(* From s the search comes to t, with the modules ms left. *)
Searched(next, s, ms, t) ==
  /\ IsSearch(next, t)
  /\ t.stack = s.stack /\ s.cycles \subseteq t.cycles /\ s.visited \subseteq t.visited
  /\ t.cycles = {} => ms \subseteq Left(t)

IsDeep(next, d, deeper) ==
  \A s, m : IsSearch(next, s) /\ m \in DOMAIN next /\ Follows(next, s, m) /\ Len(s.stack) + d > Cardinality(DOMAIN next)
              => Searched(next, s, {m}, deeper[<<s, m>>])

LEMMA StackFits ==
  ASSUME NEW next, IsNext(next), NEW s, IsSearch(next, s)
  PROVE  Len(s.stack) \in Nat /\ Len(s.stack) <= Cardinality(DOMAIN next)
<1> DEFINE n == Len(s.stack)
<1>1. s.stack \in Seq(DOMAIN next) /\ n \in Nat
  BY DEF IsSearch, Searches
<1>2. s.stack \in [1 .. n -> DOMAIN next] /\ \A i, j \in 1 .. n : s.stack[i] = s.stack[j] => i = j
  BY <1>1 DEF IsSearch, AreDistinct
<1> HIDE DEF n
<1>3. s.stack \in Injection(1 .. n, DOMAIN next)
  BY <1>2 DEF Injection, IsInjective
<1>4. Cardinality(1 .. n) = n
  BY <1>1, FS_Interval
<1>5. n <= Cardinality(DOMAIN next)
  BY <1>3, <1>4, FS_Injection DEF IsNext
<1>6. QED
  BY <1>1, <1>5 DEF n

LEMMA VisitRuns ==
  ASSUME NEW deeper, NEW s, NEW nodes, NEW n \in Nat, DOMAIN nodes = 1 .. n
  PROVE  \E tr : IsRun(tr, "calls", deeper, s, nodes, n) /\ VisitAll(deeper, s, nodes) = tr[n]
<1> DEFINE P(it) == it = [u \in SUBSET (1 .. n) |-> IF u = {} THEN s ELSE deeper[<<it[u \ {Max(u)}], nodes[Max(u)]>>]]
           it == CHOOSE it : P(it)
<1>1. VisitAll(deeper, s, nodes) = it[1 .. n]
  BY DEF VisitAll, FoldLeft, MapThenFoldSet
<1>2. \A x : P(x) <=> IsFold(x, "calls", deeper, s, nodes, n)
  <2>1. \A u, f : deeper[<<f[u \ {Max(u)}], nodes[Max(u)]>>] = Step("calls", deeper, f[u \ {Max(u)}], nodes[Max(u)])
    BY DEF Step
  <2>2. QED
    BY <2>1 DEF IsFold
<1>3. P(it)
  BY <1>2, FoldExists
<1>4. IsFold(it, "calls", deeper, s, nodes, n)
  BY <1>2, <1>3
<1> HIDE DEF it
<1>5. IsRun([k \in 0 .. n |-> it[1 .. k]], "calls", deeper, s, nodes, n)
  BY <1>4, FoldRuns
<1>6. QED
  BY <1>1, <1>5

LEMMA SearchedGoesOn ==
  ASSUME NEW next, NEW s, NEW t, NEW u, NEW ms, NEW m, Searched(next, s, ms, t), Searched(next, t, {m}, u)
  PROVE  Searched(next, s, ms \cup {m}, u)
<1>1. t.stack = s.stack /\ u.stack = t.stack /\ t.visited \subseteq u.visited /\ t.cycles \subseteq u.cycles
  BY DEF Searched
<1>2. Left(t) \subseteq Left(u)
  BY <1>1 DEF Left
<1>3. u.cycles = {} => ms \subseteq Left(u) /\ m \in Left(u)
  BY <1>1, <1>2 DEF Searched
<1>4. QED
  BY <1>1, <1>3 DEF Searched

LEMMA VisitHolds ==
  ASSUME NEW next, NEW d, NEW deeper, IsDeep(next, d, deeper), NEW s, IsSearch(next, s),
         NEW nodes, NEW n \in Nat, DOMAIN nodes = 1 .. n,
         \A i \in 1 .. n : nodes[i] \in DOMAIN next /\ Follows(next, s, nodes[i]),
         Len(s.stack) + d > Cardinality(DOMAIN next)
  PROVE  Searched(next, s, {nodes[i] : i \in 1 .. n}, VisitAll(deeper, s, nodes))
<1>1. PICK tr : IsRun(tr, "calls", deeper, s, nodes, n) /\ VisitAll(deeper, s, nodes) = tr[n]
  BY VisitRuns
<1> DEFINE upTo(k) == {nodes[i] : i \in 1 .. k}
           good == {k \in Nat : k <= n => Searched(next, s, upTo(k), tr[k])}
<1>2. 0 \in good
  <2>1. tr[0] = s /\ upTo(0) = {}
    BY <1>1 DEF IsRun
  <2>2. Searched(next, s, {}, s)
    BY DEF Searched
  <2> HIDE DEF upTo
  <2>3. QED
    BY <2>1, <2>2
<1>3. ASSUME NEW k \in Nat, k \in good PROVE k + 1 \in good
  <2> HIDE DEF upTo
  <2>1. SUFFICES ASSUME k + 1 <= n PROVE Searched(next, s, upTo(k + 1), tr[k + 1])
    OBVIOUS
  <2>2. Searched(next, s, upTo(k), tr[k])
    BY <1>3, <2>1
  <2>3. k \in 0 .. n - 1 /\ k + 1 \in 1 .. n
    BY <2>1
  <2>4. tr[k + 1] = deeper[<<tr[k], nodes[k + 1]>>]
    BY <1>1, <2>3 DEF IsRun, Step
  <2>5. IsSearch(next, tr[k]) /\ tr[k].stack = s.stack
    BY <2>2 DEF Searched
  <2>6. nodes[k + 1] \in DOMAIN next /\ Follows(next, tr[k], nodes[k + 1]) /\ Len(tr[k].stack) + d > Cardinality(DOMAIN next)
    BY <2>3, <2>5 DEF Follows
  <2>7. Searched(next, tr[k], {nodes[k + 1]}, tr[k + 1])
    BY <2>4, <2>5, <2>6 DEF IsDeep
  <2>8. Searched(next, s, upTo(k) \cup {nodes[k + 1]}, tr[k + 1])
    BY <2>2, <2>7, SearchedGoesOn
  <2>9. upTo(k + 1) = upTo(k) \cup {nodes[k + 1]}
    <3>1. \A i : i \in 1 .. k + 1 <=> i \in 1 .. k \/ i = k + 1
      OBVIOUS
    <3>2. QED
      BY <3>1 DEF upTo
  <2>10. QED
    BY <2>8, <2>9
<1>4. n \in good
  <2> HIDE DEF good
  <2>1. QED
    BY <1>2, <1>3, SetInduction
<1>5. Searched(next, s, upTo(n), tr[n])
  <2> HIDE DEF upTo
  <2>1. QED
    BY <1>4
<1>6. QED
  BY <1>1, <1>5

LEMMA DfsMeets ==
  ASSUME NEW next, IsNext(next), NEW deeper, NEW s, IsSearch(next, s), NEW m \in DOMAIN next, Follows(next, s, m),
         NEW i \in 1 .. Len(s.stack), s.stack[i] = m
  PROVE  Searched(next, s, {m}, Dfs(next, deeper, s, m))
<1> DEFINE n == Len(s.stack)
           met == {j \in 1 .. n : s.stack[j] = m}
           start == SelectInSeq(s.stack, LAMBDA x : x = m)
           cycle == NormalizeCycle(SubSeq(s.stack, start, n))
           t == Dfs(next, deeper, s, m)
<1>1. s.stack \in Seq(DOMAIN next) /\ n \in Nat
  BY DEF IsSearch, Searches
<1>2. met \subseteq Nat /\ met # {}
  BY <1>1
<1>3. start = Min(met)
  BY <1>2 DEF SelectInSeq
<1>4. Min(met) \in met
  <2>1. \E x \in met : \A y \in met : x <= y
    BY <1>2, LeastOf
  <2>2. QED
    BY <2>1 DEF Min
<1> HIDE DEF start
<1>5. start \in 1 .. n /\ s.stack[start] = m /\ start # 0
  BY <1>1, <1>3, <1>4
<1>6. t = [s EXCEPT !.cycles = @ \cup {cycle}]
  <2> DEFINE at == SelectInSeq(s.stack, LAMBDA x : x = m)
  <2>1. at = start /\ at # 0
    BY <1>5 DEF start
  <2>2. Dfs(next, deeper, s, m) =
          CASE at # 0 -> [s EXCEPT !.cycles = @ \cup {NormalizeCycle(SubSeq(s.stack, at, Len(s.stack)))}]
            [] at = 0 /\ m \in s.visited -> s
            [] OTHER -> Leave(VisitAll(deeper, [s EXCEPT !.visited = @ \cup {m}, !.stack = Append(@, m)], InOrder(next[m])))
    BY DEF Dfs
  <2> HIDE DEF at
  <2>3. Dfs(next, deeper, s, m) = [s EXCEPT !.cycles = @ \cup {NormalizeCycle(SubSeq(s.stack, at, Len(s.stack)))}]
    BY <2>1, <2>2
  <2>4. QED
    BY <2>1, <2>3
<1> HIDE DEF t
<1>7. IsTold(next, cycle)
  <2>1. s.stack[start] \in next[s.stack[n]]
    <3>1. s.stack # << >>
      BY <1>1
    <3>2. QED
      BY <1>5, <3>1 DEF Follows
  <2>2. AreDistinct(s.stack) /\ \A j \in 1 .. n - 1 : s.stack[j + 1] \in next[s.stack[j]]
    BY DEF IsSearch
  <2>3. IsRing(next, SubSeq(s.stack, start, n))
    BY <1>1, <1>5, <2>1, <2>2, StackIsRing
  <2>4. QED
    BY <2>3, RingIsNormalized DEF IsNext
<1> HIDE DEF cycle
<1>8. cycle \in Seq(DOMAIN next)
  BY <1>7 DEF IsTold, IsRing
<1>9. s \in Searches(next)
  BY DEF IsSearch
<1>10. /\ t \in Searches(next) /\ t.visited = s.visited /\ t.stack = s.stack
       /\ t.cycles = s.cycles \cup {cycle}
  BY <1>6, <1>8, <1>9 DEF Searches
<1>11. IsSearch(next, t)
  BY <1>7, <1>10 DEF IsSearch
<1>12. Searched(next, s, {m}, t)
  BY <1>10, <1>11 DEF Searched
<1>13. QED
  BY <1>12 DEF t
(* Of a module that has not been visited, all that it leads to is left when it is. *)
LEMMA DfsEnters ==
  ASSUME NEW next, IsNext(next), NEW d \in Nat, NEW deeper, IsDeep(next, d, deeper), NEW s, IsSearch(next, s),
         NEW m \in DOMAIN next, Follows(next, s, m), m \notin s.visited, Len(s.stack) + d + 1 > Cardinality(DOMAIN next)
  PROVE  Searched(next, s, {m}, Dfs(next, deeper, s, m))
<1> DEFINE n == Len(s.stack)
           entered == [s EXCEPT !.visited = @ \cup {m}, !.stack = Append(@, m)]
           nodes == InOrder(next[m])
           u == VisitAll(deeper, entered, nodes)
           t == Leave(u)
<1>1. s.stack \in Seq(s.visited) /\ s.visited \subseteq DOMAIN next /\ n \in Nat /\ s \in Searches(next)
  BY DEF IsSearch, Searches
<1>2. \A i \in 1 .. n : s.stack[i] # m
  BY <1>1
<1>3. Dfs(next, deeper, s, m) = t
  <2> DEFINE met == {i \in 1 .. n : s.stack[i] = m}
             at == SelectInSeq(s.stack, LAMBDA x : x = m)
  <2>1. met = {}
    BY <1>2
  <2>2. at = 0
    BY <2>1 DEF SelectInSeq
  <2>3. Dfs(next, deeper, s, m) =
          CASE at # 0 -> [s EXCEPT !.cycles = @ \cup {NormalizeCycle(SubSeq(s.stack, at, Len(s.stack)))}]
            [] at = 0 /\ m \in s.visited -> s
            [] OTHER -> t
    BY DEF Dfs
  <2> HIDE DEF at, t
  <2>4. QED
    BY <2>2, <2>3
<1>4. /\ entered.visited = s.visited \cup {m} /\ entered.stack = Append(s.stack, m) /\ entered.cycles = s.cycles
      /\ entered \in Searches(next)
  <2>1. s.stack \in Seq(DOMAIN next) /\ s.visited \cup {m} \in SUBSET DOMAIN next
    BY <1>1 DEF Searches
  <2>2. Append(s.stack, m) \in Seq(DOMAIN next)
    BY <2>1
  <2> DEFINE stack == Append(s.stack, m)
             visited == s.visited \cup {m}
  <2>3. entered = [s EXCEPT !.visited = visited, !.stack = stack]
    OBVIOUS
  <2> HIDE DEF entered, stack, visited
  <2>4. entered.visited = visited /\ entered.stack = stack /\ entered.cycles = s.cycles /\ entered \in Searches(next)
    <3>1. stack \in Seq(DOMAIN next) /\ visited \in SUBSET DOMAIN next
      BY <2>1, <2>2 DEF stack, visited
    <3>2. QED
      BY <1>1, <2>3, <3>1 DEF Searches
  <2>5. QED
    BY <2>4 DEF stack, visited
<1> HIDE DEF entered
<1>5. /\ entered.stack \in Seq(s.visited \cup {m}) /\ Len(entered.stack) = n + 1 /\ entered.stack[n + 1] = m
      /\ \A i \in 1 .. n : entered.stack[i] = s.stack[i]
  BY <1>1, <1>4
<1> HIDE DEF n
<1>6. Left(entered) = Left(s)
  <2>1. ASSUME NEW v PROVE v \in Left(entered) <=> v \in Left(s)
    <3>1. \A i : i \in 1 .. n + 1 <=> i \in 1 .. n \/ i = n + 1
      BY <1>1
    <3>2. QED
      BY <1>4, <1>5, <3>1 DEF Left, n
  <2>2. QED
    BY <2>1
<1>7. IsSearch(next, entered)
  <2>1. ASSUME NEW i \in 1 .. n + 1, NEW j \in 1 .. n + 1, entered.stack[i] = entered.stack[j] PROVE i = j
    <3>1. \A k \in 1 .. n, l \in 1 .. n : s.stack[k] = s.stack[l] => k = l
      BY DEF IsSearch, AreDistinct, n
    <3>2. (i \in 1 .. n \/ i = n + 1) /\ (j \in 1 .. n \/ j = n + 1)
      BY <1>1
    <3>3. QED
      BY <1>2, <1>5, <2>1, <3>1, <3>2 DEF n
  <2>2. ASSUME NEW i \in 1 .. n PROVE entered.stack[i + 1] \in next[entered.stack[i]]
    <3>1. CASE i = n
      <4>1. s.stack # << >>
        BY <1>1, <3>1 DEF n
      <4>2. m \in next[s.stack[n]]
        BY <4>1 DEF Follows, n
      <4>3. QED
        BY <1>5, <3>1, <4>2
    <3>2. CASE i # n
      <4>1. i \in 1 .. n - 1 /\ i + 1 \in 1 .. n
        BY <1>1, <3>2
      <4>2. QED
        BY <1>5, <4>1 DEF IsSearch, n
    <3>3. QED
      BY <3>1, <3>2
  <2>3. AreDistinct(entered.stack)
    BY <1>5, <2>1 DEF AreDistinct
  <2>4. \A i \in 1 .. Len(entered.stack) - 1 : entered.stack[i + 1] \in next[entered.stack[i]]
    <3>1. Len(entered.stack) - 1 = n
      BY <1>1, <1>5
    <3>2. QED
      BY <2>2, <3>1
  <2>5. entered.cycles = {} => \A v \in Left(entered) : next[v] \subseteq Left(entered) /\ Escapes(next, v)
    BY <1>4, <1>6 DEF IsSearch
  <2>6. \A c \in entered.cycles : IsTold(next, c)
    BY <1>4 DEF IsSearch
  <2>7. QED
    BY <1>4, <1>5, <2>3, <2>4, <2>5, <2>6 DEF IsSearch
<1>8. PICK k \in Nat : DOMAIN nodes = 1 .. k /\ next[m] = {nodes[i] : i \in 1 .. k}
  <2>1. next[m] \subseteq DOMAIN next /\ next[m] \subseteq Nat
    BY DEF IsNext
  <2>2. IsFiniteSet(next[m])
    BY <2>1, FS_Subset DEF IsNext
  <2>3. QED
    BY <2>1, <2>2, InOrderFacts
<1> HIDE DEF nodes
<1>9. Searched(next, entered, next[m], u)
  <2>1. \A i \in 1 .. k : nodes[i] \in next[m] /\ nodes[i] \in DOMAIN next
    BY <1>8 DEF IsNext
  <2>2. \A i \in 1 .. k : Follows(next, entered, nodes[i])
    BY <1>1, <1>5, <2>1 DEF Follows
  <2>3. Len(entered.stack) + d > Cardinality(DOMAIN next)
    BY <1>1, <1>5 DEF n
  <2>4. Searched(next, entered, {nodes[i] : i \in 1 .. k}, u)
    <3>1. \A i \in 1 .. k : nodes[i] \in DOMAIN next /\ Follows(next, entered, nodes[i])
      BY <2>1, <2>2
    <3>2. DOMAIN nodes = 1 .. k
      BY <1>8
    <3>3. QED
      BY <1>7, <2>3, <3>1, <3>2, VisitHolds, Zenon
  <2>5. QED
    BY <1>8, <2>4
<1> HIDE DEF u
<1>10. /\ u \in Searches(next) /\ u.stack = Append(s.stack, m) /\ s.cycles \subseteq u.cycles /\ s.visited \cup {m} \subseteq u.visited
       /\ u.cycles = {} => next[m] \subseteq Left(u)
  BY <1>4, <1>9 DEF Searched, IsSearch
<1>11. Front(u.stack) = s.stack
  BY <1>1, <1>10 DEF Front
<1>12. t \in Searches(next) /\ t.visited = u.visited /\ t.stack = s.stack /\ t.cycles = u.cycles
  <2>1. t = [u EXCEPT !.stack = s.stack]
    BY <1>11 DEF Leave
  <2>2. s.stack \in Seq(DOMAIN next)
    BY DEF IsSearch, Searches
  <2>3. QED
    BY <1>10, <2>1, <2>2 DEF Searches
<1> HIDE DEF t
<1>13. Left(t) = Left(u) \cup {m}
  <2>1. \A v : v \in Left(t) <=> v \in u.visited /\ \A i \in 1 .. n : s.stack[i] # v
    BY <1>12 DEF Left, n
  <2>2. \A v : v \in Left(u) <=> v \in u.visited /\ \A i \in 1 .. n + 1 : entered.stack[i] # v
    BY <1>4, <1>5, <1>10 DEF Left
  <2>3. \A i : i \in 1 .. n + 1 <=> i \in 1 .. n \/ i = n + 1
    BY <1>1 DEF n
  <2>4. m \in u.visited /\ \A i \in 1 .. n : s.stack[i] # m /\ entered.stack[i] = s.stack[i]
    BY <1>2, <1>5, <1>10 DEF n
  <2>5. entered.stack[n + 1] = m
    BY <1>5
  <2> HIDE DEF n
  <2>6. ASSUME NEW v PROVE v \in Left(t) <=> v \in Left(u) \/ v = m
    BY <2>1, <2>2, <2>3, <2>4, <2>5
  <2>7. QED
    BY <2>6
<1>14. ASSUME t.cycles = {} PROVE \A v \in Left(t) : next[v] \subseteq Left(t) /\ Escapes(next, v)
  <2>1. \A v \in Left(u) : next[v] \subseteq Left(u) /\ Escapes(next, v)
    BY <1>9, <1>12, <1>14 DEF Searched, IsSearch
  <2>2. next[m] \subseteq Left(u)
    BY <1>10, <1>12, <1>14
  <2>3. m \notin Left(u) /\ Left(u) \in SUBSET DOMAIN next
    <3>1. Len(u.stack) = n + 1 /\ u.stack[n + 1] = m /\ n + 1 \in 1 .. n + 1
      BY <1>1, <1>4, <1>5, <1>10 DEF n
    <3>2. QED
      BY <1>10, <3>1 DEF Left, Searches
  <2>4. Escapes(next, m)
    BY <2>1, <2>2, <2>3 DEF Escapes
  <2>5. QED
    BY <1>13, <2>1, <2>2, <2>4
<1>15. IsSearch(next, t)
  <2>1. t.stack \in Seq(t.visited)
    BY <1>1, <1>10, <1>12
  <2>2. AreDistinct(t.stack) /\ \A i \in 1 .. Len(t.stack) - 1 : t.stack[i + 1] \in next[t.stack[i]]
    BY <1>12 DEF IsSearch
  <2>3. \A c \in t.cycles : IsTold(next, c)
    BY <1>9, <1>12 DEF Searched, IsSearch
  <2>4. QED
    BY <1>12, <1>14, <2>1, <2>2, <2>3 DEF IsSearch
<1>16. Searched(next, s, {m}, t)
  BY <1>10, <1>12, <1>13, <1>15 DEF Searched
<1>17. QED
  BY <1>3, <1>16

LEMMA DfsHolds ==
  ASSUME NEW next, IsNext(next), NEW d \in Nat, NEW deeper, IsDeep(next, d, deeper)
  PROVE  \A s, m : IsSearch(next, s) /\ m \in DOMAIN next /\ Follows(next, s, m) /\ Len(s.stack) + d + 1 > Cardinality(DOMAIN next)
                     => Searched(next, s, {m}, Dfs(next, deeper, s, m))
<1>1. SUFFICES ASSUME NEW s, NEW m \in DOMAIN next, IsSearch(next, s), Follows(next, s, m),
                      Len(s.stack) + d + 1 > Cardinality(DOMAIN next)
               PROVE  Searched(next, s, {m}, Dfs(next, deeper, s, m))
  OBVIOUS
<1>2. CASE \E i \in 1 .. Len(s.stack) : s.stack[i] = m
  BY <1>1, <1>2, DfsMeets
<1>3. CASE m \notin s.visited
  BY <1>1, <1>3, DfsEnters
<1>4. CASE m \in Left(s)
  <2> DEFINE at == SelectInSeq(s.stack, LAMBDA x : x = m)
             met == {i \in 1 .. Len(s.stack) : s.stack[i] = m}
             entered == [s EXCEPT !.visited = @ \cup {m}, !.stack = Append(@, m)]
  <2>1. met = {}
    BY <1>4 DEF Left
  <2>2. at = 0
    BY <2>1 DEF SelectInSeq
  <2>3. Dfs(next, deeper, s, m) =
          CASE at # 0 -> [s EXCEPT !.cycles = @ \cup {NormalizeCycle(SubSeq(s.stack, at, Len(s.stack)))}]
            [] at = 0 /\ m \in s.visited -> s
            [] OTHER -> Leave(VisitAll(deeper, entered, InOrder(next[m])))
    BY DEF Dfs
  <2> HIDE DEF at, entered
  <2>4. Dfs(next, deeper, s, m) = s
    BY <1>4, <2>2, <2>3 DEF Left
  <2>5. QED
    BY <1>1, <1>4, <2>4 DEF Searched
<1>5. QED
  BY <1>2, <1>3, <1>4 DEF Left

LEMMA SearchTower ==
  ASSUME NEW next, IsNext(next)
  PROVE  LET depth == Cardinality(DOMAIN next) + 1 IN
         \E f : /\ IsTower(f, "search", next, depth)
                /\ DetectCycles(next) =
                     VisitAll(f[depth], [visited |-> {}, stack |-> << >>, cycles |-> {}], InOrder(DOMAIN next)).cycles
<1> DEFINE depth == Cardinality(DOMAIN next) + 1
           P(f) == f = [d \in 0 .. depth |-> SearchTo(next, d, f[d - 1])]
           f == CHOOSE f : P(f)
<1>1. depth \in Nat
  BY FS_CardinalityType DEF IsNext
<1>2. DetectCycles(next) = VisitAll(f[depth], [visited |-> {}, stack |-> << >>, cycles |-> {}], InOrder(DOMAIN next)).cycles
  BY DEF DetectCycles
<1> HIDE DEF depth
<1>3. \A x : P(x) <=> IsTower(x, "search", next, depth)
  BY DEF IsTower, Level
<1>4. \A x, y : Level("search", next, 0, x) = Level("search", next, 0, y)
  BY DEF Level, SearchTo
<1>5. \E x : IsTower(x, "search", next, depth)
  BY <1>1, <1>4, TowerExists
<1>6. P(f)
  BY <1>3, <1>5
<1> HIDE DEF f
<1>7. QED
  BY <1>2, <1>3, <1>6 DEF depth

LEMMA SearchIsDeep ==
  ASSUME NEW next, IsNext(next), NEW n \in Nat, NEW f, IsTower(f, "search", next, n)
  PROVE  IsDeep(next, n, f[n])
<1> DEFINE good == {d \in Nat : d <= n => IsDeep(next, d, f[d])}
<1>1. \A d \in 0 .. n : f[d] = SearchTo(next, d, f[d - 1])
  <2>1. \A d \in 0 .. n : f[d] = Level("search", next, d, f[d - 1])
    BY TowerLevels
  <2>2. \A d, lower : Level("search", next, d, lower) = SearchTo(next, d, lower)
    BY DEF Level
  <2>3. QED
    BY <2>1, <2>2
<1>2. Cardinality(DOMAIN next) \in Nat
  BY FS_CardinalityType DEF IsNext
<1>3. 0 \in good
  <2>1. ASSUME NEW s, IsSearch(next, s), Len(s.stack) + 0 > Cardinality(DOMAIN next) PROVE FALSE
    BY <1>2, <2>1, StackFits
  <2>2. QED
    BY <2>1 DEF IsDeep
<1>4. ASSUME NEW d \in Nat, d \in good PROVE d + 1 \in good
  <2>1. SUFFICES ASSUME d + 1 <= n PROVE IsDeep(next, d + 1, f[d + 1])
    OBVIOUS
  <2>2. d + 1 \in 0 .. n /\ d + 1 # 0 /\ d + 1 - 1 = d
    BY <2>1
  <2>3. f[d + 1] = SearchTo(next, d + 1, f[d])
    BY <1>1, <2>2
  <2>4. IsDeep(next, d, f[d])
    BY <1>4, <2>1
  <2>5. SUFFICES ASSUME NEW s, NEW m \in DOMAIN next, IsSearch(next, s), Follows(next, s, m),
                        Len(s.stack) + (d + 1) > Cardinality(DOMAIN next)
                 PROVE  Searched(next, s, {m}, f[d + 1][<<s, m>>])
    BY DEF IsDeep
  <2>6. f[d + 1][<<s, m>>] = Dfs(next, f[d], s, m)
    <3>1. s \in Searches(next)
      BY <2>5 DEF IsSearch
    <3>2. QED
      BY <2>2, <2>3, <3>1 DEF SearchTo
  <2>7. Len(s.stack) + d + 1 > Cardinality(DOMAIN next)
    <3>1. Len(s.stack) \in Nat
      BY <2>5, StackFits
    <3>2. \A a, c \in Nat : a + (d + 1) > c => a + d + 1 > c
      OBVIOUS
    <3>3. QED
      BY <1>2, <2>5, <3>1, <3>2
  <2>8. QED
    BY <2>4, <2>5, <2>6, <2>7, DfsHolds
<1>5. n \in good
  <2> HIDE DEF good
  <2>1. QED
    BY <1>3, <1>4, SetInduction
<1>6. QED
  BY <1>5

LEMMA CyclesAreFound ==
  ASSUME NEW next, IsNext(next)
  PROVE  /\ \A c \in DetectCycles(next) : IsTold(next, c)
         /\ DetectCycles(next) = {} => \A v \in DOMAIN next : Escapes(next, v)
<1> DEFINE depth == Cardinality(DOMAIN next) + 1
           s == [visited |-> {}, stack |-> << >>, cycles |-> {}]
           nodes == InOrder(DOMAIN next)
<1>1. depth \in Nat /\ Cardinality(DOMAIN next) \in Nat
  BY FS_CardinalityType DEF IsNext
<1>2. PICK f : /\ IsTower(f, "search", next, depth)
               /\ DetectCycles(next) = VisitAll(f[depth], s, nodes).cycles
  BY SearchTower
<1>3. IsDeep(next, depth, f[depth])
  BY <1>1, <1>2, SearchIsDeep
<1>4. PICK n \in Nat : DOMAIN nodes = 1 .. n /\ DOMAIN next = {nodes[i] : i \in 1 .. n}
  BY InOrderFacts DEF IsNext
<1>5. IsSearch(next, s) /\ Len(s.stack) = 0 /\ s.stack = << >>
  <2>1. s \in Searches(next) /\ s.stack \in Seq(s.visited) /\ Len(s.stack) = 0
    BY DEF Searches
  <2>2. Left(s) = {}
    BY DEF Left
  <2>3. QED
    BY <2>1, <2>2 DEF IsSearch, AreDistinct
<1> HIDE DEF s, nodes
<1> DEFINE t == VisitAll(f[depth], s, nodes)
<1>6. Searched(next, s, {nodes[i] : i \in 1 .. n}, t)
  <2>1. \A i \in 1 .. n : nodes[i] \in DOMAIN next /\ Follows(next, s, nodes[i])
    BY <1>4, <1>5 DEF Follows
  <2>2. Len(s.stack) + depth > Cardinality(DOMAIN next)
    BY <1>1, <1>5
  <2>3. DOMAIN nodes = 1 .. n
    BY <1>4
  <2>4. QED
    BY <1>3, <1>5, <2>1, <2>2, <2>3, VisitHolds, Zenon
<1> HIDE DEF t
<1>7. Searched(next, s, DOMAIN next, t)
  BY <1>4, <1>6
<1>8. DetectCycles(next) = t.cycles
  BY <1>2 DEF t
<1>9. QED
  BY <1>7, <1>8 DEF Searched, IsSearch

-----------------------------------------------------------------------------
(* What a module leads to in so many steps. *)
IsReach(reach, next, size) == reach = [k \in 0 .. size |-> ReachIn(next, k, reach[k - 1])]

ReachOf(next, size) == CHOOSE reach : IsReach(reach, next, size)

LEMMA ReachFacts ==
  ASSUME NEW next, NEW size \in Nat
  PROVE  IsReach(ReachOf(next, size), next, size)
<1>1. \A k, r : Level("reach", next, k, r) = ReachIn(next, k, r)
  BY DEF Level
<1>2. \A x, y : Level("reach", next, 0, x) = Level("reach", next, 0, y)
  BY <1>1 DEF ReachIn
<1>3. PICK f : IsTower(f, "reach", next, size)
  BY <1>2, TowerExists
<1>4. IsReach(f, next, size)
  BY <1>1, <1>3 DEF IsTower, IsReach
<1>5. QED
  BY <1>4 DEF ReachOf

LEMMA ReachSteps ==
  ASSUME NEW next, NEW size \in Nat, NEW reach, IsReach(reach, next, size), NEW m \in DOMAIN next
  PROVE  /\ reach[0][m] = next[m]
         /\ \A k \in 0 .. size - 1 : reach[k + 1][m] = reach[k][m] \cup Onward(next, reach[k][m])
<1>1. \A k \in 0 .. size : reach[k] = ReachIn(next, k, reach[k - 1])
  BY DEF IsReach
<1>2. reach[0][m] = next[m]
  <2>1. reach[0] = ReachIn(next, 0, reach[0 - 1])
    BY <1>1
  <2>2. QED
    BY <2>1 DEF ReachIn
<1>3. ASSUME NEW k \in 0 .. size - 1 PROVE reach[k + 1][m] = reach[k][m] \cup Onward(next, reach[k][m])
  <2>1. k + 1 \in 0 .. size /\ k + 1 # 0 /\ k + 1 - 1 = k
    OBVIOUS
  <2>2. reach[k + 1] = ReachIn(next, k + 1, reach[k])
    BY <1>1, <2>1
  <2>3. QED
    BY <2>1, <2>2 DEF ReachIn
<1>4. QED
  BY <1>2, <1>3

LEMMA EscapedIsNotReached ==
  ASSUME NEW next, NEW size \in Nat, NEW reach, IsReach(reach, next, size), NEW m \in DOMAIN next, Escapes(next, m)
  PROVE  m \notin reach[size][m]
<1>1. PICK S \in SUBSET DOMAIN next : m \notin S /\ next[m] \subseteq S /\ \A x \in S : next[x] \subseteq S
  BY DEF Escapes
<1> DEFINE good == {k \in Nat : k <= size => reach[k][m] \subseteq S}
<1>2. 0 \in good
  BY <1>1, ReachSteps
<1>3. ASSUME NEW k \in Nat, k \in good PROVE k + 1 \in good
  <2>1. SUFFICES ASSUME k + 1 <= size PROVE reach[k + 1][m] \subseteq S
    OBVIOUS
  <2>2. k \in 0 .. size - 1 /\ reach[k][m] \subseteq S
    BY <1>3, <2>1
  <2>3. reach[k + 1][m] = reach[k][m] \cup Onward(next, reach[k][m])
    BY <2>2, ReachSteps
  <2>4. QED
    BY <1>1, <2>2, <2>3 DEF Onward
<1>4. size \in good
  <2> HIDE DEF good
  <2>1. QED
    BY <1>2, <1>3, SetInduction
<1>5. QED
  BY <1>1, <1>4

LEMMA RingIsReached ==
  ASSUME NEW next, IsNext(next), NEW size, size = Cardinality(DOMAIN next), NEW reach, IsReach(reach, next, size),
         NEW c, IsRing(next, c)
  PROVE  \E m \in DOMAIN next : m \in reach[size][m]
<1> DEFINE n == Len(c)
           m == c[1]
<1>1. size \in Nat
  BY FS_CardinalityType DEF IsNext
<1>2. c \in Seq(DOMAIN next) /\ n \in Nat /\ n # 0 /\ m \in DOMAIN next
  BY DEF IsRing
<1>3. n <= size
  <2>1. c \in [1 .. n -> DOMAIN next] /\ \A i, j \in 1 .. n : c[i] = c[j] => i = j
    BY <1>2 DEF IsRing, AreDistinct
  <2> HIDE DEF n
  <2>2. c \in Injection(1 .. n, DOMAIN next)
    BY <2>1 DEF Injection, IsInjective
  <2>3. Cardinality(1 .. n) = n
    BY <1>2, FS_Interval
  <2>4. QED
    BY <2>2, <2>3, FS_Injection DEF IsNext
<1>4. \A i \in 1 .. n : c[IF i = n THEN 1 ELSE i + 1] \in next[c[i]]
  BY DEF IsRing
<1> HIDE DEF n, m
<1>4a. /\ reach[0][m] = next[m]
       /\ \A k \in 0 .. size - 1 : reach[k + 1][m] = reach[k][m] \cup Onward(next, reach[k][m])
  BY <1>1, <1>2, ReachSteps
<1> DEFINE good == {k \in Nat : k < n => c[IF k + 1 = n THEN 1 ELSE k + 1 + 1] \in reach[k][m]}
<1>5. 0 \in good
  <2>1. 1 \in 1 .. n /\ 0 + 1 = 1
    BY <1>2
  <2>2. c[IF 0 + 1 = n THEN 1 ELSE 0 + 1 + 1] \in next[m]
    BY <1>4, <2>1 DEF m
  <2>3. QED
    BY <1>4a, <2>2
<1>6. ASSUME NEW k \in Nat, k \in good PROVE k + 1 \in good
  <2>1. SUFFICES ASSUME k + 1 < n PROVE c[IF k + 1 + 1 = n THEN 1 ELSE k + 1 + 1 + 1] \in reach[k + 1][m]
    OBVIOUS
  <2>2. k + 1 # n /\ k < n /\ k + 1 + 1 \in 1 .. n /\ k \in 0 .. size - 1
    BY <1>1, <1>2, <1>3, <2>1
  <2>3. c[k + 1 + 1] \in reach[k][m]
    BY <1>6, <2>2
  <2>4. c[IF k + 1 + 1 = n THEN 1 ELSE k + 1 + 1 + 1] \in next[c[k + 1 + 1]]
    BY <1>4, <2>2
  <2>5. reach[k + 1][m] = reach[k][m] \cup Onward(next, reach[k][m])
    BY <1>4a, <2>2
  <2>6. QED
    BY <2>3, <2>4, <2>5 DEF Onward
<1>7. n - 1 \in good /\ n - 1 \in Nat
  <2>1. n - 1 \in Nat
    BY <1>2
  <2> HIDE DEF good
  <2>2. QED
    BY <1>5, <1>6, <2>1, SetInduction
<1>8. m \in reach[n - 1][m]
  <2>1. n - 1 < n /\ n - 1 + 1 = n
    BY <1>2
  <2>2. QED
    BY <1>7, <2>1 DEF m
<1> DEFINE more == {k \in Nat : n - 1 <= k /\ k <= size => m \in reach[k][m]}
<1>9. 0 \in more
  <2>1. n - 1 <= 0 => n - 1 = 0
    BY <1>2
  <2>2. QED
    BY <1>8, <2>1
<1>10. ASSUME NEW k \in Nat, k \in more PROVE k + 1 \in more
  <2>1. SUFFICES ASSUME n - 1 <= k + 1, k + 1 <= size PROVE m \in reach[k + 1][m]
    OBVIOUS
  <2>2. CASE n - 1 = k + 1
    BY <1>8, <2>2
  <2>3. CASE n - 1 # k + 1
    <3>1. n - 1 <= k /\ k <= size /\ k \in 0 .. size - 1
      BY <1>1, <1>2, <2>1, <2>3
    <3>2. reach[k + 1][m] = reach[k][m] \cup Onward(next, reach[k][m])
      BY <1>4a, <3>1
    <3>3. QED
      BY <1>10, <3>1, <3>2
  <2>4. QED
    BY <2>2, <2>3
<1>11. size \in more
  <2> HIDE DEF more
  <2>1. QED
    BY <1>1, <1>9, <1>10, SetInduction
<1>12. n - 1 <= size
  BY <1>1, <1>2, <1>3
<1>13. QED
  BY <1>1, <1>2, <1>11, <1>12

LEMMA CycleHolds ==
  ASSUME NEW next, IsNext(next)
  PROVE  CycleIsTold(next)
<1> DEFINE size == Cardinality(DOMAIN next)
           reach == ReachOf(next, size)
           cycles == DetectCycles(next)
<1>1. size \in Nat
  BY FS_CardinalityType DEF IsNext
<1>2. IsReach(reach, next, size)
  BY <1>1, ReachFacts
<1>3. \A c \in cycles : IsTold(next, c)
  BY CyclesAreFound
<1>4. cycles = {} => \A v \in DOMAIN next : Escapes(next, v)
  BY CyclesAreFound
<1>5. CycleIsTold(next) <=>
        /\ cycles # {} <=> \E m \in DOMAIN next : m \in reach[size][m]
        /\ \A c \in cycles :
             /\ \A i \in DOMAIN c : c[IF i = Len(c) THEN 1 ELSE i + 1] \in next[c[i]]
             /\ \A d \in cycles : ToSet(c) = ToSet(d) /\ Len(c) = 2 => c = d
  BY DEF CycleIsTold, ReachOf, IsReach, ReachIn, Onward
<1> HIDE DEF cycles, reach
<1>6. cycles # {} => \E m \in DOMAIN next : m \in reach[size][m]
  <2> HIDE DEF size
  <2>1. size = Cardinality(DOMAIN next)
    BY DEF size
  <2>2. QED
    BY <1>2, <1>3, <2>1, RingIsReached DEF IsTold
<1>7. cycles = {} => \A m \in DOMAIN next : m \notin reach[size][m]
  <2> HIDE DEF size
  <2>1. QED
    BY <1>1, <1>2, <1>4, EscapedIsNotReached
<1>8. ASSUME NEW c \in cycles, NEW i \in DOMAIN c PROVE c[IF i = Len(c) THEN 1 ELSE i + 1] \in next[c[i]]
  <2>1. IsRing(next, c)
    BY <1>3 DEF IsTold
  <2>2. i \in 1 .. Len(c)
    BY <2>1 DEF IsRing
  <2>3. QED
    BY <2>1, <2>2 DEF IsRing
<1>9. ASSUME NEW c \in cycles, NEW d \in cycles, ToSet(c) = ToSet(d), Len(c) = 2 PROVE c = d
  <2>1. /\ c \in Seq(DOMAIN next) /\ d \in Seq(DOMAIN next) /\ c # << >> /\ d # << >>
        /\ AreDistinct(c) /\ AreDistinct(d)
        /\ \A j \in 1 .. Len(c) : c[1] <= c[j]
        /\ \A j \in 1 .. Len(d) : d[1] <= d[j]
    BY <1>3 DEF IsTold, IsRing
  <2>2. 1 .. Len(c) = {1, 2} /\ DOMAIN c = {1, 2}
    BY <1>9, <2>1
  <2>3. ToSet(c) = {c[1], c[2]} /\ c[1] # c[2] /\ c[1] <= c[2]
    BY <2>1, <2>2 DEF ToSet, AreDistinct
  <2>4. Len(d) \in Nat /\ Len(d) # 0 /\ DOMAIN d = 1 .. Len(d) /\ ToSet(d) = {d[j] : j \in 1 .. Len(d)}
    BY <2>1 DEF ToSet
  <2>5. \A j \in 1 .. Len(d) : d[j] \in {c[1], c[2]}
    BY <1>9, <2>3, <2>4
  <2>6. Len(d) = 2
    <3>1. ASSUME Len(d) = 1 PROVE FALSE
      <4>1. \A j \in 1 .. Len(d) : j = 1
        BY <3>1
      <4>2. \A x \in ToSet(d) : x = d[1]
        BY <2>4, <4>1
      <4>3. QED
        BY <1>9, <2>3, <4>2
    <3>2. ASSUME Len(d) > 2 PROVE FALSE
      <4>1. 1 \in 1 .. Len(d) /\ 2 \in 1 .. Len(d) /\ 3 \in 1 .. Len(d)
        BY <2>4, <3>2
      <4>2. d[1] # d[2] /\ d[1] # d[3] /\ d[2] # d[3]
        BY <2>1, <4>1 DEF AreDistinct
      <4>3. QED
        BY <2>5, <4>1, <4>2
    <3>3. QED
      BY <2>4, <3>1, <3>2
  <2>7. d[1] \in {c[1], c[2]} /\ d[2] \in {c[1], c[2]} /\ d[1] # d[2] /\ d[1] <= d[2]
    <3>1. 1 \in 1 .. Len(d) /\ 2 \in 1 .. Len(d)
      BY <2>6
    <3>2. QED
      BY <2>1, <2>5, <3>1 DEF AreDistinct
  <2>8. c[1] \in Nat /\ c[2] \in Nat
    <3>1. 1 \in 1 .. Len(c) /\ 2 \in 1 .. Len(c) /\ \A j \in 1 .. Len(c) : c[j] \in DOMAIN next
      BY <2>1, <2>2
    <3>2. QED
      BY <3>1 DEF IsNext
  <2>9. d[1] = c[1] /\ d[2] = c[2]
    BY <2>3, <2>7, <2>8
  <2>10. QED
    BY <1>9, <2>1, <2>6, <2>9
<1>10. QED
  BY <1>5, <1>6, <1>7, <1>8, <1>9

-----------------------------------------------------------------------------
(* What the modules of a project have. *)
AllClasses(p) == UNION {{p[f].classes[i] : i \in DOMAIN p[f].classes} : f \in DOMAIN p}

LEMMA ProjectFacts ==
  ASSUME NEW p, IsList(p)
  PROVE  /\ Len(p) \in Nat /\ DOMAIN p = 1 .. Len(p) /\ IsFiniteSet(DOMAIN p)
         /\ IsFiniteSet(ModuleFiles(p)) /\ ModuleFiles(p) \subseteq DOMAIN p
         /\ \A m \in ModuleFiles(p) : m \in Nat /\ m # 0
<1>1. Len(p) \in Nat /\ DOMAIN p = 1 .. Len(p)
  BY ListFacts
<1>2. IsFiniteSet(DOMAIN p)
  BY <1>1, FS_Interval
<1>3. ModuleFiles(p) \subseteq DOMAIN p
  BY DEF ModuleFiles
<1>4. IsFiniteSet(ModuleFiles(p))
  BY <1>2, <1>3, FS_Subset
<1>5. QED
  BY <1>1, <1>2, <1>3, <1>4

LEMMA ClassesAreList ==
  ASSUME NEW p, IsList(p), IsProject(p), NEW m
  PROVE  Classes(p, m) \in Seq(AllClasses(p))
<1> DEFINE files == InOrder(Owned(p, m))
           S == AllClasses(p)
<1>1. Owned(p, m) \subseteq DOMAIN p /\ IsFiniteSet(Owned(p, m)) /\ Owned(p, m) \subseteq Nat
  <2>1. Owned(p, m) \subseteq DOMAIN p
    BY DEF Owned
  <2>2. QED
    BY <2>1, ProjectFacts, FS_Subset
<1>2. PICK n \in Nat : DOMAIN files = 1 .. n /\ Owned(p, m) = {files[i] : i \in 1 .. n}
  BY <1>1, InOrderFacts
<1> HIDE DEF files, S
<1>3. \A i \in 1 .. n : p[files[i]].classes \in Seq(S)
  <2>1. SUFFICES ASSUME NEW i \in 1 .. n PROVE p[files[i]].classes \in Seq(S)
    OBVIOUS
  <2>2. files[i] \in DOMAIN p
    BY <1>1, <1>2
  <2>3. IsList(p[files[i]].classes) /\ \A j \in DOMAIN p[files[i]].classes : p[files[i]].classes[j] \in S
    BY <2>2 DEF IsProject, AllClasses, S
  <2>4. QED
    BY <2>3, ListFacts
<1> DEFINE P(it) == it = [u \in SUBSET (1 .. n) |-> IF u = {} THEN << >> ELSE it[u \ {Max(u)}] \o p[files[Max(u)]].classes]
           it == CHOOSE it : P(it)
<1>4. Classes(p, m) = it[1 .. n]
  BY <1>2 DEF Classes, FoldLeft, MapThenFoldSet, files
<1>5. \A x : P(x) <=> IsFold(x, "classes", p, << >>, files, n)
  <2>1. \A u, f : f[u \ {Max(u)}] \o p[files[Max(u)]].classes = Step("classes", p, f[u \ {Max(u)}], files[Max(u)])
    BY ZenonT(40) DEF Step
  <2>2. QED
    BY <2>1 DEF IsFold
<1>6. P(it)
  BY <1>5, FoldExists
<1>7. IsFold(it, "classes", p, << >>, files, n)
  BY <1>5, <1>6
<1> HIDE DEF it
<1> DEFINE tr == [k \in 0 .. n |-> it[1 .. k]]
<1>8. IsRun(tr, "classes", p, << >>, files, n)
  BY <1>7, FoldRuns
<1>9. tr[n] = it[1 .. n]
  OBVIOUS
<1> HIDE DEF tr
<1> DEFINE good == {k \in Nat : k <= n => tr[k] \in Seq(S)}
<1>10. 0 \in good
  <2>1. tr[0] = << >>
    BY <1>8 DEF IsRun
  <2>2. << >> \in Seq(S)
    OBVIOUS
  <2>3. QED
    BY <2>1, <2>2
<1>11. ASSUME NEW k \in Nat, k \in good PROVE k + 1 \in good
  <2>1. SUFFICES ASSUME k + 1 <= n PROVE tr[k + 1] \in Seq(S)
    OBVIOUS
  <2>2. k \in 0 .. n - 1 /\ k + 1 \in 1 .. n /\ tr[k] \in Seq(S)
    BY <1>11, <2>1
  <2>3. tr[k + 1] = tr[k] \o p[files[k + 1]].classes
    BY <1>8, <2>2 DEF IsRun, Step
  <2>4. QED
    BY <1>3, <2>2, <2>3
<1>12. n \in good
  <2> HIDE DEF good
  <2>1. QED
    BY <1>10, <1>11, SetInduction
<1>13. QED
  BY <1>4, <1>9, <1>12 DEF S

(* A token is provided by an injectable class of its name. *)
IsProvided(p, m, ps, k) ==
  /\ \A x \in DOMAIN ps : \E l \in 1 .. k : LET c == Classes(p, m)[l] IN c.injectable /\ c.name = x /\ ps[x] = Decorated(p, m, c)
  /\ \A l \in 1 .. k : Classes(p, m)[l].injectable => Classes(p, m)[l].name \in DOMAIN ps

LEMMA ImplicitFacts ==
  ASSUME NEW p, IsList(p), IsProject(p), NEW m
  PROVE  IsProvided(p, m, Implicit(p, m), Len(Classes(p, m)))
<1> DEFINE classes == Classes(p, m)
           n == Len(classes)
           d == [p |-> p, m |-> m]
<1>1. n \in Nat /\ DOMAIN classes = 1 .. n
  BY ClassesAreList
<1> HIDE DEF classes, n
<1> DEFINE P(it) == it = [u \in SUBSET (1 .. n) |->
                            IF u = {} THEN << >>
                            ELSE IF classes[Max(u)].injectable
                                 THEN With(it[u \ {Max(u)}], classes[Max(u)].name, Decorated(p, m, classes[Max(u)]))
                                 ELSE it[u \ {Max(u)}]]
           it == CHOOSE it : P(it)
<1>2. Implicit(p, m) = it[1 .. n]
  BY <1>1 DEF Implicit, FoldLeft, MapThenFoldSet, classes
<1>3. \A x : P(x) <=> IsFold(x, "implicit", d, << >>, classes, n)
  <2>1. \A s, x : Step("implicit", d, s, x) = IF x.injectable THEN With(s, x.name, Decorated(p, m, x)) ELSE s
    BY DEF Step
  <2> HIDE DEF d
  <2>2. QED
    BY <2>1 DEF IsFold
<1>4. P(it)
  BY <1>1, <1>3, FoldExists
<1>5. IsFold(it, "implicit", d, << >>, classes, n)
  BY <1>3, <1>4
<1> HIDE DEF it
<1> DEFINE tr == [k \in 0 .. n |-> it[1 .. k]]
<1>6. IsRun(tr, "implicit", d, << >>, classes, n)
  BY <1>1, <1>5, FoldRuns
<1>7. tr[n] = it[1 .. n]
  BY <1>1
<1> HIDE DEF tr
<1> DEFINE good == {k \in Nat : k <= n => IsProvided(p, m, tr[k], k)}
<1>8. 0 \in good
  <2>1. tr[0] = << >> /\ DOMAIN << >> = {} /\ 1 .. 0 = {}
    BY <1>6 DEF IsRun
  <2>2. QED
    BY <2>1 DEF IsProvided
<1>9. ASSUME NEW k \in Nat, k \in good PROVE k + 1 \in good
  <2>1. SUFFICES ASSUME k + 1 <= n PROVE IsProvided(p, m, tr[k + 1], k + 1)
    OBVIOUS
  <2>2. k \in 0 .. n - 1 /\ IsProvided(p, m, tr[k], k)
    BY <1>1, <1>9, <2>1
  <2> DEFINE c == classes[k + 1]
  <2>3. tr[k + 1] = IF c.injectable THEN With(tr[k], c.name, Decorated(p, m, c)) ELSE tr[k]
    BY <1>6, <2>2 DEF IsRun, Step
  <2>4. \A l : l \in 1 .. k + 1 <=> l \in 1 .. k \/ l = k + 1
    OBVIOUS
  <2>5. CASE ~c.injectable
    BY <2>2, <2>3, <2>4, <2>5 DEF IsProvided, classes
  <2>6. CASE c.injectable
    <3>1. tr[k + 1] = With(tr[k], c.name, Decorated(p, m, c))
      BY <2>3, <2>6
    <3>2. /\ DOMAIN tr[k + 1] = DOMAIN tr[k] \cup {c.name} /\ tr[k + 1][c.name] = Decorated(p, m, c)
          /\ \A x \in DOMAIN tr[k] : x # c.name => tr[k + 1][x] = tr[k][x]
      BY <3>1 DEF With
    <3>3. QED
      BY <2>2, <2>4, <2>6, <3>2 DEF IsProvided, classes
  <2>7. QED
    BY <2>5, <2>6
<1>10. n \in good
  <2> HIDE DEF good
  <2>1. QED
    BY <1>1, <1>8, <1>9, SetInduction
<1>11. QED
  BY <1>1, <1>2, <1>7, <1>10 DEF n, classes

-----------------------------------------------------------------------------
(* What a definition lists changes the providers of its tokens alone. *)
FirstNode(p, m) ==
  [name |-> NameOf(p, m), classes |-> Classes(p, m), injects |-> Injects(p, m),
   providers |-> Implicit(p, m), ambiguous |-> FALSE]

LEMMA NodeRuns ==
  ASSUME NEW p, NEW m, IsList(p[m].providers)
  PROVE  \E tr : IsRun(tr, "explicit", [p |-> p, m |-> m], FirstNode(p, m), p[m].providers, Len(p[m].providers))
                 /\ Node(p, m) = tr[Len(p[m].providers)]
<1> DEFINE list == p[m].providers
           n == Len(list)
           base == FirstNode(p, m)
           d == [p |-> p, m |-> m]
<1>1. n \in Nat /\ DOMAIN list = 1 .. n
  BY ListFacts
<1> HIDE DEF list, n
<1> DEFINE P(it) == it = [u \in SUBSET (1 .. n) |->
                            IF u = {} THEN base ELSE Explicit(p, m, it[u \ {Max(u)}], list[Max(u)])]
           it == CHOOSE it : P(it)
<1>2. Node(p, m) = it[1 .. n]
  BY <1>1 DEF Node, FoldLeft, MapThenFoldSet, list, FirstNode
<1> HIDE DEF base
<1>3. \A x : P(x) <=> IsFold(x, "explicit", d, base, list, n)
  <2>1. \A s, x : Step("explicit", d, s, x) = Explicit(p, m, s, x)
    BY DEF Step
  <2> HIDE DEF d
  <2>2. QED
    BY <2>1 DEF IsFold
<1>4. P(it)
  BY <1>1, <1>3, FoldExists
<1>5. IsFold(it, "explicit", d, base, list, n)
  BY <1>3, <1>4
<1> HIDE DEF it
<1> DEFINE tr == [k \in 0 .. n |-> it[1 .. k]]
<1>6. IsRun(tr, "explicit", d, base, list, n)
  BY <1>1, <1>5, FoldRuns
<1>7. tr[n] = it[1 .. n]
  BY <1>1
<1> HIDE DEF tr
<1>8. QED
  BY <1>2, <1>6, <1>7 DEF base, list, n

(* s: a node while its definition is read. *)
IsNode(p, m, s) ==
  s = [name |-> NameOf(p, m), classes |-> Classes(p, m), injects |-> Injects(p, m),
       providers |-> s.providers, ambiguous |-> s.ambiguous]

IsUntouched(x, t, s) ==
  /\ x \in DOMAIN t.providers <=> x \in DOMAIN s.providers
  /\ x \in DOMAIN s.providers => t.providers[x] = s.providers[x]

LEMMA ExplicitFacts ==
  ASSUME NEW p, NEW m, NEW s, IsNode(p, m, s), NEW e
  PROVE  /\ IsNode(p, m, Explicit(p, m, s, e))
         /\ \A x : x # e.token => IsUntouched(x, Explicit(p, m, s, e), s)
<1> DEFINE new == Provider(p, m, e.options, e.use, e.of, e.inject)
           t == Explicit(p, m, s, e)
           merged == Merged(s.providers[e.token], new)
<1>1. t = CASE e.kind = "spread" -> s
            [] e.kind # "spread" /\ e.token \in DOMAIN s.providers /\ ~IsImplicit(s.providers[e.token]) -> [s EXCEPT !.ambiguous = TRUE]
            [] e.kind = "ref" /\ e.token \in DOMAIN s.providers /\ IsImplicit(s.providers[e.token]) ->
                 [s EXCEPT !.providers = With(@, e.token, merged)]
            [] OTHER -> [s EXCEPT !.providers = With(@, e.token, new)]
  BY DEF Explicit
<1> HIDE DEF t, new, merged
<1>2. \/ t = s
      \/ t = [s EXCEPT !.ambiguous = TRUE]
      \/ \E y : t = [s EXCEPT !.providers = With(@, e.token, y)]
  BY <1>1
<1>3. CASE t = s
  BY <1>3 DEF t, IsUntouched
<1>4. CASE t = [s EXCEPT !.ambiguous = TRUE]
  <2>1. PICK ps, a : s = [name |-> NameOf(p, m), classes |-> Classes(p, m), injects |-> Injects(p, m), providers |-> ps, ambiguous |-> a]
    BY DEF IsNode
  <2>2. t = [name |-> NameOf(p, m), classes |-> Classes(p, m), injects |-> Injects(p, m), providers |-> ps, ambiguous |-> TRUE]
    BY <1>4, <2>1
  <2>3. IsNode(p, m, t) /\ t.providers = ps /\ s.providers = ps
    BY <2>1, <2>2 DEF IsNode
  <2>4. QED
    BY <2>3 DEF t, IsUntouched
<1>5. CASE \E y : t = [s EXCEPT !.providers = With(@, e.token, y)]
  <2>1. PICK y : t = [s EXCEPT !.providers = With(@, e.token, y)]
    BY <1>5
  <2>2. IsNode(p, m, t) /\ t.providers = With(s.providers, e.token, y)
    BY <2>1 DEF IsNode
  <2>3. ASSUME NEW x, x # e.token
        PROVE  IsUntouched(x, t, s)
    BY <2>2, <2>3 DEF With, IsUntouched
  <2>4. QED
    BY <2>2, <2>3 DEF t
<1>6. QED
  BY <1>2, <1>3, <1>4, <1>5

(* From k to l no entry of the list has the token x. *)
NoneListed(p, m, x, k, l) == \A i \in k + 1 .. l : p[m].providers[i].token # x

LEMMA UntouchedStays ==
  ASSUME NEW p, NEW m, IsList(p[m].providers), NEW tr,
         IsRun(tr, "explicit", [p |-> p, m |-> m], FirstNode(p, m), p[m].providers, Len(p[m].providers)),
         NEW x, NEW k \in Nat, NEW l \in Nat, k <= l, l <= Len(p[m].providers), IsNode(p, m, tr[k]),
         NoneListed(p, m, x, k, l)
  PROVE  /\ IsNode(p, m, tr[l])
         /\ x \in DOMAIN tr[l].providers <=> x \in DOMAIN tr[k].providers
         /\ x \in DOMAIN tr[k].providers => tr[l].providers[x] = tr[k].providers[x]
<1> DEFINE P(i) == /\ IsNode(p, m, tr[i])
                   /\ x \in DOMAIN tr[i].providers <=> x \in DOMAIN tr[k].providers
                   /\ x \in DOMAIN tr[k].providers => tr[i].providers[x] = tr[k].providers[x]
           good == {i \in Nat : k <= i /\ i <= l => P(i)}
<1>1. Len(p[m].providers) \in Nat
  BY DEF IsList
<1>2. P(k)
  OBVIOUS
<1>3. 0 \in good
  <2>1. k <= 0 => k = 0
    OBVIOUS
  <2> HIDE DEF P
  <2>2. QED
    BY <1>2, <2>1
<1>4. ASSUME NEW i \in Nat, i \in good PROVE i + 1 \in good
  <2> HIDE DEF P
  <2>1. SUFFICES ASSUME k <= i + 1, i + 1 <= l PROVE P(i + 1)
    OBVIOUS
  <2>2. CASE k = i + 1
    BY <1>2, <2>2
  <2>3. CASE k # i + 1
    <3>1. k <= i /\ i <= l /\ i + 1 \in k + 1 .. l /\ i \in 0 .. Len(p[m].providers) - 1
      BY <1>1, <2>1, <2>3
    <3>2. P(i)
      BY <1>4, <3>1
    <3>3. tr[i + 1] = Explicit(p, m, tr[i], p[m].providers[i + 1])
      BY <3>1 DEF IsRun, Step
    <3>4. x # p[m].providers[i + 1].token
      BY <3>1 DEF NoneListed
    <3>5. IsNode(p, m, tr[i])
      BY <3>2 DEF P
    <3>6. /\ IsNode(p, m, tr[i + 1])
          /\ x \in DOMAIN tr[i + 1].providers <=> x \in DOMAIN tr[i].providers
          /\ x \in DOMAIN tr[i].providers => tr[i + 1].providers[x] = tr[i].providers[x]
      <4>1. /\ IsNode(p, m, Explicit(p, m, tr[i], p[m].providers[i + 1]))
            /\ \A y : y # p[m].providers[i + 1].token => IsUntouched(y, Explicit(p, m, tr[i], p[m].providers[i + 1]), tr[i])
        BY <3>5, ExplicitFacts
      <4>2. QED
        BY <3>3, <3>4, <4>1 DEF IsUntouched
    <3>7. QED
      BY <3>2, <3>6 DEF P
  <2>4. QED
    BY <2>2, <2>3
<1>5. l \in good
  <2> HIDE DEF good
  <2>1. QED
    BY <1>3, <1>4, SetInduction
<1>6. P(l)
  <2> HIDE DEF P
  <2>1. QED
    BY <1>5
<1>7. QED
  BY <1>6

LEMMA FirstIsNode ==
  ASSUME NEW p, NEW m
  PROVE  IsNode(p, m, FirstNode(p, m)) /\ FirstNode(p, m).providers = Implicit(p, m)
BY DEF IsNode, FirstNode

(* A class that the definition does not list is what its decorator says. *)
LEMMA UnlistedStays ==
  ASSUME NEW p, NEW m, IsList(p[m].providers), NEW x, \A i \in DOMAIN p[m].providers : p[m].providers[i].token # x
  PROVE  /\ x \in DOMAIN Node(p, m).providers <=> x \in DOMAIN Implicit(p, m)
         /\ x \in DOMAIN Implicit(p, m) => Node(p, m).providers[x] = Implicit(p, m)[x]
<1> DEFINE n == Len(p[m].providers)
<1>1. PICK tr : /\ IsRun(tr, "explicit", [p |-> p, m |-> m], FirstNode(p, m), p[m].providers, n)
                /\ Node(p, m) = tr[n]
  BY NodeRuns
<1>2. n \in Nat /\ DOMAIN p[m].providers = 1 .. n
  BY ListFacts
<1>3. tr[0] = FirstNode(p, m)
  BY <1>1 DEF IsRun
<1>4. IsNode(p, m, tr[0]) /\ tr[0].providers = Implicit(p, m)
  BY <1>3, FirstIsNode
<1>5. NoneListed(p, m, x, 0, n)
  BY <1>2 DEF NoneListed
<1>6. /\ x \in DOMAIN tr[n].providers <=> x \in DOMAIN tr[0].providers
      /\ x \in DOMAIN tr[0].providers => tr[n].providers[x] = tr[0].providers[x]
  <2>1. IsRun(tr, "explicit", [p |-> p, m |-> m], FirstNode(p, m), p[m].providers, n) /\ IsNode(p, m, tr[0])
    BY <1>1, <1>4
  <2>2. 0 \in Nat /\ 0 <= n /\ n <= n
    BY <1>2
  <2>3. QED
    BY <1>2, <1>5, <2>1, <2>2, UntouchedStays
<1>7. QED
  BY <1>1, <1>4, <1>6

LEMMA NodeIsNode ==
  ASSUME NEW p, NEW m, IsList(p[m].providers)
  PROVE  IsNode(p, m, Node(p, m))
<1> DEFINE n == Len(p[m].providers)
<1>1. PICK tr : /\ IsRun(tr, "explicit", [p |-> p, m |-> m], FirstNode(p, m), p[m].providers, n)
                /\ Node(p, m) = tr[n]
  BY NodeRuns
<1>2. n \in Nat
  BY ListFacts
<1>3. tr[0] = FirstNode(p, m)
  BY <1>1 DEF IsRun
<1> DEFINE good == {i \in Nat : i <= n => IsNode(p, m, tr[i])}
<1>4. 0 \in good
  BY <1>3, FirstIsNode
<1>5. ASSUME NEW i \in Nat, i \in good PROVE i + 1 \in good
  <2>1. SUFFICES ASSUME i + 1 <= n PROVE IsNode(p, m, tr[i + 1])
    OBVIOUS
  <2>2. i \in 0 .. n - 1 /\ IsNode(p, m, tr[i])
    BY <1>2, <1>5, <2>1
  <2>3. tr[i + 1] = Explicit(p, m, tr[i], p[m].providers[i + 1])
    BY <1>1, <2>2 DEF IsRun, Step
  <2>4. QED
    BY <2>2, <2>3, ExplicitFacts
<1>6. n \in good
  <2> HIDE DEF good
  <2>1. QED
    BY <1>2, <1>4, <1>5, SetInduction
<1>7. QED
  BY <1>1, <1>2, <1>6

(* A class that is listed once, by itself, keeps what its decorator says. *)
LEMMA ListedStays ==
  ASSUME NEW p, IsList(p), IsProject(p), NEW m \in DOMAIN p, NEW i \in DOMAIN p[m].providers,
         p[m].providers[i].kind = "ref", p[m].providers[i].options.visibleTo.kind = "absent",
         p[m].providers[i].token \in DOMAIN Implicit(p, m),
         \A j \in DOMAIN p[m].providers : p[m].providers[j].token = p[m].providers[i].token => j = i
  PROVE  LET x == Node(p, m).providers[p[m].providers[i].token]
             y == Implicit(p, m)[p[m].providers[i].token]
         IN x.visibility = y.visibility /\ x.visibleTo = y.visibleTo /\ x.params = y.params
<1> DEFINE list == p[m].providers
           n == Len(list)
           e == list[i]
           y == Implicit(p, m)[e.token]
<1>1. IsList(list) /\ n \in Nat /\ DOMAIN list = 1 .. n /\ i \in 1 .. n
  BY ListFacts DEF IsProject
<1>2. PICK tr : /\ IsRun(tr, "explicit", [p |-> p, m |-> m], FirstNode(p, m), list, n)
                /\ Node(p, m) = tr[n]
  BY <1>1, NodeRuns
<1>3. IsNode(p, m, tr[0]) /\ tr[0].providers = Implicit(p, m)
  BY <1>2, FirstIsNode DEF IsRun
<1>4. /\ IsNode(p, m, tr[i - 1])
      /\ e.token \in DOMAIN tr[i - 1].providers /\ tr[i - 1].providers[e.token] = y
  <2>1. i - 1 \in Nat /\ 0 <= i - 1 /\ i - 1 <= n /\ \A j \in 0 + 1 .. i - 1 : j \in DOMAIN list /\ j # i
    BY <1>1
  <2>2. NoneListed(p, m, e.token, 0, i - 1)
    BY <2>1 DEF NoneListed
  <2>3. /\ IsNode(p, m, tr[i - 1])
        /\ e.token \in DOMAIN tr[i - 1].providers <=> e.token \in DOMAIN tr[0].providers
        /\ e.token \in DOMAIN tr[0].providers => tr[i - 1].providers[e.token] = tr[0].providers[e.token]
    BY <1>1, <1>2, <1>3, <2>1, <2>2, UntouchedStays
  <2>4. QED
    BY <1>3, <2>3
<1>5. /\ y.use = "itself"
      /\ y = [visibility |-> y.visibility, visibleTo |-> y.visibleTo, scope |-> y.scope, use |-> y.use, of |-> y.of, params |-> y.params]
  <2>1. PICK c : y = Decorated(p, m, c)
    BY ImplicitFacts DEF IsProvided
  <2>2. QED
    BY <2>1 DEF Decorated, Provider
<1> DEFINE new == Provider(p, m, e.options, e.use, e.of, e.inject)
<1>6. new.visibility = "module"
  BY DEF Provider, ResolveVisibility
<1> HIDE DEF new
<1>7. /\ IsNode(p, m, tr[i])
      /\ e.token \in DOMAIN tr[i].providers /\ tr[i].providers[e.token] = Merged(y, new)
  <2>1. i - 1 \in 0 .. n - 1 /\ i - 1 + 1 = i
    BY <1>1
  <2>2. tr[i] = Explicit(p, m, tr[i - 1], e)
    BY <1>2, <2>1 DEF IsRun, Step
  <2>3. IsImplicit(tr[i - 1].providers[e.token])
    BY <1>4, <1>5 DEF IsImplicit
  <2>4. tr[i] = [tr[i - 1] EXCEPT !.providers = With(@, e.token, Merged(y, new))]
    BY <1>4, <2>2, <2>3 DEF Explicit, new
  <2>5. tr[i].providers = With(tr[i - 1].providers, e.token, Merged(y, new))
    BY <1>4, <2>4 DEF IsNode
  <2>6. QED
    BY <1>4, <2>2, <2>5, ExplicitFacts DEF With
<1>8. Merged(y, new).visibility = y.visibility /\ Merged(y, new).visibleTo = y.visibleTo /\ Merged(y, new).params = y.params
  BY <1>5, <1>6 DEF Merged
<1>9. Node(p, m).providers[e.token] = Merged(y, new)
  <2>1. i \in Nat /\ i <= n /\ n <= n /\ \A j \in i + 1 .. n : j \in DOMAIN list /\ j # i
    BY <1>1
  <2>2. NoneListed(p, m, e.token, i, n)
    BY <2>1 DEF NoneListed
  <2>3. /\ IsNode(p, m, tr[n])
        /\ e.token \in DOMAIN tr[n].providers <=> e.token \in DOMAIN tr[i].providers
        /\ e.token \in DOMAIN tr[i].providers => tr[n].providers[e.token] = tr[i].providers[e.token]
    BY <1>1, <1>2, <1>7, <2>1, <2>2, UntouchedStays
  <2>4. QED
    BY <1>2, <1>7, <2>3
<1>10. QED
  BY <1>8, <1>9

LEMMA GraphFacts ==
  ASSUME NEW p, IsList(p)
  PROVE  /\ DOMAIN Graph(p).modules = ModuleFiles(p)
         /\ \A m \in ModuleFiles(p) : Graph(p).modules[m] = Node(p, m)
         /\ Graph(p).classMap = ClassMap(Graph(p).modules)
<1> DEFINE files == InOrder(ModuleFiles(p))
           modules == FoldLeft(LAMBDA ms, m : With(ms, m, Node(p, m)), << >>, files)
<1>1. Graph(p) = [modules |-> modules, classMap |-> ClassMap(modules)]
  BY DEF Graph, WithClassMap
<1>2. PICK n \in Nat : DOMAIN files = 1 .. n /\ ModuleFiles(p) = {files[i] : i \in 1 .. n}
  BY ProjectFacts, InOrderFacts
<1> HIDE DEF files
<1> DEFINE P(it) == it = [u \in SUBSET (1 .. n) |->
                            IF u = {} THEN << >> ELSE With(it[u \ {Max(u)}], files[Max(u)], Node(p, files[Max(u)]))]
           it == CHOOSE it : P(it)
<1>3. modules = it[1 .. n]
  BY <1>2 DEF FoldLeft, MapThenFoldSet
<1> HIDE DEF modules
<1>4. \A x : P(x) <=> IsFold(x, "nodes", p, << >>, files, n)
  <2>1. \A s, x : Step("nodes", p, s, x) = With(s, x, Node(p, x))
    BY DEF Step
  <2>2. QED
    BY <2>1 DEF IsFold
<1>5. P(it)
  BY <1>4, FoldExists
<1>6. IsFold(it, "nodes", p, << >>, files, n)
  BY <1>4, <1>5
<1> HIDE DEF it
<1> DEFINE tr == [k \in 0 .. n |-> it[1 .. k]]
<1>7. IsRun(tr, "nodes", p, << >>, files, n)
  BY <1>6, FoldRuns
<1>8. tr[n] = it[1 .. n]
  OBVIOUS
<1> HIDE DEF tr
<1> DEFINE upTo(k) == {files[i] : i \in 1 .. k}
           holds(k) == DOMAIN tr[k] = upTo(k) /\ \A m \in upTo(k) : tr[k][m] = Node(p, m)
           good == {k \in Nat : k <= n => holds(k)}
<1>9. 0 \in good
  <2>1. tr[0] = << >> /\ DOMAIN << >> = {} /\ upTo(0) = {}
    BY <1>7 DEF IsRun
  <2> HIDE DEF upTo
  <2>2. QED
    BY <2>1
<1>10. ASSUME NEW k \in Nat, k \in good PROVE k + 1 \in good
  <2>1. upTo(k + 1) = upTo(k) \cup {files[k + 1]}
    <3>1. \A i : i \in 1 .. k + 1 <=> i \in 1 .. k \/ i = k + 1
      OBVIOUS
    <3>2. QED
      BY <3>1
  <2> HIDE DEF upTo
  <2>2. SUFFICES ASSUME k + 1 <= n PROVE holds(k + 1)
    OBVIOUS
  <2>3. k \in 0 .. n - 1 /\ holds(k)
    BY <1>10, <2>2
  <2>4. tr[k + 1] = With(tr[k], files[k + 1], Node(p, files[k + 1]))
    BY <1>7, <2>3 DEF IsRun, Step
  <2>5. QED
    BY <2>1, <2>3, <2>4 DEF With
<1>11. holds(n)
  <2>1. n \in good
    <3> HIDE DEF good
    <3>1. QED
      BY <1>9, <1>10, SetInduction
  <2> HIDE DEF holds
  <2>2. QED
    BY <2>1
<1>12. tr[n] = modules /\ upTo(n) = ModuleFiles(p)
  BY <1>2, <1>3, <1>8
<1> HIDE DEF upTo
<1>13. DOMAIN modules = ModuleFiles(p) /\ \A m \in ModuleFiles(p) : modules[m] = Node(p, m)
  BY <1>11, <1>12
<1>14. QED
  BY <1>1, <1>13

(* The module of a class is one that has it. *)
LEMMA ClassMapFacts ==
  ASSUME NEW modules, IsFiniteSet(DOMAIN modules), DOMAIN modules \subseteq Nat, NEW c \in DOMAIN ClassMap(modules)
  PROVE  /\ ClassMap(modules)[c] \in DOMAIN modules
         /\ c \in ClassNames(modules[ClassMap(modules)[c]])
<1> DEFINE having == {m \in DOMAIN modules : c \in ClassNames(modules[m])}
<1>1. having # {} /\ having \subseteq Nat /\ IsFiniteSet(having)
  <2>1. having \subseteq DOMAIN modules
    OBVIOUS
  <2>2. having # {}
    BY DEF ClassMap
  <2>3. QED
    BY <2>1, <2>2, FS_Subset
<1>2. PICK m \in having : \A n \in having : n <= m
  BY <1>1, GreatestOf
<1>3. ClassMap(modules)[c] = CHOOSE x \in DOMAIN modules :
        c \in ClassNames(modules[x]) /\ \A n \in DOMAIN modules : c \in ClassNames(modules[n]) => n <= x
  BY DEF ClassMap
<1>4. \E x \in DOMAIN modules : c \in ClassNames(modules[x]) /\ \A n \in DOMAIN modules : c \in ClassNames(modules[n]) => n <= x
  BY <1>2
<1>5. QED
  BY <1>3, <1>4

LEMMA AdjacencyIsNext ==
  ASSUME NEW p, IsList(p)
  PROVE  IsNext(Adjacency(Graph(p)))
<1> DEFINE g == Graph(p)
<1>1. /\ DOMAIN g.modules = ModuleFiles(p) /\ IsFiniteSet(DOMAIN g.modules) /\ DOMAIN g.modules \subseteq Nat
      /\ g.classMap = ClassMap(g.modules)
  BY GraphFacts, ProjectFacts
<1> HIDE DEF g
<1>2. \A t \in DOMAIN g.classMap : g.classMap[t] \in DOMAIN g.modules
  BY <1>1, ClassMapFacts
<1>3. DOMAIN Adjacency(g) = DOMAIN g.modules
  BY DEF Adjacency
<1>4. ASSUME NEW m \in DOMAIN g.modules PROVE Adjacency(g)[m] \subseteq DOMAIN g.modules
  BY <1>2 DEF Adjacency
<1>5. IsNext(Adjacency(g))
  BY <1>1, <1>3, <1>4 DEF IsNext
<1>6. QED
  BY <1>5 DEF g

-----------------------------------------------------------------------------
(* A class of a module, when names are unique and no list names it. *)
LEMMA ClassIsProvided ==
  ASSUME NEW p, IsList(p), IsProject(p), NamesAreUnique(Graph(p)), NEW m \in ModuleFiles(p),
         NEW i \in DOMAIN Graph(p).modules[m].classes, Graph(p).modules[m].classes[i].injectable,
         \A k \in DOMAIN p[m].providers : p[m].providers[k].token # Graph(p).modules[m].classes[i].name
  PROVE  /\ Graph(p).modules[m].classes[i].name \in DOMAIN Graph(p).modules[m].providers
         /\ Graph(p).modules[m].providers[Graph(p).modules[m].classes[i].name] = Decorated(p, m, Graph(p).modules[m].classes[i])
         /\ Graph(p).modules[m].classes[i].name \in DOMAIN Graph(p).classMap
         /\ Graph(p).classMap[Graph(p).modules[m].classes[i].name] = m
         /\ IsClass(p, Graph(p).modules[m].classes[i])
<1> DEFINE g == Graph(p)
           node == g.modules[m]
           c == node.classes[i]
<1>1. /\ DOMAIN g.modules = ModuleFiles(p) /\ g.modules[m] = Node(p, m) /\ g.classMap = ClassMap(g.modules)
      /\ IsFiniteSet(DOMAIN g.modules) /\ DOMAIN g.modules \subseteq Nat
  BY GraphFacts, ProjectFacts
<1>2. m \in DOMAIN p /\ IsList(p[m].providers)
  BY DEF ModuleFiles, IsProject
<1>3. node.classes = Classes(p, m)
  BY <1>1, <1>2, NodeIsNode DEF IsNode
<1>4. Classes(p, m) \in Seq(AllClasses(p))
  BY ClassesAreList
<1>5. IsClass(p, c)
  <2>1. c \in AllClasses(p)
    BY <1>3, <1>4
  <2>2. QED
    BY <2>1 DEF AllClasses, IsProject
<1>6. \A n \in DOMAIN g.modules : \A j \in DOMAIN g.modules[n].classes : g.modules[n].classes[j].name = c.name => n = m /\ j = i
  BY <1>1 DEF NamesAreUnique
<1>7. c.injectable /\ \A k \in DOMAIN p[m].providers : p[m].providers[k].token # c.name
  OBVIOUS
<1>8. m \in DOMAIN g.modules /\ i \in DOMAIN node.classes
  BY <1>1
<1> HIDE DEF g
<1>9. c.name \in DOMAIN Implicit(p, m) /\ Implicit(p, m)[c.name] = Decorated(p, m, c)
  <2>1. i \in 1 .. Len(Classes(p, m)) /\ c = Classes(p, m)[i] /\ DOMAIN node.classes = 1 .. Len(Classes(p, m))
    BY <1>3, <1>4, <1>8
  <2>2. IsProvided(p, m, Implicit(p, m), Len(Classes(p, m)))
    BY ImplicitFacts
  <2>3. c.name \in DOMAIN Implicit(p, m)
    BY <1>7, <2>1, <2>2 DEF IsProvided
  <2>4. PICK l \in 1 .. Len(Classes(p, m)) :
          Classes(p, m)[l].name = c.name /\ Implicit(p, m)[c.name] = Decorated(p, m, Classes(p, m)[l])
    BY <2>2, <2>3 DEF IsProvided
  <2>5. l = i
    BY <1>3, <1>6, <1>8, <2>1, <2>4
  <2>6. QED
    BY <2>1, <2>3, <2>4, <2>5
<1>10. c.name \in DOMAIN node.providers /\ node.providers[c.name] = Decorated(p, m, c)
  <2>1. /\ c.name \in DOMAIN Node(p, m).providers <=> c.name \in DOMAIN Implicit(p, m)
        /\ c.name \in DOMAIN Implicit(p, m) => Node(p, m).providers[c.name] = Implicit(p, m)[c.name]
    BY <1>2, <1>7, UnlistedStays
  <2>2. QED
    BY <1>1, <1>9, <2>1
<1>11. c.name \in DOMAIN g.classMap
  <2>1. c.name \in ClassNames(g.modules[m])
    BY <1>8 DEF ClassNames
  <2>2. QED
    BY <1>1, <1>8, <2>1 DEF ClassMap
<1>12. g.classMap[c.name] = m
  <2>1. g.classMap[c.name] \in DOMAIN g.modules /\ c.name \in ClassNames(g.modules[g.classMap[c.name]])
    BY <1>1, <1>11, ClassMapFacts
  <2>2. QED
    BY <1>6, <2>1 DEF ClassNames
<1>13. QED
  BY <1>5, <1>10, <1>11, <1>12 DEF g

LEMMA DecoratorsHold ==
  ASSUME NEW p, IsList(p), IsProject(p)
  PROVE  BuiltKeepsDecorators(p, Graph(p))
<1> DEFINE g == Graph(p)
<1>1. /\ DOMAIN g.modules = ModuleFiles(p) /\ \A m \in ModuleFiles(p) : m # 0 /\ m \in DOMAIN p /\ g.modules[m] = Node(p, m)
  BY GraphFacts, ProjectFacts
<1>1a. SUFFICES ASSUME Builds(p, g), NamesAreUnique(g),
                       NEW m \in ModuleFiles(p), NEW n \in ModuleFiles(p),
                       NEW i \in DOMAIN g.modules[m].classes, NEW j \in DOMAIN g.modules[n].classes,
                       IsInjected(p, m, n, g.modules[n].classes[j], g.modules[m].classes[i])
                PROVE  LET user == g.modules[m].classes[i]
                           used == g.modules[n].classes[j]
                       IN /\ LetsIn(m, n, used)
                          /\ user.options.scope \in {"absent", "singleton"} =>
                               used.options.scope \notin {"request", "request-context"}
  <2>1. BuiltKeepsDecorators(p, g)
    <3> HIDE DEF g
    <3>1. QED
      BY DEF BuiltKeepsDecorators
  <2>2. QED
    BY <2>1
<1> DEFINE user == g.modules[m].classes[i]
           used == g.modules[n].classes[j]
           provider == Decorated(p, m, user)
           target == Decorated(p, n, used)
<1>2. /\ user.injectable /\ used.injectable
      /\ \E q \in ToSet(user.params) : CheckedClass(q) = used.name
  <2> HIDE DEF g
  <2>1. user.injectable /\ used.injectable
    BY <1>1a DEF IsInjected
  <2>2. PICK q \in ToSet(user.params) : (q.by = "forward" => q.type = q.token) /\ InjectedClass(q) = used.name
    BY <1>1a DEF IsInjected
  <2>3. CheckedClass(q) = InjectedClass(q)
    BY <2>2 DEF CheckedClass, InjectedClass
  <2>4. QED
    BY <2>1, <2>2, <2>3
<1>3. /\ \A k \in DOMAIN p[m].providers : p[m].providers[k].token # user.name
      /\ \A k \in DOMAIN p[n].providers : p[n].providers[k].token # used.name
  BY <1>1a DEF IsInjected
<1>3a. ASSUME NEW o \in ModuleFiles(p), NEW h \in DOMAIN g.modules[o].classes, g.modules[o].classes[h].injectable,
              \A k \in DOMAIN p[o].providers : p[o].providers[k].token # g.modules[o].classes[h].name
       PROVE  LET c == g.modules[o].classes[h] IN
              /\ c.name \in DOMAIN g.modules[o].providers /\ g.modules[o].providers[c.name] = Decorated(p, o, c)
              /\ c.name \in DOMAIN g.classMap /\ g.classMap[c.name] = o
              /\ IsClass(p, c)
  <2>1. NamesAreUnique(Graph(p))
    BY <1>1a
  <2>2. QED
    BY <1>3a, <2>1, ClassIsProvided
<1>4. /\ user.name \in DOMAIN g.modules[m].providers /\ g.modules[m].providers[user.name] = provider
  <2> HIDE DEF g
  <2>1. QED
    BY <1>1a, <1>2, <1>3, <1>3a
<1>5. /\ used.name \in DOMAIN g.modules[n].providers /\ g.modules[n].providers[used.name] = target
      /\ used.name \in DOMAIN g.classMap /\ g.classMap[used.name] = n
      /\ IsClass(p, used)
  <2> HIDE DEF g
  <2>1. QED
    BY <1>1a, <1>2, <1>3, <1>3a
<1>6. used.injectable /\ Builds(p, g) /\ NamesAreUnique(g) /\ j \in DOMAIN g.modules[n].classes
  BY <1>2, <1>1a
<1>7. g.modules[m].name = NameOf(p, m)
  BY <1>1, NodeIsNode DEF IsNode, IsProject
<1> HIDE DEF g
<1> HIDE DEF user, used
<1>8. provider.params = user.params /\ provider.scope = ResolveScope(user.options.scope) /\ provider.use = "itself"
  BY DEF Decorated, Provider
<1>9. /\ target.visibility = ResolveVisibility(used.options.visibleTo) /\ target.scope = ResolveScope(used.options.scope)
      /\ target.visibleTo = {ResolveModuleMarker(p, n, k) : k \in used.options.visibleTo.markers}
  BY DEF Decorated, Provider
<1> HIDE DEF provider, target
<1>10. used.name \in ExtractDeps(provider)
  BY <1>2, <1>5, <1>8 DEF ExtractDeps, IsImplicit, IsClass
<1>11. Target(g, used.name) = [module |-> n, provider |-> target]
  BY <1>1, <1>5 DEF Target
<1>12. Target(g, used.name).module = n /\ Target(g, used.name).provider = target
  BY <1>11
<1>13. /\ AssertVisibility(g, m, used.name)
       /\ Target(g, used.name).module # 0 /\ provider.scope = "singleton" => Target(g, used.name).provider.scope # "request"
  <2>1. ValidateVisibilityAndScope(g)
    BY <1>6 DEF Builds
  <2>2. \A x \in DOMAIN g.modules[m].providers :
           LET q == g.modules[m].providers[x] IN
           \A t \in ExtractDeps(q) :
             /\ AssertVisibility(g, m, t)
             /\ Target(g, t).module # 0 /\ q.scope = "singleton" => Target(g, t).provider.scope # "request"
    BY <1>1, <2>1 DEF ValidateVisibilityAndScope
  <2>3. QED
    BY <1>4, <1>10, <2>2
<1>14. user.options.scope \in {"absent", "singleton"} => used.options.scope \notin {"request", "request-context"}
  <2>1. provider.scope = "singleton" => target.scope # "request"
    BY <1>1, <1>12, <1>13
  <2>2. user.options.scope \in {"absent", "singleton"} => provider.scope = "singleton"
    BY <1>8 DEF ResolveScope
  <2>3. used.options.scope \in {"request", "request-context"} => target.scope = "request"
    BY <1>9 DEF ResolveScope
  <2>4. QED
    BY <2>1, <2>2, <2>3
<1>15. \/ n = m \/ target.visibility = "all"
       \/ target.visibility = "allowlist" /\ NameOf(p, m) \in target.visibleTo
  BY <1>1, <1>7, <1>12, <1>13 DEF AssertVisibility
<1>16. target.visibility = "all" => used.options.visibleTo.kind = "all"
  BY <1>9 DEF ResolveVisibility
<1>17. target.visibility = "allowlist" => used.options.visibleTo.kind = "list"
  BY <1>9 DEF ResolveVisibility
<1>18. ASSUME used.options.visibleTo.kind = "list", NameOf(p, m) \in target.visibleTo
       PROVE  \E k \in used.options.visibleTo.markers : m = IF k.from = 0 THEN n ELSE k.from
  <2>1. PICK k \in used.options.visibleTo.markers : NameOf(p, m) = ResolveModuleMarker(p, n, k)
    BY <1>9, <1>18
  <2>2. OptionsAreValid(p, n, used.options)
    <3>1. ModuleIsValid(p, n, g.modules[n])
      BY <1>6 DEF Builds
    <3>2. QED
      BY <1>6, <3>1 DEF ModuleIsValid, used
  <2>3. ResolveModuleMarker(p, n, k) # NoName
    BY <1>18, <2>1, <2>2 DEF OptionsAreValid
  <2> DEFINE at == IF k.from = 0 THEN n ELSE k.from
  <2>4. ResolveModuleMarker(p, n, k) = NameOf(p, at)
    BY <2>3 DEF ResolveModuleMarker
  <2>5. at \in ModuleFiles(p)
    BY <1>5, <2>1 DEF IsClass
  <2> HIDE DEF at
  <2>6. g.modules[at].name = NameOf(p, at)
    <3>1. g.modules[at] = Node(p, at) /\ at \in DOMAIN p
      BY <1>1, <2>5
    <3>2. QED
      BY <3>1, NodeIsNode DEF IsNode, IsProject
  <2>7. m = at
    BY <1>1, <1>6, <1>7, <2>1, <2>4, <2>5, <2>6 DEF NamesAreUnique
  <2>8. QED
    BY <2>1, <2>7 DEF at
<1>19. LetsIn(m, n, used)
  BY <1>15, <1>16, <1>17, <1>18 DEF LetsIn
<1>20. QED
  BY <1>14, <1>19 DEF user, used

LEMMA ListedHolds ==
  ASSUME NEW p, IsList(p), IsProject(p)
  PROVE  ListedStaysVisible(p, Graph(p))
<1>1. \A m \in ModuleFiles(p) : m \in DOMAIN p /\ Graph(p).modules[m] = Node(p, m)
  BY GraphFacts DEF ModuleFiles
<1>2. ASSUME NEW m \in ModuleFiles(p), NEW i \in DOMAIN p[m].providers,
             p[m].providers[i].kind = "ref", p[m].providers[i].options.visibleTo.kind = "absent",
             p[m].providers[i].token \in DOMAIN Implicit(p, m),
             \A j \in DOMAIN p[m].providers : p[m].providers[j].token = p[m].providers[i].token => j = i
      PROVE  LET x == Node(p, m).providers[p[m].providers[i].token]
                 y == Implicit(p, m)[p[m].providers[i].token]
             IN x.visibility = y.visibility /\ x.visibleTo = y.visibleTo /\ x.params = y.params
  <2>1. m \in DOMAIN p
    BY <1>1
  <2>2. QED
    BY <1>2, <2>1, ListedStays
<1>3. ASSUME NEW m \in ModuleFiles(p)
      PROVE  Graph(p).modules[m] = Node(p, m)
  BY <1>1
<1>4. QED
  BY <1>2, <1>3 DEF ListedStaysVisible

(* The compiler is right for all projects: each file is the nearest module's,*)
(* an edit affects the modules of all files that import it, directly or      *)
(* through others, a project that builds keeps to its decorators, and a      *)
(* cycle is told exactly when there is one.                                  *)
THEOREM ModulesCorrect == SampleSpec => []ModulesAreKept
<1>1. SampleInv => ModulesAreKept
  <2>1. ASSUME SampleInv, Of("directories") PROVE FilesHaveNearestModule(It)
    <3>1. IsList(It) /\ \A f \in DOMAIN It : HasPath(It[f].dir)
      BY <2>1, ProjectAssumption DEF SampleInv, Of, It, NoSample
    <3>2. QED
      BY <3>1, NearestHolds
  <2>2. ASSUME SampleInv, Of("imports") PROVE ImpactIsClosed(It)
    <3>1. IsList(It)
      BY <2>2, ProjectAssumption DEF SampleInv, Of, It, NoSample
    <3>2. QED
      BY <3>1, ImpactHolds
  <2>3. ASSUME SampleInv, Of("build")
        PROVE  /\ BuiltKeepsDecorators(It, Graph(It)) /\ ListedStaysVisible(It, Graph(It))
               /\ CycleIsTold(Adjacency(Graph(It)))
    <3>1. IsList(It) /\ IsProject(It)
      BY <2>3, ProjectAssumption DEF SampleInv, Of, It, NoSample
    <3>2. QED
      BY <3>1, DecoratorsHold, ListedHolds, AdjacencyIsNext, CycleHolds
  <2>4. QED
    BY <2>1, <2>2, <2>3 DEF ModulesAreKept
<1>2. QED
  BY <1>1, SampleTaken, PTL

-----------------------------------------------------------------------------
(* Factories that ask for one another without end. *)
IsStuck(w, c, X) ==
  /\ X # {} /\ X \subseteq DOMAIN c.factories
  /\ \A t \in X : \E i \in DOMAIN Asks(w, c, t) : Asks(w, c, t)[i].token \in X

LEMMA StuckOutgrows ==
  ASSUME StackLimit \in Nat, NEW w, NEW c, NEW X, IsStuck(w, c, X)
  PROVE  ~Acyclic(w, c)
<1>1. PICK e : IsTower(e, "ends", [w |-> w, c |-> c], StackLimit) /\ (Acyclic(w, c) <=> e[StackLimit] = DOMAIN c.factories)
  BY EndsTower
<1>2. e[0] = {} /\ \A j \in 0 .. StackLimit - 1 : e[j + 1] = AskOnly(w, c, e[j])
  BY <1>1, EndsGrow
<1> DEFINE good == {j \in Nat : j <= StackLimit => e[j] \cap X = {}}
<1>3. 0 \in good
  BY <1>2
<1>4. ASSUME NEW j \in Nat, j \in good PROVE j + 1 \in good
  <2>1. SUFFICES ASSUME j + 1 <= StackLimit, NEW t \in X, t \in e[j + 1] PROVE FALSE
    OBVIOUS
  <2>2. j \in 0 .. StackLimit - 1 /\ e[j] \cap X = {}
    BY <1>4, <2>1
  <2>3. t \in AskOnly(w, c, e[j])
    BY <1>2, <2>1, <2>2
  <2>4. PICK i \in DOMAIN Asks(w, c, t) : Asks(w, c, t)[i].token \in X
    BY DEF IsStuck
  <2>5. Asks(w, c, t)[i].token \in e[j]
    BY <2>3, <2>4, AskOnlyMeans DEF IsStuck
  <2>6. QED
    BY <2>2, <2>4, <2>5
<1>5. StackLimit \in good
  <2> HIDE DEF good
  <2>1. QED
    BY <1>3, <1>4, SetInduction
<1>6. e[StackLimit] \cap X = {}
  BY <1>5
<1>7. QED
  BY <1>1, <1>6 DEF IsStuck

(* A stack with room for all the factories is outgrown by no other chain. *)
LEMMA OnlyStuckOutgrows ==
  ASSUME StackLimit \in Nat, NEW w, NEW c, IsFiniteSet(DOMAIN c.factories), Cardinality(DOMAIN c.factories) <= StackLimit,
         ~Acyclic(w, c)
  PROVE  \E X : IsStuck(w, c, X)
<1> DEFINE D == DOMAIN c.factories
<1>1. PICK e : IsTower(e, "ends", [w |-> w, c |-> c], StackLimit) /\ (Acyclic(w, c) <=> e[StackLimit] = D)
  BY EndsTower
<1>2. e[0] = {} /\ \A j \in 0 .. StackLimit - 1 : e[j + 1] = AskOnly(w, c, e[j]) /\ e[j] \subseteq e[j + 1]
  BY <1>1, EndsGrow
<1>3. \A T : AskOnly(w, c, T) \subseteq D
  BY AskOnlyMeans
<1> DEFINE IsFilled(k) == AskOnly(w, c, e[k]) = e[k] \/ Cardinality(e[k]) >= k
           good == {k \in Nat : k <= StackLimit => e[k] \subseteq D /\ IsFilled(k)}
<1>4. 0 \in good
  BY <1>2, FS_EmptySet
<1>5. ASSUME NEW k \in Nat, k \in good PROVE k + 1 \in good
  <2>1. SUFFICES ASSUME k + 1 <= StackLimit PROVE e[k + 1] \subseteq D /\ IsFilled(k + 1)
    OBVIOUS
  <2>2. e[k] \subseteq D /\ IsFilled(k) /\ e[k + 1] = AskOnly(w, c, e[k]) /\ e[k] \subseteq e[k + 1]
    BY <1>2, <1>5, <2>1
  <2>3. e[k + 1] \subseteq D
    BY <1>3, <2>2
  <2>4. CASE AskOnly(w, c, e[k]) = e[k]
    BY <2>2, <2>3, <2>4
  <2>5. CASE AskOnly(w, c, e[k]) # e[k]
    <3>1. Cardinality(e[k]) >= k /\ e[k] # e[k + 1]
      BY <2>2, <2>5
    <3>2. IsFiniteSet(e[k + 1]) /\ IsFiniteSet(e[k])
      BY <2>2, <2>3, FS_Subset
    <3>3. e[k] \in SUBSET e[k + 1] /\ e[k] # e[k + 1]
      BY <2>2, <3>1
    <3>4. Cardinality(e[k]) <= Cardinality(e[k + 1]) /\ Cardinality(e[k]) # Cardinality(e[k + 1])
      BY <3>2, <3>3, FS_Subset
    <3>5. Cardinality(e[k]) \in Nat /\ Cardinality(e[k + 1]) \in Nat
      BY <3>2, FS_CardinalityType
    <3>6. QED
      BY <2>3, <3>1, <3>4, <3>5
  <2>6. QED
    BY <2>4, <2>5
<1>6. e[StackLimit] \subseteq D /\ IsFilled(StackLimit)
  <2>1. StackLimit \in good
    <3> HIDE DEF good
    <3>1. QED
      BY <1>4, <1>5, SetInduction
  <2>2. QED
    BY <2>1
<1> DEFINE X == D \ e[StackLimit]
<1>7. X # {}
  BY <1>1, <1>6
<1>8. AskOnly(w, c, e[StackLimit]) = e[StackLimit]
  <2>1. SUFFICES ASSUME Cardinality(e[StackLimit]) >= StackLimit PROVE FALSE
    BY <1>6
  <2>2. IsFiniteSet(e[StackLimit]) /\ Cardinality(e[StackLimit]) <= Cardinality(D)
    BY <1>6, FS_Subset
  <2>3. Cardinality(D) \in Nat /\ Cardinality(e[StackLimit]) \in Nat
    BY <2>2, FS_CardinalityType
  <2>4. Cardinality(e[StackLimit]) = Cardinality(D)
    BY <2>1, <2>2, <2>3
  <2>5. e[StackLimit] = D
    BY <1>6, <2>4, FS_Subset
  <2>6. QED
    BY <1>7, <2>5
<1>9. ASSUME NEW t \in X PROVE \E i \in DOMAIN Asks(w, c, t) : Asks(w, c, t)[i].token \in X
  <2>1. t \in D /\ t \notin AskOnly(w, c, e[StackLimit])
    BY <1>8
  <2>2. QED
    BY <2>1, AskOnlyMeans
<1>10. IsStuck(w, c, X)
  BY <1>7, <1>9 DEF IsStuck
<1>11. QED
  BY <1>10

(* Of modules in no cycle, some lead to none of the others. *)
LEMMA SomeLeadsOut ==
  ASSUME NEW next, IsNext(next), \A v \in DOMAIN next : Escapes(next, v), NEW M, M # {}, M \subseteq DOMAIN next
  PROVE  \E m \in M : next[m] \cap M = {}
<1> DEFINE IsClosedSet(S) == S \in SUBSET DOMAIN next /\ S \cap M # {} /\ \A x \in S : next[x] \subseteq S
           good == {k \in Nat : \A S : IsClosedSet(S) => Cardinality(S) > k}
<1>1. SUFFICES ASSUME \A m \in M : next[m] \cap M # {} PROVE FALSE
  OBVIOUS
<1>2. \A S \in SUBSET DOMAIN next : IsFiniteSet(S) /\ Cardinality(S) \in Nat
  BY FS_Subset, FS_CardinalityType DEF IsNext
<1>3. ASSUME NEW S, IsClosedSet(S) PROVE \E T : IsClosedSet(T) /\ Cardinality(T) < Cardinality(S)
  <2>1. PICK m : m \in S /\ m \in M
    BY <1>3
  <2>2. PICK n : n \in next[m] /\ n \in M
    BY <1>1, <2>1
  <2>3. PICK E \in SUBSET DOMAIN next : m \notin E /\ next[m] \subseteq E /\ \A x \in E : next[x] \subseteq E
    BY <2>1 DEF Escapes
  <2> DEFINE T == S \cap E
  <2>4. n \in T /\ m \notin T /\ T \subseteq S /\ T \in SUBSET DOMAIN next
    BY <1>3, <2>1, <2>2, <2>3
  <2>5. IsClosedSet(T)
    BY <1>3, <2>2, <2>3, <2>4
  <2>6. Cardinality(T) < Cardinality(S)
    <3>1. IsFiniteSet(S) /\ T # S
      BY <1>2, <1>3, <2>1, <2>4
    <3> HIDE DEF T
    <3>2. Cardinality(T) <= Cardinality(S) /\ Cardinality(T) # Cardinality(S) /\ Cardinality(T) \in Nat /\ Cardinality(S) \in Nat
      BY <1>2, <1>3, <2>4, <3>1, FS_Subset
    <3>3. QED
      BY <3>2
  <2>7. QED
    BY <2>5, <2>6
<1>4. ASSUME NEW S, IsClosedSet(S) PROVE Cardinality(S) \in Nat
  BY <1>2, <1>4
<1> HIDE DEF IsClosedSet
<1>5. 0 \in good
  <2>1. SUFFICES ASSUME NEW S, IsClosedSet(S) PROVE Cardinality(S) > 0
    OBVIOUS
  <2>2. PICK T : IsClosedSet(T) /\ Cardinality(T) < Cardinality(S)
    BY <1>3, <2>1
  <2>3. QED
    BY <1>4, <2>1, <2>2
<1>6. ASSUME NEW k \in Nat, k \in good PROVE k + 1 \in good
  <2>1. SUFFICES ASSUME NEW S, IsClosedSet(S) PROVE Cardinality(S) > k + 1
    OBVIOUS
  <2>2. PICK T : IsClosedSet(T) /\ Cardinality(T) < Cardinality(S)
    BY <1>3, <2>1
  <2>3. Cardinality(T) > k /\ Cardinality(T) \in Nat /\ Cardinality(S) \in Nat
    BY <1>4, <1>6, <2>1, <2>2
  <2>4. QED
    BY <2>2, <2>3
<1>7. IsClosedSet(DOMAIN next)
  BY DEF IsClosedSet, IsNext
<1>8. Cardinality(DOMAIN next) \in good
  <2>1. Cardinality(DOMAIN next) \in Nat
    BY <1>4, <1>7
  <2> HIDE DEF good
  <2>2. QED
    BY <1>5, <1>6, <2>1, SetInduction
<1>9. Cardinality(DOMAIN next) > Cardinality(DOMAIN next)
  BY <1>7, <1>8
<1>10. QED
  BY <1>4, <1>7, <1>9

-----------------------------------------------------------------------------
(* The container that is generated: the factories of entries <<m, x>>, the   *)
(* providers of the names x in the modules m.                                *)
KeyOf(g, e) == Key(g.modules[e[1]].name, e[2])

EntryOf(g, e) == FactoryEntry(g, e[1], g.modules[e[1]].providers[e[2]])

EntriesOf(g, ms) == UNION {{<<m, x>> : x \in Entries(g.modules[m])} : m \in ms}

(* Modules have names of their own, finitely many providers, and lists. *)
IsGraph(g) ==
  /\ IsFiniteSet(DOMAIN g.modules) /\ DOMAIN g.modules \subseteq Nat
  /\ \A m, n \in DOMAIN g.modules : g.modules[m].name = g.modules[n].name => m = n
  /\ \A m \in DOMAIN g.modules : IsFiniteSet(DOMAIN g.modules[m].providers)
  /\ \A e \in EntriesOf(g, DOMAIN g.modules) : IsList(EntryOf(g, e).inject)

Holding(g, S, c) ==
  /\ IsListed(c) /\ IsFiniteSet(DOMAIN c.factories)
  /\ DOMAIN c.factories = {KeyOf(g, e) : e \in S}
  /\ \A e \in S : c.factories[KeyOf(g, e)] = EntryOf(g, e)

LEMMA KeysDiffer ==
  ASSUME NEW s, NEW x, NEW t, NEW y, Key(s, x) = Key(t, y)
  PROVE  s = t /\ x = y
BY DEF Key

LEMMA EntryAdded ==
  ASSUME NEW g, IsGraph(g), NEW S \in SUBSET EntriesOf(g, DOMAIN g.modules), NEW c, Holding(g, S, c),
         NEW m \in DOMAIN g.modules, NEW x \in Entries(g.modules[m])
  PROVE  Holding(g, S \cup {<<m, x>>}, WithEntry(g, m, c, x))
<1> DEFINE e == <<m, x>>
           key == Key(g.modules[m].name, x)
           factory == FactoryEntry(g, m, g.modules[m].providers[x])
           r == Set(c, key, factory)
           all == EntriesOf(g, DOMAIN g.modules)
<1>1. e[1] = m /\ e[2] = x /\ KeyOf(g, e) = key /\ EntryOf(g, e) = factory
  BY DEF KeyOf, EntryOf
<1>2. e \in all
  BY DEF EntriesOf
<1>3. \A d \in all : d[1] \in DOMAIN g.modules /\ d = <<d[1], d[2]>>
  BY DEF EntriesOf
<1> HIDE DEF e, all, key, factory, r
<1>4. IsList(factory.inject)
  BY <1>1, <1>2 DEF IsGraph, all
<1>5. /\ IsListed(r) /\ key \in DOMAIN r.factories /\ r.factories[key] = factory
      /\ \A t \in DOMAIN c.factories : t # key => t \in DOMAIN r.factories /\ r.factories[t] = c.factories[t]
  BY <1>4, SetFacts DEF Holding, r
<1>6. DOMAIN r.factories = DOMAIN c.factories \cup {key}
  BY DEF r, Set, With
<1>7. IsFiniteSet(DOMAIN r.factories)
  BY <1>6, FS_AddElement DEF Holding
<1>8. DOMAIN r.factories = {KeyOf(g, d) : d \in S \cup {e}}
  BY <1>1, <1>6 DEF Holding
<1>9. ASSUME NEW d \in S \cup {e} PROVE r.factories[KeyOf(g, d)] = EntryOf(g, d)
  <2>1. CASE d = e
    BY <1>1, <1>5, <2>1
  <2>2. CASE d # e
    <3>1. d \in S /\ d \in all /\ KeyOf(g, d) \in DOMAIN c.factories /\ c.factories[KeyOf(g, d)] = EntryOf(g, d)
      BY <2>2 DEF Holding, all
    <3>2. KeyOf(g, d) # key
      <4>1. SUFFICES ASSUME KeyOf(g, d) = key PROVE FALSE
        OBVIOUS
      <4>2. g.modules[d[1]].name = g.modules[m].name /\ d[2] = x
        BY <4>1, KeysDiffer DEF KeyOf, key
      <4>3. d[1] = m
        BY <1>3, <3>1, <4>2 DEF IsGraph
      <4>4. QED
        BY <1>3, <2>2, <3>1, <4>2, <4>3 DEF e
    <3>3. QED
      BY <1>5, <3>1, <3>2
  <2>3. QED
    BY <2>1, <2>2
<1>10. WithEntry(g, m, c, x) = r
  BY DEF WithEntry, r, key, factory
<1>11. QED
  BY <1>5, <1>7, <1>8, <1>9, <1>10 DEF Holding, e

LEMMA EntriesRun ==
  ASSUME NEW g, NEW m, NEW c, NEW n \in Nat, DOMAIN SetToSeq(Entries(g.modules[m])) = 1 .. n
  PROVE  \E tr : IsRun(tr, "entries", [g |-> g, m |-> m], c, SetToSeq(Entries(g.modules[m])), n) /\ WithEntries(g, c, m) = tr[n]
<1> DEFINE xs == SetToSeq(Entries(g.modules[m]))
           d == [g |-> g, m |-> m]
           P(it) == it = [u \in SUBSET (1 .. n) |-> IF u = {} THEN c ELSE WithEntry(g, m, it[u \ {Max(u)}], xs[Max(u)])]
           it == CHOOSE it : P(it)
<1>1. WithEntries(g, c, m) = it[1 .. n]
  BY DEF WithEntries, FoldLeft, MapThenFoldSet
<1> HIDE DEF xs
<1>2. \A x : P(x) <=> IsFold(x, "entries", d, c, xs, n)
  <2>1. \A s, x : Step("entries", d, s, x) = WithEntry(g, m, s, x)
    BY DEF Step
  <2> HIDE DEF d
  <2>2. QED
    BY <2>1 DEF IsFold
<1>3. P(it)
  BY <1>2, FoldExists
<1>4. IsFold(it, "entries", d, c, xs, n)
  BY <1>2, <1>3
<1> HIDE DEF it
<1> DEFINE tr == [k \in 0 .. n |-> it[1 .. k]]
<1>5. IsRun(tr, "entries", d, c, xs, n)
  BY <1>4, FoldRuns
<1>6. tr[n] = it[1 .. n]
  OBVIOUS
<1> HIDE DEF tr
<1>7. QED
  BY <1>1, <1>5, <1>6 DEF xs

LEMMA EntriesOfMore ==
  ASSUME NEW g, NEW ms, NEW m
  PROVE  EntriesOf(g, ms \cup {m}) = EntriesOf(g, ms) \cup {<<m, x>> : x \in Entries(g.modules[m])}
BY DEF EntriesOf

LEMMA ModuleAdded ==
  ASSUME NEW g, IsGraph(g), NEW ms \in SUBSET DOMAIN g.modules, NEW c, Holding(g, EntriesOf(g, ms), c),
         NEW m \in DOMAIN g.modules
  PROVE  Holding(g, EntriesOf(g, ms \cup {m}), WithEntries(g, c, m))
<1> DEFINE xs == SetToSeq(Entries(g.modules[m]))
           S(k) == EntriesOf(g, ms) \cup {<<m, xs[i]>> : i \in 1 .. k}
<1>1. IsFiniteSet(Entries(g.modules[m]))
  <2>1. Entries(g.modules[m]) \subseteq DOMAIN g.modules[m].providers
    BY DEF Entries
  <2>2. QED
    BY <2>1, FS_Subset DEF IsGraph
<1>2. PICK n \in Nat : DOMAIN xs = 1 .. n /\ Entries(g.modules[m]) = {xs[i] : i \in 1 .. n}
  BY <1>1, SetToSeqFacts
<1>3. PICK tr : IsRun(tr, "entries", [g |-> g, m |-> m], c, xs, n) /\ WithEntries(g, c, m) = tr[n]
  BY <1>2, EntriesRun
<1>4. EntriesOf(g, ms) \subseteq EntriesOf(g, DOMAIN g.modules) /\ \A x \in Entries(g.modules[m]) : <<m, x>> \in EntriesOf(g, DOMAIN g.modules)
  BY DEF EntriesOf
<1> HIDE DEF xs
<1>5. S(0) = EntriesOf(g, ms) /\ \A k \in Nat : S(k + 1) = S(k) \cup {<<m, xs[k + 1]>>}
  <2>1. \A k \in Nat : \A i : i \in 1 .. k + 1 <=> i \in 1 .. k \/ i = k + 1
    OBVIOUS
  <2>2. QED
    BY <2>1
<1>6. \A k \in 0 .. n : S(k) \in SUBSET EntriesOf(g, DOMAIN g.modules)
  BY <1>2, <1>4
<1>7. S(n) = EntriesOf(g, ms \cup {m})
  <2>1. {<<m, xs[i]>> : i \in 1 .. n} = {<<m, x>> : x \in Entries(g.modules[m])}
    BY <1>2
  <2>2. QED
    BY <2>1, EntriesOfMore
<1> HIDE DEF S
<1> DEFINE good == {k \in Nat : k <= n => Holding(g, S(k), tr[k])}
<1>8. 0 \in good
  BY <1>3, <1>5 DEF IsRun
<1>9. ASSUME NEW k \in Nat, k \in good PROVE k + 1 \in good
  <2>1. SUFFICES ASSUME k + 1 <= n PROVE Holding(g, S(k + 1), tr[k + 1])
    OBVIOUS
  <2>2. k \in 0 .. n - 1 /\ k \in 0 .. n /\ k + 1 \in 1 .. n /\ Holding(g, S(k), tr[k])
    BY <1>9, <2>1
  <2>3. tr[k + 1] = WithEntry(g, m, tr[k], xs[k + 1])
    <3>1. tr[k + 1] = Step("entries", [g |-> g, m |-> m], tr[k], xs[k + 1])
      BY <1>3, <2>2 DEF IsRun
    <3>2. QED
      BY <3>1 DEF Step
  <2>4. xs[k + 1] \in Entries(g.modules[m])
    BY <1>2, <2>2
  <2>5. QED
    BY <1>5, <1>6, <2>2, <2>3, <2>4, EntryAdded
<1>10. n \in good
  <2> HIDE DEF good
  <2>1. QED
    BY <1>8, <1>9, SetInduction
<1>11. QED
  BY <1>3, <1>7, <1>10

LEMMA ContainersRun ==
  ASSUME NEW g, NEW n \in Nat, DOMAIN InOrder(DOMAIN g.modules) = 1 .. n
  PROVE  \E tr : IsRun(tr, "containers", g, EmptyContainer, InOrder(DOMAIN g.modules), n) /\ CreateContainer(g) = tr[n]
<1> DEFINE ms == InOrder(DOMAIN g.modules)
           P(it) == it = [u \in SUBSET (1 .. n) |-> IF u = {} THEN EmptyContainer ELSE WithEntries(g, it[u \ {Max(u)}], ms[Max(u)])]
           it == CHOOSE it : P(it)
<1>1. CreateContainer(g) = it[1 .. n]
  BY DEF CreateContainer, FoldLeft, MapThenFoldSet
<1> HIDE DEF ms
<1>2. \A x : P(x) <=> IsFold(x, "containers", g, EmptyContainer, ms, n)
  <2>1. \A s, x : Step("containers", g, s, x) = WithEntries(g, s, x)
    BY DEF Step
  <2>2. QED
    BY <2>1 DEF IsFold
<1>3. P(it)
  BY <1>2, FoldExists
<1>4. IsFold(it, "containers", g, EmptyContainer, ms, n)
  BY <1>2, <1>3
<1> HIDE DEF it
<1> DEFINE tr == [k \in 0 .. n |-> it[1 .. k]]
<1>5. IsRun(tr, "containers", g, EmptyContainer, ms, n)
  BY <1>4, FoldRuns
<1>6. tr[n] = it[1 .. n]
  OBVIOUS
<1> HIDE DEF tr
<1>7. QED
  BY <1>1, <1>5, <1>6 DEF ms

LEMMA ContainerHolds ==
  ASSUME NEW g, IsGraph(g)
  PROVE  Holding(g, EntriesOf(g, DOMAIN g.modules), CreateContainer(g))
<1> DEFINE ms == InOrder(DOMAIN g.modules)
           upTo(k) == {ms[i] : i \in 1 .. k}
<1>1. PICK n \in Nat : DOMAIN ms = 1 .. n /\ DOMAIN g.modules = {ms[i] : i \in 1 .. n}
  BY InOrderFacts DEF IsGraph
<1>2. PICK tr : IsRun(tr, "containers", g, EmptyContainer, ms, n) /\ CreateContainer(g) = tr[n]
  BY <1>1, ContainersRun
<1> HIDE DEF ms
<1>3. upTo(0) = {} /\ upTo(n) = DOMAIN g.modules /\ \A k \in 0 .. n : upTo(k) \in SUBSET DOMAIN g.modules
  BY <1>1
<1>4. \A k \in Nat : upTo(k + 1) = upTo(k) \cup {ms[k + 1]}
  <2>1. \A k \in Nat : \A i : i \in 1 .. k + 1 <=> i \in 1 .. k \/ i = k + 1
    OBVIOUS
  <2>2. QED
    BY <2>1
<1> HIDE DEF upTo
<1> DEFINE good == {k \in Nat : k <= n => Holding(g, EntriesOf(g, upTo(k)), tr[k])}
<1>5. 0 \in good
  <2>1. EntriesOf(g, {}) = {} /\ tr[0] = EmptyContainer
    BY <1>2 DEF EntriesOf, IsRun
  <2>2. EmptyContainer.factories = << >> /\ DOMAIN << >> = {} /\ IsListed(EmptyContainer)
    BY EmptyIsListed DEF EmptyContainer
  <2>3. Holding(g, {}, EmptyContainer)
    BY <2>2, FS_EmptySet DEF Holding
  <2>4. QED
    BY <1>3, <2>1, <2>3
<1>6. ASSUME NEW k \in Nat, k \in good PROVE k + 1 \in good
  <2>1. SUFFICES ASSUME k + 1 <= n PROVE Holding(g, EntriesOf(g, upTo(k + 1)), tr[k + 1])
    OBVIOUS
  <2>2. k \in 0 .. n - 1 /\ k \in 0 .. n /\ k + 1 \in 1 .. n /\ Holding(g, EntriesOf(g, upTo(k)), tr[k])
    BY <1>6, <2>1
  <2>3. tr[k + 1] = WithEntries(g, tr[k], ms[k + 1])
    BY <1>2, <2>2 DEF IsRun, Step
  <2>4. ms[k + 1] \in DOMAIN g.modules
    BY <1>1, <2>2
  <2>5. QED
    BY <1>3, <1>4, <2>2, <2>3, <2>4, ModuleAdded
<1>7. n \in good
  <2> HIDE DEF good
  <2>1. QED
    BY <1>5, <1>6, SetInduction
<1>8. QED
  BY <1>2, <1>3, <1>7

LEMMA KeysRun ==
  ASSUME NEW g, NEW n \in Nat, DOMAIN InOrder(DOMAIN g.modules) = 1 .. n
  PROVE  \E tr : IsRun(tr, "keys", g, << >>, InOrder(DOMAIN g.modules), n) /\ CreateScopedKeysMap(g) = tr[n]
<1> DEFINE ms == InOrder(DOMAIN g.modules)
           P(it) == it = [u \in SUBSET (1 .. n) |-> IF u = {} THEN << >> ELSE WithKeys(g, it[u \ {Max(u)}], ms[Max(u)])]
           it == CHOOSE it : P(it)
<1>1. CreateScopedKeysMap(g) = it[1 .. n]
  BY DEF CreateScopedKeysMap, FoldLeft, MapThenFoldSet
<1> HIDE DEF ms
<1>2. \A x : P(x) <=> IsFold(x, "keys", g, << >>, ms, n)
  <2>1. \A s, x : Step("keys", g, s, x) = WithKeys(g, s, x)
    BY DEF Step
  <2>2. QED
    BY <2>1 DEF IsFold
<1>3. P(it)
  BY <1>2, FoldExists
<1>4. IsFold(it, "keys", g, << >>, ms, n)
  BY <1>2, <1>3
<1> HIDE DEF it
<1> DEFINE tr == [k \in 0 .. n |-> it[1 .. k]]
<1>5. IsRun(tr, "keys", g, << >>, ms, n)
  BY <1>4, FoldRuns
<1>6. tr[n] = it[1 .. n]
  OBVIOUS
<1> HIDE DEF tr
<1>7. QED
  BY <1>1, <1>5, <1>6 DEF ms

(* A class whose name only one module has is found under that module. *)
LEMMA ScopedKeyFound ==
  ASSUME NEW g, IsFiniteSet(DOMAIN g.modules), DOMAIN g.modules \subseteq Nat, NEW m \in DOMAIN g.modules,
         NEW x \in ScopedNames(g.modules[m]), \A k \in DOMAIN g.modules : x \in ScopedNames(g.modules[k]) => k = m
  PROVE  CreateScopedKeysMap(g)[Class(x)] = Key(g.modules[m].name, x)
<1> DEFINE ms == InOrder(DOMAIN g.modules)
           key == Key(g.modules[m].name, x)
<1>1. PICK n \in Nat : DOMAIN ms = 1 .. n /\ DOMAIN g.modules = {ms[i] : i \in 1 .. n}
  BY InOrderFacts
<1>2. PICK tr : IsRun(tr, "keys", g, << >>, ms, n) /\ CreateScopedKeysMap(g) = tr[n]
  BY <1>1, KeysRun
<1>3. PICK j \in 1 .. n : ms[j] = m
  BY <1>1
<1>4. \A i \in 0 .. n - 1 : tr[i + 1] = WithKeys(g, tr[i], ms[i + 1])
  BY <1>2 DEF IsRun, Step
<1>5. Class(x).name = x
  BY DEF Class
<1>6. \A keys : /\ Class(x) \in DOMAIN WithKeys(g, keys, m) /\ WithKeys(g, keys, m)[Class(x)] = key
  BY <1>5 DEF WithKeys
<1>7. ASSUME NEW keys, NEW k \in DOMAIN g.modules, k # m, Class(x) \in DOMAIN keys
      PROVE  Class(x) \in DOMAIN WithKeys(g, keys, k) /\ WithKeys(g, keys, k)[Class(x)] = keys[Class(x)]
  <2>1. x \notin ScopedNames(g.modules[k])
    BY <1>7
  <2>2. QED
    BY <1>5, <1>7, <2>1 DEF WithKeys
<1> HIDE DEF ms, key
<1> DEFINE good == {k \in Nat : j <= k /\ k <= n => Class(x) \in DOMAIN tr[k] /\ tr[k][Class(x)] = key}
<1>8. 0 \in good
  OBVIOUS
<1>9. ASSUME NEW k \in Nat, k \in good PROVE k + 1 \in good
  <2>1. SUFFICES ASSUME j <= k + 1, k + 1 <= n PROVE Class(x) \in DOMAIN tr[k + 1] /\ tr[k + 1][Class(x)] = key
    OBVIOUS
  <2>2. k \in 0 .. n - 1 /\ k + 1 \in 1 .. n /\ ms[k + 1] \in DOMAIN g.modules
    BY <1>1, <2>1
  <2>3. tr[k + 1] = WithKeys(g, tr[k], ms[k + 1])
    BY <1>4, <2>2
  <2>4. CASE ms[k + 1] = m
    BY <1>6, <2>3, <2>4
  <2>5. CASE ms[k + 1] # m
    <3>1. j <= k /\ k <= n
      BY <1>3, <2>1, <2>5
    <3>2. Class(x) \in DOMAIN tr[k] /\ tr[k][Class(x)] = key
      BY <1>9, <3>1
    <3>3. QED
      BY <1>7, <2>2, <2>3, <2>5, <3>2
  <2>6. QED
    BY <2>4, <2>5
<1>10. n \in good
  <2> HIDE DEF good
  <2>1. QED
    BY <1>8, <1>9, SetInduction
<1>11. QED
  BY <1>2, <1>3, <1>10 DEF key

-----------------------------------------------------------------------------
(* What a project gives a module to provide: an implicit provider is a class *)
(* of the module, as it is written there.                                    *)
IsSupply(p, m, x, e) ==
  /\ e = [visibility |-> e.visibility, visibleTo |-> e.visibleTo, scope |-> e.scope, use |-> e.use, of |-> e.of, params |-> e.params]
  /\ IsList(e.params)
  /\ e.use = "itself" => \E l \in DOMAIN Classes(p, m) : Classes(p, m)[l].name = x /\ e.of = x /\ e.params = Classes(p, m)[l].params

IsSupplied(p, m, ps) == IsFiniteSet(DOMAIN ps) /\ \A x \in DOMAIN ps : IsSupply(p, m, x, ps[x])

LEMMA ImplicitIsSupplied ==
  ASSUME NEW p, IsList(p), IsProject(p), NEW m
  PROVE  IsSupplied(p, m, Implicit(p, m))
<1> DEFINE n == Len(Classes(p, m))
           ps == Implicit(p, m)
           named == [l \in 1 .. n |-> Classes(p, m)[l].name]
           names == {named[l] : l \in 1 .. n}
<1>1. n \in Nat /\ DOMAIN Classes(p, m) = 1 .. n /\ \A l \in 1 .. n : Classes(p, m)[l] \in AllClasses(p)
  BY ClassesAreList
<1>2. IsProvided(p, m, ps, n)
  BY ImplicitFacts
<1> HIDE DEF n, ps
<1>3. IsFiniteSet(DOMAIN ps)
  <2>1. IsFiniteSet(1 .. n)
    BY <1>1, FS_Interval
  <2>2. named \in Surjection(1 .. n, names)
    BY DEF Surjection
  <2>3. DOMAIN ps \in SUBSET names
    BY <1>2 DEF IsProvided
  <2> HIDE DEF names, named
  <2>4. QED
    BY <2>1, <2>2, <2>3, FS_Surjection, FS_Subset
<1>4. ASSUME NEW x \in DOMAIN ps PROVE IsSupply(p, m, x, ps[x])
  <2>1. PICK l \in 1 .. n : Classes(p, m)[l].name = x /\ ps[x] = Decorated(p, m, Classes(p, m)[l])
    BY <1>2 DEF IsProvided
  <2> DEFINE c == Classes(p, m)[l]
  <2>2. IsList(c.params)
    BY <1>1 DEF AllClasses, IsProject, IsClass
  <2>3. c.name = x /\ ps[x] = Decorated(p, m, c) /\ l \in DOMAIN Classes(p, m)
    BY <1>1, <2>1
  <2>4. \E k \in DOMAIN Classes(p, m) : Classes(p, m)[k].name = x /\ ps[x].of = x /\ ps[x].params = Classes(p, m)[k].params
    <3>1. ps[x].of = x /\ ps[x].params = c.params
      BY <2>3 DEF Decorated, Provider
    <3>2. QED
      BY <2>3, <3>1
  <2> HIDE DEF c
  <2>5. /\ ps[x] = [visibility |-> ps[x].visibility, visibleTo |-> ps[x].visibleTo, scope |-> ps[x].scope,
                    use |-> ps[x].use, of |-> ps[x].of, params |-> ps[x].params]
        /\ ps[x].params = c.params
    BY <2>3 DEF Decorated, Provider
  <2>6. QED
    BY <2>2, <2>4, <2>5 DEF IsSupply
<1>5. QED
  BY <1>3, <1>4 DEF IsSupplied, ps

(* What the definition lists is no class's own, or what the class had. *)
LEMMA ExplicitIsSupplied ==
  ASSUME NEW p, NEW m, NEW s, IsNode(p, m, s), IsSupplied(p, m, s.providers),
         NEW e, e.use \in {"value", "class", "existing", "factory", "none"}, IsList(e.inject)
  PROVE  IsSupplied(p, m, Explicit(p, m, s, e).providers)
<1> DEFINE new == Provider(p, m, e.options, e.use, e.of, e.inject)
           prev == s.providers[e.token]
           t == Explicit(p, m, s, e)
           merged == Merged(prev, new)
<1>1. t = CASE e.kind = "spread" -> s
            [] e.kind # "spread" /\ e.token \in DOMAIN s.providers /\ ~IsImplicit(prev) -> [s EXCEPT !.ambiguous = TRUE]
            [] e.kind = "ref" /\ e.token \in DOMAIN s.providers /\ IsImplicit(prev) ->
                 [s EXCEPT !.providers = With(@, e.token, merged)]
            [] OTHER -> [s EXCEPT !.providers = With(@, e.token, new)]
  BY DEF Explicit
<1>2. IsSupply(p, m, e.token, new)
  BY DEF IsSupply, Provider
<1>3. e.token \in DOMAIN s.providers => IsSupply(p, m, e.token, merged)
  <2>1. SUFFICES ASSUME IsSupply(p, m, e.token, prev) PROVE IsSupply(p, m, e.token, merged)
    BY DEF IsSupplied
  <2> HIDE DEF prev, new
  <2>2. merged.use = prev.use /\ merged.of = prev.of /\ merged.params = prev.params
        /\ merged = [visibility |-> merged.visibility, visibleTo |-> merged.visibleTo, scope |-> merged.scope,
                     use |-> merged.use, of |-> merged.of, params |-> merged.params]
    <3>1. PICK a, b, c, d, f, h : prev = [visibility |-> a, visibleTo |-> b, scope |-> c, use |-> d, of |-> f, params |-> h]
      BY <2>1 DEF IsSupply
    <3>2. merged = [prev EXCEPT !.scope = new.scope,
                                !.visibility = IF new.visibility = "module" THEN @ ELSE new.visibility]
      BY DEF Merged
    <3> HIDE DEF merged
    <3>3. merged = [visibility |-> IF new.visibility = "module" THEN a ELSE new.visibility,
                    visibleTo |-> b, scope |-> new.scope, use |-> d, of |-> f, params |-> h]
      BY <3>1, <3>2
    <3>4. QED
      BY <3>1, <3>3
  <2> HIDE DEF merged
  <2>3. QED
    BY <2>1, <2>2 DEF IsSupply
<1> HIDE DEF t, new, merged, prev
<1>4. \/ t.providers = s.providers
      \/ \E y : IsSupply(p, m, e.token, y) /\ t.providers = With(s.providers, e.token, y)
  BY <1>1, <1>2, <1>3 DEF IsNode
<1>5. ASSUME NEW y, IsSupply(p, m, e.token, y) PROVE IsSupplied(p, m, With(s.providers, e.token, y))
  <2> DEFINE ps == With(s.providers, e.token, y)
  <2>1. DOMAIN ps = DOMAIN s.providers \cup {e.token} /\ \A x \in DOMAIN ps : ps[x] = IF x = e.token THEN y ELSE s.providers[x]
    BY DEF With
  <2> HIDE DEF ps
  <2>2. IsFiniteSet(DOMAIN ps)
    BY <2>1, FS_AddElement DEF IsSupplied
  <2>3. QED
    BY <1>5, <2>1, <2>2 DEF IsSupplied, ps
<1>6. QED
  BY <1>4, <1>5 DEF t

LEMMA NodeIsSupplied ==
  ASSUME NEW p, IsList(p), IsProject(p), NEW m \in DOMAIN p
  PROVE  IsSupplied(p, m, Node(p, m).providers)
<1> DEFINE list == p[m].providers
           n == Len(list)
<1>1. IsList(list) /\ n \in Nat /\ DOMAIN list = 1 .. n
  BY ListFacts DEF IsProject
<1>2. PICK tr : /\ IsRun(tr, "explicit", [p |-> p, m |-> m], FirstNode(p, m), list, n)
                /\ Node(p, m) = tr[n]
  BY <1>1, NodeRuns
<1> DEFINE good == {i \in Nat : i <= n => IsNode(p, m, tr[i]) /\ IsSupplied(p, m, tr[i].providers)}
<1>3. 0 \in good
  <2>1. tr[0] = FirstNode(p, m)
    BY <1>2 DEF IsRun
  <2>2. QED
    BY <2>1, FirstIsNode, ImplicitIsSupplied
<1>4. ASSUME NEW i \in Nat, i \in good PROVE i + 1 \in good
  <2>1. SUFFICES ASSUME i + 1 <= n PROVE IsNode(p, m, tr[i + 1]) /\ IsSupplied(p, m, tr[i + 1].providers)
    OBVIOUS
  <2>2. i \in 0 .. n - 1 /\ i + 1 \in 1 .. n /\ IsNode(p, m, tr[i]) /\ IsSupplied(p, m, tr[i].providers)
    BY <1>1, <1>4, <2>1
  <2>3. tr[i + 1] = Explicit(p, m, tr[i], list[i + 1])
    BY <1>2, <2>2 DEF IsRun, Step
  <2>4. list[i + 1].use \in {"value", "class", "existing", "factory", "none"} /\ IsList(list[i + 1].inject)
    BY <1>1, <2>2 DEF IsProject
  <2>5. IsNode(p, m, Explicit(p, m, tr[i], list[i + 1]))
    BY <2>2, ExplicitFacts
  <2>6. IsSupplied(p, m, Explicit(p, m, tr[i], list[i + 1]).providers)
    BY <2>2, <2>4, ExplicitIsSupplied
  <2>7. QED
    BY <2>3, <2>5, <2>6
<1>5. n \in good
  <2> HIDE DEF good
  <2>1. QED
    BY <1>1, <1>3, <1>4, SetInduction
<1>6. QED
  BY <1>1, <1>2, <1>5

-----------------------------------------------------------------------------
(* The names of the classes that parameters are given. *)
GivenNames(params) == [i \in DOMAIN params |-> InjectedClass(params[i])]

(* A graph whose classes are provided: each is the one class of its name,    *)
(* and is given such classes.                                                *)
IsOfClass(g, m, x) ==
  /\ x \in DOMAIN g.classMap /\ g.classMap[x] = m
  /\ m \in DOMAIN g.modules /\ x \in DOMAIN g.modules[m].providers /\ g.modules[m].providers[x].use = "itself"

IsOfClasses(g) ==
  /\ IsFiniteSet(DOMAIN g.modules) /\ DOMAIN g.modules \subseteq Nat
  /\ \A m, n \in DOMAIN g.modules : g.modules[m].name = g.modules[n].name => m = n
  /\ \A m \in DOMAIN g.modules : IsFiniteSet(DOMAIN g.modules[m].providers)
  /\ \A m \in DOMAIN g.modules : \A x \in ClassNames(g.modules[m]) : x \in DOMAIN g.classMap /\ g.classMap[x] = m
  /\ \A m \in DOMAIN g.modules : \A x \in DOMAIN g.modules[m].providers :
       LET provider == g.modules[m].providers[x] IN
       /\ provider.use \in {"itself", "value"} /\ IsList(provider.params)
       /\ x \in DOMAIN g.classMap => g.classMap[x] = m
       /\ provider.use = "itself" =>
            /\ IsOfClass(g, m, x) /\ provider.of = x /\ ClassDefinition(g, x).params = provider.params
            /\ \A i \in DOMAIN provider.params :
                 LET y == GivenNames(provider.params)[i] IN y # NoName /\ IsOfClass(g, g.classMap[y], y)

(* The definition of a class with a name of its own is the class. *)
LEMMA DefinitionFound ==
  ASSUME NEW g, NEW x, NEW m, g.classMap[x] = m, NEW n \in Nat, n = Len(g.modules[m].classes), NEW l \in 1 .. n,
         g.modules[m].classes[l].name = x,
         \A k \in 1 .. n : g.modules[m].classes[k].name = x => k = l
  PROVE  ClassDefinition(g, x) = g.modules[m].classes[l]
<1> DEFINE classes == g.modules[m].classes
           found == {i \in 1 .. Len(classes) : classes[i].name = x}
<1>1. found = {l}
  OBVIOUS
<1>2. Max({l}) = l
  BY DEF Max
<1>3. SelectLastInSeq(classes, LAMBDA c : c.name = x) = IF found # {} THEN Max(found) ELSE 0
  BY DEF SelectLastInSeq
<1> HIDE DEF found
<1>4. SelectLastInSeq(classes, LAMBDA c : c.name = x) = l
  BY <1>1, <1>2, <1>3
<1>5. QED
  BY <1>4 DEF ClassDefinition

LEMMA ProjectIsOfClasses ==
  ASSUME NEW p, IsList(p), IsProject(p), NamesAreUnique(Graph(p)), ClassesAreProvided(Graph(p))
  PROVE  IsOfClasses(Graph(p))
<1> DEFINE g == Graph(p)
<1>1. /\ DOMAIN g.modules = ModuleFiles(p) /\ g.classMap = ClassMap(g.modules)
      /\ IsFiniteSet(DOMAIN g.modules) /\ DOMAIN g.modules \subseteq Nat
      /\ \A m \in DOMAIN g.modules : m # 0 /\ m \in DOMAIN p /\ g.modules[m] = Node(p, m) /\ IsList(p[m].providers)
  BY GraphFacts, ProjectFacts DEF IsProject
<1>2. \A m \in DOMAIN g.modules : g.modules[m].classes = Classes(p, m) /\ IsSupplied(p, m, g.modules[m].providers)
  BY <1>1, NodeIsNode, NodeIsSupplied DEF IsNode
<1>3. \A m \in DOMAIN g.modules : /\ Len(Classes(p, m)) \in Nat /\ DOMAIN Classes(p, m) = 1 .. Len(Classes(p, m))
                                  /\ \A l \in DOMAIN Classes(p, m) : Classes(p, m)[l] \in AllClasses(p)
  BY ClassesAreList
<1>4. \A c \in AllClasses(p) : c.name # NoName
  BY DEF AllClasses, IsProject, IsClass
<1>5. NamesAreUnique(g) /\ ClassesAreProvided(g)
  OBVIOUS
<1> HIDE DEF g
<1>6. \A m, n \in DOMAIN g.modules :
        /\ g.modules[m].name = g.modules[n].name => m = n
        /\ \A i \in DOMAIN Classes(p, m), j \in DOMAIN Classes(p, n) : Classes(p, m)[i].name = Classes(p, n)[j].name => m = n /\ i = j
  BY <1>2, <1>5 DEF NamesAreUnique
<1>7. ASSUME NEW m \in DOMAIN g.modules, NEW x \in ClassNames(g.modules[m]) PROVE x \in DOMAIN g.classMap /\ g.classMap[x] = m
  <2>1. PICK i \in DOMAIN Classes(p, m) : x = Classes(p, m)[i].name
    BY <1>2 DEF ClassNames
  <2>2. x \in DOMAIN g.classMap
    BY <1>1 DEF ClassMap
  <2>3. g.classMap[x] \in DOMAIN g.modules /\ x \in ClassNames(g.modules[g.classMap[x]])
    BY <1>1, <2>2, ClassMapFacts
  <2>4. PICK j \in DOMAIN Classes(p, g.classMap[x]) : x = Classes(p, g.classMap[x])[j].name
    BY <1>2, <2>3 DEF ClassNames
  <2>5. QED
    BY <1>6, <2>1, <2>2, <2>3, <2>4
<1>8. ASSUME NEW m \in DOMAIN g.modules, NEW x \in DOMAIN g.modules[m].providers, g.modules[m].providers[x].use = "itself"
      PROVE  /\ IsOfClass(g, m, x) /\ g.modules[m].providers[x].of = x
             /\ ClassDefinition(g, x).params = g.modules[m].providers[x].params
  <2> DEFINE e == g.modules[m].providers[x]
  <2>1. PICK l \in DOMAIN Classes(p, m) : Classes(p, m)[l].name = x /\ e.of = x /\ e.params = Classes(p, m)[l].params
    BY <1>2, <1>8 DEF IsSupplied, IsSupply
  <2>2. x \in ClassNames(g.modules[m])
    BY <1>2, <2>1 DEF ClassNames
  <2>3. x \in DOMAIN g.classMap /\ g.classMap[x] = m
    BY <1>7, <2>2
  <2>4. ClassDefinition(g, x) = Classes(p, m)[l]
    BY <1>2, <1>3, <1>6, <2>1, <2>3, DefinitionFound
  <2>5. QED
    BY <1>8, <2>1, <2>3, <2>4 DEF IsOfClass
<1>9. \A m \in DOMAIN g.modules : \A x \in DOMAIN g.modules[m].providers :
        LET provider == g.modules[m].providers[x] IN
        /\ provider.use \in {"itself", "value"}
        /\ x \in DOMAIN g.classMap => g.classMap[x] = m
        /\ AreProvided(g, provider)
  BY <1>5 DEF ClassesAreProvided
<1>10. ASSUME NEW y, Target(g, y).module # 0, Target(g, y).provider.use = "itself"
       PROVE  y # NoName /\ IsOfClass(g, g.classMap[y], y)
  <2>1. y \in DOMAIN g.classMap
    BY <1>10 DEF Target
  <2>2. g.classMap[y] \in DOMAIN g.modules /\ y \in ClassNames(g.modules[g.classMap[y]])
    BY <1>1, <2>1, ClassMapFacts
  <2>3. g.classMap[y] # 0
    BY <1>1, <2>2
  <2>4. y \in DOMAIN g.modules[g.classMap[y]].providers
    BY <1>10, <2>1, <2>3 DEF Target
  <2>5. g.modules[g.classMap[y]].providers[y].use = "itself"
    BY <1>10, <2>1, <2>3, <2>4 DEF Target
  <2>6. y # NoName
    BY <1>2, <1>3, <1>4, <2>2 DEF ClassNames
  <2>7. QED
    BY <2>1, <2>2, <2>4, <2>5, <2>6 DEF IsOfClass
<1>11. ASSUME NEW m \in DOMAIN g.modules, NEW x \in DOMAIN g.modules[m].providers, g.modules[m].providers[x].use = "itself"
       PROVE  \A i \in DOMAIN g.modules[m].providers[x].params :
                LET y == GivenNames(g.modules[m].providers[x].params)[i] IN y # NoName /\ IsOfClass(g, g.classMap[y], y)
  <2> DEFINE e == g.modules[m].providers[x]
             names == GivenNames(e.params)
  <2>1. \A i \in DOMAIN e.params : names[i] = InjectedClass(e.params[i])
    BY DEF GivenNames
  <2> HIDE DEF names
  <2>2. \A i \in DOMAIN e.params : Target(g, names[i]).module # 0 /\ Target(g, names[i]).provider.use = "itself"
    <3>1. \A i \in DOMAIN e.params :
            LET target == Target(g, IF IsImplicit(e) THEN InjectedClass(e.params[i]) ELSE e.params[i])
            IN target.module # 0 /\ target.provider.use = "itself"
      <4>1. AreProvided(g, e)
        BY <1>9, <1>11
      <4>2. QED
        BY <4>1 DEF AreProvided
    <3>2. IsImplicit(e)
      BY <1>11 DEF IsImplicit
    <3> HIDE DEF e
    <3>3. QED
      BY <2>1, <3>1, <3>2
  <2> HIDE DEF e
  <2>3. \A i \in DOMAIN e.params : names[i] # NoName /\ IsOfClass(g, g.classMap[names[i]], names[i])
    BY <1>10, <2>2
  <2>4. QED
    BY <2>3 DEF e, names
<1>12. ASSUME NEW m \in DOMAIN g.modules, NEW x \in DOMAIN g.modules[m].providers
       PROVE  IsList(g.modules[m].providers[x].params)
  BY <1>2 DEF IsSupplied, IsSupply
<1>13. \A m \in DOMAIN g.modules : IsFiniteSet(DOMAIN g.modules[m].providers)
  BY <1>2 DEF IsSupplied
<1>14. IsOfClasses(g)
  <2>1. ASSUME NEW m \in DOMAIN g.modules, NEW x \in DOMAIN g.modules[m].providers
        PROVE  LET provider == g.modules[m].providers[x] IN
               /\ provider.use \in {"itself", "value"} /\ IsList(provider.params)
               /\ x \in DOMAIN g.classMap => g.classMap[x] = m
               /\ provider.use = "itself" =>
                    /\ IsOfClass(g, m, x) /\ provider.of = x /\ ClassDefinition(g, x).params = provider.params
                    /\ \A i \in DOMAIN provider.params :
                         LET y == GivenNames(provider.params)[i] IN y # NoName /\ IsOfClass(g, g.classMap[y], y)
    <3>1. /\ g.modules[m].providers[x].use \in {"itself", "value"}
          /\ x \in DOMAIN g.classMap => g.classMap[x] = m
      BY <1>9
    <3>2. QED
      BY <1>8, <1>11, <1>12, <3>1
  <2>2. \A m \in DOMAIN g.modules : \A x \in ClassNames(g.modules[m]) : x \in DOMAIN g.classMap /\ g.classMap[x] = m
    BY <1>7
  <2>3. \A m, n \in DOMAIN g.modules : g.modules[m].name = g.modules[n].name => m = n
    BY <1>6
  <2>4. QED
    BY <1>1, <1>13, <2>1, <2>2, <2>3 DEF IsOfClasses
<1>15. QED
  BY <1>14 DEF g

-----------------------------------------------------------------------------
(* What a factory of the container asks for: a value's for nothing, a        *)
(* class's for the keys of its parameters' classes, all of them there.       *)
AsksNothing(c, t) == c.factories[t].use = "value" /\ \A w, d : DOMAIN Wants(w, d, c.factories[t]) = {}

ClassKey(g, y) == Key(g.modules[g.classMap[y]].name, y)

AsksForClasses(g, c, m, x, t) ==
  LET params == GivenNames(g.modules[m].providers[x].params) IN
  /\ c.factories[t].use = "class" /\ c.factories[t].of = x
  /\ \A w, d : DOMAIN Wants(w, d, c.factories[t]) = DOMAIN params
  /\ \A i \in DOMAIN params :
       LET u == ClassKey(g, params[i]) IN
       /\ u \in DOMAIN c.factories /\ c.factories[u].use = "class" /\ c.factories[u].of = params[i]
       /\ \A w, d : Wants(w, d, c.factories[t])[i].token = u /\ ~Wants(w, d, c.factories[t])[i].caught

LEMMA AskedForClass ==
  ASSUME NEW g, NEW c, NEW m, NEW x, NEW t, AsksForClasses(g, c, m, x, t), NEW w, NEW d,
         NEW i \in DOMAIN Wants(w, d, c.factories[t])
  PROVE  \E u \in DOMAIN c.factories :
           /\ i \in DOMAIN GivenNames(g.modules[m].providers[x].params)
           /\ u = ClassKey(g, GivenNames(g.modules[m].providers[x].params)[i])
           /\ Wants(w, d, c.factories[t])[i].token = u
           /\ c.factories[u].use = "class" /\ c.factories[u].of = GivenNames(g.modules[m].providers[x].params)[i]
<1> DEFINE params == GivenNames(g.modules[m].providers[x].params)
<1>1. i \in DOMAIN params
  BY DEF AsksForClasses
<1>2. \A j \in DOMAIN params :
         LET u == ClassKey(g, params[j]) IN
         /\ u \in DOMAIN c.factories /\ c.factories[u].use = "class" /\ c.factories[u].of = params[j]
         /\ \A v, b : Wants(v, b, c.factories[t])[j].token = u /\ ~Wants(v, b, c.factories[t])[j].caught
  BY DEF AsksForClasses
<1> HIDE DEF params
<1>3. QED
  BY <1>1, <1>2 DEF params

LEMMA EntryIs ==
  ASSUME NEW g, IsOfClasses(g), NEW m \in DOMAIN g.modules, NEW x \in DOMAIN g.modules[m].providers
  PROVE  LET e == g.modules[m].providers[x] IN
         /\ x \in Entries(g.modules[m]) /\ <<m, x>> \in EntriesOf(g, DOMAIN g.modules)
         /\ e.use = "itself" => EntryOf(g, <<m, x>>) = Generated("class", x, Dependencies(g, m, e.params))
         /\ e.use = "value" => EntryOf(g, <<m, x>>) = Generated("value", e.of, [i \in DOMAIN e.params |-> Text(e.params[i])])
         /\ e.use \in {"itself", "value"}
         /\ IsList(EntryOf(g, <<m, x>>).inject)
<1> DEFINE e == g.modules[m].providers[x]
           texts == [i \in DOMAIN e.params |-> Text(e.params[i])]
           deps == Dependencies(g, m, e.params)
           entry == EntryOf(g, <<m, x>>)
<1>1. e.use \in {"itself", "value"} /\ IsList(e.params) /\ (e.use = "itself" => e.of = x)
  BY DEF IsOfClasses
<1>2. Len(e.params) \in Nat /\ DOMAIN e.params = 1 .. Len(e.params)
  BY <1>1, ListFacts
<1>3. x \in Entries(g.modules[m]) /\ <<m, x>> \in EntriesOf(g, DOMAIN g.modules)
  BY <1>1 DEF Entries, EntriesOf
<1>4. entry = FactoryEntry(g, m, e)
  BY DEF EntryOf
<1>5. e.use = "itself" => entry = Generated("class", x, deps)
  BY <1>1, <1>4 DEF FactoryEntry
<1>6. e.use = "value" => entry = Generated("value", e.of, texts)
  BY <1>4 DEF FactoryEntry
<1>7. IsList(texts) /\ IsList(deps)
  <2>1. texts = [i \in 1 .. Len(e.params) |-> texts[i]] /\ deps = [i \in 1 .. Len(e.params) |-> deps[i]]
    BY <1>2 DEF Dependencies
  <2> HIDE DEF texts, deps
  <2>2. QED
    BY <1>2, <2>1, FunctionIsList
<1> HIDE DEF texts, deps, entry
<1>8. IsList(entry.inject)
  BY <1>1, <1>5, <1>6, <1>7 DEF Generated
<1>9. QED
  BY <1>1, <1>3, <1>5, <1>6, <1>8 DEF texts, deps, entry

LEMMA ClassesAreGraph ==
  ASSUME NEW g, IsOfClasses(g)
  PROVE  IsGraph(g)
<1>1. ASSUME NEW e \in EntriesOf(g, DOMAIN g.modules) PROVE IsList(EntryOf(g, e).inject)
  <2>1. PICK m \in DOMAIN g.modules : \E x \in Entries(g.modules[m]) : e = <<m, x>>
    BY DEF EntriesOf
  <2>2. PICK x \in Entries(g.modules[m]) : e = <<m, x>>
    BY <2>1
  <2>3. x \in DOMAIN g.modules[m].providers
    BY DEF Entries
  <2>4. QED
    BY <2>2, <2>3, EntryIs
<1>2. QED
  BY <1>1 DEF IsGraph, IsOfClasses

LEMMA FactoryAsks ==
  ASSUME NEW g, IsOfClasses(g), NEW c, Holding(g, EntriesOf(g, DOMAIN g.modules), c), NEW t \in DOMAIN c.factories
  PROVE  \E m \in DOMAIN g.modules : \E x \in DOMAIN g.modules[m].providers :
           /\ t = Key(g.modules[m].name, x)
           /\ \/ AsksNothing(c, t)
              \/ g.modules[m].providers[x].use = "itself" /\ AsksForClasses(g, c, m, x, t)
<1> DEFINE all == EntriesOf(g, DOMAIN g.modules)
<1>1. PICK e \in all : t = KeyOf(g, e)
  BY DEF Holding
<1>2. PICK m \in DOMAIN g.modules : \E x \in Entries(g.modules[m]) : e = <<m, x>>
  BY DEF EntriesOf
<1>3. PICK x \in Entries(g.modules[m]) : e = <<m, x>>
  BY <1>2
<1>4. x \in DOMAIN g.modules[m].providers /\ t = Key(g.modules[m].name, x) /\ c.factories[t] = EntryOf(g, <<m, x>>)
  BY <1>1, <1>3 DEF Entries, KeyOf, Holding
<1> DEFINE provider == g.modules[m].providers[x]
           params == GivenNames(provider.params)
           f == c.factories[t]
<1>5. CASE provider.use = "value"
  <2>1. f = Generated("value", provider.of, [i \in DOMAIN provider.params |-> Text(provider.params[i])])
    BY <1>4, <1>5, EntryIs
  <2>2. f.use = "value"
    BY <2>1 DEF Generated
  <2> HIDE DEF f
  <2>3. \A w, d : Wants(w, d, f) = << >>
    BY <2>2 DEF Wants
  <2>4. DOMAIN << >> = {}
    OBVIOUS
  <2>5. AsksNothing(c, t)
    BY <2>2, <2>3, <2>4 DEF AsksNothing, f
  <2>6. QED
    BY <1>4, <2>5
<1>6. CASE provider.use = "itself"
  <2>1. f = Generated("class", x, Dependencies(g, m, provider.params))
    BY <1>4, <1>6, EntryIs
  <2>2. f.use = "class" /\ f.of = x /\ f.by = "generated" /\ f.inject = Dependencies(g, m, provider.params)
    BY <2>1 DEF Generated
  <2>2a. DOMAIN params = DOMAIN provider.params /\ \A i \in DOMAIN params : params[i] = InjectedClass(provider.params[i])
    BY DEF GivenNames
  <2>3. \A i \in DOMAIN params : params[i] # NoName /\ IsOfClass(g, g.classMap[params[i]], params[i])
    BY <1>4, <1>6, <2>2a DEF IsOfClasses
  <2> DEFINE key(i) == ClassKey(g, params[i])
  <2>4. DOMAIN f.inject = DOMAIN params /\ \A i \in DOMAIN params : f.inject[i] = key(i) /\ f.inject[i].name # NoName
    <3>1. f.inject = [i \in DOMAIN params |-> Dependency(g, m, params[i])]
      <4> HIDE DEF params, f
      <4>1. QED
        BY <2>2, <2>2a DEF Dependencies
    <3> HIDE DEF f, params
    <3>2. ASSUME NEW i \in DOMAIN params PROVE f.inject[i] = key(i) /\ f.inject[i].name # NoName
      <4>1. f.inject[i] = Dependency(g, m, params[i])
        BY <3>1
      <4>2. Dependency(g, m, params[i]) = key(i)
        BY <2>3 DEF Dependency, IsOfClass, ClassKey
      <4>3. key(i).name = params[i]
        BY DEF Key, ClassKey
      <4> HIDE DEF key
      <4>4. QED
        BY <2>3, <4>1, <4>2, <4>3
    <3>3. DOMAIN f.inject = DOMAIN params
      BY <3>1
    <3>4. QED
      BY <3>2, <3>3
  <2>5. \A w, d : Wants(w, d, f) = [i \in DOMAIN f.inject |-> Want(f.inject[i], f.by = "generated" /\ f.inject[i].name = NoName)]
    <3> HIDE DEF f
    <3>1. QED
      BY <2>2 DEF Wants
  <2>6. ASSUME NEW i \in DOMAIN params
        PROVE  key(i) \in DOMAIN c.factories /\ c.factories[key(i)].use = "class" /\ c.factories[key(i)].of = params[i]
    <3> DEFINE n == g.classMap[params[i]]
               y == params[i]
    <3>1. n \in DOMAIN g.modules /\ y \in DOMAIN g.modules[n].providers /\ g.modules[n].providers[y].use = "itself"
      BY <2>3 DEF IsOfClass
    <3> HIDE DEF n, y
    <3>2. <<n, y>> \in all /\ EntryOf(g, <<n, y>>) = Generated("class", y, Dependencies(g, n, g.modules[n].providers[y].params))
      BY <3>1, EntryIs
    <3>3. KeyOf(g, <<n, y>>) = key(i)
      BY DEF KeyOf, ClassKey, n, y
    <3>4. key(i) \in DOMAIN c.factories /\ c.factories[key(i)] = EntryOf(g, <<n, y>>)
      BY <3>2, <3>3 DEF Holding
    <3>5. EntryOf(g, <<n, y>>).use = "class" /\ EntryOf(g, <<n, y>>).of = y
      BY <3>2 DEF Generated
    <3>6. y = params[i]
      BY DEF y
    <3> HIDE DEF key, params
    <3>7. QED
      BY <3>4, <3>5, <3>6
  <2> HIDE DEF f
  <2>7. \A w, d : DOMAIN Wants(w, d, f) = DOMAIN params
    BY <2>4, <2>5
  <2>8. ASSUME NEW i \in DOMAIN params, NEW w, NEW d PROVE Wants(w, d, f)[i].token = key(i) /\ ~Wants(w, d, f)[i].caught
    <3>1. Wants(w, d, f)[i] = Want(f.inject[i], f.by = "generated" /\ f.inject[i].name = NoName)
      BY <2>4, <2>5
    <3>2. f.inject[i] = key(i) /\ f.inject[i].name # NoName
      BY <2>4
    <3>3. (f.by = "generated" /\ f.inject[i].name = NoName) = FALSE
      BY <3>2
    <3>4. Wants(w, d, f)[i] = Want(f.inject[i], FALSE)
      BY <3>1, <3>3
    <3>5. Wants(w, d, f)[i].token = f.inject[i] /\ Wants(w, d, f)[i].caught = FALSE
      <4>1. Want(f.inject[i], FALSE).token = f.inject[i] /\ Want(f.inject[i], FALSE).caught = FALSE
        BY DEF Want
      <4>2. QED
        BY <3>4, <4>1
    <3>6. QED
      BY <3>2, <3>5
  <2>9. AsksForClasses(g, c, m, x, t)
    BY <2>2, <2>6, <2>7, <2>8 DEF AsksForClasses, f
  <2>10. QED
    BY <1>4, <1>6, <2>9
<1>7. QED
  BY <1>4, <1>5, <1>6, EntryIs

-----------------------------------------------------------------------------
(* With no cycle of modules, and none of classes within a module, there is   *)
(* no cycle of classes: of the modules that a cycle goes through, the one    *)
(* that leads to no other has a cycle of its own.                            *)
LEMMA NoCycleAcross ==
  ASSUME StackLimit \in Nat, NEW g, IsOfClasses(g), NEW c, Holding(g, EntriesOf(g, DOMAIN g.modules), c),
         Cardinality(DOMAIN c.factories) <= StackLimit, NEW w,
         IsNext(Adjacency(g)), \A v \in DOMAIN Adjacency(g) : Escapes(Adjacency(g), v), ForwardsAreKnown(g),
         \A m \in DOMAIN g.modules : Acyclic(w, WithinModule(c, g.modules[m].name))
  PROVE  Acyclic(w, c)
<1>1. SUFFICES ASSUME ~Acyclic(w, c) PROVE FALSE
  OBVIOUS
<1>2. PICK X : IsStuck(w, c, X)
  BY <1>1, OnlyStuckOutgrows DEF Holding
<1> DEFINE M == {m \in DOMAIN g.modules : \E t \in X : t.scope = g.modules[m].name}
<1>3. DOMAIN Adjacency(g) = DOMAIN g.modules
  BY DEF Adjacency
  (* A stuck factory asks for another, of its module or of one it depends on. *)
<1>4. ASSUME NEW t \in X
      PROVE  \E m, n \in DOMAIN g.modules : \E u \in X :
               /\ t.scope = g.modules[m].name /\ u.scope = g.modules[n].name /\ n \in Adjacency(g)[m] \cup {m}
               /\ \A d : \E i \in DOMAIN Wants(w, d, c.factories[t]) : Wants(w, d, c.factories[t])[i].token = u
  <2>1. t \in DOMAIN c.factories /\ \E i \in DOMAIN Asks(w, c, t) : Asks(w, c, t)[i].token \in X
    BY <1>2 DEF IsStuck
  <2>2. PICK i \in DOMAIN Asks(w, c, t) : Asks(w, c, t)[i].token \in X
    BY <2>1
  <2>3a. PICK m \in DOMAIN g.modules : \E x \in DOMAIN g.modules[m].providers :
          /\ t = Key(g.modules[m].name, x)
          /\ \/ AsksNothing(c, t)
             \/ g.modules[m].providers[x].use = "itself" /\ AsksForClasses(g, c, m, x, t)
    BY <2>1, FactoryAsks
  <2>3. PICK x \in DOMAIN g.modules[m].providers :
          /\ t = Key(g.modules[m].name, x)
          /\ \/ AsksNothing(c, t)
             \/ g.modules[m].providers[x].use = "itself" /\ AsksForClasses(g, c, m, x, t)
    BY <2>3a
  <2>4. g.modules[m].providers[x].use = "itself" /\ AsksForClasses(g, c, m, x, t)
    BY <2>2, <2>3 DEF AsksNothing, Asks
  <2> DEFINE given == g.modules[m].providers[x].params
             params == GivenNames(given)
             y == params[i]
             n == g.classMap[y]
             u == ClassKey(g, y)
  <2>5. i \in DOMAIN params
    BY <2>2, <2>4 DEF AsksForClasses, Asks
  <2>6. ASSUME NEW d PROVE i \in DOMAIN Wants(w, d, c.factories[t]) /\ Wants(w, d, c.factories[t])[i].token = u
    <3>1. i \in DOMAIN Wants(w, d, c.factories[t])
      BY <2>4, <2>5 DEF AsksForClasses
    <3>2. QED
      BY <2>4, <3>1, AskedForClass
  <2>7. y # NoName /\ IsOfClass(g, n, y)
    <3>1. i \in DOMAIN given
      BY <2>5 DEF GivenNames
    <3>2. QED
      BY <2>4, <3>1 DEF IsOfClasses
  <2>8. u \in X
    BY <2>2, <2>6 DEF Asks
  <2>9. y = InjectedClass(given[i]) /\ given[i] \in ToSet(given)
    BY <2>5 DEF GivenNames, ToSet
  <2>10. n \in DOMAIN g.modules /\ n \in Adjacency(g)[m] \cup {m}
    <3> HIDE DEF y
    <3>1. CASE given[i].by = "forward"
      <4>1. y = given[i].token
        BY <2>9, <3>1 DEF InjectedClass
      <4>2. g.classMap[given[i].token] \in {m} \cup Adjacency(g)[m]
        BY <2>4, <2>9, <3>1 DEF ForwardsAreKnown, IsImplicit
      <4>3. QED
        BY <2>7, <4>1, <4>2 DEF IsOfClass
    <3>2. CASE given[i].by # "forward"
      <4>1. CheckedClass(given[i]) = y
        BY <2>9, <3>2 DEF InjectedClass, CheckedClass
      <4>2. y \in ExtractDeps(g.modules[m].providers[x])
        BY <2>4, <2>7, <2>9, <4>1 DEF ExtractDeps, IsImplicit
      <4>3. y \in Tokens(g.modules[m])
        BY <4>2 DEF Tokens
      <4>4. QED
        BY <2>7, <4>3 DEF Adjacency, IsOfClass
    <3>3. QED
      BY <3>1, <3>2
  <2>11. t.scope = g.modules[m].name /\ u.scope = g.modules[n].name
    BY <2>3 DEF Key, ClassKey
  <2> HIDE DEF u, n
  <2>12. QED
    BY <2>6, <2>8, <2>10, <2>11
<1>5. M # {} /\ M \subseteq DOMAIN Adjacency(g)
  <2>1. PICK t : t \in X
    BY <1>2 DEF IsStuck
  <2>2. QED
    BY <1>3, <1>4, <2>1
<1> HIDE DEF M
<1>6. PICK m \in M : Adjacency(g)[m] \cap M = {}
  BY <1>5, SomeLeadsOut
<1> DEFINE s == g.modules[m].name
           cm == WithinModule(c, s)
           Y == {t \in X : t.scope = s}
<1>7. m \in DOMAIN g.modules /\ Y # {}
  BY DEF M
<1>8. /\ DOMAIN cm.factories = {t \in DOMAIN c.factories : t.scope = s}
      /\ \A t \in DOMAIN cm.factories : cm.factories[t] = c.factories[t]
  <2>1. cm.factories = [t \in {t \in DOMAIN c.factories : t.scope = s} |-> c.factories[t]]
    <3>1. c = [factories |-> c.factories, instances |-> c.instances, made |-> << >>]
      BY DEF Holding, IsListed, IsFresh
    <3>2. QED
      BY <3>1 DEF WithinModule
  <2>2. QED
    BY <2>1
<1> HIDE DEF cm
<1>9. ASSUME NEW t \in Y PROVE \E i \in DOMAIN Asks(w, cm, t) : Asks(w, cm, t)[i].token \in Y
  <2>1. PICK k \in DOMAIN g.modules, n \in DOMAIN g.modules, u \in X :
          /\ t.scope = g.modules[k].name /\ u.scope = g.modules[n].name /\ n \in Adjacency(g)[k] \cup {k}
          /\ \A d : \E i \in DOMAIN Wants(w, d, c.factories[t]) : Wants(w, d, c.factories[t])[i].token = u
    BY <1>4
  <2>2. k = m
    BY <1>7, <2>1 DEF IsOfClasses
  <2>3. n \in M
    BY <2>1 DEF M
  <2>4. n = m
    BY <1>6, <2>1, <2>2, <2>3
  <2>5. u \in Y /\ cm.factories[t] = c.factories[t]
    <3>1. t \in DOMAIN c.factories
      BY <1>2 DEF IsStuck
    <3>2. QED
      BY <1>8, <2>1, <2>4, <3>1
  <2> HIDE DEF Y
  <2>6. PICK i \in DOMAIN Wants(w, cm, c.factories[t]) : Wants(w, cm, c.factories[t])[i].token = u
    BY <2>1
  <2>7. QED
    BY <2>5, <2>6 DEF Asks
<1>10. Y \subseteq DOMAIN cm.factories
  BY <1>2, <1>8 DEF IsStuck
<1> HIDE DEF Y
<1>11. IsStuck(w, cm, Y)
  BY <1>7, <1>9, <1>10 DEF IsStuck
<1>12. ~Acyclic(w, cm)
  BY <1>11, StuckOutgrows
<1>13. QED
  BY <1>7, <1>12 DEF cm

-----------------------------------------------------------------------------
(* All that the container is asked for is there, with what it is given.      *)
LEMMA ResolvedHolds ==
  ASSUME StackLimit \in Nat, NEW g, IsOfClasses(g), NEW c, Holding(g, EntriesOf(g, DOMAIN g.modules), c), Acyclic(World(g), c),
         IsWired(World(g), c)
  PROVE  Resolved(g, World(g), Gets(World(g), c, SetToSeq(DOMAIN c.factories)))
<1> DEFINE w == World(g)
           keys == SetToSeq(DOMAIN c.factories)
           after == Gets(w, c, keys)
<1>1. IsList(keys) /\ DOMAIN keys = 1 .. Len(keys) /\ \A t \in DOMAIN c.factories : \E i \in 1 .. Len(keys) : keys[i] = t
  <2>1. keys \in Seq(DOMAIN c.factories)
    BY SetToSeqIsSeq DEF Holding
  <2>2. IsList(keys)
    BY <2>1, SeqIsList
  <2>3. \A t \in DOMAIN c.factories : \E i \in 1 .. Len(keys) : keys[i] = t
    BY SetToSeqIsSeq DEF Holding
  <2> HIDE DEF keys
  <2>4. QED
    BY <2>2, <2>3, ListFacts
<1>2. w.throws = {} /\ w.scoped = CreateScopedKeysMap(g)
  BY DEF World
<1>3. Acyclic(w, c) /\ IsWired(w, c) /\ IsFresh(c)
  BY DEF Holding, IsListed
<1> HIDE DEF w, keys
<1>4. /\ IsOrderly(w, c, after)
      /\ \A i \in DOMAIN keys : keys[i] \in CanBeMade(w, c) => InstanceOf(after, keys[i]) # 0
  BY <1>1, <1>3, FreshInOrder, GetsAnswer
<1> HIDE DEF after
<1>5. ASSUME NEW t \in DOMAIN c.factories PROVE t \in CanBeMade(w, c)
  <2>1. ASSUME NEW u \in DOMAIN c.factories PROVE ~Refuses(w, c, u) /\ Needs(w, c, u) \subseteq DOMAIN c.factories
    <3>1. ~Refuses(w, c, u)
      BY <1>2 DEF Refuses
    <3>2a. PICK m \in DOMAIN g.modules : \E x \in DOMAIN g.modules[m].providers :
            \/ AsksNothing(c, u)
            \/ g.modules[m].providers[x].use = "itself" /\ AsksForClasses(g, c, m, x, u)
      BY FactoryAsks
    <3>2. PICK x \in DOMAIN g.modules[m].providers :
            \/ AsksNothing(c, u)
            \/ g.modules[m].providers[x].use = "itself" /\ AsksForClasses(g, c, m, x, u)
      BY <3>2a
    <3>3. ASSUME NEW i \in DOMAIN Asks(w, c, u) PROVE Asks(w, c, u)[i].token \in DOMAIN c.factories
      <4>1. AsksForClasses(g, c, m, x, u)
        BY <3>2, <3>3 DEF AsksNothing, Asks
      <4>2. QED
        BY <3>3, <4>1, AskedForClass DEF Asks
    <3>4. QED
      BY <3>1, <3>3 DEF Needs
  <2>2. DOMAIN c.factories \in {S \in SUBSET DOMAIN c.factories : \A u \in S : ~Refuses(w, c, u) /\ Needs(w, c, u) \subseteq S}
    BY <2>1
  <2>3. QED
    BY <2>2 DEF CanBeMade
<1>6. after.factories = c.factories /\ \A x : InstanceOf(after, x) = IF x \in DOMAIN c.factories THEN after.instances[x] ELSE 0
  BY <1>4, Instances
<1>7. ASSUME NEW t \in DOMAIN c.factories PROVE InstanceOf(after, t) # 0 /\ after.instances[t] # 0
  <2>1. PICK i \in 1 .. Len(keys) : keys[i] = t
    BY <1>1
  <2>2. InstanceOf(after, t) # 0
    BY <1>1, <1>4, <1>5, <2>1
  <2>3. QED
    BY <1>6, <2>2
<1>8. /\ \A t \in Makers(c) : after.instances[t] # 0 =>
           after.made[after.instances[t]].of = c.factories[t].of /\ DOMAIN after.made[after.instances[t]].deps = DOMAIN Asks(w, c, t)
      /\ \A t \in Makers(c) : after.instances[t] # 0 => \A i \in DOMAIN Asks(w, c, t) :
           /\ after.made[after.instances[t]].deps[i] = InstanceOf(after, Asks(w, c, t)[i].token)
           /\ Asks(w, c, t)[i].token \in CanBeMade(w, c) => InstanceOf(after, Asks(w, c, t)[i].token) # 0
  BY <1>4 DEF IsOrderly
<1>9. ASSUME NEW t \in DOMAIN c.factories, c.factories[t].use = "class"
      PROVE  LET object == after.made[after.instances[t]]
                 params == ClassDefinition(g, t.name).params
             IN /\ object.of = t.name
                /\ w.scoped[Class(t.name)] = t
                /\ DOMAIN object.deps = DOMAIN params
                /\ \A i \in DOMAIN params : object.deps[i] # 0 /\ after.made[object.deps[i]].of = InjectedClass(params[i])
  <2> DEFINE object == after.made[after.instances[t]]
  <2>1a. PICK m \in DOMAIN g.modules : \E x \in DOMAIN g.modules[m].providers :
          /\ t = Key(g.modules[m].name, x)
          /\ \/ AsksNothing(c, t)
             \/ g.modules[m].providers[x].use = "itself" /\ AsksForClasses(g, c, m, x, t)
    BY FactoryAsks
  <2>1. PICK x \in DOMAIN g.modules[m].providers :
          /\ t = Key(g.modules[m].name, x)
          /\ \/ AsksNothing(c, t)
             \/ g.modules[m].providers[x].use = "itself" /\ AsksForClasses(g, c, m, x, t)
    BY <2>1a
  <2>2. g.modules[m].providers[x].use = "itself" /\ AsksForClasses(g, c, m, x, t)
    BY <1>9, <2>1 DEF AsksNothing
  <2> DEFINE given == g.modules[m].providers[x].params
             params == GivenNames(given)
  <2>3. t.name = x
    BY <2>1 DEF Key
  <2>4. ClassDefinition(g, x).params = given /\ IsOfClass(g, m, x)
    BY <2>2 DEF IsOfClasses
  <2>4a. DOMAIN params = DOMAIN given /\ \A i \in DOMAIN given : params[i] = InjectedClass(given[i])
    BY DEF GivenNames
  <2>5. t \in Makers(c) /\ c.factories[t].of = x
    BY <1>9, <2>2 DEF Makers, AsksForClasses
  <2>6. w.scoped[Class(x)] = t
    <3>1. x \in ScopedNames(g.modules[m])
      BY DEF ScopedNames
    <3>2. ASSUME NEW k \in DOMAIN g.modules, x \in ScopedNames(g.modules[k]) PROVE k = m
      <4>1. x \in DOMAIN g.classMap /\ g.classMap[x] = m
        BY <2>4 DEF IsOfClass
      <4>2. CASE x \in DOMAIN g.modules[k].providers
        BY <4>1, <4>2 DEF IsOfClasses
      <4>3. CASE x \in Controllers(g.modules[k])
        <5>1. x \in ClassNames(g.modules[k])
          BY <4>3 DEF Controllers, ClassNames
        <5>2. QED
          BY <4>1, <5>1 DEF IsOfClasses
      <4>4. QED
        BY <3>2, <4>2, <4>3 DEF ScopedNames
    <3>3. IsFiniteSet(DOMAIN g.modules) /\ DOMAIN g.modules \subseteq Nat
      BY DEF IsOfClasses
    <3>4. QED
      BY <1>2, <2>1, <3>1, <3>2, <3>3, ScopedKeyFound
  <2>7. object.of = x /\ DOMAIN object.deps = DOMAIN params
    <3>1. DOMAIN Asks(w, c, t) = DOMAIN params
      BY <2>2 DEF AsksForClasses, Asks
    <3>2. QED
      BY <1>7, <1>8, <2>5, <3>1
  <2>8. ASSUME NEW i \in DOMAIN params PROVE object.deps[i] # 0 /\ after.made[object.deps[i]].of = params[i]
    <3> DEFINE u == ClassKey(g, params[i])
    <3>1. /\ u \in DOMAIN c.factories /\ c.factories[u].use = "class" /\ c.factories[u].of = params[i]
          /\ i \in DOMAIN Asks(w, c, t) /\ Asks(w, c, t)[i].token = u
      <4>1. i \in DOMAIN Wants(w, c, c.factories[t])
        BY <2>2 DEF AsksForClasses
      <4>2. PICK v \in DOMAIN c.factories :
              /\ i \in DOMAIN params /\ v = ClassKey(g, params[i]) /\ Wants(w, c, c.factories[t])[i].token = v
              /\ c.factories[v].use = "class" /\ c.factories[v].of = params[i]
        BY <2>2, <4>1, AskedForClass
      <4>3. QED
        BY <4>1, <4>2 DEF Asks
    <3> HIDE DEF u, params
    <3>2. object.deps[i] = InstanceOf(after, u)
      BY <1>7, <1>8, <2>5, <3>1
    <3>3. InstanceOf(after, u) = after.instances[u] /\ after.instances[u] # 0 /\ u \in Makers(c)
      BY <1>6, <1>7, <3>1 DEF Makers
    <3>4. after.made[after.instances[u]].of = params[i]
      BY <1>8, <3>1, <3>3
    <3>5. QED
      BY <3>2, <3>3, <3>4
  <2> HIDE DEF params, given, object
  <2>9. QED
    BY <2>3, <2>4, <2>4a, <2>6, <2>7, <2>8 DEF object
<1>10. QED
  BY <1>6, <1>7, <1>9 DEF Resolved, after, w, keys

LEMMA BuiltHolds ==
  ASSUME StackLimit \in Nat, NEW p, IsList(p), IsProject(p), Cardinality(DOMAIN CreateContainer(Graph(p)).factories) <= StackLimit
  PROVE  BuiltRuns(p, Graph(p))
<1> DEFINE g == Graph(p)
           c == CreateContainer(g)
           w == World(g)
           keys == SetToSeq(DOMAIN c.factories)
<1>1. SUFFICES ASSUME Builds(p, g), NamesAreUnique(g), ClassesAreProvided(g), ForwardsAreKnown(g),
                      \A m \in DOMAIN g.modules : Acyclic(w, WithinModule(c, g.modules[m].name))
               PROVE  Acyclic(w, c) /\ ObjectsAreOne(w, c, keys) /\ Resolved(g, w, Gets(w, c, keys))
  BY DEF BuiltRuns
<1>2. IsOfClasses(g)
  BY <1>1, ProjectIsOfClasses
<1>3. IsNext(Adjacency(g)) /\ \A v \in DOMAIN Adjacency(g) : Escapes(Adjacency(g), v)
  <2>1. IsNext(Adjacency(g)) /\ DetectCycles(Adjacency(g)) = {}
    BY <1>1, AdjacencyIsNext DEF Builds
  <2> HIDE DEF g
  <2>2. QED
    BY <2>1, CyclesAreFound
<1>4. Cardinality(DOMAIN c.factories) <= StackLimit
  OBVIOUS
<1> HIDE DEF g
<1>5. Holding(g, EntriesOf(g, DOMAIN g.modules), c)
  BY <1>2, ClassesAreGraph, ContainerHolds
<1> HIDE DEF c
<1>6. IsWired(w, c) /\ IsFresh(c)
  <2>1. IsWorld(w)
    <3>1. w.params = << >> /\ DOMAIN << >> = {}
      BY DEF World
    <3>2. QED
      BY <3>1 DEF IsWorld
  <2>2. IsListed(c)
    BY <1>5 DEF Holding
  <2> HIDE DEF w
  <2>3. QED
    BY <2>1, <2>2, ListedIsWired DEF IsListed
<1>7. Acyclic(w, c)
  BY <1>1, <1>2, <1>3, <1>4, <1>5, NoCycleAcross
<1>8. IsList(keys)
  BY <1>5, SetToSeqIsSeq, SeqIsList DEF Holding
<1>9. ObjectsAreOne(w, c, keys)
  BY <1>6, <1>8, SingletonsHold
<1>10. Resolved(g, w, Gets(w, c, keys))
  BY <1>2, <1>5, <1>6, <1>7, ResolvedHolds
<1>11. QED
  BY <1>7, <1>9, <1>10

(* Every class of every project that builds is given what it asks for, from  *)
(* the modules of the classes, and is made once: as the providers are classes*)
(* and values, no classes of one module ask for one another in a cycle, and  *)
(* forward references lead where the graph knows its modules to lead.        *)
THEOREM BuiltCorrect == SampleSpec => []BuiltResolves
<1>1. SampleInv => BuiltResolves
  <2>1. SUFFICES ASSUME SampleInv, Of("build") PROVE BuiltRuns(It, Graph(It))
    BY DEF BuiltResolves
  <2>2. IsList(It) /\ IsProject(It) /\ Cardinality(DOMAIN CreateContainer(Graph(It)).factories) <= StackLimit
    BY <2>1, ProjectAssumption DEF SampleInv, Of, It, NoSample
  <2>3. StackLimit \in Nat
    BY ContainerAssumption
  <2>4. QED
    BY <2>2, <2>3, BuiltHolds
<1>2. QED
  BY <1>1, SampleTaken, PTL
=============================================================================
