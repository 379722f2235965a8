----------------------------- MODULE InputChecks -----------------------------
(***************************************************************************)
(* The functions of the repository that are checked by themselves: a       *)
(* behaviour chooses one of them and takes one of its inputs.  Which       *)
(* inputs there are is a constant, and so are the names that the functions *)
(* compare: what is said here of a function can be proved of all inputs.   *)
(***************************************************************************)
EXTENDS Cors, CardVerify, CodeIndex, RouteRegistry, ClientIp, GeneratedContainer

CONSTANTS
  Samples,     \* by kind of function: its inputs
  CorsRequest  \* of Cors: the requests that are asked together

VARIABLE sample  \* [kind, of]: what a function is asked of; << >> while only its kind is known

-----------------------------------------------------------------------------
(* What the inputs are.  Names are not mistaken for what says there is none. *)
IsList(s) == Len(s) \in Nat /\ s = [i \in 1 .. Len(s) |-> s[i]]

ASSUME CorsAssumption ==
  /\ NoHeader # "*"
  /\ \A r \in CorsRequest : r.origin # "*"
  /\ "cors" \in DOMAIN Samples =>
       \A o \in Samples["cors"] : o.origin.kind \in {"off", "any", "echo", "exact", "list", "function"}

ASSUME CardsAssumption ==
  "cards" \in DOMAIN Samples => \A p \in Samples["cards"] : IsList(p.cards)

ASSUME HistoryAssumption ==
  "history" \in DOMAIN Samples =>
    \A h \in Samples["history"] :
      /\ IsList(h) /\ h # << >>
      /\ \A i \in DOMAIN h :
           /\ IsFiniteSet(DOMAIN h[i])
           /\ \A f \in DOMAIN h[i] : \A r \in h[i][f].relations : r.dst = <<r.dst[1], r.dst[2]>>

(* Lists are lists, and the classes in order are of the metadata; no class   *)
(* has a name with "::" in it.                                               *)
IsRegistry(g) ==
  /\ IsList(g.keys) /\ IsList(g.order) /\ \A i \in DOMAIN g.order : g.order[i] \in DOMAIN g.meta
  /\ \A class \in DOMAIN g.meta :
       LET c == g.meta[class] IN
       /\ SuffixOf[class] = Unresolved
       /\ IsList(c.filters) /\ IsList(c.methods) /\ \A i \in DOMAIN c.methods : IsList(c.methods[i].filters)

ASSUME RegistryAssumption ==
  "registry" \in DOMAIN Samples => \A g \in Samples["registry"] : IsRegistry(g)

(* A placeholder is no address.  What a header has is a list, of lists in    *)
(* Forwarded.                                                                *)
ASSUME HeadersAssumption ==
  /\ (V4 \cup V6) \cap Placeholder = {}
  /\ "headers" \in DOMAIN Samples =>
       \A r \in Samples["headers"] :
         /\ IsList(r.xForwardedFor) /\ IsList(r.forwarded)
         /\ \A i \in DOMAIN r.forwarded : IsList(r.forwarded[i])

(* A class stands for its own token; modules name modules and are finitely   *)
(* many.                                                                     *)
IsProvider(p) == p.use \in {"value", "class", "existing", "factory"} /\ IsList(p.inject)

IsApplication(a) ==
  /\ IsFiniteSet(DOMAIN a.modules) /\ a.root \in DOMAIN a.modules
  /\ \A m \in DOMAIN a.modules :
       LET module == a.modules[m] IN
       /\ module.object \in BOOLEAN
       /\ IsList(module.imports) /\ \A i \in DOMAIN module.imports : module.imports[i] \in DOMAIN a.modules
       /\ IsList(module.controllers)
       /\ IsList(module.providers) /\ \A i \in DOMAIN module.providers : IsProvider(module.providers[i])
  /\ IsList(a.dynamic) /\ \A i \in DOMAIN a.dynamic : IsProvider(a.dynamic[i])

IsWorld(w) ==
  \A class \in DOMAIN w.params :
    LET params == w.params[class] IN
    IsList(params) /\ \A i \in DOMAIN params : params[i].class => params[i] = Class(params[i].name)

ASSUME ContainerAssumption ==
  /\ StackLimit \in Nat
  /\ "container" \in DOMAIN Samples =>
       \A r \in Samples["container"] : IsApplication(r.application) /\ IsWorld(r.w) /\ IsList(r.tokens)

(* The files of a project are in a list, and so are what a file has.  A      *)
(* marker is a module's own or imported from a module file.  The stack has   *)
(* room for as many calls as a generated container has factories.            *)
HasPath(dir) == IsList(dir) /\ \A i \in DOMAIN dir : LengthOf[dir[i]] \in Nat

IsClass(p, c) ==
  /\ c.name # NoName /\ IsList(c.params)
  /\ \A k \in c.options.visibleTo.markers : k.from = 0 \/ k.from \in ModuleFiles(p)

IsProject(p) ==
  \A f \in DOMAIN p :
    /\ IsList(p[f].providers)
    /\ \A i \in DOMAIN p[f].providers :
         LET e == p[f].providers[i]
         IN e.use \in {"value", "class", "existing", "factory", "none"} /\ IsList(e.inject)
    /\ IsList(p[f].classes) /\ \A i \in DOMAIN p[f].classes : IsClass(p, p[f].classes[i])

ASSUME ProjectAssumption ==
  /\ "directories" \in DOMAIN Samples => \A p \in Samples["directories"] : IsList(p) /\ \A f \in DOMAIN p : HasPath(p[f].dir)
  /\ "imports" \in DOMAIN Samples => \A p \in Samples["imports"] : IsList(p)
  /\ "build" \in DOMAIN Samples =>
       \A p \in Samples["build"] :
         /\ IsList(p) /\ IsProject(p)
         /\ Cardinality(DOMAIN CreateContainer(Graph(p)).factories) <= StackLimit

-----------------------------------------------------------------------------
NoSample == [kind |-> "none", of |-> << >>]

SampleInit == sample = NoSample

ChooseKind ==
  /\ sample = NoSample
  /\ \E kind \in DOMAIN Samples : sample' = [kind |-> kind, of |-> << >>]

TakeSample ==
  /\ sample # NoSample /\ sample.of = << >>
  /\ \E x \in Samples[sample.kind] : sample' = [sample EXCEPT !.of = <<x>>]

SampleNext == ChooseKind \/ TakeSample

SampleSpec == SampleInit /\ [][SampleNext]_sample

Of(kind) == sample.kind = kind /\ sample.of # << >>

It == sample.of[1]

-----------------------------------------------------------------------------
(* Properties *)

(* Answers to cross-origin requests (cors.middleware.ts) are accepted by     *)
(* browsers, and none that a cache keeps allows another request more than    *)
(* its own answer would.                                                     *)
AnswersAreUsable == Of("cors") => AnswersFit(It, CorsRequest)

(* A project in which `mcp verify' (verify-project.ts) finds no error is     *)
(* indexed whole (index-project.ts).                                         *)
VerifiedIsIndexed == Of("cards") => PassedIsIndexed(It)

(* After incremental reindexes of files that come, change, move and go       *)
(* (index-project.ts), the links are those of a full reindex, relations have *)
(* rows at both ends, and none is lost that its file still has.              *)
IndexFollowsCode ==
  Of("history") => LET t == Indexed(It) IN EndsHaveRows(t) /\ LinksFollowCode(It, t) /\ RelationsAreKept(It, t)

(* The address of a request (utils/ip.ts) is the first that its headers      *)
(* name, however it is written.                                              *)
ClientIsFirst == Of("headers") => FirstIsClient(It)

(* Routes (route-handler.ts) have all the error filters asked for, each      *)
(* once, and every token is resolved to an instance of its name.             *)
RoutesAreGuarded == Of("registry") => ServedIsGuarded(It) /\ ResolvedIsNamed(It)

(* The container (container.ts) makes each object once, in whatever order    *)
(* tokens are asked for and whichever constructors throw; the scanner's      *)
(* (scanner.ts) prefers a module's own providers.                            *)
SingletonsAreOne ==
  Of("container") =>
    LET c == ContainerOf(It.application) IN
    /\ ObjectsAreOne(It.w, c, It.tokens)
    /\ ScopedIsInjected(It.w, c, It.tokens)
    /\ OwnProviderWins(It.application.modules, It.application.root)

(* The compiler (module-discovery.ts, module-graph.ts, module-impact.ts)     *)
(* gives each file to the nearest module, accepts only projects that keep to *)
(* the visibility and scope of their decorators, tells cycles, and rebuilds  *)
(* all that an edit affects.                                                 *)
ModulesAreKept ==
  /\ Of("directories") => FilesHaveNearestModule(It)
  /\ Of("imports") => ImpactIsClosed(It)
  /\ Of("build") => LET g == Graph(It) IN
       BuiltKeepsDecorators(It, g) /\ ListedStaysVisible(It, g) /\ CycleIsTold(Adjacency(g))

(* A project that builds has a generated container (injector-generator.ts,   *)
(* manifest-generator.ts) that gives every class the objects it asks for.    *)
BuiltResolves == Of("build") => BuiltRuns(It, Graph(It))
=============================================================================
