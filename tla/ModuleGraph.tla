----------------------------- MODULE ModuleGraph -----------------------------
(***************************************************************************)
(* How the compiler divides the files of a project into modules, which     *)
(* dependencies between modules it accepts, and which modules an edit      *)
(* affects: ModuleDiscovery, ModuleGraph.build() and buildModuleImpact()   *)
(* (packages/cli/src/compiler/analyzer).                                   *)
(*                                                                         *)
(* A project p is the sequence of its analysed files in the order of their *)
(* paths, each                                                             *)
(*   dir        the names of its directory                                 *)
(*   module     is it called as module files are?                          *)
(*   markers    what each defineModule() call of it is exported as         *)
(*   name       the name that the definition declares                      *)
(*   providers  of the definition, [kind, token, options, use, of, inject] *)
(*              with the kind "spread", "ref" or "provide" and the use     *)
(*              "value", "class", "existing", "factory" or "none"          *)
(*   classes    [name, controller, injectable, options, params]            *)
(*   injects    the tokens of its inject() calls                           *)
(*   imports    the files it imports or re-exports                         *)
(* Options are [visibleTo, scope], visibleTo being [kind, markers] with    *)
(* the kind "absent", "all", "module", "list" or "invalid", and a marker   *)
(* [ref, from] with the module file it is imported from, or 0.  A token    *)
(* is a name, or NoName where it cannot be determined.                     *)
(* A parameter of a class is [type, by, token]: it is asked for by its     *)
(* type, or by the token of its @Inject(): as a "token", as the class of a *)
(* "forward" reference, or as something "unknown".  The tokens of an       *)
(* inject list are names; forward references among them, which only the    *)
(* manifest reads, are left out.                                           *)
(***************************************************************************)
EXTENDS Names, Integers, Sequences, SequencesExt, FiniteSets

CONSTANTS
  LengthOf,  \* the length of the name of a directory
  Dynamic    \* a declared name that is no string literal

-----------------------------------------------------------------------------
(* ModuleDiscovery *)

ModuleFiles(p) == {f \in DOMAIN p : p[f].module}

(* The numbers of a set in their order. *)
InOrder(files) ==
  [i \in 1 .. Cardinality(files) |-> CHOOSE f \in files : Cardinality({g \in files : g <= f}) = i]

PathLength(p, f) == FoldLeft(LAMBDA n, name : n + 1 + LengthOf[name], 0, p[f].dir)

(* Longer paths first, so that of nested modules the inner one is met first. *)
MetBefore(p, a, b) ==
  \/ PathLength(p, a) > PathLength(p, b)
  \/ PathLength(p, a) = PathLength(p, b) /\ a < b

Around(p, f) == {m \in ModuleFiles(p) : IsPrefix(p[m].dir, p[f].dir)}

(* 0 is no module. *)
Owner(p, f) ==
  CASE p[f].module -> f
    [] ~p[f].module /\ Around(p, f) = {} -> 0
    [] OTHER -> CHOOSE m \in Around(p, f) : \A x \in Around(p, f) \ {m} : MetBefore(p, m, x)

(* A module file does not belong to its module: its own classes and inject() *)
(* calls are not looked at.                                                  *)
Owned(p, m) == {f \in DOMAIN p : ~p[f].module /\ Owner(p, f) = m}

Orphans(p) == {f \in DOMAIN p : Owner(p, f) = 0}

-----------------------------------------------------------------------------
(* What a module declares *)

NameOf(p, m) == IF p[m].name = NoName THEN Last(p[m].dir) ELSE p[m].name

ModuleIsMarked(p, m) == Len(p[m].markers) = 1 /\ p[m].markers[1] # NoName /\ p[m].name # Dynamic

ResolveModuleMarker(p, m, marker) ==
  LET at == IF marker.from = 0 THEN m ELSE marker.from
      exports == ToSet(p[at].markers) \ {NoName}
  IN IF {"default", marker.ref} \cap exports # {} THEN NameOf(p, at) ELSE NoName

OptionsAreValid(p, m, o) ==
  /\ o.visibleTo.kind # "invalid"
  /\ o.visibleTo.kind = "list" =>
       o.visibleTo.markers # {} /\ \A k \in o.visibleTo.markers : ResolveModuleMarker(p, m, k) # NoName
  /\ o.scope # "invalid"

ResolveVisibility(v) ==
  CASE v.kind = "list" -> "allowlist"
    [] v.kind = "all" -> "all"
    [] OTHER -> "module"

ResolveScope(scope) ==
  CASE scope = "absent" -> "singleton"
    [] scope = "request-context" -> "request"
    [] OTHER -> scope

(* A provider is used as itself when it is a class that its decorator made  *)
(* one.                                                                     *)
Provider(p, m, o, use, of, params) ==
  [visibility |-> ResolveVisibility(o.visibleTo),
   visibleTo |-> {ResolveModuleMarker(p, m, k) : k \in o.visibleTo.markers},
   scope |-> ResolveScope(o.scope),
   use |-> use, of |-> of, params |-> params]

IsImplicit(provider) == provider.use = "itself"

(* Which class a parameter asks for.  The graph does not know what a        *)
(* forward reference is and takes the type, the generated code is given     *)
(* what is referred to.                                                     *)
CheckedClass(param) == IF param.by = "token" THEN param.token ELSE param.type

InjectedClass(param) == IF param.by \in {"token", "forward"} THEN param.token ELSE param.type

ExtractDeps(provider) ==
  (IF IsImplicit(provider) THEN {CheckedClass(q) : q \in ToSet(provider.params)} ELSE ToSet(provider.params)) \ {NoName}

Classes(p, m) == FoldLeft(LAMBDA classes, f : classes \o p[f].classes, << >>, InOrder(Owned(p, m)))

Injects(p, m) == UNION {ToSet(p[f].injects) : f \in Owned(p, m)}

Decorated(p, m, c) == Provider(p, m, c.options, "itself", c.name, c.params)

Implicit(p, m) ==
  FoldLeft(LAMBDA ps, c : IF c.injectable THEN With(ps, c.name, Decorated(p, m, c)) ELSE ps, << >>, Classes(p, m))

(* A class named among the providers keeps what its decorator says, but for *)
(* the scope: it is never undefined here, and becomes that of the list.     *)
Merged(prev, new) ==
  [prev EXCEPT !.scope = new.scope,
               !.visibility = IF new.visibility = "module" THEN @ ELSE new.visibility]

(* A second definition of a token throws, unless the first is the class's own. *)
Explicit(p, m, s, e) ==
  LET new == Provider(p, m, e.options, e.use, e.of, e.inject) IN
  CASE e.kind = "spread" -> s
    [] e.kind # "spread" /\ e.token \in DOMAIN s.providers /\ ~IsImplicit(s.providers[e.token]) ->
         [s EXCEPT !.ambiguous = TRUE]
    [] e.kind = "ref" /\ e.token \in DOMAIN s.providers /\ IsImplicit(s.providers[e.token]) ->
         [s EXCEPT !.providers = With(@, e.token, Merged(s.providers[e.token], new))]
    [] OTHER -> [s EXCEPT !.providers = With(@, e.token, new)]

Node(p, m) ==
  FoldLeft(LAMBDA s, e : Explicit(p, m, s, e),
           [name |-> NameOf(p, m), classes |-> Classes(p, m), injects |-> Injects(p, m),
            providers |-> Implicit(p, m), ambiguous |-> FALSE],
           p[m].providers)

ClassNames(node) == {node.classes[i].name : i \in DOMAIN node.classes}

Controllers(node) == {node.classes[i].name : i \in {i \in DOMAIN node.classes : node.classes[i].controller}}

(* Of classes with one name in several modules, the last module has it. *)
ClassMap(modules) ==
  [c \in UNION {ClassNames(modules[m]) : m \in DOMAIN modules} |->
     CHOOSE m \in DOMAIN modules :
       c \in ClassNames(modules[m]) /\ \A n \in DOMAIN modules : c \in ClassNames(modules[n]) => n <= m]

WithClassMap(modules) == [modules |-> modules, classMap |-> ClassMap(modules)]

(* The fields of a ModuleGraph, which build() fills before it validates. *)
Graph(p) == WithClassMap(FoldLeft(LAMBDA ms, m : With(ms, m, Node(p, m)), << >>, InOrder(ModuleFiles(p))))

ModuleIsValid(p, m, node) ==
  /\ ModuleIsMarked(p, m)
  /\ NoName \notin node.injects
  /\ \A i \in DOMAIN node.classes : node.classes[i].injectable => OptionsAreValid(p, m, node.classes[i].options)
  /\ \A i \in DOMAIN p[m].providers :
       LET e == p[m].providers[i] IN e.kind # "spread" => OptionsAreValid(p, m, e.options)
  /\ ~node.ambiguous

-----------------------------------------------------------------------------
(* Dependencies between modules; g is the graph *)

(* The provider a token stands for elsewhere; a token that is no class of   *)
(* the project has none, even when a module provides it.                    *)
Target(g, token) ==
  LET at == IF token \in DOMAIN g.classMap THEN g.classMap[token] ELSE 0
  IN IF at = 0 THEN [module |-> 0]
     ELSE IF token \notin DOMAIN g.modules[at].providers THEN [module |-> 0]
     ELSE [module |-> at, provider |-> g.modules[at].providers[token]]

FaultyVisible(g, m, token) == Target(g, token).module \in {0, m} \/ Target(g, token).provider.visibility # "module"

AssertVisibility(g, m, token) ==
  LET target == Target(g, token) IN
  \/ target.module \in {0, m}
  \/ target.provider.visibility = "all"
  \/ target.provider.visibility = "allowlist" /\ g.modules[m].name \in target.provider.visibleTo

ValidateVisibilityAndScope(g) ==
  \A m \in DOMAIN g.modules :
    /\ \A t \in g.modules[m].injects : AssertVisibility(g, m, t)
    /\ \A x \in DOMAIN g.modules[m].providers :
         LET provider == g.modules[m].providers[x] IN
         \A t \in ExtractDeps(provider) :
           /\ AssertVisibility(g, m, t)
           /\ Target(g, t).module # 0 /\ provider.scope = "singleton" => Target(g, t).provider.scope # "request"

Tokens(node) == node.injects \cup UNION {ExtractDeps(node.providers[x]) : x \in DOMAIN node.providers}

Adjacency(g) ==
  [m \in DOMAIN g.modules |-> {g.classMap[t] : t \in Tokens(g.modules[m]) \cap DOMAIN g.classMap} \ {m}]

(* The rotation with which a cycle is told; names are compared by their     *)
(* modules here.                                                            *)
NormalizeCycle(path) ==
  LET first == CHOOSE i \in DOMAIN path : \A j \in DOMAIN path : path[i] <= path[j]
  IN SubSeq(path, first, Len(path)) \o SubSeq(path, 1, first - 1)

Leave(s) == [s EXCEPT !.stack = Front(@)]

(* deeper[<<s, m>>]: the search of m within that of a node. *)
VisitAll(deeper, s, nodes) == FoldLeft(LAMBDA t, n : deeper[<<t, n>>], s, nodes)

Dfs(next, deeper, s, m) ==
  LET start == SelectInSeq(s.stack, LAMBDA x : x = m) IN
  CASE start # 0 -> [s EXCEPT !.cycles = @ \cup {NormalizeCycle(SubSeq(s.stack, start, Len(s.stack)))}]
    [] start = 0 /\ m \in s.visited -> s
    [] OTHER -> Leave(VisitAll(deeper, [s EXCEPT !.visited = @ \cup {m}, !.stack = Append(@, m)], InOrder(next[m])))

Searches(next) ==
  [visited : SUBSET DOMAIN next, stack : Seq(DOMAIN next), cycles : SUBSET Seq(DOMAIN next)]

SearchTo(next, depth, deeper) ==
  [call \in Searches(next) \X DOMAIN next |->
     IF depth = 0 THEN call[1] ELSE Dfs(next, deeper, call[1], call[2])]

(* The stack holds no module twice. *)
DetectCycles(next) ==
  LET depth == Cardinality(DOMAIN next) + 1
      To[d \in 0 .. depth] == SearchTo(next, d, To[d - 1])
  IN VisitAll(To[depth], [visited |-> {}, stack |-> << >>, cycles |-> {}], InOrder(DOMAIN next)).cycles

(* build() returns the modules and does not throw. *)
Builds(p, g) ==
  /\ Orphans(p) = {}
  /\ \A m \in ModuleFiles(p) : ModuleIsValid(p, m, g.modules[m])
  /\ ValidateVisibilityAndScope(g)
  /\ DetectCycles(Adjacency(g)) = {}

-----------------------------------------------------------------------------
(* buildModuleImpact() *)

ReverseDeps(p) == [f \in DOMAIN p |-> {g \in DOMAIN p : f \in p[g].imports}]

NewDependents(p, affected, f) == ReverseDeps(p)[f] \ affected

FromQueue(p, s) ==
  IF s.queue = << >> THEN s
  ELSE LET new == NewDependents(p, s.affected, Head(s.queue))
       IN [queue |-> Tail(s.queue) \o SetToSeq(new), affected |-> s.affected \cup new]

(* No file is in the queue twice. *)
AffectedFiles(p, changed) ==
  LET After[n \in 0 .. Len(p)] ==
        IF n = 0 THEN [queue |-> SetToSeq(changed), affected |-> changed] ELSE FromQueue(p, After[n - 1])
  IN After[Len(p)].affected

(* An edit of a file that is not known, or a project with orphans, throws. *)
BuildModuleImpact(p, changed) ==
  IF ~(changed \subseteq DOMAIN p) \/ (changed # {} /\ Orphans(p) # {}) THEN [ok |-> FALSE]
  ELSE [ok |-> TRUE,
        changedModules |-> {Owner(p, f) : f \in changed},
        affectedModules |-> {Owner(p, f) : f \in AffectedFiles(p, changed)}]

(* The file that is gone is only in the files before the edit. *)
DevIncrementalImpact(previous, next, changed, isDeleted) ==
  BuildModuleImpact(IF isDeleted THEN previous ELSE next, {changed})

-----------------------------------------------------------------------------
(* Properties *)

(* Every file belongs to the module of the nearest directory around it, by  *)
(* whole names of directories, and to that alone.                           *)
FilesHaveNearestModule(p) ==
  \A f \in DOMAIN p :
    LET around == Around(p, f) IN
    ~p[f].module =>
      IF around = {} THEN f \in Orphans(p)
      ELSE \E m \in around : /\ {x \in ModuleFiles(p) : f \in Owned(p, x)} = {m}
                             /\ \A x \in around : Len(p[x].dir) <= Len(p[m].dir)

(* Names of classes and of modules are not used twice.  With two classes of *)
(* one name the checks are made against the wrong one; with two modules of  *)
(* one name an allowlist lets both in.                                      *)
NamesAreUnique(g) ==
  \A m, n \in DOMAIN g.modules :
    LET a == g.modules[m]
        b == g.modules[n]
    IN /\ m # n => a.name # b.name
       /\ \A i \in DOMAIN a.classes, j \in DOMAIN b.classes : a.classes[i].name = b.classes[j].name => m = n /\ i = j

(* What the decorators of module n's class say of module m. *)
LetsIn(m, n, used) ==
  \/ m = n \/ used.options.visibleTo.kind = "all"
  \/ used.options.visibleTo.kind = "list"
       /\ \E k \in used.options.visibleTo.markers : m = IF k.from = 0 THEN n ELSE k.from

(* One class is injected into another, not by a forward reference to what   *)
(* the parameter's type does not name, neither being listed among the       *)
(* providers of a definition, where the list's scope counts.                *)
IsInjected(p, m, n, used, user) ==
  /\ user.injectable /\ used.injectable
  /\ \E q \in ToSet(user.params) : (q.by = "forward" => q.type = q.token) /\ InjectedClass(q) = used.name
  /\ \A x \in {m, n} : \A k \in DOMAIN p[x].providers : p[x].providers[k].token \notin {user.name, used.name}

(* A project that builds keeps to its decorators: a class of another module *)
(* is only injected where its visibleTo lets that module in, and a request- *)
(* scoped one not into a singleton.  The code does not see to it for        *)
(* the other forward references: the graph looks at the type in their       *)
(* place, and the container that is generated follows them.                 *)
BuiltKeepsDecorators(p, g) ==
  Builds(p, g) /\ NamesAreUnique(g) =>
    \A m, n \in ModuleFiles(p) : \A i \in DOMAIN g.modules[m].classes, j \in DOMAIN g.modules[n].classes :
      LET user == g.modules[m].classes[i]
          used == g.modules[n].classes[j]
      IN IsInjected(p, m, n, used, user) =>
           /\ LetsIn(m, n, used)
           /\ user.options.scope \in {"absent", "singleton"} => used.options.scope \notin {"request", "request-context"}

(* A class that a definition lists by itself is as visible as its decorator *)
(* says, as if it were not listed.                                          *)
ListedStaysVisible(p, g) ==
  \A m \in ModuleFiles(p) : \A i \in DOMAIN p[m].providers :
    LET e == p[m].providers[i]
        own == Implicit(p, m)
        x == g.modules[m].providers[e.token]
        y == own[e.token]
    IN e.kind = "ref" /\ ~g.modules[m].ambiguous /\ e.options.visibleTo.kind = "absent" /\ e.token \in DOMAIN own
         /\ (\A j \in DOMAIN p[m].providers : p[m].providers[j].token = e.token => j = i) =>
         x.visibility = y.visibility /\ x.visibleTo = y.visibleTo /\ x.params = y.params

(* A cycle is told exactly when a module depends on itself through others,  *)
(* and what is told is a cycle, once for all its rotations.                 *)
CycleIsTold(next) ==
  LET size == Cardinality(DOMAIN next)
      reach[k \in 0 .. size] ==
        [m \in DOMAIN next |-> IF k = 0 THEN next[m] ELSE reach[k - 1][m] \cup UNION {next[x] : x \in reach[k - 1][m]}]
      cycles == DetectCycles(next)
  IN /\ cycles # {} <=> \E m \in DOMAIN next : m \in reach[size][m]
     /\ \A c \in cycles :
          /\ \A i \in DOMAIN c : c[IF i = Len(c) THEN 1 ELSE i + 1] \in next[c[i]]
          /\ \A d \in cycles : ToSet(c) = ToSet(d) /\ Len(c) = 2 => c = d

(* The modules affected are those of the files that import the changed one, *)
(* directly or through others, and its own; stated by what is left out: no  *)
(* file of a module not affected imports a file of those reached.           *)
ImpactIsClosed(p) ==
  \A changed \in SUBSET DOMAIN p :
    LET impact == BuildModuleImpact(p, changed)
        closed == {s \in SUBSET DOMAIN p : changed \subseteq s /\ \A g \in DOMAIN p : p[g].imports \cap s # {} => g \in s}
        least == {f \in DOMAIN p : \A s \in closed : f \in s}
    IN impact.ok => impact.affectedModules = {Owner(p, f) : f \in least}
=============================================================================
