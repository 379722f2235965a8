------------------------- MODULE GeneratedContainer -------------------------
(***************************************************************************)
(* From a project to a running container: the factories and scoped keys    *)
(* that InjectorGenerator and ManifestGenerator                            *)
(* (packages/cli/src/compiler/generator) write for the modules of a        *)
(* project, in the container that runs them.  Bundles of providers and      *)
(* dynamic modules, whose providers are known only at run time, are left    *)
(* out, and useClass with several classes.                                  *)
(***************************************************************************)
EXTENDS ModuleGraph, Injection

-----------------------------------------------------------------------------
(* classDefinitions: of the classes of one name, the last one. *)
ClassDefinition(g, name) ==
  LET classes == g.modules[g.classMap[name]].classes
  IN classes[SelectLastInSeq(classes, LAMBDA c : c.name = name)]

FaultyDependency(g, m, name) == IF name \in DOMAIN g.classMap THEN Key(g.modules[m].name, name) ELSE Text(name)

(* What the generated code asks the container for: the key of a class in    *)
(* its own module, of anything else the name.                               *)
Dependency(g, m, name) ==
  IF name \in DOMAIN g.classMap THEN Key(g.modules[g.classMap[name]].name, name) ELSE Text(name)

Dependencies(g, m, params) == [i \in DOMAIN params |-> Dependency(g, m, InjectedClass(params[i]))]

Generated(use, of, inject) == [use |-> use, of |-> of, inject |-> inject, by |-> "generated", scope |-> NoName]

(* The token of useExisting and those of inject are taken as they are, with *)
(* no module; a class that is not defined gives undefined.                  *)
FactoryEntry(g, m, provider) ==
  CASE provider.use = "itself" -> Generated("class", provider.of, Dependencies(g, m, provider.params))
    [] provider.use = "class" ->
         IF provider.of \in DOMAIN g.classMap
         THEN Generated("class", provider.of, Dependencies(g, m, ClassDefinition(g, provider.of).params))
         ELSE Generated("value", NoName, << >>)
    [] provider.use = "existing" ->
         Generated("existing", IF provider.of \in DOMAIN g.classMap THEN Class(provider.of) ELSE Text(provider.of), << >>)
    [] OTHER -> Generated(provider.use, provider.of, [i \in DOMAIN provider.params |-> Text(provider.params[i])])

(* A provider that is only named, and is no class of its module, has no     *)
(* factory.                                                                 *)
Entries(node) == {x \in DOMAIN node.providers : node.providers[x].use # "none"}

WithEntry(g, m, c, x) == Set(c, Key(g.modules[m].name, x), FactoryEntry(g, m, g.modules[m].providers[x]))

WithEntries(g, c, m) == FoldLeft(LAMBDA s, x : WithEntry(g, m, s, x), c, SetToSeq(Entries(g.modules[m])))

CreateContainer(g) == FoldLeft(LAMBDA c, m : WithEntries(g, c, m), EmptyContainer, InOrder(DOMAIN g.modules))

(* Of each provider and controller, by its class and by its name. *)
ScopedNames(node) == DOMAIN node.providers \cup Controllers(node)

WithKeys(g, keys, m) ==
  LET names == ScopedNames(g.modules[m])
  IN [t \in DOMAIN keys \cup {Class(x) : x \in names} \cup {Text(x) : x \in names} |->
        IF t.name \in names THEN Key(g.modules[m].name, t.name) ELSE keys[t]]

CreateScopedKeysMap(g) == FoldLeft(LAMBDA keys, m : WithKeys(g, keys, m), << >>, InOrder(DOMAIN g.modules))

(* The map names each provider as an identifier, which only classes are: a  *)
(* manifest with a token that is none throws when it is loaded.             *)
ManifestLoads(g) == \A m \in DOMAIN g.modules : DOMAIN g.modules[m].providers \subseteq DOMAIN g.classMap

World(g) == [params |-> << >>, scoped |-> CreateScopedKeysMap(g), throws |-> {}]

(* The manifest reads forward references too, and leaves a parameter out   *)
(* whose token it cannot tell.                                              *)
ToldDeps(provider) ==
  IF IsImplicit(provider) THEN {InjectedClass(q) : q \in {q \in ToSet(provider.params) : q.by # "unknown"}} \ {NoName}
  ELSE ToSet(provider.params) \ {NoName}

(* diGraph.nodes of manifest.json. *)
DiNodes(g) ==
  UNION {{[id |-> Key(node.name, x), deps |-> ToldDeps(node.providers[x]), scope |-> node.providers[x].scope]
            : x \in DOMAIN node.providers} : node \in {g.modules[m] : m \in DOMAIN g.modules}}

-----------------------------------------------------------------------------
(* Properties *)

(* What a provider asks for is provided, as itself. *)
AreProvided(g, provider) ==
  \A i \in DOMAIN provider.params :
    LET target == Target(g, IF IsImplicit(provider) THEN InjectedClass(provider.params[i]) ELSE provider.params[i])
    IN target.module # 0 /\ target.provider.use = "itself"

(* The providers are classes and values, a class's name is that of a        *)
(* provider in its own module only, and what the classes are given are      *)
(* classes that their modules provide.                                      *)
ClassesAreProvided(g) ==
  \A m \in DOMAIN g.modules : \A x \in DOMAIN g.modules[m].providers :
    LET provider == g.modules[m].providers[x] IN
    /\ provider.use \in {"itself", "value"}
    /\ x \in DOMAIN g.classMap => g.classMap[x] = m
    /\ AreProvided(g, provider)

(* A forward reference leads to no module that the graph does not know its  *)
(* own to depend on.                                                        *)
ForwardsAreKnown(g) ==
  \A m \in DOMAIN g.modules : \A x \in DOMAIN g.modules[m].providers :
    LET provider == g.modules[m].providers[x] IN
    IsImplicit(provider) =>
      \A q \in ToSet(provider.params) : q.by = "forward" => g.classMap[q.token] \in {m} \cup Adjacency(g)[m]

WithinModule(c, name) == [c EXCEPT !.factories = [t \in {t \in DOMAIN @ : t.scope = name} |-> @[t]]]

(* after: the container once it was asked for every key. *)
Resolved(g, w, after) ==
  /\ \A t \in DOMAIN after.factories : after.instances[t] # 0
  /\ \A t \in DOMAIN after.factories :
       LET object == after.made[after.instances[t]]
           params == ClassDefinition(g, t.name).params
       IN after.factories[t].use = "class" =>
            /\ object.of = t.name
            /\ w.scoped[Class(t.name)] = t
            /\ DOMAIN object.deps = DOMAIN params
            /\ \A i \in DOMAIN params : object.deps[i] # 0 /\ after.made[object.deps[i]].of = InjectedClass(params[i])

(* A project that builds runs: every key of its container gives an object,  *)
(* made once, of the class it is the key of, that has been given the        *)
(* objects of its parameters' classes in their modules; and a class's       *)
(* scoped key is one the container has.  Stated of projects with these      *)
(* providers, with no cycle of classes within one module, which build()     *)
(* does not look for, and no forward reference to a module of which the     *)
(* graph knows nothing: that leaves no cycle across modules.                *)
BuiltRuns(p, g) ==
  LET c == CreateContainer(g)
      w == World(g)
      keys == SetToSeq(DOMAIN c.factories)
  IN /\ Builds(p, g) /\ NamesAreUnique(g) /\ ClassesAreProvided(g) /\ ForwardsAreKnown(g)
     /\ \A m \in DOMAIN g.modules : Acyclic(w, WithinModule(c, g.modules[m].name))
     => Acyclic(w, c) /\ ObjectsAreOne(w, c, keys) /\ Resolved(g, w, Gets(w, c, keys))
=============================================================================
