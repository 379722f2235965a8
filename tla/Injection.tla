------------------------------ MODULE Injection ------------------------------
(***************************************************************************)
(* The container of a running application: Container and BunnerScanner     *)
(* (packages/core/src/injector).                                           *)
(*                                                                         *)
(* A token is [class, scope, name]: a class, or a text, which is a name or *)
(* "scope::name".  A provider is [token, use, of, inject] with the use     *)
(* "value", "class", "existing" or "factory" (of: the class or the token   *)
(* that is used); a class by itself is provided for its own token.  A      *)
(* factory is a provider with the one that made it (by) and its scope.     *)
(*                                                                         *)
(* A world w has                                                           *)
(*   params   by class of the metadata: the tokens of its parameters, of   *)
(*            @Inject if it is there, else of the type                     *)
(*   scoped   scopedKeys: the container's token of some tokens             *)
(*   throws   the classes whose constructors throw                         *)
(* and a container c has its factories by token, the instance of each, 0   *)
(* before it is made, and the objects made so far, [of, deps]; a value is  *)
(* the place of its object among them, or 0 for undefined.                 *)
(***************************************************************************)
EXTENDS Names, Integers, Sequences, SequencesExt, FiniteSets

CONSTANT StackLimit  \* bound: how deep get() calls itself before the stack overflows

Class(n) == [class |-> TRUE, scope |-> NoName, name |-> n]
Text(n) == [class |-> FALSE, scope |-> NoName, name |-> n]
Key(s, n) == [class |-> FALSE, scope |-> s, name |-> n]

EmptyContainer == [factories |-> << >>, instances |-> << >>, made |-> << >>]

(* An instance that is there stays. *)
Set(c, token, factory) ==
  [factories |-> With(c.factories, token, factory),
   instances |-> IF token \in DOMAIN c.instances THEN c.instances ELSE With(c.instances, token, 0),
   made |-> c.made]

Has(c, token) == token \in DOMAIN c.factories

-----------------------------------------------------------------------------
(* What a factory asks the container for, one after the other: a token, and *)
(* whether a failure leaves undefined in its place.                         *)

Want(token, caught) == [token |-> token, caught |-> caught]

(* resolveDepsFor() of the scanner: the scoped key of the token or of its   *)
(* name, else the name.                                                     *)
ScannerWant(w, t) ==
  CASE t \in DOMAIN w.scoped -> Want(w.scoped[t], TRUE)
    [] t \notin DOMAIN w.scoped /\ Text(t.name) \in DOMAIN w.scoped /\ t.scope = NoName -> Want(w.scoped[Text(t.name)], TRUE)
    [] OTHER -> Want(Key(t.scope, t.name), TRUE)

(* resolveDepsFor() of the container, for a module that was loaded: the     *)
(* module's own, else what has the bare name.                               *)
DynamicWant(c, scope, t) ==
  IF Has(c, Key(scope, t.name)) THEN Want(Key(scope, t.name), FALSE) ELSE Want(Key(t.scope, t.name), TRUE)

(* A class that the metadata does not know is made without arguments. *)
Params(w, class) == IF class \in DOMAIN w.params THEN w.params[class] ELSE << >>

(* Generated code has undefined where a token has no name. *)
Wants(w, c, f) ==
  CASE f.use = "value" -> << >>
    [] f.use = "class" /\ f.by = "scanner" -> [i \in DOMAIN Params(w, f.of) |-> ScannerWant(w, Params(w, f.of)[i])]
    [] f.use = "class" /\ f.by = "dynamic" -> [i \in DOMAIN Params(w, f.of) |-> DynamicWant(c, f.scope, Params(w, f.of)[i])]
    [] f.use = "existing" /\ f.by = "dynamic" -> <<Want(DynamicWant(c, f.scope, f.of).token, FALSE)>>
    [] f.use = "existing" /\ f.by # "dynamic" -> <<Want(f.of, FALSE)>>
    [] OTHER -> [i \in DOMAIN f.inject |-> Want(f.inject[i], f.by = "generated" /\ f.inject[i].name = NoName)]

-----------------------------------------------------------------------------
(* Container.get() *)

Returned(c, value) == [c |-> c, value |-> value, thrown |-> FALSE]

Thrown(c) == [c |-> c, value |-> 0, thrown |-> TRUE]

FaultyStored(c, token, value) == c

Stored(c, token, value) == [c EXCEPT !.instances[token] = value]

(* got[<<c, token>>]: what get() does with a token that has a factory. *)
Asked(got, c, token) == IF Has(c, token) THEN got[<<c, token>>] ELSE Thrown(c)

WithArgument(got, s, want) ==
  LET one == Asked(got, s.c, want.token)
  IN IF s.thrown THEN s
     ELSE [c |-> one.c, values |-> Append(s.values, one.value), thrown |-> one.thrown /\ ~want.caught]

Args(got, c, wants) ==
  FoldLeft(LAMBDA s, want : WithArgument(got, s, want), [c |-> c, values |-> << >>, thrown |-> FALSE], wants)

(* What has been made on the way stays when the factory throws. *)
Create(w, got, c, token) ==
  LET f == c.factories[token]
      args == Args(got, c, Wants(w, c, f))
      made == Append(args.c.made, [of |-> f.of, deps |-> args.values])
  IN CASE args.thrown \/ (f.use = "class" /\ f.of \in w.throws) -> Thrown(args.c)
       [] ~args.thrown /\ f.use = "existing" -> Returned(Stored(args.c, token, args.values[1]), args.values[1])
       [] OTHER -> Returned(Stored([args.c EXCEPT !.made = made], token, Len(made)), Len(made))

(* The containers that one with these factories may become. *)
Becomes(c) ==
  LET makers == {t \in DOMAIN c.factories : c.factories[t].use # "existing"}
  IN [factories : {c.factories}, instances : [DOMAIN c.factories -> Nat],
      made : Seq([of : {c.factories[t].of : t \in makers}, deps : Seq(Nat)])]

(* depth: how deep get() may still call itself. *)
Attempt(w, depth, got, c, token) ==
  CASE c.instances[token] # 0 -> Returned(c, c.instances[token])
    [] c.instances[token] = 0 /\ depth = 0 -> Thrown(c)
    [] OTHER -> Create(w, got, c, token)

Attempts(w, c, depth, got) ==
  [call \in Becomes(c) \X DOMAIN c.factories |-> Attempt(w, depth, got, call[1], call[2])]

Get(w, c, token) ==
  LET Got[d \in 0 .. StackLimit] == Attempts(w, c, d, Got[d - 1])
  IN Asked(Got[StackLimit], c, token)

Gets(w, c, tokens) == FoldLeft(LAMBDA s, t : Get(w, s, t).c, c, tokens)

-----------------------------------------------------------------------------
(* Registration *)

FactoryOf(provider, by, scope) ==
  [use |-> provider.use, of |-> provider.of, inject |-> provider.inject, by |-> by, scope |-> scope]

(* BunnerScanner.registerProvider(): a later provider of a token replaces an *)
(* earlier one.                                                              *)
RegisterProvider(c, provider) == Set(c, provider.token, FactoryOf(provider, "scanner", NoName))

RegisterAll(c, providers) == FoldLeft(RegisterProvider, c, providers)

Itself(class) == [token |-> Class(class), use |-> "class", of |-> class, inject |-> << >>]

(* A module is [object, imports, providers, controllers], by its name.  One *)
(* that is a class has itself as a provider, and its imports come before    *)
(* its own providers; those of a module object come after them.  The steps  *)
(* of a scan say what is registered: a module itself, or its own providers. *)
ScanStep(m, own) == [module |-> m, own |-> own]

ScanImports(scanned, s, imports) == FoldLeft(LAMBDA x, m : scanned[<<x, m>>], s, imports)

ScanModule(modules, scanned, s, m) ==
  LET object == modules[m].object
      begun == [steps |-> Append(s.steps, ScanStep(m, object)), visited |-> s.visited \cup {m}]
      imported == ScanImports(scanned, begun, modules[m].imports)
  IN CASE m \in s.visited -> s
       [] m \notin s.visited /\ object -> imported
       [] OTHER -> [steps |-> Append(imported.steps, ScanStep(m, TRUE)), visited |-> imported.visited]

Scans(modules) == [steps : Seq([module : DOMAIN modules, own : BOOLEAN]), visited : SUBSET DOMAIN modules]

ScanModules(modules, depth, scanned) ==
  [call \in Scans(modules) \X DOMAIN modules |->
     IF depth = 0 THEN call[1] ELSE ScanModule(modules, scanned, call[1], call[2])]

(* No more modules are within one another than there are. *)
ScanSteps(modules, root) ==
  LET Scanned[d \in 0 .. Cardinality(DOMAIN modules)] == ScanModules(modules, d, Scanned[d - 1])
  IN Scanned[Cardinality(DOMAIN modules)][<<[steps |-> << >>, visited |-> {}], root>>].steps

Providers(modules, step) ==
  LET m == modules[step.module]
  IN IF step.own THEN m.providers \o [i \in DOMAIN m.controllers |-> Itself(m.controllers[i])] ELSE <<Itself(step.module)>>

RegisterSteps(modules, steps) == FoldLeft(LAMBDA c, step : RegisterAll(c, Providers(modules, step)), EmptyContainer, steps)

Scan(modules, root) == RegisterSteps(modules, ScanSteps(modules, root))

(* loadDynamicModule(): each provider under the scope of the module. *)
LoadProvider(c, scope, provider) ==
  IF provider.token.name = NoName THEN c
  ELSE Set(c, Key(scope, provider.token.name), FactoryOf(provider, "dynamic", scope))

LoadDynamicModule(c, scope, providers) == FoldLeft(LAMBDA s, p : LoadProvider(s, scope, p), c, providers)

(* An application is [modules, root, scope, dynamic]: its modules, the one   *)
(* that is scanned, and the scope and providers of one loaded at run time.  *)
ContainerOf(a) == LoadDynamicModule(Scan(a.modules, a.root), a.scope, a.dynamic)

-----------------------------------------------------------------------------
(* Properties *)

(* The tokens whose factories ask for none but these. *)
AskOnly(w, c, tokens) ==
  LET asked(t) == {Wants(w, c, c.factories[t])[i].token : i \in DOMAIN Wants(w, c, c.factories[t])}
  IN {t \in DOMAIN c.factories : asked(t) \cap DOMAIN c.factories \subseteq tokens}

(* No chain of factories that ask for one another outgrows the stack, as a  *)
(* cycle does.                                                              *)
Acyclic(w, c) ==
  LET Ends[d \in 0 .. StackLimit] == IF d = 0 THEN {} ELSE AskOnly(w, c, Ends[d - 1])
  IN Ends[StackLimit] = DOMAIN c.factories

InstanceOf(c, t) == IF Has(c, t) THEN c.instances[t] ELSE 0

(* Singletons are one: in whatever order tokens are asked for, and whichever *)
(* constructors throw, a token's object is made once, of what its factory    *)
(* makes, and what it has been given is the container's own instance of each *)
(* thing it wanted, or undefined for what cannot be had.  Stated of          *)
(* containers without cycles.                                                *)
ObjectsAreOne(w, c, tokens) ==
  LET after == Gets(w, c, tokens)
      wants(t) == Wants(w, c, c.factories[t])
      held == {t \in DOMAIN c.factories : after.instances[t] # 0}
      makers == {t \in held : c.factories[t].use # "existing"}
  IN Acyclic(w, c) =>
       /\ \A t \in held \ makers : after.instances[t] = InstanceOf(after, wants(t)[1].token)
       /\ \A t \in makers : /\ after.made[after.instances[t]].of = c.factories[t].of
                             /\ DOMAIN after.made[after.instances[t]].deps = DOMAIN wants(t)
       /\ \A t \in makers : \A i \in DOMAIN wants(t) :
            after.made[after.instances[t]].deps[i] = InstanceOf(after, wants(t)[i].token)
       /\ \A t, u \in makers : after.instances[t] = after.instances[u] => t = u
       /\ \A n \in DOMAIN after.made : \E t \in makers : after.instances[t] = n
       /\ \A i \in DOMAIN tokens : InstanceOf(after, tokens[i]) = 0 => Get(w, after, tokens[i]).thrown

(* A scanned module's own provider of a token replaces those of the modules *)
(* that it imports, however they import each other.  Stated of modules that *)
(* are classes: of a module object the imports replace its own.             *)
OwnProviderWins(modules, root) ==
  LET own == modules[root].providers IN
  (\A m \in DOMAIN modules : ~modules[m].object) =>
    \A i \in DOMAIN own :
      /\ \A j \in DOMAIN own : own[j].token = own[i].token => j <= i
      /\ \A k \in DOMAIN modules[root].controllers : Class(modules[root].controllers[k]) # own[i].token
      => Scan(modules, root).factories[own[i].token] = FactoryOf(own[i], "scanner", NoName)

(* With the scoped keys of the generated code, a scanned class is given what *)
(* the keys name; a dependency on a class without a key is never found, as   *)
(* it is asked for by its name.                                              *)
ScopedIsInjected(w, c, tokens) ==
  LET after == Gets(w, c, tokens) IN
  Acyclic(w, c) => \A t \in DOMAIN c.factories :
    after.instances[t] # 0 /\ c.factories[t].use = "class" /\ c.factories[t].by = "scanner" =>
      LET params == Params(w, c.factories[t].of)
          deps == after.made[after.instances[t]].deps
      IN \A i \in DOMAIN params :
           /\ params[i] \in DOMAIN w.scoped => deps[i] = InstanceOf(after, w.scoped[params[i]])
           /\ params[i].class /\ {params[i], Text(params[i].name)} \cap DOMAIN w.scoped = {}
                /\ Text(params[i].name) \notin DOMAIN c.factories => deps[i] = 0
=============================================================================
