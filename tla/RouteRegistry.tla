---------------------------- MODULE RouteRegistry ----------------------------
(***************************************************************************)
(* How RouteHandler (packages/http-adapter/src/route-handler.ts) makes     *)
(* routes of the metadata of controllers: which instance a token stands    *)
(* for, which middlewares and error filters guard a route, and what a      *)
(* handler's parameters are given.                                         *)
(*                                                                         *)
(* A registry g has                                                        *)
(*   g.meta       by class: [controller, middlewares, filters, inject,     *)
(*                methods, throws]; the first three lists are of tokens,   *)
(*                inject are the constructor's, a method has [name, verb,  *)
(*                middlewares, filters, params]                            *)
(*   g.order      the classes of the metadata in its order                 *)
(*   g.scoped     scopedKeys: the container's key of some tokens           *)
(*   g.keys       the keys of the container in its order                   *)
(*   g.instances  by key: what the container gives                         *)
(* A token is a class or the string of a reference.  A key is a token or   *)
(* a string "module::name".  An instance is [of, deps].                    *)
(***************************************************************************)
EXTENDS Integers, Sequences, SequencesExt, FiniteSets

CONSTANTS
  Unresolved,  \* undefined
  TokenName,   \* normalizeToken(): the name of a token
  SuffixOf,    \* what follows the last "::" of a key, or Unresolved
  KindOf       \* by class: "middleware", "filter" or "other" (instanceof)

-----------------------------------------------------------------------------
(* Tokens *)

GetInstance(g, key) == IF key \in DOMAIN g.instances THEN g.instances[key] ELSE Unresolved

Suffixed(g, token) == {i \in DOMAIN g.keys : SuffixOf[g.keys[i]] = TokenName[token]}

(* The first key whose suffix is the token's name, if it has one. *)
TryGetFromContainerBySuffix(g, token) ==
  IF TokenName[token] = Unresolved \/ Suffixed(g, token) = {} THEN Unresolved
  ELSE GetInstance(g, g.keys[Min(Suffixed(g, token))])

TryGetFromContainer(g, token) ==
  CASE token \in DOMAIN g.scoped -> GetInstance(g, g.scoped[token])
    [] token \notin DOMAIN g.scoped /\ token \in DOMAIN g.instances -> GetInstance(g, token)
    [] OTHER -> TryGetFromContainerBySuffix(g, token)

(* A new instance, with undefined for what cannot be resolved; none of a    *)
(* token that is no class of the metadata, or when the constructor throws.  *)
TryCreateControllerInstance(g, token) ==
  IF token \notin DOMAIN g.meta \/ (token \in DOMAIN g.meta /\ g.meta[token].throws) THEN Unresolved
  ELSE [of |-> token, deps |-> [i \in DOMAIN g.meta[token].inject |-> TryGetFromContainer(g, g.meta[token].inject[i])]]

(* A controller, whose key is not looked for by its suffix. *)
ControllerInstance(g, class) ==
  LET got == GetInstance(g, IF class \in DOMAIN g.scoped THEN g.scoped[class] ELSE class)
  IN IF got # Unresolved THEN got ELSE TryCreateControllerInstance(g, class)

IsKind(instance, kind) == instance # Unresolved /\ KindOf[instance.of] = kind

Guard(g, token, kind) ==
  LET got == TryGetFromContainer(g, token)
      created == TryCreateControllerInstance(g, token)
  IN CASE IsKind(got, kind) -> got
       [] ~IsKind(got, kind) /\ IsKind(created, kind) -> created
       [] OTHER -> Unresolved

-----------------------------------------------------------------------------
(* Parameters *)

Kinds == {"body", "param", "params", "query", "queries", "header", "headers", "cookie", "cookies",
          "request", "req", "response", "res", "ip"}

(* The decorator, in lower case, tells the kind; without one, the name does. *)
ParamKind(param) ==
  CASE param.decorator \in Kinds -> param.decorator
    [] param.decorator \notin Kinds /\ param.name \in Kinds -> param.name
    [] OTHER -> Unresolved

ArgumentOf(kind) ==
  CASE kind \in {"param", "params"} -> "params"
    [] kind \in {"query", "queries"} -> "query"
    [] kind \in {"header", "headers"} -> "headers"
    [] kind \in {"cookie", "cookies"} -> "cookies"
    [] kind \in {"request", "req"} -> "request"
    [] kind \in {"response", "res"} -> "response"
    [] OTHER -> kind

(* Only a body or a query, and no `queries', goes through the pipe. *)
ParamFactory(method) ==
  [i \in DOMAIN method.params |->
     LET kind == ParamKind(method.params[i]) IN
     [value |-> ArgumentOf(kind), validated |-> method.params[i].type # Unresolved /\ kind \in {"body", "query"}]]

-----------------------------------------------------------------------------
(* Routes *)

(* A middleware that cannot be resolved is left out, and one that is named  *)
(* twice is there twice.                                                    *)
ResolveMiddlewares(g, class, method) ==
  LET tokens == method.middlewares \o g.meta[class].middlewares
      guards == [i \in DOMAIN tokens |-> Guard(g, tokens[i], "middleware")]
  IN SelectSeq(guards, LAMBDA x : x # Unresolved)

FaultyFilterTokens(g, class, method) == method.filters \o g.meta[class].filters

(* Each token once, where it comes first. *)
FilterTokens(g, class, method) ==
  FoldLeft(LAMBDA out, t : IF \E i \in DOMAIN out : out[i] = t THEN out ELSE Append(out, t),
           << >>, method.filters \o g.meta[class].filters)

ResolveErrorFilters(g, class, method) ==
  LET tokens == FilterTokens(g, class, method)
  IN [i \in DOMAIN tokens |-> Guard(g, tokens[i], "filter")]

Methods(g, class) == {g.meta[class].methods[i].name : i \in DOMAIN g.meta[class].methods}

(* A filter that cannot be resolved, or an instance without the method,     *)
(* throws: the routes registered before stay, and the start fails.          *)
RegisterMethod(g, class, instance, s, method) ==
  LET filters == ResolveErrorFilters(g, class, method) IN
  CASE s.thrown \/ method.verb = Unresolved -> s
    [] ~s.thrown /\ method.verb # Unresolved
         /\ ((\E i \in DOMAIN filters : filters[i] = Unresolved) \/ method.name \notin Methods(g, instance.of)) ->
         [s EXCEPT !.thrown = TRUE]
    [] OTHER ->
         [s EXCEPT !.routes = Append(@, [class |-> class, method |-> method, instance |-> instance,
            middlewares |-> ResolveMiddlewares(g, class, method), filters |-> filters, params |-> ParamFactory(method)])]

RegisterController(g, s, class) ==
  LET instance == ControllerInstance(g, class) IN
  IF s.thrown \/ ~g.meta[class].controller \/ instance = Unresolved THEN s
  ELSE FoldLeft(LAMBDA t, m : RegisterMethod(g, class, instance, t, m), s, g.meta[class].methods)

Register(g) == FoldLeft(LAMBDA s, c : RegisterController(g, s, c), [routes |-> << >>, thrown |-> FALSE], g.order)

(* Only GET, and none with middlewares or filters. *)
RegisterInternalRoutes(routes) ==
  {[path |-> r.path, handler |-> r.handler, args |-> IF r.arity >= 2 THEN <<"request", "response">> ELSE <<"request">>]
     : r \in {r \in routes : r.verb = "GET"}}

-----------------------------------------------------------------------------
(* Properties *)

(* Whatever way a token of a class is resolved, the instance has the name   *)
(* of that class: through a scoped key, the class as a key, the suffix of a *)
(* key or a new instance, for a middleware, a filter or a constructor's     *)
(* parameter.  The keys of the registry name what they give, and the scoped *)
(* ones their tokens.                                                       *)
ResolvedIsNamed(g) ==
  LET named(instance, t) == instance # Unresolved => TokenName[instance.of] = TokenName[t]
      stated(k) == IF SuffixOf[k] = Unresolved THEN TokenName[k] ELSE SuffixOf[k]
  IN (/\ \A k \in DOMAIN g.instances : TokenName[g.instances[k].of] = stated(k)
      /\ \A t \in DOMAIN g.scoped : stated(g.scoped[t]) = TokenName[t]) =>
     \A t \in DOMAIN g.meta :
       /\ named(TryGetFromContainer(g, t), t)
       /\ named(ControllerInstance(g, t), t)
       /\ \A kind \in {"middleware", "filter"} : named(Guard(g, t, kind), t)
       /\ TryCreateControllerInstance(g, t) # Unresolved =>
            \A i \in DOMAIN g.meta[t].inject :
              SuffixOf[g.meta[t].inject[i]] = Unresolved =>
                named(TryCreateControllerInstance(g, t).deps[i], g.meta[t].inject[i])

(* A route that is served has all the error filters that its method and its *)
(* controller ask for, each once and the method's before the controller's,  *)
(* so that a filter is never silently missing and never runs twice for one  *)
(* error; a body of a known type goes through the pipe, however the         *)
(* parameter is marked; and a method with a verb is only without route if   *)
(* its controller could not be made or the start failed.                    *)
ServedIsGuarded(g) ==
  LET out == Register(g) IN
  /\ \A i \in DOMAIN out.routes :
       LET r == out.routes[i]
           asked == r.method.filters \o g.meta[r.class].filters
           first(t) == CHOOSE n \in DOMAIN asked : asked[n] = t /\ \A m \in DOMAIN asked : asked[m] = t => n <= m
       IN /\ \A j \in DOMAIN r.params :
               r.params[j].value = "body" /\ r.method.params[j].type # Unresolved => r.params[j].validated
          /\ \A j \in DOMAIN r.filters : IsKind(r.filters[j], "filter")
          /\ Len(r.filters) = Cardinality({asked[n] : n \in DOMAIN asked})
          /\ \A t, u \in {asked[n] : n \in DOMAIN asked} : first(t) < first(u) =>
               \E j, k \in DOMAIN r.filters : j < k /\ r.filters[j] = Guard(g, t, "filter") /\ r.filters[k] = Guard(g, u, "filter")
  /\ ~out.thrown =>
       \A i \in DOMAIN g.order : \A j \in DOMAIN g.meta[g.order[i]].methods :
         LET m == g.meta[g.order[i]].methods[j] IN
         g.meta[g.order[i]].controller /\ m.verb # Unresolved /\ ControllerInstance(g, g.order[i]) # Unresolved =>
           \E n \in DOMAIN out.routes : out.routes[n].class = g.order[i] /\ out.routes[n].method = m
=============================================================================
