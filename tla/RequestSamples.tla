---------------------------- MODULE RequestSamples ----------------------------
(* Small queries, headers, classes and controllers, for the functions that  *)
(* prepare a request for its handler.                                       *)
EXTENDS Integers, Sequences, FiniteSets, TLC, SequencesExt

CONSTANT Nothing  \* undefined

-----------------------------------------------------------------------------
(* Queries of up to six tokens, and trees of two levels, the deepest beyond *)
(* the depth of some options.                                               *)

S == INSTANCE QueryString WITH Reserved <- {"constructor"}, IndexOf <- [t \in {"0", "1"} |-> IF t = "0" THEN 0 ELSE 1]

QueryOptions(depths, limits, arrays, stricts) ==
  {[depth |-> d, parameterLimit |-> l, arrayLimit |-> 1, parseArrays |-> a, strict |-> s, hpp |-> h] :
     d \in depths, l \in limits, a \in arrays, s \in stricts, h \in {"first", "last", "array"}}

FlatQueries ==
  {[o |-> o, qs |-> qs] :
     o \in QueryOptions({5}, {2, 3}, {FALSE}, {FALSE}),
     qs \in UNION {[1 .. n -> {"a", "1", "&", "="}] : n \in 0 .. 5}
              \cup {<<"a", "=", "1", "&", "constructor", "&", "a">>}}

Leaf(t) == [str |-> <<t>>]

Branches(children) ==
  {[rec |-> f] : f \in UNION {[{<<n>> : n \in names} -> children] : names \in {{"a"}, {"a", "b"}}}}
    \cup {[arr |-> f] : f \in UNION {[0 .. n -> children] : n \in 0 .. 1}}

ValueTrees ==
  LET twigs == Branches({Leaf("x"), Leaf("1")}) IN
  {[rec |-> f] : f \in [{<<"p">>} -> twigs \cup Branches(twigs)]}
    \cup {[rec |-> f] : f \in [{<<"p">>, <<"q">>} -> twigs]}

NestedQueries == {[o |-> o, tree |-> t] : o \in QueryOptions({1, 2}, {9}, {TRUE}, {TRUE, FALSE}), t \in ValueTrees}

-----------------------------------------------------------------------------
(* Writings in every writing, in each of the headers. *)

Address(host, bracket, port) == [host |-> host, mapped |-> host = "w4", bracket |-> bracket, port |-> port, quotes |-> 0]

Writings ==
  {Address(h, FALSE, p) : h \in {"v4", "w4", "unknown", "text"}, p \in {0, 443}}
    \cup {Address("v6", TRUE, p) : p \in {0, 443, 50000}} \cup {Address("v6", FALSE, 0)}

FewWritings == {Address("v4", FALSE, 443), Address("v6", TRUE, 443), Address("unknown", FALSE, 0)}

Absent == {<< >>}

ClientHeaders ==
  {[trustProxy |-> t, forwarded |-> f, xForwardedFor |-> x, xRealIp |-> << >>, socket |-> s] :
     t \in BOOLEAN,
     f \in Absent \cup {<< <<[key |-> "for", value |-> a], [key |-> "proto", value |-> b]>>, <<[key |-> "for", value |-> c]>> >> :
                          a \in Writings, b \in {Address("w4", FALSE, 0)}, c \in FewWritings},
     x \in Absent \cup {<<a, b>> : a \in Writings, b \in FewWritings},
     s \in {Address("w4", FALSE, 0)}}
  \cup
  {[trustProxy |-> t, forwarded |-> << >>, xForwardedFor |-> x, xRealIp |-> r, socket |-> s] :
     t \in BOOLEAN, x \in Absent \cup {<<a>> : a \in Writings}, r \in Writings, s \in Writings}

-----------------------------------------------------------------------------
(* All options of CORS, each with all requests at once. *)

Given(value) == {"no header", value}

CorsOptions ==
  {[origin |-> origin, methods |-> "methods", allowedHeaders |-> a, exposedHeaders |-> e, credentials |-> c,
    maxAge |-> m, preflightContinue |-> p] :
     origin \in {[kind |-> k, accepts |-> {}] : k \in {"any", "off", "echo"}}
                  \cup {[kind |-> k, accepts |-> s] : k \in {"exact", "list", "function"}, s \in {{}, {"o1"}, {"o1", "o2"}}},
     a \in Given("h"), e \in Given("e"), c \in BOOLEAN, m \in Given("60"), p \in BOOLEAN}

CorsRequests ==
  {[origin |-> o, method |-> v, requestMethod |-> m, requestHeaders |-> h] :
     o \in {"no header", "o1", "o2"}, v \in {"GET", "OPTIONS"}, m \in Given("PUT"), h \in {"no header", "h", "i"}}

-----------------------------------------------------------------------------
(* BodyClasses with one property n of each kind, or with two, and bodies.       *)

P == INSTANCE Validation WITH
       NumberOf <- [t \in {"", "0", "1", "2", "x", "true", "false", "null", "undefined", "NaN"} |->
                      CASE t \in {"", "0"} -> [num |-> 0] [] t = "1" -> [num |-> 1] [] t = "2" -> [num |-> 2]
                        [] OTHER -> [other |-> "NaN"]],
       TextOf <- [n \in 0 .. 2 |-> CASE n = 0 -> "0" [] n = 1 -> "1" [] OTHER -> "2"]

Prop(type, checks) ==
  [type |-> type, array |-> FALSE, item |-> "", optional |-> FALSE, transform |-> FALSE, metatype |-> "", checks |-> checks]

ArrayOf(item) == [Prop("array", {}) EXCEPT !.array = TRUE, !.item = item]

MayBeAbsent(p) == [p EXCEPT !.optional = TRUE]

Check(name, of) == {[name |-> name, of |-> of]}

Numeric == Prop("number", Check("IsNumber", 0) \cup Check("Min", 2))

BodyClasses ==
  "from two" :> ("n" :> Numeric)
    @@ "may be" :> ("n" :> MayBeAbsent(Prop("number", Check("IsInt", 0) \cup Check("Max", 1))))
    @@ "text" :> ("n" :> Prop("string", Check("IsString", 0)))
    @@ "flag" :> ("n" :> Prop("boolean", Check("IsBoolean", 0)))
    @@ "one of" :> ("n" :> Prop("any", Check("IsIn", {[str |-> "1"], [num |-> 1]})))
    @@ "loose" :> ("n" :> MayBeAbsent(Prop("any", Check("IsString", 0))))
    @@ "numbers" :> ("n" :> ArrayOf("number"))
    @@ "texts" :> ("n" :> ArrayOf("string"))
    @@ "flags" :> ("n" :> MayBeAbsent(ArrayOf("boolean")))
    @@ "own way" :> ("n" :> [Numeric EXCEPT !.transform = TRUE])
    @@ "two" :> ("n" :> Numeric @@ "z" :> MayBeAbsent(Prop("string", Check("IsString", 0))))
    @@ "nested" :> ("n" :> Prop("text", Check("ValidateNested", 0)) @@ "z" :> Prop("number", {}))

Metadata(own) ==
  [classes |-> [c \in DOMAIN BodyClasses |-> [props |-> BodyClasses[c], own |-> own]], registered |-> DOMAIN BodyClasses]

BodyValues ==
  LET simple == {[str |-> "1"], [str |-> "x"], [num |-> 1], [num |-> 2], [bool |-> TRUE], [other |-> "null"]}
      arrays == {[arr |-> << >>], [arr |-> <<[str |-> "1"]>>], [arr |-> <<[num |-> 1], [other |-> "null"]>>]}
  IN simple \cup arrays \cup {[rec |-> f] :
       f \in {<< >>} \cup [{"n"} -> simple \cup arrays] \cup [{"z"} -> simple]
               \cup {("n" :> x @@ "z" :> y) : x \in simple, y \in simple}}

Bodies == {[c |-> c, v |-> v, own |-> own] : c \in DOMAIN BodyClasses, v \in BodyValues, own \in {<< >>, "n" :> [num |-> 2]}}

-----------------------------------------------------------------------------
(* Two controllers with one service, middleware and filters from containers *)
(* that know all of them, some, or another class by the same name.          *)

NamesOf == [t \in {"C", "D", "S", "M", "F", "G", "F of another module"} |-> IF t = "F of another module" THEN "F" ELSE t]

SuffixesOf ==
  [k \in {"C", "D", "S", "M", "F", "G", "a::C", "a::S", "a::M", "a::F", "b::F", "b::G"} |->
     CASE k = "a::C" -> "C" [] k = "a::S" -> "S" [] k = "a::M" -> "M" [] k \in {"a::F", "b::F"} -> "F"
       [] k = "b::G" -> "G" [] OTHER -> Nothing]

KindsOf ==
  [t \in {"C", "D", "S", "M", "F", "G", "F of another module"} |->
     CASE t = "M" -> "middleware" [] t \in {"F", "G"} -> "filter" [] OTHER -> "other"]

Made(class) == [of |-> class, deps |-> << >>]

Injected(inject, throws) ==
  [controller |-> FALSE, middlewares |-> << >>, filters |-> << >>, inject |-> inject, methods |-> << >>, throws |-> throws]

Controller(filters, methods) ==
  [Injected(<<"S">>, FALSE) EXCEPT !.controller = TRUE, !.middlewares = <<"M">>, !.filters = filters, !.methods = methods]

HandlerMethod(name, verb, filters) ==
  [name |-> name, verb |-> verb, middlewares |-> <<"M">>, filters |-> filters,
   params |-> <<[decorator |-> "body", name |-> "x", type |-> "Dto"], [decorator |-> Nothing, name |-> "body", type |-> "Dto"],
                [decorator |-> Nothing, name |-> "id", type |-> Nothing]>>]

Containers ==
  {("a::F" :> Made("F")), ("b::F" :> Made("F of another module") @@ "a::F" :> Made("F")),
   ("F" :> Made("F") @@ "b::G" :> Made("G") @@ "a::M" :> Made("M")),
   ("a::C" :> Made("C") @@ "a::S" :> Made("S") @@ "b::G" :> Made("G"))}

Registries ==
  LET lists == {<< >>, <<"F">>, <<"F", "G">>, <<"G", "F", "G">>} IN
  {[meta |-> "C" :> Controller(fc, <<HandlerMethod("get", "GET", fm), HandlerMethod("helper", Nothing, << >>)>>)
               @@ "D" :> Controller(<< >>, <<HandlerMethod("post", "POST", <<"F">>)>>)
               @@ "S" :> Injected(<< >>, FALSE) @@ "M" :> Injected(<<"S">>, FALSE)
               @@ "F" :> Injected(<< >>, t) @@ "G" :> Injected(<<"F">>, FALSE),
    order |-> <<"S", "C", "D", "M", "F", "G">>,
    scoped |-> s, keys |-> SetToSeq(DOMAIN i), instances |-> i] :
     fc \in lists, fm \in lists, t \in BOOLEAN,
     s \in {<< >>, "F" :> "a::F", "C" :> "a::C" @@ "F" :> "b::F"},
     i \in Containers}
=============================================================================
