----------------------------- MODULE BuildSamples -----------------------------
(* Small projects for the compiler, and small modules for the container.    *)
EXTENDS GeneratedContainer

PathLengths == [n \in {"a", "ab", "b", "long"} |-> CASE n = "ab" -> 2 [] n = "long" -> 9 [] OTHER -> 1]

File(dir) ==
  [dir |-> dir, module |-> FALSE, markers |-> << >>, name |-> "?", providers |-> << >>, classes |-> << >>,
   injects |-> << >>, imports |-> {}]

ModuleFile(dir) == [File(dir) EXCEPT !.module = TRUE, !.markers = <<"m">>]

Dirs == << <<"a">>, <<"a", "b">>, <<"a", "b", "long">>, <<"ab">>, <<"long">> >>

(* A file in each directory, and a module file in some of them. *)
DirectoryTrees ==
  {FlattenSeq([d \in DOMAIN Dirs |-> IF d \in modules THEN <<ModuleFile(Dirs[d]), File(Dirs[d])>> ELSE <<File(Dirs[d])>>]) :
     modules \in SUBSET DOMAIN Dirs}

(* Four files of two modules that import each other in every way. *)
ImportWebs ==
  {<<[ModuleFile(<<"a">>) EXCEPT !.imports = i1], [File(<<"a">>) EXCEPT !.imports = i2],
     [ModuleFile(<<"ab">>) EXCEPT !.imports = i3], [File(<<"ab">>) EXCEPT !.imports = i4], ModuleFile(<<"b">>)>> :
       i1 \in SUBSET {2, 3}, i2 \in SUBSET {1, 4}, i3 \in SUBSET {2, 4}, i4 \in SUBSET {1, 3, 5}}

-----------------------------------------------------------------------------
(* BuildProjects of three modules, a and ab side by side and b in a, with a class *)
(* each, one provider in the list of a, and an inject() call in b.           *)

VisibleTo(kind, markers) == [kind |-> kind, markers |-> markers]

Options(visibleTo, scope) == [visibleTo |-> visibleTo, scope |-> scope]

NotSaid == VisibleTo("absent", {})

ToB == VisibleTo("list", {[ref |-> "m", from |-> 3]})

Typed(name) == [type |-> name, by |-> "type", token |-> "?"]

Token(name) == [type |-> "C", by |-> "token", token |-> name]

Unknown(name) == [type |-> name, by |-> "unknown", token |-> "?"]

Forward(type, name) == [type |-> type, by |-> "forward", token |-> name]

ClassOf(name, options, params) ==
  [name |-> name, controller |-> FALSE, injectable |-> TRUE, options |-> options, params |-> params]

Listed(kind, token, options, use, of, inject) ==
  <<[kind |-> kind, token |-> token, options |-> options, use |-> use, of |-> of, inject |-> inject]>>

Lists ==
  LET default == Options(NotSaid, "absent")
      everywhere == Options(VisibleTo("all", {}), "request-context")
      itself(o) == Listed("ref", "A", o, "none", "?", << >>)
      value == Listed("provide", "A", default, "value", "?", << >>)
  IN {<< >>, itself(default), itself(everywhere), value, value \o value,
      Listed("provide", "A", default, "factory", "?", <<"B">>) \o Listed("spread", "?", default, "none", "?", << >>)}

ProjectsOf(lists, optionsA, paramsA, optionsB, paramsB, paramsC, injects) ==
  {<<[ModuleFile(<<"a">>) EXCEPT !.providers = list],
     [File(<<"a">>) EXCEPT !.classes = <<ClassOf("A", oa, pa)>>],
     ModuleFile(<<"a", "b">>),
     [File(<<"a", "b">>) EXCEPT !.classes = <<ClassOf("B", ob, pb)>>, !.injects = i],
     ModuleFile(<<"ab">>),
     [File(<<"ab">>) EXCEPT !.classes = <<[ClassOf("C", Options(NotSaid, "transient"), pc) EXCEPT !.controller = TRUE]>>]>> :
       list \in lists, oa \in optionsA, pa \in paramsA, ob \in optionsB, pb \in paramsB, pc \in paramsC, i \in injects}

Scoped == {Options(v, s) : v \in {NotSaid, VisibleTo("all", {}), ToB}, s \in {"absent", "request"}}

Visible == {Options(VisibleTo("all", {}), "absent")}

Requested == {Options(VisibleTo("all", {}), "request"), Options(NotSaid, "absent")} \cup Visible

A == <<Typed("A")>>
B == <<Typed("B")>>

BuildProjects ==
  ProjectsOf({<< >>}, Scoped, {<< >>, B}, Requested, {<< >>, A}, {<< >>, A, B \o A}, {<< >>, <<"A">>})
    \cup ProjectsOf(Lists, Scoped, {<< >>, B}, Visible, {<< >>, A, <<Typed("C")>>}, {<< >>, A}, {<< >>})

(* B is asked for by a token, or by a forward reference, whose type is B's   *)
(* as well or tells nothing.                                                 *)
ByToken ==
  LET ways == {<< >>, <<Token("B")>>, <<Unknown("B")>>, <<Forward("any", "B")>>, <<Forward("B", "B")>>,
               <<Forward("any", "B"), Token("B")>>}
  IN ProjectsOf({<< >>}, Visible, ways, Requested \cup {Options(ToB, "absent")}, {<< >>, A}, ways, {<< >>})

-----------------------------------------------------------------------------
(* Modules that import each other and provide A, B, a text t and another    *)
(* name e for A; one more module with B and e may be loaded at run time.    *)

ValueOf(t) == [token |-> Text(t), use |-> "value", of |-> "?", inject |-> << >>]

Factory(t, inject) == [ValueOf(t) EXCEPT !.use = "factory", !.inject = inject]

Existing(t, of) == [ValueOf(t) EXCEPT !.use = "existing", !.of = of]

Modules(rootImports, mImports, rootProviders, mProviders, nObject) ==
  "Root" :> [object |-> FALSE, imports |-> rootImports, providers |-> rootProviders, controllers |-> <<"K">>]
    @@ "M" :> [object |-> FALSE, imports |-> mImports, providers |-> mProviders, controllers |-> << >>]
    @@ "N" :> [object |-> nObject, imports |-> << >>, providers |-> <<ValueOf("t"), Itself("B")>>, controllers |-> << >>]

Applications ==
  {[modules |-> Modules(ri, mi, rp, mp, no), root |-> "Root", scope |-> "dyn", dynamic |-> d] :
     ri \in {<< >>, <<"M">>, <<"N", "M">>}, mi \in {<<"Root">>, <<"N">>},
     rp \in {<<Itself("A"), Existing("e", Class("A"))>>, <<Factory("t", <<Class("A")>>), Itself("A")>>},
     mp \in {<<Itself("B"), Factory("t", <<Class("B")>>)>>},
     no \in BOOLEAN, d \in {<< >>, <<Itself("B"), Existing("e", Text("t"))>>}}

Worlds ==
  {[params |-> "A" :> <<Class("B"), Text("t")>> @@ "B" :> pb @@ "K" :> <<Class("A"), Class("B")>>,
    scoped |-> s, throws |-> t] :
     pb \in {<< >>, <<Text("t")>>},
     s \in {<< >>, Class("B") :> Class("B") @@ Class("A") :> Class("A"), Class("B") :> Key("dyn", "B")},
     t \in {{}, {"B"}}}

Orders ==
  {s \in [1 .. 3 -> {Class("A"), Text("t"), Text("e"), Key("dyn", "B")}] :
     \A i, j \in 1 .. 3 : i # j => s[i] # s[j]}

ContainerRuns == {[application |-> a, w |-> w, tokens |-> o] : a \in Applications, w \in Worlds, o \in Orders}
=============================================================================
