----------------------------- MODULE Validation -----------------------------
(***************************************************************************)
(* What a handler is given for a body or a query whose parameter has a     *)
(* class as its type: ValidationPipe                                       *)
(* (packages/http-adapter/src/pipes/validation.pipe.ts), over the          *)
(* functions that TransformerCompiler and ValidatorCompiler                *)
(* (packages/core/src/transformer, packages/core/src/validator) make of    *)
(* the metadata of a class.                                                *)
(*                                                                         *)
(* A value is a record with the one field that names its kind: str, num,   *)
(* bool, arr (a sequence), rec (a function of names) or other.  Bodies are *)
(* JSON, so symbols and big integers do not occur.                         *)
(*                                                                         *)
(* A class c of m.classes has                                              *)
(*   props  by name: [type, array, item, optional, transform, metatype,    *)
(*          checks], where type, item and metatype may name a class        *)
(*   own    the fields that the constructor sets, by name                  *)
(* and m.registered are the classes that registerCLIMetadata() was given.  *)
(***************************************************************************)
EXTENDS Integers, Sequences, SequencesExt, FiniteSets

CONSTANTS
  NumberOf,   \* Number(text), for each text
  TextOf      \* String(number), for each number

Undefined == [other |-> "undefined"]
Null == [other |-> "null"]
NaN == [other |-> "NaN"]
Num(n) == [num |-> n]
Str(t) == [str |-> t]

Is(v, kind) == kind \in DOMAIN v

(* typeof v === "number" *)
IsNumeric(v) == Is(v, "num") \/ v = NaN

IsPrimitive(v) == ~Is(v, "arr") /\ ~Is(v, "rec")

IsPrimitiveArray(v) == Is(v, "arr") /\ \A i \in DOMAIN v.arr : IsPrimitive(v.arr[i])

IsPrimitiveRecord(v) ==
  Is(v, "rec") /\ \A n \in DOMAIN v.rec : IsPrimitive(v.rec[n]) \/ IsPrimitiveArray(v.rec[n])

Field(v, n) == IF n \in DOMAIN v.rec THEN v.rec[n] ELSE Undefined

-----------------------------------------------------------------------------
(* Conversions of the language *)

ToText(v) ==
  CASE Is(v, "str") -> v.str
    [] Is(v, "num") -> TextOf[v.num]
    [] Is(v, "bool") -> IF v.bool THEN "true" ELSE "false"
    [] OTHER -> v.other

ToNumber(v) ==
  CASE Is(v, "num") -> v
    [] Is(v, "str") -> NumberOf[v.str]
    [] Is(v, "bool") -> Num(IF v.bool THEN 1 ELSE 0)
    [] v = Null -> Num(0)
    [] IsPrimitiveArray(v) ->
         (CASE Len(v.arr) = 0 -> Num(0)
            [] Len(v.arr) = 1 -> IF v.arr[1] \in {Null, Undefined} THEN Num(0) ELSE NumberOf[ToText(v.arr[1])]
            [] OTHER -> NaN)
    [] OTHER -> NaN

ToBoolean(v) == [bool |-> v \notin {Undefined, Null, NaN, Num(0), Str(""), [bool |-> FALSE]}]

-----------------------------------------------------------------------------
(* TransformerCompiler *)

(* getCombinedMetadata(): a class that was not registered has no property. *)
Properties(m, c) == IF c \in m.registered THEN m.classes[c].props ELSE << >>

RECURSIVE PlainToInstance(_, _, _), Converted(_, _, _), ConvertedItem(_, _, _)

(* A new instance has the fields its constructor sets; of the plain value   *)
(* only the properties of the class are taken.                              *)
PlainToInstance(m, c, v) ==
  LET props == Properties(m, c)
      own == m.classes[c].own
      given == IF Is(v, "rec") THEN {n \in DOMAIN props : Field(v, n) # Undefined} ELSE {}
  IN [rec |-> [n \in DOMAIN own \cup given |->
                 IF n \in given THEN Converted(m, props[n], v.rec[n]) ELSE own[n]]]

Converted(m, p, v) ==
  CASE p.transform -> v
    [] p.array /\ ~p.transform ->
         [arr |-> IF Is(v, "arr") THEN [i \in DOMAIN v.arr |-> ConvertedItem(m, p, v.arr[i])] ELSE << >>]
    [] OTHER ->
         (CASE p.type = "number" -> ToNumber(v)
            [] p.type = "string" -> IF Is(v, "str") \/ Is(v, "bool") \/ IsNumeric(v) THEN Str(ToText(v)) ELSE Str("")
            [] p.type = "boolean" -> ToBoolean(v)
            [] p.type \in DOMAIN m.classes -> PlainToInstance(m, p.type, v)
            [] OTHER -> v)

ConvertedItem(m, p, v) ==
  CASE p.item = "string" -> Str(ToText(v))
    [] p.item = "number" -> ToNumber(v)
    [] p.item = "boolean" -> ToBoolean(v)
    [] p.item \in DOMAIN m.classes -> PlainToInstance(m, p.item, v)
    [] OTHER -> v

-----------------------------------------------------------------------------
(* ValidatorCompiler *)

(* The checks that a value fails by itself; k.of is the decorator's argument. *)
Fails(k, v) ==
  CASE k.name = "IsString" -> ~Is(v, "str")
    [] k.name = "IsNumber" -> ~Is(v, "num")
    [] k.name = "IsInt" -> ~Is(v, "num")
    [] k.name = "IsBoolean" -> ~Is(v, "bool")
    [] k.name = "Min" -> Is(v, "num") /\ v.num < k.of
    [] k.name = "Max" -> Is(v, "num") /\ v.num > k.of
    [] k.name = "IsIn" -> v # Undefined /\ IsPrimitive(v) /\ v \notin k.of
    [] OTHER -> FALSE

FaultySkipped(p, v) == p.optional

(* An optional property that is absent is not checked at all. *)
Skipped(p, v) == p.optional /\ v \in {Undefined, Null}

RECURSIVE Errors(_, _, _), NestedErrors(_, _, _)

Errors(m, c, v) ==
  LET props == Properties(m, c)
      at(n) == Field(v, n)
      checked == {n \in DOMAIN props : ~Skipped(props[n], at(n))}
  IN UNION {{<<n, "IsArray">> : x \in {x \in {1} : props[n].array /\ ~Is(at(n), "arr")}}
              \cup {<<n, k.name>> : k \in {k \in props[n].checks : Fails(k, at(n))}}
              \cup {<<n>> \o e : e \in IF \E k \in props[n].checks : k.name = "ValidateNested"
                                     THEN NestedErrors(m, props[n].metatype, at(n)) ELSE {}}
              : n \in checked}

(* Without a metatype, which the generated metadata never has, nothing is checked. *)
NestedErrors(m, c, v) ==
  CASE c \notin DOMAIN m.classes -> {}
    [] c \in DOMAIN m.classes /\ Is(v, "arr") ->
         UNION {IF Is(v.arr[i], "rec") THEN Errors(m, c, v.arr[i]) ELSE {<<"Invalid object">>} : i \in DOMAIN v.arr}
    [] c \in DOMAIN m.classes /\ Is(v, "rec") -> Errors(m, c, v)
    [] OTHER -> {<<"Invalid object">>}

-----------------------------------------------------------------------------
(* ValidationPipe *)

RECURSIVE IsJson(_)
IsJson(v) ==
  /\ v # Undefined
  /\ Is(v, "arr") => \A i \in DOMAIN v.arr : IsJson(v.arr[i])
  /\ Is(v, "rec") => \A n \in DOMAIN v.rec : IsJson(v.rec[n])

IsPlain(v) == v # Undefined /\ (IsPrimitive(v) \/ IsPrimitiveArray(v) \/ IsPrimitiveRecord(v))

(* `converted ?? value': with a field that is undefined, the value as it     *)
(* came.                                                                    *)
Result(v, object) == IF IsJson(object) THEN object ELSE v

(* What is not plain, or has a record in a record, is handed on unchecked:  *)
(* as it came, or once converted to an instance with an instance in it.     *)
Transform(m, c, v) ==
  IF c \notin DOMAIN m.classes \/ ~IsPlain(v) THEN [value |-> v]
  ELSE LET object == PlainToInstance(m, c, v) IN
       CASE ~IsPrimitiveRecord(object) -> [value |-> v]
         [] IsPrimitiveRecord(object) /\ Errors(m, c, object) # {} -> [errors |-> Errors(m, c, object)]
         [] OTHER -> [value |-> Result(v, object)]

-----------------------------------------------------------------------------
(* Properties *)

(* Values and classes that the pipe does check: nothing is nested, and the  *)
(* constructor leaves no field undefined that the value does not give.      *)
Checked(m, c, v) ==
  /\ c \in m.registered /\ IsPlain(v)
  /\ IsPrimitiveRecord(PlainToInstance(m, c, v)) /\ IsJson(PlainToInstance(m, c, v))

(* A handler is given what its class declares: every property that is not   *)
(* an absent optional one passes the checks of its decorators, and there is *)
(* no field that the class does not have.  Stated of what arrives at the    *)
(* handler, past conversion, validation and the conversion to JSON.         *)
ArgumentIsChecked(m, c, v) ==
  LET out == Transform(m, c, v) IN
  Checked(m, c, v) /\ Is(out, "value") =>
    /\ \A n \in DOMAIN Properties(m, c) :
         LET p == Properties(m, c)[n]
             x == Field(out.value, n)
         IN \/ p.optional /\ x \in {Undefined, Null}
            \/ (p.array => Is(x, "arr")) /\ \A k \in p.checks : ~Fails(k, x)
    /\ DOMAIN out.value.rec \subseteq DOMAIN Properties(m, c) \cup DOMAIN m.classes[c].own

(* What has gone through the pipe goes through it again unchanged, so that  *)
(* a converted value is never refused and never converted further.          *)
ConversionSettles(m, c, v) ==
  LET out == Transform(m, c, v) IN
  Checked(m, c, v) /\ Is(out, "value") => Transform(m, c, out.value) = out
=============================================================================
