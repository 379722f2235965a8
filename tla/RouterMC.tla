------------------------------- MODULE RouterMC -------------------------------
(* A small set of routes, of every kind of part, and of paths to ask for. *)
EXTENDS Router

Static(n) == [kind |-> "static", name |-> n, pattern |-> None, optional |-> FALSE]
Param(n) == [Static(n) EXCEPT !.kind = "param"]
Digits(n) == [Param(n) EXCEPT !.pattern = "digits"]
Optional(n) == [Param(n) EXCEPT !.optional = TRUE]
Wildcard(kind, n) == [Static(n) EXCEPT !.kind = kind]

RoutesChecked ==
  {[method |-> m, path |-> p] : m \in {"GET"}, p \in {
     << >>,
     <<Static("a")>>,
     <<Static("a"), Static("b")>>,
     <<Static("a"), Optional("x")>>,
     <<Param("x"), Static("b")>>,
     <<Digits("y")>>,
     <<Optional("y"), Optional("x")>>,
     <<Wildcard("star", "w")>>,
     <<Static("a"), Wildcard("multi", "w")>>,
     <<Param("x"), Wildcard("zero", "w")>>}}
  \cup {[method |-> "POST", path |-> p] : p \in {
     <<Static("a"), Static("b")>>,
     <<Param("y"), Param("x")>>}}

RequestsChecked ==
  {<<"">>, <<"a">>, <<"a", "b">>, <<"1", "b">>, <<"1", "..", "a", "">>, <<"b", "b", "1">>}

NameRanks == [n \in {"1", "a", "b", "w", "x", "y"} |->
                CASE n = "1" -> 1 [] n = "a" -> 2 [] n = "b" -> 3 [] n = "w" -> 4 [] n = "x" -> 5 [] OTHER -> 6]

PatternLengths == [p \in {"digits"} |-> 3]

AcceptedSegments == [p \in {"digits"} |-> {"1"}]
=============================================================================
