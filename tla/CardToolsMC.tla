----------------------------- MODULE CardToolsMC -----------------------------
(* Three keys, one of which begins with another, a source file, and other   *)
(* ways to write the key a: with a slash before it, and at the end of a     *)
(* comment.                                                                 *)
EXTENDS CardTools

CONSTANTS a, b, ab, slash, tail, f

Names == {a, b, ab, slash}

Texts == Names \cup {tail}

KeysRead == [t \in Texts |-> IF t \in {slash, tail} THEN a ELSE t]

Prefixes == {<<a, ab>>, <<a, tail>>}

Draft(k, names) == [key |-> k, status |-> "draft", relations |-> names, keyword |-> FALSE]

Cards(x, y, z) == [k \in Key |-> CASE k = a -> x [] k = b -> y [] OTHER -> z]

Starts ==
  {<<Cards(Draft(a, {}), Draft(b, {a}), None), [g \in Code |-> {a}]>>,
   <<Cards(Draft(a, {}), None, Draft(ab, {})), [g \in Code |-> {tail, ab}]>>,
   <<Cards(Draft(a, {}), Draft(b, {}), None), [g \in Code |-> {a}]>>}

Ask(op, key, arg, sync) == [op |-> op, key |-> key, arg |-> arg, sync |-> sync]

RequestsChecked ==
  {Ask("create", ab, TRUE, TRUE), Ask("create", b, FALSE, FALSE),
   Ask("update", b, {a}, FALSE), Ask("update", ab, {}, TRUE),
   Ask("status", ab, "implemented", TRUE), Ask("status", slash, "accepted", TRUE),
   Ask("relate", b, slash, TRUE), Ask("unrelate", b, a, TRUE),
   Ask("delete", a, None, TRUE), Ask("delete", b, None, FALSE), Ask("delete", slash, None, TRUE),
   Ask("rename", a, ab, TRUE), Ask("rename", b, ab, FALSE), Ask("rename", slash, ab, TRUE),
   Ask("link", b, f, TRUE), Ask("unlink", a, f, TRUE),
   Ask("unkeyword", a, None, TRUE), Ask("keyword", a, None, TRUE),
   Ask("index", a, "incremental", TRUE)}
=============================================================================
