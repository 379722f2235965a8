-------------------------------- MODULE Names --------------------------------
(* Names and maps, of the compiler and of the container. *)

CONSTANT NoName  \* undefined, or UNKNOWN; no scope

(* A Map after set(). *)
With(f, x, v) == [y \in DOMAIN f \cup {x} |-> IF y = x THEN v ELSE f[y]]
=============================================================================
