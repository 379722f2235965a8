----------------------------- MODULE OwnerLease -----------------------------
(***************************************************************************)
(* What the owner election promises its callers, with no lock file in      *)
(* sight: every process that takes part is told "owner" or "reader", and   *)
(* the role of owner is given to a process only while nobody else has it.  *)
(* An owner stays one until it leaves or drops out (exits, is killed).     *)
(***************************************************************************)
CONSTANT Pid   \* process ids

VARIABLE role  \* what each process is to the election

Role == {"out", "candidate", "owner", "reader", "former"}

TypeOK == role \in [Pid -> Role]

Init == role = [p \in Pid |-> "out"]

Become(p, from, to) ==
  /\ role[p] \in from
  /\ role' = [role EXCEPT ![p] = to]

Enter(p) == Become(p, {"out"}, "candidate")

Win(p) ==
  /\ \A q \in Pid : role[q] # "owner"
  /\ Become(p, {"candidate"}, "owner")

Lose(p) == Become(p, {"candidate"}, "reader")

Leave(p) == Become(p, {"owner", "reader"}, "former")

Drop(p) == Become(p, Role, "out")

Next == \E p \in Pid : Enter(p) \/ Win(p) \/ Lose(p) \/ Leave(p) \/ Drop(p)

Spec == Init /\ [][Next]_role
=============================================================================
