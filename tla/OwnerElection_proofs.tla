------------------------ MODULE OwnerElection_proofs ------------------------
(***************************************************************************)
(* Theorems about OwnerElection for every set of pids.                     *)
(*                                                                         *)
(*  - A settled owner is never deposed, whatever the others do.            *)
(*  - While elections do not overlap (Overlap = FALSE), there is one       *)
(*    owner, the lock file names it, the code after acquire()'s loop is    *)
(*    unreachable, and the election implements OwnerLease.                 *)
(***************************************************************************)
EXTENDS OwnerElection, TLAPS

-----------------------------------------------------------------------------
(* Type correctness.  The loop counter stays in range because it is below   *)
(* its bound wherever a pass can still end, and 0 outside acquire().        *)

Counted ==
  \A p \in Pid :
    IF pc[p] \in Acquiring
    THEN pc[p] # "fallback" => attempt[p] < MaxAttempts
    ELSE attempt[p] = 0

TypeInv == TypeOK /\ Counted

LEMMA TypeInit == Init => TypeInv
BY DEF Init, TypeInv, TypeOK, Counted, LockContent, Place, Acquiring, MaxAttempts

LEMMA DecideType ==
  ASSUME TypeInv, NEW p \in Pid,
         NEW result \in {"dead", "owner", "reader"},
         NEW ownerPid \in Pid \cup {Blank},
         Decide(p, result, ownerPid)
  PROVE  /\ pc' \in [Pid -> Place]
         /\ seen' \in [Pid -> Pid \cup {Blank}]
         /\ attempt' \in [Pid -> 0 .. MaxAttempts]
         /\ Counted'
BY DEF TypeInv, TypeOK, Counted, Decide, Goto, Place, Acquiring, MaxAttempts

LEMMA RetryType ==
  ASSUME TypeInv, NEW p \in Pid, pc[p] \in Acquiring \ {"fallback"}, Retry(p)
  PROVE  /\ pc' \in [Pid -> Place]
         /\ attempt' \in [Pid -> 0 .. MaxAttempts]
         /\ Counted'
BY DEF TypeInv, TypeOK, Counted, Retry, Goto, Place, Acquiring, MaxAttempts

LEMMA TypeStep == TypeInv /\ [Next]_vars => TypeInv'
<1> SUFFICES ASSUME TypeInv, [Next]_vars
             PROVE  TypeInv'
  OBVIOUS
<1> USE DEF TypeInv, TypeOK, LockContent
<1>1. ASSUME NEW p \in Pid, Start(p) PROVE TypeInv'
  BY <1>1 DEF Start, Goto, Counted, Place, Acquiring, MaxAttempts
<1>2. ASSUME NEW p \in Pid, Create(p) PROVE TypeInv'
  BY <1>2 DEF Create, Goto, Counted, Place, Acquiring
<1>3. ASSUME NEW p \in Pid, OpenForWrite(p) PROVE TypeInv'
  BY <1>3 DEF OpenForWrite, Goto, Counted, Place, Acquiring
<1>4. ASSUME NEW p \in Pid, WritePid(p) PROVE TypeInv'
  BY <1>4, DecideType DEF WritePid
<1>5. ASSUME NEW p \in Pid, ReadLock(p) PROVE TypeInv'
  <2>1. CASE lock = Absent
    BY <1>5, <2>1, RetryType DEF ReadLock, Acquiring
  <2>2. CASE lock # Absent
    BY <1>5, <2>2 DEF ReadLock, Goto, Counted, Place, Acquiring
  <2>3. QED
    BY <2>1, <2>2
<1>6. ASSUME NEW p \in Pid, Check(p) PROVE TypeInv'
  <2>1. CASE isOwnerAlive(seen[p])
    BY <1>6, <2>1, DecideType DEF Check
  <2>2. CASE ~isOwnerAlive(seen[p])
    BY <1>6, <2>2 DEF Check, Goto, Counted, Place, Acquiring
  <2>3. QED
    BY <2>1, <2>2
<1>7. ASSUME NEW p \in Pid, Remove(p) PROVE TypeInv'
  BY <1>7, RetryType DEF Remove, Acquiring
<1>8. ASSUME NEW p \in Pid, Fallback(p) PROVE TypeInv'
  BY <1>8, DecideType DEF Fallback
<1>9. ASSUME NEW p \in Pid, BeginRelease(p) PROVE TypeInv'
  BY <1>9 DEF BeginRelease, Goto, Counted, Place, Acquiring, Releasing
<1>10. ASSUME NEW p \in Pid, ReleaseRead(p) PROVE TypeInv'
  BY <1>10 DEF ReleaseRead, Goto, Counted, Place, Acquiring, Releasing
<1>11. ASSUME NEW p \in Pid, ReleaseRemove(p) PROVE TypeInv'
  BY <1>11 DEF ReleaseRemove, Goto, Counted, Place, Acquiring, Releasing
<1>12. ASSUME NEW p \in Pid, Exit(p) PROVE TypeInv'
  BY <1>12, DecideType DEF Exit
<1>13. ASSUME NEW p \in Pid, Recycle(p) PROVE TypeInv'
  BY <1>13 DEF Recycle, Goto, Counted, Place, Acquiring
<1>14. CASE UNCHANGED vars
  BY <1>14 DEF vars, Counted
<1>15. QED
  BY <1>1, <1>2, <1>3, <1>4, <1>5, <1>6, <1>7, <1>8, <1>9, <1>10, <1>11,
     <1>12, <1>13, <1>14 DEF Next, Step

LEMMA TypeSafety == Safety => []TypeInv
BY TypeInit, TypeStep, PTL DEF Safety

(* Every variable keeps its type; in particular acquire() makes at most     *)
(* MaxAttempts passes, however the processes interleave.                    *)
THEOREM TypeCorrect == Spec => []TypeOK
<1>1. TypeInv => TypeOK
  BY DEF TypeInv
<1>2. QED
  BY <1>1, TypeSafety, PTL DEF Spec
-----------------------------------------------------------------------------
(* A settled owner stays.  The other processes can reach a place from which *)
(* they write or remove the file only by reading something else than the    *)
(* pid of a live process, and while p is settled there is nothing else to   *)
(* read.                                                                    *)

LEMMA SettledStep ==
  ASSUME TypeInv, Next, NEW p \in Pid, Settled(p)
  PROVE  Settled(p)' \/ pc'[p] # "owner"
<1> SUFFICES ASSUME pc'[p] = "owner"
             PROVE  Settled(p)'
  OBVIOUS
<1> USE SentinelAssumption DEF TypeInv, TypeOK, Settled, Goto
<1>1. ASSUME NEW q \in Pid, Start(q) PROVE Settled(p)'
  BY <1>1 DEF Start
<1>2. ASSUME NEW q \in Pid, Create(q) PROVE Settled(p)'
  BY <1>2 DEF Create
<1>3. ASSUME NEW q \in Pid, OpenForWrite(q) PROVE Settled(p)'
  BY <1>3 DEF OpenForWrite
<1>4. ASSUME NEW q \in Pid, WritePid(q) PROVE Settled(p)'
  BY <1>4 DEF WritePid
<1>5. ASSUME NEW q \in Pid, ReadLock(q) PROVE Settled(p)'
  BY <1>5 DEF ReadLock
<1>6. ASSUME NEW q \in Pid, Check(q) PROVE Settled(p)'
  BY <1>6 DEF Check, Decide, isOwnerAlive
<1>7. ASSUME NEW q \in Pid, Remove(q) PROVE Settled(p)'
  BY <1>7 DEF Remove
<1>8. ASSUME NEW q \in Pid, Fallback(q) PROVE Settled(p)'
  BY <1>8 DEF Fallback, Decide
<1>9. ASSUME NEW q \in Pid, BeginRelease(q) PROVE Settled(p)'
  BY <1>9 DEF BeginRelease
<1>10. ASSUME NEW q \in Pid, ReleaseRead(q) PROVE Settled(p)'
  BY <1>10 DEF ReleaseRead
<1>11. ASSUME NEW q \in Pid, ReleaseRemove(q) PROVE Settled(p)'
  BY <1>11 DEF ReleaseRemove
<1>12. ASSUME NEW q \in Pid, Exit(q) PROVE Settled(p)'
  BY <1>12 DEF Exit, Decide
<1>13. ASSUME NEW q \in Pid, Recycle(q) PROVE Settled(p)'
  BY <1>13 DEF Recycle
<1>14. QED
  BY <1>1, <1>2, <1>3, <1>4, <1>5, <1>6, <1>7, <1>8, <1>9, <1>10, <1>11,
     <1>12, <1>13 DEF Next, Step

(* With any number of processes inside acquire() and release() at once, no  *)
(* step of another process takes the lock from a settled owner.             *)
THEOREM SettledOwnerKept == Spec => SettledOwnerStays
<1>1. TypeInv /\ [Next]_vars
        => [\A p \in Pid : Settled(p) => Settled(p)' \/ pc'[p] # "owner"]_vars
  BY SettledStep
<1>2. QED
  BY <1>1, TypeSafety, PTL DEF Spec, Safety, SettledOwnerStays

-----------------------------------------------------------------------------
(* Elections that do not overlap.                                           *)
(*                                                                          *)
(* SingleOwner is not inductive.  What carries it is what each place of     *)
(* acquire() and release() knows of the lock file: before the pid is        *)
(* written the file is blank (so there is no owner), before a removal it is *)
(* gone or still holds what was read, and what was read is no live process  *)
(* of ours.                                                                 *)

OneCandidate ==
  \A p, q \in Pid : pc[p] \in Acquiring /\ pc[q] \in Acquiring => p = q

ReleaserNamed == \A p \in Pid : pc[p] = "releaseRemove" => lock = p

BlankWhileMaking ==
  \A p \in Pid :
    /\ pc[p] \in {"open", "write"} => lock = Blank
    /\ pc[p] = "write" => p \in attached

StaleWhenRemoved ==
  \A p \in Pid :
    /\ pc[p] = "check" => seen[p] \in Pid
    /\ pc[p] \in {"check", "remove"} => lock \in {seen[p], Absent}
    /\ pc[p] = "remove" /\ seen[p] \in Pid => pc[seen[p]] \in {"dead", "foreign"}

TwoPasses ==
  \A p \in Pid :
    /\ pc[p] = "create" => attempt[p] = 0 \/ (attempt[p] = 1 /\ lock = Absent)
    /\ pc[p] \in {"read", "check", "remove"} => attempt[p] = 0

SeqInv ==
  /\ TypeInv
  /\ OneCandidate
  /\ LockNamesOwner
  /\ ReleaserNamed
  /\ BlankWhileMaking
  /\ StaleWhenRemoved
  /\ TwoPasses
  /\ FallbackUnreached

LEMMA SeqInit == Init => SeqInv
BY TypeInit
   DEF Init, SeqInv, OneCandidate, LockNamesOwner, ReleaserNamed, BlankWhileMaking,
       StaleWhenRemoved, TwoPasses, FallbackUnreached, Acquiring

LEMMA SeqStep ==
  ASSUME Overlap = FALSE, SeqInv, [Next]_vars
  PROVE  SeqInv'
<1> USE SentinelAssumption
    DEF SeqInv, TypeInv, TypeOK, OneCandidate, LockNamesOwner, ReleaserNamed,
        BlankWhileMaking, StaleWhenRemoved, TwoPasses, FallbackUnreached, Goto
<1>0. TypeInv'
  BY TypeStep
<1>1. ASSUME NEW p \in Pid, Start(p) PROVE SeqInv'
  BY <1>0, <1>1 DEF Start, Acquiring, Counted
<1>2. ASSUME NEW p \in Pid, Create(p) PROVE SeqInv'
  BY <1>0, <1>2 DEF Create, Acquiring
<1>3. ASSUME NEW p \in Pid, OpenForWrite(p) PROVE SeqInv'
  BY <1>0, <1>3 DEF OpenForWrite, Acquiring
<1>4. ASSUME NEW p \in Pid, WritePid(p) PROVE SeqInv'
  BY <1>0, <1>4 DEF WritePid, Decide, Acquiring
<1>5. ASSUME NEW p \in Pid, ReadLock(p) PROVE SeqInv'
  BY <1>0, <1>5 DEF ReadLock, Retry, Acquiring, MaxAttempts, LockContent
<1>6. ASSUME NEW p \in Pid, Check(p) PROVE SeqInv'
  BY <1>0, <1>6 DEF Check, Decide, Acquiring, isOwnerAlive
<1>7. ASSUME NEW p \in Pid, Remove(p) PROVE SeqInv'
  BY <1>0, <1>7 DEF Remove, Retry, Acquiring, MaxAttempts
<1>8. ASSUME NEW p \in Pid, Fallback(p) PROVE SeqInv'
  BY <1>8 DEF Fallback
<1>9. ASSUME NEW p \in Pid, BeginRelease(p) PROVE SeqInv'
  BY <1>0, <1>9 DEF BeginRelease, Acquiring
<1>10. ASSUME NEW p \in Pid, ReleaseRead(p) PROVE SeqInv'
  BY <1>0, <1>10 DEF ReleaseRead, Acquiring
<1>11. ASSUME NEW p \in Pid, ReleaseRemove(p) PROVE SeqInv'
  BY <1>0, <1>11 DEF ReleaseRemove, Acquiring
<1>12. ASSUME NEW p \in Pid, Exit(p) PROVE SeqInv'
  BY <1>0, <1>12 DEF Exit, Decide, Acquiring
<1>13. ASSUME NEW p \in Pid, Recycle(p) PROVE SeqInv'
  BY <1>0, <1>13 DEF Recycle, Acquiring
<1>14. CASE UNCHANGED vars
  BY <1>0, <1>14 DEF vars
<1>15. QED
  BY <1>1, <1>2, <1>3, <1>4, <1>5, <1>6, <1>7, <1>8, <1>9, <1>10, <1>11,
     <1>12, <1>13, <1>14 DEF Next, Step

LEMMA SeqSafety ==
  ASSUME Overlap = FALSE
  PROVE  Safety => []SeqInv
<1>1. SeqInv /\ [Next]_vars => SeqInv'
  BY SeqStep
<1>2. QED
  BY <1>1, SeqInit, PTL DEF Safety

(* Elections that do not overlap never give the role to two processes, even *)
(* with crashes inside acquire(), stale and blank lock files, recycled pids *)
(* and releases going on next to an election.                               *)
THEOREM SequentialSingleOwner ==
  ASSUME Overlap = FALSE
  PROVE  Spec => []SingleOwner
<1>1. SeqInv => SingleOwner
  BY DEF SeqInv, LockNamesOwner, SingleOwner
<1>2. QED
  BY <1>1, SeqSafety, PTL DEF Spec

(* And the file names the owner as long as it is one.                       *)
THEOREM SequentialLockNamesOwner ==
  ASSUME Overlap = FALSE
  PROVE  Spec => []LockNamesOwner
<1>1. SeqInv => LockNamesOwner
  BY DEF SeqInv
<1>2. QED
  BY <1>1, SeqSafety, PTL DEF Spec

(* acquire() decides within two passes: what the comment calls unreachable  *)
(* is unreachable as long as nobody else is electing.                       *)
THEOREM SequentialFallbackUnreached ==
  ASSUME Overlap = FALSE
  PROVE  Spec => []FallbackUnreached
<1>1. SeqInv => FallbackUnreached
  BY DEF SeqInv
<1>2. QED
  BY <1>1, SeqSafety, PTL DEF Spec

-----------------------------------------------------------------------------
(* Refinement.                                                              *)

LEMMA LeaseInit == Init => Lease!Init
BY DEF Init, Lease!Init, roles, RoleOf, Acquiring, Releasing

(* A process that moves from one place to another takes the abstract step   *)
(* between the roles of the two places.                                     *)
LEMMA RoleStep ==
  ASSUME TypeInv, NEW p \in Pid, NEW place \in Place, Goto(p, place),
         NEW from, RoleOf(pc[p]) \in from
  PROVE  Lease!Become(p, from, RoleOf(place))
<1>1. roles[p] = RoleOf(pc[p])
  BY DEF roles
<1>2. \A q \in Pid : pc'[q] = IF q = p THEN place ELSE pc[q]
  BY DEF Goto, TypeInv, TypeOK
<1>3. roles' = [q \in Pid |-> RoleOf(pc'[q])]
  BY DEF roles, RoleOf
<1>4. roles' = [roles EXCEPT ![p] = RoleOf(place)]
  BY <1>2, <1>3, Zenon DEF roles
<1>5. QED
  BY <1>1, <1>4 DEF Lease!Become

LEMMA LeaseStep == SeqInv /\ [Next]_vars => [Lease!Next]_roles
<1> SUFFICES ASSUME SeqInv, Next
             PROVE  [Lease!Next]_roles
  BY DEF vars, roles
<1> USE DEF SeqInv, RoleOf, Acquiring, Releasing, Place
<1> DEFINE Stays == roles' = roles
<1>1. ASSUME NEW p \in Pid, NEW from \in Place, NEW place \in Place,
             pc[p] = from, Goto(p, place), RoleOf(from) = RoleOf(place)
      PROVE  Stays
  BY <1>1 DEF roles, Goto, TypeInv, TypeOK
<1>2. ASSUME NEW p \in Pid, Start(p) PROVE Lease!Enter(p)
  BY <1>2, RoleStep DEF Start, Lease!Enter
<1>3. ASSUME NEW p \in Pid, Create(p) PROVE Stays
  BY <1>1, <1>3 DEF Create
<1>4. ASSUME NEW p \in Pid, OpenForWrite(p) PROVE Stays
  BY <1>1, <1>4 DEF OpenForWrite
<1>5. ASSUME NEW p \in Pid, WritePid(p) PROVE Lease!Win(p)
  <2>1. lock = Blank
    BY <1>5 DEF WritePid, BlankWhileMaking
  <2>2. \A q \in Pid : pc[q] # "owner"
    BY <2>1, SentinelAssumption DEF LockNamesOwner
  <2>3. \A q \in Pid : roles[q] # "owner"
    BY <2>2 DEF roles, TypeInv, TypeOK
  <2>4. Lease!Become(p, {"candidate"}, "owner")
    BY <1>5, RoleStep DEF WritePid, Decide
  <2>5. QED
    BY <2>3, <2>4 DEF Lease!Win
<1>6. ASSUME NEW p \in Pid, ReadLock(p) PROVE Stays
  BY <1>1, <1>6 DEF ReadLock, Retry
<1>7. ASSUME NEW p \in Pid, Check(p) PROVE Lease!Lose(p) \/ Stays
  <2>1. CASE isOwnerAlive(seen[p])
    BY <1>7, <2>1, RoleStep DEF Check, Decide, Lease!Lose
  <2>2. CASE ~isOwnerAlive(seen[p])
    BY <1>1, <1>7, <2>2 DEF Check
  <2>3. QED
    BY <2>1, <2>2
<1>8. ASSUME NEW p \in Pid, Remove(p) PROVE Stays
  BY <1>1, <1>8 DEF Remove, Retry
<1>9. ASSUME NEW p \in Pid, Fallback(p) PROVE FALSE
  BY <1>9 DEF Fallback, FallbackUnreached
<1>10. ASSUME NEW p \in Pid, BeginRelease(p) PROVE Lease!Leave(p) \/ Stays
  <2>1. CASE pc[p] = "released"
    BY <1>1, <1>10, <2>1 DEF BeginRelease
  <2>2. CASE pc[p] \in {"owner", "reader"}
    BY <1>10, <2>2, RoleStep DEF BeginRelease, Lease!Leave
  <2>3. QED
    BY <1>10, <2>1, <2>2 DEF BeginRelease
<1>11. ASSUME NEW p \in Pid, ReleaseRead(p) PROVE Stays
  BY <1>1, <1>11 DEF ReleaseRead
<1>12. ASSUME NEW p \in Pid, ReleaseRemove(p) PROVE Stays
  BY <1>1, <1>12 DEF ReleaseRemove
<1>13. ASSUME NEW p \in Pid, Exit(p) PROVE Lease!Drop(p)
  BY <1>13, RoleStep DEF Exit, Decide, Lease!Drop, Lease!Role, TypeInv, TypeOK
<1>14. ASSUME NEW p \in Pid, Recycle(p) PROVE Stays
  BY <1>1, <1>14 DEF Recycle
<1>15. QED
  BY <1>2, <1>3, <1>4, <1>5, <1>6, <1>7, <1>8, <1>9, <1>10, <1>11, <1>12,
     <1>13, <1>14 DEF Next, Step, Lease!Next

(* Elections that do not overlap implement the abstract lease.              *)
THEOREM SequentialImplementsLease ==
  ASSUME Overlap = FALSE
  PROVE  Spec => ImplementsLease
BY SeqSafety, LeaseInit, LeaseStep, PTL DEF Spec, Safety, ImplementsLease, Lease!Spec
=============================================================================
