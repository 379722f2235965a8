------------------------ MODULE ClusterManager_proofs ------------------------
(***************************************************************************)
(* Theorems about ClusterManager for every set of slots, every number of   *)
(* attempts and every number of worker threads.                            *)
(*                                                                         *)
(*  - Every variable keeps its type.                                       *)
(*  - `reviving` marks exactly the slots under revival, no slot is revived *)
(*    twice at a time, and a slot under revival is empty.                  *)
(*  - No worker is started after destroy().                                *)
(*  - destroy() stops every worker the constructor started.                *)
(*  - A dead worker in a slot still has its `close` event to come.         *)
(*  - A slot is given up only after the last attempt, or after destroy().  *)
(***************************************************************************)
EXTENDS ClusterManager, TLAPS

-----------------------------------------------------------------------------
(* The bookkeeping of revivals.  RevivingIsExact and OneRevivalPerSlot need *)
(* each other: a crash event clears the mark of its slot only if the slot   *)
(* is occupied, and only because an occupied slot is under no revival is    *)
(* the mark then not the mark of a running one.                             *)

ManagerType ==
  /\ workers \in [Slot -> Worker \cup {NoWorker}]
  /\ reviving \in SUBSET Slot
  /\ loopPc \in [Loop -> LoopPlace]

RevivalInv ==
  /\ ManagerType
  /\ OneRevivalPerSlot
  /\ RevivingIsExact

LEMMA RevivalInit == Init => RevivalInv
BY BoundAssumption
   DEF Init, RevivalInv, ManagerType, OneRevivalPerSlot, RevivingIsExact, Active, Loop,
       LoopPlace, Worker

LEMMA OccupantsOfOne ==
  ASSUME NEW s \in Slot
  PROVE  Occupants({s}) = {} <=> workers[s] = NoWorker
BY DEF Occupants

(* A revival that ends takes its mark with it. *)
LEMMA EndLoopRevival ==
  ASSUME RevivalInv, NEW l \in Loop, Active(l), EndLoop(l),
         \/ workers' = workers
         \/ \E w \in Worker : workers' = [workers EXCEPT ![l[1]] = w]
  PROVE  RevivalInv'
<1> USE DEF RevivalInv, ManagerType, OneRevivalPerSlot, RevivingIsExact, Active, EndLoop
<1>1. PICK s \in Slot, k \in {1, 2} : l = <<s, k>>
  BY DEF Loop
<1>2. loopPc' \in [Loop -> LoopPlace] /\ reviving' \in SUBSET Slot
  BY DEF LoopPlace
<1>3. workers' \in [Slot -> Worker \cup {NoWorker}]
  BY <1>1
<1>4. /\ ~Active(<<s, 1>>)' /\ ~Active(<<s, 2>>)'
      /\ \A t \in Slot \ {s} : /\ workers'[t] = workers[t]
                               /\ Active(<<t, 1>>)' = Active(<<t, 1>>)
                               /\ Active(<<t, 2>>)' = Active(<<t, 2>>)
  BY <1>1 DEF Loop
<1>5. reviving' = reviving \ {s}
  BY <1>1
<1>6. QED
  BY <1>2, <1>3, <1>4, <1>5

(* A revival that goes on keeps its mark. *)
LEMMA LoopMovesOn ==
  ASSUME RevivalInv, NEW l \in Loop, NEW place \in LoopPlace \ {"idle"}, Active(l),
         loopPc' = [loopPc EXCEPT ![l] = place],
         UNCHANGED <<workers, reviving>>
  PROVE  RevivalInv'
<1> USE DEF RevivalInv, ManagerType
<1>1. loopPc' \in [Loop -> LoopPlace]
  OBVIOUS
<1>2. \A s \in Slot : \A k \in {1, 2} : Active(<<s, k>>)' = Active(<<s, k>>)
  BY DEF Active, Loop, LoopPlace
<1>3. QED
  BY <1>1, <1>2 DEF OneRevivalPerSlot, RevivingIsExact

(* A crash event empties the slot and leaves it with one revival: the one   *)
(* under way, or a new one.                                                 *)
LEMMA CrashRevival ==
  ASSUME RevivalInv, NEW s \in Slot, Vacate(s),
         reviveWorker(s, IF Occupants({s}) = {} THEN reviving ELSE reviving \ {s})
  PROVE  RevivalInv'
<1> USE DEF RevivalInv, ManagerType, OneRevivalPerSlot, RevivingIsExact
<1>1. workers' \in [Slot -> Worker \cup {NoWorker}]
      /\ workers'[s] = NoWorker /\ \A t \in Slot \ {s} : workers'[t] = workers[t]
  BY DEF Vacate
<1>2. CASE s \in reviving
  <2>1. workers[s] = NoWorker
    BY <1>2
  <2>2. reviving' = reviving /\ loopPc' = loopPc
    BY <2>1, <1>2, OccupantsOfOne DEF reviveWorker, loopVars
  <2>3. QED
    BY <1>1, <2>2 DEF Active
<1>3. CASE s \notin reviving
  <2>1. ~Active(<<s, 1>>) /\ ~Active(<<s, 2>>)
    BY <1>3
  <2>2. reviving' = reviving \cup {s} /\ StartLoop(<<s, 1>>)
    BY <1>3, <2>1 DEF reviveWorker, FreeLoop
  <2>3. loopPc' = [loopPc EXCEPT ![<<s, 1>>] = "delay"]
    BY <2>2 DEF StartLoop
  <2>4. /\ Active(<<s, 1>>)' /\ ~Active(<<s, 2>>)'
        /\ \A t \in Slot \ {s} : /\ Active(<<t, 1>>)' = Active(<<t, 1>>)
                                 /\ Active(<<t, 2>>)' = Active(<<t, 2>>)
    BY <2>1, <2>3 DEF Active, Loop
  <2>5. loopPc' \in [Loop -> LoopPlace]
    BY <2>3 DEF LoopPlace
  <2>6. QED
    BY <1>1, <2>2, <2>4, <2>5
<1>4. QED
  BY <1>2, <1>3

LEMMA CallerIsActive ==
  ASSUME RevivalInv, NEW w, NEW l \in Caller(w)
  PROVE  l \in Loop /\ Active(l) /\ loopPc[l] \in {"init", "bootstrap"} /\ loopWorker[l] = w
BY DEF Caller, Active

LEMMA RevivalStep == RevivalInv /\ [Next]_vars => RevivalInv'
<1> SUFFICES ASSUME RevivalInv, [Next]_vars PROVE RevivalInv'
  OBVIOUS
<1> DEFINE Bookkeeping == <<workers, reviving, loopPc>>
<1>u. UNCHANGED Bookkeeping => RevivalInv'
  BY DEF RevivalInv, ManagerType, OneRevivalPerSlot, RevivingIsExact, Active
<1>1. CASE UNCHANGED vars
  BY <1>1, <1>u DEF vars, managerVars, loopVars
<1>2. ASSUME NEW w \in Worker, Answer(w, "ok") \/ Answer(w, "err")
      PROVE  RevivalInv'
  BY <1>2, <1>u DEF Answer, managerVars, loopVars
<1>3. ASSUME NEW w \in Worker, Throw(w) \/ Quit(w)
      PROVE  RevivalInv'
  BY <1>3, <1>u DEF Throw, Quit, Die, managerVars, loopVars
<1>4. ASSUME NEW w \in Worker, Garble(w)
      PROVE  RevivalInv'
  BY <1>4, <1>u DEF Garble, managerVars, loopVars
<1>5. ASSUME NEW w \in Worker, HandleCrash(w)
      PROVE  RevivalInv'
  <2>1. Home(w) \in Slot
    BY DEF Home, Worker
  <2>2. QED
    BY <1>5, <2>1, CrashRevival DEF HandleCrash
<1>6. ASSUME NEW w \in Worker, IgnoreCrash(w) \/ StartReply(w) \/ DropReply(w)
      PROVE  RevivalInv'
  BY <1>6, <1>u DEF IgnoreCrash, StartReply, DropReply, managerVars, loopVars
<1>7. ASSUME NEW w \in Worker, InitDone(w)
      PROVE  RevivalInv'
  <2>1. PICK l \in Caller(w) : /\ loopPc' = [loopPc EXCEPT ![l] = "bootstrap"]
                               /\ UNCHANGED managerVars
    BY <1>7 DEF InitDone
  <2>2. QED
    BY <2>1, CallerIsActive, LoopMovesOn DEF managerVars, LoopPlace
<1>8. ASSUME NEW w \in Worker, BootstrapDone(w)
      PROVE  RevivalInv'
  <2>1. PICK l \in Caller(w) : workers' = [workers EXCEPT ![l[1]] = w] /\ EndLoop(l)
    BY <1>8 DEF BootstrapDone
  <2>2. QED
    BY <2>1, CallerIsActive, EndLoopRevival
<1>9. ASSUME NEW w \in Worker, AttemptFailed(w)
      PROVE  RevivalInv'
  <2>1. PICK l \in Caller(w) :
          /\ \/ loopPc' = [loopPc EXCEPT ![l] = "delay"] /\ UNCHANGED reviving
             \/ EndLoop(l)
          /\ UNCHANGED workers
    BY <1>9 DEF AttemptFailed
  <2>2. CASE EndLoop(l)
    BY <2>1, <2>2, CallerIsActive, EndLoopRevival
  <2>3. CASE loopPc' = [loopPc EXCEPT ![l] = "delay"] /\ UNCHANGED reviving
    BY <2>1, <2>3, CallerIsActive, LoopMovesOn DEF LoopPlace
  <2>4. QED
    BY <2>1, <2>2, <2>3
<1>10. ASSUME NEW l \in Loop, Attempt(l)
       PROVE  RevivalInv'
  <2>1. /\ loopPc' = [loopPc EXCEPT ![l] = "init"]
        /\ Active(l)
        /\ UNCHANGED <<workers, reviving>>
    BY <1>10 DEF Attempt, MayAttempt, Active, managerVars
  <2>2. QED
    BY <2>1, LoopMovesOn DEF LoopPlace
<1>11. ASSUME NEW l \in Loop, AttemptDestroying(l)
       PROVE  RevivalInv'
  BY <1>11, EndLoopRevival DEF AttemptDestroying, Active
<1>12. CASE Destroy
  <2>1. reviving' = reviving
    BY <1>12 DEF Destroy, RevivalInv, ManagerType, OneRevivalPerSlot, RevivingIsExact
  <2>2. QED
    BY <1>12, <2>1, <1>u DEF Destroy, loopVars
<1>13. QED
  BY <1>1, <1>2, <1>3, <1>4, <1>5, <1>6, <1>7, <1>8, <1>9, <1>10, <1>11, <1>12
     DEF Next, Deliver, EndOfDelay

THEOREM RevivalSafety == Spec => []RevivalInv
BY RevivalInit, RevivalStep, PTL DEF Spec

(* For every number of slots, attempts and workers: a slot never has two    *)
(* revivals at a time, and is empty while it has one.                       *)
THEOREM RevivalsAreExclusive == Spec => []OneRevivalPerSlot
<1>1. RevivalInv => OneRevivalPerSlot
  BY DEF RevivalInv
<1>2. QED
  BY <1>1, RevivalSafety, PTL

(* For every number of slots, attempts and workers: the set that keeps      *)
(* revivals apart names exactly the slots that have one under way.          *)
THEOREM RevivalMarksExact == Spec => []RevivingIsExact
<1>1. RevivalInv => RevivingIsExact
  BY DEF RevivalInv
<1>2. QED
  BY <1>1, RevivalSafety, PTL

-----------------------------------------------------------------------------
(* No worker is started after destroy(): for every value of the constants,  *)
(* no revival that was under way starts another one.                        *)
THEOREM NoSpawnAfterDestroy == Spec => NoSpawnWhileDestroying
<1>1. [Next]_vars => [destroying => spawned' = spawned]_vars
  BY DEF Next, vars, Answer, Throw, Quit, Die, Garble, Deliver, HandleCrash, IgnoreCrash,
         StartReply, DropReply, InitDone, BootstrapDone, AttemptFailed, EndOfDelay, Attempt,
         MayAttempt, AttemptDestroying, Destroy, managerVars, loopVars, workerVars, startVars
<1>2. QED
  BY <1>1, PTL DEF Spec, NoSpawnWhileDestroying

-----------------------------------------------------------------------------
(* Types.  The counter of attempts stays within its bound because a revival *)
(* waits out a delay only with an attempt left, and starts from zero.       *)

AttemptsLeft ==
  \A l \in Loop :
    /\ loopPc[l] = "idle" => loopAttempt[l] = 0
    /\ loopPc[l] = "delay" => loopAttempt[l] < NumOfAttempts

TypeInv == TypeOK /\ AttemptsLeft

LEMMA TypeInit == Init => TypeInv
<1> SUFFICES ASSUME Init PROVE TypeInv
  OBVIOUS
<1>1. 1 \in 1 .. MaxSpawns /\ 0 \in 0 .. NumOfAttempts /\ 0 < NumOfAttempts
  BY BoundAssumption
<1>2. workers \in [Slot -> Worker \cup {NoWorker}] /\ spawned \in [Slot -> 1 .. MaxSpawns]
  BY <1>1 DEF Init, Worker
<1>3. /\ life \in [Worker -> {"unborn", "alive", "dead"}]
      /\ call \in [Worker -> {"none", "init", "bootstrap"}]
  BY DEF Init
<1>4. inbox \in [Worker -> Seq(Event)]
  BY DEF Init
<1>5. /\ loopPc \in [Loop -> LoopPlace]
      /\ loopWorker \in [Loop -> Worker \cup {NoWorker}]
      /\ loopAttempt \in [Loop -> 0 .. NumOfAttempts]
  BY <1>1 DEF Init, LoopPlace
<1>6. AttemptsLeft
  BY <1>1 DEF Init, AttemptsLeft
<1>7. QED
  BY <1>2, <1>3, <1>4, <1>5, <1>6 DEF Init, TypeInv, TypeOK

(* The queues and the threads, when w's next event is taken. *)
LEMMA TakeType ==
  ASSUME TypeOK, NEW w \in Worker, inbox[w] # << >>, NEW killed
  PROVE  /\ InboxAfter(w, killed) \in [Worker -> Seq(Event)]
         /\ LifeAfter(killed) \in [Worker -> {"unborn", "alive", "dead"}]
         /\ CallAfter(killed) \in [Worker -> {"none", "init", "bootstrap"}]
<1>1. \A v \in Worker : inbox[v] \in Seq(Event)
  BY DEF TypeOK
<1>2. Tail(inbox[w]) \in Seq(Event)
  BY <1>1
<1>3. \A q \in Seq(Event) : Append(q, "close") \in Seq(Event)
  BY DEF Event, CrashEvent
<1>4. QED
  BY <1>1, <1>2, <1>3 DEF TypeOK, InboxAfter, LifeAfter, CallAfter

LEMMA OccupantsType == TypeOK => \A slots \in SUBSET Slot : Occupants(slots) \subseteq Worker
BY DEF TypeOK, Occupants

LEMMA FreeLoopType ==
  ASSUME NEW s \in Slot
  PROVE  FreeLoop(s) \in Loop
BY DEF FreeLoop, Loop

LEMMA StartLoopType ==
  ASSUME TypeInv, NEW l \in Loop, StartLoop(l)
  PROVE  /\ loopPc' \in [Loop -> LoopPlace]
         /\ UNCHANGED <<loopWorker, loopAttempt>>
         /\ AttemptsLeft'
<1>1. loopPc[l] = "idle" /\ loopAttempt[l] = 0
  BY DEF StartLoop, Active, TypeInv, AttemptsLeft
<1>2. QED
  BY <1>1, BoundAssumption DEF StartLoop, TypeInv, TypeOK, AttemptsLeft, LoopPlace

LEMMA EndLoopType ==
  ASSUME TypeInv, NEW l \in Loop, EndLoop(l)
  PROVE  /\ reviving' \in SUBSET Slot
         /\ loopPc' \in [Loop -> LoopPlace]
         /\ loopWorker' \in [Loop -> Worker \cup {NoWorker}]
         /\ loopAttempt' \in [Loop -> 0 .. NumOfAttempts]
         /\ AttemptsLeft'
BY BoundAssumption DEF TypeInv, TypeOK, EndLoop, AttemptsLeft, LoopPlace

LEMMA PostType ==
  ASSUME TypeOK, NEW called, NEW method \in {"init", "bootstrap"}, Post(called, method)
  PROVE  call' \in [Worker -> {"none", "init", "bootstrap"}]
BY DEF TypeOK, Post

LEMMA TypeStep == TypeInv /\ [Next]_vars => TypeInv'
<1> SUFFICES ASSUME TypeInv, [Next]_vars PROVE TypeInv'
  OBVIOUS
<1> USE DEF TypeInv
<1>1. CASE UNCHANGED vars
  BY <1>1 DEF vars, managerVars, loopVars, workerVars, startVars, TypeOK, AttemptsLeft
<1>2. ASSUME NEW w \in Worker, NEW reply \in {"ok", "err"}, Answer(w, reply)
      PROVE  TypeInv'
  <2>1. Append(inbox[w], reply) \in Seq(Event)
    BY DEF TypeOK, Event
  <2>2. inbox' \in [Worker -> Seq(Event)]
    BY <1>2, <2>1 DEF Answer, TypeOK
  <2>3. QED
    BY <1>2, <2>2 DEF Answer, TypeOK, AttemptsLeft, managerVars, loopVars, startVars
<1>3. ASSUME NEW w \in Worker, Throw(w) \/ Quit(w)
      PROVE  TypeInv'
  <2>1. PICK events \in Seq(Event) : Die(w, events)
    <3>1. <<"error", "close">> \in Seq(Event) /\ <<"close">> \in Seq(Event)
      BY DEF Event, CrashEvent
    <3>2. QED
      BY <1>3, <3>1 DEF Throw, Quit
  <2>2. inbox[w] \o events \in Seq(Event)
    BY DEF TypeOK
  <2>3. inbox' \in [Worker -> Seq(Event)]
    BY <2>1, <2>2 DEF Die, TypeOK
  <2>4. QED
    BY <2>1, <2>3 DEF Die, TypeOK, AttemptsLeft, managerVars, loopVars, startVars
<1>4. ASSUME NEW w \in Worker, Garble(w)
      PROVE  TypeInv'
  <2>1. <<"messageerror">> \in Seq(Event)
    BY DEF Event, CrashEvent
  <2>2. inbox' \in [Worker -> Seq(Event)]
    BY <1>4, <2>1 DEF Garble, TypeOK
  <2>3. QED
    BY <1>4, <2>2 DEF Garble, TypeOK, AttemptsLeft, managerVars, loopVars, startVars
<1>5. ASSUME NEW w \in Worker, HandleCrash(w)
      PROVE  TypeInv'
  <2>1. Home(w) \in Slot
    BY DEF Home, Worker
  <2>2. /\ inbox' \in [Worker -> Seq(Event)]
        /\ life' \in [Worker -> {"unborn", "alive", "dead"}]
        /\ call' \in [Worker -> {"none", "init", "bootstrap"}]
    BY <1>5, TakeType DEF HandleCrash
  <2>3. workers' \in [Slot -> Worker \cup {NoWorker}]
    BY <1>5 DEF HandleCrash, Vacate, TypeOK
  <2>4. PICK marked \in SUBSET Slot : reviveWorker(Home(w), marked)
    BY <1>5 DEF HandleCrash, TypeOK
  <2>5. reviving' \in SUBSET Slot
    BY <2>1, <2>4 DEF reviveWorker
  <2>6. /\ loopPc' \in [Loop -> LoopPlace]
        /\ UNCHANGED <<loopWorker, loopAttempt>>
        /\ AttemptsLeft'
    BY <2>1, <2>4, FreeLoopType, StartLoopType DEF reviveWorker, loopVars, TypeOK, AttemptsLeft
  <2>7. QED
    BY <1>5, <2>2, <2>3, <2>5, <2>6 DEF HandleCrash, TypeOK, startVars
<1>6. ASSUME NEW w \in Worker, IgnoreCrash(w) \/ DropReply(w)
      PROVE  TypeInv'
  <2>1. inbox' \in [Worker -> Seq(Event)]
    BY <1>6, TakeType DEF IgnoreCrash, DropReply, Reply
  <2>2. QED
    BY <1>6, <2>1
       DEF IgnoreCrash, DropReply, TypeOK, AttemptsLeft, managerVars, loopVars, startVars
<1>7. ASSUME NEW w \in Worker, StartReply(w)
      PROVE  TypeInv'
  <2>1. inbox' \in [Worker -> Seq(Event)]
    BY <1>7, TakeType DEF StartReply, Reply
  <2>2. /\ phase' \in {"init", "bootstrap", "running", "failed"}
        /\ awaited' \in SUBSET Worker
    BY <1>7, OccupantsType DEF StartReply, TypeOK
  <2>3. call' \in [Worker -> {"none", "init", "bootstrap"}]
    BY <1>7, PostType DEF StartReply, TypeOK
  <2>4. QED
    BY <1>7, <2>1, <2>2, <2>3 DEF StartReply, TypeOK, AttemptsLeft, managerVars, loopVars
<1>8. ASSUME NEW w \in Worker, InitDone(w)
      PROVE  TypeInv'
  <2>1. PICK l \in Caller(w) :
          /\ Reply(w, "ok")
          /\ Post({w}, "bootstrap")
          /\ loopPc' = [loopPc EXCEPT ![l] = "bootstrap"]
          /\ UNCHANGED <<managerVars, loopWorker, loopAttempt, spawned, life, startVars>>
    BY <1>8 DEF InitDone
  <2>2. inbox' \in [Worker -> Seq(Event)]
    BY <2>1, TakeType DEF Reply
  <2>3. call' \in [Worker -> {"none", "init", "bootstrap"}]
    BY <2>1, PostType
  <2>4. QED
    BY <2>1, <2>2, <2>3 DEF TypeOK, AttemptsLeft, managerVars, startVars, LoopPlace, Caller
<1>9. ASSUME NEW w \in Worker, BootstrapDone(w)
      PROVE  TypeInv'
  <2>1. PICK l \in Caller(w) :
          /\ Reply(w, "ok")
          /\ workers' = [workers EXCEPT ![l[1]] = w]
          /\ EndLoop(l)
          /\ UNCHANGED <<destroying, spawned, life, call, startVars>>
    BY <1>9 DEF BootstrapDone
  <2>2. inbox' \in [Worker -> Seq(Event)]
    BY <2>1, TakeType DEF Reply
  <2>3. workers' \in [Slot -> Worker \cup {NoWorker}]
    BY <2>1 DEF TypeOK
  <2>4. QED
    BY <2>1, <2>2, <2>3, EndLoopType DEF TypeOK, startVars, Caller
<1>10. ASSUME NEW w \in Worker, AttemptFailed(w)
       PROVE  TypeInv'
  <2>1. PICK l \in Caller(w) :
          /\ Reply(w, "err")
          /\ IF MayRetry(l)
             THEN /\ loopPc' = [loopPc EXCEPT ![l] = "delay"]
                  /\ loopWorker' = [loopWorker EXCEPT ![l] = NoWorker]
                  /\ UNCHANGED <<loopAttempt, reviving>>
             ELSE EndLoop(l)
          /\ UNCHANGED <<workers, destroying, spawned, life, call, startVars>>
    BY <1>10 DEF AttemptFailed
  <2>2. inbox' \in [Worker -> Seq(Event)]
    BY <2>1, TakeType DEF Reply
  <2>3. CASE MayRetry(l)
    BY <2>1, <2>2, <2>3 DEF MayRetry, TypeOK, AttemptsLeft, startVars, LoopPlace, Caller
  <2>4. CASE ~MayRetry(l)
    BY <2>1, <2>2, <2>4, EndLoopType DEF TypeOK, startVars, Caller
  <2>5. QED
    BY <2>3, <2>4
<1>11. ASSUME NEW l \in Loop, Attempt(l)
       PROVE  TypeInv'
  <2> DEFINE w == <<l[1], spawned[l[1]] + 1>>
  <2>1. l[1] \in Slot /\ w \in Worker /\ loopAttempt[l] + 1 \in 0 .. NumOfAttempts
    BY <1>11, BoundAssumption DEF Attempt, MayAttempt, TypeOK, AttemptsLeft, Loop
  <2>2. spawned' \in [Slot -> 1 .. MaxSpawns]
    BY <1>11, <2>1 DEF Attempt, TypeOK, Worker
  <2>3. QED
    BY <1>11, <2>1, <2>2
       DEF Attempt, TypeOK, AttemptsLeft, LoopPlace, managerVars, startVars
<1>12. ASSUME NEW l \in Loop, AttemptDestroying(l)
       PROVE  TypeInv'
  BY <1>12, EndLoopType DEF AttemptDestroying, TypeOK, workerVars, startVars
<1>13. CASE Destroy
  <2>1. \A v \in Worker : Append(inbox[v], "close") \in Seq(Event)
    BY DEF TypeOK, Event, CrashEvent
  <2>2. inbox' \in [Worker -> Seq(Event)]
    BY <1>13, <2>1 DEF Destroy, TypeOK
  <2>3. QED
    BY <1>13, <2>2
       DEF Destroy, LifeAfter, CallAfter, TypeOK, AttemptsLeft, loopVars, startVars
<1>14. QED
  BY <1>1, <1>2, <1>3, <1>4, <1>5, <1>6, <1>7, <1>8, <1>9, <1>10, <1>11, <1>12, <1>13
     DEF Next, Deliver, EndOfDelay

THEOREM TypeSafety == Spec => []TypeInv
BY TypeInit, TypeStep, PTL DEF Spec

(* Every variable keeps its type; for the counter of attempts that is the   *)
(* promise that a revival makes at most NumOfAttempts starts.               *)
THEOREM TypeCorrect == Spec => []TypeOK
<1>1. TypeInv => TypeOK
  BY DEF TypeInv
<1>2. QED
  BY <1>1, TypeSafety, PTL

-----------------------------------------------------------------------------
(* destroy() and the workers of the constructor: a live one is in its slot, *)
(* because a revival never puts its own worker over it.                     *)

StartersInPlace ==
  \A w \in Worker : ~Revived(w) /\ life[w] = "alive" => workers[Home(w)] = w

PlaceInv == TypeInv /\ RevivalInv /\ StartersInPlace

LEMMA PlaceInit == Init => StartersInPlace
BY DEF Init, StartersInPlace, Worker, Revived, Home

LEMMA PlaceStep == PlaceInv /\ [Next]_vars => StartersInPlace'
<1> SUFFICES ASSUME PlaceInv, [Next]_vars PROVE StartersInPlace'
  OBVIOUS
<1> USE DEF PlaceInv, TypeInv, TypeOK, StartersInPlace
<1>u. UNCHANGED <<workers, life>> => StartersInPlace'
  OBVIOUS
<1>1. CASE UNCHANGED vars
  BY <1>1, <1>u DEF vars, managerVars, workerVars
<1>2. ASSUME NEW w \in Worker,
             \/ Answer(w, "ok") \/ Answer(w, "err") \/ Garble(w) \/ IgnoreCrash(w)
             \/ StartReply(w) \/ DropReply(w) \/ InitDone(w) \/ AttemptFailed(w)
      PROVE  StartersInPlace'
  BY <1>2, <1>u DEF Answer, Garble, IgnoreCrash, StartReply, DropReply, InitDone,
                    AttemptFailed, managerVars
<1>3. ASSUME NEW w \in Worker, Throw(w) \/ Quit(w)
      PROVE  StartersInPlace'
  BY <1>3 DEF Throw, Quit, Die, managerVars
<1>4. ASSUME NEW w \in Worker, HandleCrash(w)
      PROVE  StartersInPlace'
  <2>1. /\ life' = LifeAfter(Occupants({Home(w)}))
        /\ workers' = [workers EXCEPT ![Home(w)] = NoWorker]
    BY <1>4 DEF HandleCrash, Vacate
  <2>2. Home(w) \in Slot
    BY DEF Home, Worker
  <2>3. SUFFICES ASSUME NEW v \in Worker, ~Revived(v), life'[v] = "alive"
                 PROVE  workers'[Home(v)] = v
    BY DEF Revived, Home
  <2>4. life[v] = "alive" /\ v \notin Occupants({Home(w)})
    BY <2>1, <2>3 DEF LifeAfter
  <2>5. workers[Home(v)] = v /\ Home(v) \in Slot
    BY <2>3, <2>4 DEF Home, Worker
  <2>6. Home(v) # Home(w)
    BY <2>4, <2>5, BoundAssumption DEF Occupants
  <2>7. QED
    BY <2>1, <2>2, <2>5, <2>6
<1>5. ASSUME NEW w \in Worker, BootstrapDone(w)
      PROVE  StartersInPlace'
  <2>1. PICK l \in Caller(w) : workers' = [workers EXCEPT ![l[1]] = w] /\ UNCHANGED life
    BY <1>5 DEF BootstrapDone
  <2>2. l \in Loop /\ Active(l)
    BY CallerIsActive
  <2>3. l[1] \in Slot /\ workers[l[1]] = NoWorker
    <3>1. PICK s \in Slot, k \in {1, 2} : l = <<s, k>>
      BY <2>2 DEF Loop
    <3>2. workers[s] = NoWorker
      BY <2>2, <3>1 DEF RevivalInv, OneRevivalPerSlot
    <3>3. QED
      BY <3>1, <3>2
  <2>4. QED
    BY <2>1, <2>3, BoundAssumption
<1>6. ASSUME NEW l \in Loop, Attempt(l)
      PROVE  StartersInPlace'
  <2>1. Revived(<<l[1], spawned[l[1]] + 1>>)
    BY <1>6 DEF Attempt, Revived, Loop
  <2>2. QED
    BY <1>6, <2>1 DEF Attempt, managerVars
<1>7. ASSUME NEW l \in Loop, AttemptDestroying(l)
      PROVE  StartersInPlace'
  BY <1>7, <1>u DEF AttemptDestroying, workerVars
<1>8. CASE Destroy
  BY <1>8 DEF Destroy, LifeAfter
<1>9. QED
  BY <1>1, <1>2, <1>3, <1>4, <1>5, <1>6, <1>7, <1>8 DEF Next, Deliver, EndOfDelay

LEMMA DestroyStep ==
  PlaceInv /\ [Next]_vars =>
    [~destroying /\ destroying' =>
       \A w \in Worker : life'[w] = "alive" => Revived(w) /\ w \notin Occupants(Slot)]_vars
<1> SUFFICES ASSUME PlaceInv, Next, ~destroying, destroying', NEW w \in Worker,
                    life'[w] = "alive"
             PROVE  Revived(w) /\ w \notin Occupants(Slot)
  OBVIOUS
<1>1. Destroy
  BY DEF Next, Answer, Throw, Quit, Die, Garble, Deliver, HandleCrash, IgnoreCrash,
         StartReply, DropReply, InitDone, BootstrapDone, AttemptFailed, EndOfDelay, Attempt,
         AttemptDestroying, managerVars
<1>2. life[w] = "alive" /\ w \notin Occupants(Slot)
  BY <1>1 DEF Destroy, LifeAfter
<1>3. Home(w) \in Slot
  BY DEF Home, Worker
<1>4. Revived(w)
  BY <1>2, <1>3, BoundAssumption DEF PlaceInv, StartersInPlace, Occupants
<1>5. QED
  BY <1>2, <1>4

(* For every number of slots and whatever crashes and revivals came before, *)
(* destroy() leaves alive only workers of revivals that are not complete.   *)
THEOREM DestroyLeavesOnlyRevivals == Spec => DestroyStopsOccupants
<1>1. Spec => []PlaceInv
  <2>1. PlaceInv <=> TypeInv /\ RevivalInv /\ StartersInPlace
    BY DEF PlaceInv
  <2>2. QED
    BY <2>1, TypeInit, TypeStep, RevivalInit, RevivalStep, PlaceInit, PlaceStep, PTL DEF Spec
<1>2. QED
  BY <1>1, DestroyStep, PTL DEF Spec, DestroyStopsOccupants

-----------------------------------------------------------------------------
(* A dead worker in a slot.  Its `close` is the last of its events, whatever *)
(* replies it has sent before, and to take it empties the slot that the     *)
(* worker was made for, which is the slot it is in.  So a worker that is    *)
(* dead when its revival puts it in the slot still has events to come.      *)

HomesKept ==
  /\ \A s \in Slot : workers[s] # NoWorker => Home(workers[s]) = s
  /\ \A l \in Loop : loopWorker[l] # NoWorker => Home(loopWorker[l]) = l[1]

ClosesLast(q) == q # << >> => q[Len(q)] = "close"

CloseIsLast ==
  \A w \in Worker : /\ life[w] = "dead" => ClosesLast(inbox[w])
                    /\ life[w] = "unborn" => inbox[w] = << >>

DeadIsPending ==
  \A s \in Slot : workers[s] # NoWorker /\ life[workers[s]] = "dead" /\ ~destroying
                    => inbox[workers[s]] # << >>

NoticeInv == HomesKept /\ CloseIsLast /\ DeadIsPending

LEMMA NoticeInit == Init => NoticeInv
<1> SUFFICES ASSUME Init PROVE NoticeInv
  OBVIOUS
<1>1. /\ \A s \in Slot : workers[s] = <<s, 1>> /\ <<s, 1>> \in Worker
      /\ \A l \in Loop : loopWorker[l] = NoWorker
      /\ \A w \in Worker : life[w] # "dead" /\ inbox[w] = << >>
  BY BoundAssumption DEF Init, Worker
<1>2. HomesKept
  <2>1. \A s \in Slot : Home(<<s, 1>>) = s
    BY DEF Home
  <2>2. QED
    BY <1>1, <2>1 DEF HomesKept
<1>3. CloseIsLast
  BY <1>1 DEF CloseIsLast, ClosesLast
<1>4. DeadIsPending
  BY <1>1 DEF DeadIsPending
<1>5. QED
  BY <1>2, <1>3, <1>4 DEF NoticeInv

LEMMA ClosesLastTail ==
  ASSUME NEW q \in Seq(Event), q # << >>, ClosesLast(q)
  PROVE  ClosesLast(Tail(q))
BY DEF ClosesLast

LEMMA ClosesLastAppend ==
  ASSUME NEW q \in Seq(Event)
  PROVE  ClosesLast(Append(q, "close")) /\ Append(q, "close") # << >>
BY DEF ClosesLast

(* An event that is not the last `close` leaves one behind it. *)
LEMMA PendingTail ==
  ASSUME NEW q \in Seq(Event), q # << >>, ClosesLast(q), Head(q) # "close"
  PROVE  Tail(q) # << >>
BY DEF ClosesLast

(* The queues and the threads after an event of w and the end of `killed`. *)
LEMMA TakeNotice ==
  ASSUME TypeOK, CloseIsLast, NEW w \in Worker, inbox[w] # << >>, NEW killed \in SUBSET Worker,
         inbox' = InboxAfter(w, killed), life' = LifeAfter(killed)
  PROVE  /\ CloseIsLast'
         /\ \A v \in Worker \ (killed \cup {w}) : inbox'[v] = inbox[v] /\ life'[v] = life[v]
<1>1. ASSUME NEW v \in Worker
      PROVE  /\ life'[v] = "dead" => ClosesLast(inbox'[v])
             /\ life'[v] = "unborn" => inbox'[v] = << >>
  <2> DEFINE rest == IF v = w THEN Tail(inbox[v]) ELSE inbox[v]
  <2>1. inbox[v] \in Seq(Event) /\ rest \in Seq(Event)
    BY DEF TypeOK
  <2>7. life[v] \in {"unborn", "alive", "dead"} /\ life'[v] = IF v \in killed THEN "dead" ELSE life[v]
    BY DEF TypeOK, LifeAfter
  <2>2. inbox'[v] = IF v \in killed /\ life[v] = "alive" THEN Append(rest, "close") ELSE rest
    BY DEF InboxAfter
  <2> HIDE DEF rest
  <2>3. CASE life[v] = "alive"
    BY <2>1, <2>2, <2>3, <2>7, ClosesLastAppend
  <2>4. CASE life[v] = "dead"
    <3>1. ClosesLast(rest)
      BY <2>1, <2>4, ClosesLastTail DEF CloseIsLast, rest
    <3>2. QED
      BY <2>2, <2>4, <2>7, <3>1
  <2>5. CASE life[v] = "unborn"
    <3>1. inbox[v] = << >> /\ v # w
      BY <2>5 DEF CloseIsLast
    <3>2. inbox'[v] = << >>
      BY <2>2, <2>5, <3>1 DEF rest
    <3>3. QED
      BY <2>5, <2>7, <3>2 DEF ClosesLast
  <2>6. QED
    BY <2>3, <2>4, <2>5, <2>7
<1>2. QED
  BY <1>1 DEF CloseIsLast, InboxAfter, LifeAfter

(* Events that a thread sends while it lives. *)
LEMMA SendNotice ==
  ASSUME TypeOK, NoticeInv, NEW w \in Worker, life[w] = "alive", NEW q, inbox' = [inbox EXCEPT ![w] = q],
         \/ UNCHANGED life
         \/ life' = [life EXCEPT ![w] = "dead"] /\ ClosesLast(q) /\ q # << >>,
         UNCHANGED <<managerVars, loopVars>>
  PROVE  NoticeInv'
<1>1. /\ inbox'[w] = q /\ (life'[w] = "alive" \/ (life'[w] = "dead" /\ ClosesLast(q) /\ q # << >>))
      /\ \A v \in Worker \ {w} : inbox'[v] = inbox[v] /\ life'[v] = life[v]
  BY DEF TypeOK
<1>2. HomesKept'
  BY DEF NoticeInv, HomesKept, managerVars, loopVars
<1>3. CloseIsLast'
  BY <1>1 DEF NoticeInv, CloseIsLast
<1>4. DeadIsPending'
  BY <1>1 DEF NoticeInv, DeadIsPending, managerVars, TypeOK
<1>5. QED
  BY <1>2, <1>3, <1>4 DEF NoticeInv

(* A reply that is taken, with the workers and the homes of their revivals  *)
(* as they were.                                                            *)
LEMMA ReplyNotice ==
  ASSUME TypeOK, NoticeInv, NEW w \in Worker, NEW reply \in {"ok", "err"}, Reply(w, reply), UNCHANGED life
  PROVE  /\ CloseIsLast'
         /\ \A v \in Worker : life'[v] = "dead" /\ inbox[v] # << >> => inbox'[v] # << >>
<1>1. /\ inbox[w] \in Seq(Event) /\ inbox[w] # << >> /\ Head(inbox[w]) # "close"
      /\ inbox' = InboxAfter(w, {}) /\ life' = LifeAfter({})
  BY DEF Reply, TypeOK, LifeAfter
<1>2. CloseIsLast'
  BY <1>1, TakeNotice DEF NoticeInv
<1>3. life[w] = "dead" => Tail(inbox[w]) # << >>
  BY <1>1, PendingTail DEF NoticeInv, CloseIsLast
<1>4. QED
  BY <1>1, <1>2, <1>3 DEF InboxAfter, LifeAfter

LEMMA NoticeStep == TypeInv /\ NoticeInv /\ [Next]_vars => NoticeInv'
<1> SUFFICES ASSUME TypeInv, NoticeInv, [Next]_vars PROVE NoticeInv'
  OBVIOUS
<1>0. TypeOK
  BY DEF TypeInv
<1>1. CASE UNCHANGED vars
  BY <1>1 DEF vars, managerVars, loopVars, workerVars, NoticeInv, HomesKept, CloseIsLast, DeadIsPending
<1>2. ASSUME NEW w \in Worker, NEW reply, Answer(w, reply)
      PROVE  NoticeInv'
  BY <1>0, <1>2, SendNotice DEF Answer
<1>3. ASSUME NEW w \in Worker, Throw(w) \/ Quit(w)
      PROVE  NoticeInv'
  <2>1. PICK q : /\ life[w] = "alive"
                 /\ inbox' = [inbox EXCEPT ![w] = q] /\ life' = [life EXCEPT ![w] = "dead"]
                 /\ ClosesLast(q) /\ q # << >>
                 /\ UNCHANGED <<managerVars, loopVars>>
    <3>1. inbox[w] \in Seq(Event)
      BY <1>0 DEF TypeOK
    <3>2. ClosesLast(inbox[w] \o <<"close">>) /\ inbox[w] \o <<"close">> # << >>
      BY <3>1 DEF ClosesLast
    <3>3. ClosesLast(inbox[w] \o <<"error", "close">>) /\ inbox[w] \o <<"error", "close">> # << >>
      BY <3>1 DEF ClosesLast
    <3>4. QED
      BY <1>3, <3>2, <3>3 DEF Throw, Quit, Die
  <2>2. QED
    BY <1>0, <2>1, SendNotice
<1>4. ASSUME NEW w \in Worker, Garble(w)
      PROVE  NoticeInv'
  BY <1>0, <1>4, SendNotice DEF Garble
<1>5. ASSUME NEW w \in Worker, HandleCrash(w)
      PROVE  NoticeInv'
  <2> DEFINE s == Home(w)
             killed == Occupants({s})
  <2>1. s \in Slot /\ killed \in SUBSET Worker /\ inbox[w] # << >>
    BY <1>0, <1>5, OccupantsType DEF HandleCrash, Home, Worker
  <2>2. /\ workers' = [workers EXCEPT ![s] = NoWorker] /\ UNCHANGED <<loopWorker, destroying>>
        /\ inbox' = InboxAfter(w, killed) /\ life' = LifeAfter(killed)
    BY <1>5 DEF HandleCrash, Vacate, reviveWorker, StartLoop, loopVars
  <2>3. /\ CloseIsLast'
        /\ \A v \in Worker \ (killed \cup {w}) : inbox'[v] = inbox[v] /\ life'[v] = life[v]
    BY <1>0, <2>1, <2>2, TakeNotice DEF NoticeInv
  <2>4. HomesKept'
    BY <1>0, <2>1, <2>2 DEF NoticeInv, HomesKept, TypeOK
  <2>5. ASSUME NEW t \in Slot, workers'[t] # NoWorker
        PROVE  t # s /\ workers'[t] = workers[t] /\ workers[t] \in Worker \ (killed \cup {w})
    <3>1. t # s /\ workers'[t] = workers[t] /\ workers[t] \in Worker
      BY <1>0, <2>1, <2>2, <2>5 DEF TypeOK
    <3>2. Home(workers[t]) = t
      BY <2>5, <3>1 DEF NoticeInv, HomesKept
    <3>3. \A v \in killed : v = workers[s] /\ Home(v) = s
      BY <2>1 DEF Occupants, NoticeInv, HomesKept
    <3>4. QED
      BY <3>1, <3>2, <3>3
  <2>6. DeadIsPending'
    <3>1. SUFFICES ASSUME NEW t \in Slot, workers'[t] # NoWorker, life'[workers'[t]] = "dead", ~destroying
                   PROVE  inbox'[workers'[t]] # << >>
      BY <2>2 DEF DeadIsPending
    <3>2. /\ workers'[t] = workers[t]
          /\ inbox'[workers[t]] = inbox[workers[t]] /\ life'[workers[t]] = life[workers[t]]
      BY <2>3, <2>5, <3>1
    <3>3. QED
      BY <3>1, <3>2 DEF NoticeInv, DeadIsPending
  <2>7. QED
    BY <2>3, <2>4, <2>6 DEF NoticeInv
<1>6. ASSUME NEW w \in Worker, IgnoreCrash(w)
      PROVE  NoticeInv'
  <2>1. inbox' = InboxAfter(w, {}) /\ life' = LifeAfter({}) /\ inbox[w] # << >> /\ destroying'
    BY <1>0, <1>6 DEF IgnoreCrash, LifeAfter, TypeOK, managerVars
  <2>2. CloseIsLast'
    BY <1>0, <2>1, TakeNotice DEF NoticeInv
  <2>3. HomesKept'
    BY <1>6 DEF IgnoreCrash, NoticeInv, HomesKept, managerVars, loopVars
  <2>4. QED
    BY <2>1, <2>2, <2>3 DEF NoticeInv, DeadIsPending
<1>7. ASSUME NEW w \in Worker, StartReply(w) \/ DropReply(w) \/ InitDone(w) \/ BootstrapDone(w) \/ AttemptFailed(w)
      PROVE  NoticeInv'
  <2>1. PICK reply \in {"ok", "err"} : Reply(w, reply)
    BY <1>7 DEF StartReply, DropReply, InitDone, BootstrapDone, AttemptFailed
  <2>2. UNCHANGED <<life, destroying>>
    BY <1>7 DEF StartReply, DropReply, InitDone, BootstrapDone, AttemptFailed, managerVars
  <2>3. /\ CloseIsLast'
        /\ \A v \in Worker : life'[v] = "dead" /\ inbox[v] # << >> => inbox'[v] # << >>
    BY <1>0, <2>1, <2>2, ReplyNotice
  <2>4. CASE ~BootstrapDone(w)
    <3>1. UNCHANGED workers
      BY <1>7, <2>4 DEF StartReply, DropReply, InitDone, AttemptFailed, managerVars
    <3>2. \A l \in Loop : loopWorker'[l] \in {loopWorker[l], NoWorker}
      BY <1>0, <1>7, <2>4 DEF StartReply, DropReply, InitDone, AttemptFailed, EndLoop, loopVars, TypeOK, Caller
    <3>3. HomesKept' /\ DeadIsPending'
      BY <1>0, <2>2, <2>3, <3>1, <3>2 DEF NoticeInv, HomesKept, DeadIsPending, TypeOK
    <3>4. QED
      BY <2>3, <3>3 DEF NoticeInv
  <2>5. CASE BootstrapDone(w)
    <3>1. PICK l \in Loop : /\ loopWorker[l] = w /\ workers' = [workers EXCEPT ![l[1]] = w]
                            /\ \A k \in Loop : loopWorker'[k] \in {loopWorker[k], NoWorker}
                            /\ Reply(w, "ok")
      BY <1>0, <2>5 DEF BootstrapDone, Caller, EndLoop, TypeOK
    <3>2. l[1] \in Slot /\ Home(w) = l[1]
      BY <3>1, BoundAssumption DEF NoticeInv, HomesKept, Loop
    <3>3. /\ workers'[l[1]] = w
          /\ \A s \in Slot \ {l[1]} : workers'[s] = workers[s]
      BY <1>0, <3>1, <3>2 DEF TypeOK
    <3>4. HomesKept'
      BY <1>0, <3>1, <3>2, <3>3 DEF NoticeInv, HomesKept, TypeOK
    <3>5. life'[w] = "dead" => inbox'[w] # << >>
      BY <2>3, <3>1 DEF Reply
    <3>6. DeadIsPending'
      BY <1>0, <2>2, <2>3, <3>3, <3>5 DEF NoticeInv, DeadIsPending, TypeOK
    <3>7. QED
      BY <2>3, <3>4, <3>6 DEF NoticeInv
  <2>6. QED
    BY <2>4, <2>5
<1>8. ASSUME NEW l \in Loop, Attempt(l)
      PROVE  NoticeInv'
  <2> DEFINE w == <<l[1], spawned[l[1]] + 1>>
  <2>1. /\ w \in Worker /\ life' = [life EXCEPT ![w] = "alive"] /\ UNCHANGED <<managerVars, inbox>>
        /\ loopWorker' = [loopWorker EXCEPT ![l] = w] /\ Home(w) = l[1]
    BY <1>8 DEF Attempt, Home
  <2> HIDE DEF w
  <2>2. life'[w] = "alive" /\ \A v \in Worker \ {w} : life'[v] = life[v]
    BY <1>0, <2>1 DEF TypeOK
  <2>3. HomesKept'
    BY <1>0, <2>1 DEF NoticeInv, HomesKept, managerVars, TypeOK
  <2>4. CloseIsLast'
    BY <2>1, <2>2 DEF NoticeInv, CloseIsLast
  <2>5. DeadIsPending'
    BY <1>0, <2>1, <2>2 DEF NoticeInv, DeadIsPending, managerVars, TypeOK
  <2>6. QED
    BY <2>3, <2>4, <2>5 DEF NoticeInv
<1>9. ASSUME NEW l \in Loop, AttemptDestroying(l)
      PROVE  NoticeInv'
  <2>1. destroying' /\ UNCHANGED <<workers, life, inbox>> /\ \A k \in Loop : loopWorker'[k] \in {loopWorker[k], NoWorker}
    BY <1>0, <1>9 DEF AttemptDestroying, EndLoop, workerVars, TypeOK
  <2>2. QED
    BY <2>1 DEF NoticeInv, HomesKept, CloseIsLast, DeadIsPending
<1>10. CASE Destroy
  <2> DEFINE killed == Occupants(Slot)
  <2>1. /\ destroying' /\ UNCHANGED <<workers, loopWorker>> /\ life' = LifeAfter(killed)
        /\ \A v \in Worker : inbox'[v] = IF v \in killed /\ life[v] = "alive" THEN Append(inbox[v], "close") ELSE inbox[v]
    BY <1>10 DEF Destroy, loopVars
  <2> HIDE DEF killed
  <2>2. CloseIsLast'
    <3>1. SUFFICES ASSUME NEW v \in Worker
                   PROVE  /\ life'[v] = "dead" => ClosesLast(inbox'[v])
                          /\ life'[v] = "unborn" => inbox'[v] = << >>
      BY DEF CloseIsLast
    <3>2. inbox[v] \in Seq(Event) /\ life'[v] = IF v \in killed THEN "dead" ELSE life[v]
      BY <1>0, <2>1 DEF TypeOK, LifeAfter
    <3>3. CASE life[v] = "alive"
      BY <2>1, <3>2, <3>3, ClosesLastAppend
    <3>4. CASE life[v] # "alive"
      BY <1>0, <2>1, <3>2, <3>4 DEF NoticeInv, CloseIsLast, ClosesLast, TypeOK
    <3>5. QED
      BY <3>3, <3>4
  <2>3. QED
    BY <2>1, <2>2 DEF NoticeInv, HomesKept, DeadIsPending
<1>11. QED
  BY <1>1, <1>2, <1>3, <1>4, <1>5, <1>6, <1>7, <1>8, <1>9, <1>10 DEF Next, Deliver, EndOfDelay

(* For every number of slots, faults and workers: until destroy(), a dead   *)
(* worker in a slot has its `close` still to come, however late the replies *)
(* of its revival are taken.                                                *)
THEOREM DeadOccupantNoticed == Spec => []DeadOccupantIsNoticed
<1>1. TypeInv /\ NoticeInv => DeadOccupantIsNoticed
  <2> SUFFICES ASSUME TypeInv, NoticeInv, NEW s \in Slot,
                      workers[s] # NoWorker, life[workers[s]] = "dead", ~destroying
               PROVE  \E i \in 1 .. Len(inbox[workers[s]]) : inbox[workers[s]][i] = "close"
    BY DEF DeadOccupantIsNoticed
  <2> DEFINE q == inbox[workers[s]]
  <2>1. workers[s] \in Worker /\ q \in Seq(Event) /\ q # << >> /\ q[Len(q)] = "close"
    BY DEF TypeInv, TypeOK, NoticeInv, DeadIsPending, CloseIsLast, ClosesLast
  <2> HIDE DEF q
  <2>2. Len(q) \in 1 .. Len(q)
    BY <2>1
  <2>3. QED
    BY <2>1, <2>2 DEF q
<1>2. QED
  BY <1>1, NoticeInit, NoticeStep, TypeInit, TypeStep, PTL DEF Spec

-----------------------------------------------------------------------------
(* For every number of slots and attempts: a slot is left without a worker  *)
(* and without a revival only by a revival that has made NumOfAttempts      *)
(* starts, or after destroy().                                              *)
THEOREM ExhaustionGivesUp == Spec => OnlyExhaustionGivesUp
<1> DEFINE Given(s) == Manned(s) /\ ~Manned(s)' =>
                         destroying \/ \E k \in {1, 2} : loopAttempt[<<s, k>>] = NumOfAttempts
<1>1. TypeInv /\ [Next]_vars => [\A s \in Slot : Given(s)]_vars
  <2> SUFFICES ASSUME TypeOK, Next, NEW s \in Slot, Manned(s), ~Manned(s)', ~destroying
               PROVE  \E k \in {1, 2} : loopAttempt[<<s, k>>] = NumOfAttempts
    BY DEF TypeInv
  <2>1. ASSUME NEW w \in Worker, HandleCrash(w) PROVE FALSE
    <3>1. Home(w) \in Slot /\ workers' = [workers EXCEPT ![Home(w)] = NoWorker] /\ Home(w) \in reviving'
      BY <2>1 DEF HandleCrash, Vacate, reviveWorker, Home, Worker
    <3>2. s # Home(w) => workers'[s] = workers[s] /\ (s \in reviving => s \in reviving')
      BY <2>1, <3>1 DEF HandleCrash, reviveWorker, TypeOK
    <3>3. QED
      BY <3>1, <3>2 DEF Manned
  <2>2. ASSUME NEW w \in Worker, BootstrapDone(w) PROVE FALSE
    <3>1. PICK l \in Loop : workers' = [workers EXCEPT ![l[1]] = w] /\ reviving' = reviving \ {l[1]}
      BY <2>2 DEF BootstrapDone, Caller, EndLoop
    <3>2. QED
      BY <3>1, BoundAssumption DEF Manned, TypeOK
  <2>3. ASSUME NEW w \in Worker, AttemptFailed(w)
        PROVE  \E k \in {1, 2} : loopAttempt[<<s, k>>] = NumOfAttempts
    <3>1. PICK l \in Loop : /\ MayRetry(l) => UNCHANGED reviving
                            /\ ~MayRetry(l) => reviving' = reviving \ {l[1]}
                            /\ UNCHANGED workers
      BY <2>3 DEF AttemptFailed, Caller, EndLoop
    <3>2. ~MayRetry(l) /\ l[1] = s
      BY <3>1 DEF Manned
    <3>3. loopAttempt[l] = NumOfAttempts
      BY <3>2, BoundAssumption DEF MayRetry, TypeOK
    <3>4. QED
      BY <3>2, <3>3 DEF Loop
  <2>4. CASE Destroy
    BY <2>4 DEF Destroy, Manned
  <2>5. ASSUME NEW l \in Loop, AttemptDestroying(l) PROVE FALSE
    BY <2>5 DEF AttemptDestroying
  <2>6. ASSUME UNCHANGED <<workers, reviving>> PROVE FALSE
    BY <2>6 DEF Manned
  <2>7. QED
    BY <2>1, <2>2, <2>3, <2>4, <2>5, <2>6
       DEF Next, Deliver, EndOfDelay, Answer, Throw, Quit, Die, Garble, IgnoreCrash, StartReply, DropReply,
           InitDone, Attempt, managerVars
<1>2. Spec => [][\A s \in Slot : Given(s)]_vars
  BY <1>1, TypeInit, TypeStep, PTL DEF Spec
<1>3. QED
  BY <1>2 DEF OnlyExhaustionGivesUp
=============================================================================
