--------------------------- MODULE ClusterManager ---------------------------
(***************************************************************************)
(* The cluster of HTTP workers (packages/core/src/cluster): the manager on *)
(* the main thread (cluster-manager.ts), the remote calls it makes         *)
(* (ipc.ts) and the worker threads it starts, replaces and terminates.     *)
(*                                                                         *)
(* The main thread runs one event at a time.  A worker talks to it through *)
(* a queue of events: replies to init and bootstrap, `error`,              *)
(* `messageerror` and `close`.  The listeners know the slot they were made *)
(* for, not the worker that is in it when they run, so what an event does  *)
(* depends on who has taken the slot since.                                *)
(*                                                                         *)
(* handleCrash() and destroy() run in one go: the only thing destroyWorker *)
(* awaits is remote.destroy(), which the proxy does not offer, so the call *)
(* fails at once and terminate() follows.                                  *)
(***************************************************************************)
EXTENDS Naturals, Sequences

CONSTANTS
  Slot,           \* the indices of the array `workers`
  MaxSpawns,      \* bound: how many worker threads a slot may go through
  Faults,         \* which ways to go wrong a worker thread may take
  NoWorker,       \* an `undefined` entry of `workers`
  NumOfAttempts   \* backOff's numOfAttempts (50 in the code)

(* A worker thread is named by its slot and by its turn in it: <<s, 1>> is  *)
(* the one the constructor starts, the later ones come from revivals.       *)
Worker == Slot \X (1 .. MaxSpawns)

Home(w) == w[1]

Revived(w) == w[2] > 1

ASSUME BoundAssumption ==
  /\ MaxSpawns \in Nat \ {0}
  /\ NumOfAttempts \in Nat \ {0}
  /\ Faults \subseteq {"throw", "quit", "garble"}
  /\ NoWorker \notin Worker

VARIABLES
  workers,      \* the array: the worker in each slot
  reviving,     \* the slots that have a revival under way
  destroying,   \* set by destroy(), never cleared
  loopPc,       \* where each revival is
  loopWorker,   \* the worker it has started
  loopAttempt,  \* how many it has started
  spawned,      \* how many threads each slot has gone through
  life,         \* what each worker thread is
  call,         \* the remote call it has received and not answered
  inbox,        \* its events that the main thread has not handled
  phase,        \* where BunnerHttpAdapter.start() is
  awaited       \* the workers whose reply start() waits for

managerVars == <<workers, reviving, destroying>>
loopVars == <<loopPc, loopWorker, loopAttempt>>
workerVars == <<spawned, life, call, inbox>>
startVars == <<phase, awaited>>
vars == <<managerVars, loopVars, workerVars, startVars>>

(* A revival is an asynchronous closure that reviveWorker() launches.  Each *)
(* slot has room for two, one more than `reviving` is meant to allow.       *)
Loop == Slot \X {1, 2}

LoopPlace == {"idle", "delay", "init", "bootstrap"}

Active(l) == loopPc[l] # "idle"

CrashEvent == {"error", "messageerror", "close"}

Event == {"ok", "err"} \cup CrashEvent

TypeOK ==
  /\ workers \in [Slot -> Worker \cup {NoWorker}]
  /\ reviving \in SUBSET Slot
  /\ destroying \in BOOLEAN
  /\ loopPc \in [Loop -> LoopPlace]
  /\ loopWorker \in [Loop -> Worker \cup {NoWorker}]
  /\ loopAttempt \in [Loop -> 0 .. NumOfAttempts]
  /\ spawned \in [Slot -> 1 .. MaxSpawns]
  /\ life \in [Worker -> {"unborn", "alive", "dead"}]
  /\ call \in [Worker -> {"none", "init", "bootstrap"}]
  /\ inbox \in [Worker -> Seq(Event)]
  /\ phase \in {"init", "bootstrap", "running", "failed"}
  /\ awaited \in SUBSET Worker

(* The constructor has started a worker per slot and start() has called     *)
(* init() on each, without giving way to an event in between.               *)
Init ==
  /\ workers = [s \in Slot |-> <<s, 1>>]
  /\ reviving = {}
  /\ destroying = FALSE
  /\ loopPc = [l \in Loop |-> "idle"]
  /\ loopWorker = [l \in Loop |-> NoWorker]
  /\ loopAttempt = [l \in Loop |-> 0]
  /\ spawned = [s \in Slot |-> 1]
  /\ life = [w \in Worker |-> IF Revived(w) THEN "unborn" ELSE "alive"]
  /\ call = [w \in Worker |-> IF Revived(w) THEN "none" ELSE "init"]
  /\ inbox = [w \in Worker |-> << >>]
  /\ phase = "init"
  /\ awaited = {w \in Worker : ~Revived(w)}

-----------------------------------------------------------------------------
(* The worker threads *)

(* expose(): the handler's result or its failure is posted back. *)
Answer(w, reply) ==
  /\ life[w] = "alive"
  /\ call[w] # "none"
  /\ inbox' = [inbox EXCEPT ![w] = Append(@, reply)]
  /\ call' = [call EXCEPT ![w] = "none"]
  /\ UNCHANGED <<managerVars, loopVars, spawned, life, startVars>>

(* The thread ends, with an `error` event if an exception ended it, and a   *)
(* call it had received is never answered.                                  *)
Die(w, events) ==
  /\ life[w] = "alive"
  /\ life' = [life EXCEPT ![w] = "dead"]
  /\ call' = [call EXCEPT ![w] = "none"]
  /\ inbox' = [inbox EXCEPT ![w] = @ \o events]
  /\ UNCHANGED <<managerVars, loopVars, spawned, startVars>>

Throw(w) == "throw" \in Faults /\ Die(w, <<"error", "close">>)

Quit(w) == "quit" \in Faults /\ Die(w, <<"close">>)

(* A message that cannot be deserialised; the thread lives on.  Bound: only *)
(* when its other events have been handled.                                 *)
Garble(w) ==
  /\ "garble" \in Faults
  /\ life[w] = "alive"
  /\ inbox[w] = << >>
  /\ inbox' = [inbox EXCEPT ![w] = <<"messageerror">>]
  /\ UNCHANGED <<managerVars, loopVars, spawned, life, call, startVars>>

-----------------------------------------------------------------------------
(* The main thread *)

(* Definitions named Faulty... are not part of the model: each is a slip     *)
(* that a property of this module would catch in the definition after it.    *)

(* What the queues hold once w's next event is taken and the workers of     *)
(* `killed` are terminated: a live one closes, a dead one already has.      *)
InboxAfter(w, killed) ==
  [v \in Worker |->
     LET rest == IF v = w THEN Tail(inbox[v]) ELSE inbox[v]
     IN  IF v \in killed /\ life[v] = "alive" THEN Append(rest, "close") ELSE rest]

FaultyLifeAfter(killed) == life

LifeAfter(killed) ==
  [v \in Worker |-> IF v \in killed THEN "dead" ELSE life[v]]

CallAfter(killed) ==
  [v \in Worker |-> IF v \in killed THEN "none" ELSE call[v]]

Occupants(slots) == {workers[s] : s \in slots} \ {NoWorker}

FaultyPost(called, method) == UNCHANGED call

(* wrap(): a call posted to a thread that has ended is never answered. *)
Post(called, method) ==
  call' = [v \in Worker |-> IF v \in called /\ life[v] = "alive"
                            THEN method ELSE call[v]]

(* The first of the slot's two loops that is free. *)
FreeLoop(s) == IF Active(<<s, 1>>) THEN <<s, 2>> ELSE <<s, 1>>

FaultyVacate(s) == UNCHANGED workers

Vacate(s) == workers' = [workers EXCEPT ![s] = NoWorker]

StartLoop(l) ==
  /\ ~Active(l)
  /\ loopPc' = [loopPc EXCEPT ![l] = "delay"]
  /\ UNCHANGED <<loopWorker, loopAttempt>>

(* reviveWorker(), with `marked` for the slots in `reviving` at that moment. *)
reviveWorker(s, marked) ==
  /\ reviving' = marked \cup {s}
  /\ IF s \in marked THEN UNCHANGED loopVars ELSE StartLoop(FreeLoop(s))

(* handleCrash(): whoever is in the slot now is terminated, and the slot is *)
(* revived unless a revival is under way.                                   *)
HandleCrash(w) ==
  LET s == Home(w)
      killed == Occupants({s})
  IN
  /\ inbox[w] # << >>
  /\ Head(inbox[w]) \in CrashEvent
  /\ ~destroying
  /\ life' = LifeAfter(killed)
  /\ call' = CallAfter(killed)
  /\ inbox' = InboxAfter(w, killed)
  /\ Vacate(s)
  /\ reviveWorker(s, IF killed = {} THEN reviving ELSE reviving \ {s})
  /\ UNCHANGED <<destroying, spawned, startVars>>

(* After destroy() crashes are not handled any more. *)
IgnoreCrash(w) ==
  /\ inbox[w] # << >>
  /\ Head(inbox[w]) \in CrashEvent
  /\ destroying
  /\ inbox' = InboxAfter(w, {})
  /\ UNCHANGED <<managerVars, loopVars, spawned, life, call, startVars>>

(* The revival whose remote call w was to answer. *)
Caller(w) == {l \in Loop : loopPc[l] \in {"init", "bootstrap"} /\ loopWorker[l] = w}

Reply(w, reply) ==
  /\ inbox[w] # << >>
  /\ Head(inbox[w]) = reply
  /\ inbox' = InboxAfter(w, {})

(* A reply that start() is waiting for: Promise.all goes on after the last, *)
(* and fails with the first failure.                                        *)
StartReply(w) ==
  LET left == awaited \ {w} IN
  /\ w \in awaited
  /\ \/ /\ Reply(w, "err")
        /\ phase' = "failed"
        /\ awaited' = {}
        /\ UNCHANGED call
     \/ /\ Reply(w, "ok")
        /\ left # {}
        /\ awaited' = left
        /\ UNCHANGED <<phase, call>>
     \/ /\ Reply(w, "ok")
        /\ left = {}
        /\ phase = "init"
        /\ awaited' = Occupants(Slot)
        /\ phase' = IF awaited' = {} THEN "running" ELSE "bootstrap"
        /\ Post(awaited', "bootstrap")
     \/ /\ Reply(w, "ok")
        /\ left = {}
        /\ phase = "bootstrap"
        /\ awaited' = {}
        /\ phase' = "running"
        /\ UNCHANGED call
  /\ UNCHANGED <<managerVars, loopVars, spawned, life>>

(* A reply nobody waits for any more. *)
DropReply(w) ==
  /\ w \notin awaited
  /\ Caller(w) = {}
  /\ Reply(w, "ok") \/ Reply(w, "err")
  /\ UNCHANGED <<managerVars, loopVars, spawned, life, call, startVars>>

-----------------------------------------------------------------------------
(* A revival: backOff() around "start a worker, init it, bootstrap it" *)

FaultyEndLoop(l) ==
  /\ loopPc' = [loopPc EXCEPT ![l] = "idle"]
  /\ loopWorker' = [loopWorker EXCEPT ![l] = NoWorker]
  /\ loopAttempt' = [loopAttempt EXCEPT ![l] = 0]
  /\ UNCHANGED reviving

EndLoop(l) ==
  /\ loopPc' = [loopPc EXCEPT ![l] = "idle"]
  /\ loopWorker' = [loopWorker EXCEPT ![l] = NoWorker]
  /\ loopAttempt' = [loopAttempt EXCEPT ![l] = 0]
  /\ reviving' = reviving \ {l[1]}

MayAttempt(l) == loopPc[l] = "delay" /\ ~destroying

(* The delay is over. *)
Attempt(l) ==
  LET w == <<l[1], spawned[l[1]] + 1>> IN
  /\ MayAttempt(l)
  /\ w \in Worker
  /\ spawned' = [spawned EXCEPT ![l[1]] = @ + 1]
  /\ life' = [life EXCEPT ![w] = "alive"]
  /\ call' = [call EXCEPT ![w] = "init"]
  /\ loopPc' = [loopPc EXCEPT ![l] = "init"]
  /\ loopWorker' = [loopWorker EXCEPT ![l] = w]
  /\ loopAttempt' = [loopAttempt EXCEPT ![l] = @ + 1]
  /\ UNCHANGED <<managerVars, inbox, startVars>>

AttemptDestroying(l) ==
  /\ loopPc[l] = "delay"
  /\ destroying
  /\ EndLoop(l)
  /\ UNCHANGED <<workers, destroying, workerVars, startVars>>

InitDone(w) ==
  \E l \in Caller(w) :
    /\ loopPc[l] = "init"
    /\ Reply(w, "ok")
    /\ Post({w}, "bootstrap")
    /\ loopPc' = [loopPc EXCEPT ![l] = "bootstrap"]
    /\ UNCHANGED <<managerVars, loopWorker, loopAttempt, spawned, life, startVars>>

(* The worker takes the slot, whether or not destroy() has run meanwhile. *)
BootstrapDone(w) ==
  \E l \in Caller(w) :
    /\ loopPc[l] = "bootstrap"
    /\ Reply(w, "ok")
    /\ workers' = [workers EXCEPT ![l[1]] = w]
    /\ EndLoop(l)
    /\ UNCHANGED <<destroying, spawned, life, call, startVars>>

FaultyMayRetryInverted(l) == loopAttempt[l] < NumOfAttempts /\ destroying

(* numOfAttempts and the `retry` callback *)
MayRetry(l) == loopAttempt[l] < NumOfAttempts /\ ~destroying

(* The failed worker is let go of without being terminated. *)
AttemptFailed(w) ==
  \E l \in Caller(w) :
    /\ Reply(w, "err")
    /\ IF MayRetry(l)
       THEN /\ loopPc' = [loopPc EXCEPT ![l] = "delay"]
            /\ loopWorker' = [loopWorker EXCEPT ![l] = NoWorker]
            /\ UNCHANGED <<loopAttempt, reviving>>
       ELSE EndLoop(l)
    /\ UNCHANGED <<workers, destroying, spawned, life, call, startVars>>

-----------------------------------------------------------------------------
(* destroy(): terminates whoever is in a slot at that moment. *)
Destroy ==
  LET killed == Occupants(Slot) IN
  /\ destroying' = TRUE
  /\ reviving' = {s \in reviving : workers[s] = NoWorker}
  /\ life' = LifeAfter(killed)
  /\ call' = CallAfter(killed)
  /\ inbox' = [v \in Worker |-> IF v \in killed /\ life[v] = "alive"
                                THEN Append(inbox[v], "close") ELSE inbox[v]]
  /\ UNCHANGED <<workers, loopVars, spawned, startVars>>

-----------------------------------------------------------------------------
(* The main thread takes w's next event. *)
Deliver(w) ==
  \/ HandleCrash(w)
  \/ IgnoreCrash(w)
  \/ StartReply(w)
  \/ DropReply(w)
  \/ InitDone(w)
  \/ BootstrapDone(w)
  \/ AttemptFailed(w)

EndOfDelay(l) == Attempt(l) \/ AttemptDestroying(l)

Next ==
  \/ \E w \in Worker :
       \/ Answer(w, "ok")
       \/ Answer(w, "err")
       \/ Throw(w)
       \/ Quit(w)
       \/ Garble(w)
       \/ Deliver(w)
  \/ \E l \in Loop : EndOfDelay(l)
  \/ Destroy

(* The event loop takes every event in the end, timers run out, and a live  *)
(* worker answers its calls.                                                *)
Fairness ==
  /\ \A w \in Worker : WF_vars(Deliver(w))
  /\ \A w \in Worker : WF_vars(Answer(w, "ok") \/ Answer(w, "err"))
  /\ \A l \in Loop : WF_vars(EndOfDelay(l))

Spec == Init /\ [][Next]_vars /\ Fairness

-----------------------------------------------------------------------------
(* Properties *)

(* A slot is never revived twice at a time, although destroyWorker() drops  *)
(* the slot from `reviving` and any late event of any of its past workers   *)
(* calls reviveWorker() again; and a slot under revival is empty, so the    *)
(* worker that comes out of it replaces nobody.                             *)
OneRevivalPerSlot ==
  \A s \in Slot :
    /\ ~(Active(<<s, 1>>) /\ Active(<<s, 2>>))
    /\ Active(<<s, 1>>) \/ Active(<<s, 2>>) => workers[s] = NoWorker

(* `reviving` holds exactly the slots with a revival under way: no path     *)
(* through crash, failure or destroy() leaves a slot marked with nobody at  *)
(* work on it, which would keep it empty for good.                          *)
RevivingIsExact ==
  reviving = {s \in Slot : Active(<<s, 1>>) \/ Active(<<s, 2>>)}

(* A dead worker sits in a slot only as long as its `close` event is still  *)
(* to be handled: none is put there, or left there, unnoticed.              *)
DeadOccupantIsNoticed ==
  \A s \in Slot :
    workers[s] # NoWorker /\ life[workers[s]] = "dead" /\ ~destroying
      => \E i \in 1 .. Len(inbox[workers[s]]) : inbox[workers[s]][i] = "close"

(* destroy() stops every worker the constructor started, and those of any   *)
(* revival that was complete: what may outlive it is a worker whose revival *)
(* had begun and not ended, or had failed.                                  *)
DestroyStopsOccupants ==
  [][~destroying /\ destroying' =>
       \A w \in Worker : life'[w] = "alive" =>
         Revived(w) /\ w \notin Occupants(Slot)]_vars

(* No worker is started once destroy() has been called. *)
NoSpawnWhileDestroying == [][destroying => spawned' = spawned]_vars

(* A slot loses its worker for good only after NumOfAttempts failed starts. *)
Manned(s) == workers[s] # NoWorker \/ s \in reviving

OnlyExhaustionGivesUp ==
  [][\A s \in Slot : Manned(s) /\ ~Manned(s)' =>
       destroying \/ \E k \in {1, 2} : loopAttempt[<<s, k>>] = NumOfAttempts]_vars

(* An empty slot gets a worker again.  The ways out are destroy(), giving   *)
(* up, and a revival whose worker died with a call unanswered: its promise  *)
(* is never settled, and the slot stays as it is.  MaxSpawns is the bound   *)
(* of the model, not of the code.                                           *)
Stuck(s) ==
  \E k \in {1, 2} :
    LET l == <<s, k>> IN
    /\ loopPc[l] \in {"init", "bootstrap"}
    /\ life[loopWorker[l]] = "dead"

EmptySlotIsFilled ==
  \A s \in Slot :
    workers[s] = NoWorker ~>
      \/ workers[s] # NoWorker
      \/ destroying
      \/ s \notin reviving
      \/ Stuck(s)
      \/ spawned[s] = MaxSpawns

(* start() returns or throws, unless a worker it waits for is dead.         *)
StartSettles ==
  phase \in {"init", "bootstrap"} ~>
    \/ phase \in {"running", "failed"}
    \/ \E w \in awaited : life[w] = "dead"
=============================================================================
