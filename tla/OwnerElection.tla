--------------------------- MODULE OwnerElection ---------------------------
(***************************************************************************)
(* The election of the watcher owner through the lock file                 *)
(* .bunner/cache/watcher.owner.lock (packages/cli/src/watcher/             *)
(* owner-election.ts).  `bunner mcp`, `bunner mcp rebuild` and `bunner     *)
(* dev` all call acquire(); the one that is told "owner" watches and       *)
(* writes.                                                                 *)
(*                                                                         *)
(* Inside one process acquire() and release() run without a pause, but the *)
(* processes share the file, so every system call is a step of its own:    *)
(* the exclusive create, the open-and-truncate and the write inside        *)
(* writeFileSync, the read, the liveness probe kill(pid, 0), the removal.  *)
(* A process may be killed between any two of them, and the system may     *)
(* hand its pid to another program or to a later bunner process.           *)
(*                                                                         *)
(* Pids are taken to have the same number of digits, so that of two writes *)
(* to one file the later replaces the earlier.                             *)
(***************************************************************************)
EXTENDS Naturals

CONSTANTS
  Pid,       \* the pids the operating system hands out
  Absent,    \* there is no lock file
  Blank,     \* the lock file is there and holds no valid pid
  Overlap    \* may several processes be inside acquire() at once?

ASSUME SentinelAssumption ==
  /\ Absent \notin Pid
  /\ Blank \notin Pid
  /\ Absent # Blank

ASSUME OverlapAssumption == Overlap \in BOOLEAN

VARIABLES
  lock,      \* content of the lock file: Absent, Blank or a pid
  attached,  \* processes whose open descriptor is of the file now at that path
  pc,        \* where each process is
  seen,      \* existingPid inside acquire(), ownerPid once it has returned
  attempt    \* the loop counter of acquire(), 0 outside

vars == <<lock, attached, pc, seen, attempt>>

(* Definitions named Faulty... are not part of the model.  Each is a body   *)
(* that a plausible slip would give the definition that follows it; a       *)
(* property is worth checking if TLC refutes it with the slip put in.       *)

(* The bound of acquire()'s loop. *)
MaxAttempts == 3

Acquiring == {"create", "open", "write", "read", "check", "remove", "fallback"}

Releasing == {"releaseRead", "releaseRemove", "released"}

(* "dead": no process has the pid; "foreign": a program that is not bunner. *)
Place == {"dead", "foreign", "owner", "reader"} \cup Acquiring \cup Releasing

(* parsePidFromLock gives null for anything that is not a positive integer. *)
LockContent == Pid \cup {Blank, Absent}

FaultyIsOwnerAlive(q) == pc[q] = "dead"

(* process.kill(pid, 0): a pid some program runs under counts as alive. *)
isOwnerAlive(q) == pc[q] # "dead"

TypeOK ==
  /\ lock \in LockContent
  /\ attached \in SUBSET Pid
  /\ pc \in [Pid -> Place]
  /\ seen \in [Pid -> Pid \cup {Blank}]
  /\ attempt \in [Pid -> 0 .. MaxAttempts]

Init ==
  /\ lock = Absent
  /\ attached = {}
  /\ pc = [p \in Pid |-> "dead"]
  /\ seen = [p \in Pid |-> Blank]
  /\ attempt = [p \in Pid |-> 0]

Goto(p, place) == pc' = [pc EXCEPT ![p] = place]

(* acquire() is over for p: it returned a role and the pid of the owner, or *)
(* the process is gone.                                                     *)
Decide(p, result, ownerPid) ==
  /\ Goto(p, result)
  /\ seen' = [seen EXCEPT ![p] = ownerPid]
  /\ attempt' = [attempt EXCEPT ![p] = 0]

FaultyRetryUncounted(p) == Goto(p, "create") /\ UNCHANGED attempt

(* The end of a pass through the loop that has decided nothing. *)
Retry(p) ==
  /\ attempt' = [attempt EXCEPT ![p] = @ + 1]
  /\ Goto(p, IF attempt[p] + 1 < MaxAttempts THEN "create" ELSE "fallback")

-----------------------------------------------------------------------------
(* acquire() *)

Start(p) ==
  /\ pc[p] = "dead"
  /\ Overlap \/ \A q \in Pid : pc[q] \notin Acquiring
  /\ Goto(p, "create")
  /\ UNCHANGED <<lock, attached, seen, attempt>>

FaultyCreateNotExclusive(p) ==
  /\ pc[p] = "create"
  /\ lock' = Blank
  /\ Goto(p, "open")
  /\ UNCHANGED <<attached, seen, attempt>>

(* openSync(lockPath, 'wx') makes an empty file, or fails with EEXIST. *)
Create(p) ==
  /\ pc[p] = "create"
  /\ \/ /\ lock = Absent
        /\ lock' = Blank
        /\ Goto(p, "open")
     \/ /\ lock # Absent
        /\ Goto(p, "read")
        /\ UNCHANGED lock
  /\ UNCHANGED <<attached, seen, attempt>>

(* writeFileSync(lockPath, ...) opens the path again: it truncates the file *)
(* found there, whoever made it, and makes one if there is none.            *)
OpenForWrite(p) ==
  /\ pc[p] = "open"
  /\ lock' = Blank
  /\ attached' = attached \cup {p}
  /\ Goto(p, "write")
  /\ UNCHANGED <<seen, attempt>>

(* The bytes reach the path only if the opened file is still linked there. *)
WritePid(p) ==
  /\ pc[p] = "write"
  /\ lock' = IF p \in attached THEN p ELSE lock
  /\ attached' = attached \ {p}
  /\ Decide(p, "owner", p)

(* After EEXIST: a file gone meanwhile is retried, one without a valid pid  *)
(* is taken for corrupt, one with a pid has its owner probed.               *)
ReadLock(p) ==
  /\ pc[p] = "read"
  /\ \/ /\ lock = Absent
        /\ Retry(p)
        /\ UNCHANGED seen
     \/ /\ lock # Absent
        /\ seen' = [seen EXCEPT ![p] = lock]
        /\ Goto(p, IF lock = Blank THEN "remove" ELSE "check")
        /\ UNCHANGED attempt
  /\ UNCHANGED <<lock, attached>>

Check(p) ==
  /\ pc[p] = "check"
  /\ \/ /\ isOwnerAlive(seen[p])
        /\ Decide(p, "reader", seen[p])
     \/ /\ ~isOwnerAlive(seen[p])
        /\ Goto(p, "remove")
        /\ UNCHANGED <<seen, attempt>>
  /\ UNCHANGED <<lock, attached>>

(* rmSync(lockPath, { force: true }) removes whatever file is there now. *)
Remove(p) ==
  /\ pc[p] = "remove"
  /\ lock' = Absent
  /\ attached' = {}
  /\ Retry(p)
  /\ UNCHANGED seen

(* After the last attempt the file decides with no probe: no file throws,   *)
(* no valid pid or the own pid makes an owner, any other pid a reader.      *)
Fallback(p) ==
  /\ pc[p] = "fallback"
  /\ \/ lock = Absent           /\ Decide(p, "dead", Blank)
     \/ lock \in {Blank, p}     /\ Decide(p, "owner", p)
     \/ lock \in Pid \ {p}      /\ Decide(p, "reader", lock)
  /\ UNCHANGED <<lock, attached>>

-----------------------------------------------------------------------------
(* release() *)

(* SIGINT in a server or in dev, the end of a rebuild; SIGINT may come twice. *)
BeginRelease(p) ==
  /\ pc[p] \in {"owner", "reader", "released"}
  /\ Goto(p, "releaseRead")
  /\ seen' = [seen EXCEPT ![p] = Blank]
  /\ UNCHANGED <<lock, attached, attempt>>

FaultyReleaseRead(p) ==
  /\ pc[p] = "releaseRead"
  /\ Goto(p, IF lock # Absent THEN "releaseRemove" ELSE "released")
  /\ UNCHANGED <<lock, attached, seen, attempt>>

ReleaseRead(p) ==
  /\ pc[p] = "releaseRead"
  /\ Goto(p, IF lock = p THEN "releaseRemove" ELSE "released")
  /\ UNCHANGED <<lock, attached, seen, attempt>>

ReleaseRemove(p) ==
  /\ pc[p] = "releaseRemove"
  /\ lock' = Absent
  /\ attached' = {}
  /\ Goto(p, "released")
  /\ UNCHANGED <<seen, attempt>>

-----------------------------------------------------------------------------
(* The operating system *)

(* A process exits or is killed, wherever it is; its descriptors close. *)
Exit(p) ==
  /\ pc[p] # "dead"
  /\ Decide(p, "dead", Blank)
  /\ attached' = attached \ {p}
  /\ UNCHANGED lock

(* The pid of a process that ended goes to a program that is not bunner. *)
Recycle(p) ==
  /\ pc[p] = "dead"
  /\ Goto(p, "foreign")
  /\ UNCHANGED <<lock, attached, seen, attempt>>

-----------------------------------------------------------------------------
(* The steps of the code of p, which runs them without being asked. *)
Step(p) ==
  \/ Create(p)
  \/ OpenForWrite(p)
  \/ WritePid(p)
  \/ ReadLock(p)
  \/ Check(p)
  \/ Remove(p)
  \/ Fallback(p)
  \/ ReleaseRead(p)
  \/ ReleaseRemove(p)

Next ==
  \E p \in Pid : Step(p) \/ Start(p) \/ BeginRelease(p) \/ Exit(p) \/ Recycle(p)

Safety == Init /\ [][Next]_vars

(* acquire() and release() are synchronous: once called they run on. *)
Fairness == \A p \in Pid : WF_vars(Step(p))

Spec == Safety /\ Fairness

-----------------------------------------------------------------------------
(* Properties *)

(* There is never more than one owner, so never more than one process that  *)
(* watches and writes: acquire()'s exclusive create and its refusal to take *)
(* over from a live pid.                                                    *)
SingleOwner ==
  \A p, q \in Pid : pc[p] = "owner" /\ pc[q] = "owner" => p = q

(* The lock file names the owner for as long as it is one, so that whoever  *)
(* comes next finds a live pid and whoever probes it probes the right one.  *)
LockNamesOwner == \A p \in Pid : pc[p] = "owner" => lock = p

(* The code after the loop is not reached ("Should be unreachable unless    *)
(* the FS is extremely contended"): two passes decide every election.       *)
FallbackUnreached == \A p \in Pid : pc[p] # "fallback"

(* p's hold on the lock is settled: the file names it, and no process is on *)
(* its way to write the file or to remove it on what it saw earlier.        *)
Settled(p) ==
  /\ pc[p] = "owner"
  /\ lock = p
  /\ \A q \in Pid \ {p} :
       /\ pc[q] \notin {"open", "write", "remove", "releaseRemove"}
       /\ pc[q] = "check" => seen[q] = p

(* A settled owner is deposed by nobody: however many processes then start, *)
(* race, crash or release, it stays settled until it leaves by itself.      *)
SettledOwnerStays ==
  [][\A p \in Pid : Settled(p) => Settled(p)' \/ pc'[p] # "owner"]_vars

(* Every acquire() comes to an end: the bounded loop never spins on a lock  *)
(* file that others keep removing and re-creating.                          *)
AcquireTerminates ==
  \A p \in Pid : pc[p] \in Acquiring ~> pc[p] \notin Acquiring

(* The detailed election keeps the promise of OwnerLease. *)
RoleOf(place) ==
  IF place \in Acquiring THEN "candidate"
  ELSE IF place \in Releasing THEN "former"
  ELSE IF place \in {"owner", "reader"} THEN place
  ELSE "out"

roles == [p \in Pid |-> RoleOf(pc[p])]

Lease == INSTANCE OwnerLease WITH role <- roles

(* Every behaviour of the election is one of the abstract lease: the owner  *)
(* role is handed out only when free, and roles change only as it allows.   *)
ImplementsLease == Lease!Spec
=============================================================================
