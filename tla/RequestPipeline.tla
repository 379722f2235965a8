--------------------------- MODULE RequestPipeline ---------------------------
(***************************************************************************)
(* What happens to one HTTP request (packages/http-adapter): fetch() of    *)
(* bunner-http-server.ts runs the middlewares of the server around         *)
(* handle() of request-handler.ts, which runs those of the container, the  *)
(* route, the handler and, after an exception, the error filters and the   *)
(* system error handler.  All of them are given the same BunnerResponse    *)
(* (bunner-response.ts) and may change it or end it at any point.          *)
(*                                                                         *)
(* The code the user supplies is what it may do: any number of calls on    *)
(* the response, then a return or an exception.  A stage is a list of      *)
(* user functions, called in order and awaited one by one.                 *)
(***************************************************************************)
EXTENDS Naturals

CONSTANTS
  UserStatus,   \* the statuses that user code passes to setStatus()
  MaxItems      \* bound: how many functions of a stage are called

ASSUME StatusAssumption ==
  /\ UserStatus \subseteq Nat \ {0}
  /\ MaxItems \in Nat \ {0}

VARIABLES
  stage,        \* what the request is in
  running,      \* is a user function of the stage running?
  item,         \* how many functions of the stage have been called
  res,          \* the BunnerResponse
  worker,       \* the HttpWorkerResponse that handle() returned
  failed,       \* processingError is set
  systemCalls,  \* calls of the system error handler
  setup,        \* the request's method and what the server was booted with
  events,       \* history: what user code has done to the request
  out           \* what fetch() returned

vars == <<stage, running, item, res, worker, failed, systemCalls, setup, events, out>>

(* The stages in which a middleware that returns false ends the request:    *)
(* those of the server, and those of handle().                              *)
ServerGuard == {"beforeRequest", "afterRequest", "beforeHandler"}

HandleGuard == {"globalBeforeRequest", "scoped"}

Middlewares ==
  ServerGuard \cup HandleGuard
    \cup {"globalBeforeResponse", "globalAfterResponse", "beforeResponse", "afterResponse"}

(* A stage of one function, which runs from the moment it is entered. *)
Single == {"handler", "systemHandler", "lateSystemHandler"}

Stage == Middlewares \cup Single \cup {"parse", "route", "filters", "done"}

Status == UserStatus \cup {0, 200, 204, 301, 500}

Body == {"unset", "user", "error", "empty"}

NotSent == [status |-> 0, body |-> "notSent"]

Sendable == [status : Status, body : Body \ {"unset"}] \cup {NotSent}

BunnerResponse == [status : Status, body : Body, location : BOOLEAN, sent : Sendable]

(* "chosen": user code has set a status, redirected or ended the response;  *)
(* "recovered": it did so after the exception; "refused": a middleware on   *)
(* the way to the handler returned false; "handled": the handler was        *)
(* called; "late": a global beforeResponse middleware threw.                *)
Happening == {"chosen", "recovered", "refused", "handled", "late"}

TypeOK ==
  /\ stage \in Stage
  /\ running \in BOOLEAN
  /\ item \in 0 .. MaxItems
  /\ res \in BunnerResponse
  /\ worker \in Sendable
  /\ failed \in BOOLEAN
  /\ systemCalls \in 0 .. 2
  /\ setup \in [head : BOOLEAN, healthy : BOOLEAN, system : BOOLEAN]
  /\ events \subseteq Happening
  /\ out \in Sendable

(* errorFilterEngineHealthy and systemErrorHandler are settled at boot. *)
Init ==
  /\ stage = "beforeRequest"
  /\ running = FALSE
  /\ item = 0
  /\ res = [status |-> 0, body |-> "unset", location |-> FALSE, sent |-> NotSent]
  /\ worker = NotSent
  /\ failed = FALSE
  /\ systemCalls = 0
  /\ setup \in [head : BOOLEAN, healthy : BOOLEAN, system : BOOLEAN]
  /\ events = {}
  /\ out = NotSent

-----------------------------------------------------------------------------
(* BunnerResponse *)

(* Definitions named Faulty... are not part of the model: each is a slip     *)
(* that a property of this module would catch in the definition after it.    *)

(* build(): the status and body that an unfinished response gets. *)
BuiltStatus(r) ==
  IF r.status # 0 THEN r.status
  ELSE IF r.location THEN 301
  ELSE IF setup.head THEN 200
  ELSE IF r.body = "unset" THEN 204
  ELSE 0

BuiltBody(r) ==
  IF \/ r.location
     \/ setup.head
     \/ r.status \in {204, 304}
     \/ r.status = 0 /\ r.body = "unset"
  THEN "empty" ELSE r.body

(* A body that was never set goes out empty. *)
Built(r) ==
  LET status == BuiltStatus(r)
      body == BuiltBody(r)
  IN  [r EXCEPT !.status = status,
                !.body = body,
                !.sent = [status |-> status, body |-> IF body = "unset" THEN "empty" ELSE body]]

FaultyEnded(r) == Built(r)

(* end() *)
Ended(r) == IF r.sent # NotSent THEN r ELSE Built(r)

FaultyWithDefault(r, allowBody) ==
  IF r.body # "unset" THEN r
  ELSE [r EXCEPT !.status = IF @ = 0 THEN 500 ELSE @,
                 !.body = IF allowBody THEN "error" ELSE @]

(* applyDefaultErrorHandler() *)
WithDefault(r, allowBody) ==
  [r EXCEPT !.status = IF @ = 0 THEN 500 ELSE @,
            !.body = IF allowBody /\ @ = "unset" THEN "error" ELSE @]

(* toResponse(): no status is 200, one out of range is 500. *)
Response(w) ==
  [w EXCEPT !.status = IF @ = 0 THEN 200
                       ELSE IF @ # 101 /\ @ \notin 200 .. 599 THEN 500
                       ELSE @]

-----------------------------------------------------------------------------
(* Going from stage to stage *)

Enter(next) ==
  /\ stage' = next
  /\ running' = (next \in Single)
  /\ item' = 0

(* fetch() returns. *)
Finish(response) ==
  /\ stage' = "done"
  /\ running' = FALSE
  /\ item' = 0
  /\ out' = response

(* tryRunSystemErrorHandler()'s early returns *)
MayCallSystem == setup.system /\ systemCalls = 0

CallSystem(next) ==
  /\ Enter(next)
  /\ systemCalls' = systemCalls + 1
  /\ UNCHANGED <<res, worker, failed, setup, events, out>>

(* The catch block of handle(): on to the error filters. *)
Fail ==
  /\ failed' = TRUE
  /\ Enter("filters")
  /\ UNCHANGED <<res, worker, systemCalls, setup, events, out>>

(* handle() returns w; the server's beforeResponse middlewares are next. *)
Return(w) ==
  /\ worker' = w
  /\ Enter("beforeResponse")
  /\ UNCHANGED <<failed, systemCalls, setup, out>>

(* The catch block of fetch() *)
FetchError ==
  /\ Finish([status |-> 500, body |-> "error"])
  /\ UNCHANGED <<res, worker, failed, systemCalls, setup, events>>

-----------------------------------------------------------------------------
(* User code.  It may change the response after end(), to no effect on what *)
(* was built.                                                               *)

Chosen == {"chosen"} \cup IF failed THEN {"recovered"} ELSE {}

SetStatus(status) ==
  /\ running
  /\ res' = [res EXCEPT !.status = status]
  /\ events' = events \cup Chosen
  /\ UNCHANGED <<stage, running, item, worker, failed, systemCalls, setup, out>>

SetBody ==
  /\ running
  /\ res' = [res EXCEPT !.body = "user"]
  /\ UNCHANGED <<stage, running, item, worker, failed, systemCalls, setup, events, out>>

Redirect ==
  /\ running
  /\ res' = [res EXCEPT !.location = TRUE]
  /\ events' = events \cup Chosen
  /\ UNCHANGED <<stage, running, item, worker, failed, systemCalls, setup, out>>

End ==
  /\ running
  /\ res' = Ended(res)
  /\ events' = events \cup Chosen
  /\ UNCHANGED <<stage, running, item, worker, failed, systemCalls, setup, out>>

-----------------------------------------------------------------------------
(* runMiddlewares() and the loop of runErrorFilters() *)

(* The next function of the list is called.  Without a healthy engine no    *)
(* filter is; a filter that does not catch the error counts as none.        *)
CallNext ==
  /\ stage \in Middlewares \cup {"filters"}
  /\ stage = "filters" => setup.healthy
  /\ ~running
  /\ item < MaxItems
  /\ running' = TRUE
  /\ item' = item + 1
  /\ UNCHANGED <<stage, res, worker, failed, systemCalls, setup, events, out>>

(* It returns, and not false: the loop goes on. *)
Continue ==
  /\ stage \in Middlewares \cup {"filters"}
  /\ running
  /\ running' = FALSE
  /\ UNCHANGED <<stage, item, res, worker, failed, systemCalls, setup, events, out>>

(* The list has come to its end. *)
Done(list) == stage = list /\ ~running

FaultyServerStop ==
  /\ stage \in ServerGuard
  /\ running
  /\ running' = FALSE
  /\ events' = events \cup {"refused"}
  /\ UNCHANGED <<stage, item, res, worker, failed, systemCalls, setup, out>>

(* A middleware on the way in returns false.  The server's end the request; *)
(* those of handle() keep it from the handler.                              *)
ServerStop ==
  /\ stage \in ServerGuard
  /\ running
  /\ res' = Ended(res)
  /\ Finish(Response(res'.sent))
  /\ events' = events \cup {"refused"}
  /\ UNCHANGED <<worker, failed, systemCalls, setup>>

HandleStop ==
  /\ stage \in HandleGuard
  /\ running
  /\ Enter("globalBeforeResponse")
  /\ events' = events \cup {"refused"}
  /\ UNCHANGED <<res, worker, failed, systemCalls, setup, out>>

-----------------------------------------------------------------------------
(* fetch(), before handle() *)

ServerThrow ==
  /\ stage \in ServerGuard
  /\ running
  /\ FetchError

EnterFrom(list, next) ==
  /\ Done(list)
  /\ Enter(next)
  /\ UNCHANGED <<res, worker, failed, systemCalls, setup, events, out>>

ServerGuardDone ==
  \/ EnterFrom("beforeRequest", "parse")
  \/ EnterFrom("afterRequest", "beforeHandler")
  \/ EnterFrom("beforeHandler", "globalBeforeRequest")

(* The body is read, of a method that has one; that fails if the client has *)
(* gone away.                                                               *)
Parse == EnterFrom("parse", "afterRequest")

ParseThrow ==
  /\ stage = "parse"
  /\ ~setup.head
  /\ FetchError

-----------------------------------------------------------------------------
(* handle() *)

HandleGuardDone ==
  \/ EnterFrom("globalBeforeRequest", "route")
  \/ /\ Done("scoped")
     /\ Enter("handler")
     /\ events' = events \cup {"handled"}
     /\ UNCHANGED <<res, worker, failed, systemCalls, setup, out>>

HandleThrow ==
  /\ stage \in HandleGuard \cup {"handler"}
  /\ running
  /\ Fail

Route == EnterFrom("route", "scoped")

(* No route matches, or the match throws. *)
RouteThrow == stage = "route" /\ Fail

(* The handler returns nothing or a value, which becomes the body.          *)
HandlerReturn ==
  /\ stage = "handler"
  /\ \/ UNCHANGED res
     \/ res' = [res EXCEPT !.body = "user"]
  /\ Enter("globalBeforeResponse")
  /\ UNCHANGED <<worker, failed, systemCalls, setup, events, out>>

(* The handler returns the BunnerResponse, or a Response of its own: the    *)
(* rest of handle() is skipped.                                             *)
HandlerRespond ==
  /\ stage = "handler"
  /\ \/ /\ res' = Ended(res)
        /\ events' = events \cup {"chosen"}
        /\ Return(res'.sent)
     \/ \E status \in UserStatus \cap 200 .. 599, body \in {"user", "empty"} :
          /\ Return([status |-> status, body |-> body])
          /\ UNCHANGED <<res, events>>

FaultyFilterThrow ==
  /\ stage = "filters"
  /\ running
  /\ Fail

(* A filter throws: that only replaces the error the next ones are given. *)
FilterThrow ==
  /\ stage = "filters"
  /\ running
  /\ running' = FALSE
  /\ UNCHANGED <<stage, item, res, worker, failed, systemCalls, setup, events, out>>

(* After the filters: the system error handler if there is no status yet,   *)
(* then the default.                                                        *)
FiltersDone ==
  /\ Done("filters")
  /\ \/ /\ res.status = 0 /\ MayCallSystem
        /\ CallSystem("systemHandler")
     \/ /\ ~(res.status = 0 /\ MayCallSystem)
        /\ res' = WithDefault(res, TRUE)
        /\ Enter("globalBeforeResponse")
        /\ UNCHANGED <<worker, failed, systemCalls, setup, events, out>>

(* The system error handler returns or throws. *)
SystemReturn ==
  \/ /\ stage = "systemHandler"
     /\ res' = WithDefault(res, TRUE)
     /\ Enter("globalBeforeResponse")
     /\ UNCHANGED <<worker, failed, systemCalls, setup, events, out>>
  \/ /\ stage = "lateSystemHandler"
     /\ res' = WithDefault(res, FALSE)
     /\ Enter("globalAfterResponse")
     /\ UNCHANGED <<worker, failed, systemCalls, setup, events, out>>

(* The list is at its end, or one of it returned false. *)
GlobalBeforeResponseDone ==
  /\ stage = "globalBeforeResponse"
  /\ Enter("globalAfterResponse")
  /\ UNCHANGED <<res, worker, failed, systemCalls, setup, events, out>>

GlobalBeforeResponseThrow ==
  /\ stage = "globalBeforeResponse"
  /\ running
  /\ events' = events \cup {"late"}
  /\ \/ /\ MayCallSystem
        /\ Enter("lateSystemHandler")
        /\ systemCalls' = systemCalls + 1
        /\ UNCHANGED res
     \/ /\ ~MayCallSystem
        /\ res' = WithDefault(res, FALSE)
        /\ Enter("globalAfterResponse")
        /\ UNCHANGED systemCalls
  /\ UNCHANGED <<worker, failed, setup, out>>

(* At its end, stopped or thrown out of: handle() returns. *)
GlobalAfterResponseDone ==
  /\ stage = "globalAfterResponse"
  /\ res' = Ended(IF failed THEN WithDefault(res, TRUE) ELSE res)
  /\ Return(res'.sent)
  /\ UNCHANGED events

-----------------------------------------------------------------------------
(* fetch(), after handle() *)

BeforeResponseDone == EnterFrom("beforeResponse", "afterResponse")

BeforeResponseStop ==
  /\ stage = "beforeResponse"
  /\ running
  /\ res' = Ended(res)
  /\ Finish(Response(res'.sent))
  /\ UNCHANGED <<worker, failed, systemCalls, setup, events>>

BeforeResponseThrow ==
  /\ stage = "beforeResponse"
  /\ running
  /\ res' = Ended([res EXCEPT !.status = IF @ = 0 THEN 500 ELSE @])
  /\ Finish(Response(res'.sent))
  /\ UNCHANGED <<worker, failed, systemCalls, setup, events>>

(* At its end, stopped or thrown out of.  The response was made before. *)
AfterResponseDone ==
  /\ stage = "afterResponse"
  /\ Finish(Response(worker))
  /\ UNCHANGED <<res, worker, failed, systemCalls, setup, events>>

-----------------------------------------------------------------------------
UserCall ==
  \/ \E status \in UserStatus : SetStatus(status)
  \/ SetBody
  \/ Redirect
  \/ End

(* A step of the framework, or a user function that returns or throws. *)
Progress ==
  \/ CallNext \/ Continue \/ ServerStop \/ HandleStop
  \/ ServerThrow \/ ServerGuardDone \/ Parse \/ ParseThrow
  \/ HandleGuardDone \/ HandleThrow \/ Route \/ RouteThrow
  \/ HandlerReturn \/ HandlerRespond
  \/ FilterThrow \/ FiltersDone \/ SystemReturn
  \/ GlobalBeforeResponseDone \/ GlobalBeforeResponseThrow \/ GlobalAfterResponseDone
  \/ BeforeResponseDone \/ BeforeResponseStop \/ BeforeResponseThrow \/ AfterResponseDone

Next == UserCall \/ Progress

(* User functions return: each is awaited, none is awaited for ever. *)
Spec == Init /\ [][Next]_vars /\ WF_vars(Progress)

-----------------------------------------------------------------------------
(* Properties *)

(* An exception on the way through handle() is answered with status 500 and *)
(* a body, unless user code chose the answer; and so is one of a global     *)
(* beforeResponse middleware, body apart.                                   *)
ErrorSurfaces ==
  stage = "done" /\ "chosen" \notin events =>
    /\ failed => out.status = 500 /\ (out.body # "empty" \/ setup.head)
    /\ "late" \in events => out.status = 500

(* The handler is not called for a request that a middleware refused, at    *)
(* either level; and a refused request is not routed to one later.          *)
RefusalIsFinal == ~ {"refused", "handled"} \subseteq events

(* The system error handler is called at most once per request, although    *)
(* both an exception of the handler and one of beforeResponse lead to it.   *)
SystemHandlerOnce == systemCalls <= 1

(* What was built is never rebuilt, whatever middlewares do to the response *)
(* later, and it is what the client gets if handle() returned it.           *)
SentIsDelivered ==
  [][/\ res.sent # NotSent => res'.sent = res.sent
     /\ worker # NotSent /\ worker = res.sent /\ stage' = "done" /\ stage # "done"
          => out' = Response(worker)]_vars

(* Every request is answered. *)
RequestIsAnswered == <>(stage = "done")

(* An exception is not lost: unless a filter, the system error handler or a *)
(* later middleware chose the answer, the client gets an error ("no         *)
(* swallowed exception is observable", error-handling.spec.md).             *)
ExceptionProducesError ==
  stage = "done" /\ failed /\ "recovered" \notin events => out.status >= 400
=============================================================================
