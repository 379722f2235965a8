------------------------ MODULE RequestPipeline_proofs ------------------------
(***************************************************************************)
(* Theorems about RequestPipeline for every set of statuses that user code *)
(* may pass and for lists of functions of any length.                      *)
(*                                                                         *)
(*  - Every variable keeps its type, and the system error handler is       *)
(*    called at most once.                                                 *)
(*  - The handler is not called for a request that was refused.            *)
(*  - What was built is not rebuilt, and it is what the client gets.       *)
(*  - An exception is answered with status 500, unless user code chose     *)
(*    the answer.                                                          *)
(***************************************************************************)
EXTENDS RequestPipeline, TLAPS

Sent == [status : Status, body : Body \ {"unset"}]

LEMMA SentIsSendable == Sendable = Sent \cup {NotSent} /\ NotSent \notin Sent
BY DEF Sendable, Sent, NotSent, Body

-----------------------------------------------------------------------------
(* Types *)

TypeInv == TypeOK /\ systemCalls <= 1

LEMMA BuiltType ==
  ASSUME TypeOK, NEW r \in BunnerResponse
  PROVE  /\ Built(r) \in BunnerResponse
         /\ Built(r).sent \in Sent
         /\ Built(r).sent = [status |-> BuiltStatus(r),
                             body |-> IF BuiltBody(r) = "unset" THEN "empty" ELSE BuiltBody(r)]
<1>1. BuiltStatus(r) \in Status /\ BuiltBody(r) \in Body
  BY DEF BuiltStatus, BuiltBody, Status, Body, BunnerResponse
<1>2. [status |-> BuiltStatus(r),
       body |-> IF BuiltBody(r) = "unset" THEN "empty" ELSE BuiltBody(r)] \in Sent
  BY <1>1 DEF Sent, Body
<1>3. QED
  BY <1>1, <1>2, SentIsSendable DEF Built, BunnerResponse

LEMMA EndedType ==
  ASSUME TypeOK, NEW r \in BunnerResponse
  PROVE  Ended(r) \in BunnerResponse /\ Ended(r).sent \in Sent
BY BuiltType, SentIsSendable DEF Ended, BunnerResponse

LEMMA WithDefaultType ==
  ASSUME NEW r \in BunnerResponse, NEW allowBody \in BOOLEAN
  PROVE  WithDefault(r, allowBody) \in BunnerResponse
<1>1. PICK status \in Status : status = IF r.status = 0 THEN 500 ELSE r.status
  BY DEF BunnerResponse, Status
<1>2. PICK body \in Body : body = IF allowBody /\ r.body = "unset" THEN "error" ELSE r.body
  BY DEF BunnerResponse, Body
<1>3. WithDefault(r, allowBody) = [r EXCEPT !.status = status, !.body = body]
  BY <1>1, <1>2 DEF WithDefault
<1>4. [r EXCEPT !.status = status, !.body = body] \in BunnerResponse
  BY DEF BunnerResponse
<1>5. QED
  BY <1>3, <1>4

LEMMA ResponseType ==
  ASSUME NEW w \in Sent
  PROVE  Response(w) \in Sendable
<1>1. 200 \in Status /\ 500 \in Status
  BY DEF Status
<1>2. Response(w) \in Sent
  BY <1>1 DEF Response, Sent
<1>3. QED
  BY <1>2, SentIsSendable

LEMMA TypeInit == Init => TypeInv
<1> SUFFICES ASSUME Init PROVE TypeInv
  OBVIOUS
<1>1. res \in BunnerResponse
  BY SentIsSendable DEF Init, BunnerResponse, Status, Body
<1>2. stage \in Stage
  BY DEF Init, Stage, Middlewares, ServerGuard
<1>3. item \in 0 .. MaxItems
  BY StatusAssumption DEF Init
<1>4. events \subseteq Happening /\ worker \in Sendable /\ out \in Sendable
  BY SentIsSendable DEF Init
<1>5. systemCalls \in 0 .. 2 /\ systemCalls <= 1
  BY DEF Init
<1>6. running \in BOOLEAN /\ failed \in BOOLEAN
      /\ setup \in [head : BOOLEAN, healthy : BOOLEAN, system : BOOLEAN]
  BY DEF Init
<1>7. QED
  BY <1>1, <1>2, <1>3, <1>4, <1>5, <1>6 DEF TypeInv, TypeOK

LEMMA StageTypes ==
  /\ Middlewares \subseteq Stage /\ Single \subseteq Stage
  /\ {"parse", "route", "filters", "done"} \subseteq Stage
BY DEF Stage

(* handle() has returned something by the time the server goes on. *)
WorkerInv == stage \in {"beforeResponse", "afterResponse"} => worker \in Sent

TypedInv == TypeInv /\ WorkerInv

LEMMA EnterType ==
  ASSUME NEW next \in Stage, Enter(next)
  PROVE  stage' = next /\ stage' \in Stage /\ running' \in BOOLEAN /\ item' \in 0 .. MaxItems
BY StatusAssumption DEF Enter

LEMMA FinishType ==
  ASSUME NEW response \in Sendable, Finish(response)
  PROVE  /\ stage' = "done" /\ stage' \in Stage /\ running' \in BOOLEAN
         /\ item' \in 0 .. MaxItems /\ out' \in Sendable
<1>1. 0 \in 0 .. MaxItems
  BY StatusAssumption
<1>2. QED
  BY <1>1, StageTypes DEF Finish

LEMMA TypeStep == TypedInv /\ [Next]_vars => TypedInv'
<1> SUFFICES ASSUME TypedInv, [Next]_vars PROVE TypedInv'
  OBVIOUS
<1> USE DEF TypedInv, TypeInv, WorkerInv
<1>1. CASE UNCHANGED vars
  BY <1>1 DEF vars, TypeOK
<1>2. CASE UserCall
  <2>1. res' \in BunnerResponse
    <3>1. ASSUME NEW status \in UserStatus, SetStatus(status) PROVE res' \in BunnerResponse
      BY <3>1 DEF SetStatus, TypeOK, BunnerResponse, Status
    <3>2. CASE SetBody
      BY <3>2 DEF SetBody, TypeOK, BunnerResponse, Body
    <3>3. CASE Redirect
      BY <3>3 DEF Redirect, TypeOK, BunnerResponse
    <3>4. CASE End
      BY <3>4, EndedType DEF End, TypeOK
    <3>5. QED
      BY <1>2, <3>1, <3>2, <3>3, <3>4 DEF UserCall
  <2>2. events' \subseteq Happening
    BY <1>2 DEF UserCall, SetStatus, SetBody, Redirect, End, Chosen, TypeOK, Happening
  <2>3. UNCHANGED <<stage, running, item, worker, failed, systemCalls, setup, out>>
    BY <1>2 DEF UserCall, SetStatus, SetBody, Redirect, End
  <2>4. QED
    BY <2>1, <2>2, <2>3 DEF TypeOK
<1>3. CASE CallNext \/ Continue \/ FilterThrow
  <2>1. running' \in BOOLEAN /\ item' \in 0 .. MaxItems
    <3>1. /\ running' \in BOOLEAN
          /\ item' = item \/ (item < MaxItems /\ item' = item + 1)
      BY <1>3 DEF CallNext, Continue, FilterThrow
    <3>2. item \in 0 .. MaxItems /\ MaxItems \in Nat
      BY StatusAssumption DEF TypeOK
    <3>3. QED
      BY <3>1, <3>2
  <2>2. UNCHANGED <<stage, res, worker, failed, systemCalls, setup, events, out>>
    BY <1>3 DEF CallNext, Continue, FilterThrow
  <2>3. QED
    BY <2>1, <2>2 DEF TypeOK
<1>4. CASE ServerStop \/ BeforeResponseStop \/ BeforeResponseThrow
  <2>1. [res EXCEPT !.status = IF @ = 0 THEN 500 ELSE @] \in BunnerResponse
    BY DEF TypeOK, BunnerResponse, Status
  <2>2. PICK r \in BunnerResponse :
          /\ res' = Ended(r)
          /\ Finish(Response(Ended(r).sent))
          /\ events' \in {events, events \cup {"refused"}}
          /\ UNCHANGED <<worker, failed, systemCalls, setup>>
    BY <1>4, <2>1 DEF ServerStop, BeforeResponseStop, BeforeResponseThrow, TypeOK
  <2>3. res' \in BunnerResponse /\ Response(Ended(r).sent) \in Sendable
    BY <2>2, EndedType, ResponseType
  <2>4. QED
    BY <2>2, <2>3, FinishType DEF TypeOK, Happening
<1>5. CASE ServerThrow \/ ParseThrow
  <2>1. [status |-> 500, body |-> "error"] \in Sendable
    BY DEF Sendable, Status, Body
  <2>2. QED
    BY <1>5, <2>1, FinishType DEF ServerThrow, ParseThrow, FetchError, TypeOK
<1>6. CASE AfterResponseDone
  <2>1. Response(worker) \in Sendable
    BY <1>6, ResponseType DEF AfterResponseDone
  <2>2. QED
    BY <1>6, <2>1, FinishType DEF AfterResponseDone, TypeOK
<1>7. CASE GlobalAfterResponseDone \/ HandlerRespond
  <2>1. worker' \in Sent /\ res' \in BunnerResponse /\ Return(worker')
        /\ events' \in {events, events \cup {"chosen"}}
    <3>1. CASE GlobalAfterResponseDone
      <4>1. PICK r \in BunnerResponse : res' = Ended(r) /\ Return(Ended(r).sent)
        BY <3>1, WithDefaultType DEF GlobalAfterResponseDone, TypeOK
      <4>2. QED
        BY <3>1, <4>1, EndedType DEF GlobalAfterResponseDone, Return
    <3>2. CASE HandlerRespond
      <4>1. CASE res' = Ended(res) /\ events' = events \cup {"chosen"} /\ Return(res'.sent)
        BY <4>1, EndedType DEF Return, TypeOK
      <4>2. ASSUME NEW status \in UserStatus \cap 200 .. 599, NEW body \in {"user", "empty"},
                   Return([status |-> status, body |-> body]), UNCHANGED <<res, events>>
            PROVE  worker' \in Sent /\ res' \in BunnerResponse /\ Return(worker')
                   /\ events' = events
        BY <4>2 DEF Return, Sent, Status, Body, TypeOK
      <4>3. QED
        BY <3>2, <4>1, <4>2 DEF HandlerRespond
    <3>3. QED
      BY <1>7, <3>1, <3>2
  <2>2. /\ stage' = "beforeResponse" /\ stage' \in Stage
        /\ running' \in BOOLEAN /\ item' \in 0 .. MaxItems
        /\ UNCHANGED <<failed, systemCalls, setup, out>>
    BY <2>1, StageTypes, EnterType DEF Return, Middlewares
  <2>3. QED
    BY <2>1, <2>2, SentIsSendable DEF TypeOK, Happening
<1>8. CASE HandlerReturn \/ SystemReturn \/ FiltersDone \/ GlobalBeforeResponseThrow
  <2>1. [res EXCEPT !.body = "user"] \in BunnerResponse
    BY DEF TypeOK, BunnerResponse, Body
  <2>2. /\ res' \in BunnerResponse
        /\ systemCalls' \in 0 .. 1
        /\ events' \in {events, events \cup {"late"}}
        /\ UNCHANGED <<worker, failed, setup, out>>
    <3>1. res' \in {res, [res EXCEPT !.body = "user"], WithDefault(res, TRUE),
                    WithDefault(res, FALSE)}
      BY <1>8 DEF HandlerReturn, SystemReturn, FiltersDone, GlobalBeforeResponseThrow, CallSystem
    <3>2. res' \in BunnerResponse
      BY <2>1, <3>1, WithDefaultType DEF TypeOK
    <3>3. systemCalls' = systemCalls \/ (systemCalls = 0 /\ systemCalls' = systemCalls + 1)
      BY <1>8 DEF HandlerReturn, SystemReturn, FiltersDone, GlobalBeforeResponseThrow, CallSystem,
                  MayCallSystem
    <3>4. systemCalls' \in 0 .. 1
      BY <3>3 DEF TypeOK
    <3>5. /\ events' \in {events, events \cup {"late"}}
          /\ UNCHANGED <<worker, failed, setup, out>>
      BY <1>8 DEF HandlerReturn, SystemReturn, FiltersDone, GlobalBeforeResponseThrow, CallSystem
    <3>6. QED
      BY <3>2, <3>4, <3>5
  <2>3. \E next \in {"globalBeforeResponse", "globalAfterResponse", "systemHandler",
                     "lateSystemHandler"} : Enter(next)
    BY <1>8 DEF HandlerReturn, SystemReturn, FiltersDone, GlobalBeforeResponseThrow, CallSystem
  <2>4. QED
    BY <2>2, <2>3, EnterType, StageTypes DEF Middlewares, Single, TypeOK, Happening
<1>9. CASE HandleStop \/ HandleThrow \/ RouteThrow \/ GlobalBeforeResponseDone
           \/ ServerGuardDone \/ Parse \/ HandleGuardDone \/ Route \/ BeforeResponseDone
  <2>1. /\ UNCHANGED <<res, worker, systemCalls, setup, out>>
        /\ failed' \in {failed, TRUE}
        /\ events' \in {events, events \cup {"refused"}, events \cup {"handled"}}
        /\ \E next \in Stage : Enter(next) /\ (stage = "beforeResponse" \/ next \notin {"beforeResponse", "afterResponse"})
    BY <1>9, StageTypes
       DEF HandleStop, HandleThrow, RouteThrow, Fail, GlobalBeforeResponseDone, ServerGuardDone,
           Parse, HandleGuardDone, Route, BeforeResponseDone, EnterFrom, Done, Stage, Middlewares,
           ServerGuard, HandleGuard, Single
  <2>2. QED
    BY <2>1, EnterType DEF TypeOK, Happening
<1>10. QED
  BY <1>1, <1>2, <1>3, <1>4, <1>5, <1>6, <1>7, <1>8, <1>9 DEF Next, Progress

LEMMA TypedSafety == Spec => []TypedInv
<1>1. Init => TypedInv
  BY TypeInit DEF Init, TypedInv, WorkerInv
<1>2. QED
  BY <1>1, TypeStep, PTL DEF Spec

(* Every variable keeps its type: in particular what is sent never has an   *)
(* unset body.                                                              *)
THEOREM TypeCorrect == Spec => []TypeOK
<1>1. TypedInv => TypeOK
  BY DEF TypedInv, TypeInv
<1>2. QED
  BY <1>1, TypedSafety, PTL

(* The system error handler is called at most once per request.             *)
THEOREM SystemHandlerCalledOnce == Spec => []SystemHandlerOnce
<1>1. TypedInv => SystemHandlerOnce
  BY DEF TypedInv, TypeInv, SystemHandlerOnce
<1>2. QED
  BY <1>1, TypedSafety, PTL

-----------------------------------------------------------------------------
(* Refusals *)

(* The way to the handler, and what comes after handle(). *)
Inbound == ServerGuard \cup HandleGuard \cup {"parse", "route"}

Outbound == {"beforeResponse", "afterResponse", "done"}

(* No step leads back to the way in.  The refusal alone is not inductive:   *)
(* it takes that, and that a refusal leaves the way in at once.             *)
RefusalInv ==
  /\ "refused" \in events => stage \notin Inbound \cup {"handler"}
  /\ "handled" \in events => stage \notin Inbound
  /\ RefusalIsFinal

LEMMA RefusalStep == RefusalInv /\ [Next]_vars => RefusalInv'
<1> SUFFICES ASSUME RefusalInv, [Next]_vars PROVE RefusalInv'
  OBVIOUS
<1> USE DEF RefusalInv, RefusalIsFinal, Inbound, ServerGuard, HandleGuard
<1>1. CASE UNCHANGED vars
  BY <1>1 DEF vars
<1>2. CASE UserCall \/ CallNext \/ Continue \/ FilterThrow
  BY <1>2 DEF UserCall, SetStatus, SetBody, Redirect, End, Chosen, CallNext, Continue, FilterThrow
<1>3. CASE ServerStop \/ ServerThrow \/ ParseThrow \/ AfterResponseDone
           \/ BeforeResponseStop \/ BeforeResponseThrow
  BY <1>3 DEF ServerStop, ServerThrow, ParseThrow, FetchError, AfterResponseDone,
              BeforeResponseStop, BeforeResponseThrow, Finish
<1>4. CASE HandleStop
  BY <1>4 DEF HandleStop, Enter
<1>5. CASE HandleThrow \/ RouteThrow
  BY <1>5 DEF HandleThrow, RouteThrow, Fail, Enter
<1>6. CASE ServerGuardDone \/ Parse \/ HandleGuardDone \/ Route \/ BeforeResponseDone
  BY <1>6 DEF ServerGuardDone, Parse, HandleGuardDone, Route, BeforeResponseDone, EnterFrom,
              Done, Enter
<1>7. CASE HandlerReturn \/ HandlerRespond \/ GlobalAfterResponseDone
  BY <1>7 DEF HandlerReturn, HandlerRespond, GlobalAfterResponseDone, Return, Enter
<1>8. CASE FiltersDone \/ SystemReturn \/ GlobalBeforeResponseDone \/ GlobalBeforeResponseThrow
  BY <1>8 DEF FiltersDone, SystemReturn, CallSystem, GlobalBeforeResponseDone,
              GlobalBeforeResponseThrow, Enter
<1>9. QED
  BY <1>1, <1>2, <1>3, <1>4, <1>5, <1>6, <1>7, <1>8 DEF Next, Progress

(* A request that a middleware refused never reaches the handler.           *)
THEOREM RefusedIsNotHandled == Spec => []RefusalIsFinal
<1>1. Init => RefusalInv
  BY DEF Init, RefusalInv, RefusalIsFinal
<1>2. RefusalInv => RefusalIsFinal
  BY DEF RefusalInv
<1>3. QED
  BY <1>1, <1>2, RefusalStep, PTL DEF Spec

-----------------------------------------------------------------------------
(* What was built stays, and is what the client gets *)

(* handle() returns a response only when it is over: until then an error of *)
(* fetch() cannot replace one.                                              *)
HandleInv == stage \notin Outbound => worker = NotSent

(* Steps that leave handle(), or are in fetch() after it. *)
Leaving ==
  HandlerRespond \/ GlobalAfterResponseDone \/ BeforeResponseDone \/ BeforeResponseStop
    \/ BeforeResponseThrow \/ AfterResponseDone

LEMMA HandleStep == HandleInv /\ [Next]_vars => HandleInv'
<1> SUFFICES ASSUME HandleInv, [Next]_vars PROVE HandleInv'
  OBVIOUS
<1> USE DEF HandleInv, Outbound
<1>1. CASE UNCHANGED vars
  BY <1>1 DEF vars
<1>2. CASE UserCall \/ CallNext \/ Continue \/ FilterThrow
  BY <1>2 DEF UserCall, SetStatus, SetBody, Redirect, End, CallNext, Continue, FilterThrow
<1>3. CASE Leaving
  BY <1>3 DEF Leaving, HandlerRespond, GlobalAfterResponseDone, BeforeResponseDone, EnterFrom,
              BeforeResponseStop, BeforeResponseThrow, AfterResponseDone, Return, Enter, Finish
<1>4. CASE ServerStop \/ ServerThrow \/ ParseThrow
  BY <1>4 DEF ServerStop, ServerThrow, ParseThrow, FetchError, Finish
<1>5. CASE ServerGuardDone \/ Parse \/ HandleGuardDone \/ Route
  BY <1>5 DEF ServerGuardDone, Parse, HandleGuardDone, Route, EnterFrom, Done, Enter
<1>6. CASE HandleStop \/ HandleThrow \/ RouteThrow \/ HandlerReturn
  BY <1>6 DEF HandleStop, HandleThrow, RouteThrow, Fail, HandlerReturn, Enter, HandleGuard
<1>7. CASE FiltersDone \/ SystemReturn \/ GlobalBeforeResponseDone \/ GlobalBeforeResponseThrow
  BY <1>7 DEF FiltersDone, SystemReturn, CallSystem, GlobalBeforeResponseDone,
              GlobalBeforeResponseThrow, Done, Enter
<1>8. QED
  BY <1>1, <1>2, <1>3, <1>4, <1>5, <1>6, <1>7 DEF Next, Progress, Leaving

(* Every change of the response but end() leaves what was sent alone.       *)
LEMMA SentKept ==
  ASSUME NEW r \in BunnerResponse
  PROVE  /\ \A status : [r EXCEPT !.status = status].sent = r.sent
         /\ \A body : [r EXCEPT !.body = body].sent = r.sent
         /\ [r EXCEPT !.location = TRUE].sent = r.sent
         /\ \A allowBody : WithDefault(r, allowBody).sent = r.sent
         /\ r.sent # NotSent => Ended(r).sent = r.sent
BY DEF WithDefault, Ended, BunnerResponse

LEMMA LocatedType ==
  ASSUME NEW r \in BunnerResponse
  PROVE  [r EXCEPT !.location = TRUE] \in BunnerResponse
BY DEF BunnerResponse

LEMMA SentIsNotRebuilt ==
  TypedInv /\ [Next]_vars => (res.sent # NotSent => res'.sent = res.sent)
<1> SUFFICES ASSUME TypedInv, [Next]_vars, res.sent # NotSent PROVE res'.sent = res.sent
  OBVIOUS
<1> DEFINE Marked == [res EXCEPT !.status = IF @ = 0 THEN 500 ELSE @]
<1>1. res \in BunnerResponse /\ Marked \in BunnerResponse /\ Marked.sent = res.sent
  BY DEF TypedInv, TypeInv, TypeOK, BunnerResponse, Status
<1>2. PICK r \in BunnerResponse : r.sent = res.sent /\ (res' = r \/ res' = Ended(r))
  <2>1. CASE UNCHANGED res
    BY <1>1, <2>1
  <2>2. CASE UserCall \/ HandlerReturn
    <3>1. CASE End \/ UNCHANGED res
      BY <1>1, <3>1 DEF End
    <3>2. CASE \E status \in Status : res' = [res EXCEPT !.status = status]
      <4>1. PICK status \in Status : res' = [res EXCEPT !.status = status]
        BY <3>2
      <4>2. [res EXCEPT !.status = status] \in BunnerResponse
        BY <1>1 DEF BunnerResponse
      <4>3. QED
        BY <1>1, <4>1, <4>2, SentKept
    <3>3. CASE res' = [res EXCEPT !.body = "user"]
      <4>1. [res EXCEPT !.body = "user"] \in BunnerResponse
        BY <1>1 DEF BunnerResponse, Body
      <4>2. [res EXCEPT !.body = "user"].sent = res.sent
        BY <1>1, SentKept
      <4>3. QED
        BY <3>3, <4>1, <4>2
    <3>4. CASE res' = [res EXCEPT !.location = TRUE]
      <4>1. [res EXCEPT !.location = TRUE] \in BunnerResponse
        BY LocatedType, <1>1
      <4>2. [res EXCEPT !.location = TRUE].sent = res.sent
        BY <1>1, SentKept
      <4>3. QED
        BY <3>4, <4>1, <4>2
    <3>5. QED
      BY <2>2, <3>1, <3>2, <3>3, <3>4 DEF UserCall, SetStatus, SetBody, Redirect, HandlerReturn, Status
  <2>3. CASE res' = Ended(res) \/ res' = Ended(Marked)
    <3> HIDE DEF Marked
    <3>1. QED
      BY <1>1, <2>3, Zenon
  <2>4. ASSUME NEW allowBody \in BOOLEAN,
               res' = WithDefault(res, allowBody) \/ res' = Ended(WithDefault(res, allowBody))
        PROVE  \E r \in BunnerResponse : r.sent = res.sent /\ (res' = r \/ res' = Ended(r))
    <3>1. WithDefault(res, allowBody) \in BunnerResponse
      BY <1>1, WithDefaultType
    <3>2. WithDefault(res, allowBody).sent = res.sent
      BY <1>1, SentKept
    <3>3. QED
      BY <2>4, <3>1, <3>2
  <2>5. QED
    BY <2>1, <2>2, <2>3, <2>4
       DEF Next, Progress, vars, CallNext, Continue, FilterThrow, ServerStop, HandleStop,
           ServerThrow, FetchError, ServerGuardDone, EnterFrom, Parse, ParseThrow,
           HandleGuardDone, HandleThrow, Fail, Route, RouteThrow, HandlerRespond, FiltersDone,
           CallSystem, SystemReturn, GlobalBeforeResponseDone, GlobalBeforeResponseThrow,
           GlobalAfterResponseDone, BeforeResponseDone, BeforeResponseStop,
           BeforeResponseThrow, AfterResponseDone
<1>3. QED
  BY <1>2, SentKept

LEMMA SentIsTheAnswer ==
  TypedInv /\ HandleInv /\ [Next]_vars =>
    (worker # NotSent /\ worker = res.sent /\ stage' = "done" /\ stage # "done"
       => out' = Response(worker))
<1> SUFFICES ASSUME TypedInv, HandleInv, [Next]_vars,
                    worker # NotSent, worker = res.sent, stage' = "done", stage # "done"
             PROVE  out' = Response(worker)
  OBVIOUS
<1>1. stage \in {"beforeResponse", "afterResponse"}
  BY DEF HandleInv, Outbound
<1>2. res'.sent = res.sent
  BY SentIsNotRebuilt
<1>3. BeforeResponseStop \/ BeforeResponseThrow \/ AfterResponseDone
  BY <1>1 DEF Next, Progress, vars, UserCall, SetStatus, SetBody, Redirect, End, CallNext,
              Continue, FilterThrow, ServerStop, HandleStop, ServerThrow, ServerGuardDone,
              EnterFrom, Enter, Done, Parse, ParseThrow, HandleGuardDone, HandleThrow, Route, RouteThrow,
              HandlerReturn, HandlerRespond, FiltersDone, SystemReturn,
              GlobalBeforeResponseDone, GlobalBeforeResponseThrow, GlobalAfterResponseDone,
              BeforeResponseDone, ServerGuard, HandleGuard
<1>4. QED
  BY <1>2, <1>3 DEF BeforeResponseStop, BeforeResponseThrow, AfterResponseDone, Finish

(* What was built is never rebuilt, and the client gets it.                 *)
THEOREM SentStays == Spec => SentIsDelivered
<1>1. Init => HandleInv
  BY DEF Init, HandleInv
<1>2. TypedInv /\ HandleInv /\ [Next]_vars =>
        [/\ res.sent # NotSent => res'.sent = res.sent
         /\ worker # NotSent /\ worker = res.sent /\ stage' = "done" /\ stage # "done"
              => out' = Response(worker)]_vars
  BY SentIsNotRebuilt, SentIsTheAnswer
<1>3. QED
  BY <1>1, <1>2, HandleStep, TypedSafety, PTL DEF Spec, SentIsDelivered

-----------------------------------------------------------------------------
(* An exception is answered with an error *)

(* The answer that handle() returned, if it was not chosen, is an error. *)
ErrorSent ==
  /\ worker = res.sent /\ worker # NotSent /\ worker.status = 500
  /\ failed => worker.body # "empty" \/ setup.head

(* A response that nobody chose: what only the framework and bodies made it. *)
Unchosen(r) ==
  /\ r.location = FALSE
  /\ r.sent = NotSent
  /\ r.status \in {0, 500}
  /\ r.body # "empty"

(* The stages tell how far an error has come: to the status after the late  *)
(* system error handler, to what is sent after handle().                    *)
SurfaceInv ==
  /\ stage \in Inbound \cup {"handler"} => ~failed
  /\ "late" \in events => stage \in {"lateSystemHandler", "globalAfterResponse"} \cup Outbound
  /\ "chosen" \notin events /\ stage \notin Outbound => Unchosen(res)
  /\ "chosen" \notin events /\ "late" \in events /\ stage = "globalAfterResponse" =>
       res.status = 500
  /\ ("chosen" \notin events /\ stage \in {"beforeResponse", "afterResponse"}
       /\ (failed \/ "late" \in events)) => ErrorSent
  /\ ErrorSurfaces

LEMMA WithDefaultFields ==
  ASSUME NEW r \in BunnerResponse, NEW allowBody \in BOOLEAN, Unchosen(r)
  PROVE  /\ Unchosen(WithDefault(r, allowBody))
         /\ WithDefault(r, allowBody).status = 500
         /\ WithDefault(r, TRUE).body # "unset"
BY DEF WithDefault, Unchosen, BunnerResponse

LEMMA WithDefaultUnchosen ==
  \A r \in BunnerResponse, allowBody \in BOOLEAN :
    Unchosen(r) => Unchosen(WithDefault(r, allowBody)) /\ WithDefault(r, allowBody).status = 500
BY DEF WithDefault, Unchosen, BunnerResponse

LEMMA ErrorBuilt ==
  ASSUME TypeOK, NEW r \in BunnerResponse, Unchosen(r), r.status = 500
  PROVE  /\ Ended(r).sent.status = 500
         /\ r.body # "unset" => Ended(r).sent.body # "empty" \/ setup.head
<1>1. Ended(r).sent = [status |-> BuiltStatus(r),
                       body |-> IF BuiltBody(r) = "unset" THEN "empty" ELSE BuiltBody(r)]
  BY BuiltType DEF Ended, Unchosen
<1>2. BuiltStatus(r) = 500
  BY DEF BuiltStatus
<1>3. setup.head \/ BuiltBody(r) = r.body
  BY DEF BuiltBody, Unchosen
<1>4. QED
  BY <1>1, <1>2, <1>3 DEF Unchosen

LEMMA ErrorAnswered ==
  ASSUME worker \in Sent, ErrorSent
  PROVE  /\ Response(worker).status = 500
         /\ failed => Response(worker).body # "empty" \/ setup.head
BY DEF Response, ErrorSent, Sent

LEMMA SurfaceStep == TypedInv /\ SurfaceInv /\ [Next]_vars => SurfaceInv'
<1> SUFFICES ASSUME TypedInv, SurfaceInv, [Next]_vars PROVE SurfaceInv'
  OBVIOUS
<1>0. TypeOK /\ res \in BunnerResponse
  BY DEF TypedInv, TypeInv, TypeOK
<1>1. CASE UNCHANGED vars
  BY <1>1 DEF vars, SurfaceInv, Unchosen, ErrorSent, ErrorSurfaces
<1>2. CASE UserCall
  <2>1. UNCHANGED <<stage, worker, failed, setup, out>>
        /\ ("late" \in events' <=> "late" \in events)
    BY <1>2 DEF UserCall, SetStatus, SetBody, Redirect, End, Chosen
  <2>2. CASE "chosen" \in events'
    BY <2>1, <2>2 DEF SurfaceInv, ErrorSurfaces
  <2>3. CASE SetBody
    <3>1. /\ events' = events /\ res'.status = res.status /\ res'.location = res.location
          /\ res'.sent = res.sent /\ res'.body = "user"
      BY <1>0, <2>3 DEF SetBody, BunnerResponse
    <3>2. QED
      BY <2>1, <3>1 DEF SurfaceInv, Unchosen, ErrorSent, ErrorSurfaces
  <2>4. QED
    BY <1>2, <2>2, <2>3 DEF UserCall, SetStatus, Redirect, End, Chosen
<1>3. CASE CallNext \/ Continue \/ FilterThrow
  BY <1>3 DEF CallNext, Continue, FilterThrow, SurfaceInv, Unchosen, ErrorSent, ErrorSurfaces
<1>4. CASE ServerStop \/ ServerThrow \/ ParseThrow
  <2>1. ~failed /\ "late" \notin events
    BY <1>4 DEF ServerStop, ServerThrow, ParseThrow, SurfaceInv, Inbound, Outbound, ServerGuard
  <2>2. stage' = "done" /\ ~failed' /\ "late" \notin events'
    BY <1>4, <2>1 DEF ServerStop, ServerThrow, ParseThrow, FetchError, Finish
  <2>3. QED
    BY <2>2 DEF SurfaceInv, ErrorSurfaces, Inbound, Outbound, ServerGuard, HandleGuard
<1>5. CASE BeforeResponseStop \/ BeforeResponseThrow \/ AfterResponseDone
  <2>1. /\ stage \in {"beforeResponse", "afterResponse"} /\ stage' = "done"
        /\ UNCHANGED <<worker, failed, setup, events>>
    BY <1>5 DEF BeforeResponseStop, BeforeResponseThrow, AfterResponseDone, Finish
  <2>2. ASSUME "chosen" \notin events, failed \/ "late" \in events
        PROVE  out'.status = 500 /\ (failed => out'.body # "empty" \/ setup.head)
    <3>1. ErrorSent /\ worker \in Sent
      BY <2>1, <2>2 DEF SurfaceInv, TypedInv, WorkerInv
    <3>2. res'.sent = res.sent
      BY <3>1, SentIsNotRebuilt DEF ErrorSent
    <3>3. out' = Response(worker)
      BY <1>5, <3>1, <3>2
         DEF BeforeResponseStop, BeforeResponseThrow, AfterResponseDone, Finish, ErrorSent
    <3>4. QED
      BY <3>1, <3>3, ErrorAnswered
  <2>3. QED
    BY <2>1, <2>2 DEF SurfaceInv, ErrorSurfaces, Inbound, Outbound, ServerGuard, HandleGuard
<1>6. CASE ServerGuardDone \/ Parse \/ HandleGuardDone \/ Route \/ HandleStop
  <2>1. /\ stage \in Inbound
        /\ stage' \in Inbound \cup {"handler", "globalBeforeResponse"}
        /\ UNCHANGED <<res, failed>>
        /\ ("late" \in events' <=> "late" \in events)
        /\ ("chosen" \in events' <=> "chosen" \in events)
    BY <1>6 DEF ServerGuardDone, Parse, HandleGuardDone, Route, HandleStop, EnterFrom, Enter,
                Done, Inbound, ServerGuard, HandleGuard
  <2>2. QED
    BY <2>1 DEF SurfaceInv, ErrorSurfaces, Inbound, Outbound, ServerGuard, HandleGuard, Unchosen
<1>7. CASE BeforeResponseDone
  BY <1>7 DEF BeforeResponseDone, EnterFrom, Enter, Done, SurfaceInv, ErrorSurfaces, ErrorSent,
              Inbound, Outbound, ServerGuard, HandleGuard
<1>8. CASE HandleThrow \/ RouteThrow
  <2>1. /\ stage \in Inbound \cup {"handler"} /\ stage' = "filters"
        /\ UNCHANGED <<res, events>>
    BY <1>8 DEF HandleThrow, RouteThrow, Fail, Enter, Inbound
  <2>2. QED
    BY <2>1 DEF SurfaceInv, ErrorSurfaces, Inbound, Outbound, ServerGuard, HandleGuard, Unchosen
<1>9. CASE HandlerReturn
  <2>1. /\ stage = "handler" /\ stage' = "globalBeforeResponse"
        /\ UNCHANGED <<failed, events>>
        /\ res'.status = res.status /\ res'.location = res.location
        /\ res'.sent = res.sent /\ res'.body \in {res.body, "user"}
    BY <1>0, <1>9 DEF HandlerReturn, Enter, BunnerResponse
  <2>2. QED
    BY <2>1 DEF SurfaceInv, ErrorSurfaces, Inbound, Outbound, ServerGuard, HandleGuard, Unchosen
<1>10. CASE HandlerRespond
  <2>1. /\ stage = "handler" /\ stage' = "beforeResponse" /\ failed' = failed
        /\ ("late" \in events' <=> "late" \in events)
    BY <1>10 DEF HandlerRespond, Return, Enter
  <2>2. QED
    BY <2>1 DEF SurfaceInv, ErrorSurfaces, Inbound, Outbound, ServerGuard, HandleGuard
<1>11. CASE FiltersDone \/ SystemReturn \/ GlobalBeforeResponseThrow
  <2>1. PICK allowBody \in BOOLEAN : res' = res \/ res' = WithDefault(res, allowBody)
    BY <1>11 DEF FiltersDone, SystemReturn, GlobalBeforeResponseThrow, CallSystem
  <2>2. /\ stage \in {"filters", "systemHandler", "lateSystemHandler", "globalBeforeResponse"}
        /\ stage' \in {"systemHandler", "globalBeforeResponse", "lateSystemHandler",
                       "globalAfterResponse"}
        /\ ("chosen" \in events' <=> "chosen" \in events)
    BY <1>11 DEF FiltersDone, SystemReturn, GlobalBeforeResponseThrow, CallSystem, Enter, Done
  <2>3. "late" \in events' => stage' \in {"lateSystemHandler", "globalAfterResponse"}
    BY <1>11 DEF FiltersDone, SystemReturn, GlobalBeforeResponseThrow, CallSystem, Enter, Done,
                 SurfaceInv, Outbound
  <2>4. stage' = "globalAfterResponse" => res' = WithDefault(res, FALSE)
    BY <1>11 DEF FiltersDone, SystemReturn, GlobalBeforeResponseThrow, CallSystem, Enter
  <2>5. "chosen" \notin events => Unchosen(res)
    BY <2>2 DEF SurfaceInv, Outbound
  <2>6. "chosen" \notin events' => Unchosen(res)'
    <3>1. CASE res' = res
      BY <2>2, <2>5, <3>1 DEF Unchosen
    <3>2. CASE res' = WithDefault(res, allowBody)
      <4>1. ASSUME "chosen" \notin events PROVE Unchosen(WithDefault(res, allowBody))
        <5>1. Unchosen(res)
          BY <2>5, <4>1
        <5>2. QED
          BY <1>0, <5>1, WithDefaultUnchosen
      <4>2. Unchosen(res)' <=> Unchosen(WithDefault(res, allowBody))
        BY <3>2
      <4>3. QED
        BY <2>2, <4>1, <4>2
    <3>3. QED
      BY <2>1, <3>1, <3>2
  <2>7. "chosen" \notin events' /\ stage' = "globalAfterResponse" => res'.status = 500
    <3>1. ASSUME "chosen" \notin events PROVE WithDefault(res, FALSE).status = 500
      BY <1>0, <2>5, <3>1, WithDefaultUnchosen
    <3>2. QED
      BY <2>2, <2>4, <3>1
  <2>8. stage' \notin Inbound \cup Outbound \cup {"handler"}
    BY <2>2 DEF Inbound, Outbound, ServerGuard, HandleGuard
  <2>9. QED
    BY <2>3, <2>6, <2>7, <2>8 DEF SurfaceInv, ErrorSurfaces, Outbound
<1>12. CASE GlobalBeforeResponseDone
  BY <1>12 DEF GlobalBeforeResponseDone, Enter, SurfaceInv, ErrorSurfaces, Inbound, Outbound,
               ServerGuard, HandleGuard, Unchosen
<1>13. CASE GlobalAfterResponseDone
  <2>1. /\ stage = "globalAfterResponse" /\ stage' = "beforeResponse"
        /\ UNCHANGED <<failed, setup, events>> /\ worker' = res'.sent
    BY <1>13 DEF GlobalAfterResponseDone, Return, Enter
  <2>2. ASSUME "chosen" \notin events, failed \/ "late" \in events
        PROVE  /\ res'.sent \in Sent /\ res'.sent.status = 500
               /\ failed => res'.sent.body # "empty" \/ setup.head
    <3>1. Unchosen(res) /\ (~failed => res.status = 500)
      BY <2>1, <2>2 DEF SurfaceInv, Outbound
    <3>2. PICK r \in BunnerResponse :
            /\ res' = Ended(r) /\ Unchosen(r) /\ r.status = 500
            /\ failed => r.body # "unset"
      <4>1. CASE failed
        <5>1. /\ WithDefault(res, TRUE) \in BunnerResponse
              /\ Unchosen(WithDefault(res, TRUE)) /\ WithDefault(res, TRUE).status = 500
              /\ WithDefault(res, TRUE).body # "unset"
          <6>1. WithDefault(res, TRUE) \in BunnerResponse
            BY <1>0, WithDefaultType
          <6>2. Unchosen(WithDefault(res, TRUE))
            BY <1>0, <3>1, WithDefaultFields, Zenon
          <6>3. WithDefault(res, TRUE).status = 500
            BY <1>0, <3>1, WithDefaultFields, Zenon
          <6>4. WithDefault(res, TRUE).body # "unset"
            BY <1>0, <3>1, WithDefaultFields, Zenon
          <6>5. QED
            BY <6>1, <6>2, <6>3, <6>4
        <5>2. QED
          BY <1>13, <4>1, <5>1 DEF GlobalAfterResponseDone
      <4>2. CASE ~failed
        BY <1>0, <1>13, <3>1, <4>2 DEF GlobalAfterResponseDone
      <4>3. QED
        BY <4>1, <4>2
    <3>3. QED
      BY <1>0, <3>2, ErrorBuilt, EndedType
  <2>3. QED
    BY <2>1, <2>2, SentIsSendable
       DEF SurfaceInv, ErrorSurfaces, Inbound, Outbound, ServerGuard, HandleGuard, ErrorSent
<1>14. QED
  BY <1>1, <1>2, <1>3, <1>4, <1>5, <1>6, <1>7, <1>8, <1>9, <1>10, <1>11, <1>12, <1>13
     DEF Next, Progress

(* An exception is answered with status 500 and a body, unless user code    *)
(* chose the answer; one of a beforeResponse middleware with status 500.    *)
THEOREM ErrorsSurface == Spec => []ErrorSurfaces
<1>1. Init => SurfaceInv
  BY DEF Init, SurfaceInv, Unchosen, ErrorSurfaces, Outbound
<1>2. SurfaceInv => ErrorSurfaces
  BY DEF SurfaceInv
<1>3. QED
  BY <1>1, <1>2, SurfaceStep, TypedSafety, PTL DEF Spec
=============================================================================
