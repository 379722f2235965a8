-------------------------------- MODULE Cors --------------------------------
(***************************************************************************)
(* CorsMiddleware.handle()                                                 *)
(* (packages/http-adapter/src/middlewares/cors/cors.middleware.ts) for the *)
(* options o and a request r.                                              *)
(*                                                                         *)
(* o.origin is [kind, ...]: "any" (undefined or "*"), "off" (false),       *)
(* "echo" (true), "exact" (a text), "list" (texts and regular expressions) *)
(* or "function".  The regular expressions and the function are the set of *)
(* origins they accept; options and headers are absent or not empty.  The   *)
(* headers of an answer are pairs of a name and a value, in no order; its   *)
(* status is left out.                                                      *)
(***************************************************************************)
CONSTANT NoHeader  \* undefined, or an absent or empty header

(* o: [origin, methods, allowedHeaders, exposedHeaders, credentials, maxAge,*)
(* preflightContinue]; r: [origin, method, requestMethod, requestHeaders]   *)

(* A list never accepts "*" for any origin; a function that fails, or does  *)
(* not say TRUE, refuses.                                                   *)
MatchOrigin(o, origin) ==
  CASE o.origin.kind = "off" -> NoHeader
    [] o.origin.kind = "any" -> IF o.credentials THEN origin ELSE "*"
    [] o.origin.kind = "echo" -> origin
    [] o.origin.kind \in {"exact", "list", "function"} -> IF origin \in o.origin.accepts THEN origin ELSE NoHeader

Only(name, value) == IF value = NoHeader THEN {} ELSE {<<name, value>>}

(* A preflight asks for the method of the request to come. *)
IsPreflight(r) == r.method = "OPTIONS" /\ r.requestMethod # NoHeader

FaultyVary(o, r) == IF IsPreflight(r) /\ o.allowedHeaders = NoHeader /\ r.requestHeaders # NoHeader
                    THEN {"Access-Control-Request-Headers"} ELSE {}

Vary(o, r) ==
  (IF MatchOrigin(o, r.origin) # "*" THEN {"Origin"} ELSE {})
    \cup (IF IsPreflight(r) /\ o.allowedHeaders = NoHeader /\ r.requestHeaders # NoHeader
          THEN {"Access-Control-Request-Headers"} ELSE {})

PreflightHeaders(o, r) ==
  {<<"Access-Control-Allow-Methods", o.methods>>}
    \cup Only("Access-Control-Allow-Headers", IF o.allowedHeaders # NoHeader THEN o.allowedHeaders ELSE r.requestHeaders)
    \cup Only("Access-Control-Max-Age", o.maxAge)

CommonHeaders(o, origin) ==
  {<<"Access-Control-Allow-Origin", origin>>}
    \cup Only("Access-Control-Allow-Credentials", IF o.credentials THEN "true" ELSE NoHeader)
    \cup Only("Access-Control-Expose-Headers", o.exposedHeaders)

(* The headers set, those added to Vary, and whether the request ends here. *)
Handle(o, r) ==
  LET origin == IF r.origin = NoHeader THEN NoHeader ELSE MatchOrigin(o, r.origin) IN
  IF origin = NoHeader THEN [headers |-> {}, vary |-> {}, ended |-> FALSE]
  ELSE [headers |-> CommonHeaders(o, origin) \cup (IF IsPreflight(r) THEN PreflightHeaders(o, r) ELSE {}),
        vary |-> Vary(o, r),
        ended |-> IsPreflight(r) /\ ~o.preflightContinue]

-----------------------------------------------------------------------------
(* Properties *)

(* Does a cache that keeps the answer to r give it to s?  It goes by the    *)
(* Vary of the answer it has kept, and that alone.                          *)
Reused(o, r, s) ==
  LET vary == Handle(o, r).vary IN
  /\ "Origin" \in vary => s.origin = r.origin
  /\ "Access-Control-Request-Headers" \in vary => s.requestHeaders = r.requestHeaders

(* The answers that do not name all that they depend on: that to an origin  *)
(* that is refused, which has no Vary, and, where the option leaves the     *)
(* headers to the request, that to a preflight which asks for none.         *)
Unmarked(o, r) ==
  \/ Handle(o, r).headers = {}
  \/ IsPreflight(r) /\ o.allowedHeaders = NoHeader /\ r.requestHeaders = NoHeader

(* What a browser asks of an answer: none allows every origin together with *)
(* credentials, which browsers refuse; and no answer that a cache has kept  *)
(* allows a request anything that its own answer would not: it is the same  *)
(* answer, or lacks headers because it is an unmarked one.  Stated of       *)
(* requests of one method, both preflights or neither; one without an       *)
(* origin is not looked at by browsers.                                     *)
AnswersFit(o, requests) ==
  /\ \A r \in requests :
       LET h == Handle(o, r).headers IN
       <<"Access-Control-Allow-Origin", "*">> \in h => <<"Access-Control-Allow-Credentials", "true">> \notin h
  /\ \A r, s \in requests :
       r.method = s.method /\ (IsPreflight(r) <=> IsPreflight(s)) /\ s.origin # NoHeader /\ Reused(o, r, s) =>
         /\ Handle(o, r).headers \subseteq Handle(o, s).headers
         /\ Unmarked(o, r) \/ Handle(o, r).headers = Handle(o, s).headers
=============================================================================
