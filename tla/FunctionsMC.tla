----------------------------- MODULE FunctionsMC -----------------------------
(***************************************************************************)
(* Two checks in one: the router over its routes and requests, as RouterMC *)
(* has them, and the functions of the other modules over samples of their  *)
(* inputs.  A behaviour either runs the router or takes one sample.        *)
(***************************************************************************)
EXTENDS RouterMC, InputChecks, CardSamples, RequestSamples, BuildSamples

SamplesChecked ==
  [table |-> Tables, cards |-> CardProjects, history |-> Histories,
   flat |-> FlatQueries, nested |-> NestedQueries, headers |-> ClientHeaders, cors |-> CorsOptions,
   body |-> Bodies, registry |-> Registries,
   directories |-> DirectoryTrees, imports |-> ImportWebs, build |-> BuildProjects \cup ByToken, container |-> ContainerRuns]

FunctionsInit == Init /\ SampleInit

RunFunction == Init /\ SampleNext /\ UNCHANGED vars

RunRouter == sample = NoSample /\ Next /\ UNCHANGED sample

FunctionsNext == RunFunction \/ RunRouter

FunctionsSpec == FunctionsInit /\ [][FunctionsNext]_<<vars, sample>>

-----------------------------------------------------------------------------
(* Properties *)

(* The tools that read the index (mcp-server.ts): get_subgraph gives what is *)
(* within the hops, trace_chain a shortest path, impact_analysis the cards   *)
(* that depend on one and their code, and tools that answer the same         *)
(* question agree.  The warning of a cycle of dependencies, for which the    *)
(* files are walked (verify-project.ts), is given exactly when there is one. *)
ReadsAreExact ==
  /\ Of("table") => Q!SubgraphIsBall(It) /\ Q!ChainIsShortest(It) /\ Q!ImpactIsDependents(It) /\ Q!ReadsAgree(It)
  /\ Of("cards") => CycleIsReported(It)

(* A query string is read as it was written (query-parser.ts), flat or       *)
(* nested, in each of the modes for repeated keys.                           *)
QueryIsRead ==
  /\ Of("flat") => S!FlatIsRead(It.o, It.qs)
  /\ Of("nested") => S!NestedIsRead(It.o, It.tree)

(* What a handler is given for a body (validation.pipe.ts) passes the checks *)
(* of its class, and would be handed on unchanged if it came again.          *)
ArgumentIsChecked ==
  Of("body") => P!ArgumentIsChecked(Metadata(It.own), It.c, It.v) /\ P!ConversionSettles(Metadata(It.own), It.c, It.v)
=============================================================================
