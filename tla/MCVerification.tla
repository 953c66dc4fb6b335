--------------------------- MODULE MCVerification ---------------------------
EXTENDS Verification

(* A plan edits the parsed file, breaks it, or moves it over the other. *)
MCPlans == {[a |-> "edited"], [a |-> "broken"], [a |-> "none", b |-> "edited"]}

Configured(policy) == [config |-> TRUE, markers |-> {}, policy |-> policy]

(* A formatter over the repository and a check that declares writes; a      *)
(* formatter run on request only; tests that run in parallel; a Go module   *)
(* without configuration; an invalid configuration.                        *)
MCProjects ==
  {Configured([DefaultPipelinePolicy EXCEPT
      !.mode = "transform", !.scope = "whole_repository", !.transform = <<Command("fmt", FALSE, {"a", "b"})>>,
      !.gate = <<Command("fmt -l", FALSE, {})>>, !.check = <<Command("generate", FALSE, {"b"})>>]),
   Configured([DefaultPipelinePolicy EXCEPT !.transform = <<Command("fmt", FALSE, {})>>]),
   Configured([DefaultPipelinePolicy EXCEPT !.maxParallel = 2,
      !.tests = <<Command("unit", TRUE, {}), Command("e2e", TRUE, {}), Command("slow", FALSE, {})>>]),
   [config |-> FALSE, markers |-> {"go.mod", "make test"}],
   Configured([DefaultPipelinePolicy EXCEPT !.maxParallel = 9])}

MCUserCaps == [maxChanged |-> 1, maxParallel |-> 0]
=============================================================================
