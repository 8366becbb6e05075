------------------------------ MODULE MCRouting ------------------------------
(***************************************************************************)
(* Routing for TLC: four profiles of three providers, one of them of a     *)
(* kind no adapter implements, and four routes.                            *)
(***************************************************************************)
EXTENDS Routing, TLC

CONSTANTS s1, s2

Symmetry == Permutations({s1, s2})

MCProfiles == {"luna", "claude", "flash", "responses"}
MCProvider == [p \in MCProfiles |->
    CASE p = "luna" -> "openai" [] p = "claude" -> "anthropic" [] p = "flash" -> "gemini"
      [] p = "responses" -> "openai_responses"]
MCSource == [p \in MCProfiles |-> IF p = "responses" THEN "luna" ELSE p]
MCRetries == [p \in MCProfiles |-> IF p = "claude" THEN 1 ELSE 0]

Route == [explorer |-> FALSE, primary |-> "luna", clean |-> NoProfile, fallbacks |-> <<>>,
          gemini |-> FALSE, personal |-> FALSE, normal |-> 1, recovery |-> 1]

\* Explorer's route for two model calls, one that opts Gemini in for every packet,
\* one for clean packets only, and one the process refuses to start with.
MCRoutes ==
    {[Route EXCEPT !.explorer = TRUE, !.normal = 2],
     [Route EXCEPT !.fallbacks = <<"flash">>, !.gemini = TRUE, !.personal = TRUE],
     [Route EXCEPT !.clean = "flash", !.fallbacks = <<"claude", "flash">>, !.gemini = TRUE],
     [Route EXCEPT !.fallbacks = <<"responses">>]}
=============================================================================
