----------------------------- MODULE Computations -----------------------------
(* What is said once and computed in several places, or kept of many values *)
(* in a few: a filter and a search, a question asked of the hub, a rule, and*)
(* the schema made of samples.  The four share no state.                    *)
EXTENDS Queries, HubQueries, Rules, SchemaInference

VARIABLE part       \* what a behaviour is about: it never changes

ComputationsSpec ==
    QuerySpec /\ HubQueriesSpec /\ RuleSpec /\ InferenceSpec /\ [][part' = part]_part

-----------------------------------------------------------------------------
(* The places agree: the rows that a filter selects in a tab and in both    *)
(* engines, the answers of the hub and of a tab that has the rows, the rows *)
(* a rule fires on in the client and in the engine, and the schema with     *)
(* every value that was sampled.  Each is looked at in the behaviours that  *)
(* are about it.                                                            *)
ComputationsAgree ==
    /\ part = "queries" => GridsSelectAlike
    /\ part = "answers" => HubAnswersAsTabs
    /\ part = "rules"   => RulesMeanTheSame
    /\ part = "schema"  => ArtifactFitsSamples
=============================================================================
