---------------------------- MODULE MCAnalysisRun ----------------------------
(* Small instances of AnalysisRun for TLC. *)
EXTENDS AnalysisRun, TLC

CONSTANTS market, social, indicators, talk, posts

(* The market analyst may ask for indicators; the social analyst fetches   *)
(* its two sources before it asks the model.                               *)
EachItsOwn == (market :> {indicators}) @@ (social :> {posts, talk})
=============================================================================
