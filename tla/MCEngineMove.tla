---------------------------- MODULE MCEngineMove ----------------------------
(* A small instance of EngineMove for TLC. *)
EXTENDS EngineMove

(* Two openings that begin alike, one forced; a forced one that meets an    *)
(* answer the engine may not list; and one that ends before Black's moves   *)
(* do, like "sicilian-closed-variation".                                    *)
MCPrefs == <<
    [white |-> <<"e4", "Nf3">>, black |-> <<"c5", "d6">>, force |-> TRUE,  factor |-> 2],
    [white |-> <<"e4">>,        black |-> <<"c5", "e6">>, force |-> FALSE, factor |-> 2],
    [white |-> <<"e4", "Nf3">>, black |-> <<"e6", "d6">>, force |-> FALSE, factor |-> 3],
    [white |-> <<"d4", "Nf3">>, black |-> <<"d6", "c5">>, force |-> TRUE,  factor |-> 2] >>

Step(m, w) == [move |-> m, weight |-> w]

MCCatalog == {
    [eco |-> "A46", lines |-> {<<Step("d4", 2), Step("e6", 2)>>,
                               <<Step("d4", 2), Step("c5", 1)>>}],
    [eco |-> "B50", lines |-> {<<Step("e4", 3), Step("c5", 1), Step("Nf3", 3), Step("d6", 0)>>}],
    [eco |-> "C50", lines |-> {<<Step("e4", 3), Step("c5", 2)>>,
                               <<Step("d4", 1), Step("e6", 3)>>}] }

MCStyle   == {{"A46"}, {"A46", "B50"}}
MCWeights == <<7, 2, 0>>
=============================================================================
