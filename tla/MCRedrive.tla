----------------------------- MODULE MCRedrive -----------------------------
(* Two messages that are received together or alone, and two lambdas.       *)
EXTENDS Redrive, TLC

CONSTANTS m1, m2, w1, w2

MCBatches == {<<m1>>, <<m2>>, <<m1, m2>>}

=============================================================================
