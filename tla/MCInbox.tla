------------------------------ MODULE MCInbox ------------------------------
(* Model values for the runs of RegiondoWebhookInbox.                       *)
EXTENDS RegiondoWebhookInbox, TLC

CONSTANTS r1, r2

MCRunners == {r1, r2}

RunnerSymmetry == Permutations(MCRunners)
=============================================================================
