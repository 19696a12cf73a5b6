---------------------------- MODULE MCReminders ----------------------------
(* Model values for the runs of ReminderDeliveries.                         *)
EXTENDS ReminderDeliveries, TLC

CONSTANTS r1, r2, s1, s2

MCDispatchers == {r1, r2}
MCSyncers     == {s1, s2}

RunSymmetry == Permutations(MCDispatchers) \cup Permutations(MCSyncers)
=============================================================================
