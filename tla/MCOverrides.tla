---------------------------- MODULE MCOverrides ----------------------------
(* The values are interchangeable, so the run starts with one contact.      *)
EXTENDS BookingOverrides

CONSTANTS v1, v2

MCValues == {v1, v2}

MCInit ==
  /\ Init
  /\ provider[Contact] = v1

MCSpec == MCInit /\ [][Next]_vars /\ Fairness
=============================================================================
