------------------------- MODULE MCRevenueAutopilot -------------------------
(* The revenue autopilot for model checking: symmetry.                      *)
EXTENDS RevenueAutopilot, TLC

Symmetry == Permutations(Runs) \cup Permutations(Requests)

=============================================================================
