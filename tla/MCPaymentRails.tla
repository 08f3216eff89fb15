--------------------------- MODULE MCPaymentRails ---------------------------
(* The payment rails for model checking: bounds and symmetry.               *)
EXTENDS PaymentRails, TLC

RotationSymmetry == Permutations(Sessions) \cup Permutations(Approvals)

Symmetry == Permutations(Sessions) \cup Permutations(Workers)

=============================================================================
