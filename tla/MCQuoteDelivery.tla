--------------------------- MODULE MCQuoteDelivery ---------------------------
(* Quote delivery for model checking: bounds and symmetry.                  *)
EXTENDS QuoteDelivery, TLC

Symmetry == Permutations(Invocations) \cup Permutations(Payloads)

=============================================================================
