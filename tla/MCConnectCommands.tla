-------------------------- MODULE MCConnectCommands --------------------------
(* The Connect control plane for model checking.                            *)
EXTENDS ConnectCommands, TLC

\* Interchangeable executions and refresh commands.
Symmetry == Permutations(Executions) \cup Permutations(Refreshes)

=============================================================================
