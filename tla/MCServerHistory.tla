-------------------------- MODULE MCServerHistory --------------------------
(* Instances of ServerHistory for TLC. *)
EXTENDS MCTCPServer, ServerHistory
=============================================================================
