------------------------- MODULE MCTCPServerAtomic -------------------------
(* Instances of TCPServerAtomic for TLC. *)
EXTENDS MCTCPServer, TCPServerAtomic
=============================================================================
