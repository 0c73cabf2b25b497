---------------------------- MODULE MCTCPSession ----------------------------
(* An instance of TCPSession for TLC: QUIT is spelled "qt". *)
EXTENDS TCPSession

MCQuit == <<"q", "t">>
=============================================================================
