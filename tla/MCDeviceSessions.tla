-------------------------- MODULE MCDeviceSessions --------------------------
(* Browsers on a small instance; tokens and requests interchangeable.      *)
EXTENDS DeviceSessions, TLC

Symmetry == Permutations(Token) \cup Permutations(Request)
=============================================================================
