----------------------------- MODULE MCChatServer -----------------------------
(* ChatServer for TLC: io threads and users may be exchanged.               *)
EXTENDS ChatServer, TLC

Symmetry == Permutations(Threads) \cup Permutations(Users)
=============================================================================
