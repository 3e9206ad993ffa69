------------------------------- MODULE Channel -------------------------------
(***************************************************************************)
(* What a blocking bounded buffer promises its users, without threads,     *)
(* locks or condition variables.  Elements are numbered in the order in    *)
(* which they are accepted, so the contents are always the tickets         *)
(* taken + 1 .. sent, and a reader is handed exactly the next one.         *)
(*                                                                         *)
(* RingBuffer implements this specification (RingBuffer!Promise).          *)
(***************************************************************************)
EXTENDS Naturals

CONSTANTS Readers,   (* the threads that take elements                     *)
          Capacity   (* how many elements the channel holds at most        *)

VARIABLES sent,    (* how many elements were accepted                      *)
          taken,   (* how many of them have left the channel               *)
          ended,   (* the end of the stream was announced                  *)
          got,     (* per reader: the last ticket it was handed, or 0      *)
          closed   (* the readers that were told that the stream is over   *)
vars == <<sent, taken, ended, got, closed>>

-----------------------------------------------------------------------------
Init == /\ sent = 0
        /\ taken = 0
        /\ ended = FALSE
        /\ got = [r \in Readers |-> 0]
        /\ closed = {}

Put == /\ sent < taken + Capacity
       /\ sent' = sent + 1
       /\ UNCHANGED <<taken, ended, got, closed>>

Take(r) == /\ r \notin closed
           /\ taken < sent
           /\ taken' = taken + 1
           /\ got' = [got EXCEPT ![r] = taken + 1]
           /\ UNCHANGED <<sent, ended, closed>>

\* Everything not yet taken is thrown away.
Drain == /\ taken' = sent
         /\ UNCHANGED <<sent, ended, got, closed>>

End == /\ ended' = TRUE
       /\ UNCHANGED <<sent, taken, got, closed>>

\* A reader is told the stream is over only once nothing is left to take.
Close(r) == /\ ended
            /\ taken = sent
            /\ closed' = closed \cup {r}
            /\ UNCHANGED <<sent, taken, ended, got>>

Next == \/ Put
        \/ Drain
        \/ End
        \/ \E r \in Readers : Take(r) \/ Close(r)

Spec == Init /\ [][Next]_vars
=============================================================================
