----------------------------- MODULE WriteQueue -----------------------------
(***************************************************************************)
(* The sending half of a Session (send, do_write, handle_error), the same  *)
(* in all chat programs.  send posts a handler to the io threads; it tests *)
(* whether the queue is empty, pushes its message and begins to write when *)
(* it was.  do_write takes a message out of the queue before it has been   *)
(* written, so that an empty queue does not mean that nothing is written.  *)
(* Only the pop is under the mutex.                                        *)
(***************************************************************************)
EXTENDS Integers, Sequences, FiniteSets, Functions

CONSTANTS MaxPosts,     \* messages sent
          ThreadCounts  \* possible numbers of io threads

VARIABLES
    threads,    \* io threads
    posted,     \* sends posted so far; handler n is for message n
    begun,      \* handlers begun: the io_context runs them in order
    sendQueue,
    chain,      \* handler -> where it is, or where the writes it began are
    wire,       \* what the socket took: [msg, whole]
    emptied,    \* front() and pop() of an empty queue
    late,       \* history: messages pushed in the belief that somebody was
                \* writing, into a queue that was empty again
    failed      \* history: a write ended with an error

writeVars == <<threads, posted, begun, sendQueue, chain, wire, emptied, late, failed>>
Sends     == 1..MaxPosts

(* "test" "push" "pop" "wrote" are steps of a thread; during "flying" the  *)
(* kernel has the message.                                                 *)
Init ==
    /\ threads \in ThreadCounts
    /\ posted = 0 /\ begun = 0 /\ sendQueue = <<>> /\ wire = <<>>
    /\ chain = [n \in Sends |-> [at |-> "none", busy |-> FALSE, msg |-> 0]]
    /\ emptied = FALSE /\ late = {} /\ failed = FALSE

Running == {n \in Sends : chain[n].at \in {"test", "push", "pop", "wrote"}}
Goes(n, at) == chain' = [chain EXCEPT ![n].at = at]

Send ==
    /\ posted < MaxPosts /\ posted' = posted + 1
    /\ UNCHANGED <<threads, begun, sendQueue, chain, wire, emptied, late, failed>>

Begin ==
    /\ begun < posted /\ Cardinality(Running) < threads
    /\ begun' = begun + 1 /\ Goes(begun + 1, "test")
    /\ UNCHANGED <<threads, posted, sendQueue, wire, emptied, late, failed>>

Test(n) ==
    /\ chain[n].at = "test"
    /\ chain' = [chain EXCEPT ![n].at = "push", ![n].busy = (sendQueue # <<>>)]
    /\ UNCHANGED <<threads, posted, begun, sendQueue, wire, emptied, late, failed>>

Push(n) ==
    /\ chain[n].at = "push"
    /\ sendQueue' = Append(sendQueue, n)
    /\ Goes(n, IF chain[n].busy THEN "done" ELSE "pop")
    /\ late' = IF chain[n].busy /\ sendQueue = <<>> THEN late \cup {n} ELSE late
    /\ UNCHANGED <<threads, posted, begun, wire, emptied, failed>>

do_write(n) ==
    /\ chain[n].at = "pop"
    /\ IF sendQueue = <<>>
       THEN emptied' = TRUE /\ Goes(n, "done") /\ UNCHANGED sendQueue
       ELSE /\ chain' = [chain EXCEPT ![n].at = "flying", ![n].msg = Head(sendQueue)]
            /\ sendQueue' = Tail(sendQueue) /\ UNCHANGED emptied
    /\ UNCHANGED <<threads, posted, begun, wire, late, failed>>

(* async_write_some writes the whole message or the first part of it; the  *)
(* rest is never written.                                                  *)
Written(n) ==
    /\ chain[n].at = "flying"
    /\ \E whole \in BOOLEAN : wire' = Append(wire, [msg |-> chain[n].msg, whole |-> whole])
    /\ Goes(n, "flown")
    /\ UNCHANGED <<threads, posted, begun, sendQueue, emptied, late, failed>>

(* handle_error only writes a line, or closes the socket: the chain ends.  *)
WriteFails(n) ==
    /\ chain[n].at = "flying" /\ Goes(n, "done") /\ failed' = TRUE
    /\ UNCHANGED <<threads, posted, begun, sendQueue, wire, emptied, late>>

Complete(n) ==
    /\ chain[n].at = "flown" /\ Cardinality(Running) < threads
    /\ Goes(n, "wrote")
    /\ UNCHANGED <<threads, posted, begun, sendQueue, wire, emptied, late, failed>>

StopsWriting(n) ==   \* mutant: one message for each handler
    /\ chain[n].at = "wrote" /\ Goes(n, "done")
    /\ UNCHANGED <<threads, posted, begun, sendQueue, wire, emptied, late, failed>>
WriteNext(n) ==
    /\ chain[n].at = "wrote" /\ Goes(n, IF sendQueue # <<>> THEN "pop" ELSE "done")
    /\ UNCHANGED <<threads, posted, begun, sendQueue, wire, emptied, late, failed>>

Next ==
    \/ Send \/ Begin
    \/ \E n \in Sends : Test(n) \/ Push(n) \/ do_write(n) \/ Written(n)
                        \/ WriteFails(n) \/ Complete(n) \/ WriteNext(n)

Spec == Init /\ [][Next]_writeVars

----------------------------------------------------------------------------
OnWire == {wire[i].msg : i \in DOMAIN wire}
Asleep == \A n \in Sends : chain[n].at \in {"none", "done"}

(* No message is given to the socket twice.  With one io thread each is    *)
(* given to it by its own handler and the queue never holds a second one.  *)
(* With more, the queue may be popped when it is empty; and when nobody    *)
(* writes any more, messages are left in the queue, for good, only after   *)
(* an error or behind one pushed after the last writer had looked.         *)
WritesExplained ==
    /\ IsInjective([i \in DOMAIN wire |-> wire[i].msg])
    /\ OnWire \cap Range(sendQueue) = {}
    /\ threads = 1 => /\ ~emptied /\ late = {} /\ Len(sendQueue) <= 1
                      /\ \A n \in Sends : chain[n].msg \in {0, n}
    /\ (Asleep /\ sendQueue # <<>>) => sendQueue[1] \in late \/ failed
=============================================================================
