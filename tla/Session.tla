------------------------------- MODULE Session -------------------------------
(***************************************************************************)
(* The receiving half of a chat session (ix::m_boost::session::Session):   *)
(* it reads a TCP stream in pieces of any size, cuts it into fragments,    *)
(* puts fragments together to messages and hands these to data_handler.    *)
(* All of this runs on io threads that share one io_context, without a     *)
(* strand: the handlers that were posted are started in order, but as many *)
(* of them run at a time as there are threads.                             *)
(*                                                                         *)
(* The peer frames its messages as Client::send_to does, or as             *)
(* Server::transmitMessage does.  Bytes are not looked at: a byte of the   *)
(* stream is known by its frame and its place in it.                       *)
(***************************************************************************)
EXTENDS Naturals, Sequences, FiniteSets, Folds

CONSTANTS Threads,      (* the io threads                                   *)
          Peer,         (* which framing the peer uses: one of Framings     *)
          HeaderSize,   (* sizeof(S2C_agreement)                            *)
          MAX_FRAGMENT_SIZE, (* of the body of a fragment                   *)
          TmpSize,      (* sizeof(tmpBuf)                                   *)
          MaxMessages,  (* bound: how many messages the peer sends          *)
          Sizes         (* how long they are                                *)

Framings == {"send_to", "transmitMessage"}

ASSUME SessionAssumption == /\ IsFiniteSet(Threads)
                            /\ Peer \in Framings
                            /\ {HeaderSize, MAX_FRAGMENT_SIZE, TmpSize} \subseteq Nat \ {0}
                            /\ HeaderSize < MAX_FRAGMENT_SIZE
                            /\ MaxMessages \in Nat
                            /\ Sizes \subseteq Nat \ {0}

Messages == 1..MaxMessages

VARIABLES
  size,       (* per message: its length, or 0 while it is not sent         *)
  sent,       (* history: the frames written to the stream, in order        *)
  wire,       (* bytes in the stream that were not read yet                 *)
  peer,       (* the peer's end of the connection: open, closed or reset    *)
  reading,    (* async_read_some is pending                                 *)
  tmpBuf,     (* what the last read returned                                *)
  recvBuffer,
  segments,   (* per message id: the fragments kept                         *)
  posted,     (* the handlers posted to the io_context and not yet started  *)
  io,         (* what each io thread executes                               *)
  parsed,     (* history: how many frames were cut off recvBuffer           *)
  handled,    (* history: what data_handler was called with                 *)
  gone        (* data_handler was told that the peer disconnected           *)
stream == <<size, sent, wire, peer>>
vars == <<stream, reading, tmpBuf, recvBuffer, segments, posted, io, parsed, handled, gone>>

-----------------------------------------------------------------------------
(* The peer: framing *)

FragmentsCount(total) == (total + MAX_FRAGMENT_SIZE) \div MAX_FRAGMENT_SIZE

\* remainingSize before fragment f: transmitMessage takes off the header too
\* little for every fragment.
RemainingSize(total, f) ==
  total - f * (MAX_FRAGMENT_SIZE - (IF Peer = "transmitMessage" THEN HeaderSize ELSE 0))

AtMost(x, y) == IF x < y THEN x ELSE y

ThisSize(total, f) == AtMost(RemainingSize(total, f), MAX_FRAGMENT_SIZE)

\* Each fragment carries the first bytes of the message, whichever it is.
Frame(m, total, f) == [MessageId |-> m, FragmentId |-> f, thisSize |-> ThisSize(total, f),
                       FragmentsCount |-> FragmentsCount(total)]

\* Byte k of frame i.
Byte(i, k) == [frame |-> i, at |-> k]
Bytes(i, fr) == [k \in 1..(HeaderSize + fr.thisSize) |-> Byte(i, k)]

FramesOf(m) == {i \in DOMAIN sent : sent[i].MessageId = m}

Write(fr) == /\ sent' = Append(sent, fr)
             /\ wire' = wire \o Bytes(Len(sent) + 1, fr)

Unchanged == UNCHANGED <<reading, tmpBuf, recvBuffer, segments, posted, io, parsed, handled, gone>>

\* The first fragment of a new message ...
SendFirst(total) == /\ peer = "open"
                    /\ \E m \in Messages :
                         /\ size[m] = 0
                         /\ \A n \in 1..(m - 1) : size[n] # 0
                         /\ size' = [size EXCEPT ![m] = total]
                         /\ Write(Frame(m, total, 0))
                    /\ UNCHANGED peer
                    /\ Unchanged

\* ... and its others: several threads may send at a time.
SendNext(m) == /\ peer = "open"
               /\ size[m] # 0
               /\ LET f == Cardinality(FramesOf(m))
                  IN  /\ f < FragmentsCount(size[m])
                      /\ Write(Frame(m, size[m], f))
               /\ UNCHANGED <<size, peer>>
               /\ Unchanged

\* The peer closes its end, or the connection breaks and what is under way is lost.
Hangup == /\ peer = "open"
          /\ \/ peer' = "closed" /\ UNCHANGED wire
             \/ peer' = "reset" /\ wire' = <<>>
          /\ UNCHANGED <<size, sent>>
          /\ Unchanged

-----------------------------------------------------------------------------
(* do_read and handle_error *)

Idle(t) == io[t].type = "idle"
Run(t, task) == io' = [io EXCEPT ![t] = task]
Task(type) == [type |-> type]
Post(task) == posted' = Append(posted, task)

\* The read completes with some bytes; its handler starts on a thread.
ReadSome(t) == /\ Idle(t)
               /\ reading
               /\ \E n \in 1..AtMost(Len(wire), TmpSize) :
                    /\ tmpBuf' = SubSeq(wire, 1, n)
                    /\ wire' = SubSeq(wire, n + 1, Len(wire))
               /\ reading' = FALSE
               /\ Run(t, Task("received"))
               /\ UNCHANGED <<size, sent, peer, recvBuffer, segments, posted, parsed, handled, gone>>

\* Mutant: the next read is started before the data were processed.
ReceivedReadOn(t) ==
  /\ io[t].type = "received"
  /\ recvBuffer' = recvBuffer \o tmpBuf
  /\ reading' = TRUE
  /\ Post(Task("process"))
  /\ Run(t, Task("idle"))
  /\ UNCHANGED <<stream, tmpBuf, segments, parsed, handled, gone>>

Received(t) == /\ io[t].type = "received"
               /\ recvBuffer' = recvBuffer \o tmpBuf
               /\ Post(Task("process"))
               /\ Run(t, Task("idle"))
               /\ UNCHANGED <<stream, reading, tmpBuf, segments, parsed, handled, gone>>

\* Mutant: the handler is called from handle_error instead of being posted.
ReadEofAtOnce(t) == /\ Idle(t)
                    /\ reading /\ wire = <<>> /\ peer = "closed"
                    /\ reading' = FALSE
                    /\ gone' = TRUE
                    /\ Run(t, Task("disconnect"))
                    /\ UNCHANGED <<stream, tmpBuf, recvBuffer, segments, posted, parsed, handled>>

\* Mutant: the end of the stream is treated as any other error.
ReadEofSilently(t) == /\ Idle(t)
                      /\ reading /\ wire = <<>> /\ peer = "closed"
                      /\ reading' = FALSE
                      /\ UNCHANGED <<stream, tmpBuf, recvBuffer, segments, posted, io, parsed,
                                     handled, gone>>

\* The peer has closed: disconnect() posts a last call of data_handler.
ReadEof(t) == /\ Idle(t)
              /\ reading /\ wire = <<>> /\ peer = "closed"
              /\ reading' = FALSE
              /\ Post(Task("disconnect"))
              /\ UNCHANGED <<stream, tmpBuf, recvBuffer, segments, io, parsed, handled, gone>>

\* Any other error ends the reading and tells nobody.
ReadError(t) == /\ Idle(t)
                /\ reading /\ peer = "reset"
                /\ reading' = FALSE
                /\ UNCHANGED <<stream, tmpBuf, recvBuffer, segments, posted, io, parsed, handled, gone>>

-----------------------------------------------------------------------------
(* process_data *)

\* An io thread takes the handler that was posted first.
Start(t) == /\ Idle(t)
            /\ posted # <<>>
            /\ Run(t, Head(posted))
            /\ posted' = Tail(posted)
            /\ gone' = (gone \/ Head(posted).type = "disconnect")
            /\ UNCHANGED <<stream, reading, tmpBuf, recvBuffer, segments, parsed, handled>>

\* What the first bytes of recvBuffer say, read as a header.
Header == sent[Head(recvBuffer).frame]

\* Mutant: a frame is only taken once a byte more is there.
HasMore == /\ Len(recvBuffer) >= HeaderSize
           /\ Len(recvBuffer) > HeaderSize + Header.thisSize

\* trimAndGetHeader: a whole header and the whole body that it announces.
HasFrame == /\ Len(recvBuffer) >= HeaderSize
            /\ Len(recvBuffer) >= HeaderSize + Header.thisSize

\* Mutant: the size in the header counts the header.
BodyInclusive(h) == SubSeq(recvBuffer, 1, h.thisSize)

Body(h) == SubSeq(recvBuffer, HeaderSize + 1, HeaderSize + h.thisSize)

\* Mutant: neither header nor body is erased.
RestKept(h) == recvBuffer

Rest(h) == SubSeq(recvBuffer, HeaderSize + h.thisSize + 1, Len(recvBuffer))

\* A body is emplaced under its FragmentId; what is there already stays.
Emplaced(fragments, f, body) ==
  [g \in DOMAIN fragments \cup {f} |-> IF g \in DOMAIN fragments THEN fragments[g] ELSE body]

\* `auto fragments = segments[id].fragments` is a copy, and operator[] makes the
\* entry if it is missing.
FragmentsCopy(m) == IF m \in DOMAIN segments THEN segments[m] ELSE <<>>

\* merge_fragments: every fragment goes in front of those before it.  There is
\* one fragment whenever this is reached, and its FragmentId is 0.
merge_fragments(fragments) ==
  MapThenFoldSet(LAMBDA body, full : body \o full, <<>>,
                 LAMBDA f : fragments[f], LAMBDA S : CHOOSE f \in S : \A g \in S : f >= g,
                 DOMAIN fragments)

\* One turn of process_data's loop.
ParseFrame(t) ==
  /\ io[t].type = "process"
  /\ HasFrame
  /\ LET h         == Header
         m         == h.MessageId
         fragments == Emplaced(FragmentsCopy(m), h.FragmentId, Body(h))
     IN  /\ recvBuffer' = Rest(h)
         /\ IF Cardinality(DOMAIN fragments) = h.FragmentsCount
            THEN /\ segments' = [n \in DOMAIN segments \ {m} |-> segments[n]]
                 /\ Post([type |-> "message", id |-> m, data |-> merge_fragments(fragments)])
            ELSE /\ segments' = [n \in DOMAIN segments \cup {m} |-> FragmentsCopy(n)]
                 /\ UNCHANGED posted
  /\ parsed' = parsed + 1
  /\ UNCHANGED <<stream, reading, tmpBuf, io, handled, gone>>

\* Mutant: a header is erased before its body is there.
ReadOnTrimmed(t) ==
  /\ io[t].type = "process"
  /\ ~HasFrame
  /\ reading' = TRUE
  /\ recvBuffer' = IF Len(recvBuffer) < HeaderSize THEN recvBuffer
                   ELSE SubSeq(recvBuffer, HeaderSize + 1, Len(recvBuffer))
  /\ Run(t, Task("idle"))
  /\ UNCHANGED <<stream, tmpBuf, segments, posted, parsed, handled, gone>>

\* Nothing more to cut off: do_read starts the next read.
ReadOn(t) == /\ io[t].type = "process"
             /\ ~HasFrame
             /\ reading' = TRUE
             /\ Run(t, Task("idle"))
             /\ UNCHANGED <<stream, tmpBuf, recvBuffer, segments, posted, parsed, handled, gone>>

\* data_handler returns, or throws and is caught.
Handle(t) == /\ io[t].type \in {"message", "disconnect"}
             /\ handled' = IF io[t].type = "message"
                           THEN Append(handled, [id |-> io[t].id, data |-> io[t].data])
                           ELSE handled
             /\ Run(t, Task("idle"))
             /\ UNCHANGED <<stream, reading, tmpBuf, recvBuffer, segments, posted, parsed, gone>>

-----------------------------------------------------------------------------
Init == /\ size = [m \in Messages |-> 0]
        /\ sent = <<>> /\ wire = <<>> /\ peer = "open"
        /\ reading = TRUE              \* the accept handler calls do_read
        /\ tmpBuf = <<>> /\ recvBuffer = <<>>
        /\ segments = <<>>
        /\ posted = <<>>
        /\ io = [t \in Threads |-> Task("idle")]
        /\ parsed = 0 /\ handled = <<>> /\ gone = FALSE

PeerSteps == (\E n \in Sizes : SendFirst(n)) \/ (\E m \in Messages : SendNext(m)) \/ Hangup

IoThread(t) == \/ ReadSome(t) \/ Received(t) \/ ReadEof(t) \/ ReadError(t)
               \/ Start(t) \/ ParseFrame(t) \/ ReadOn(t) \/ Handle(t)

Next == PeerSteps \/ \E t \in Threads : IoThread(t)

Spec == Init /\ [][Next]_vars

\* The io threads run; the peer has to do nothing.
FairSpec == Spec /\ \A t \in Threads : WF_vars(IoThread(t))
-----------------------------------------------------------------------------
TypeOK ==
  /\ size \in [Messages -> Sizes \cup {0}]
  /\ sent \in Seq([MessageId : Messages, FragmentId : Nat, thisSize : 0..MAX_FRAGMENT_SIZE,
                   FragmentsCount : Nat \ {0}])
  /\ {wire, tmpBuf, recvBuffer} \subseteq Seq([frame : DOMAIN sent, at : Nat \ {0}])
  /\ peer \in {"open", "closed", "reset"}
  /\ {reading, gone} \subseteq BOOLEAN
  /\ \A m \in DOMAIN segments : m \in Messages /\ segments[m] = <<>>
  /\ \A i \in DOMAIN posted : posted[i].type \in {"process", "message", "disconnect"}
  /\ \A t \in Threads :
       io[t].type \in {"idle", "received", "process", "message", "disconnect"}
  /\ parsed \in 0..Len(sent)
  /\ handled \in Seq([id : Messages, data : Seq([frame : DOMAIN sent, at : Nat \ {0}])])

Executing(type) == {t \in Threads : io[t].type = type}

\* A session's reading is one chain although any io thread may run its links:
\* at most one of a pending read, its handler, and process_data, posted or
\* running.  That is why tmpBuf, recvBuffer and segments need no mutex.
ChainAlone ==
  (IF reading THEN 1 ELSE 0) + Cardinality(Executing("received"))
    + Cardinality(Executing("process"))
    + Cardinality({i \in DOMAIN posted : posted[i].type = "process"}) <= 1

LastByte(i) == HeaderSize + sent[i].thisSize

Follows(b, c) == c = IF b.at < LastByte(b.frame) THEN Byte(b.frame, b.at + 1)
                                                 ELSE Byte(b.frame + 1, 1)

\* What was received and not yet cut into frames.
Unparsed == recvBuffer \o IF Executing("received") = {} THEN <<>> ELSE tmpBuf

\* process_data never loses its place: what follows the frames it has cut off
\* is the next frame that was sent, from its first byte on, with no byte
\* missing, up to the end of what was sent.
Framed ==
  LET rest == Unparsed \o wire
  IN  /\ rest # <<>> => Head(rest) = Byte(parsed + 1, 1)
      /\ \A i \in 1..(Len(rest) - 1) : Follows(rest[i], rest[i + 1])
      /\ peer # "reset" =>
           IF rest = <<>> THEN parsed = Len(sent)
           ELSE rest[Len(rest)] = Byte(Len(sent), LastByte(Len(sent)))

\* A call of data_handler for message m: to come, being made, or made.
Calls(m) ==
  {<<"posted", i, posted[i].data>> : i \in {j \in DOMAIN posted :
                                  posted[j].type = "message" /\ posted[j].id = m}}
  \cup {<<"io", t, io[t].data>> : t \in {u \in Executing("message") : io[u].id = m}}
  \cup {<<"handled", i, handled[i].data>> : i \in {j \in DOMAIN handled : handled[j].id = m}}

\* data_handler gets a message once, and gets it whole: its bytes, all of them,
\* without the header.
HandledWholeAndOnce ==
  \A m \in Messages :
    /\ Cardinality(Calls(m)) <= 1
    /\ \A c \in Calls(m) : \E i \in FramesOf(m) :
         c[3] = [k \in 1..size[m] |-> Byte(i, HeaderSize + k)]

\* When data_handler is told that the peer has disconnected (and the server
\* erases the session), everything it sent was started on before.
NothingAfterDisconnect ==
  gone => /\ parsed = Len(sent)
          /\ posted = <<>>
          /\ ~reading
          /\ Executing("received") \cup Executing("process") = {}

Handled(m) == \E i \in DOMAIN handled : handled[i].id = m

\* A message that fits into one fragment is handled in the end.
ShortMessagesHandled ==
  \A m \in Messages :
    (size[m] \in 1..(MAX_FRAGMENT_SIZE - 1)) ~> (Handled(m) \/ peer = "reset")

\* When the peer closes the connection, data_handler is told.
CloseNoticed == (peer = "closed") ~> gone

\* What the io threads make of the stream together: the bytes not parsed yet are
\* the rest of it, in order; one step of the chain read - parse - read is under
\* way at a time; and what is handed over is what was sent.
StreamIntact == TypeOK /\ Framed /\ ChainAlone /\ HandledWholeAndOnce

\* The io threads get everything done that they can get done: a short message is
\* handled, the end of the stream is noticed.
StreamServed == ShortMessagesHandled /\ CloseNoticed

-----------------------------------------------------------------------------
\* "if the number of packets reaches the size that the header describes", the
\* message is complete and "handed over to data_handler".
LongMessagesHandled ==
  \A m \in Messages :
    (size[m] # 0 /\ Cardinality(FramesOf(m)) = FragmentsCount(size[m]))
      ~> (Handled(m) \/ peer = "reset")
=============================================================================
