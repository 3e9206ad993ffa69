---------------------------- MODULE Player_proofs ----------------------------
(***************************************************************************)
(* What holds of Player for every number of files opened, packets and      *)
(* slots of the ring, whatever kinds of file there are, and every order of *)
(* the user's doings but one: he is patient, that is, does not open a file *)
(* while one is opening (what happens otherwise is a hazard of its own).   *)
(***************************************************************************)
EXTENDS Player, SequenceTheorems, TLAPS

-----------------------------------------------------------------------------
(* The inductive invariant *)

FormatReady == \E i \in 1..Len(uiQueue) : uiQueue[i].type = "format_ready"
DecodeReady == decQueue # <<>> /\ Head(decQueue).type = "decode_ready"

\* A file that was clicked is in one place: asked for, ready, made, or decoded.
Queues ==
  /\ Len(decQueue) <= 1
  /\ \A i \in 1..Len(uiQueue) : uiQueue[i].type = "format_ready" => i = Len(uiQueue)
  /\ isDecoding => decQueue = <<>> /\ uiQueue = <<>>
  /\ FormatReady => /\ decQueue = <<>> /\ dpc = "idle"
                    /\ uiQueue[Len(uiQueue)].fmt = fmt
  /\ decQueue # <<>> => dpc \in {"idle", "report"}
  /\ DecodeReady => uiQueue = <<>> /\ dpc = "idle" /\ cur = Head(decQueue).play
  /\ upc \in {"f_check", "f_block", "f_wait"} => decQueue = <<>> /\ ~FormatReady

\* The play that the decoder feeds, or is about to feed, is the UI's, and it has
\* the threads that its format asks for.
Fits(p) == /\ p.life = "live"
           /\ fmt = "Video" => p.audio = "none"
           /\ fmt = "Audio" => p.render = "none"

Decoding ==
  /\ isDecoding => dpc # "idle" /\ using = cur
  /\ dpc \notin {"idle", "report"} => isDecoding
  /\ isDecoding \/ DecodeReady => cur \in Plays /\ fmt \in DecodeTypes /\ Fits(play[cur])
  /\ dpc = "await_render" => play[using].audio \in {"none", "done"}
  /\ dpc = "report" /\ isDecoding => Ended(using)

\* Every other play has ended.
OthersEnded == \A k \in Plays : Ended(k) \/ (k = cur /\ (isDecoding \/ DecodeReady))

DeletedEnded == \A k \in Plays : play[k].life = "deleted" => Ended(k)

IInv == TypeOK /\ Queues /\ Decoding /\ OthersEnded /\ DeletedEnded

-----------------------------------------------------------------------------
(* What the threads may do to a play *)

PlayRecord == [life : {"unmade", "live", "deleted"}, audio : AudioPCs,
               render : RenderPCs, ring : 0..RingCapacity, stopped : BOOLEAN,
               frames : Seq({"frame", "end"})]

Over == {"none", "done"}

\* Its objects stay, and a thread that is not there, or has ended, stays so.
Evolves(p, q) == /\ p \in PlayRecord /\ q \in PlayRecord
                 /\ q.life = p.life
                 /\ p.audio \in Over => q.audio = p.audio
                 /\ p.render \in Over => q.render = p.render

LEMMA Numbers == /\ MaxOpens \in Nat /\ MaxPackets \in Nat /\ RingCapacity \in Nat \ {0}
                 /\ NoPlay \notin Plays
  BY PlayerAssumption DEF Plays, NoPlay

LEMMA Same == ASSUME NEW p \in PlayRecord PROVE Evolves(p, p)
  BY DEF Evolves

LEMMA AudioMoves ==
  ASSUME NEW p \in PlayRecord, NEW a \in AudioPCs, p.audio \notin Over
  PROVE  Evolves(p, [p EXCEPT !.audio = a])
  BY DEF Evolves, PlayRecord

LEMMA RenderMoves ==
  ASSUME NEW p \in PlayRecord, NEW r \in RenderPCs, p.render \notin Over
  PROVE  Evolves(p, [p EXCEPT !.render = r])
  BY DEF Evolves, PlayRecord

LEMMA StoppedEvolves == ASSUME NEW p \in PlayRecord PROVE Evolves(p, Stopped(p))
<1>1. (IF p.audio = "r_wait" THEN "read" ELSE p.audio) \in AudioPCs
  BY DEF PlayRecord, AudioPCs
<1> QED
  BY <1>1 DEF Evolves, PlayRecord, Stopped, Over

LEMMA WrittenEvolves ==
  ASSUME NEW p \in PlayRecord, p.ring < RingCapacity
  PROVE  Evolves(p, Written(p))
<1>1. (IF p.audio = "r_wait" THEN "read" ELSE p.audio) \in AudioPCs
  BY DEF PlayRecord, AudioPCs
<1>2. p.ring + 1 \in 0..RingCapacity
  BY Numbers DEF PlayRecord
<1> QED
  BY <1>1, <1>2 DEF Evolves, PlayRecord, Written, Over

LEMMA ClearedEvolves == ASSUME NEW p \in PlayRecord PROVE Evolves(p, Cleared(p))
<1>1. 0 \in 0..RingCapacity
  BY Numbers
<1>2. <<>> \in Seq({"frame", "end"})
  BY EmptySeq
<1>3. [p EXCEPT !.ring = 0, !.frames = <<>>] \in PlayRecord
  BY <1>1, <1>2 DEF PlayRecord
<1> QED
  BY <1>3 DEF Evolves, PlayRecord, Cleared

LEMMA ShownEvolves ==
  ASSUME NEW p \in PlayRecord, NEW f \in {"frame", "end"}
  PROVE  Evolves(p, Shown(p, f))
<1>1. Append(p.frames, f) \in Seq({"frame", "end"})
  BY AppendProperties DEF PlayRecord
<1> QED
  BY <1>1 DEF Evolves, PlayRecord, Shown

LEMMA EmptiedEvolves ==
  ASSUME NEW p \in PlayRecord
  PROVE  Evolves(p, [p EXCEPT !.frames = <<>>])
<1>1. <<>> \in Seq({"frame", "end"})
  BY EmptySeq
<1>2. [p EXCEPT !.frames = <<>>] \in PlayRecord
  BY <1>1 DEF PlayRecord
<1> QED
  BY <1>2 DEF Evolves, PlayRecord

LEMMA WokenEvolves == ASSUME NEW p \in PlayRecord PROVE Evolves(p, Woken(p))
<1>1. (IF p.audio = "p_wait" THEN "loop" ELSE p.audio) \in AudioPCs
  BY DEF PlayRecord, AudioPCs
<1>2. (IF p.render = "p_wait" THEN "pause" ELSE p.render) \in RenderPCs
  BY DEF PlayRecord, RenderPCs
<1> QED
  BY <1>1, <1>2 DEF Evolves, PlayRecord, Woken, Over

LEMMA EvolvesTwice ==
  ASSUME NEW p, NEW q, NEW r, Evolves(p, q), Evolves(q, r)
  PROVE  Evolves(p, r)
  BY DEF Evolves

\* When a step changes the play k alone.
LEMMA OneEvolves ==
  ASSUME play \in [Plays -> PlayRecord], NEW k \in Plays, NEW q, Evolves(play[k], q),
         play' = [play EXCEPT ![k] = q]
  PROVE  /\ \A j \in Plays : Evolves(play[j], play'[j])
         /\ play' \in [Plays -> PlayRecord]
<1>1. q \in PlayRecord
  BY DEF Evolves
<1>2. ASSUME NEW j \in Plays PROVE Evolves(play[j], play'[j])
  <2>1. CASE j = k
    BY <2>1
  <2>2. CASE j # k
    BY <2>2, Same
  <2> QED
    BY <2>1, <2>2
<1> QED
  BY <1>1, <1>2

LEMMA NoneEvolves ==
  ASSUME play \in [Plays -> PlayRecord], UNCHANGED play
  PROVE  /\ \A j \in Plays : Evolves(play[j], play'[j])
         /\ play' \in [Plays -> PlayRecord]
  BY Same

LEMMA AllWake ==
  ASSUME play \in [Plays -> PlayRecord], NotifyPaused
  PROVE  /\ \A j \in Plays : Evolves(play[j], play'[j])
         /\ play' \in [Plays -> PlayRecord]
<1>1. \A j \in Plays : play'[j] = Woken(play[j])
  BY DEF NotifyPaused
<1>2. \A j \in Plays : Evolves(play[j], play'[j])
  BY <1>1, WokenEvolves
<1>3. \A j \in Plays : play'[j] \in PlayRecord
  BY <1>2 DEF Evolves
<1> QED
  BY <1>2, <1>3 DEF NotifyPaused

-----------------------------------------------------------------------------
(* Steps that leave the queues, isDecoding and the pointers alone *)

Waiting == {"f_check", "f_block", "f_wait"}

\* Where the decoder may go without telling anybody.
Onward == \/ dpc' = dpc
          \/ /\ dpc \notin {"idle", "report"}
             /\ dpc' # "idle"
             /\ dpc' = "await_render" => play'[using].audio \in Over
             /\ dpc' = "report" => Ended(using)'

LEMMA Evolving ==
  ASSUME IInv, TypeOK', \A k \in Plays : Evolves(play[k], play'[k]),
         UNCHANGED <<cur, uiQueue, isDecoding, using, fmt, decQueue>>,
         Onward, upc' \in Waiting => upc \in Waiting \/ isDecoding
  PROVE  IInv'
<1>1. dpc \notin {"idle", "report"} => isDecoding
  BY DEF IInv, Decoding
<1>2. UNCHANGED <<FormatReady, DecodeReady>>
  BY DEF FormatReady, DecodeReady
<1>3. isDecoding => decQueue = <<>> /\ uiQueue = <<>> /\ ~FormatReady /\ ~DecodeReady
  BY DEF IInv, Queues, FormatReady, DecodeReady
<1>4. \A k \in Plays : Ended(k) => Ended(k)'
  BY DEF Evolves, Ended, Over
<1>5. Queues'
  <2>1. /\ Len(decQueue') <= 1
        /\ \A i \in 1..Len(uiQueue') : uiQueue'[i].type = "format_ready" => i = Len(uiQueue')
        /\ isDecoding' => decQueue' = <<>> /\ uiQueue' = <<>>
    BY DEF IInv, Queues
  <2>2. FormatReady' => /\ decQueue' = <<>> /\ dpc' = "idle"
                        /\ uiQueue'[Len(uiQueue')].fmt = fmt'
    BY <1>1, <1>2, <1>3 DEF IInv, Queues, Onward
  <2>3. decQueue' # <<>> => dpc' \in {"idle", "report"}
    BY <1>1, <1>3 DEF IInv, Queues, Onward
  <2>4. DecodeReady' => uiQueue' = <<>> /\ dpc' = "idle" /\ cur' = Head(decQueue').play
    BY <1>1, <1>2, <1>3 DEF IInv, Queues, Onward
  <2>5. upc' \in Waiting => decQueue' = <<>> /\ ~FormatReady'
    BY <1>2, <1>3 DEF IInv, Queues, Waiting
  <2> QED
    BY <2>1, <2>2, <2>3, <2>4, <2>5 DEF Queues, Waiting
<1>6. Decoding'
  <2>1. isDecoding' => dpc' # "idle" /\ using' = cur'
    BY DEF IInv, Decoding, Onward
  <2>2. dpc' \notin {"idle", "report"} => isDecoding'
    BY DEF IInv, Decoding, Onward
  <2>3. ASSUME isDecoding \/ DecodeReady
        PROVE  cur' \in Plays /\ fmt' \in DecodeTypes /\ Fits(play[cur])'
    <3>1. cur \in Plays /\ fmt \in DecodeTypes /\ Fits(play[cur])
      BY <2>3 DEF IInv, Decoding
    <3>2. Evolves(play[cur], play'[cur])
      BY <3>1
    <3> QED
      BY <3>1, <3>2 DEF Fits, Evolves, Over
  <2>4. ASSUME dpc' = "await_render" PROVE play'[using].audio \in Over
    <3>1. CASE dpc = "await_render"
      <4>1. using \in Plays
        BY <3>1, <1>1 DEF IInv, Decoding
      <4> QED
        BY <3>1, <4>1 DEF IInv, Decoding, Evolves, Over
    <3>2. CASE dpc # "await_render"
      BY <2>4, <3>2 DEF Onward
    <3> QED
      BY <3>1, <3>2
  <2>5. ASSUME dpc' = "report", isDecoding PROVE Ended(using)'
    <3>1. CASE dpc = "report"
      <4>1. using \in Plays /\ Ended(using)
        BY <2>5, <3>1 DEF IInv, Decoding
      <4> QED
        BY <4>1, <1>4
    <3>2. CASE dpc # "report"
      BY <2>5, <3>2 DEF Onward
    <3> QED
      BY <3>1, <3>2
  <2> QED
    BY <1>2, <2>1, <2>2, <2>3, <2>4, <2>5 DEF Decoding, Over
<1>7. OthersEnded'
  BY <1>2, <1>4 DEF IInv, OthersEnded
<1>8. DeletedEnded'
  BY <1>4 DEF IInv, DeletedEnded, Evolves
<1> QED
  BY <1>5, <1>6, <1>7, <1>8 DEF IInv

-----------------------------------------------------------------------------
(* The audio and render threads, and the UI's waiting *)

\* What the type invariant says of all but the plays.
LEMMA TypeKept ==
  ASSUME TypeOK, play' \in [Plays -> PlayRecord],
         UNCHANGED <<cur, checked, uiQueue, opens, isPaused, isStoped, isDecoding, seek,
                     using, fmt, decQueue>>,
         upc' \in {"idle", "f_check", "f_block", "f_wait", "closing", "closed"},
         dpc' \in DecoderPCs, state' \in {"Running", "Flushing", "Finished"},
         left' \in 0..MaxPackets
  PROVE  TypeOK'
  BY DEF TypeOK, PlayRecord

LEMMA PlayTyped == ASSUME TypeOK PROVE play \in [Plays -> PlayRecord]
  BY DEF TypeOK, PlayRecord

LEMMA AudioEvolves ==
  ASSUME TypeOK, NEW k \in Plays, NEW a \in AudioPCs, AudioGoto(k, a),
         play[k].audio \notin Over
  PROVE  /\ \A j \in Plays : Evolves(play[j], play'[j])
         /\ play' \in [Plays -> PlayRecord]
<1>1. play \in [Plays -> PlayRecord] /\ play[k] \in PlayRecord
  BY PlayTyped
<1>2. PICK q : q = [play[k] EXCEPT !.audio = a]
  OBVIOUS
<1>3. Evolves(play[k], q)
  BY <1>1, <1>2, AudioMoves
<1>4. play' = [play EXCEPT ![k] = q]
  BY <1>2 DEF AudioGoto
<1> QED
  BY <1>1, <1>3, <1>4, OneEvolves

LEMMA RenderEvolves ==
  ASSUME TypeOK, NEW k \in Plays, NEW r \in RenderPCs, RenderGoto(k, r),
         play[k].render \notin Over
  PROVE  /\ \A j \in Plays : Evolves(play[j], play'[j])
         /\ play' \in [Plays -> PlayRecord]
<1>1. play \in [Plays -> PlayRecord] /\ play[k] \in PlayRecord
  BY PlayTyped
<1>2. PICK q : q = [play[k] EXCEPT !.render = r]
  OBVIOUS
<1>3. Evolves(play[k], q)
  BY <1>1, <1>2, RenderMoves
<1>4. play' = [play EXCEPT ![k] = q]
  BY <1>2 DEF RenderGoto
<1> QED
  BY <1>1, <1>3, <1>4, OneEvolves

LEMMA AudioReadEvolves ==
  ASSUME TypeOK, NEW k \in Plays, AudioRead(k)
  PROVE  /\ \A j \in Plays : Evolves(play[j], play'[j])
         /\ play' \in [Plays -> PlayRecord]
<1>1. play \in [Plays -> PlayRecord] /\ play[k] \in PlayRecord
  BY PlayTyped
<1>2. PICK q : q = [play[k] EXCEPT !.ring = @ - 1, !.audio = "loop"]
  OBVIOUS
<1>3. play[k].ring - 1 \in 0..RingCapacity
  BY <1>1, Numbers DEF PlayRecord, AudioRead
<1>4. q \in PlayRecord
  BY <1>1, <1>2, <1>3 DEF PlayRecord, AudioPCs
<1>5. Evolves(play[k], q)
  BY <1>1, <1>2, <1>4 DEF Evolves, AudioRead, AudioAt, Over, PlayRecord
<1>6. play' = [play EXCEPT ![k] = q]
  BY <1>2 DEF AudioRead
<1> QED
  BY <1>1, <1>5, <1>6, OneEvolves

LEMMA RenderPopEvolves ==
  ASSUME TypeOK, NEW k \in Plays, RenderPop(k)
  PROVE  /\ \A j \in Plays : Evolves(play[j], play'[j])
         /\ play' \in [Plays -> PlayRecord]
<1>1. play \in [Plays -> PlayRecord] /\ play[k] \in PlayRecord
  BY PlayTyped
<1>2. PICK q : q = [play[k] EXCEPT !.frames = Tail(@), !.render = "loop"]
  OBVIOUS
<1>3. Tail(play[k].frames) \in Seq({"frame", "end"})
  BY <1>1, HeadTailProperties DEF PlayRecord, RenderPop, Front
<1>4. q \in PlayRecord
  BY <1>1, <1>2, <1>3 DEF PlayRecord, RenderPCs
<1>5. Evolves(play[k], q)
  BY <1>1, <1>2, <1>4 DEF Evolves, RenderPop, RenderAt, Over, PlayRecord
<1>6. play' = [play EXCEPT ![k] = q]
  BY <1>2 DEF RenderPop
<1> QED
  BY <1>1, <1>5, <1>6, OneEvolves

\* A step that changes nothing but plays, and only as Evolves says.
LEMMA ThreadStep ==
  ASSUME IInv, UNCHANGED <<ui, flags, dec>>,
         \A k \in Plays : Evolves(play[k], play'[k]), play' \in [Plays -> PlayRecord]
  PROVE  IInv'
<1>1. UNCHANGED <<upc, cur, checked, uiQueue, opens, isPaused, isStoped, isDecoding, seek,
                  dpc, using, fmt, state, left, decQueue>>
  BY DEF ui, flags, dec
<1>2. TypeOK'
  BY <1>1, TypeKept DEF IInv, TypeOK
<1> QED
  BY <1>1, <1>2, Evolving DEF Onward

LEMMA AudioStep ==
  ASSUME IInv, NEW k \in Plays, Audio(k)
  PROVE  IInv'
<1>1. TypeOK /\ UNCHANGED <<ui, flags, dec>>
  BY DEF IInv, Audio
<1>2. CASE AudioRead(k)
  BY <1>1, <1>2, AudioReadEvolves, ThreadStep
<1>3. CASE ~AudioRead(k)
  <2>1. PICK a \in AudioPCs : AudioGoto(k, a)
    BY <1>3 DEF Audio, AudioStart, AudioPause, AudioPlay, AudioEmpty, AudioEnd, AudioSleep,
                AudioPCs
  <2>2. play[k].audio \notin Over
    BY <1>3 DEF Audio, AudioStart, AudioPause, AudioPlay, AudioEmpty, AudioEnd, AudioSleep,
                AudioAt, Over
  <2> QED
    BY <1>1, <2>1, <2>2, AudioEvolves, ThreadStep
<1> QED
  BY <1>2, <1>3

LEMMA RenderStep ==
  ASSUME IInv, NEW k \in Plays, Render(k)
  PROVE  IInv'
<1>1. TypeOK /\ UNCHANGED <<ui, flags, dec>>
  BY DEF IInv, Render
<1>2. CASE RenderPop(k)
  BY <1>1, <1>2, RenderPopEvolves, ThreadStep
<1>3. CASE ~RenderPop(k)
  <2>1. PICK r \in RenderPCs : RenderGoto(k, r)
    BY <1>3 DEF Render, RenderPoll, RenderPause, RenderGo, RenderSleep, RenderAgain, RenderEnd,
                RenderPCs
  <2>2. play[k].render \notin Over
    BY <1>3 DEF Render, RenderPoll, RenderPause, RenderGo, RenderSleep, RenderAgain, RenderEnd,
                RenderAt, Over
  <2> QED
    BY <1>1, <2>1, <2>2, RenderEvolves, ThreadStep
<1> QED
  BY <1>2, <1>3

LEMMA SpuriousStep ==
  ASSUME IInv, SpuriousWakeup
  PROVE  IInv'
<1>1. TypeOK
  BY DEF IInv
<1>2. CASE upc = "f_wait" /\ upc' = "f_check"
           /\ UNCHANGED <<cur, checked, uiQueue, opens, flags, dec, play>>
  <2>1. UNCHANGED <<cur, checked, uiQueue, opens, isPaused, isStoped, isDecoding, seek,
                    dpc, using, fmt, state, left, decQueue, play>>
    BY <1>2 DEF flags, dec
  <2>2. /\ \A j \in Plays : Evolves(play[j], play'[j])
        /\ play' \in [Plays -> PlayRecord]
    BY <1>1, <2>1, PlayTyped, NoneEvolves
  <2>3. TypeOK'
    BY <1>1, <1>2, <2>1, <2>2, TypeKept DEF TypeOK
  <2> QED
    BY <1>2, <2>1, <2>2, <2>3, Evolving DEF Onward, Waiting
<1>3. CASE \E k \in Plays :
             /\ \/ AudioAt(k, "p_wait") /\ AudioGoto(k, "loop")
                \/ AudioAt(k, "r_wait") /\ AudioGoto(k, "read")
                \/ RenderAt(k, "p_wait") /\ RenderGoto(k, "pause")
             /\ UNCHANGED <<ui, flags, dec>>
  <2>1. PICK k \in Plays :
             /\ \/ AudioAt(k, "p_wait") /\ AudioGoto(k, "loop")
                \/ AudioAt(k, "r_wait") /\ AudioGoto(k, "read")
                \/ RenderAt(k, "p_wait") /\ RenderGoto(k, "pause")
             /\ UNCHANGED <<ui, flags, dec>>
    BY <1>3
  <2>2. "loop" \in AudioPCs /\ "read" \in AudioPCs /\ "pause" \in RenderPCs
    BY DEF AudioPCs, RenderPCs
  <2>3. \/ play[k].audio \notin Over /\ \E a \in AudioPCs : AudioGoto(k, a)
        \/ play[k].render \notin Over /\ \E r \in RenderPCs : RenderGoto(k, r)
    BY <2>1, <2>2 DEF AudioAt, RenderAt, Over
  <2> QED
    BY <1>1, <2>1, <2>3, AudioEvolves, RenderEvolves, ThreadStep
<1> QED
  BY <1>2, <1>3 DEF SpuriousWakeup

-----------------------------------------------------------------------------
(* The decoder thread, while it feeds a play *)

\* Feed with what a decoder step makes of the play.
LEMMA FeedEvolves ==
  ASSUME TypeOK, using \in Plays, NEW q, Evolves(Fed, q), Feed(q)
  PROVE  /\ \A j \in Plays : Evolves(play[j], play'[j])
         /\ play' \in [Plays -> PlayRecord]
  BY PlayTyped, OneEvolves DEF Feed, Fed

\* Every value that a decoder step feeds.
LEMMA WhatIsFed ==
  ASSUME NEW p \in PlayRecord
  PROVE  /\ Evolves(p, Stopped(p))
         /\ Evolves(p, Cleared(p))
         /\ Evolves(p, Shown(p, "frame"))
         /\ Evolves(p, Shown(p, "end"))
         /\ Evolves(p, Shown(Cleared(p), "end"))
         /\ Evolves(p, Shown(Stopped(p), "end"))
         /\ Evolves(p, Shown([p EXCEPT !.frames = <<>>], "end"))
         /\ p.ring < RingCapacity => Evolves(p, Written(p))
<1>1. /\ Evolves(p, Stopped(p)) /\ Evolves(p, Cleared(p))
      /\ Evolves(p, Shown(p, "frame")) /\ Evolves(p, Shown(p, "end"))
      /\ Evolves(p, [p EXCEPT !.frames = <<>>])
      /\ p.ring < RingCapacity => Evolves(p, Written(p))
  BY StoppedEvolves, ClearedEvolves, ShownEvolves, EmptiedEvolves, WrittenEvolves
<1>2. PICK c, s, e : c = Cleared(p) /\ s = Stopped(p) /\ e = [p EXCEPT !.frames = <<>>]
  OBVIOUS
<1>3. c \in PlayRecord /\ s \in PlayRecord /\ e \in PlayRecord
  BY <1>1, <1>2 DEF Evolves
<1>4. Evolves(c, Shown(c, "end")) /\ Evolves(s, Shown(s, "end")) /\ Evolves(e, Shown(e, "end"))
  BY <1>3, ShownEvolves
<1>5. Evolves(p, Shown(c, "end")) /\ Evolves(p, Shown(s, "end")) /\ Evolves(p, Shown(e, "end"))
  BY <1>1, <1>2, <1>4, EvolvesTwice
<1> QED
  BY <1>1, <1>2, <1>5

\* What a step of Decode leaves alone, and what it works on.
LEMMA DecodeContext ==
  ASSUME IInv, Decode
  PROVE  /\ UNCHANGED <<upc, cur, checked, uiQueue, opens, isPaused, isStoped, isDecoding,
                        using, fmt, decQueue>>
         /\ dpc \notin {"idle", "report"}
         /\ using \in Plays /\ Fed \in PlayRecord /\ Fits(Fed) /\ fmt \in DecodeTypes
<1>1. UNCHANGED <<upc, cur, checked, uiQueue, opens, isPaused, isStoped, isDecoding,
                  using, fmt, decQueue>>
  BY DEF Decode, ui
<1>2. dpc \notin {"idle", "report"}
  BY DEF Decode, Abort, AbortStop, Proceed, DecodeSeeking, DecodeRunning, DecodeOther,
         DecodeOneStream, WriteFrame, FlushVideo, FlushEnd, TellEnd, AwaitAudio
<1>3. using \in Plays /\ Fits(Fed) /\ fmt \in DecodeTypes
  BY <1>2 DEF IInv, Decoding, Fed
<1> QED
  BY <1>1, <1>2, <1>3, PlayTyped DEF Fed, IInv

\* One packet.
LEMMA PacketStep ==
  ASSUME TypeOK, using \in Plays, Fed \in PlayRecord, Packet
  PROVE  /\ \A j \in Plays : Evolves(play[j], play'[j])
         /\ play' \in [Plays -> PlayRecord]
         /\ dpc' \in {"top", "write"}
         /\ left' \in 0..MaxPackets
<1>1. left' \in 0..MaxPackets
  BY Numbers DEF Packet, TypeOK
<1>2. dpc' \in {"top", "write"}
  BY DEF Packet, Goto
<1>3. UNCHANGED play \/ Feed(Stopped(Fed)) \/ Feed(Shown(Fed, "frame"))
  BY DEF Packet
<1> QED
  BY <1>1, <1>2, <1>3, WhatIsFed, FeedEvolves, NoneEvolves, PlayTyped

\* A step of Decode changes the play it feeds as Evolves says, and its own state
\* within its types; it goes on, but to the report only from await_audio.
LEMMA DecodeEvolves ==
  ASSUME IInv, Decode
  PROVE  /\ \A j \in Plays : Evolves(play[j], play'[j])
         /\ play' \in [Plays -> PlayRecord]
         /\ dpc' \in DecoderPCs \ {"idle"}
         /\ dpc' \in {"await_render", "report"} => dpc \in {"finish", "await_audio"}
         /\ state' \in {"Running", "Flushing", "Finished"}
         /\ left' \in 0..MaxPackets
         /\ seek' \in BOOLEAN
<1> DEFINE Good == /\ \A j \in Plays : Evolves(play[j], play'[j])
                   /\ play' \in [Plays -> PlayRecord]
           Types == /\ state' \in {"Running", "Flushing", "Finished"}
                    /\ left' \in 0..MaxPackets
                    /\ seek' \in BOOLEAN
           Onto(P) == dpc' \in P
<1>1. TypeOK /\ using \in Plays /\ Fed \in PlayRecord
  BY DecodeContext DEF IInv
<1>2. /\ state \in {"Running", "Flushing", "Finished"}
      /\ left \in 0..MaxPackets
      /\ seek \in BOOLEAN
  BY <1>1 DEF TypeOK
<1>3. UNCHANGED play => Good
  BY <1>1, PlayTyped, NoneEvolves
<1>4. Feed(Stopped(Fed)) => Good
  BY <1>1, WhatIsFed, FeedEvolves
<1>5. Feed(Cleared(Fed)) => Good
  BY <1>1, WhatIsFed, FeedEvolves
<1>6. Feed(Shown(Fed, "frame")) \/ Feed(Shown(Fed, "end")) => Good
  BY <1>1, WhatIsFed, FeedEvolves
<1>7. Feed(Shown(Cleared(Fed), "end")) \/ Feed(Shown(Stopped(Fed), "end")) => Good
  BY <1>1, WhatIsFed, FeedEvolves
<1>8. Feed(Shown([Fed EXCEPT !.frames = <<>>], "end")) => Good
  BY <1>1, WhatIsFed, FeedEvolves
<1>9. Fed.ring < RingCapacity /\ Feed(Written(Fed)) => Good
  BY <1>1, WhatIsFed, FeedEvolves
<1> HIDE DEF Good
<1>10. CASE Abort \/ AbortStop \/ Proceed
  <2>1. Good
    BY <1>10, <1>3, <1>4, <1>7 DEF Abort, AbortStop, Proceed
  <2>2. Types /\ Onto({"abort_stop", "switch"})
    BY <1>10, <1>2 DEF Abort, AbortStop, Proceed, Goto
  <2> QED
    BY <2>1, <2>2 DEF Good, DecoderPCs
<1>11. CASE DecodeSeeking
  <2>1. Good
    BY <1>11, <1>5 DEF DecodeSeeking, SeekByOffset
  <2>2. Types /\ Onto({"top"})
    BY <1>11, <1>2 DEF DecodeSeeking, SeekByOffset, Goto
  <2> QED
    BY <2>1, <2>2 DEF Good, DecoderPCs
<1>12. CASE DecodeRunning
  <2>1. CASE Packet /\ UNCHANGED state
    BY <1>1, <1>2, <1>12, <2>1, PacketStep DEF DecodeRunning, DecoderPCs
  <2>2. CASE ~(Packet /\ UNCHANGED state)
    <3>1. Good
      BY <1>12, <2>2, <1>3 DEF DecodeRunning
    <3>2. Types /\ Onto({"top"})
      BY <1>12, <2>2, <1>2 DEF DecodeRunning, Goto
    <3> QED
      BY <3>1, <3>2 DEF Good, DecoderPCs
  <2> QED
    BY <2>1, <2>2
<1>13. CASE DecodeOther
  <2>1. Good
    BY <1>13, <1>3 DEF DecodeOther
  <2>2. Types /\ Onto({"flush", "finish"})
    BY <1>13, <1>2 DEF DecodeOther, Goto
  <2> QED
    BY <2>1, <2>2 DEF Good, DecoderPCs
<1>14. CASE DecodeOneStream
  <2>1. CASE Packet /\ UNCHANGED seek
    BY <1>1, <1>2, <1>14, <2>1, PacketStep DEF DecodeOneStream, DecoderPCs
  <2>2. CASE ~(Packet /\ UNCHANGED seek)
    <3>1. Good
      BY <1>14, <2>2, <1>3, <1>5 DEF DecodeOneStream, SeekByOffset
    <3>2. left > 0 => left - 1 \in 0..MaxPackets
      BY <1>2, Numbers
    <3>3. left' \in 0..MaxPackets
      BY <1>14, <2>2, <1>2, <3>2 DEF DecodeOneStream, SeekByOffset
    <3>4. Types /\ Onto({"flush", "finish", "top"})
      BY <1>14, <2>2, <1>2, <3>3 DEF DecodeOneStream, Goto
    <3> QED
      BY <3>1, <3>4 DEF Good, DecoderPCs
  <2> QED
    BY <2>1, <2>2
<1>15. CASE WriteFrame
  <2>1. Good
    BY <1>15, <1>9 DEF WriteFrame
  <2>2. Types /\ Onto({"top", "flush_end"})
    BY <1>15, <1>2 DEF WriteFrame, Goto
  <2> QED
    BY <2>1, <2>2 DEF Good, DecoderPCs
<1>16. CASE FlushVideo \/ FlushEnd
  <2>1. Good
    BY <1>16, <1>3, <1>6, <1>7 DEF FlushVideo, FlushEnd
  <2>2. Types /\ Onto({"flush_write", "flush_end", "top", "finish"})
    BY <1>16, <1>2 DEF FlushVideo, FlushEnd, Goto
  <2> QED
    BY <2>1, <2>2 DEF Good, DecoderPCs
<1>17. CASE TellEnd \/ AwaitAudio
  <2>1. Good
    BY <1>17, <1>3, <1>4, <1>6, <1>8 DEF TellEnd, AwaitAudio
  <2>2. Types /\ Onto({"await_audio", "await_render", "report"}) /\ dpc \in {"finish", "await_audio"}
    BY <1>17, <1>2 DEF TellEnd, AwaitAudio, Goto
  <2> QED
    BY <2>1, <2>2 DEF Good, DecoderPCs
<1> QED
  BY <1>10, <1>11, <1>12, <1>13, <1>14, <1>15, <1>16, <1>17 DEF Decode

\* The decoder polls is_finished of the audio thread before it polls that of the
\* render thread, and a file without one of them has no such thread.
LEMMA EndsInOrder ==
  ASSUME IInv, Decode
  PROVE  /\ dpc' = "await_render" => play'[using].audio \in Over
         /\ dpc' = "report" => Ended(using)'
<1>1. /\ using \in Plays /\ Fed \in PlayRecord /\ Fits(Fed) /\ fmt \in DecodeTypes
      /\ UNCHANGED using
  BY DecodeContext
<1>2. Evolves(play[using], play'[using])
  BY <1>1, DecodeEvolves
<1>3. fmt = "Video" => play[using].audio = "none"
  BY <1>1 DEF Fits, Fed
<1>4. fmt = "Audio" => play[using].render = "none"
  BY <1>1 DEF Fits, Fed
<1>5. CASE TellEnd
  <2>1. dpc' = "await_render" => fmt = "Video"
    BY <1>1, <1>5 DEF TellEnd, Goto, HasAudio, DecodeTypes
  <2>2. dpc' # "report"
    BY <1>5 DEF TellEnd, Goto
  <2> QED
    BY <2>1, <2>2, <1>2, <1>3 DEF Evolves, Over
<1>6. CASE AwaitAudio
  <2>1. play[using].audio = "done"
    BY <1>6 DEF AwaitAudio, AudioAt
  <2>2. dpc' = "report" => fmt # "VideoWithAudio"
    BY <1>6 DEF AwaitAudio, Goto, Both
  <2>3. dpc' = "report" => fmt = "Audio"
    BY <2>1, <2>2, <1>1, <1>3 DEF DecodeTypes
  <2>4. dpc' = "report" => play[using].render = "none"
    BY <2>3, <1>4
  <2> QED
    BY <2>1, <2>4, <1>1, <1>2 DEF Evolves, Over, Ended
<1>7. CASE ~TellEnd /\ ~AwaitAudio
  <2>1. dpc \notin {"finish", "await_audio"}
    BY <1>7 DEF Decode, Abort, AbortStop, Proceed, DecodeSeeking, DecodeRunning, DecodeOther,
         DecodeOneStream, WriteFrame, FlushVideo, FlushEnd
  <2> QED
    BY <2>1, DecodeEvolves
<1> QED
  BY <1>5, <1>6, <1>7

LEMMA DecodeStep ==
  ASSUME IInv, Decode
  PROVE  IInv'
<1>1. /\ UNCHANGED <<upc, cur, checked, uiQueue, opens, isPaused, isStoped, isDecoding,
                     using, fmt, decQueue>>
      /\ dpc \notin {"idle", "report"}
  BY DecodeContext
<1>2. /\ \A j \in Plays : Evolves(play[j], play'[j])
      /\ play' \in [Plays -> PlayRecord]
      /\ dpc' \in DecoderPCs \ {"idle"}
      /\ state' \in {"Running", "Flushing", "Finished"}
      /\ left' \in 0..MaxPackets
      /\ seek' \in BOOLEAN
  BY DecodeEvolves
<1>3. TypeOK'
  BY <1>1, <1>2 DEF IInv, TypeOK, PlayRecord
<1>4. Onward
  BY <1>1, <1>2, EndsInOrder DEF Onward
<1> QED
  BY <1>1, <1>2, <1>3, <1>4, Evolving DEF Waiting

-----------------------------------------------------------------------------
(* What the user does, but for opening a file when idle *)

UserSimple == StopDecoding \/ AwaitEnd \/ PlayButton \/ Seek \/ Close \/ Closed

LEMMA UserStep ==
  ASSUME IInv, UserSimple
  PROVE  IInv'
<1>1. UNCHANGED <<cur, uiQueue, isDecoding, dpc, using, fmt, state, left, decQueue>>
  BY DEF UserSimple, StopDecoding, AwaitEnd, PlayButton, Seek, Close, Closed, flags, dec, ui
<1>2. UNCHANGED play \/ NotifyPaused
  BY DEF UserSimple, StopDecoding, AwaitEnd, PlayButton, PlayClicked, Seek, Close, Closed
<1>3. /\ \A j \in Plays : Evolves(play[j], play'[j])
      /\ play' \in [Plays -> PlayRecord]
  BY <1>2, PlayTyped, NoneEvolves, AllWake DEF IInv
<1>4. /\ upc' \in {"idle", "f_check", "f_block", "f_wait", "closing", "closed"}
      /\ upc' \in Waiting => upc \in Waiting \/ isDecoding
  BY DEF UserSimple, StopDecoding, AwaitEnd, PlayButton, Seek, Close, Closed, IInv, TypeOK, Waiting, ui
<1>5. opens' \in 0..MaxOpens
  <2>1. CASE StopDecoding
    BY <2>1, Numbers DEF StopDecoding, MayOpen, IInv, TypeOK
  <2>2. CASE ~StopDecoding
    BY <2>2 DEF UserSimple, AwaitEnd, PlayButton, Seek, Close, Closed, IInv, TypeOK, ui
  <2> QED
    BY <2>1, <2>2
<1>6. checked' \in BOOLEAN
  BY DEF UserSimple, StopDecoding, AwaitEnd, PlayButton, PlayClicked, Seek, Close, Closed, IInv,
         TypeOK, ui
<1>7. isPaused' \in BOOLEAN
  BY DEF UserSimple, StopDecoding, AwaitEnd, PlayButton, PlayClicked, Seek, Close, Closed, IInv,
         TypeOK, flags
<1>8. isStoped' \in BOOLEAN /\ seek' \in BOOLEAN
  BY DEF UserSimple, StopDecoding, AwaitEnd, PlayButton, Seek, Close, Closed, IInv,
         TypeOK, flags
<1>9. TypeOK'
  BY <1>1, <1>3, <1>4, <1>5, <1>6, <1>7, <1>8 DEF IInv, TypeOK, PlayRecord
<1> QED
  BY <1>1, <1>3, <1>4, <1>9, Evolving DEF Onward

-----------------------------------------------------------------------------
(* A file is asked for, opened and decoded *)

UISignal == [type : {"format_ready"}, fmt : DecodeTypes] \cup [type : {"finished"}]
DecSignal == [type : {"start_pretreatment"}] \cup [type : {"decode_ready"}, play : Plays]

\* One signal posted to an empty queue.
LEMMA First ==
  ASSUME NEW S, NEW x \in S
  PROVE  /\ Append(<<>>, x) = <<x>>
         /\ Append(<<>>, x) \in Seq(S)
         /\ Append(<<>>, x) # <<>>
         /\ Len(Append(<<>>, x)) = 1
         /\ Head(Append(<<>>, x)) = x
         /\ Append(<<>>, x)[1] = x
  BY AppendProperties, EmptySeq

\* The queue of the decoder holds one signal at most, so that none is left once
\* its head is taken.
LEMMA Last ==
  ASSUME NEW S, NEW q \in Seq(S), q # <<>>, Len(q) <= 1
  PROVE  Tail(q) = <<>> /\ Head(q) \in S
  BY HeadTailProperties, LenProperties, EmptySeq

LEMMA AskStep ==
  ASSUME IInv, decQueue = <<>>, PostOpen, ~isDecoding, ~FormatReady, dpc \in {"idle", "report"},
         upc' = "idle", opens' \in 0..MaxOpens, isStoped' \in BOOLEAN,
         UNCHANGED <<cur, checked, uiQueue, isPaused, isDecoding, seek,
                     dpc, using, fmt, state, left, play>>
  PROVE  IInv'
<1> DEFINE s == [type |-> "start_pretreatment"]
<1>1. s \in DecSignal
  BY DEF DecSignal
<1>2. decQueue' = Append(<<>>, s)
  BY DEF PostOpen
<1>3. /\ decQueue' \in Seq(DecSignal) /\ decQueue' # <<>>
      /\ Len(decQueue') = 1 /\ Head(decQueue') = s
  BY <1>1, <1>2, First
<1>4. ~DecodeReady /\ ~DecodeReady' /\ ~FormatReady'
  BY <1>3 DEF DecodeReady, FormatReady
<1>5. TypeOK'
  BY <1>3 DEF IInv, TypeOK, DecSignal
<1>6. Queues'
  BY <1>3, <1>4 DEF IInv, Queues
<1>7. Decoding'
  BY <1>4 DEF IInv, Decoding
<1>8. OthersEnded' /\ DeletedEnded'
  BY <1>4 DEF IInv, OthersEnded, DeletedEnded, Ended
<1> QED
  BY <1>5, <1>6, <1>7, <1>8 DEF IInv

LEMMA OpenIdleStep ==
  ASSUME IInv, Patient, OpenIdle
  PROVE  IInv'
<1>1. ~Opening
  BY DEF OpenIdle, MayOpen
<1>2. decQueue = <<>> /\ ~FormatReady
  BY <1>1 DEF Opening, FormatReady
<1>3. dpc \in {"idle", "report"}
  BY DEF OpenIdle, IInv, Decoding
<1>4. opens' \in 0..MaxOpens
  BY Numbers DEF OpenIdle, MayOpen, IInv, TypeOK
<1>5. isStoped' \in BOOLEAN /\ upc' = "idle"
  BY DEF OpenIdle, MayOpen, Does, flags, IInv, TypeOK
<1> QED
  BY <1>2, <1>3, <1>4, <1>5, AskStep DEF OpenIdle, flags

LEMMA OpenAfterStopStep ==
  ASSUME IInv, OpenAfterStop
  PROVE  IInv'
<1>1. decQueue = <<>> /\ ~FormatReady
  BY DEF OpenAfterStop, IInv, Queues
<1>2. dpc \in {"idle", "report"}
  BY DEF OpenAfterStop, IInv, Decoding
<1>3. opens' \in 0..MaxOpens
  BY DEF OpenAfterStop, IInv, TypeOK
<1> QED
  BY <1>1, <1>2, <1>3, AskStep DEF OpenAfterStop

LEMMA OpenFileStep ==
  ASSUME IInv, OpenFile
  PROVE  IInv'
<1>1. /\ dpc = "idle" /\ decQueue # <<>>
      /\ Head(decQueue).type = "start_pretreatment"
      /\ decQueue' = Tail(decQueue)
      /\ UNCHANGED <<upc, cur, checked, opens, isPaused, isStoped, isDecoding, seek, dpc, using,
                     state, play>>
  BY DEF OpenFile, NextSlot, flags
<1>2. decQueue' = <<>>
  BY <1>1, Last DEF IInv, TypeOK, Queues
<1>3. ~isDecoding /\ ~DecodeReady /\ ~DecodeReady' /\ ~FormatReady
  BY <1>1, <1>2 DEF DecodeReady, IInv, Queues
<1>4. uiQueue \in Seq(UISignal) /\ Modes \subseteq DecodeTypes /\ 0 \in 0..MaxPackets
  BY PlayerAssumption DEF IInv, TypeOK, UISignal
<1>5. /\ fmt' \in DecodeTypes \cup {"UNKNOWN"}
      /\ left' \in 0..MaxPackets
      /\ \/ UNCHANGED uiQueue
         \/ uiQueue' = Append(uiQueue, [type |-> "format_ready", fmt |-> fmt']) /\ fmt' \in DecodeTypes
  BY <1>4 DEF OpenFile
<1>6. /\ uiQueue' \in Seq(UISignal)
      /\ \A i \in 1..Len(uiQueue') : uiQueue'[i].type = "format_ready" =>
                                       i = Len(uiQueue') /\ uiQueue'[Len(uiQueue')].fmt = fmt'
  <2>1. CASE UNCHANGED uiQueue
    BY <2>1, <1>3, <1>4 DEF FormatReady
  <2>2. CASE uiQueue' = Append(uiQueue, [type |-> "format_ready", fmt |-> fmt']) /\ fmt' \in DecodeTypes
    <3> DEFINE s == [type |-> "format_ready", fmt |-> fmt']
    <3>1. s \in UISignal
      BY <2>2 DEF UISignal
    <3>2. /\ uiQueue' \in Seq(UISignal)
          /\ Len(uiQueue') = Len(uiQueue) + 1
          /\ \A i \in 1..Len(uiQueue) : uiQueue'[i] = uiQueue[i]
          /\ uiQueue'[Len(uiQueue) + 1] = s
      BY <1>4, <2>2, <3>1, AppendProperties
    <3>3. Len(uiQueue) \in Nat
      BY <1>4, LenProperties
    <3>4. \A i \in 1..Len(uiQueue) : uiQueue[i].type # "format_ready"
      BY <1>3 DEF FormatReady
    <3>5. \A i \in 1..Len(uiQueue') : i \in 1..Len(uiQueue) \/ i = Len(uiQueue')
      BY <3>2, <3>3
    <3> QED
      BY <3>2, <3>4, <3>5
  <2> QED
    BY <1>5, <2>1, <2>2
<1>7. TypeOK'
  <2>1. decQueue' \in Seq(DecSignal)
    BY <1>2, EmptySeq
  <2> QED
    BY <1>1, <1>5, <1>6, <2>1 DEF IInv, TypeOK, UISignal, DecSignal
<1>8. Queues'
  <2>1. Len(decQueue') <= 1
    BY <1>2, EmptySeq
  <2>2. FormatReady' => uiQueue'[Len(uiQueue')].fmt = fmt'
    BY <1>6 DEF FormatReady
  <2>3. upc' \notin {"f_check", "f_block", "f_wait"}
    BY <1>1 DEF IInv, Queues
  <2> QED
    BY <1>1, <1>2, <1>3, <1>6, <2>1, <2>2, <2>3 DEF Queues
<1>9. Decoding'
  BY <1>1, <1>3 DEF IInv, Decoding
<1>10. OthersEnded' /\ DeletedEnded'
  BY <1>1, <1>3 DEF IInv, OthersEnded, DeletedEnded, Ended
<1> QED
  BY <1>7, <1>8, <1>9, <1>10 DEF IInv

LEMMA StartDecodeStep ==
  ASSUME IInv, StartDecode
  PROVE  IInv'
<1>1. /\ dpc = "idle" /\ decQueue # <<>>
      /\ Head(decQueue).type = "decode_ready"
      /\ decQueue' = Tail(decQueue)
      /\ using' = Head(decQueue).play
      /\ isDecoding' = TRUE /\ state' = "Running"
      /\ dpc' = IF fmt = "UNKNOWN" THEN "idle" ELSE "top"
      /\ UNCHANGED <<upc, cur, checked, uiQueue, opens, isPaused, isStoped, seek, fmt, left, play>>
  BY DEF StartDecode, NextSlot, Goto, ui
<1>2. decQueue' = <<>>
  BY <1>1, Last DEF IInv, TypeOK, Queues
<1>3. DecodeReady /\ ~DecodeReady'
  BY <1>1, <1>2 DEF DecodeReady
<1>4. uiQueue = <<>> /\ cur = Head(decQueue).play
  BY <1>3 DEF IInv, Queues
<1>5. cur \in Plays /\ fmt \in DecodeTypes /\ Fits(play[cur])
  BY <1>3 DEF IInv, Decoding
<1>6. dpc' = "top"
  BY <1>1, <1>5 DEF DecodeTypes
<1>7. ~FormatReady'
  BY <1>1, <1>4, EmptySeq DEF FormatReady
<1>8. TypeOK'
  <2>1. decQueue' \in Seq(DecSignal)
    BY <1>2, EmptySeq
  <2> QED
    BY <1>1, <1>4, <1>5, <1>6, <2>1 DEF IInv, TypeOK, DecSignal, DecoderPCs
<1>9. Queues'
  <2>1. Len(decQueue') <= 1
    BY <1>2, EmptySeq
  <2>2. \A i \in 1..Len(uiQueue') : uiQueue'[i].type = "format_ready" => i = Len(uiQueue')
    BY <1>1 DEF IInv, Queues
  <2> QED
    BY <1>1, <1>2, <1>3, <1>4, <1>6, <1>7, <2>1, <2>2 DEF Queues
<1>10. Decoding'
  BY <1>1, <1>4, <1>5, <1>6 DEF Decoding, Fits
<1>11. OthersEnded' /\ DeletedEnded'
  BY <1>1, <1>3 DEF IInv, OthersEnded, DeletedEnded, Ended
<1> QED
  BY <1>8, <1>9, <1>10, <1>11 DEF IInv

-----------------------------------------------------------------------------
(* The end of a file *)

\* ReportEnd, where both threads of the play that was decoded have ended.
LEMMA EndStep ==
  ASSUME IInv, ReportEnd, dpc \in {"await_render", "report"}, dpc' \in {"idle", "report"},
         isDecoding => Ended(using), dpc = "report" => dpc' = "idle"
  PROVE  IInv'
<1> DEFINE s == [type |-> "finished"]
<1>1. /\ isDecoding' = FALSE
      /\ upc' = IF upc = "f_wait" THEN "f_check" ELSE upc
      /\ uiQueue' = Append(uiQueue, s)
      /\ UNCHANGED <<cur, checked, opens, isPaused, isStoped, seek, using, fmt, state,
                     left, decQueue, play>>
  BY DEF ReportEnd
<1>2. ~FormatReady /\ ~DecodeReady /\ ~DecodeReady'
  BY <1>1 DEF IInv, Queues, DecodeReady
<1>3. uiQueue \in Seq(UISignal) /\ s \in UISignal
  BY DEF IInv, TypeOK, UISignal
<1>4. /\ uiQueue' \in Seq(UISignal)
      /\ \A i \in 1..Len(uiQueue') : uiQueue'[i].type # "format_ready"
  <2>1. /\ uiQueue' \in Seq(UISignal)
        /\ Len(uiQueue') = Len(uiQueue) + 1
        /\ \A i \in 1..Len(uiQueue) : uiQueue'[i] = uiQueue[i]
        /\ uiQueue'[Len(uiQueue) + 1] = s
    BY <1>1, <1>3, AppendProperties
  <2>2. \A i \in 1..Len(uiQueue') : i \in 1..Len(uiQueue) \/ i = Len(uiQueue) + 1
    BY <2>1, <1>3, LenProperties
  <2>3. \A i \in 1..Len(uiQueue) : uiQueue[i].type # "format_ready"
    BY <1>2 DEF FormatReady
  <2> QED
    BY <2>1, <2>2, <2>3
<1>5. ~FormatReady'
  BY <1>4 DEF FormatReady
<1>6. TypeOK'
  <2>1. dpc' \in DecoderPCs
    BY DEF DecoderPCs
  <2> QED
    BY <1>1, <1>4, <2>1 DEF IInv, TypeOK, UISignal
<1>7. Queues'
  <2>1. upc' \in {"f_check", "f_block", "f_wait"} => decQueue' = <<>>
    BY <1>1 DEF IInv, Queues
  <2> QED
    BY <1>1, <1>2, <1>4, <1>5, <2>1 DEF IInv, Queues
<1>8. Decoding'
  BY <1>1, <1>2 DEF Decoding
<1>9. OthersEnded'
  <2>1. \A k \in Plays : Ended(k)
    BY <1>2 DEF IInv, OthersEnded, Decoding
  <2> QED
    BY <1>1, <2>1 DEF OthersEnded, Ended
<1>10. DeletedEnded'
  BY <1>1 DEF IInv, DeletedEnded, Ended
<1> QED
  BY <1>6, <1>7, <1>8, <1>9, <1>10 DEF IInv

LEMMA AwaitRenderStep ==
  ASSUME IInv, AwaitRender
  PROVE  IInv'
<1>1. /\ dpc = "await_render" /\ isDecoding
      /\ play[using].audio \in Over /\ play[using].render = "done" /\ dpc' = "report"
  BY DEF AwaitRender, RenderAt, Goto, IInv, Decoding, Over
<1>2. Ended(using)
  BY <1>1 DEF Ended, Over
<1>3. CASE ~Both
  BY <1>1, <1>2, <1>3, EndStep DEF AwaitRender
<1>4. CASE Both
  <2>1. UNCHANGED <<upc, cur, checked, uiQueue, opens, isPaused, isStoped, isDecoding, seek, using,
                    fmt, state, left, decQueue, play>>
    BY <1>4 DEF AwaitRender, ui, flags
  <2>2. /\ \A j \in Plays : Evolves(play[j], play'[j])
        /\ play' \in [Plays -> PlayRecord]
    BY <2>1, PlayTyped, NoneEvolves DEF IInv
  <2>3. TypeOK'
    BY <1>1, <2>1, <2>2, TypeKept DEF IInv, TypeOK, DecoderPCs
  <2>4. Ended(using)'
    BY <1>2, <2>1 DEF Ended
  <2> QED
    BY <1>1, <2>1, <2>2, <2>3, <2>4, Evolving DEF Onward, Waiting
<1> QED
  BY <1>3, <1>4

LEMMA ReportStep ==
  ASSUME IInv, Report
  PROVE  IInv'
  BY EndStep DEF Report, Goto, IInv, Decoding

-----------------------------------------------------------------------------
(* The UI thread handles a signal of the decoder *)

LEMMA HandleFormatReadyStep ==
  ASSUME IInv, HandleFormatReady
  PROVE  IInv'
<1>1. PICK k \in Plays :
        /\ play[k].life = "unmade"
        /\ play' = [play EXCEPT ![k] = Made(Head(uiQueue).fmt)]
        /\ cur' = k
        /\ decQueue' = Append(decQueue, [type |-> "decode_ready", play |-> k])
  BY DEF HandleFormatReady
<1>2. /\ upc = "idle" /\ uiQueue # <<>> /\ Head(uiQueue).type = "format_ready"
      /\ uiQueue' = Tail(uiQueue)
      /\ isStoped' = FALSE /\ checked' = TRUE
      /\ UNCHANGED <<upc, opens, isPaused, isDecoding, seek, dpc, using, fmt, state, left>>
  BY DEF HandleFormatReady, NextSignal
<1>3. uiQueue \in Seq(UISignal) /\ Len(uiQueue) \in Nat /\ Len(uiQueue) >= 1
  BY <1>2, EmptySeq, LenProperties DEF IInv, TypeOK, UISignal
<1>4. Head(uiQueue) = uiQueue[1] /\ 1 \in 1..Len(uiQueue)
  BY <1>2, <1>3
<1>5. FormatReady /\ Len(uiQueue) = 1
  BY <1>2, <1>4 DEF FormatReady, IInv, Queues
<1>6. /\ decQueue = <<>> /\ dpc = "idle" /\ Head(uiQueue).fmt = fmt
      /\ ~isDecoding /\ ~DecodeReady
  BY <1>2, <1>4, <1>5 DEF IInv, Queues, DecodeReady
<1>7. uiQueue' = <<>> /\ Head(uiQueue) \in UISignal
  BY <1>2, <1>3, <1>5, Last
<1>8. fmt \in DecodeTypes
  BY <1>2, <1>6, <1>7 DEF UISignal
<1> DEFINE s == [type |-> "decode_ready", play |-> k]
           m == Made(fmt)
<1>9. s \in DecSignal
  BY DEF DecSignal
<1>10. /\ decQueue' \in Seq(DecSignal) /\ decQueue' # <<>>
       /\ Len(decQueue') = 1 /\ Head(decQueue') = s
  BY <1>1, <1>6, <1>9, First
<1>11. /\ m \in PlayRecord /\ m.life = "live"
       /\ fmt = "Video" => m.audio = "none"
       /\ fmt = "Audio" => m.render = "none"
  <2>1. 0 \in 0..RingCapacity /\ <<>> \in Seq({"frame", "end"})
    BY Numbers, EmptySeq
  <2>2. Unmade \in PlayRecord
    BY <2>1 DEF Unmade, PlayRecord, AudioPCs, RenderPCs
  <2> QED
    BY <2>2 DEF Made, PlayRecord, AudioPCs, RenderPCs
<1>12. /\ play' \in [Plays -> PlayRecord] /\ play'[k] = m
       /\ \A j \in Plays : j # k => play'[j] = play[j]
  BY <1>1, <1>6, <1>11, PlayTyped DEF IInv
<1>13. ~FormatReady' /\ DecodeReady'
  BY <1>7, <1>10, EmptySeq DEF FormatReady, DecodeReady
<1>14. TypeOK'
  <2>1. uiQueue' \in Seq(UISignal)
    BY <1>7, EmptySeq
  <2> QED
    BY <1>1, <1>2, <1>10, <1>12, <2>1 DEF IInv, TypeOK, UISignal, DecSignal, PlayRecord
<1>15. Queues'
  <2>1. \A i \in 1..Len(uiQueue') : uiQueue'[i].type = "format_ready" => i = Len(uiQueue')
    BY <1>7, EmptySeq
  <2>2. Len(decQueue') <= 1
    BY <1>10
  <2>3. cur' = Head(decQueue').play
    BY <1>1, <1>10
  <2>4. dpc' = "idle" /\ upc' = "idle" /\ ~isDecoding'
    BY <1>2, <1>6
  <2> QED
    BY <1>7, <1>13, <2>1, <2>2, <2>3, <2>4 DEF Queues
<1>16. Decoding'
  <2>1. Fits(play[cur])'
    BY <1>1, <1>2, <1>11, <1>12 DEF Fits
  <2> QED
    BY <1>1, <1>2, <1>6, <1>8, <2>1 DEF Decoding
<1>17. OthersEnded' /\ DeletedEnded'
  <2>1. \A j \in Plays : Ended(j)
    BY <1>6 DEF IInv, OthersEnded
  <2>2. \A j \in Plays : j # k => Ended(j)'
    BY <2>1, <1>12 DEF Ended
  <2> QED
    BY <2>2, <1>1, <1>11, <1>12, <1>13 DEF OthersEnded, DeletedEnded
<1> QED
  BY <1>14, <1>15, <1>16, <1>17 DEF IInv

LEMMA HandleFinishedStep ==
  ASSUME IInv, HandleFinished
  PROVE  IInv'
<1>1. /\ upc = "idle" /\ uiQueue # <<>> /\ Head(uiQueue).type = "finished"
      /\ uiQueue' = Tail(uiQueue) /\ cur' = NoPlay
      /\ UNCHANGED <<upc, opens, isStoped, isDecoding, seek, dpc, using, fmt, state, left, decQueue>>
  BY DEF HandleFinished, NextSignal, dec
<1>2. ~isDecoding /\ ~DecodeReady
  BY <1>1 DEF IInv, Queues
<1>3. checked' = FALSE /\ isPaused' = isPaused /\ play' = Deleted(cur, play)
  BY <1>2 DEF HandleFinished
<1>4. \A j \in Plays : Ended(j)
  BY <1>2 DEF IInv, OthersEnded
<1>5. play \in [Plays -> PlayRecord] /\ cur \in Plays \cup {NoPlay}
  BY PlayTyped DEF IInv, TypeOK
<1>6. /\ play' \in [Plays -> PlayRecord]
      /\ \A j \in Plays : play'[j].audio = play[j].audio /\ play'[j].render = play[j].render
  <2>1. CASE cur = NoPlay
    BY <2>1, <1>3, <1>5 DEF Deleted
  <2>2. CASE cur \in Plays
    <3>1. play' = [play EXCEPT ![cur].life = "deleted"]
      BY <2>2, <1>3, Numbers DEF Deleted
    <3>2. [play[cur] EXCEPT !.life = "deleted"] \in PlayRecord
      BY <2>2, <1>5 DEF PlayRecord
    <3>3. play' \in [Plays -> PlayRecord]
      BY <2>2, <1>5, <3>1, <3>2
    <3>4. /\ play'[cur] = [play[cur] EXCEPT !.life = "deleted"]
          /\ \A j \in Plays : j # cur => play'[j] = play[j]
      BY <2>2, <1>5, <3>1
    <3>5. /\ play'[cur].audio = play[cur].audio
          /\ play'[cur].render = play[cur].render
      BY <2>2, <1>5, <3>4 DEF PlayRecord
    <3> QED
      BY <3>3, <3>4, <3>5
  <2> QED
    BY <1>5, <2>1, <2>2
<1>7. \A j \in Plays : Ended(j)'
  BY <1>4, <1>6 DEF Ended
<1>8. uiQueue \in Seq(UISignal)
  BY DEF IInv, TypeOK, UISignal
<1>9. /\ uiQueue' \in Seq(UISignal) /\ Len(uiQueue) \in Nat
      /\ Len(uiQueue') = Len(uiQueue) - 1
      /\ \A i \in 1..Len(uiQueue') : uiQueue'[i] = uiQueue[i + 1]
  BY <1>1, <1>8, HeadTailProperties, LenProperties
<1>10. \A i \in 1..Len(uiQueue') : i + 1 \in 1..Len(uiQueue)
  BY <1>9
<1>11. FormatReady' => FormatReady /\ uiQueue'[Len(uiQueue')] = uiQueue[Len(uiQueue)]
  <2> SUFFICES ASSUME NEW i \in 1..Len(uiQueue'), uiQueue'[i].type = "format_ready"
               PROVE  FormatReady /\ uiQueue'[Len(uiQueue')] = uiQueue[Len(uiQueue)]
    BY DEF FormatReady
  <2>1. FormatReady
    BY <1>9, <1>10 DEF FormatReady
  <2>2. Len(uiQueue') \in 1..Len(uiQueue') /\ Len(uiQueue') + 1 = Len(uiQueue)
    BY <1>9
  <2> QED
    BY <1>9, <2>1, <2>2
<1>12. TypeOK'
  BY <1>1, <1>3, <1>6, <1>9 DEF IInv, TypeOK, UISignal, PlayRecord
<1>13. Queues'
  <2>1. \A i \in 1..Len(uiQueue') : uiQueue'[i].type = "format_ready" => i = Len(uiQueue')
    <3> SUFFICES ASSUME NEW i \in 1..Len(uiQueue'), uiQueue'[i].type = "format_ready"
                 PROVE  i = Len(uiQueue')
      OBVIOUS
    <3>1. i + 1 = Len(uiQueue)
      BY <1>9, <1>10 DEF IInv, Queues
    <3> QED
      BY <3>1, <1>9
  <2>2. ~DecodeReady'
    BY <1>1, <1>2 DEF DecodeReady
  <2> QED
    BY <1>1, <1>2, <1>11, <2>1, <2>2 DEF IInv, Queues
<1>14. Decoding'
  <2>1. ~DecodeReady'
    BY <1>1, <1>2 DEF DecodeReady
  <2>2. dpc' # "await_render"
    BY <1>1, <1>2 DEF IInv, Decoding
  <2> QED
    BY <1>1, <1>2, <2>1, <2>2 DEF IInv, Decoding
<1>15. OthersEnded' /\ DeletedEnded'
  BY <1>7 DEF OthersEnded, DeletedEnded
<1> QED
  BY <1>12, <1>13, <1>14, <1>15 DEF IInv

-----------------------------------------------------------------------------
LEMMA InitIInv == Init => IInv
<1> SUFFICES ASSUME Init PROVE IInv
  OBVIOUS
<1>1. /\ decQueue = <<>> /\ uiQueue = <<>> /\ Len(decQueue) = 0 /\ Len(uiQueue) = 0
      /\ ~isDecoding /\ dpc = "idle" /\ upc = "idle"
  BY EmptySeq DEF Init
<1>2. ~FormatReady /\ ~DecodeReady
  BY <1>1 DEF FormatReady, DecodeReady
<1>3. Unmade \in PlayRecord
  <2>1. 0 \in 0..RingCapacity /\ <<>> \in Seq({"frame", "end"})
    BY Numbers, EmptySeq
  <2> QED
    BY <2>1 DEF Unmade, PlayRecord, AudioPCs, RenderPCs
<1>4. play \in [Plays -> PlayRecord] /\ \A k \in Plays : play[k] = Unmade
  BY <1>3 DEF Init
<1>5. TypeOK
  <2>1. 0 \in 0..MaxOpens /\ 0 \in 0..MaxPackets
    BY Numbers
  <2>2. decQueue \in Seq(DecSignal) /\ uiQueue \in Seq(UISignal)
    BY <1>1, EmptySeq
  <2> QED
    BY <1>4, <2>1, <2>2 DEF Init, TypeOK, DecSignal, UISignal, PlayRecord, DecoderPCs
<1>6. Queues
  BY <1>1, <1>2 DEF Queues
<1>7. Decoding
  BY <1>1, <1>2 DEF Decoding
<1>8. OthersEnded /\ DeletedEnded
  BY <1>4 DEF OthersEnded, DeletedEnded, Ended, Unmade
<1> QED
  BY <1>5, <1>6, <1>7, <1>8 DEF IInv

LEMMA NextIInv ==
  ASSUME IInv, Patient, [Next]_vars
  PROVE  IInv'
<1>1. CASE UI
  BY <1>1, OpenIdleStep, OpenAfterStopStep, UserStep, HandleFormatReadyStep, HandleFinishedStep
     DEF UI, UserSimple
<1>2. CASE Decoder
  BY <1>2, OpenFileStep, StartDecodeStep, DecodeStep, AwaitRenderStep, ReportStep DEF Decoder
<1>3. CASE \E k \in Plays : Audio(k) \/ Render(k)
  BY <1>3, AudioStep, RenderStep
<1>4. CASE SpuriousWakeup
  BY <1>4, SpuriousStep
<1>5. CASE UNCHANGED vars
  <2>1. UNCHANGED <<ui, flags, dec>> /\ UNCHANGED play
    BY <1>5 DEF vars
  <2> QED
    BY <2>1, PlayTyped, NoneEvolves, ThreadStep DEF IInv
<1> QED
  BY <1>1, <1>2, <1>3, <1>4, <1>5 DEF Next

THEOREM Invariant ==
  ASSUME Patient
  PROVE  Spec => []IInv
<1>1. IInv /\ [Next]_vars => IInv'
  BY NextIInv
<1> QED
  BY InitIInv, <1>1, PTL DEF Spec

\* No step uses a thread object that was deleted, and while a file is decoded the
\* UI's thread pointers are those of its play, for however many files are opened
\* one after the other.  A user who does not wait until a file has opened breaks
\* it, which is a finding of its own.
THEOREM PointersStayLive ==
  ASSUME Patient
  PROVE  Spec => []NoDanglingPlay
<1>1. IInv => NoDanglingPlay
  <2> SUFFICES ASSUME IInv PROVE NoDanglingPlay
    OBVIOUS
  <2>1. TypeOK
    BY DEF IInv
  <2>2. PointersLive
    BY DEF IInv, Decoding, Fits, PointersLive
  <2>3. DeletedUnused
    <3> SUFFICES ASSUME NEW k \in Plays, play[k].life = "deleted"
                 PROVE  Ended(k) /\ (using = k => dpc \in {"idle", "report"})
      BY DEF DeletedUnused
    <3>1. Ended(k)
      BY DEF IInv, DeletedEnded
    <3>2. ASSUME using = k, dpc \notin {"idle", "report"} PROVE FALSE
      BY <2>2, <3>2 DEF IInv, Decoding, PointersLive
    <3> QED
      BY <3>1, <3>2
  <2> QED
    BY <2>1, <2>2, <2>3 DEF NoDanglingPlay
<1> QED
  BY <1>1, Invariant, PTL

\* When wait_to_finished returns, every thread of every file has ended.
THEOREM StopStaysComplete ==
  ASSUME Patient
  PROVE  Spec => StopIsComplete
<1>1. IInv /\ [Next]_vars => [upc = "f_check" /\ upc' = "idle" => \A k \in Plays : Ended(k)]_vars
  <2> SUFFICES ASSUME IInv, [Next]_vars, upc = "f_check", upc' = "idle"
               PROVE  \A k \in Plays : Ended(k)
    OBVIOUS
  <2>1. ~isDecoding
    <3>1. CASE UI
      BY <3>1 DEF UI, OpenIdle, StopDecoding, MayOpen, Does, AwaitEnd, OpenAfterStop, PlayButton,
                  Seek, Close, Closed, HandleFormatReady, HandleFinished, NextSignal
    <3>2. CASE Decoder
      BY <3>2 DEF Decoder, OpenFile, StartDecode, Decode, AwaitRender, Report, ReportEnd, ui
    <3>3. CASE ~UI /\ ~Decoder
      BY <3>3 DEF Next, Audio, Render, SpuriousWakeup, ui, vars
    <3> QED
      BY <3>1, <3>2, <3>3
  <2>2. ~DecodeReady
    BY DEF IInv, Queues, DecodeReady
  <2> QED
    BY <2>1, <2>2 DEF IInv, OthersEnded
<1> QED
  BY <1>1, Invariant, PTL DEF Spec, StopIsComplete
=============================================================================
