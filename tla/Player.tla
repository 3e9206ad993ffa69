-------------------------------- MODULE Player --------------------------------
(***************************************************************************)
(* The media player: the UI thread (MainWindow), the decoder thread        *)
(* (DecoderWorker, moved to a QThread, so its slots run one at a time from *)
(* an event queue), and one AudioThread and one RenderThread per file      *)
(* played.  The UI and the decoder post events to each other; everything   *)
(* else goes through atomic flags, a ring buffer of audio frames and a     *)
(* list of video frames.                                                   *)
(*                                                                         *)
(* A "play" is one execution of init_start_video: the pair of threads it   *)
(* makes and the queues they own.  Frames are counted, not looked at.      *)
(* Three condition variables matter and all three are notified without     *)
(* their mutex: pause_cv, wait_to_clear and, in RingBuffer::stop, full.    *)
(* So a wait is split where the predicate has been evaluated (..._block)   *)
(* and the thread is about to sleep (..._wait).                            *)
(***************************************************************************)
EXTENDS Naturals, Sequences

CONSTANTS Modes,       (* the kinds of file there are: a subset of DecodeTypes *)
          UserOps,     (* what the user does: a subset of AllUserOps           *)
          Patient,     (* the user does not open a file while one is opening   *)
          MaxOpens,    (* bound: how many files the user opens                 *)
          MaxPackets,  (* bound: packets left in a file when opened or sought  *)
          RingCapacity (* capacity of the audio ring buffer                    *)

DecodeTypes == {"VideoWithAudio", "Audio", "Video"}
AllUserOps  == {"open", "play_button", "seek", "close"}

ASSUME PlayerAssumption == /\ Modes \subseteq DecodeTypes
                           /\ UserOps \subseteq AllUserOps
                           /\ Patient \in BOOLEAN
                           /\ MaxOpens \in Nat
                           /\ MaxPackets \in Nat
                           /\ RingCapacity \in Nat \ {0}

Plays == 1..MaxOpens
NoPlay == 0

VARIABLES
  upc,         (* where the UI thread is                                       *)
  cur,         (* its pointers audio_thread and render_thread: a play, or none *)
  checked,     (* btn_play is checked and reads "stop"                         *)
  uiQueue,     (* signals posted to the UI thread                              *)
  opens,       (* history: how many files were opened                          *)
  isPaused, isStoped, isDecoding, (* atomic flags                              *)
  seek,        (* seek_offset is not 0                                         *)
  dpc,         (* where the decoder thread is                                  *)
  using,       (* the play whose thread pointers it was given                  *)
  fmt,         (* fmt.type                                                     *)
  state,       (* the state machine of decode_video_with_audio                 *)
  left,        (* packets av_read_frame will still return                      *)
  decQueue,    (* signals posted to the decoder thread                         *)
  play         (* per play: the two threads and their queues                   *)

ui   == <<upc, cur, checked, uiQueue, opens>>
flags == <<isPaused, isStoped, isDecoding, seek>>
dec  == <<dpc, using, fmt, state, left, decQueue>>
vars == <<ui, flags, dec, play>>

(***************************************************************************)
(* A play: whether its objects exist; where its threads are ("none" for a  *)
(* thread that was not made, "done" once is_finished_ is set); the number  *)
(* of elements in the ring and whether it is stopped; the video frames,    *)
(* among which "end" stands for the null pointer that ends the stream.     *)
(***************************************************************************)
Unmade == [life |-> "unmade", audio |-> "none", render |-> "none",
           ring |-> 0, stopped |-> FALSE, frames |-> <<>>]

Ended(k) == /\ play[k].audio \in {"none", "done"}
            /\ play[k].render \in {"none", "done"}

Init == /\ upc = "idle" /\ cur = NoPlay /\ checked = FALSE /\ uiQueue = <<>> /\ opens = 0
        /\ isPaused = FALSE /\ isStoped = FALSE /\ isDecoding = FALSE /\ seek = FALSE
        /\ dpc = "idle" /\ using = NoPlay /\ fmt = "UNKNOWN" /\ state = "Running"
        /\ left = 0 /\ decQueue = <<>>
        /\ play = [k \in Plays |-> Unmade]

-----------------------------------------------------------------------------
(* The audio thread: AudioThread::run *)

AudioAt(k, p) == play[k].audio = p
AudioGoto(k, p) == play' = [play EXCEPT ![k].audio = p]

\* pause_mtx is held only by a thread that is about to wait on pause_cv.
PauseHeld == \E k \in Plays : AudioAt(k, "p_block") \/ play[k].render = "p_block"

\* The mutex of the ring buffer is held by a reader that is about to sleep.
RingHeld(k) == AudioAt(k, "r_block")

\* No device, or not the format asked for: run() returns without is_finished_.
AudioStart(k) == /\ AudioAt(k, "start")
                 /\ AudioGoto(k, "loop") \/ AudioGoto(k, "failed")

AudioPause(k) == /\ AudioAt(k, "loop")
                 /\ isPaused
                 /\ ~PauseHeld
                 /\ AudioGoto(k, "p_block")

AudioPlay(k) == /\ AudioAt(k, "loop")
                /\ ~isPaused
                /\ AudioGoto(k, "read")

AudioRead(k) == /\ AudioAt(k, "read")
                /\ play[k].ring > 0
                /\ play' = [play EXCEPT ![k].ring = @ - 1, ![k].audio = "loop"]

AudioEmpty(k) == /\ AudioAt(k, "read")
                 /\ play[k].ring = 0
                 /\ ~play[k].stopped
                 /\ AudioGoto(k, "r_block")

AudioEnd(k) == /\ AudioAt(k, "read")
               /\ play[k].ring = 0
               /\ play[k].stopped
               /\ AudioGoto(k, "done")

AudioSleep(k) == \/ AudioAt(k, "p_block") /\ AudioGoto(k, "p_wait")
                 \/ AudioAt(k, "r_block") /\ AudioGoto(k, "r_wait")

Audio(k) == /\ \/ AudioStart(k) \/ AudioPause(k) \/ AudioPlay(k) \/ AudioRead(k)
               \/ AudioEmpty(k) \/ AudioEnd(k) \/ AudioSleep(k)
            /\ UNCHANGED <<ui, flags, dec>>

-----------------------------------------------------------------------------
(* The render thread: RenderThread::run *)

RenderAt(k, p) == play[k].render = p
RenderGoto(k, p) == play' = [play EXCEPT ![k].render = p]

Front(k) == IF play[k].frames = <<>> THEN "nothing" ELSE Head(play[k].frames)

\* The list is looked at without frame_mutex: if it is empty the thread polls.
RenderPoll(k) == /\ RenderAt(k, "loop")
                 /\ Front(k) # "nothing"
                 /\ RenderGoto(k, "pause")

RenderPause(k) == /\ RenderAt(k, "pause")
                  /\ isPaused
                  /\ ~PauseHeld
                  /\ RenderGoto(k, "p_block")

RenderGo(k) == /\ RenderAt(k, "pause")
               /\ ~isPaused
               /\ RenderGoto(k, "frame")

RenderSleep(k) == /\ RenderAt(k, "p_block")
                  /\ RenderGoto(k, "p_wait")

\* Cleared in the meantime, or a frame whose time has not come.
RenderAgain(k) == /\ RenderAt(k, "frame")
                  /\ Front(k) \in {"nothing", "frame"}
                  /\ RenderGoto(k, "loop")

\* The frame is shown, or dropped because it is late.
RenderPop(k) == /\ RenderAt(k, "frame")
                /\ Front(k) = "frame"
                /\ play' = [play EXCEPT ![k].frames = Tail(@), ![k].render = "loop"]

RenderEnd(k) == /\ RenderAt(k, "frame")
                /\ Front(k) = "end"
                /\ RenderGoto(k, "done")

Render(k) == /\ \/ RenderPoll(k) \/ RenderPause(k) \/ RenderGo(k) \/ RenderSleep(k)
                \/ RenderAgain(k) \/ RenderPop(k) \/ RenderEnd(k)
             /\ UNCHANGED <<ui, flags, dec>>

-----------------------------------------------------------------------------
(* The decoder thread: what it does to the play it feeds *)

\* RingBuffer::stop sets the flag and notifies without taking the mutex.
Stopped(p) == [p EXCEPT !.stopped = TRUE,
                        !.audio = IF @ = "r_wait" THEN "read" ELSE @]

\* RingBuffer::write, once there is room.
Written(p) == [p EXCEPT !.ring = @ + 1,
                        !.audio = IF @ = "r_wait" THEN "read" ELSE @]

\* clear_buffer of both threads.
Cleared(p) == [p EXCEPT !.ring = 0, !.frames = <<>>]

Shown(p, f) == [p EXCEPT !.frames = Append(@, f)]

HasAudio == fmt \in {"VideoWithAudio", "Audio"}
HasVideo == fmt \in {"VideoWithAudio", "Video"}
Both     == fmt = "VideoWithAudio"

Goto(p) == dpc' = p

Feed(p) == play' = [play EXCEPT ![using] = p]
Fed == play[using]

-----------------------------------------------------------------------------
(* The decoder thread: its slots *)

\* The event loop calls the slot connected to the next signal.
NextSlot(signal) == /\ dpc = "idle" /\ upc # "closed"
                    /\ decQueue # <<>>
                    /\ Head(decQueue).type = signal
                    /\ decQueue' = Tail(decQueue)

\* pretreatment: the previous file is released, the new one opened.
OpenFile == /\ NextSlot("start_pretreatment")
            /\ \/ \E m \in Modes, n \in 0..MaxPackets :
                    /\ fmt' = m
                    /\ left' = n
                    /\ uiQueue' = Append(uiQueue, [type |-> "format_ready", fmt |-> m])
               \/ /\ fmt' = "UNKNOWN"        \* it cannot be opened: nobody is told
                  /\ left' = 0
                  /\ UNCHANGED uiQueue
            /\ UNCHANGED <<upc, cur, checked, opens, flags, dpc, using, state, play>>

\* decode
StartDecode == /\ NextSlot("decode_ready")
               /\ using' = Head(decQueue).play
               /\ isDecoding' = TRUE
               /\ state' = "Running"
               /\ Goto(IF fmt = "UNKNOWN" THEN "idle" ELSE "top")
               /\ UNCHANGED <<ui, isPaused, isStoped, seek, fmt, left, play>>

\* The head of decode_video_with_audio's loop: when stopped, both queues are
\* emptied and both threads are told that the stream ends.
Abort == /\ dpc = "top" /\ Both
         /\ isStoped
         /\ ~RingHeld(using)
         /\ Feed(Shown(Cleared(Fed), "end"))
         /\ Goto("abort_stop")
         /\ UNCHANGED <<seek, state, left>>

AbortStop == /\ dpc = "abort_stop"
             /\ Feed(Stopped(Fed))
             /\ state' = "Finished"
             /\ Goto("switch")
             /\ UNCHANGED <<seek, left>>

Proceed == /\ dpc = "top" /\ Both
           /\ ~isStoped
           /\ Goto("switch")
           /\ UNCHANGED <<seek, state, left, play>>

\* Anywhere in the file; what was decoded for the old place is dropped.
SeekByOffset == /\ left' \in 0..MaxPackets
                /\ Feed(Cleared(Fed))

\* seek_offset is looked at after `stopped`, so it overrides Finished.
DecodeSeeking == /\ dpc = "switch"
                 /\ seek
                 /\ ~RingHeld(using)
                 /\ seek' = FALSE
                 /\ SeekByOffset
                 /\ state' = "Running"
                 /\ Goto("top")

\* One packet: of the audio stream, of the video stream, or giving no frame.
\* A failing resampler makes audio_change return null, which stops the ring.
Packet == /\ left > 0
          /\ left' = left - 1
          /\ \/ HasAudio /\ Goto("write") /\ UNCHANGED play
             \/ HasAudio /\ Goto("top") /\ Feed(Stopped(Fed))
             \/ HasVideo /\ Goto("top") /\ Feed(Shown(Fed, "frame"))
             \/ Goto("top") /\ UNCHANGED play

DecodeRunning == /\ dpc = "switch" /\ state = "Running"
                 /\ ~seek
                 /\ \/ Packet /\ UNCHANGED state
                    \/ left = 0 /\ state' = "Flushing" /\ Goto("top") /\ UNCHANGED <<left, play>>
                 /\ UNCHANGED seek

DecodeOther == /\ dpc = "switch" /\ state # "Running"
               /\ ~seek
               /\ Goto(IF state = "Flushing" THEN "flush" ELSE "finish")
               /\ UNCHANGED <<seek, state, left, play>>

\* decode_audio_only and decode_video_only read a packet before they look at
\* isStoped and at seek_offset; seeking does nothing in a file without video.
DecodeOneStream ==
  /\ dpc = "top" /\ ~Both
  /\ \/ left = 0 /\ Goto("flush") /\ UNCHANGED <<seek, left, play>>
     \/ /\ left > 0 /\ isStoped
        /\ ~RingHeld(using)
        /\ left' = left - 1
        /\ Feed(Cleared(Fed))
        /\ Goto("finish")
        /\ UNCHANGED seek
     \/ /\ left > 0 /\ ~isStoped /\ seek
        /\ seek' = FALSE
        /\ IF HasVideo THEN SeekByOffset ELSE left' = left - 1 /\ UNCHANGED play
        /\ Goto("top")
     \/ ~isStoped /\ ~seek /\ Packet /\ UNCHANGED seek
  /\ UNCHANGED state

\* Mutant: write does not look at the capacity.
WriteOverfull == /\ dpc \in {"write", "flush_write"}
                 /\ ~RingHeld(using)
                 /\ Feed(Written(Fed))
                 /\ Goto(IF dpc = "write" THEN "top" ELSE "flush_end")
                 /\ UNCHANGED <<seek, state, left>>

\* RingBuffer::write blocks while the ring is full, stopped or not.
WriteFrame == /\ dpc \in {"write", "flush_write"}
              /\ ~RingHeld(using)
              /\ Fed.ring < RingCapacity
              /\ Feed(Written(Fed))
              /\ Goto(IF dpc = "write" THEN "top" ELSE "flush_end")
              /\ UNCHANGED <<seek, state, left>>

\* The decoders may hold back a frame until they are flushed.
FlushVideo == /\ dpc = "flush"
              /\ \/ HasVideo /\ Feed(Shown(Fed, "frame"))
                 \/ UNCHANGED play
              /\ \/ HasAudio /\ Goto("flush_write")
                 \/ Goto("flush_end")
              /\ UNCHANGED <<seek, state, left>>

FlushEnd == /\ dpc = "flush_end"
            /\ IF Both
               THEN /\ Feed(Shown(Stopped(Fed), "end"))
                    /\ state' = "Finished"
                    /\ Goto("top")
               ELSE /\ Goto("finish")
                    /\ UNCHANGED <<state, play>>
            /\ UNCHANGED <<seek, left>>

-----------------------------------------------------------------------------
(* The decoder thread: handle_finished *)

TellEnd == /\ dpc = "finish"
           /\ IF HasAudio THEN Feed(Stopped(Fed)) /\ Goto("await_audio")
                          ELSE Feed(Shown(Fed, "end")) /\ Goto("await_render")
           /\ UNCHANGED <<seek, state, left>>

\* Mutant: the second null pointer is missing although clear_buffer may have
\* thrown the first one away.
AwaitAudioOnly == /\ dpc = "await_audio"
                  /\ AudioAt(using, "done")
                  /\ IF Both THEN Feed([Fed EXCEPT !.frames = <<>>]) /\ Goto("await_render")
                             ELSE Goto("report") /\ UNCHANGED play
                  /\ UNCHANGED <<seek, state, left>>

AwaitAudio == /\ dpc = "await_audio"
              /\ AudioAt(using, "done")
              /\ IF Both THEN Feed(Shown([Fed EXCEPT !.frames = <<>>], "end")) /\ Goto("await_render")
                         ELSE Goto("report") /\ UNCHANGED play
              /\ UNCHANGED <<seek, state, left>>

Decode == /\ \/ Abort \/ AbortStop \/ Proceed \/ DecodeSeeking \/ DecodeRunning \/ DecodeOther
             \/ DecodeOneStream \/ WriteFrame \/ FlushVideo \/ FlushEnd
             \/ TellEnd \/ AwaitAudio
          /\ UNCHANGED <<ui, isPaused, isStoped, isDecoding, using, fmt, decQueue>>

\* Mutant: isDecoding is not cleared.
ReportOnly == /\ upc' = IF upc = "f_wait" THEN "f_check" ELSE upc
              /\ uiQueue' = Append(uiQueue, [type |-> "finished"])
              /\ UNCHANGED <<cur, checked, opens, flags, using, fmt, state, left, decQueue, play>>

\* isDecoding is cleared and wait_to_clear notified without wait_mtx.
ReportEnd == /\ isDecoding' = FALSE
             /\ upc' = IF upc = "f_wait" THEN "f_check" ELSE upc
             /\ uiQueue' = Append(uiQueue, [type |-> "finished"])
             /\ UNCHANGED <<cur, checked, opens, isPaused, isStoped, seek, using, fmt, state,
                            left, decQueue, play>>

\* Mutant: the end is reported without polling is_finished of the render thread.
ReportSoon == /\ dpc = "await_render"
              /\ Goto("report")
              /\ IF Both THEN UNCHANGED <<ui, flags, using, fmt, state, left, decQueue, play>>
                         ELSE ReportEnd

\* The branch for video alone reports the end, and then falls into the report
\* that all the branches share.
AwaitRender == /\ dpc = "await_render"
               /\ RenderAt(using, "done")
               /\ Goto("report")
               /\ IF Both THEN UNCHANGED <<ui, flags, using, fmt, state, left, decQueue, play>>
                          ELSE ReportEnd

Report == /\ dpc = "report"
          /\ Goto("idle")
          /\ ReportEnd

Decoder == OpenFile \/ StartDecode \/ Decode \/ AwaitRender \/ Report

-----------------------------------------------------------------------------
(* The UI thread: what the user does *)

Woken(p) == [p EXCEPT !.audio = IF @ = "p_wait" THEN "loop" ELSE @,
                      !.render = IF @ = "p_wait" THEN "pause" ELSE @]

\* pause_cv.notify_all(), without pause_mtx.
NotifyPaused == play' = [k \in Plays |-> Woken(play[k])]

Does(op) == upc = "idle" /\ op \in UserOps

\* A file was clicked, and neither failed to open nor started to play so far.
Opening == \/ decQueue # <<>>
           \/ \E i \in 1..Len(uiQueue) : uiQueue[i].type = "format_ready"

MayOpen == Does("open") /\ opens < MaxOpens /\ (Patient => ~Opening)

PostOpen == decQueue' = Append(decQueue, [type |-> "start_pretreatment"])

\* A double click on a file while nothing is being decoded.
OpenIdle == /\ MayOpen
            /\ ~isDecoding
            /\ opens' = opens + 1
            /\ PostOpen
            /\ UNCHANGED <<upc, cur, checked, uiQueue, flags, dpc, using, fmt, state, left, play>>

\* While a file is being decoded, the UI thread stops it first, and waits.
StopDecoding == /\ MayOpen
                /\ isDecoding
                /\ opens' = opens + 1
                /\ isStoped' = TRUE
                /\ isPaused' = FALSE
                /\ NotifyPaused
                /\ upc' = "f_check"
                /\ UNCHANGED <<cur, checked, uiQueue, isDecoding, seek, dec>>

\* wait_to_finished
AwaitEnd == /\ \/ upc = "f_check" /\ isDecoding /\ upc' = "f_block"
               \/ upc = "f_block" /\ upc' = "f_wait"
            /\ UNCHANGED <<cur, checked, uiQueue, opens, flags, dec, play>>

OpenAfterStop == /\ upc = "f_check"
                 /\ ~isDecoding
                 /\ upc' = "idle"
                 /\ isStoped' = FALSE
                 /\ PostOpen
                 /\ UNCHANGED <<cur, checked, uiQueue, opens, isPaused, isDecoding, seek,
                                dpc, using, fmt, state, left, play>>

\* on_btn_play_clicked(value), where value is the new state of the button.
PlayClicked(value) == IF isDecoding THEN isPaused' = ~value /\ checked' = value /\ NotifyPaused
                                    ELSE checked' = FALSE /\ UNCHANGED <<isPaused, play>>

PlayButton == /\ Does("play_button")
              /\ PlayClicked(~checked)
              /\ UNCHANGED <<upc, cur, uiQueue, opens, isStoped, isDecoding, seek, dec>>

\* The arrow keys and the slider.
Seek == /\ Does("seek")
        /\ isDecoding
        /\ seek' = TRUE
        /\ UNCHANGED <<ui, isPaused, isStoped, isDecoding, dec, play>>

\* ~MainWindow: stop, and wait for the decoder's event loop to end.
Close == /\ Does("close")
         /\ upc' = "closing"
         /\ isStoped' = TRUE
         /\ UNCHANGED <<cur, checked, uiQueue, opens, isPaused, isDecoding, seek, dec, play>>

Closed == /\ upc = "closing"
          /\ dpc = "idle"
          /\ upc' = "closed"
          /\ NotifyPaused
          /\ UNCHANGED <<cur, checked, uiQueue, opens, flags, dec>>

-----------------------------------------------------------------------------
(* The UI thread: signals of the decoder *)

NextSignal(signal) == /\ upc = "idle"
                      /\ uiQueue # <<>>
                      /\ Head(uiQueue).type = signal
                      /\ uiQueue' = Tail(uiQueue)

Made(m) == [Unmade EXCEPT !.life = "live",
                          !.audio = IF m = "Video" THEN "none" ELSE "start",
                          !.render = IF m = "Audio" THEN "none" ELSE "loop"]

\* handle_format_ready, init_start_video.  The play made is the next one.
HandleFormatReady ==
  /\ NextSignal("format_ready")
  /\ \E k \in Plays :
       /\ play[k].life = "unmade"
       /\ \A j \in 1..(k - 1) : play[j].life # "unmade"
       /\ play' = [play EXCEPT ![k] = Made(Head(uiQueue).fmt)]
       /\ cur' = k
       /\ decQueue' = Append(decQueue, [type |-> "decode_ready", play |-> k])
  /\ isStoped' = FALSE
  /\ checked' = TRUE
  /\ UNCHANGED <<upc, opens, isPaused, isDecoding, seek, dpc, using, fmt, state, left>>

Deleted(k, plays) == IF k = NoPlay THEN plays ELSE [plays EXCEPT ![k].life = "deleted"]

\* handle_video_finished: on_btn_play_clicked(false), and the objects go.
HandleFinished ==
  /\ NextSignal("finished")
  /\ IF isDecoding THEN /\ isPaused' = TRUE
                        /\ UNCHANGED checked
                        /\ play' = Deleted(cur, [k \in Plays |-> Woken(play[k])])
                   ELSE /\ checked' = FALSE
                        /\ UNCHANGED isPaused
                        /\ play' = Deleted(cur, play)
  /\ cur' = NoPlay
  /\ UNCHANGED <<upc, opens, isStoped, isDecoding, seek, dec>>

UI == \/ OpenIdle \/ StopDecoding \/ AwaitEnd \/ OpenAfterStop \/ PlayButton \/ Seek
      \/ Close \/ Closed \/ HandleFormatReady \/ HandleFinished

-----------------------------------------------------------------------------
\* A condition variable may let a thread go without having been notified.
SpuriousWakeup ==
  \/ \E k \in Plays :
       /\ \/ AudioAt(k, "p_wait") /\ AudioGoto(k, "loop")
          \/ AudioAt(k, "r_wait") /\ AudioGoto(k, "read")
          \/ RenderAt(k, "p_wait") /\ RenderGoto(k, "pause")
       /\ UNCHANGED <<ui, flags, dec>>
  \/ /\ upc = "f_wait"
     /\ upc' = "f_check"
     /\ UNCHANGED <<cur, checked, uiQueue, opens, flags, dec, play>>

Next == \/ UI
        \/ Decoder
        \/ \E k \in Plays : Audio(k) \/ Render(k)
        \/ SpuriousWakeup

Spec == Init /\ [][Next]_vars

\* The threads run, the event loops deliver and ~MainWindow goes on once it may;
\* the user has to do nothing.  The decoder's fairness is strong, because the
\* mutex of the ring is free only now and then while its reader wakes up
\* spuriously.  A frame is shown in the end only where the clock goes on by
\* itself, in a file without audio (local_timer).
FairSpec ==
  /\ Spec
  /\ SF_vars(Decoder)
  /\ WF_vars(AwaitEnd \/ OpenAfterStop \/ Closed \/ HandleFormatReady \/ HandleFinished)
  /\ \A k \in Plays : /\ WF_vars(Audio(k))
                      /\ WF_vars(Render(k))
                      /\ SF_vars(fmt = "Video" /\ RenderPop(k) /\ UNCHANGED <<ui, flags, dec>>)

-----------------------------------------------------------------------------
AudioPCs   == {"none", "start", "failed", "loop", "p_block", "p_wait", "read", "r_block",
               "r_wait", "done"}
RenderPCs  == {"none", "loop", "pause", "p_block", "p_wait", "frame", "done"}
DecoderPCs == {"idle", "top", "abort_stop", "switch", "write", "flush", "flush_write",
               "flush_end", "finish", "await_audio", "await_render", "report"}

TypeOK ==
  /\ upc \in {"idle", "f_check", "f_block", "f_wait", "closing", "closed"}
  /\ cur \in Plays \cup {NoPlay}
  /\ {checked, isPaused, isStoped, isDecoding, seek} \subseteq BOOLEAN
  /\ uiQueue \in Seq([type : {"format_ready"}, fmt : DecodeTypes] \cup [type : {"finished"}])
  /\ opens \in 0..MaxOpens
  /\ dpc \in DecoderPCs
  /\ using \in Plays \cup {NoPlay}
  /\ fmt \in DecodeTypes \cup {"UNKNOWN"}
  /\ state \in {"Running", "Flushing", "Finished"}
  /\ left \in 0..MaxPackets
  /\ decQueue \in Seq([type : {"start_pretreatment"}]
                        \cup [type : {"decode_ready"}, play : Plays])
  /\ play \in [Plays -> [life : {"unmade", "live", "deleted"}, audio : AudioPCs,
                         render : RenderPCs, ring : 0..RingCapacity, stopped : BOOLEAN,
                         frames : Seq({"frame", "end"})]]

\* handle_video_finished deletes thread objects only when both threads have set
\* is_finished_ and the decoder has let go of them: handle_finished polls first.
DeletedUnused ==
  \A k \in Plays :
    play[k].life = "deleted" => Ended(k) /\ (using = k => dpc \in {"idle", "report"})

\* Whenever get_decode_status() is true, the UI's thread pointers are those of
\* the play being decoded, and alive: the slider and the keys rely on it.
PointersLive ==
  isDecoding => cur = using /\ cur \in Plays /\ play[cur].life = "live"

\* What the two say together, and the types: no step uses a thread object that
\* has been deleted, whatever the user does while a file opens, plays or ends.
NoDanglingPlay == TypeOK /\ DeletedUnused /\ PointersLive

\* wait_to_finished returns only when nothing of the stopped file plays on.
StopIsComplete ==
  [][upc = "f_check" /\ upc' = "idle" => \A k \in Plays : Ended(k)]_vars

-----------------------------------------------------------------------------
(* What can hang the player for good *)

AudioFailed  == \E k \in Plays : AudioAt(k, "failed")
\* RingBuffer::stop was called between a reader's test and its sleep.
LostStop     == \E k \in Plays : AudioAt(k, "r_wait") /\ play[k].stopped
\* The pause was lifted between a thread's test and its sleep.
LostPlay     == /\ ~isPaused
                /\ \E k \in Plays : AudioAt(k, "p_wait") \/ RenderAt(k, "p_wait")
\* The end was reported between the UI thread's test and its sleep.
LostFinished == upc = "f_wait" /\ ~isDecoding
\* The ring was stopped, its reader is gone, and the decoder still writes.
WriteAfterEnd == dpc \in {"write", "flush_write"} /\ AudioAt(using, "done")

\* If the user does not leave the player paused and does not seek for ever, the
\* decoder and the UI thread get back to their event loops again and again:
\* nothing else than the five causes above can stop them.
NothingElseHangs ==
  <>[]~isPaused /\ <>[]~seek
    => \/ <>[](AudioFailed \/ LostStop \/ LostPlay \/ LostFinished \/ WriteAfterEnd)
       \/ []<>(dpc = "idle") /\ []<>(upc \in {"idle", "closed"})

-----------------------------------------------------------------------------
(* What the comments of MainWindow.cpp say. *)

\* "wait for the threads to exit": closing the window ends, where nothing else
\* hangs the decoder.
CloseReturns ==
  upc = "closing" ~> upc = "closed" \/ AudioFailed \/ LostStop \/ LostPlay \/ WriteAfterEnd
=============================================================================
