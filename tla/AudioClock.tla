----------------------------- MODULE AudioClock -----------------------------
(***************************************************************************)
(* The sound of a film on its way: decoder, ring, AudioThread, the queue   *)
(* of SDL, the device.  The clock the user sees and seeks from is the      *)
(* start of the frame handed over last less what SDL has still to play.    *)
(* A seek empties the ring at once and asks the audio thread, by a flag,   *)
(* to empty SDL's queue.  A frame lasts one unit of time; gen counts the   *)
(* seeks a frame was decoded after.                                        *)
(***************************************************************************)
EXTENDS Integers, Sequences, FiniteSets

CONSTANTS Length,      \* of the film
          RingRoom,    \* capacity of the ring
          QueueRoom,   \* frames SDL has before the thread waits (192000 bytes)
          MaxSeeks     \* bound on the seeks

VARIABLES
    decoding, next, gen, \* the decoder: what it does, the next frame, the seeks
    ring, ringStopped,
    stage, read_buf,     \* the audio thread, and the frame it has
    sdl, clear_SDL,      \* SDL's queue, clear_SDL_QueueAudio
    audio_clock,         \* [gen, at]
    paused, seek_offset, stopAsked,
    heard,               \* history: the last frame played
    lost,                \* history: frames of this gen thrown away unheard
    seeks

clockVars == <<decoding, next, gen, ring, ringStopped, stage, read_buf, sdl, clear_SDL,
               audio_clock, paused, seek_offset, stopAsked,
               heard, lost, seeks>>
decoderOnes == <<decoding, next, gen, ringStopped>>
audioOnes   == <<stage, read_buf, sdl, audio_clock, heard>>
uiOnes      == <<paused, stopAsked, seeks>>

Silence == [gen |-> 0, pts |-> -1]

Init ==
    /\ decoding = "run" /\ next = 0 /\ gen = 0 /\ ring = <<>> /\ ringStopped = FALSE
    /\ stage = "pause" /\ read_buf = Silence /\ sdl = <<>> /\ clear_SDL = FALSE
    /\ audio_clock = [gen |-> 0, at |-> 0]
    /\ paused = FALSE /\ seek_offset = 0 /\ stopAsked = FALSE
    /\ heard = Silence /\ lost = 0 /\ seeks = 0

----------------------------------------------------------------------------
(* DecoderWorker.                                                          *)

DecodeFrame ==
    /\ decoding = "run" /\ ~stopAsked /\ seek_offset = 0
    /\ next < Length /\ Len(ring) < RingRoom
    /\ ring' = Append(ring, [gen |-> gen, pts |-> next]) /\ next' = next + 1
    /\ UNCHANGED <<decoding, gen, ringStopped, audioOnes, clear_SDL, uiOnes, seek_offset, lost>>

(* Nothing left: the ring is stopped, and nobody looks at a seek any more. *)
EndOfFile ==
    /\ decoding = "run" /\ ~stopAsked /\ seek_offset = 0 /\ next = Length
    /\ ringStopped' = TRUE /\ decoding' = "ended"
    /\ UNCHANGED <<next, gen, ring, audioOnes, clear_SDL, uiOnes, seek_offset, lost>>

FlagFirst == <<"flag", "ring">>   \* mutant: SDL's queue before the ring
SeekOrder == <<"ring", "flag">>

Clamped(t) == IF t < 0 THEN 0 ELSE IF t > Length THEN Length ELSE t

(* The film goes on from a key frame before the place sought.              *)
seek_by_offset ==
    /\ decoding = "run" /\ ~stopAsked /\ seek_offset # 0
    /\ next' \in 0..Clamped(audio_clock.at + seek_offset)
    /\ seek_offset' = 0 /\ gen' = gen + 1 /\ lost' = 0 /\ decoding' = SeekOrder[1]
    /\ UNCHANGED <<ring, ringStopped, audioOnes, clear_SDL, uiOnes>>

SeekClears ==
    /\ decoding \in {"ring", "flag"}
    /\ IF decoding = "ring" THEN ring' = <<>> /\ UNCHANGED clear_SDL
                            ELSE clear_SDL' = TRUE /\ UNCHANGED ring
    /\ decoding' = IF decoding = SeekOrder[1] THEN SeekOrder[2] ELSE "run"
    /\ UNCHANGED <<next, gen, ringStopped, audioOnes, uiOnes, seek_offset, lost>>

(* isStoped: clear, stop, then the flag.                                   *)
Stop ==
    /\ stopAsked /\ decoding \in {"run", "stop", "last"}
    /\ \/ decoding = "run" /\ decoding' = "stop" /\ ring' = <<>> /\ UNCHANGED <<ringStopped, clear_SDL>>
       \/ decoding = "stop" /\ decoding' = "last" /\ ringStopped' = TRUE /\ UNCHANGED <<ring, clear_SDL>>
       \/ decoding = "last" /\ decoding' = "ended" /\ clear_SDL' = TRUE /\ UNCHANGED <<ring, ringStopped>>
    /\ UNCHANGED <<next, gen, audioOnes, uiOnes, seek_offset, lost>>

----------------------------------------------------------------------------
(* AudioThread::run.                                                       *)

Stage(from, to) == stage = from /\ stage' = to
Fresh(q) == Cardinality({i \in DOMAIN q : q[i].gen = gen})

PauseOrGo ==
    /\ \/ Stage("pause", IF paused THEN "waiting" ELSE "look")
       \/ Stage("waiting", "look") /\ ~paused
    /\ UNCHANGED <<decoderOnes, ring, read_buf, sdl, clear_SDL, audio_clock, heard,
                   uiOnes, seek_offset, lost>>

Look ==
    /\ Stage("look", IF clear_SDL THEN "clear" ELSE "read")
    /\ UNCHANGED <<decoderOnes, ring, read_buf, sdl, clear_SDL, audio_clock, heard,
                   uiOnes, seek_offset, lost>>

ClearQueued ==
    /\ Stage("clear", "reset") /\ sdl' = <<>> /\ lost' = lost + Fresh(sdl)
    /\ UNCHANGED <<decoderOnes, ring, read_buf, clear_SDL, audio_clock, heard, uiOnes, seek_offset>>

ResetFlag ==
    /\ Stage("reset", "read") /\ clear_SDL' = FALSE
    /\ UNCHANGED <<decoderOnes, ring, read_buf, sdl, audio_clock, heard, uiOnes, seek_offset, lost>>

Read ==
    /\ ring # <<>> /\ Stage("read", "clock")
    /\ read_buf' = Head(ring) /\ ring' = Tail(ring)
    /\ UNCHANGED <<decoderOnes, sdl, clear_SDL, audio_clock, heard, uiOnes, seek_offset, lost>>

(* The ring is stopped and empty.                                          *)
ReadEnd ==
    /\ ring = <<>> /\ ringStopped /\ Stage("read", "drain")
    /\ sdl' = IF clear_SDL THEN <<>> ELSE sdl
    /\ UNCHANGED <<decoderOnes, ring, read_buf, clear_SDL, audio_clock, heard,
                   uiOnes, seek_offset, lost>>

HandedOver == [gen |-> read_buf.gen, at |-> read_buf.pts]   \* mutant: SDL's queue left out
calc_audio_clock == [gen |-> read_buf.gen, at |-> read_buf.pts - Len(sdl)]

SetClock ==
    /\ Stage("clock", "queue") /\ audio_clock' = calc_audio_clock
    /\ UNCHANGED <<decoderOnes, ring, read_buf, sdl, clear_SDL, heard, uiOnes, seek_offset, lost>>

Queue ==
    /\ Stage("queue", "full") /\ sdl' = Append(sdl, read_buf)
    /\ UNCHANGED <<decoderOnes, ring, read_buf, clear_SDL, audio_clock, heard,
                   uiOnes, seek_offset, lost>>

(* As long as SDL has too much, and at the end until it has nothing.       *)
AwaitDevice ==
    /\ stage \in {"full", "drain"}
    /\ IF Len(sdl) > (IF stage = "full" THEN QueueRoom ELSE 0)
       THEN audio_clock' = calc_audio_clock /\ UNCHANGED stage
       ELSE /\ stage' = IF stage = "full" THEN "pause" ELSE "done"
            /\ UNCHANGED audio_clock
    /\ UNCHANGED <<decoderOnes, ring, read_buf, sdl, clear_SDL, heard, uiOnes, seek_offset, lost>>

(* The device plays, except while the thread waits for the pause to end.   *)
Plays ==
    /\ stage # "waiting" /\ sdl # <<>>
    /\ heard' = Head(sdl) /\ sdl' = Tail(sdl)
    /\ UNCHANGED <<decoderOnes, ring, stage, read_buf, clear_SDL, audio_clock,
                   uiOnes, seek_offset, lost>>

----------------------------------------------------------------------------
(* The UI.                                                                 *)

otherUi == <<decoderOnes, ring, audioOnes, clear_SDL, lost>>

PlayButton ==
    /\ paused' = ~paused
    /\ UNCHANGED <<otherUi, seek_offset, stopAsked, seeks>>

keyPress(offset) ==
    /\ seeks < MaxSeeks /\ seeks' = seeks + 1
    /\ seek_offset' = offset
    /\ UNCHANGED <<otherUi, paused, stopAsked>>

(* The slider is let go at a place; what it shows meanwhile is left out.   *)
sliderReleased(place) ==
    /\ seeks < MaxSeeks /\ seeks' = seeks + 1
    /\ seek_offset' = place - audio_clock.at
    /\ UNCHANGED <<otherUi, paused, stopAsked>>

(* Another file is opened: the pause is lifted.                            *)
AskStop ==
    /\ ~stopAsked /\ stopAsked' = TRUE /\ paused' = FALSE
    /\ UNCHANGED <<otherUi, seek_offset, seeks>>

Next ==
    \/ DecodeFrame \/ EndOfFile \/ seek_by_offset \/ SeekClears \/ Stop
    \/ PauseOrGo \/ Look \/ ClearQueued \/ ResetFlag \/ Read \/ ReadEnd
    \/ SetClock \/ Queue \/ AwaitDevice \/ Plays
    \/ PlayButton \/ (\E offset \in {-1, 1} : keyPress(offset))
    \/ (\E place \in 0..Length : sliderReleased(place))
    \/ AskStop

Spec == Init /\ [][Next]_clockVars

----------------------------------------------------------------------------
SeekDone == decoding = "run" /\ ~clear_SDL /\ stage \notin {"clear", "reset"}
OnTheWay == {ring[i] : i \in DOMAIN ring} \cup {sdl[i] : i \in DOMAIN sdl}
            \cup (IF stage \in {"clock", "queue"} THEN {read_buf} ELSE {})

(* However the audio thread and a seek interleave, nothing from before the *)
(* seek is left on the way once the flag has been taken, though a flag set *)
(* while the thread answers an earlier one is lost; and of what was        *)
(* decoded after the seek one frame at most is thrown away, unless the     *)
(* user opens another file.                                                *)
SeeksHeard ==
    /\ SeekDone => \A f \in OnTheWay : f.gen = gen
    /\ lost <= 1 \/ stopAsked

(* The clock, which a seek and the pictures go by, is not ahead of what is *)
(* heard: of the frames of its own seek all before its place have been     *)
(* played or thrown away.                                                  *)
ClockHonest ==
    audio_clock.gen = heard.gen => audio_clock.at <= heard.pts + 1
=============================================================================
