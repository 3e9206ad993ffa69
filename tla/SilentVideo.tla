----------------------------- MODULE SilentVideo -----------------------------
(***************************************************************************)
(* A film without sound: RenderThread goes by a PauseElapsedTimer of its   *)
(* own, not by the audio clock.  The timer is read at the top of the loop, *)
(* the pause is waited for below, and only when there is a frame; a seek   *)
(* moves the decoder and empties the list of frames, but leaves the timer  *)
(* alone.                                                                  *)
(***************************************************************************)
EXTENDS Integers, Sequences

CONSTANTS FilmLength,  \* frames, one unit of time each
          Late,        \* a frame later than this is dropped (0.1 s)
          MaxWall,     \* bound on the time that passes
          MaxSought    \* bound on the seeks

VARIABLES
    wall,                                   \* time
    elapsedBeforePause, started, isTimerPaused, \* PauseElapsedTimer
    doing, now_clock, frames,               \* the render thread, video_frames
    render_clock,                           \* what a seek starts from
    onScreen,                               \* [pts, now, wall] of the frame shown
    paused, stopping, offset,               \* isPaused, isStoped, seek_offset
    reading,                                \* the next frame read, or Over
    waited,                                 \* history: time spent waiting in a pause
    sought

filmVars == <<wall, elapsedBeforePause, started, isTimerPaused, doing, now_clock,
              frames, render_clock, onScreen, paused, stopping, offset, reading,
              waited, sought>>
timer == <<elapsedBeforePause, started, isTimerPaused>>
user  == <<paused, stopping, sought>>
film  == <<reading, offset>>

Over == -1
End == [pts |-> -1]   \* the null pointer that ends the list

Init ==
    /\ wall = 0 /\ elapsedBeforePause = 0 /\ started = 0 /\ isTimerPaused = FALSE
    /\ doing = "read" /\ now_clock = 0 /\ frames = <<>> /\ render_clock = 0
    /\ onScreen = [pts |-> 0, now |-> 0, elapsed |-> 0]
    /\ paused = FALSE /\ stopping = FALSE /\ offset = 0 /\ reading = 0
    /\ waited = 0 /\ sought = 0

----------------------------------------------------------------------------
(* PauseElapsedTimer.                                                      *)

elapsed == elapsedBeforePause + (IF isTimerPaused THEN 0 ELSE wall - started)

pause ==
    /\ elapsedBeforePause' = elapsed /\ isTimerPaused' = TRUE /\ UNCHANGED started

ResumeOnly ==   \* mutant: the new period does not start with the resumption
    /\ isTimerPaused' = FALSE /\ UNCHANGED <<elapsedBeforePause, started>>
resume ==
    /\ started' = wall /\ isTimerPaused' = FALSE /\ UNCHANGED elapsedBeforePause

Passes ==
    /\ wall < MaxWall /\ wall' = wall + 1
    /\ waited' = waited + (IF doing = "waiting" THEN 1 ELSE 0)
    /\ UNCHANGED <<timer, doing, now_clock, frames, render_clock, onScreen, user, film>>

----------------------------------------------------------------------------
(* RenderThread::run.                                                      *)

ReadTimer ==
    /\ doing = "read" /\ now_clock' = elapsed
    /\ doing' = IF frames = <<>> THEN "read" ELSE "pause"
    /\ UNCHANGED <<wall, timer, frames, render_clock, onScreen, user, film, waited>>

AwaitResume ==
    /\ \/ doing = "pause" /\ ~paused /\ doing' = "frame" /\ UNCHANGED timer
       \/ doing = "pause" /\ paused /\ doing' = "waiting" /\ pause
       \/ doing = "waiting" /\ ~paused /\ doing' = "frame" /\ resume
    /\ UNCHANGED <<wall, now_clock, frames, render_clock, onScreen, user, film, waited>>

(* The front of the list, if it has not been emptied: the end, a frame     *)
(* whose time has not come, one that is late, or one to be shown.          *)
TakeFrame ==
    /\ doing = "frame"
    /\ IF frames = <<>> \/ Head(frames) = End
       THEN /\ doing' = IF frames = <<>> THEN "read" ELSE "finished"
            /\ UNCHANGED <<frames, render_clock, onScreen>>
       ELSE /\ doing' = "read" /\ render_clock' = Head(frames).pts
            /\ frames' = IF Head(frames).pts > now_clock THEN frames ELSE Tail(frames)
            /\ onScreen' = IF Head(frames).pts \in (now_clock - Late)..now_clock
                           THEN [pts |-> Head(frames).pts, now |-> now_clock, elapsed |-> elapsed]
                           ELSE onScreen
    /\ UNCHANGED <<wall, timer, now_clock, user, film, waited>>

----------------------------------------------------------------------------
(* DecoderWorker::decode_video_only, and the user.                         *)

ReadPacket ==
    /\ reading # Over
    /\ CASE stopping /\ reading < FilmLength -> reading' = Over /\ frames' = <<End>> /\ UNCHANGED offset
         [] ~stopping /\ offset # 0 /\ reading < FilmLength ->
              LET place == render_clock + offset IN
              /\ reading' \in 0..(IF place < 0 THEN 0 ELSE IF place > FilmLength
                                  THEN FilmLength ELSE place)
              /\ frames' = <<>> /\ offset' = 0
         [] ~stopping /\ offset = 0 /\ reading < FilmLength ->
              /\ reading' = reading + 1
              /\ frames' = Append(frames, [pts |-> reading]) /\ UNCHANGED offset
         [] OTHER ->
              /\ reading' = Over /\ frames' = Append(frames, End) /\ UNCHANGED offset
    /\ UNCHANGED <<wall, timer, doing, now_clock, render_clock, onScreen, user, waited>>

Key(o) ==
    /\ reading # Over /\ ~stopping /\ sought < MaxSought
    /\ sought' = sought + 1 /\ offset' = o
    /\ UNCHANGED <<wall, timer, doing, now_clock, frames, render_clock, onScreen,
                   paused, stopping, reading, waited>>

PauseKey ==
    /\ reading # Over /\ ~stopping /\ paused' = ~paused
    /\ UNCHANGED <<wall, timer, doing, now_clock, frames, render_clock, onScreen,
                   stopping, sought, film, waited>>

OtherFile ==
    /\ reading # Over /\ stopping' = TRUE /\ paused' = FALSE
    /\ UNCHANGED <<wall, timer, doing, now_clock, frames, render_clock, onScreen,
                   sought, film, waited>>

Next == Passes \/ ReadTimer \/ AwaitResume \/ TakeFrame \/ ReadPacket
        \/ (\E o \in {-1, 1} : Key(o)) \/ PauseKey \/ OtherFile

Spec == Init /\ [][Next]_filmVars

----------------------------------------------------------------------------
(* The timer counts the time the thread has not spent waiting for the      *)
(* pause to end, and whatever is sought, what is shown follows it: nothing *)
(* before its time (a seek forward freezes the picture until the timer has *)
(* come there), nothing that was late when the timer was read (a seek      *)
(* backward drops frames until they have caught up).                       *)
TimerHonest ==
    /\ doing # "finished" => elapsed = wall - waited
    /\ onScreen.pts <= onScreen.elapsed
    /\ onScreen.pts \in (onScreen.now - Late)..onScreen.now
=============================================================================
