------------------------------- MODULE Resize -------------------------------
(***************************************************************************)
(* The size of the video window: resizeEvent sets a flag, and then the     *)
(* four numbers of the rectangle, one store each; the render thread takes  *)
(* flag and numbers between two frames, one load each, and resets the flag *)
(* last.                                                                   *)
(***************************************************************************)
EXTENDS Integers, Sequences

CONSTANTS Sizes,      \* [w, h] the window is given
          FrameSize,  \* [w, h] of the pictures
          MaxResizes

VARIABLES
    asks,       \* the resizeEvent going on: [w, h] and the stores made, or Calm
    dst_w, dst_h,  \* (x and y are always 0: rect() is relative to its widget)
    is_window_resize,
    frame,      \* the frame going on: what has been done of it
    drawn,      \* [w, h, x, y] of the last picture, and [into] the numbers it used
    windowSize, \* SDL's
    raced,      \* history: the last resizeEvent and the taking of the flag overlapped
    resizes

resizeVars == <<asks, dst_w, dst_h, is_window_resize, frame, drawn, windowSize, raced, resizes>>

Calm == [stage |-> "calm", w |-> 0, h |-> 0]
NewFrame == [stage |-> "test", w |-> 0, h |-> 0]

(* A product of doubles that would be a whole number may fall short of it  *)
(* and lose one when it is cast to int.                                    *)
Cast(num, den) == {num \div den} \cup (IF num % den = 0 THEN {num \div den - 1} ELSE {})

Scaled(w, h, into, byWidth) ==
    {[w |-> rw, h |-> rh, x |-> (into.w - rw) \div 2, y |-> (into.h - rh) \div 2, into |-> into] :
        rw \in IF byWidth THEN Cast(w * into.w, w) ELSE Cast(w * into.h, h),
        rh \in IF byWidth THEN Cast(h * into.w, w) ELSE Cast(h * into.h, h)}

LargerScale(w, h, into) == Scaled(w, h, into, into.w * h > into.h * w)   \* mutant

(* The largest picture of the shape that fits.                             *)
transform_video_rect(w, h, into) == Scaled(w, h, into, into.w * h < into.h * w)

(* init_start_video gives the thread the size the window has.              *)
Init ==
    /\ asks = Calm /\ is_window_resize = FALSE /\ frame = NewFrame
    /\ windowSize \in Sizes /\ dst_w = windowSize.w /\ dst_h = windowSize.h
    /\ drawn \in transform_video_rect(FrameSize.w, FrameSize.h, windowSize)
    /\ raced = FALSE /\ resizes = 0

----------------------------------------------------------------------------
Taking == frame.stage \in {"size", "sized", "reset"}

(* resizeEvent: the flag, dst_w, dst_h.                                    *)
SetResize(size) ==
    /\ asks.stage = "calm" /\ resizes < MaxResizes /\ resizes' = resizes + 1
    /\ asks' = [stage |-> "width", w |-> size.w, h |-> size.h]
    /\ is_window_resize' = TRUE /\ raced' = Taking
    /\ UNCHANGED <<dst_w, dst_h, frame, drawn, windowSize>>

SetRect ==
    /\ \/ asks.stage = "width" /\ dst_w' = asks.w /\ UNCHANGED dst_h
          /\ asks' = [asks EXCEPT !.stage = "height"]
       \/ asks.stage = "height" /\ dst_h' = asks.h /\ UNCHANGED dst_w /\ asks' = Calm
    /\ UNCHANGED <<is_window_resize, frame, drawn, windowSize, raced, resizes>>

(* One frame of RenderThread::run.                                         *)
TestResize ==
    /\ frame.stage = "test"
    /\ frame' = [frame EXCEPT !.stage = IF is_window_resize THEN "size" ELSE "width"]
    /\ raced' = (raced \/ (is_window_resize /\ asks.stage # "calm"))
    /\ UNCHANGED <<asks, dst_w, dst_h, is_window_resize, drawn, windowSize, resizes>>

SetWindowSize ==
    /\ \/ frame.stage = "size" /\ frame' = [frame EXCEPT !.stage = "sized", !.w = dst_w]
          /\ UNCHANGED <<windowSize, is_window_resize>>
       \/ frame.stage = "sized" /\ frame' = [frame EXCEPT !.stage = "reset"]
          /\ windowSize' = [w |-> frame.w, h |-> dst_h] /\ UNCHANGED is_window_resize
       \/ frame.stage = "reset" /\ frame' = [frame EXCEPT !.stage = "width"]
          /\ is_window_resize' = FALSE /\ UNCHANGED windowSize
    /\ UNCHANGED <<asks, dst_w, dst_h, drawn, raced, resizes>>

ReadWidth == frame' = [frame EXCEPT !.stage = "height", !.w = dst_w]

Draw ==
    /\ \/ frame.stage = "width" /\ ReadWidth /\ UNCHANGED drawn
       \/ frame.stage = "height" /\ frame' = NewFrame
          /\ drawn' \in transform_video_rect(FrameSize.w, FrameSize.h,
                                               [w |-> frame.w, h |-> dst_h])
    /\ UNCHANGED <<asks, dst_w, dst_h, is_window_resize, windowSize, raced, resizes>>

Next == (\E size \in Sizes : SetResize(size)) \/ SetRect \/ TestResize \/ SetWindowSize \/ Draw

Spec == Init /\ [][Next]_resizeVars

----------------------------------------------------------------------------
(* When the flag has been taken the window has the size of the rectangle,  *)
(* unless the render thread took it while resizeEvent was setting them, or *)
(* the next resizeEvent set it while it was being taken: then the window   *)
(* keeps a size that is old, or half old.  The picture is always inside of *)
(* the rectangle it was made for and fills it in one direction, but for a  *)
(* line or column lost in a cast.                                          *)
SizeExplained ==
    /\ asks = Calm /\ ~is_window_resize /\ ~Taking /\ ~raced
          => windowSize = [w |-> dst_w, h |-> dst_h]
    /\ drawn.x >= 0 /\ drawn.x + drawn.w <= drawn.into.w
    /\ drawn.y >= 0 /\ drawn.y + drawn.h <= drawn.into.h
    /\ drawn.w >= drawn.into.w - 1 \/ drawn.h >= drawn.into.h - 1
=============================================================================
