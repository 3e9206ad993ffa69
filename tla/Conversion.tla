----------------------------- MODULE Conversion -----------------------------
(***************************************************************************)
(* What DecoderWorker makes of a file besides decoding it: the codecs it   *)
(* opens, and the two converters it keeps between frames, sws_ctx for      *)
(* pictures and swr_ctx for sound.  Each is made for the frame at hand and *)
(* used for every later one until the type asked for changes or a file is  *)
(* opened; the device that plays the sound, and the texture that shows the *)
(* pictures, are made by others, on the UI and the render thread.          *)
(***************************************************************************)
EXTENDS Integers, Sequences

CONSTANTS Media,      \* the files: Medium records
          MaxFiles    \* bound on the files opened

(* A medium: what its suffix makes of it, the rate of its sound (0: none), *)
(* the shape of its pictures (0: none) and the shape they turn to later.   *)
Medium(suffix, rate, shape, turn) ==
    [suffix |-> suffix, rate |-> rate, shape |-> shape, turn |-> turn]

Types == {"RGB32", "YUV420P"}
Nothing == [is |-> "nothing"]

VARIABLES
    source,                \* the file opened last, or Nothing
    now,                   \* the shape of the pictures that come out
    codecs,                \* the codec contexts there are
    fmt_type,              \* fmt.type
    sws_ctx, swr_ctx,      \* converters: [is, from, to], or Nothing
    cur_type, next_type,   \* cur_decode_video_type, next_decode_video_type
    inbox,                 \* signals for the decoder
    formats,               \* format_ready signals for the UI
    using,                 \* rate of the device of the play decoded, or Nothing
    opened,
    hasty,                 \* history: a file was opened while another was opening
    chosen,                \* history: the user asked for another type than RGB32
    picture, sound         \* the last picture and frame of sound handed over

convVars == <<source, now, codecs, fmt_type, sws_ctx, swr_ctx, cur_type, next_type,
              inbox, formats, using, opened, hasty, chosen, picture, sound>>
decoded == <<cur_type, sws_ctx, swr_ctx, picture, sound>>
asked   == <<next_type, chosen, opened, hasty>>
opening == <<source, codecs, fmt_type>>

(* init_comboBox_decode_type selects RGB32, which is AV_PIX_FMT_RGBA.      *)
Init ==
    /\ source = Nothing /\ now = 0 /\ codecs = {} /\ fmt_type = "UNKNOWN"
    /\ sws_ctx = Nothing /\ swr_ctx = Nothing /\ cur_type = "None" /\ next_type = "RGB32"
    /\ inbox = <<>> /\ formats = <<>> /\ using = Nothing /\ opened = 0
    /\ hasty = FALSE /\ chosen = FALSE /\ picture = Nothing /\ sound = Nothing

Idle == using = Nothing

----------------------------------------------------------------------------
(* The UI.                                                                 *)

(* A play that is being decoded is stopped first, see StopDecoding.        *)
OpenFile(f) ==
    /\ Idle /\ opened < MaxFiles /\ opened' = opened + 1
    /\ hasty' = (hasty \/ inbox # <<>> \/ formats # <<>>)
    /\ inbox' = Append(inbox, [is |-> "start_pretreatment", file |-> f])
    /\ UNCHANGED <<opening, now, decoded, next_type, chosen, formats, using>>

(* The device is opened at the rate of the format, and converts nothing.   *)
handle_format_ready ==
    /\ formats # <<>> /\ formats' = Tail(formats)
    /\ inbox' = Append(inbox, [is |-> "decode_ready", device |-> Head(formats)])
    /\ UNCHANGED <<opening, now, decoded, asked, using>>

set_decode_video_type(type) ==
    /\ next_type # type /\ next_type' = type
    /\ chosen' = (chosen \/ type # "RGB32")
    /\ UNCHANGED <<opening, now, decoded, opened, hasty, inbox, formats, using>>

----------------------------------------------------------------------------
(* The decoder.                                                            *)

KeepsPictures == swr_ctx' = Nothing /\ UNCHANGED sws_ctx   \* mutant: sws_ctx kept
on_finished == sws_ctx' = Nothing /\ swr_ctx' = Nothing

(* The codecs found: one for the sound may be missing or not open.         *)
Found(f, audio) ==
    (IF f.rate # 0 /\ audio THEN {"audio"} ELSE {})
    \cup (IF f.shape # 0 /\ f.suffix # "mp3" THEN {"video"} ELSE {})

Becomes(found) ==
    IF found = {"audio", "video"} THEN "VideoWithAudio"
    ELSE IF found = {"audio"} THEN "Audio" ELSE "Video"

pretreatment ==
    /\ Idle /\ inbox # <<>> /\ Head(inbox).is = "start_pretreatment"
    /\ inbox' = Tail(inbox) /\ on_finished
    /\ LET f == Head(inbox).file IN
       \/ \E audio \in BOOLEAN :
            LET found == Found(f, audio) IN
            /\ source' = f /\ now' = f.shape /\ codecs' = found
            /\ IF f.suffix = "mp3" /\ found = {}
               THEN fmt_type' = "Audio" /\ UNCHANGED formats
               ELSE fmt_type' = Becomes(found)
                    /\ formats' = Append(formats, IF "audio" \in found THEN f.rate ELSE 0)
       \/ \* the file cannot be opened: fmt.type is left uninitialized
          /\ source' = Nothing /\ now' = 0 /\ codecs' = {}
          /\ fmt_type' \in {"VideoWithAudio", "Audio", "Video", "UNKNOWN"}
          /\ UNCHANGED formats
    /\ UNCHANGED <<cur_type, picture, sound, asked, using>>

decode ==
    /\ Idle /\ inbox # <<>> /\ Head(inbox).is = "decode_ready"
    /\ inbox' = Tail(inbox) /\ using' = [is |-> "device", rate |-> Head(inbox).device]
    /\ UNCHANGED <<opening, now, decoded, asked, formats>>

(* The end of the file, or the user opens another one.                     *)
StopDecoding ==
    /\ ~Idle /\ using' = Nothing
    /\ UNCHANGED <<opening, now, decoded, asked, inbox, formats>>

change ==
    /\ ~Idle /\ "video" \in codecs /\ fmt_type \in {"VideoWithAudio", "Video"}
    /\ sws_ctx' = IF next_type # cur_type \/ sws_ctx = Nothing
                  THEN [is |-> "sws", from |-> now, to |-> next_type] ELSE sws_ctx
    /\ cur_type' = next_type
    /\ picture' = [is |-> "picture", shape |-> now, read |-> sws_ctx'.from,
                   made |-> sws_ctx'.to, room |-> next_type, turned |-> now # source.shape]
    /\ UNCHANGED <<swr_ctx, sound, opening, now, asked, inbox, formats, using>>

(* The pictures of a stream may change their size as it goes on.           *)
Turns ==
    /\ ~Idle /\ source # Nothing /\ now # source.turn /\ now' = source.turn
    /\ UNCHANGED <<decoded, opening, asked, inbox, formats, using>>

audio_change ==
    /\ ~Idle /\ "audio" \in codecs /\ fmt_type \in {"VideoWithAudio", "Audio"}
    /\ swr_ctx' = IF swr_ctx = Nothing
                  THEN [is |-> "swr", from |-> source.rate, to |-> using.rate] ELSE swr_ctx
    /\ sound' = [is |-> "sound", rate |-> source.rate, read |-> swr_ctx'.from,
                 made |-> swr_ctx'.to, device |-> using.rate]
    /\ UNCHANGED <<cur_type, sws_ctx, picture, opening, now, asked, inbox, formats, using>>

Next ==
    \/ \E f \in Media : OpenFile(f)
    \/ \E type \in Types : set_decode_video_type(type)
    \/ handle_format_ready \/ pretreatment \/ decode \/ StopDecoding
    \/ change \/ Turns \/ audio_change

Spec == Init /\ [][Next]_convVars

----------------------------------------------------------------------------
Needed == [type \in {"VideoWithAudio", "Audio", "Video"} |->
              IF type = "Audio" THEN {"audio"}
              ELSE IF type = "Video" THEN {"video"} ELSE {"audio", "video"}]

(* As long as no file is opened while another one is opening, the cached   *)
(* converters fit: the last picture was read in its own shape, unless the  *)
(* stream has changed it, and made in the type its memory was allocated    *)
(* for, which is the texture's unless the user has asked for another; the  *)
(* last sound was read at its own rate and made for the device that plays  *)
(* it; and what is decoded has the codecs it needs, unless the file has no *)
(* stream that can be played.                                              *)
ConvertersFit ==
    ~hasty =>
        /\ picture # Nothing =>
              /\ picture.read = picture.shape \/ picture.turned
              /\ picture.made = picture.room
              /\ picture.made = "RGB32" \/ chosen
        /\ sound # Nothing => sound.read = sound.rate /\ sound.made = sound.device
        /\ ~Idle => Needed[fmt_type] \subseteq codecs \/ codecs = {}
=============================================================================
