----------------------------- MODULE SerialPort -----------------------------
(***************************************************************************)
(* The serial port tool (projects/SerialPort): one window whose slots all  *)
(* run on the UI thread, a timer, and a thread that emits a tick for the   *)
(* rotation of preset texts.  A message box runs an event loop of its own: *)
(* the user cannot reach the window, but ticks, the timer and arriving     *)
(* bytes are served.                                                       *)
(***************************************************************************)
EXTENDS Integers, Sequences

CONSTANTS N,          \* preset texts (10 in the code)
          MaxBytes,   \* bound on the characters the device sends
          MaxTicks    \* bound on the ticks waiting in the event queue

(* A text is the sequence of the parts its separators cut it into.         *)
Plain    == <<"f0">>          \* an even number of hexadecimal digits
Odd      == <<"z">>
Comma    == <<"z", "f0">>
Texts    == {Plain, Odd, Comma}
IsHex(t) == t = Plain
Preset   == [hex : BOOLEAN, text : Texts]

(* What the user is at: sending, the presets, or the received text.  These *)
(* share the port and nothing else, so that one at a time is enough.       *)
Interests == {"send", "presets", "receive"}

VARIABLES
    interest,
    port,        \* serialPort is open
    switch,      \* btn_serialSwitch is checked
    box,         \* the message box in front of the window, or "none"
    enabled,     \* the check boxes that depend on the switch can be clicked
    timed, timer,        \* checkBox_timedTransmission, and the timer runs
    lineEnabled,         \* the line to send can be edited
    hexSend, line,       \* checkBox_HEXSend and the text to send
    periodic,    \* checkBox_periodicSend
    thread,      \* MyThread: "none", "running", "ending" (terminate was called)
    ticks,       \* ThreadTimeOut signals in the event queue
    buttonIndex, \* next preset of the rotation
    presets, file,
    rx,          \* bytes of the device that nobody has read
    shown,       \* textEditRev: characters, as they are or as hexadecimal digits
    cursor,      \* where its text cursor stands
    hexShow, newLine,
    readCnt,     \* readCntTotal
    closing,     \* the window is gone
    sendStatus,  \* "ok", "failed" or "bad", and "none" after a message of the port
    half,        \* the device is in the middle of a character
    come,        \* history: bytes read since textEditRev was cleared
    cleared,     \* history: what readCnt was then
    cut,         \* history: a read ended between the bytes of a character
    moved,       \* history: the cursor was not at the end when text was inserted
    rushed       \* history: the thread was started while it was being ended

portVars == <<interest, port, switch, box, enabled>>
sendVars == <<timed, timer, lineEnabled, hexSend, line, sendStatus>>
tickVars == <<periodic, thread, ticks, buttonIndex, rushed>>
fileVars == <<presets, file>>
recvVars == <<rx, shown, cursor, hexShow, newLine, readCnt, half, come,
              cleared, cut, moved>>
serialVars == <<portVars, sendVars, tickVars, fileVars, recvVars, closing>>

TypeOK ==
    /\ port \in BOOLEAN /\ switch \in BOOLEAN /\ enabled \in BOOLEAN
    /\ box \in {"none", "failed", "reset"}
    /\ timed \in BOOLEAN /\ timer \in BOOLEAN /\ line \in Texts
    /\ thread \in {"none", "running", "ending"} /\ ticks \in 0..MaxTicks
    /\ buttonIndex \in 1..(N + 1)
    /\ presets \in [1..N -> Preset] /\ readCnt \in Nat
    /\ cursor \in 0..Len(shown) /\ sendStatus \in {"none", "ok", "failed", "bad"}

Init ==
    /\ interest \in Interests
    /\ port = FALSE /\ switch = FALSE /\ box = "none" /\ enabled = FALSE
    /\ timed = FALSE /\ timer = FALSE /\ lineEnabled = TRUE
    /\ hexSend = FALSE /\ line = Plain
    /\ periodic = FALSE /\ thread = "none" /\ ticks = 0 /\ buttonIndex = 1
    /\ \E t \in Texts : presets = [i \in 1..N |->
                          [hex |-> i = 1, text |-> IF i = N THEN t ELSE Plain]]
    /\ file = <<>>
    /\ rx = <<>> /\ shown = <<>> /\ cursor = 0 /\ hexShow = FALSE /\ newLine = FALSE
    /\ readCnt = 0 /\ closing = FALSE /\ sendStatus = "none"
    /\ half = FALSE /\ come = <<>> /\ cleared = 0 /\ cut = FALSE /\ moved = FALSE /\ rushed = FALSE

User == ~closing /\ box = "none"   \* the window can be used
UserAt(what) == User /\ interest = what

----------------------------------------------------------------------------
(* Sending.                                                                *)

(* on_btn_send_clicked: what is validated as hexadecimal is sent as typed; *)
(* a port that is closed refuses.                                          *)
Send(t, hex) ==
    sendStatus' = IF hex /\ ~IsHex(t) THEN "bad" ELSE IF port THEN "ok" ELSE "failed"

on_btn_send_clicked ==
    /\ UserAt("send") /\ port
    /\ Send(line, hexSend)
    /\ UNCHANGED <<portVars, timed, timer, lineEnabled, hexSend, line, tickVars,
                   fileVars, recvVars, closing>>

TimerFires ==
    /\ timer /\ ~closing
    /\ Send(line, hexSend)
    /\ UNCHANGED <<portVars, timed, timer, lineEnabled, hexSend, line, tickVars,
                   fileVars, recvVars, closing>>

EditLine ==
    /\ UserAt("send") /\ lineEnabled
    /\ line' \in Texts
    /\ UNCHANGED <<portVars, timed, timer, lineEnabled, hexSend, sendStatus,
                   tickVars, fileVars, recvVars, closing>>

on_checkBox_timedTransmission_clicked ==
    /\ UserAt("send") /\ enabled
    /\ timed' = ~timed /\ timer' = timed' /\ lineEnabled' = ~timed'
    /\ UNCHANGED <<portVars, hexSend, line, sendStatus, tickVars, fileVars,
                   recvVars, closing>>

(* A preset's button, or its turn in the rotation: text and mode go to the *)
(* line, enabled or not, and are sent.                                     *)
SendPreset(i) ==
    /\ line' = presets[i].text /\ hexSend' = presets[i].hex
    /\ Send(presets[i].text, presets[i].hex)

on_pushButton_X_clicked(i) ==
    /\ UserAt("send") /\ SendPreset(i)
    /\ UNCHANGED <<portVars, timed, timer, lineEnabled, tickVars, fileVars,
                   recvVars, closing>>

----------------------------------------------------------------------------
(* The port.                                                               *)

(* toggled is emitted before clicked: the check boxes are enabled while    *)
(* the port is being opened.                                               *)
on_btn_serialSwitch_clicked ==
    /\ User
    /\ UNCHANGED interest
    /\ switch' = ~switch /\ enabled' = switch' /\ sendStatus' = "none"
    /\ IF switch THEN port' = FALSE /\ UNCHANGED box
       ELSE \/ port' = TRUE /\ UNCHANGED box
            \/ box' = "failed" /\ UNCHANGED port
    /\ UNCHANGED <<timed, timer, lineEnabled, hexSend, line, tickVars, fileVars,
                   recvVars, closing>>

StaysChecked == UNCHANGED <<switch, enabled>>   \* mutant: no setChecked(false)
Uncheck == switch' = FALSE /\ enabled' = FALSE

CloseFailedBox ==
    /\ box = "failed" /\ ~closing
    /\ box' = "none" /\ Uncheck
    /\ UNCHANGED <<interest, port, sendVars, tickVars, fileVars, recvVars, closing>>

----------------------------------------------------------------------------
(* The rotation.                                                           *)

(* MyThread::run.                                                          *)
Tick ==
    /\ thread = "running" /\ ticks < MaxTicks /\ ~closing
    /\ ticks' = ticks + 1
    /\ UNCHANGED <<portVars, sendVars, periodic, thread, buttonIndex, rushed,
                   fileVars, recvVars, closing>>

(* A tick in the queue is served whatever has become of the check box; one *)
(* tick per round only starts the next.                                    *)
buttons_handler ==
    /\ ticks > 0 /\ ~closing
    /\ ticks' = ticks - 1
    /\ IF buttonIndex <= N
       THEN SendPreset(buttonIndex) /\ buttonIndex' = buttonIndex + 1
       ELSE buttonIndex' = 1 /\ UNCHANGED <<line, hexSend, sendStatus>>
    /\ UNCHANGED <<portVars, timed, timer, lineEnabled, periodic, thread, rushed,
                   fileVars, recvVars, closing>>

(* start() does nothing while the thread has not ended; terminate() only   *)
(* asks it to.                                                             *)
on_checkBox_periodicSend_clicked ==
    /\ UserAt("send")
    /\ periodic' = ~periodic
    /\ thread' = CASE periodic /\ thread = "running" -> "ending"
                   [] ~periodic /\ thread = "none"   -> "running"
                   [] OTHER                          -> thread
    /\ rushed' = (rushed \/ (~periodic /\ thread = "ending"))
    /\ UNCHANGED <<portVars, sendVars, ticks, buttonIndex, fileVars, recvVars, closing>>

ThreadEnds ==
    /\ thread = "ending" /\ thread' = "none"
    /\ UNCHANGED <<portVars, sendVars, periodic, ticks, buttonIndex, rushed,
                   fileVars, recvVars, closing>>

----------------------------------------------------------------------------
(* The presets.                                                            *)

EditPreset(i) ==
    /\ UserAt("presets")
    /\ \E p \in Preset : presets' = [presets EXCEPT ![i] = p]
    /\ UNCHANGED <<portVars, sendVars, tickVars, file, recvVars, closing>>

AskReset ==
    /\ UserAt("presets") /\ box' = "reset"
    /\ UNCHANGED <<interest, port, switch, enabled, sendVars, tickVars, fileVars, recvVars, closing>>

on_btn_reset_clicked ==
    /\ box = "reset" /\ ~closing /\ box' = "none"
    /\ \/ presets' = [i \in 1..N |-> [hex |-> FALSE, text |-> Odd]]
       \/ UNCHANGED presets
    /\ UNCHANGED <<interest, port, switch, enabled, sendVars, tickVars, file, recvVars, closing>>

on_btn_save_clicked ==
    /\ UserAt("presets")
    /\ file' = presets
    /\ UNCHANGED <<portVars, sendVars, tickVars, presets, recvVars, closing>>

(* Line after line of the file goes into the window until one has not      *)
(* exactly two parts; then all presets are set back from the cache, which  *)
(* is cut at its separators too, and only the first part of a text is kept.*)
FirstPart(p) == [p EXCEPT !.text = <<Head(p.text)>>]
RestoreFrom(cache, acc, i) ==   \* mutant: the lines already taken are not set back
    IF acc.ok /\ i \in DOMAIN file /\ Len(file[i].text) = 1
    THEN [acc EXCEPT !.now[i] = file[i]]
    ELSE [ok |-> FALSE, now |-> [acc.now EXCEPT ![i] = FirstPart(cache[i])]]
LoadLine(cache, acc, i) ==
    IF ~acc.ok THEN acc
    ELSE IF i \in DOMAIN file /\ Len(file[i].text) = 1
    THEN [acc EXCEPT !.now[i] = file[i]]
    ELSE [ok |-> FALSE, now |-> [k \in 1..N |-> FirstPart(cache[k])]]
Loaded ==
    LET read[i \in 0..N] == IF i = 0 THEN [ok |-> TRUE, now |-> presets]
                            ELSE LoadLine(presets, read[i - 1], i)
    IN read[N].now

on_btn_load_clicked ==
    /\ UserAt("presets")
    /\ presets' = Loaded
    /\ UNCHANGED <<portVars, sendVars, tickVars, file, recvVars, closing>>

----------------------------------------------------------------------------
(* Receiving.  The device sends characters of one byte ("a") and of two    *)
(* ("l" and "c"); a byte that is half of a character is read as one of     *)
(* three bytes, the replacement character.                                 *)

Arrives ==
    /\ port /\ interest = "receive" /\ ~closing /\ readCnt + Len(rx) < MaxBytes
    /\ \E b \in IF half THEN {"c"} ELSE {"a", "l"} :
          rx' = Append(rx, b) /\ half' = (b = "l")
    /\ UNCHANGED <<portVars, sendVars, tickVars, fileVars, shown, cursor, hexShow,
                   newLine, readCnt, come, cleared, cut, moved, closing>>

Char(bytes, i) ==
    CASE bytes[i] = "a" -> <<"a">>
      [] bytes[i] = "l" -> IF i < Len(bytes) THEN <<"w">> ELSE <<"?">>
      [] OTHER -> IF i > 1 THEN <<>> ELSE <<"?">>
Decode(bytes) ==
    LET read[i \in 0..Len(bytes)] == IF i = 0 THEN <<>> ELSE read[i - 1] \o Char(bytes, i)
    IN read[Len(bytes)]
Size(c) == CASE c = "a" -> 1 [] c = "w" -> 2 [] OTHER -> 3
Bytes(chars) ==
    LET sum[i \in 0..Len(chars)] == IF i = 0 THEN 0 ELSE sum[i - 1] + Size(chars[i])
    IN sum[Len(chars)]

CountChars(text) == Len(text)   \* mutant: recvMsg.size() counted
Counted(text) == Bytes(text)

(* on_SerialData_ready_to_read: a line end before the text (sendNewLine)   *)
(* stands for the time stamps and line ends that may be added.             *)
Added(chars) ==
    (IF newLine THEN <<[c |-> "nl", hex |-> FALSE]>> ELSE <<>>)
    \o [i \in 1..Len(chars) |-> [c |-> chars[i], hex |-> hexShow]]

on_SerialData_ready_to_read ==
    LET text == Decode(rx)  new == Added(text) IN
    /\ rx # <<>> /\ ~closing
    /\ readCnt' = readCnt + Counted(text)
    /\ shown' = SubSeq(shown, 1, cursor) \o new \o SubSeq(shown, cursor + 1, Len(shown))
    /\ cursor' = Len(shown')
    /\ come' = come \o rx /\ rx' = <<>>
    /\ cut' = (cut \/ rx[1] = "c" \/ rx[Len(rx)] = "l")
    /\ moved' = (moved \/ cursor # Len(shown))
    /\ UNCHANGED <<portVars, sendVars, tickVars, fileVars, hexShow, newLine, half,
                   cleared, closing>>

PlaceCursor ==
    /\ UserAt("receive") /\ cursor' \in 0..Len(shown)
    /\ UNCHANGED <<portVars, sendVars, tickVars, fileVars, rx, shown, hexShow,
                   newLine, readCnt, half, come, cleared, cut, moved, closing>>

on_btn_clearPort_clicked ==
    /\ UserAt("receive")
    /\ shown' = <<>> /\ cursor' = 0 /\ come' = <<>> /\ cleared' = readCnt
    /\ UNCHANGED <<portVars, sendVars, tickVars, fileVars, rx, hexShow, newLine,
                   readCnt, half, cut, moved, closing>>

(* on_checkBox_HEXShow_stateChanged: the whole text is converted and set   *)
(* anew, with the cursor at its start; what is no digit is skipped when    *)
(* digits become text.                                                     *)
on_checkBox_HEXShow_stateChanged ==
    /\ UserAt("receive") /\ enabled
    /\ hexShow' = ~hexShow
    /\ shown' = IF hexShow'
                THEN [i \in DOMAIN shown |-> [shown[i] EXCEPT !.hex = TRUE]]
                ELSE LET digits == SelectSeq(shown, LAMBDA x : x.hex)
                     IN [i \in DOMAIN digits |-> [digits[i] EXCEPT !.hex = FALSE]]
    /\ cursor' = 0
    /\ UNCHANGED <<portVars, sendVars, tickVars, fileVars, rx, newLine, readCnt,
                   half, come, cleared, cut, moved, closing>>

ToggleNewLine ==
    /\ UserAt("receive") /\ enabled /\ newLine' = ~newLine
    /\ UNCHANGED <<portVars, sendVars, tickVars, fileVars, rx, shown, cursor,
                   hexShow, readCnt, half, come, cleared, cut, moved, closing>>

(* ~Widget: the thread is a child of the window, which nobody stops.       *)
Leave ==
    /\ User /\ closing' = TRUE
    /\ UNCHANGED <<portVars, sendVars, tickVars, fileVars, recvVars>>

Next ==
    \/ on_btn_send_clicked \/ TimerFires \/ EditLine
    \/ on_checkBox_timedTransmission_clicked
    \/ \E i \in 1..N : on_pushButton_X_clicked(i) \/ EditPreset(i)
    \/ on_btn_serialSwitch_clicked \/ CloseFailedBox
    \/ Tick \/ buttons_handler \/ on_checkBox_periodicSend_clicked \/ ThreadEnds
    \/ AskReset \/ on_btn_reset_clicked \/ on_btn_save_clicked \/ on_btn_load_clicked
    \/ Arrives \/ on_SerialData_ready_to_read \/ PlaceCursor
    \/ on_btn_clearPort_clicked
    \/ on_checkBox_HEXShow_stateChanged \/ ToggleNewLine \/ Leave

Spec == Init /\ [][Next]_serialVars

----------------------------------------------------------------------------
Text(s) == LET text == SelectSeq(s, LAMBDA x : x.c # "nl")
           IN [i \in DOMAIN text |-> text[i].c]

(* Through every change of the display between text and hexadecimal        *)
(* digits, what is shown is what came: the count is the number of bytes,   *)
(* unless a read ended inside a character, and the characters are in       *)
(* order, unless one was inserted while the cursor was not at the end,     *)
(* where a change of the display leaves it.  (The user does not type into  *)
(* the text, which the window lets him do.)                                *)
ShownIsWhatCame ==
    /\ ~cut => readCnt = Len(come) + cleared
    /\ readCnt = Bytes(Text(shown)) + cleared
    /\ ~cut /\ ~moved => Text(shown) = Decode(come)

(* Loading takes all presets from the file or none: when a line cannot be  *)
(* used, the presets are those from before, each cut at its separator.     *)
LoadAllOrNothing ==
    [][on_btn_load_clicked =>
         \/ presets' = file /\ \A i \in 1..N : Len(file[i].text) = 1
         \/ \A i \in 1..N : presets'[i] = FirstPart(presets[i])]_serialVars

(* The controls tell what is going on: with no message box in front, the   *)
(* switch and the check boxes follow the port, and a checked rotation has  *)
(* its thread, unless it was started again before the old one had ended.   *)
(* A timer that outlives its port cannot be stopped from the window until  *)
(* the port is open again.                                                 *)
ControlsHonest ==
    /\ box # "failed" => (switch = port /\ enabled = port)
    /\ timer = timed /\ lineEnabled = ~timed
    /\ ~rushed => (periodic = (thread = "running"))
=============================================================================
