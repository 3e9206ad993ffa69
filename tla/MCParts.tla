------------------------------ MODULE MCParts ------------------------------
(***************************************************************************)
(* The parts of the repository that share nothing with one another, each a *)
(* module of its own, checked in one run: part says which of them the      *)
(* behaviour is about, and the variables of the others keep the values of  *)
(* one initial state.                                                      *)
(***************************************************************************)
EXTENDS Integers, Sequences, TLC

CONSTANTS N, MaxBytes, MaxTicks,                                  \* SerialPort
          MaxPosts, ThreadCounts,                                 \* WriteQueue
          Droppers, FirstSize, MaxObjects,                        \* MemoryPool
          Clients, Users, MaxConns, MaxSends, MaxBoth, IoThreads, \* OldChat
          NoUser,
          Media, MaxFiles,                                        \* Conversion
          Length, RingRoom, QueueRoom, MaxSeeks,                  \* AudioClock
          FilmLength, Late, MaxWall, MaxSought,                   \* SilentVideo
          Sizes, FrameSize, MaxResizes,                           \* Resize
          Rooms, MaxMessages, MaxAsks,                            \* ServerWindow
          MaxThreads, StartThreads, PoolSize, MaxHandlers,        \* TcpService
          PoolWorkers, Submitters, MaxTasks                       \* UtilityPool

(* What the proofs take of them, and the code gives: a window and a queue  *)
(* have a size, a picture has pixels, the SQL pool (10 connections) has    *)
(* more than the threads that can be asked for (8), and the utility pool   *)
(* is made with a worker (one made with none leaves every task).           *)
ASSUME PostsAssumption == MaxPosts \in Nat
ASSUME FirstSizeAssumption == FirstSize \in Nat \ {0}
ASSUME ClockAssumption == Length \in Nat /\ QueueRoom \in Nat
ASSUME FilmAssumption == FilmLength \in Nat /\ Late \in Nat
ASSUME SizesAssumption ==
    /\ Sizes \subseteq [w : Nat, h : Nat]
    /\ FrameSize \in [w : Nat \ {0}, h : Nat \ {0}]
ASSUME RoomsAssumption == Rooms \in Nat
ASSUME ServiceAssumption ==
    /\ MaxThreads \in Nat /\ PoolSize \in Nat /\ PoolSize > MaxThreads
    /\ StartThreads \in 1..MaxThreads
ASSUME WorkersAssumption == PoolWorkers # {}

VARIABLES
    part,
    interest, port, switch, box, enabled, timed, timer, lineEnabled, hexSend,
    line, periodic, thread, ticks, buttonIndex, presets, file, rx, shown,
    cursor, hexShow, newLine, readCnt, closing, sendStatus, half, come,
    cleared, cut, moved, rushed,
    threads, posted, begun, sendQueue, chain, wire, emptied, late, failed,
    cells, first, finish, size, slots, getter, dropper, held, taken, wild,
    overlap,
    known, isOnline, id, accepted, handlers, threadsAt, crashed, conns,
    completed, session0, is_connected, logining, chats, logged, answered,
    strays, fresh, misled,
    source, now, codecs, fmt_type, sws_ctx, swr_ctx, cur_type, next_type,
    inbox, formats, using, opened, hasty, chosen, picture, sound,
    decoding, next, gen, ring, ringStopped, stage, read_buf, sdl, clear_SDL,
    audio_clock, paused, seek_offset, stopAsked, heard, lost, seeks,
    wall, elapsedBeforePause, started, isTimerPaused, doing, now_clock, frames,
    render_clock, onScreen, filmPaused, stopping, offset, reading, waited, sought,
    asks, dst_w, dst_h, is_window_resize, frame, drawn, windowSize, raced, resizes,
    table, top, asking, chatMessage, window, removals,
    kind, thread_count, switching, pools, job, onset, stopped, life,
    sqlPool, inHand, sql_conn, frontOfNone, touched, handled,
    worker, submitter, ending, queued, submitted, missed

serialOnes ==
    <<interest, port, switch, box, enabled, timed, timer, lineEnabled, hexSend,
      line, periodic, thread, ticks, buttonIndex, presets, file, rx, shown,
      cursor, hexShow, newLine, readCnt, closing, sendStatus, half, come,
      cleared, cut, moved, rushed>>
writeOnes == <<threads, posted, begun, sendQueue, chain, wire, emptied, late, failed>>
poolOnes ==
    <<cells, first, finish, size, slots, getter, dropper, held, taken, wild, overlap>>
chatOnes ==
    <<known, isOnline, id, accepted, handlers, threadsAt, crashed, conns,
      completed, session0, is_connected, logining, chats, logged, answered,
      strays, fresh, misled>>
convOnes ==
    <<source, now, codecs, fmt_type, sws_ctx, swr_ctx, cur_type, next_type,
      inbox, formats, using, opened, hasty, chosen, picture, sound>>
clockOnes ==
    <<decoding, next, gen, ring, ringStopped, stage, read_buf, sdl, clear_SDL,
      audio_clock, paused, seek_offset, stopAsked, heard, lost, seeks>>
filmOnes ==
    <<wall, elapsedBeforePause, started, isTimerPaused, doing, now_clock, frames,
      render_clock, onScreen, filmPaused, stopping, offset, reading, waited, sought>>
resizeOnes ==
    <<asks, dst_w, dst_h, is_window_resize, frame, drawn, windowSize, raced, resizes>>
windowOnes == <<table, top, asking, chatMessage, window, removals>>
serviceOnes ==
    <<kind, thread_count, switching, pools, job, onset, stopped, life,
      sqlPool, inHand, sql_conn, frontOfNone, touched, handled>>
utilityOnes == <<worker, submitter, ending, queued, submitted, missed>>

toolOnes   == <<serialOnes, windowOnes>>
playerOnes == <<poolOnes, convOnes, clockOnes, filmOnes, resizeOnes>>
netOnes    == <<writeOnes, chatOnes, serviceOnes, utilityOnes>>
partsVars  == <<part, toolOnes, playerOnes, netOnes>>

Serial  == INSTANCE SerialPort
Write   == INSTANCE WriteQueue
Pool    == INSTANCE MemoryPool
Chat    == INSTANCE OldChat
Conv    == INSTANCE Conversion
Clock   == INSTANCE AudioClock
Film    == INSTANCE SilentVideo WITH paused <- filmPaused
Size    == INSTANCE Resize
Window  == INSTANCE ServerWindow
Service == INSTANCE TcpService WITH wild <- frontOfNone
Utility == INSTANCE UtilityPool

Parts == {"serial", "write", "pool", "chat", "conversion", "clock", "film",
          "resize", "window", "service", "utility"}

Init ==
    /\ part \in Parts
    /\ Serial!Init /\ Write!Init /\ Pool!Init /\ Chat!Init /\ Conv!Init /\ Clock!Init
    /\ Film!Init /\ Size!Init /\ Window!Init /\ Service!Init /\ Utility!Init
    /\ part # "serial"  => interest = "send" /\ presets[N].text = Serial!Plain
    /\ part # "write"   => threads = 1
    /\ part # "chat"    => known = {}
    /\ part # "resize"  => windowSize = CHOOSE s \in Sizes : TRUE
    /\ part # "resize"  => drawn.w >= drawn.into.w /\ drawn.h >= drawn.into.h \div 2
    /\ part # "service" => kind = "client"

SerialStep ==
    /\ part = "serial" /\ Serial!Next
    /\ UNCHANGED <<part, windowOnes, playerOnes, netOnes>>
WindowStep ==
    /\ part = "window" /\ Window!Next
    /\ UNCHANGED <<part, serialOnes, playerOnes, netOnes>>

PoolStep ==
    /\ part = "pool" /\ Pool!Next
    /\ UNCHANGED <<part, toolOnes, convOnes, clockOnes, filmOnes, resizeOnes, netOnes>>
ConversionStep ==
    /\ part = "conversion" /\ Conv!Next
    /\ UNCHANGED <<part, toolOnes, poolOnes, clockOnes, filmOnes, resizeOnes, netOnes>>
ClockStep ==
    /\ part = "clock" /\ Clock!Next
    /\ UNCHANGED <<part, toolOnes, poolOnes, convOnes, filmOnes, resizeOnes, netOnes>>
FilmStep ==
    /\ part = "film" /\ Film!Next
    /\ UNCHANGED <<part, toolOnes, poolOnes, convOnes, clockOnes, resizeOnes, netOnes>>
ResizeStep ==
    /\ part = "resize" /\ Size!Next
    /\ UNCHANGED <<part, toolOnes, poolOnes, convOnes, clockOnes, filmOnes, netOnes>>

WriteStep ==
    /\ part = "write" /\ Write!Next
    /\ UNCHANGED <<part, toolOnes, playerOnes, chatOnes, serviceOnes, utilityOnes>>
ChatStep ==
    /\ part = "chat" /\ Chat!Next
    /\ UNCHANGED <<part, toolOnes, playerOnes, writeOnes, serviceOnes, utilityOnes>>
ServiceStep ==
    /\ part = "service" /\ Service!Next
    /\ UNCHANGED <<part, toolOnes, playerOnes, writeOnes, chatOnes, utilityOnes>>
UtilityStep ==
    /\ part = "utility" /\ Utility!Next
    /\ UNCHANGED <<part, toolOnes, playerOnes, writeOnes, chatOnes, serviceOnes>>

Next ==
    \/ SerialStep \/ WindowStep
    \/ PoolStep \/ ConversionStep \/ ClockStep \/ FilmStep \/ ResizeStep
    \/ WriteStep \/ ChatStep \/ ServiceStep \/ UtilityStep

Spec == Init /\ [][Next]_partsVars

(* What the constants that are records stand for.                          *)
ClientsAlike == Permutations(Clients)
SomeMedia == {[suffix |-> "mp4", rate |-> 1, shape |-> 1, turn |-> 2],
              [suffix |-> "mkv", rate |-> 2, shape |-> 2, turn |-> 2],
              [suffix |-> "mp3", rate |-> 1, shape |-> 0, turn |-> 0],
              [suffix |-> "avi", rate |-> 0, shape |-> 0, turn |-> 0]}
SomeSizes == {[w |-> 2, h |-> 3], [w |-> 4, h |-> 2], [w |-> 3, h |-> 3]}
WideFrame == [w |-> 2, h |-> 1]

----------------------------------------------------------------------------
(* The display of the serial port tool: SerialPort's ShownIsWhatCame, with *)
(* the types of its variables.                                             *)
ShownIsWhatCame == Serial!TypeOK /\ Serial!ShownIsWhatCame

(* Its controls and its presets: SerialPort's ControlsHonest.              *)
ControlsHonest == Serial!ControlsHonest

(* The rooms in the window of the chat server: ServerWindow's WindowHonest.*)
WindowHonest == Window!WindowHonest

(* What is written to a socket, and what stays in the queue for ever:      *)
(* WriteQueue's WritesExplained.                                           *)
WritesExplained == Write!WritesExplained

(* The older chat program: OldChat's RoutingExplained (where messages go)  *)
(* and ClientsBelieve (what clients hold true of themselves).              *)
ChatExplained == Chat!RoutingExplained /\ Chat!ClientsBelieve

(* Threads and SQL connections under the chat programs: TcpService's       *)
(* ServiceHonest.                                                          *)
ServiceHonest == Service!ServiceHonest

(* The workers of the utility thread pool: UtilityPool's SleepersExplained.*)
SleepersExplained == Utility!SleepersExplained

(* The slots of the pools without locks: MemoryPool's SlotsKept.           *)
SlotsKept == Pool!SlotsKept

(* The converters of the player: Conversion's ConvertersFit.               *)
ConvertersFit == Conv!ConvertersFit

(* Seek, clock and sound: a seek the user asked for is heard or named as   *)
(* lost, and the clock is what was handed over: AudioClock's SeeksHeard    *)
(* and ClockHonest.                                                        *)
SoundHonest == Clock!SeeksHeard /\ Clock!ClockHonest

(* A film without sound: SilentVideo's TimerHonest.                        *)
TimerHonest == Film!TimerHonest

(* The size of the video window: Resize's SizeExplained.                   *)
SizeExplained == Size!SizeExplained
=============================================================================
