----------------------------- MODULE MCParts_proofs -----------------------------
(***************************************************************************)
(* Proofs about the parts that MCParts checks together, each for any       *)
(* number of whatever it has: every property of MCParts but                *)
(* ShownIsWhatCame.  A part has an inductive invariant of its own, over    *)
(* its own variables; that Next preserves it follows from what one step of *)
(* Next is for every part: a step of it, or a stutter.  The assumptions on *)
(* the constants are in MCParts.                                           *)
(***************************************************************************)
EXTENDS MCParts, SequenceTheorems, FiniteSetTheorems, TLAPS

(***************************************************************************)
(* Finite sets and sequences.                                              *)
(***************************************************************************)
LEMMA ImageCounted ==
    ASSUME NEW S, IsFiniteSet(S), NEW f
    PROVE  /\ IsFiniteSet({f[x] : x \in S})
           /\ Cardinality({f[x] : x \in S}) \in Nat
           /\ Cardinality({f[x] : x \in S}) <= Cardinality(S)
           /\ (\A x, y \in S : f[x] = f[y] => x = y)
                 <=> Cardinality({f[x] : x \in S}) = Cardinality(S)
<1> DEFINE T == {f[x] : x \in S}
           g == [x \in S |-> f[x]]
<1>1. g \in Surjection(S, T)
  BY DEF Surjection
<1>2. g \in Injection(S, T) <=> \A x, y \in S : f[x] = f[y] => x = y
  BY DEF Injection, IsInjective
<1>3. /\ IsFiniteSet(T) /\ Cardinality(T) <= Cardinality(S)
      /\ Cardinality(T) = Cardinality(S) <=> g \in Injection(S, T)
  BY <1>1, FS_Surjection
<1>4. Cardinality(T) \in Nat
  BY <1>3, FS_CardinalityType
<1>5. QED
  BY <1>2, <1>3, <1>4

LEMMA SeqElements ==
    ASSUME NEW S, NEW s \in Seq(S)
    PROVE  /\ Len(s) \in Nat /\ DOMAIN s = 1..Len(s)
           /\ \A i \in DOMAIN s : i \in Nat /\ i >= 1 /\ s[i] \in S
  OBVIOUS

LEMMA SeqTail ==
    ASSUME NEW S, NEW s \in Seq(S), s # <<>>
    PROVE  /\ Tail(s) \in Seq(S) /\ Head(s) \in S /\ 1 \in DOMAIN s /\ Head(s) = s[1]
           /\ \A i \in DOMAIN Tail(s) :
                 i + 1 \in DOMAIN s /\ i \in Nat /\ i + 1 # 1 /\ Tail(s)[i] = s[i + 1]
           /\ \A i \in DOMAIN s : i # 1 =>
                 i - 1 \in DOMAIN Tail(s) /\ i \in Nat /\ Tail(s)[i - 1] = s[i]
<1>1. /\ Tail(s) \in Seq(S) /\ Head(s) \in S /\ 1 \in DOMAIN s /\ Head(s) = s[1]
      /\ Len(s) \in Nat /\ DOMAIN s = 1..Len(s) /\ DOMAIN Tail(s) = 1..(Len(s) - 1)
  OBVIOUS
<1>2. \A i \in 1..(Len(s) - 1) : Tail(s)[i] = s[i + 1]
  OBVIOUS
<1>3. ASSUME NEW i \in DOMAIN Tail(s)
      PROVE  i + 1 \in DOMAIN s /\ i \in Nat /\ i + 1 # 1 /\ Tail(s)[i] = s[i + 1]
  BY <1>1, <1>2
<1>4. ASSUME NEW i \in DOMAIN s, i # 1
      PROVE  i - 1 \in DOMAIN Tail(s) /\ i \in Nat /\ Tail(s)[i - 1] = s[i]
  <2>1. i - 1 \in 1..(Len(s) - 1) /\ i \in Nat /\ (i - 1) + 1 = i
    BY <1>1, <1>4
  <2>2. QED
    BY <1>1, <1>2, <2>1
<1>5. QED
  BY <1>1, <1>3, <1>4

LEMMA SeqAppend ==
    ASSUME NEW S, NEW s \in Seq(S), NEW x \in S
    PROVE  /\ Append(s, x) \in Seq(S)
           /\ DOMAIN Append(s, x) = DOMAIN s \cup {Len(s) + 1} /\ Len(s) + 1 \notin DOMAIN s
           /\ Append(s, x)[Len(s) + 1] = x /\ \A i \in DOMAIN s : Append(s, x)[i] = s[i]
           /\ \A i \in DOMAIN s : s[i] \in S
           /\ s # <<>> => 1 \in DOMAIN s
           /\ s = <<>> => Append(s, x) = <<x>>
<1>1. Append(s, x) \in Seq(S) /\ Append(s, x)[Len(s) + 1] = x
  OBVIOUS
<1>2. DOMAIN Append(s, x) = DOMAIN s \cup {Len(s) + 1} /\ Len(s) + 1 \notin DOMAIN s
  OBVIOUS
<1>3. \A i \in DOMAIN s : s[i] \in S /\ Append(s, x)[i] = s[i]
  OBVIOUS
<1>4. s # <<>> => 1 \in DOMAIN s
  OBVIOUS
<1>5. s = <<>> => Append(s, x) = <<x>>
  OBVIOUS
<1>6. QED
  BY <1>1, <1>2, <1>3, <1>4, <1>5

LEMMA SeqElementsCounted ==
    ASSUME NEW S, NEW s \in Seq(S)
    PROVE  (\A i, j \in DOMAIN s : s[i] = s[j] => i = j)
              <=> Cardinality({s[i] : i \in DOMAIN s}) = Len(s)
<1>1. Len(s) \in Nat /\ DOMAIN s = 1..Len(s)
  BY SeqElements
<1>2. IsFiniteSet(DOMAIN s) /\ Cardinality(DOMAIN s) = Len(s)
  BY <1>1, FS_Interval
<1>3. QED
  BY <1>2, ImageCounted

----------------------------------------------------------------------------
(***************************************************************************)
(* The controls of the serial port tool.                                   *)
(***************************************************************************)
SerialTypes ==
    /\ port \in BOOLEAN /\ switch \in BOOLEAN /\ enabled \in BOOLEAN
    /\ box \in {"none", "failed", "reset"}
    /\ timed \in BOOLEAN /\ timer \in BOOLEAN /\ lineEnabled \in BOOLEAN
    /\ periodic \in BOOLEAN /\ thread \in {"none", "running", "ending"}
    /\ rushed \in BOOLEAN

(* The message box of a port that could not be opened hides a closed port. *)
SerialInv ==
    /\ SerialTypes
    /\ Serial!ControlsHonest
    /\ box = "failed" => ~port

LEMMA SerialInit == Serial!Init => SerialInv
  BY DEF Serial!Init, SerialInv, SerialTypes, Serial!ControlsHonest

(* The steps that leave the controls as they are.                          *)
LEMMA SerialElsewhere ==
    ASSUME SerialInv,
           UNCHANGED <<port, switch, box, enabled, timed, timer, lineEnabled,
                       periodic, thread, rushed>>
    PROVE  SerialInv'
  BY DEF SerialInv, SerialTypes, Serial!ControlsHonest

LEMMA SerialSwitchStep ==
    ASSUME SerialInv,
           \/ Serial!on_btn_serialSwitch_clicked \/ Serial!CloseFailedBox
           \/ Serial!AskReset \/ Serial!on_btn_reset_clicked
    PROVE  SerialInv'
<1> USE DEF SerialInv, SerialTypes, Serial!ControlsHonest, Serial!sendVars, Serial!tickVars
<1>1. CASE Serial!on_btn_serialSwitch_clicked
  BY <1>1 DEF Serial!on_btn_serialSwitch_clicked, Serial!User
<1>2. CASE Serial!CloseFailedBox
  BY <1>2 DEF Serial!CloseFailedBox, Serial!Uncheck
<1>3. CASE Serial!AskReset
  BY <1>3 DEF Serial!AskReset, Serial!UserAt, Serial!User
<1>4. CASE Serial!on_btn_reset_clicked
  BY <1>4 DEF Serial!on_btn_reset_clicked
<1>5. QED
  BY <1>1, <1>2, <1>3, <1>4

LEMMA SerialTimedStep ==
    ASSUME SerialInv, Serial!on_checkBox_timedTransmission_clicked
    PROVE  SerialInv'
  BY DEF SerialInv, SerialTypes, Serial!ControlsHonest, Serial!portVars, Serial!tickVars,
         Serial!on_checkBox_timedTransmission_clicked

LEMMA SerialPeriodicStep ==
    ASSUME SerialInv, Serial!on_checkBox_periodicSend_clicked \/ Serial!ThreadEnds
    PROVE  SerialInv'
<1> USE DEF SerialInv, SerialTypes, Serial!ControlsHonest, Serial!portVars, Serial!sendVars
<1>1. CASE Serial!on_checkBox_periodicSend_clicked
  BY <1>1 DEF Serial!on_checkBox_periodicSend_clicked
<1>2. CASE Serial!ThreadEnds
  BY <1>2 DEF Serial!ThreadEnds
<1>3. QED
  BY <1>1, <1>2

LEMMA SerialNext == SerialInv /\ [Serial!Next]_(Serial!serialVars) => SerialInv'
<1> SUFFICES ASSUME SerialInv, [Serial!Next]_(Serial!serialVars)
             PROVE  SerialInv'
  OBVIOUS
<1>1. CASE UNCHANGED Serial!serialVars
  BY <1>1, SerialElsewhere DEF Serial!serialVars, Serial!portVars, Serial!sendVars, Serial!tickVars
<1>2. CASE \/ Serial!on_btn_send_clicked \/ Serial!TimerFires \/ Serial!EditLine
           \/ \E i \in 1..N : Serial!on_pushButton_X_clicked(i) \/ Serial!EditPreset(i)
  BY <1>2, SerialElsewhere
     DEF Serial!portVars, Serial!sendVars, Serial!tickVars, Serial!on_btn_send_clicked,
         Serial!TimerFires, Serial!EditLine, Serial!on_pushButton_X_clicked, Serial!EditPreset
<1>3. CASE \/ Serial!Tick \/ Serial!buttons_handler
           \/ Serial!on_btn_save_clicked \/ Serial!on_btn_load_clicked
  BY <1>3, SerialElsewhere
     DEF Serial!portVars, Serial!sendVars, Serial!tickVars, Serial!Tick,
         Serial!buttons_handler, Serial!on_btn_save_clicked, Serial!on_btn_load_clicked
<1>4. CASE \/ Serial!Arrives \/ Serial!on_SerialData_ready_to_read \/ Serial!PlaceCursor
           \/ Serial!on_btn_clearPort_clicked
           \/ Serial!on_checkBox_HEXShow_stateChanged \/ Serial!ToggleNewLine \/ Serial!Leave
  BY <1>4, SerialElsewhere
     DEF Serial!portVars, Serial!sendVars, Serial!tickVars, Serial!Arrives,
         Serial!on_SerialData_ready_to_read, Serial!PlaceCursor, Serial!on_btn_clearPort_clicked,
         Serial!on_checkBox_HEXShow_stateChanged, Serial!ToggleNewLine, Serial!Leave
<1>5. QED
  BY <1>1, <1>2, <1>3, <1>4, SerialSwitchStep, SerialTimedStep, SerialPeriodicStep
     DEF Serial!Next

(* The controls of the serial port tool, however the port is opened,       *)
(* refused and closed, a reset is asked for and sending is switched on and *)
(* off: with no message box in front the switch and the check boxes follow *)
(* the port, and a checked rotation has its thread, unless it was started  *)
(* again before the old one had ended (on_btn_serialSwitch_clicked,        *)
(* on_checkBox_periodicSend_clicked).                                      *)
THEOREM ControlsHonestTheorem == Spec => []ControlsHonest
<1>1. Init => SerialInv
  BY SerialInit DEF Init
<1>2. SerialInv => ControlsHonest
  BY DEF SerialInv, ControlsHonest
<1>3. ASSUME [Next]_partsVars PROVE [Serial!Next]_(Serial!serialVars)
  BY <1>3 DEF Next, SerialStep, WindowStep, PoolStep, ConversionStep, ClockStep, FilmStep,
         ResizeStep, WriteStep, ChatStep, ServiceStep, UtilityStep, partsVars, toolOnes,
         playerOnes, netOnes, serialOnes, Serial!serialVars, Serial!portVars, Serial!sendVars, Serial!tickVars,
         Serial!fileVars, Serial!recvVars
<1>4. QED
  BY <1>1, <1>2, <1>3, SerialNext, PTL DEF Spec

----------------------------------------------------------------------------
(***************************************************************************)
(* The rooms in the window of the chat server.                             *)
(***************************************************************************)
Removal == [asked : 1..Rooms, room : 0..Rooms]

WindowTypes ==
    /\ table \in Seq(1..Rooms)
    /\ top \in Nat \ {0}
    /\ asking \in 0..Rooms
    /\ chatMessage \in [1..Rooms -> Nat]
    /\ removals \in Seq(Removal)

(* The rows are in order, and each room is in the row of its number or     *)
(* below a place from which a smaller one has gone.                        *)
RowsInOrder ==
    /\ \A i, j \in DOMAIN table : i < j => table[i] < table[j]
    /\ \A i \in DOMAIN table : table[i] >= i
    /\ \A i \in DOMAIN table : table[i] # i =>
          \E j \in DOMAIN removals : removals[j].room # 0 /\ removals[j].room < table[i]
    /\ \A i \in DOMAIN table, j \in DOMAIN removals : table[i] # removals[j].room

AskedIsThere == asking # 0 => \E i \in DOMAIN table : table[i] = asking

(* The two halves of WindowHonest.                                         *)
RemovalHonest(i) ==
    LET r == removals[i] IN
    /\ r.room # r.asked =>
          \E j \in 1..(i - 1) : removals[j].room # 0 /\ removals[j].room < r.asked
    /\ r.room # 0 => r.room >= r.asked /\ \A j \in 1..(i - 1) : removals[j].room # r.room
TitleHonest ==
    window.title # 0 =>
        /\ window.title \in 1..Rooms /\ window.text \in Nat
        /\ window.title <= window.clicked
        /\ window.text <= chatMessage[window.title]

WindowInv ==
    /\ WindowTypes /\ RowsInOrder /\ AskedIsThere
    /\ (\A i \in DOMAIN removals : RemovalHonest(i))
    /\ TitleHonest

LEMMA WindowInit == Window!Init => WindowInv
<1> SUFFICES ASSUME Window!Init PROVE WindowInv
  OBVIOUS
<1> USE RoomsAssumption DEF Window!Init, Window!NoRoom
<1>1. table = [row \in 1..Rooms |-> row] /\ table \in Seq(1..Rooms) /\ Len(table) = Rooms
  OBVIOUS
<1>2. removals = <<>> /\ removals \in Seq(Removal) /\ DOMAIN removals = {}
  OBVIOUS
<1>3. WindowTypes
  BY <1>1, <1>2 DEF WindowTypes
<1>4. RowsInOrder
  BY <1>1, <1>2 DEF RowsInOrder
<1>5. AskedIsThere /\ TitleHonest
  BY DEF AskedIsThere, TitleHonest
<1>6. QED
  BY <1>2, <1>3, <1>4, <1>5 DEF WindowInv

(* The rows of the table, and its rooms, are numbers from 1.               *)
LEMMA Rows ==
    ASSUME WindowTypes
    PROVE  /\ Len(table) \in Nat /\ DOMAIN table = 1..Len(table)
           /\ \A i \in DOMAIN table :
                 i \in Nat /\ i >= 1 /\ table[i] \in 1..Rooms /\ table[i] \in Nat /\ table[i] >= 1
<1>1. table \in Seq(1..Rooms)
  BY DEF WindowTypes
<1>2. /\ Len(table) \in Nat /\ DOMAIN table = 1..Len(table)
      /\ \A i \in DOMAIN table : i \in Nat /\ i >= 1 /\ table[i] \in 1..Rooms
  BY <1>1, SeqElements
<1>3. QED
  BY <1>2, RoomsAssumption

(* The table without a row.                                                *)
LEMMA WithoutRow ==
    ASSUME WindowTypes, NEW row \in DOMAIN table, NEW new, new = Window!Without(row)
    PROVE  /\ new \in Seq(1..Rooms) /\ Len(new) = Len(table) - 1
           /\ \A i \in DOMAIN new :
                 \/ i < row /\ i \in DOMAIN table /\ new[i] = table[i]
                 \/ i >= row /\ i + 1 \in DOMAIN table /\ new[i] = table[i + 1]
<1>1. Len(table) \in Nat /\ DOMAIN table = 1..Len(table) /\ \A i \in 1..Len(table) : table[i] \in 1..Rooms
  BY Rows
<1>2. row \in 1..Len(table)
  BY <1>1
<1>3. \A i \in 1..(Len(table) - 1) : i \in 1..Len(table) /\ i + 1 \in 1..Len(table)
  BY <1>1
<1>4. new = [i \in 1..(Len(table) - 1) |-> IF i < row THEN table[i] ELSE table[i + 1]]
  BY DEF Window!Without
<1>5. \A i \in 1..(Len(table) - 1) : new[i] \in 1..Rooms
  BY <1>1, <1>3, <1>4
<1>6. Len(table) - 1 \in Nat
  BY <1>1, <1>2
<1>7. new \in Seq(1..Rooms) /\ Len(new) = Len(table) - 1 /\ DOMAIN new = 1..(Len(table) - 1)
  BY <1>4, <1>5, <1>6
<1>8. QED
  BY <1>1, <1>2, <1>3, <1>4, <1>7

(* A removal goes behind those there have been, and changes none.          *)
LEMMA RemovalAppended ==
    ASSUME WindowTypes, NEW r \in Removal, removals' = Append(removals, r)
    PROVE  /\ removals' \in Seq(Removal)
           /\ DOMAIN removals' = DOMAIN removals \cup {Len(removals) + 1}
           /\ Len(removals) + 1 \notin DOMAIN removals
           /\ \A i \in DOMAIN removals : removals'[i] = removals[i] /\ i \in 1..Len(removals)
           /\ removals'[Len(removals) + 1] = r
           /\ DOMAIN removals = 1..Len(removals) /\ Len(removals) \in Nat
  BY DEF WindowTypes

LEMMA OldRemovals ==
    ASSUME WindowTypes, \A i \in DOMAIN removals : RemovalHonest(i),
           NEW r \in Removal, removals' = Append(removals, r)
    PROVE  \A i \in DOMAIN removals : RemovalHonest(i)'
<1> SUFFICES ASSUME NEW i \in DOMAIN removals PROVE RemovalHonest(i)'
  OBVIOUS
<1>1. i \in 1..Len(removals) /\ Len(removals) \in Nat /\ DOMAIN removals = 1..Len(removals)
  BY RemovalAppended
<1>2. \A j \in 1..(i - 1) : removals'[j] = removals[j]
  BY <1>1, RemovalAppended
<1>3. removals'[i] = removals[i] /\ RemovalHonest(i)
  BY RemovalAppended
<1>4. QED
  BY <1>2, <1>3 DEF RemovalHonest

(* A row goes: the room of the button, or what has come to its row.        *)
LEMMA RowRemoved ==
    ASSUME WindowInv, NEW row \in DOMAIN table, row = asking,
           table' = Window!Without(row), top' \in Nat \ {0}, asking' = 0,
           removals' = Append(removals, [asked |-> asking, room |-> table[row]]),
           UNCHANGED <<chatMessage, window>>
    PROVE  WindowInv'
<1>0. PICK n : n = Len(removals) + 1
  OBVIOUS
<1> DEFINE r == [asked |-> asking, room |-> table[row]]
<1>1. /\ WindowTypes /\ RowsInOrder /\ AskedIsThere /\ TitleHonest
      /\ \A i \in DOMAIN removals : RemovalHonest(i)
  BY DEF WindowInv
<1>2. table[row] \in 1..Rooms /\ row \in Nat /\ row >= 1 /\ \A i \in DOMAIN table : i \in Nat /\ i >= 1 /\ table[i] \in Nat /\ table[i] >= 1
  BY <1>1, Rows
<1>3. row \in 1..Rooms /\ r \in Removal
  BY <1>1, <1>2, RoomsAssumption DEF WindowTypes, Removal
<1>4. /\ removals' \in Seq(Removal)
      /\ DOMAIN removals' = DOMAIN removals \cup {n}
      /\ \A i \in DOMAIN removals : removals'[i] = removals[i]
      /\ removals'[n] = r
      /\ DOMAIN removals = 1..(n - 1) /\ n - 1 \in Nat
  BY <1>0, <1>1, <1>3, RemovalAppended
<1>5. /\ table' \in Seq(1..Rooms) /\ Len(table') = Len(table) - 1
      /\ \A i \in DOMAIN table' :
            \/ i < row /\ i \in DOMAIN table /\ table'[i] = table[i]
            \/ i >= row /\ i + 1 \in DOMAIN table /\ table'[i] = table[i + 1]
  BY <1>1, WithoutRow
<1>6. WindowTypes'
  BY <1>1, <1>4, <1>5, RoomsAssumption, SMTT(30) DEF WindowTypes
<1>7. \A i \in DOMAIN table' : i \in Nat
  BY <1>5
<1>8. RowsInOrder'
  <2>1. \A i, j \in DOMAIN table' : i < j => table'[i] < table'[j]
    BY <1>1, <1>2, <1>5, <1>7, SMTT(30) DEF RowsInOrder
  <2>2. \A i \in DOMAIN table' : table'[i] >= i
    BY <1>1, <1>2, <1>5, <1>7 DEF RowsInOrder
  <2>3. ASSUME NEW i \in DOMAIN table', table'[i] # i
        PROVE  \E j \in DOMAIN removals' : removals'[j].room # 0 /\ removals'[j].room < table'[i]
    <3>1. CASE i < row /\ i \in DOMAIN table /\ table'[i] = table[i]
      <4>1. PICK j \in DOMAIN removals : removals[j].room # 0 /\ removals[j].room < table[i]
        BY <1>1, <2>3, <3>1 DEF RowsInOrder
      <4>2. QED
        BY <1>4, <3>1, <4>1
    <3>2. CASE i >= row /\ i + 1 \in DOMAIN table /\ table'[i] = table[i + 1]
      <4>1. table[row] < table[i + 1]
        BY <1>1, <1>2, <1>7, <3>2 DEF RowsInOrder
      <4>2. QED
        BY <1>2, <1>4, <3>2, <4>1
    <3>3. QED
      BY <1>5, <3>1, <3>2
  <2>4. ASSUME NEW i \in DOMAIN table', NEW j \in DOMAIN removals'
        PROVE  table'[i] # removals'[j].room
    <3>1. PICK k \in DOMAIN table : table'[i] = table[k] /\ k # row
      BY <1>2, <1>5, <1>7
    <3>2. CASE j \in DOMAIN removals
      BY <1>1, <1>4, <3>1, <3>2 DEF RowsInOrder
    <3>3. CASE j = n
      <4>1. table[k] # table[row]
        BY <1>1, <1>2, <3>1 DEF RowsInOrder
      <4>2. QED
        BY <1>4, <3>1, <3>3, <4>1
    <3>4. QED
      BY <1>4, <3>2, <3>3
  <2>5. QED
    BY <2>1, <2>2, <2>3, <2>4 DEF RowsInOrder
<1>9. RemovalHonest(n)'
  <2>1. \A j \in 1..(n - 1) : j \in DOMAIN removals /\ removals'[j] = removals[j]
    BY <1>4
  <2>2. table[row] >= row /\ \A j \in DOMAIN removals : removals[j].room # table[row]
    BY <1>1 DEF RowsInOrder
  <2>3. ASSUME table[row] # row
        PROVE  \E j \in DOMAIN removals : removals[j].room # 0 /\ removals[j].room < row
    <3>1. PICK i \in DOMAIN table : table[i] = row
      BY <1>1, <1>2 DEF AskedIsThere
    <3>2. i # table[i]
      BY <2>3, <3>1
    <3>3. QED
      BY <1>1, <3>1, <3>2 DEF RowsInOrder
  <2>4. \A j \in DOMAIN removals : j \in 1..(n - 1)
    BY <1>4
  <2>5. QED
    BY <1>4, <2>1, <2>2, <2>3, <2>4 DEF RemovalHonest
<1>10. \A i \in DOMAIN removals' : RemovalHonest(i)'
  BY <1>1, <1>3, <1>4, <1>9, OldRemovals
<1>11. AskedIsThere' /\ TitleHonest'
  BY <1>1 DEF AskedIsThere, TitleHonest
<1>12. QED
  BY <1>6, <1>8, <1>10, <1>11 DEF WindowInv

(* The row of the button's number is not there any more.                   *)
LEMMA NoRowRemoved ==
    ASSUME WindowInv, asking # 0, asking \notin DOMAIN table,
           top' \in Nat \ {0}, asking' = 0,
           removals' = Append(removals, [asked |-> asking, room |-> 0]),
           UNCHANGED <<table, chatMessage, window>>
    PROVE  WindowInv'
<1>0. PICK n : n = Len(removals) + 1
  OBVIOUS
<1> DEFINE r == [asked |-> asking, room |-> 0]
<1>1. /\ WindowTypes /\ RowsInOrder /\ AskedIsThere /\ TitleHonest
      /\ \A i \in DOMAIN removals : RemovalHonest(i)
  BY DEF WindowInv
<1>2. r \in Removal
  BY <1>1, RoomsAssumption DEF WindowTypes, Removal
<1>3. /\ removals' \in Seq(Removal)
      /\ DOMAIN removals' = DOMAIN removals \cup {n}
      /\ \A i \in DOMAIN removals : removals'[i] = removals[i]
      /\ removals'[n] = r
      /\ DOMAIN removals = 1..(n - 1) /\ n - 1 \in Nat
  BY <1>0, <1>1, <1>2, RemovalAppended
<1>4. WindowTypes'
  BY <1>1, <1>3, RoomsAssumption DEF WindowTypes
<1>5. RowsInOrder'
  <2>1. \A i \in DOMAIN table : table[i] # 0
    BY <1>1, Rows
  <2>2. ASSUME NEW i \in DOMAIN table, table[i] # i
        PROVE  \E j \in DOMAIN removals' : removals'[j].room # 0 /\ removals'[j].room < table[i]
    <3>1. PICK j \in DOMAIN removals : removals[j].room # 0 /\ removals[j].room < table[i]
      BY <1>1, <2>2 DEF RowsInOrder
    <3>2. QED
      BY <1>3, <3>1
  <2>3. ASSUME NEW i \in DOMAIN table, NEW j \in DOMAIN removals'
        PROVE  table[i] # removals'[j].room
    <3>1. CASE j \in DOMAIN removals
      BY <1>1, <1>3, <3>1 DEF RowsInOrder
    <3>2. CASE j = n
      BY <1>3, <2>1, <3>2
    <3>3. QED
      BY <1>3, <3>1, <3>2
  <2>4. QED
    BY <1>1, <2>2, <2>3 DEF RowsInOrder
<1>6. RemovalHonest(n)'
  <2>1. PICK i \in DOMAIN table : table[i] = asking
    BY <1>1 DEF AskedIsThere
  <2>2. PICK j \in DOMAIN removals : removals[j].room # 0 /\ removals[j].room < asking
    BY <1>1, <2>1 DEF RowsInOrder
  <2>3. j \in 1..(n - 1) /\ removals'[j] = removals[j]
    BY <1>3
  <2>4. QED
    BY <1>3, <2>2, <2>3 DEF RemovalHonest
<1>7. \A i \in DOMAIN removals' : RemovalHonest(i)'
  BY <1>1, <1>2, <1>3, <1>6, OldRemovals
<1>8. AskedIsThere' /\ TitleHonest'
  BY <1>1 DEF AskedIsThere, TitleHonest
<1>9. QED
  BY <1>4, <1>5, <1>7, <1>8 DEF WindowInv

LEMMA RemoveStep ==
    ASSUME WindowInv, NEW yes \in BOOLEAN, Window!onRemoveChatRoom(yes)
    PROVE  WindowInv'
<1> USE DEF Window!onRemoveChatRoom, Window!Captured, Window!NoRoom
<1>1. asking # 0 /\ asking' = 0 /\ UNCHANGED <<chatMessage, window>>
  OBVIOUS
<1>2. CASE ~yes
  <2>1. UNCHANGED <<table, top, removals>>
    BY <1>2
  <2>2. QED
    BY <1>1, <2>1, RoomsAssumption
       DEF WindowInv, WindowTypes, RowsInOrder, AskedIsThere, RemovalHonest, TitleHonest
<1>3. CASE yes /\ asking \in DOMAIN table
  <2>1. /\ table' = Window!Without(asking)
        /\ removals' = Append(removals, [asked |-> asking, room |-> table[asking]])
        /\ top' \in {Len(table'), top} /\ (top' # top => table' # <<>>)
    BY <1>3
  <2>2. WindowTypes
    BY DEF WindowInv
  <2>3. table' \in Seq(1..Rooms)
    BY <1>3, <2>1, <2>2, WithoutRow
  <2>4. top' \in Nat \ {0}
    BY <2>1, <2>2, <2>3 DEF WindowTypes
  <2>5. QED
    BY <1>1, <1>3, <2>1, <2>4, RowRemoved
<1>4. CASE yes /\ asking \notin DOMAIN table
  <2>1. /\ table' = table
        /\ removals' = Append(removals, [asked |-> asking, room |-> 0])
        /\ top' \in {Len(table), top} /\ (top' # top => table # <<>>)
    BY <1>4
  <2>2. top' \in Nat \ {0}
    BY <2>1 DEF WindowInv, WindowTypes
  <2>3. QED
    BY <1>1, <1>4, <2>1, <2>2, NoRowRemoved
<1>5. QED
  BY <1>2, <1>3, <1>4

LEMMA WindowRowStep ==
    ASSUME WindowInv, NEW row \in DOMAIN table,
           \/ Window!Press(row) \/ Window!Scroll(row)
           \/ Window!on_table_chatRoom_cellDoubleClicked(row)
    PROVE  WindowInv'
<1>1. /\ WindowTypes /\ RowsInOrder /\ AskedIsThere /\ TitleHonest
      /\ \A i \in DOMAIN removals : RemovalHonest(i)
  BY DEF WindowInv
<1>2. row \in Nat /\ row >= 1 /\ table[row] \in 1..Rooms
  BY <1>1, Rows
<1>3. UNCHANGED <<table, chatMessage, removals>>
  BY DEF Window!Press, Window!Scroll, Window!on_table_chatRoom_cellDoubleClicked
<1>4. RowsInOrder' /\ \A i \in DOMAIN removals' : RemovalHonest(i)'
  BY <1>1, <1>3 DEF RowsInOrder, RemovalHonest
<1>5. CASE Window!Press(row)
  BY <1>1, <1>2, <1>3, <1>4, <1>5, RoomsAssumption
     DEF Window!Press, WindowInv, WindowTypes, AskedIsThere, TitleHonest
<1>6. CASE Window!Scroll(row)
  BY <1>1, <1>2, <1>3, <1>4, <1>6 DEF Window!Scroll, WindowInv, WindowTypes, AskedIsThere, TitleHonest
<1>7. CASE Window!on_table_chatRoom_cellDoubleClicked(row)
  <2>1. top \in Nat \ {0} /\ row >= top /\ UNCHANGED <<top, asking>>
    BY <1>1, <1>7 DEF WindowTypes, Window!on_table_chatRoom_cellDoubleClicked
  <2>2. top \in DOMAIN table
    BY <1>1, <1>2, <2>1, Rows
  <2>3. table[top] \in 1..Rooms /\ table[top] <= table[row]
    BY <1>1, <1>2, <2>1, <2>2, Rows DEF RowsInOrder
  <2>4. window' = [title |-> table[top], text |-> chatMessage[table[top]], clicked |-> table[row]]
    BY <1>7 DEF Window!on_table_chatRoom_cellDoubleClicked, Window!itemAt
  <2>5. chatMessage[table[top]] \in Nat
    BY <1>1, <2>3 DEF WindowTypes
  <2>6. TitleHonest'
    BY <1>3, <2>3, <2>4, <2>5 DEF TitleHonest
  <2>7. WindowTypes' /\ AskedIsThere'
    BY <1>1, <1>3, <2>1 DEF WindowTypes, AskedIsThere
  <2>8. QED
    BY <1>4, <2>6, <2>7 DEF WindowInv
<1>8. QED
  BY <1>5, <1>6, <1>7

LEMMA UploadStep ==
    ASSUME WindowInv, NEW room \in 1..Rooms, Window!uploading_message(room)
    PROVE  WindowInv'
<1>1. /\ chatMessage' = [chatMessage EXCEPT ![room] = chatMessage[room] + 1]
      /\ UNCHANGED <<table, top, asking, window, removals>>
  BY DEF Window!uploading_message
<1>2. chatMessage \in [1..Rooms -> Nat]
  BY DEF WindowInv, WindowTypes
<1>3. /\ chatMessage' \in [1..Rooms -> Nat]
      /\ \A r \in 1..Rooms : chatMessage'[r] >= chatMessage[r]
  BY <1>1, <1>2
<1>4. WindowTypes' /\ RowsInOrder' /\ AskedIsThere' /\ \A i \in DOMAIN removals' : RemovalHonest(i)'
  BY <1>1, <1>3 DEF WindowInv, WindowTypes, RowsInOrder, AskedIsThere, RemovalHonest
<1>5. TitleHonest'
  <2>1. SUFFICES ASSUME window.title # 0
                 PROVE  /\ window.title \in 1..Rooms /\ window.text \in Nat
                        /\ window.title <= window.clicked
                        /\ window.text <= chatMessage'[window.title]
    BY <1>1 DEF TitleHonest
  <2>2. /\ window.title \in 1..Rooms /\ window.text \in Nat
        /\ window.title <= window.clicked
        /\ window.text <= chatMessage[window.title]
    BY <2>1 DEF WindowInv, TitleHonest
  <2>3. QED
    BY <1>2, <1>3, <2>2
<1>6. QED
  BY <1>4, <1>5 DEF WindowInv

LEMMA WindowNext == WindowInv /\ [Window!Next]_(Window!windowVars) => WindowInv'
<1> SUFFICES ASSUME WindowInv, [Window!Next]_(Window!windowVars)
             PROVE  WindowInv'
  OBVIOUS
<1>1. CASE UNCHANGED Window!windowVars
  BY <1>1 DEF Window!windowVars, WindowInv, WindowTypes, RowsInOrder, AskedIsThere,
              RemovalHonest, TitleHonest
<1>2. QED
  BY <1>1, WindowRowStep, RemoveStep, UploadStep DEF Window!Next

(* For any number of rooms and removals: another room than the one whose   *)
(* button was pressed is removed only below a place from which one had     *)
(* gone, nothing is removed twice, and the chat window shows a room listed *)
(* no later than the one double clicked, with nothing that is not its own  *)
(* (remove_room, the row a button remembers, uploading_message).           *)
THEOREM WindowHonestTheorem == Spec => []WindowHonest
<1>1. Init => WindowInv
  BY WindowInit DEF Init
<1>2. WindowInv => WindowHonest
  <2> SUFFICES ASSUME WindowInv PROVE WindowHonest
    OBVIOUS
  <2>1. ASSUME NEW i \in DOMAIN removals
        PROVE  LET r == removals[i] IN
               /\ r.room # r.asked =>
                     \E above \in Window!GoneBefore(i) : above # Window!NoRoom /\ above < r.asked
               /\ r.room # Window!NoRoom => r.room >= r.asked /\ r.room \notin Window!GoneBefore(i)
    BY <2>1 DEF WindowInv, RemovalHonest, Window!GoneBefore, Window!NoRoom
  <2>2. QED
    BY <2>1 DEF WindowInv, TitleHonest, WindowHonest, Window!WindowHonest, Window!NoRoom
<1>3. ASSUME [Next]_partsVars PROVE [Window!Next]_(Window!windowVars)
  BY <1>3 DEF Next, SerialStep, WindowStep, PoolStep, ConversionStep, ClockStep, FilmStep,
         ResizeStep, WriteStep, ChatStep, ServiceStep, UtilityStep, partsVars, toolOnes,
         playerOnes, netOnes, windowOnes, Window!windowVars
<1>4. QED
  BY <1>1, <1>2, <1>3, WindowNext, PTL DEF Spec

----------------------------------------------------------------------------
(***************************************************************************)
(* The slots of the pools without locks.                                   *)
(***************************************************************************)
GetterPlaces == {"out", "grow", "growSet", "front", "make", "throw"}
DropperPlaces == {"out", "write", "set"}
Hand(places) == [at : places, pos : Int, left : Int, slot : Int]

PoolTypes ==
    /\ first \in Nat \ {0} /\ finish \in Nat \ {0}
    /\ size \in Nat \ {0} /\ slots \in Nat
    /\ getter \in Hand(GetterPlaces)
    /\ dropper \in [Droppers -> Hand(DropperPlaces)]
    /\ IsFiniteSet(held)

(* The queue is written up to finish, and get finds something in it.       *)
QueueWhole ==
    /\ wild = FALSE /\ first <= finish
    /\ 1..(finish - 1) \subseteq DOMAIN cells
    /\ getter.at \in {"grow", "growSet"} =>
          getter.left \in 0..size /\ (getter.left < size => first < finish)
    /\ getter.at = "growSet" => getter.left > 0
    /\ getter.at = "front" => first < finish

(* Who puts a slot back has written it where finish is, and is alone.      *)
Written(hand, s) == hand.pos = finish /\ finish \in DOMAIN cells /\ cells[finish] = s
OnePushes ==
    /\ \A t \in Droppers : dropper[t].at = "set" => Written(dropper[t], dropper[t].slot)
    /\ getter.at = "throw" => Written(getter, getter.slot)
    /\ getter.at = "growSet" => Written(getter, slots)
    /\ \A t, u \in Droppers : dropper[t].at = "set" /\ dropper[u].at = "set" => t = u
    /\ getter.at \in {"growSet", "throw"} => \A t \in Droppers : dropper[t].at # "set"

(* Where a slot is.                                                        *)
Waits(s, i) == i \in first..(finish - 1) /\ s = cells[i]
Serves(s, o) == o \in held /\ s = o.slot
Returns(s, t) == t \in Droppers /\ dropper[t].at # "out" /\ s = dropper[t].slot
Leaves(s) ==
    \/ getter.at \in {"make", "throw"} /\ s = getter.slot
    \/ getter.at = "growSet" /\ s = slots

(* Nowhere twice, and somewhere.                                           *)
OneObject ==
    /\ \A s, i, j : Waits(s, i) /\ Waits(s, j) => i = j
    /\ \A s, o, p : Serves(s, o) /\ Serves(s, p) => o = p
    /\ \A s, t, u : Returns(s, t) /\ Returns(s, u) => t = u
    /\ \A s, i, o : ~(Waits(s, i) /\ Serves(s, o))
    /\ \A s, i, t : ~(Waits(s, i) /\ Returns(s, t))
    /\ \A s, o, t : ~(Serves(s, o) /\ Returns(s, t))
    /\ \A s, i : ~(Leaves(s) /\ Waits(s, i))
    /\ \A s, o : ~(Leaves(s) /\ Serves(s, o))
    /\ \A s, t : ~(Leaves(s) /\ Returns(s, t))
Somewhere ==
    \A s : s \in 1..slots <=>
        \/ Leaves(s)
        \/ (\E i : Waits(s, i)) \/ (\E o : Serves(s, o)) \/ (\E t : Returns(s, t))

SlotsExact == PoolTypes /\ QueueWhole /\ OnePushes /\ OneObject /\ Somewhere
SlotsInv == ~overlap => SlotsExact

(* A hand moved on, and what it holds set.                                 *)
LEMMA HandMoved ==
    ASSUME NEW P, NEW hand \in Hand(P), NEW a \in P, NEW v \in Int
    PROVE  /\ [hand EXCEPT !.at = a] \in Hand(P)
           /\ [hand EXCEPT !.at = a, !.pos = v] \in Hand(P)
           /\ [hand EXCEPT !.at = a, !.left = v] \in Hand(P)
           /\ [hand EXCEPT !.at = a, !.slot = v] \in Hand(P)
<1>1. [hand EXCEPT !.at = a] \in Hand(P)
  BY DEF Hand
<1>2. [hand EXCEPT !.at = a, !.pos = v] \in Hand(P)
  BY DEF Hand
<1>3. [hand EXCEPT !.at = a, !.left = v] \in Hand(P)
  BY DEF Hand
<1>4. [hand EXCEPT !.at = a, !.slot = v] \in Hand(P)
  BY DEF Hand
<1>5. QED
  BY <1>1, <1>2, <1>3, <1>4

LEMMA OutTyped == Pool!Out \in Hand(GetterPlaces) /\ Pool!Out \in Hand(DropperPlaces)
  BY DEF Pool!Out, Hand, GetterPlaces, DropperPlaces

LEMMA SlotsInit == Pool!Init => SlotsInv
<1> SUFFICES ASSUME Pool!Init PROVE SlotsExact
  BY DEF SlotsInv
<1> USE FirstSizeAssumption
<1>1. PoolTypes
  <2>1. Pool!Out \in Hand(GetterPlaces) /\ Pool!Out \in Hand(DropperPlaces)
    BY DEF Pool!Out, Hand, GetterPlaces, DropperPlaces
  <2>2. QED
    BY <2>1, FS_EmptySet DEF Pool!Init, PoolTypes
<1>2. QueueWhole
  BY DEF Pool!Init, Pool!Out, QueueWhole
<1>3. OnePushes
  BY DEF Pool!Init, Pool!Out, OnePushes
<1>4. /\ \A s, i : Waits(s, i) <=> s \in 1..slots /\ i = s
      /\ \A s, o : ~Serves(s, o)
      /\ \A s, t : ~Returns(s, t)
      /\ \A s : ~Leaves(s)
  BY DEF Pool!Init, Pool!Out, Waits, Serves, Returns, Leaves
<1>5. OneObject
  BY <1>4 DEF OneObject
<1>6. Somewhere
  BY <1>4 DEF Somewhere
<1>7. QED
  BY <1>1, <1>2, <1>3, <1>5, <1>6 DEF SlotsExact

(* Steps that leave every slot where it is.                                *)
LEMMA SlotsStay ==
    ASSUME OneObject, Somewhere, slots' = slots,
           \A s, i : Waits(s, i)' <=> Waits(s, i),
           \A s, o : Serves(s, o)' <=> Serves(s, o),
           \A s, t : Returns(s, t)' <=> Returns(s, t),
           \A s : Leaves(s)' <=> Leaves(s)
    PROVE  OneObject' /\ Somewhere'
  BY DEF OneObject, Somewhere

LEMMA PoolGet == ASSUME SlotsExact, Pool!Get PROVE SlotsExact'
<1> USE DEF SlotsExact
<1>1. PoolTypes'
  <2>1. getter' \in Hand(GetterPlaces)
    <3>1. "grow" \in GetterPlaces /\ "front" \in GetterPlaces /\ size \in Int
      BY DEF GetterPlaces, PoolTypes
    <3>2. QED
      BY <3>1, OutTyped, HandMoved, ZenonT(60) DEF Pool!Get
  <2>2. QED
    BY <2>1, ZenonT(60) DEF PoolTypes, Pool!Get
<1>2. QueueWhole'
  BY DEF PoolTypes, QueueWhole, Pool!Get, Pool!Out
<1>3. OnePushes'
  BY DEF OnePushes, Written, Pool!Get, Pool!Out
<1>4. OneObject' /\ Somewhere'
  BY SlotsStay DEF Pool!Get, Pool!Out, Waits, Serves, Returns, Leaves
<1>5. QED
  BY <1>1, <1>2, <1>3, <1>4

LEMMA PoolGrowWrite ==
    ASSUME SlotsExact, Pool!GrowWrite, ~overlap' PROVE SlotsExact'
<1> USE DEF SlotsExact
<1>1. PoolTypes'
  <2>1. getter' \in Hand(GetterPlaces)
    <3>1. "growSet" \in GetterPlaces /\ finish \in Int
      BY DEF GetterPlaces, PoolTypes
    <3>2. QED
      BY <3>1, HandMoved, ZenonT(60) DEF PoolTypes, Pool!GrowWrite
  <2>2. QED
    BY <2>1, SMTT(60) DEF PoolTypes, Pool!GrowWrite
<1>2. QueueWhole'
  BY DEF PoolTypes, QueueWhole, Pool!GrowWrite, Pool!WriteCell, Hand
<1>3. OnePushes'
  BY DEF PoolTypes, OnePushes, Written, Pool!GrowWrite, Pool!WriteCell, Pool!Pushing, Hand
<1>4. /\ \A s, i : Waits(s, i)' <=> Waits(s, i)
      /\ \A s, o : Serves(s, o)' <=> Serves(s, o)
      /\ \A s, t : Returns(s, t)' <=> Returns(s, t)
      /\ \A s : Leaves(s)' <=> s = slots + 1
      /\ \A s : ~Leaves(s)
  BY DEF PoolTypes, QueueWhole, Pool!GrowWrite, Pool!WriteCell, Hand, Waits, Serves, Returns, Leaves
<1>5. /\ slots + 1 \notin 1..slots
      /\ \A s : s \in 1..slots' <=> s \in 1..slots \/ s = slots + 1
  BY DEF PoolTypes, Pool!GrowWrite
<1>6. OneObject'
  BY <1>4, <1>5 DEF OneObject, Somewhere
<1>7. Somewhere'
  BY <1>4, <1>5 DEF Somewhere
<1>8. QED
  BY <1>1, <1>2, <1>3, <1>6, <1>7

LEMMA PoolGrowSet == ASSUME SlotsExact, Pool!GrowSet PROVE SlotsExact'
<1> USE DEF SlotsExact
<1>1. Written(getter, slots) /\ finish' = finish + 1
  BY DEF OnePushes, Written, Pool!GrowSet, Pool!SetFinish
<1>2. PoolTypes'
  <2>1. getter' \in Hand(GetterPlaces)
    <3>1. "grow" \in GetterPlaces /\ getter.left - 1 \in Int
      BY DEF GetterPlaces, PoolTypes, Hand
    <3>2. QED
      BY <3>1, HandMoved, ZenonT(60) DEF PoolTypes, Pool!GrowSet
  <2>2. QED
    BY <1>1, <2>1, SMTT(60) DEF PoolTypes, Pool!GrowSet
<1>3. QueueWhole'
  BY <1>1, SMTT(60) DEF PoolTypes, QueueWhole, Written, Pool!GrowSet, Hand
<1>4. OnePushes'
  BY DEF PoolTypes, OnePushes, Written, Pool!GrowSet, Hand
<1>5. /\ \A s, i : Waits(s, i)' <=> Waits(s, i) \/ (i = finish /\ s = slots)
      /\ \A s, i : Waits(s, i) => i # finish
      /\ \A s, o : Serves(s, o)' <=> Serves(s, o)
      /\ \A s, t : Returns(s, t)' <=> Returns(s, t)
      /\ \A s : ~Leaves(s)'
      /\ \A s : Leaves(s) <=> s = slots
  BY <1>1 DEF PoolTypes, QueueWhole, Written, Pool!GrowSet, Hand, Waits, Serves, Returns, Leaves
<1>6. OneObject'
  BY <1>5 DEF OneObject
<1>7. Somewhere'
  BY <1>5 DEF Somewhere, Pool!GrowSet
<1>8. QED
  BY <1>2, <1>3, <1>4, <1>6, <1>7

LEMMA PoolGrown == ASSUME SlotsExact, Pool!Grown PROVE SlotsExact'
<1> USE DEF SlotsExact
<1>1. PoolTypes'
  BY DEF PoolTypes, Pool!Grown, Hand, GetterPlaces
<1>2. QueueWhole'
  BY DEF PoolTypes, QueueWhole, Pool!Grown, Hand
<1>3. OnePushes'
  BY DEF PoolTypes, OnePushes, Written, Pool!Grown, Hand
<1>4. OneObject' /\ Somewhere'
  BY SlotsStay DEF PoolTypes, Hand, Pool!Grown, Waits, Serves, Returns, Leaves
<1>5. QED
  BY <1>1, <1>2, <1>3, <1>4

LEMMA PoolTakeFront == ASSUME SlotsExact, Pool!TakeFront PROVE SlotsExact'
<1> USE DEF SlotsExact
<1>1. first \in DOMAIN cells /\ first < finish /\ first \in first..(finish - 1)
  BY DEF PoolTypes, QueueWhole, Pool!TakeFront
<1>2. cells[first] \in 1..slots /\ cells[first] \in Int
  <2>1. Waits(cells[first], first)
    BY <1>1 DEF Waits
  <2>2. QED
    BY <2>1 DEF Somewhere
<1>3. /\ getter' = [Pool!Out EXCEPT !.at = "make", !.slot = cells[first]]
      /\ getter.at = "front" /\ getter'.at = "make" /\ getter'.slot = cells[first]
      /\ first' = first + 1
      /\ UNCHANGED <<cells, finish, size, slots, dropper, held, taken, wild, overlap>>
  BY <1>1, ZenonT(60) DEF Pool!TakeFront, Pool!Popped, Pool!Out
<1>4. PoolTypes'
  <2>1. getter' \in Hand(GetterPlaces)
    <3>1. "make" \in GetterPlaces
      BY DEF GetterPlaces
    <3>2. QED
      BY <1>2, <1>3, <3>1, OutTyped, HandMoved, ZenonT(60)
  <2>2. QED
    BY <1>3, <2>1 DEF PoolTypes
<1>5. QueueWhole'
  BY <1>1, <1>3 DEF PoolTypes, QueueWhole
<1>6. OnePushes'
  BY <1>3 DEF OnePushes, Written
<1>7. /\ \A s, i : Waits(s, i)' <=> Waits(s, i) /\ i # first
      /\ \A s, o : Serves(s, o)' <=> Serves(s, o)
      /\ \A s, t : Returns(s, t)' <=> Returns(s, t)
      /\ \A s : Leaves(s)' <=> s = cells[first]
      /\ \A s : ~Leaves(s)
      /\ \A s : Waits(s, first) <=> s = cells[first]
  BY <1>1, <1>3 DEF PoolTypes, Waits, Serves, Returns, Leaves
<1>8. OneObject'
  BY <1>7 DEF OneObject
<1>9. Somewhere'
  BY <1>3, <1>7 DEF Somewhere
<1>10. QED
  BY <1>4, <1>5, <1>6, <1>8, <1>9

LEMMA PoolMake == ASSUME SlotsExact, Pool!Make PROVE SlotsExact'
<1> USE DEF SlotsExact
<1> DEFINE o1 == [n |-> taken + 1, slot |-> getter.slot]
<1>1. PoolTypes'
  <2>1. getter' \in Hand(GetterPlaces)
    BY DEF Pool!Make, Pool!Out, Hand, GetterPlaces
  <2>2. IsFiniteSet(held')
    BY FS_AddElement DEF PoolTypes, Pool!Make
  <2>3. QED
    BY <2>1, <2>2 DEF PoolTypes, Pool!Make
<1>2. QueueWhole'
  BY DEF PoolTypes, QueueWhole, Pool!Make, Pool!Out
<1>3. OnePushes'
  BY DEF OnePushes, Written, Pool!Make, Pool!Out
<1>4. PICK x : x = o1
  OBVIOUS
<1>5. /\ \A s, i : Waits(s, i)' <=> Waits(s, i)
      /\ \A s, o : Serves(s, o)' <=> Serves(s, o) \/ (o = x /\ s = getter.slot)
      /\ \A s, t : Returns(s, t)' <=> Returns(s, t)
      /\ \A s : ~Leaves(s)'
      /\ \A s : Leaves(s) <=> s = getter.slot
  BY <1>4 DEF Pool!Make, Pool!Out, Waits, Serves, Returns, Leaves
<1>6. OneObject'
  BY <1>5 DEF OneObject
<1>7. Somewhere'
  BY <1>5 DEF Somewhere, Pool!Make
<1>8. QED
  BY <1>1, <1>2, <1>3, <1>6, <1>7

LEMMA PoolMakeThrows ==
    ASSUME SlotsExact, Pool!MakeThrows, ~overlap' PROVE SlotsExact'
<1> USE DEF SlotsExact
<1>1. PoolTypes'
  <2>1. getter' \in Hand(GetterPlaces)
    <3>1. "throw" \in GetterPlaces /\ finish \in Int
      BY DEF GetterPlaces, PoolTypes
    <3>2. QED
      BY <3>1, HandMoved, ZenonT(60) DEF PoolTypes, Pool!MakeThrows
  <2>2. QED
    BY <2>1, ZenonT(60) DEF PoolTypes, Pool!MakeThrows
<1>2. QueueWhole'
  BY DEF PoolTypes, QueueWhole, Pool!MakeThrows, Pool!WriteCell, Hand
<1>3. OnePushes'
  BY DEF PoolTypes, OnePushes, Written, Pool!MakeThrows, Pool!WriteCell, Pool!Pushing, Hand
<1>4. OneObject' /\ Somewhere'
  <2>1. /\ \A s, i : Waits(s, i)' <=> Waits(s, i)
        /\ \A s, o : Serves(s, o)' <=> Serves(s, o)
        /\ \A s, t : Returns(s, t)' <=> Returns(s, t)
        /\ \A s : Leaves(s)' <=> Leaves(s)
    BY DEF PoolTypes, QueueWhole, Pool!MakeThrows, Pool!WriteCell, Hand, Waits, Serves, Returns, Leaves
  <2>2. QED
    BY <2>1, SlotsStay DEF Pool!MakeThrows
<1>5. QED
  BY <1>1, <1>2, <1>3, <1>4

LEMMA PoolThrown == ASSUME SlotsExact, Pool!Thrown PROVE SlotsExact'
<1> USE DEF SlotsExact
<1>1. Written(getter, getter.slot) /\ finish' = finish + 1
  BY DEF OnePushes, Written, Pool!Thrown, Pool!SetFinish
<1>2. PoolTypes'
  BY <1>1 DEF PoolTypes, Pool!Thrown, Pool!Out, Hand, GetterPlaces
<1>3. QueueWhole'
  BY <1>1 DEF PoolTypes, QueueWhole, Written, Pool!Thrown, Pool!Out
<1>4. OnePushes'
  BY DEF OnePushes, Written, Pool!Thrown, Pool!Out
<1>5. /\ \A s, i : Waits(s, i)' <=> Waits(s, i) \/ (i = finish /\ s = getter.slot)
      /\ \A s, i : Waits(s, i) => i # finish
      /\ \A s, o : Serves(s, o)' <=> Serves(s, o)
      /\ \A s, t : Returns(s, t)' <=> Returns(s, t)
      /\ \A s : ~Leaves(s)'
      /\ \A s : Leaves(s) <=> s = getter.slot
  BY <1>1 DEF PoolTypes, QueueWhole, Written, Pool!Thrown, Pool!Out, Waits, Serves, Returns, Leaves
<1>6. OneObject'
  BY <1>5 DEF OneObject
<1>7. Somewhere'
  BY <1>5 DEF Somewhere, Pool!Thrown
<1>8. QED
  BY <1>2, <1>3, <1>4, <1>6, <1>7

LEMMA PoolDrop ==
    ASSUME SlotsExact, NEW d \in Droppers, Pool!Drop(d) PROVE SlotsExact'
<1> USE DEF SlotsExact
<1>1. PICK x \in held :
         /\ held' = held \ {x}
         /\ dropper' = [dropper EXCEPT ![d].at = "write", ![d].slot = x.slot]
  BY DEF Pool!Drop
<1>2. x.slot \in 1..slots
  <2>1. Serves(x.slot, x)
    BY DEF Serves
  <2>2. QED
    BY <2>1 DEF Somewhere
<1>3. /\ dropper[d].at = "out" /\ dropper'[d].at = "write" /\ dropper'[d].slot = x.slot
      /\ \A t \in Droppers : t # d => dropper'[t] = dropper[t]
      /\ UNCHANGED <<cells, first, finish, size, slots, getter, taken, wild, overlap>>
  BY <1>1 DEF Pool!Drop, PoolTypes, Hand
<1>4. PoolTypes'
  <2>1. dropper' \in [Droppers -> Hand(DropperPlaces)]
    <3>1. [dropper[d] EXCEPT !.at = "write", !.slot = x.slot] \in Hand(DropperPlaces)
      <4>1. "write" \in DropperPlaces /\ x.slot \in Int /\ dropper[d] \in Hand(DropperPlaces)
        BY <1>2 DEF DropperPlaces, PoolTypes
      <4>2. QED
        BY <4>1, HandMoved, ZenonT(60)
    <3>2. dropper' = [dropper EXCEPT ![d] = [dropper[d] EXCEPT !.at = "write", !.slot = x.slot]]
      BY <1>1 DEF PoolTypes, Hand
    <3> HIDE DEF SlotsExact
    <3>3. QED
      BY <3>1, <3>2, ZenonT(60) DEF SlotsExact, PoolTypes
  <2>2. QED
    BY <1>1, <1>3, <2>1, FS_RemoveElement DEF PoolTypes
<1>5. QueueWhole'
  BY <1>3 DEF QueueWhole
<1>6. OnePushes'
  BY <1>3 DEF OnePushes, Written
<1>7. /\ \A s, i : Waits(s, i)' <=> Waits(s, i)
      /\ \A s, o : Serves(s, o)' <=> Serves(s, o) /\ o # x
      /\ \A s, t : Returns(s, t)' <=> Returns(s, t) \/ (t = d /\ s = x.slot)
      /\ \A s : Leaves(s)' <=> Leaves(s)
      /\ \A s : Serves(s, x) <=> s = x.slot
      /\ \A s : ~Returns(s, d)
  BY <1>1, <1>3 DEF Waits, Serves, Returns, Leaves
<1>8. OneObject'
  BY <1>7 DEF OneObject
<1>9. Somewhere'
  BY <1>3, <1>7 DEF Somewhere
<1>10. QED
  BY <1>4, <1>5, <1>6, <1>8, <1>9

LEMMA PoolDropWrite ==
    ASSUME SlotsExact, NEW d \in Droppers, Pool!DropWrite(d), ~overlap' PROVE SlotsExact'
<1> USE DEF SlotsExact
<1>1. /\ dropper' = [dropper EXCEPT ![d].at = "set", ![d].pos = finish]
      /\ dropper[d].at = "write" /\ dropper'[d].at = "set" /\ dropper'[d].pos = finish
      /\ dropper'[d].slot = dropper[d].slot
      /\ \A t \in Droppers : t # d => dropper'[t] = dropper[t]
      /\ cells' = [i \in DOMAIN cells \cup {finish} |->
                      IF i = finish THEN dropper[d].slot ELSE cells[i]]
      /\ \A t \in Droppers : dropper[t].at # "set"
      /\ getter.at \notin {"growSet", "throw"}
      /\ UNCHANGED <<first, finish, size, slots, getter, held, taken, wild>>
  BY DEF Pool!DropWrite, Pool!WriteCell, Pool!Pushing, PoolTypes, Hand
<1>2. PoolTypes'
  <2>1. dropper' \in [Droppers -> Hand(DropperPlaces)]
    <3>1. [dropper[d] EXCEPT !.at = "set", !.pos = finish] \in Hand(DropperPlaces)
      <4>1. "set" \in DropperPlaces /\ finish \in Int /\ dropper[d] \in Hand(DropperPlaces)
        BY DEF DropperPlaces, PoolTypes
      <4>2. QED
        BY <4>1, HandMoved, ZenonT(60)
    <3>2. dropper' = [dropper EXCEPT ![d] = [dropper[d] EXCEPT !.at = "set", !.pos = finish]]
      BY <1>1 DEF PoolTypes, Hand
    <3> HIDE DEF SlotsExact
    <3>3. QED
      BY <3>1, <3>2 DEF SlotsExact, PoolTypes
  <2>2. QED
    BY <1>1, <2>1 DEF PoolTypes
<1>3. QueueWhole'
  BY <1>1 DEF PoolTypes, QueueWhole
<1>4. OnePushes'
  BY <1>1 DEF OnePushes, Written
<1>5. OneObject' /\ Somewhere'
  <2>1. /\ \A s, i : Waits(s, i)' <=> Waits(s, i)
        /\ \A s, o : Serves(s, o)' <=> Serves(s, o)
        /\ \A s, t : Returns(s, t)' <=> Returns(s, t)
        /\ \A s : Leaves(s)' <=> Leaves(s)
    BY <1>1 DEF PoolTypes, QueueWhole, Waits, Serves, Returns, Leaves
  <2>2. QED
    BY <1>1, <2>1, SlotsStay
<1>6. QED
  BY <1>2, <1>3, <1>4, <1>5

LEMMA PoolDropSet ==
    ASSUME SlotsExact, NEW d \in Droppers, Pool!DropSet(d) PROVE SlotsExact'
<1> USE DEF SlotsExact
<1>1. /\ Written(dropper[d], dropper[d].slot) /\ finish' = finish + 1
      /\ dropper' = [dropper EXCEPT ![d] = Pool!Out]
      /\ dropper[d].at = "set" /\ dropper'[d].at = "out"
      /\ \A t \in Droppers : t # d => dropper'[t] = dropper[t] /\ dropper[t].at # "set"
      /\ getter.at \notin {"growSet", "throw"}
      /\ UNCHANGED <<cells, first, size, slots, getter, held, taken, wild, overlap>>
  BY DEF Pool!DropSet, Pool!SetFinish, Pool!Out, PoolTypes, OnePushes, Written
<1>2. PoolTypes'
  <2>1. dropper' \in [Droppers -> Hand(DropperPlaces)]
    <3>1. Pool!Out \in Hand(DropperPlaces)
      BY DEF Pool!Out, Hand, DropperPlaces
    <3>2. QED
      BY <1>1, <3>1 DEF PoolTypes
  <2>2. QED
    BY <1>1, <2>1 DEF PoolTypes
<1>3. QueueWhole'
  BY <1>1 DEF PoolTypes, QueueWhole, Written
<1>4. OnePushes'
  BY <1>1 DEF OnePushes, Written
<1>5. /\ \A s, i : Waits(s, i)' <=> Waits(s, i) \/ (i = finish /\ s = dropper[d].slot)
      /\ \A s, i : Waits(s, i) => i # finish
      /\ \A s, o : Serves(s, o)' <=> Serves(s, o)
      /\ \A s, t : Returns(s, t)' <=> Returns(s, t) /\ t # d
      /\ \A s : Returns(s, d) <=> s = dropper[d].slot
      /\ \A s : Leaves(s)' <=> Leaves(s)
  BY <1>1 DEF PoolTypes, QueueWhole, Written, Waits, Serves, Returns, Leaves
<1>6. OneObject'
  BY <1>5 DEF OneObject
<1>7. Somewhere'
  <2>1. slots' = slots
    BY <1>1
  <2> HIDE DEF SlotsExact
  <2>2. \A s : \/ Leaves(s)'
              \/ (\E i : Waits(s, i)') \/ (\E o : Serves(s, o)') \/ (\E t : Returns(s, t)')
              <=> \/ Leaves(s)
                  \/ (\E i : Waits(s, i)) \/ (\E o : Serves(s, o)) \/ (\E t : Returns(s, t))
    BY <1>5
  <2>3. Somewhere
    BY DEF SlotsExact
  <2>4. QED
    BY <2>1, <2>2, <2>3 DEF Somewhere
<1>8. QED
  BY <1>2, <1>3, <1>4, <1>6, <1>7

LEMMA SlotsNext == SlotsInv /\ [Pool!Next]_(Pool!poolVars) => SlotsInv'
<1> SUFFICES ASSUME SlotsInv, [Pool!Next]_(Pool!poolVars), ~overlap'
             PROVE  SlotsExact'
  BY DEF SlotsInv
<1>1. ~overlap
  BY DEF Pool!Next, Pool!poolVars, Pool!Get, Pool!GrowWrite, Pool!GrowSet, Pool!Grown,
         Pool!TakeFront, Pool!Make, Pool!MakeThrows, Pool!Thrown, Pool!Drop,
         Pool!DropWrite, Pool!DropSet
<1>2. SlotsExact
  BY <1>1 DEF SlotsInv
<1>3. CASE UNCHANGED Pool!poolVars
  BY <1>2, <1>3 DEF Pool!poolVars, SlotsExact, PoolTypes, QueueWhole, OnePushes, Written,
         OneObject, Somewhere, Waits, Serves, Returns, Leaves
<1>4. QED
  BY <1>2, <1>3, PoolGet, PoolGrowWrite, PoolGrowSet, PoolGrown, PoolTakeFront, PoolMake,
     PoolMakeThrows, PoolThrown, PoolDrop, PoolDropWrite, PoolDropSet DEF Pool!Next

LEMMA SlotsCounted == SlotsExact => Pool!SlotsKept
<1> SUFFICES ASSUME SlotsExact PROVE Pool!SlotsKept
  OBVIOUS
<1> USE DEF SlotsExact
<1>1. Pool!Cardinality(Pool!InUse) = Cardinality(Pool!InUse)
  BY DEF Pool!Cardinality, Cardinality
<1>2. Pool!Cardinality(held) = Cardinality(held)
  BY DEF Pool!Cardinality, Cardinality
<1>3. Pool!Cardinality(Pool!Queued) = Cardinality(Pool!Queued)
  BY DEF Pool!Cardinality, Cardinality
<1>4. Cardinality(Pool!InUse) = Cardinality(held)
  <2> DEFINE f == [o \in held |-> o.slot]
  <2>1. Pool!InUse = {f[o] : o \in held}
    BY DEF Pool!InUse
  <2>2. \A o, p \in held : f[o] = f[p] => o = p
    BY DEF OneObject, Serves
  <2> HIDE DEF f
  <2>3. QED
    BY <2>1, <2>2, ImageCounted DEF PoolTypes
<1>5. Cardinality(Pool!Queued) = finish - first
  <2> DEFINE I == first..(finish - 1)
  <2>1. IsFiniteSet(I) /\ Cardinality(I) = finish - first
    <3>1. first \in Int /\ finish \in Int /\ finish - 1 \in Int /\ first <= finish
      BY DEF PoolTypes, QueueWhole
    <3>2. /\ IsFiniteSet(I)
          /\ Cardinality(I) = IF first > finish - 1 THEN 0 ELSE (finish - 1) - first + 1
      BY <3>1, FS_Interval
    <3> HIDE DEF I
    <3>3. QED
      BY <3>1, <3>2
  <2>2. \A i, j \in I : cells[i] = cells[j] => i = j
    BY DEF OneObject, Waits
  <2>3. Pool!Queued = {cells[i] : i \in I}
    BY DEF Pool!Queued
  <2> HIDE DEF I
  <2>4. QED
    BY <2>1, <2>2, <2>3, ImageCounted
<1>6. /\ \A s : s \in Pool!InUse <=> \E o : Serves(s, o)
      /\ \A s : s \in Pool!Queued <=> \E i : Waits(s, i)
      /\ \A s : s \in Pool!Moving <=> Leaves(s) \/ \E t : Returns(s, t)
  BY DEF Pool!InUse, Pool!Queued, Pool!Moving, Serves, Waits, Leaves, Returns
<1>7. /\ Pool!InUse \cap Pool!Queued = {}
      /\ Pool!Moving \cap (Pool!InUse \cup Pool!Queued) = {}
  BY <1>6 DEF OneObject
<1>8. Pool!InUse \cup Pool!Queued \cup Pool!Moving = 1..slots
  BY <1>6 DEF Somewhere
<1>9. ~wild /\ first <= finish
  BY DEF QueueWhole
<1>10. QED
  BY <1>1, <1>2, <1>3, <1>4, <1>5, <1>7, <1>8, <1>9 DEF Pool!SlotsKept

(* For any number of threads that drop objects and any first size: as long *)
(* as no two threads have put slots back at the same time, every slot is   *)
(* in the queue, in an object, or on its way, in one of them and once, and *)
(* get never finds the queue empty (MemoryPool's get and drop, which hold  *)
(* no lock).                                                               *)
THEOREM SlotsKeptTheorem == Spec => []SlotsKept
<1>1. Init => SlotsInv
  BY SlotsInit DEF Init
<1>2. SlotsInv => SlotsKept
  BY SlotsCounted DEF SlotsInv, SlotsKept, Pool!SlotsKept
<1>3. ASSUME [Next]_partsVars PROVE [Pool!Next]_(Pool!poolVars)
  BY <1>3 DEF Next, SerialStep, WindowStep, PoolStep, ConversionStep, ClockStep, FilmStep, ResizeStep,
     WriteStep, ChatStep, ServiceStep, UtilityStep, partsVars, toolOnes, playerOnes, netOnes,
     poolOnes, Pool!poolVars
<1>4. QED
  BY <1>1, <1>2, <1>3, SlotsNext, PTL DEF Spec

----------------------------------------------------------------------------
(***************************************************************************)
(* The converters of the player.                                           *)
(***************************************************************************)
PictureFits ==
    picture # Conv!Nothing =>
        /\ picture.read = picture.shape \/ picture.turned
        /\ picture.made = picture.room
        /\ picture.made = "RGB32" \/ chosen
SoundFits ==
    sound # Conv!Nothing => sound.read = sound.rate /\ sound.made = sound.device

Explored == codecs \subseteq {"audio", "video"} /\ fmt_type = Conv!Becomes(codecs)
Prepared ==
    /\ Explored /\ now = source.shape
    /\ sws_ctx = Conv!Nothing /\ swr_ctx = Conv!Nothing
Playing ==
    /\ Explored /\ now \in {source.shape, source.turn}
    /\ sws_ctx # Conv!Nothing =>
          /\ sws_ctx.to = cur_type
          /\ now = source.shape => sws_ctx.from = source.shape
    /\ swr_ctx # Conv!Nothing =>
          swr_ctx.from = source.rate /\ swr_ctx.to = using.rate

Resting == Conv!Idle /\ inbox = <<>> /\ formats = <<>>
ToOpen ==
    /\ Conv!Idle /\ formats = <<>>
    /\ \E f : inbox = <<[is |-> "start_pretreatment", file |-> f]>>
ToSound == Conv!Idle /\ Prepared /\ inbox = <<>> /\ \E d : formats = <<d>>
ToDecode ==
    /\ Conv!Idle /\ Prepared /\ formats = <<>>
    /\ \E d : inbox = <<[is |-> "decode_ready", device |-> d]>>
Decoding == ~Conv!Idle /\ Playing /\ inbox = <<>> /\ formats = <<>>

ConvFits == PictureFits /\ SoundFits
ConvPhases == Resting \/ ToOpen \/ ToSound \/ ToDecode \/ Decoding
ConvInv ==
    /\ next_type = "RGB32" \/ chosen
    /\ ~hasty => ConvFits /\ ConvPhases

LEMMA OneElement == \A x : Append(<<>>, x) = <<x>> /\ Head(<<x>>) = x /\ Tail(<<x>>) = <<>>
  OBVIOUS

LEMMA ConvInit == Conv!Init => ConvInv
  BY DEF Conv!Init, ConvInv, ConvFits, PictureFits, SoundFits, ConvPhases, Resting, Conv!Idle, Conv!Nothing

LEMMA ConvNext == ConvInv /\ [Conv!Next]_(Conv!convVars) => ConvInv'
<1>1. SUFFICES ASSUME ConvInv, [Conv!Next]_(Conv!convVars)
               PROVE ConvInv'
  OBVIOUS
<1> USE DEF Conv!Idle, Conv!asked, Conv!decoded, Conv!opening
<1>2. ASSUME NEW f, Conv!OpenFile(f)
      PROVE ConvInv'
  <2>1. ~hasty' => ~hasty /\ Resting
    BY <1>1, <1>2 DEF Conv!OpenFile, ConvInv, ConvPhases, Resting, ToOpen, ToSound, ToDecode, Decoding
  <2>2. ~hasty' => ToOpen'
    BY <1>2, <2>1, OneElement DEF Conv!OpenFile, Resting, ToOpen
  <2> QED BY <1>1, <1>2, <2>1, <2>2 DEF Conv!OpenFile, ConvInv, ConvFits, ConvPhases, PictureFits, SoundFits
<1>3. ASSUME NEW t, Conv!set_decode_video_type(t)
      PROVE ConvInv'
  BY <1>1, <1>3 DEF Conv!set_decode_video_type, ConvInv, ConvFits, ConvPhases, PictureFits, SoundFits,
       Resting, ToOpen, ToSound, ToDecode, Decoding, Prepared, Playing, Explored
<1>4. CASE Conv!handle_format_ready
  <2>1. ~hasty' => ~hasty /\ ToSound
    BY <1>1, <1>4 DEF Conv!handle_format_ready, ConvInv, ConvPhases, Resting, ToOpen, ToSound, ToDecode, Decoding
  <2>2. ~hasty' => ToDecode'
    BY <1>4, <2>1, OneElement DEF Conv!handle_format_ready, ToSound, ToDecode, Prepared, Explored
  <2> QED BY <1>1, <1>4, <2>1, <2>2 DEF Conv!handle_format_ready, ConvInv, ConvFits, ConvPhases, PictureFits, SoundFits
<1>5. CASE Conv!pretreatment
  <2>1. ~hasty' => ~hasty /\ ToOpen
    BY <1>1, <1>5 DEF Conv!pretreatment, ConvInv, ConvPhases, Resting, ToOpen, ToSound, ToDecode, Decoding
  <2>2. ~hasty' => ToSound' \/ Resting'
    BY <1>5, <2>1, OneElement DEF Conv!pretreatment, Conv!on_finished, Conv!Found, Conv!Becomes, ToOpen, ToSound, Resting, Prepared, Explored
  <2> QED BY <1>1, <1>5, <2>1, <2>2 DEF Conv!pretreatment, ConvInv, ConvFits, ConvPhases, PictureFits, SoundFits
<1>6. CASE Conv!decode
  <2>1. ~hasty' => ~hasty /\ ToDecode
    BY <1>1, <1>6 DEF Conv!decode, ConvInv, ConvPhases, Resting, ToOpen, ToSound, ToDecode, Decoding
  <2>2. ~hasty' => Decoding'
    BY <1>6, <2>1, OneElement DEF Conv!decode, Conv!Nothing, Decoding, ToDecode, Prepared, Playing, Explored
  <2> QED BY <1>1, <1>6, <2>1, <2>2 DEF Conv!decode, ConvInv, ConvFits, ConvPhases, PictureFits, SoundFits
<1>7. ASSUME ~Conv!Idle, ~hasty
      PROVE Decoding
  BY <1>1, <1>7 DEF ConvInv, ConvPhases, Resting, ToOpen, ToSound, ToDecode
<1>8. CASE Conv!StopDecoding
  <2>1. ~hasty' => ~hasty /\ Resting'
    BY <1>7, <1>8 DEF Conv!StopDecoding, Decoding, Resting
  <2> QED BY <1>1, <1>8, <2>1 DEF Conv!StopDecoding, ConvInv, ConvFits, ConvPhases, PictureFits, SoundFits
<1>9. CASE Conv!change
  <2>1. ~hasty' => ~hasty /\ Decoding'
    BY <1>7, <1>9 DEF Conv!change, Decoding, Playing, Explored
  <2>2. ~hasty' => PictureFits'
    BY <1>1, <1>7, <1>9 DEF Conv!change, Decoding, Playing, PictureFits, ConvInv
  <2> QED BY <1>1, <1>9, <2>1, <2>2 DEF Conv!change, ConvInv, ConvFits, ConvPhases, SoundFits
<1>10. CASE Conv!Turns
  <2>1. ~hasty' => ~hasty /\ Decoding'
    BY <1>7, <1>10 DEF Conv!Turns, Decoding, Playing, Explored
  <2> QED BY <1>1, <1>10, <2>1 DEF Conv!Turns, ConvInv, ConvFits, ConvPhases, PictureFits, SoundFits
<1>11. CASE Conv!audio_change
  <2>1. ~hasty' => ~hasty /\ Decoding'
    BY <1>7, <1>11 DEF Conv!audio_change, Decoding, Playing, Explored
  <2>2. ~hasty' => SoundFits'
    BY <1>7, <1>11 DEF Conv!audio_change, Decoding, Playing, SoundFits
  <2> QED BY <1>1, <1>11, <2>1, <2>2 DEF Conv!audio_change, ConvInv, ConvFits, ConvPhases, PictureFits
<1>12. CASE UNCHANGED Conv!convVars
  BY <1>1, <1>12 DEF Conv!convVars, ConvInv, ConvFits, ConvPhases, PictureFits, SoundFits,
       Resting, ToOpen, ToSound, ToDecode, Decoding, Prepared, Playing, Explored
<1> QED BY <1>1, <1>2, <1>3, <1>4, <1>5, <1>6, <1>8, <1>9, <1>10, <1>11, <1>12 DEF Conv!Next

(* For any files and devices, and any number of them played after one      *)
(* another: as long as no file was opened while another was opening, a     *)
(* converter the decoder has kept fits what it reads and what it makes,    *)
(* for the picture and for the sound (sws_ctx and swr_ctx of               *)
(* DecoderWorker).                                                         *)
THEOREM ConvertersFitTheorem == Spec => []ConvertersFit
<1>1. Init => ConvInv
  BY ConvInit DEF Init
<1>2. ConvInv => ConvertersFit
  <2> SUFFICES ASSUME ConvInv, ~hasty PROVE Conv!ConvertersFit
    BY DEF Conv!ConvertersFit, ConvertersFit
  <2>1. ~Conv!Idle => Conv!Needed[fmt_type] \subseteq codecs \/ codecs = {}
    BY DEF ConvInv, ConvPhases, Resting, ToOpen, ToSound, ToDecode, Decoding, Playing, Explored,
       Conv!Idle, Conv!Needed, Conv!Becomes
  <2> QED BY <2>1 DEF ConvInv, ConvFits, PictureFits, SoundFits, Conv!ConvertersFit
<1>3. ASSUME [Next]_partsVars PROVE [Conv!Next]_(Conv!convVars)
  BY <1>3 DEF Next, SerialStep, WindowStep, PoolStep, ConversionStep, ClockStep, FilmStep, ResizeStep,
     WriteStep, ChatStep, ServiceStep, UtilityStep, partsVars, toolOnes, playerOnes, netOnes,
     convOnes, Conv!convVars
<1> QED BY <1>1, <1>2, <1>3, ConvNext, PTL DEF Spec

----------------------------------------------------------------------------
(***************************************************************************)
(* Seek, clock and sound.                                                  *)
(***************************************************************************)
SoundFrame == [gen : Nat, pts : Int]
SoundTypes ==
    /\ decoding \in {"run", "ring", "flag", "stop", "last", "ended"}
    /\ stage \in {"pause", "waiting", "look", "clear", "reset", "read", "clock", "queue",
                  "full", "drain", "done"}
    /\ next \in Int /\ gen \in Nat /\ lost \in Nat /\ seek_offset \in Int
    /\ clear_SDL \in BOOLEAN /\ stopAsked \in BOOLEAN
    /\ ring \in Seq(SoundFrame) /\ sdl \in Seq(SoundFrame)
    /\ read_buf \in SoundFrame /\ heard \in SoundFrame
    /\ audio_clock \in [gen : Nat, at : Int]

InHand == stage \in {"clock", "queue"}

(* The seek the frames in the ring come after: not the one that has just   *)
(* begun, and has not emptied it yet.                                      *)
RingGen == IF decoding = "ring" THEN gen - 1 ELSE gen

(* More frames may come.                                                   *)
Flowing == decoding \in {"run", "ring", "flag"} \/ ring # <<>> \/ ~stopAsked

(* The frames of one seek follow each other without a gap: those in the    *)
(* ring the one read last, and the next one those in the ring.             *)
RingOrder ==
    /\ RingGen \in Nat /\ read_buf.gen <= RingGen
    /\ \A i \in DOMAIN ring :
          /\ ring[i].gen = RingGen
          /\ read_buf.gen = RingGen => ring[i].pts = read_buf.pts + i
          /\ \A j \in DOMAIN ring : ring[j].pts - ring[i].pts = j - i
    /\ decoding = "run" =>
          /\ ring = <<>> /\ read_buf.gen = gen => next = read_buf.pts + 1
          /\ \A i \in DOMAIN ring : next = ring[i].pts + (Len(ring) + 1 - i)
    /\ decoding = "flag" => ring = <<>> /\ read_buf.gen < gen
    /\ decoding \in {"stop", "last"} => ring = <<>> /\ stopAsked = TRUE

(* Those in SDL's queue follow the one heard last, and the one in hand     *)
(* follows them; when SDL's queue is empty everything read has been heard, *)
(* or a seek has come in between, or nothing more will.                    *)
QueueOrder ==
    /\ \A i, j \in DOMAIN sdl : i <= j =>
          /\ sdl[i].gen <= sdl[j].gen
          /\ sdl[i].gen = sdl[j].gen => sdl[j].pts - sdl[i].pts = j - i
    /\ \A i \in DOMAIN sdl :
          /\ heard.gen <= sdl[i].gen /\ sdl[i].gen <= read_buf.gen
          /\ heard.gen = sdl[i].gen => sdl[i].pts = heard.pts + i
    /\ heard.gen <= read_buf.gen
    /\ InHand =>
          /\ \A i \in DOMAIN sdl :
                sdl[i].gen = read_buf.gen => read_buf.pts - sdl[i].pts = Len(sdl) + 1 - i
          /\ heard.gen = read_buf.gen => read_buf.pts = heard.pts + Len(sdl) + 1
    /\ ~InHand /\ sdl # <<>> => read_buf = sdl[Len(sdl)]
    /\ sdl = <<>> /\ ~InHand /\ stage \notin {"drain", "done"} =>
          heard = read_buf \/ heard.gen < RingGen \/ ~Flowing

(* Between the flag and the answer to it one frame is read at most.        *)
NoneOfRing ==
    heard.gen < RingGen /\ \A i \in DOMAIN sdl : sdl[i].gen < RingGen
OneOfRing ==
    /\ sdl # <<>> => heard.gen < RingGen
    /\ \A i \in DOMAIN sdl : i < Len(sdl) => sdl[i].gen < RingGen
ReadOnce ==
    /\ clear_SDL /\ Flowing =>
          /\ stage = "read" \/ InHand => NoneOfRing
          /\ stage \in {"full", "pause", "waiting", "look", "clear"} => OneOfRing
    /\ stage \in {"clear", "reset"} => clear_SDL
    /\ stage = "reset" => sdl = <<>>

LostOnce ==
    ~stopAsked =>
        /\ lost <= 1
        /\ decoding \in {"ring", "flag"} => lost = 0
        /\ clear_SDL /\ stage # "reset" => lost = 0

NothingStale ==
    decoding \notin {"ring", "flag"} /\ ~clear_SDL =>
        /\ \A i \in DOMAIN sdl : sdl[i].gen = gen
        /\ InHand => read_buf.gen = gen

ClockBehind ==
    /\ audio_clock.gen <= read_buf.gen
    /\ audio_clock.gen = read_buf.gen => audio_clock.at <= read_buf.pts + 1
    /\ \A i \in DOMAIN sdl : audio_clock.gen = sdl[i].gen => audio_clock.at <= sdl[i].pts + 1
    /\ audio_clock.gen = heard.gen => audio_clock.at <= heard.pts + 1

SoundInv ==
    /\ SoundTypes /\ RingOrder /\ QueueOrder
    /\ ReadOnce /\ LostOnce /\ NothingStale /\ ClockBehind

(* What the types say of frames and of the two sequences.                  *)
LEMMA SoundFacts ==
    ASSUME SoundTypes
    PROVE  /\ Len(ring) \in Nat /\ DOMAIN ring = 1..Len(ring) /\ (ring = <<>> <=> Len(ring) = 0)
           /\ \A i \in DOMAIN ring : ring[i] \in SoundFrame /\ ring[i].gen \in Nat /\ ring[i].pts \in Int
           /\ Len(sdl) \in Nat /\ DOMAIN sdl = 1..Len(sdl) /\ (sdl = <<>> <=> Len(sdl) = 0)
           /\ \A i \in DOMAIN sdl : sdl[i] \in SoundFrame /\ sdl[i].gen \in Nat /\ sdl[i].pts \in Int
           /\ read_buf.gen \in Nat /\ read_buf.pts \in Int
           /\ heard.gen \in Nat /\ heard.pts \in Int
           /\ audio_clock.gen \in Nat /\ audio_clock.at \in Int
<1>1. \A f \in SoundFrame : f.gen \in Nat /\ f.pts \in Int
  BY DEF SoundFrame
<1>2. audio_clock.gen \in Nat /\ audio_clock.at \in Int
  BY DEF SoundTypes
<1>3. /\ Len(ring) \in Nat /\ DOMAIN ring = 1..Len(ring)
      /\ \A i \in DOMAIN ring : ring[i] \in SoundFrame
  BY SeqElements DEF SoundTypes
<1>4. /\ Len(sdl) \in Nat /\ DOMAIN sdl = 1..Len(sdl)
      /\ \A i \in DOMAIN sdl : sdl[i] \in SoundFrame
  BY SeqElements DEF SoundTypes
<1>5. (ring = <<>> <=> Len(ring) = 0) /\ (sdl = <<>> <=> Len(sdl) = 0)
  BY DEF SoundTypes
<1>6. QED
  BY <1>1, <1>2, <1>3, <1>4, <1>5 DEF SoundTypes

LEMMA SoundInit == Clock!Init => SoundInv
<1> SUFFICES ASSUME Clock!Init PROVE SoundInv
  OBVIOUS
<1>1. /\ ring = <<>> /\ sdl = <<>> /\ DOMAIN ring = {} /\ DOMAIN sdl = {} /\ Len(sdl) = 0
      /\ <<>> \in Seq(SoundFrame)
  BY DEF Clock!Init
<1>2. SoundTypes
  <2>1. read_buf \in SoundFrame /\ heard \in SoundFrame
    BY DEF Clock!Init, Clock!Silence, SoundFrame
  <2>2. audio_clock \in [gen : Nat, at : Int]
    BY DEF Clock!Init
  <2>3. clear_SDL \in BOOLEAN /\ stopAsked \in BOOLEAN
    BY DEF Clock!Init
  <2>4. QED
    BY <1>1, <2>1, <2>2, <2>3 DEF Clock!Init, SoundTypes
<1>3. RingOrder
  BY <1>1 DEF Clock!Init, Clock!Silence, RingOrder, RingGen
<1>4. QueueOrder
  BY <1>1 DEF Clock!Init, Clock!Silence, QueueOrder, InHand
<1>5. ReadOnce /\ LostOnce /\ NothingStale
  BY <1>1 DEF Clock!Init, ReadOnce, LostOnce, NothingStale, InHand
<1>6. ClockBehind
  BY <1>1 DEF Clock!Init, Clock!Silence, ClockBehind
<1>7. QED
  BY <1>2, <1>3, <1>4, <1>5, <1>6 DEF SoundInv

(* The user: neither a frame nor the audio thread moves.                   *)
LEMMA SoundUser ==
    ASSUME SoundInv,
           UNCHANGED <<decoding, next, gen, ring, stage, read_buf, sdl, clear_SDL,
                       audio_clock, heard, lost>>,
           seek_offset' \in Int, stopAsked' \in BOOLEAN, stopAsked => stopAsked'
    PROVE  SoundInv'
<1> USE DEF SoundInv
<1>1. SoundTypes'
  BY DEF SoundTypes
<1>2. RingOrder'
  BY DEF SoundTypes, RingOrder, RingGen
<1>3. QueueOrder'
  BY DEF QueueOrder, InHand, RingGen, Flowing
<1>4. ReadOnce'
  BY DEF ReadOnce, NoneOfRing, OneOfRing, InHand, RingGen, Flowing
<1>5. LostOnce' /\ NothingStale' /\ ClockBehind'
  BY DEF LostOnce, NothingStale, ClockBehind, InHand
<1>6. QED
  BY <1>1, <1>2, <1>3, <1>4, <1>5

(* The audio thread moves on, and no frame with it.                        *)
LEMMA SoundThread ==
    ASSUME SoundInv,
           UNCHANGED <<decoding, next, gen, ring, read_buf, sdl, clear_SDL,
                       audio_clock, heard, lost, seek_offset, stopAsked>>,
           \/ stage \in {"pause", "waiting"} /\ stage' \in {"waiting", "look"}
           \/ stage = "look" /\ stage' = IF clear_SDL THEN "clear" ELSE "read"
           \/ stage = "full" /\ stage' = "pause"
           \/ stage = "drain" /\ stage' = "done"
    PROVE  SoundInv'
<1> USE DEF SoundInv
<1>1. SoundTypes'
  BY DEF SoundTypes
<1>2. RingOrder'
  BY DEF RingOrder, RingGen
<1>3. QueueOrder'
  BY DEF QueueOrder, InHand, RingGen, Flowing
<1>4. ReadOnce'
  BY DEF SoundTypes, ReadOnce, NoneOfRing, OneOfRing, InHand, RingGen, Flowing
<1>5. LostOnce' /\ NothingStale' /\ ClockBehind'
  BY DEF LostOnce, NothingStale, ClockBehind, InHand
<1>6. QED
  BY <1>1, <1>2, <1>3, <1>4, <1>5

LEMMA SoundClears == ASSUME SoundInv, Clock!ClearQueued PROVE SoundInv'
<1> USE DEF SoundInv, Clock!ClearQueued, Clock!Stage, Clock!decoderOnes, Clock!uiOnes
<1>1. clear_SDL /\ ~InHand
  BY DEF ReadOnce, InHand
<1>2. Clock!Fresh(sdl) \in Nat /\ (~stopAsked => Clock!Fresh(sdl) <= 1)
      /\ (~stopAsked /\ decoding \in {"ring", "flag"} => Clock!Fresh(sdl) = 0)
  <2> DEFINE F == {i \in DOMAIN sdl : sdl[i].gen = gen}
  <2>1. Clock!Fresh(sdl) = Cardinality(F)
    BY DEF Clock!Fresh, Clock!Cardinality, Cardinality
  <2>2. IsFiniteSet(F)
    <3>1. IsFiniteSet(1..Len(sdl))
      BY SoundFacts, FS_Interval
    <3>2. QED
      BY <3>1, SoundFacts, FS_Subset
  <2>3. ASSUME ~stopAsked PROVE F \subseteq {Len(sdl)}
    BY <1>1, <2>3, SoundFacts DEF ReadOnce, OneOfRing, Flowing, RingGen, RingOrder, QueueOrder
  <2>4. ASSUME ~stopAsked, decoding \in {"ring", "flag"} PROVE F = {}
    BY <2>4, SoundFacts DEF RingGen, RingOrder, QueueOrder
  <2> HIDE DEF F
  <2>5. ASSUME ~stopAsked PROVE Cardinality(F) <= 1
    <3>1. PICK x : x = Len(sdl)
      OBVIOUS
    <3>2. IsFiniteSet({x}) /\ Cardinality({x}) = 1
      BY FS_Singleton
    <3>3. F \subseteq {x}
      BY <2>3, <2>5, <3>1
    <3>4. Cardinality(F) <= Cardinality({x})
      BY <3>2, <3>3, FS_Subset
    <3>5. QED
      BY <3>2, <3>4
  <2>6. ASSUME F = {} PROVE Cardinality(F) = 0
    BY <2>6, FS_EmptySet
  <2>7. QED
    BY <2>1, <2>2, <2>4, <2>5, <2>6, FS_CardinalityType
<1>3. sdl' = <<>> /\ DOMAIN sdl' = {} /\ sdl' \in Seq(SoundFrame)
  OBVIOUS
<1>4. SoundTypes'
  BY <1>2, <1>3 DEF SoundTypes
<1>5. RingOrder'
  BY DEF RingOrder, RingGen
<1>6. QueueOrder'
  BY <1>1, <1>3, SoundFacts DEF QueueOrder, ReadOnce, OneOfRing, InHand, RingGen, Flowing
<1>7. ReadOnce'
  BY <1>1, <1>3 DEF ReadOnce, InHand
<1>8. LostOnce'
  BY <1>1, <1>2 DEF LostOnce, SoundTypes
<1>9. NothingStale' /\ ClockBehind'
  BY <1>1, <1>3 DEF NothingStale, ClockBehind, InHand
<1>10. QED
  BY <1>4, <1>5, <1>6, <1>7, <1>8, <1>9

LEMMA SoundResets == ASSUME SoundInv, Clock!ResetFlag PROVE SoundInv'
<1> USE DEF SoundInv, Clock!ResetFlag, Clock!Stage, Clock!decoderOnes, Clock!uiOnes
<1>1. sdl = <<>> /\ DOMAIN sdl = {}
  BY DEF ReadOnce
<1>2. clear_SDL' = FALSE /\ clear_SDL' \in BOOLEAN
  OBVIOUS
<1>3. SoundTypes'
  BY <1>2 DEF SoundTypes
<1>4. RingOrder'
  BY DEF RingOrder, RingGen
<1>5. QueueOrder'
  BY <1>1 DEF QueueOrder, InHand, RingGen, Flowing
<1>6. ReadOnce' /\ LostOnce' /\ NothingStale' /\ ClockBehind'
  BY <1>1, <1>2 DEF ReadOnce, LostOnce, NothingStale, ClockBehind, InHand
<1>7. QED
  BY <1>3, <1>4, <1>5, <1>6

LEMMA SoundReads == ASSUME SoundInv, Clock!Read PROVE SoundInv'
<1> USE DEF SoundInv, Clock!Read, Clock!Stage, Clock!decoderOnes, Clock!uiOnes
<1>1. /\ Tail(ring) \in Seq(SoundFrame) /\ Head(ring) \in SoundFrame
      /\ 1 \in DOMAIN ring /\ read_buf' = ring[1]
      /\ \A i \in DOMAIN ring' : i + 1 \in DOMAIN ring /\ i \in Nat /\ ring'[i] = ring[i + 1]
  BY SeqTail DEF SoundTypes
<1>2. Len(ring') = Len(ring) - 1
  BY DEF SoundTypes
<1>3. SoundTypes'
  BY <1>1 DEF SoundTypes
<1>4. /\ stage = "read" /\ stage' = "clock" /\ ~InHand /\ InHand' /\ RingGen' = RingGen
      /\ read_buf'.gen = RingGen /\ Flowing
  BY <1>1 DEF RingOrder, RingGen, InHand, Flowing
<1>5. read_buf.gen = RingGen => read_buf'.pts = read_buf.pts + 1
  BY <1>1 DEF RingOrder
<1>6. RingOrder'
  <2>1. ASSUME NEW i \in DOMAIN ring'
        PROVE  /\ ring'[i].gen = RingGen' /\ ring'[i].pts = read_buf'.pts + i
               /\ \A j \in DOMAIN ring' : ring'[j].pts - ring'[i].pts = j - i
    <3>1. /\ i + 1 \in DOMAIN ring /\ i \in Nat /\ ring'[i] = ring[i + 1] /\ 1 \in DOMAIN ring
          /\ ring[i + 1].pts \in Int /\ ring[1].pts \in Int
      BY <1>1, <2>1, SoundFacts
    <3>2. ring[i + 1].gen = RingGen /\ ring[i + 1].pts - ring[1].pts = (i + 1) - 1
      BY <3>1 DEF RingOrder
    <3>3. ASSUME NEW j \in DOMAIN ring'
          PROVE  ring'[j].pts - ring'[i].pts = j - i
      <4>1. /\ j + 1 \in DOMAIN ring /\ j \in Nat /\ ring'[j] = ring[j + 1]
            /\ ring[j + 1].pts \in Int
        BY <1>1, <3>3, SoundFacts
      <4>2. ring[j + 1].pts - ring[i + 1].pts = (j + 1) - (i + 1)
        BY <3>1, <4>1 DEF RingOrder
      <4> HIDE DEF SoundInv, Clock!Read
      <4>3. QED
        BY <3>1, <4>1, <4>2
    <3>4. ring'[i].gen = RingGen'
      BY <1>4, <3>1, <3>2
    <3>5. read_buf' = ring[1]
      BY <1>1
    <3> HIDE DEF SoundInv, Clock!Read
    <3>6. ring'[i].pts = read_buf'.pts + i
      BY <3>1, <3>2, <3>5
    <3>7. QED
      BY <3>3, <3>4, <3>6
  <2>2. ASSUME decoding = "run"
        PROVE  /\ ring' = <<>> => next = read_buf'.pts + 1
               /\ \A i \in DOMAIN ring' : next = ring'[i].pts + (Len(ring') + 1 - i)
    <3>1. next = ring[1].pts + Len(ring)
      BY <1>1, <2>2, SoundFacts DEF RingOrder
    <3>2. ring' = <<>> => Len(ring) = 1
      BY <1>2, SoundFacts, SMTT(30)
    <3>3. \A i \in DOMAIN ring' : next = ring[i + 1].pts + (Len(ring) + 1 - (i + 1))
      BY <1>1, <2>2 DEF RingOrder
    <3>4. /\ Len(ring) \in Nat /\ ring[1].pts \in Int
          /\ \A i \in DOMAIN ring' : i \in Nat /\ ring[i + 1].pts \in Int
      BY <1>1, SoundFacts
    <3>5. read_buf' = ring[1] /\ \A i \in DOMAIN ring' : ring'[i] = ring[i + 1]
      BY <1>1
    <3> HIDE DEF SoundInv, Clock!Read
    <3>6. ring' = <<>> => next = read_buf'.pts + 1
      BY <3>1, <3>2, <3>4, <3>5
    <3>7. ASSUME NEW i \in DOMAIN ring' PROVE next = ring'[i].pts + (Len(ring') + 1 - i)
      <4>1. ring'[i] = ring[i + 1] /\ i \in Nat /\ ring[i + 1].pts \in Int /\ Len(ring) \in Nat
        BY <3>4, <3>5, <3>7
      <4>2. next = ring[i + 1].pts + (Len(ring) + 1 - (i + 1))
        BY <3>3, <3>7
      <4>3. QED
        BY <1>2, <4>1, <4>2
    <3>8. QED
      BY <3>6, <3>7
  <2>3. decoding \notin {"flag", "stop", "last"}
    BY <1>1 DEF RingOrder
  <2>4. RingGen' \in Nat /\ read_buf'.gen <= RingGen'
    BY <1>4 DEF RingOrder
  <2>5. QED
    BY <2>1, <2>2, <2>3, <2>4 DEF RingOrder
<1>7. QueueOrder'
  <2>1. ASSUME NEW i \in DOMAIN sdl
        PROVE  /\ sdl[i].gen <= read_buf'.gen
               /\ sdl[i].gen = read_buf'.gen => read_buf'.pts - sdl[i].pts = Len(sdl) + 1 - i
    <3>1. read_buf = sdl[Len(sdl)] /\ Len(sdl) \in DOMAIN sdl /\ i <= Len(sdl)
      BY <1>4, SoundFacts DEF QueueOrder
    <3>2. /\ i \in Nat /\ Len(sdl) \in Nat /\ sdl[i].gen \in Nat /\ sdl[i].pts \in Int
          /\ read_buf.gen \in Nat /\ read_buf.pts \in Int /\ RingGen \in Nat
          /\ read_buf.gen <= RingGen
      BY SoundFacts DEF RingOrder
    <3>3. /\ sdl[i].gen <= read_buf.gen
          /\ sdl[i].gen = read_buf.gen => read_buf.pts - sdl[i].pts = Len(sdl) - i
      BY <3>1 DEF QueueOrder
    <3> HIDE DEF SoundInv, Clock!Read
    <3>4. QED
      BY <1>4, <1>5, <3>2, <3>3
  <2>2. heard.gen <= read_buf'.gen
    BY <1>4, SoundFacts DEF QueueOrder, RingOrder
  <2>3. ASSUME heard.gen = read_buf'.gen
        PROVE  read_buf'.pts = heard.pts + Len(sdl) + 1
    <3>1. CASE sdl = <<>>
      BY <1>1, <1>4, <1>5, <2>3, <3>1, SoundFacts DEF QueueOrder, RingOrder
    <3>2. CASE sdl # <<>>
      <4>1. 1 \in DOMAIN sdl
        BY <3>2, SoundFacts
      <4>2. /\ heard.gen <= sdl[1].gen /\ sdl[1].gen <= read_buf'.gen
            /\ heard.gen \in Nat /\ sdl[1].gen \in Nat
        BY <2>1, <4>1, SoundFacts DEF QueueOrder
      <4>3. sdl[1].gen = heard.gen
        BY <2>3, <4>2
      <4>4. sdl[1].pts = heard.pts + 1
        BY <4>1, <4>3 DEF QueueOrder
      <4>5. read_buf'.pts - sdl[1].pts = Len(sdl) + 1 - 1
        BY <2>1, <2>3, <4>1, <4>3
      <4>6. /\ heard.pts \in Int /\ Len(sdl) \in Nat
            /\ ring[1].pts \in Int
        BY <1>1, SoundFacts
      <4> HIDE DEF SoundInv, Clock!Read
      <4>7. QED
        BY <1>1, <4>4, <4>5, <4>6
    <3>3. QED
      BY <3>1, <3>2
  <2>4. QED
    BY <1>4, <2>1, <2>2, <2>3 DEF QueueOrder
<1>8. ReadOnce'
  BY <1>4 DEF ReadOnce, NoneOfRing, InHand, RingGen
<1>9. LostOnce' /\ NothingStale'
  BY <1>4 DEF LostOnce, NothingStale, RingGen
<1>10. ClockBehind'
  BY <1>1, <1>4, <1>5, SoundFacts DEF ClockBehind, RingOrder, SoundFrame
<1>11. QED
  BY <1>3, <1>6, <1>7, <1>8, <1>9, <1>10

LEMMA SoundReadEnds == ASSUME SoundInv, Clock!ReadEnd PROVE SoundInv'
<1> USE DEF SoundInv, Clock!ReadEnd, Clock!Stage, Clock!decoderOnes, Clock!uiOnes
<1>1. /\ (sdl' = <<>> /\ DOMAIN sdl' = {}) \/ sdl' = sdl
      /\ sdl' \in Seq(SoundFrame) /\ ~InHand /\ ~InHand' /\ stage' = "drain"
  BY DEF SoundTypes, InHand
<1>2. SoundTypes'
  BY <1>1 DEF SoundTypes
<1>3. RingOrder'
  BY DEF RingOrder, RingGen
<1>4. QueueOrder'
  BY <1>1 DEF QueueOrder
<1>5. ReadOnce' /\ LostOnce' /\ NothingStale' /\ ClockBehind'
  BY <1>1 DEF ReadOnce, LostOnce, NothingStale, ClockBehind
<1>6. QED
  BY <1>2, <1>3, <1>4, <1>5

(* The clock is set: while a frame is in hand, or is the last SDL has.     *)
LEMMA SoundSetsClock ==
    ASSUME SoundInv, InHand \/ sdl # <<>>, audio_clock' = Clock!calc_audio_clock,
           UNCHANGED <<decoding, next, gen, ring, read_buf, sdl, clear_SDL,
                       heard, lost, seek_offset, stopAsked>>,
           stage' = stage \/ (stage = "clock" /\ stage' = "queue")
    PROVE  SoundInv'
<1> USE DEF SoundInv
<1>1. /\ audio_clock'.gen = read_buf.gen /\ audio_clock'.at = read_buf.pts - Len(sdl)
      /\ InHand' <=> InHand
  BY DEF Clock!calc_audio_clock, InHand
<1>2. SoundTypes'
  <2>1. audio_clock' \in [gen : Nat, at : Int]
    BY SoundFacts DEF Clock!calc_audio_clock
  <2>2. QED
    BY <2>1 DEF SoundTypes
<1>3. RingOrder'
  BY DEF RingOrder, RingGen
<1>4. QueueOrder'
  BY <1>1 DEF QueueOrder, InHand, RingGen, Flowing
<1>5. ReadOnce' /\ LostOnce' /\ NothingStale'
  BY <1>1 DEF ReadOnce, LostOnce, NothingStale, NoneOfRing, OneOfRing, InHand, RingGen, Flowing
<1>6. ASSUME NEW i \in DOMAIN sdl, sdl[i].gen = read_buf.gen
      PROVE  read_buf.pts - Len(sdl) <= sdl[i].pts + 1
  <2>1. CASE InHand
    <3>1. read_buf.pts - sdl[i].pts = Len(sdl) + 1 - i
      BY <1>6, <2>1 DEF QueueOrder
    <3>2. /\ i \in Nat /\ 1 <= i /\ Len(sdl) \in Nat
          /\ read_buf.pts \in Int /\ sdl[i].pts \in Int
      BY SoundFacts
    <3> HIDE DEF SoundInv
    <3>3. QED
      BY <3>1, <3>2
  <2>2. CASE ~InHand
    <3>1. read_buf = sdl[Len(sdl)] /\ Len(sdl) \in DOMAIN sdl /\ i <= Len(sdl)
      BY <2>2, SoundFacts DEF QueueOrder
    <3>2. sdl[Len(sdl)].pts - sdl[i].pts = Len(sdl) - i
      BY <1>6, <3>1 DEF QueueOrder
    <3>3. QED
      BY <3>1, <3>2, SoundFacts
  <2>3. QED
    BY <2>1, <2>2
<1>7. ASSUME heard.gen = read_buf.gen
      PROVE  read_buf.pts - Len(sdl) <= heard.pts + 1
  <2>1. CASE InHand
    BY <1>7, <2>1, SoundFacts DEF QueueOrder
  <2>2. CASE ~InHand
    <3>1. read_buf = sdl[Len(sdl)] /\ Len(sdl) \in DOMAIN sdl
      BY <2>2, SoundFacts DEF QueueOrder
    <3>2. sdl[Len(sdl)].pts = heard.pts + Len(sdl)
      BY <1>7, <3>1 DEF QueueOrder
    <3>3. QED
      BY <3>1, <3>2, SoundFacts
  <2>3. QED
    BY <2>1, <2>2
<1>8. ClockBehind'
  BY <1>1, <1>6, <1>7, SoundFacts DEF ClockBehind
<1>9. QED
  BY <1>2, <1>3, <1>4, <1>5, <1>8

LEMMA SoundQueues == ASSUME SoundInv, Clock!Queue PROVE SoundInv'
<1> USE DEF SoundInv, Clock!Queue, Clock!Stage, Clock!decoderOnes, Clock!uiOnes
<1>1. /\ sdl' \in Seq(SoundFrame) /\ sdl' # <<>> /\ Len(sdl') = Len(sdl) + 1
      /\ DOMAIN sdl' = DOMAIN sdl \cup {Len(sdl) + 1} /\ Len(sdl) + 1 \notin DOMAIN sdl
      /\ sdl'[Len(sdl) + 1] = read_buf /\ \A i \in DOMAIN sdl : sdl'[i] = sdl[i]
      /\ \A i \in DOMAIN sdl : i \in Nat /\ 1 <= i /\ i <= Len(sdl)
  BY SeqAppend, SoundFacts DEF SoundTypes
<1>2. InHand /\ ~InHand' /\ stage = "queue" /\ stage' = "full"
  BY DEF InHand
<1>3. SoundTypes'
  BY <1>1 DEF SoundTypes
<1>4. RingOrder'
  BY DEF RingOrder, RingGen
<1>5. QueueOrder'
  <2>1. ASSUME NEW i \in DOMAIN sdl', NEW j \in DOMAIN sdl', i <= j
        PROVE  /\ sdl'[i].gen <= sdl'[j].gen
               /\ sdl'[i].gen = sdl'[j].gen => sdl'[j].pts - sdl'[i].pts = j - i
    <3>1. CASE j \in DOMAIN sdl
      BY <1>1, <2>1, <3>1, SoundFacts, SMTT(30) DEF QueueOrder
    <3>2. CASE j = Len(sdl) + 1
      BY <1>1, <1>2, <2>1, <3>2, SoundFacts DEF QueueOrder
    <3>3. QED
      BY <1>1, <3>1, <3>2
  <2>2. ASSUME NEW i \in DOMAIN sdl'
        PROVE  /\ heard.gen <= sdl'[i].gen /\ sdl'[i].gen <= read_buf.gen
               /\ heard.gen = sdl'[i].gen => sdl'[i].pts = heard.pts + i
    <3>1. CASE i \in DOMAIN sdl
      BY <1>1, <3>1 DEF QueueOrder
    <3>2. CASE i = Len(sdl) + 1
      <4>1. /\ heard.gen <= read_buf.gen
            /\ heard.gen = read_buf.gen => read_buf.pts = heard.pts + Len(sdl) + 1
        BY <1>2 DEF QueueOrder
      <4>2. /\ heard.pts \in Int /\ Len(sdl) \in Nat /\ read_buf.gen \in Nat
            /\ sdl'[i] = read_buf
        BY <1>1, <3>2, SoundFacts
      <4> HIDE DEF SoundInv, Clock!Queue
      <4>3. QED
        BY <3>2, <4>1, <4>2
    <3>3. QED
      BY <1>1, <3>1, <3>2
  <2>3. QED
    BY <1>1, <1>2, <2>1, <2>2 DEF QueueOrder
<1>6. ReadOnce'
  <2>1. clear_SDL /\ Flowing => NoneOfRing
    BY <1>2 DEF ReadOnce
  <2>2. NoneOfRing => OneOfRing'
    BY <1>1, SoundFacts DEF NoneOfRing, OneOfRing, RingGen
  <2>3. QED
    BY <1>2, <2>1, <2>2 DEF ReadOnce, Flowing
<1>7. LostOnce' /\ NothingStale'
  BY <1>1, <1>2 DEF LostOnce, NothingStale
<1>8. ClockBehind'
  BY <1>1, SoundFacts DEF ClockBehind
<1>9. QED
  BY <1>3, <1>4, <1>5, <1>6, <1>7, <1>8

LEMMA SoundPlays == ASSUME SoundInv, Clock!Plays PROVE SoundInv'
<1> USE DEF SoundInv, Clock!Plays, Clock!decoderOnes, Clock!uiOnes
<1>1. /\ sdl' \in Seq(SoundFrame) /\ Len(sdl') = Len(sdl) - 1
      /\ heard' \in SoundFrame /\ heard' = sdl[1] /\ 1 \in DOMAIN sdl
      /\ \A i \in DOMAIN sdl' : i + 1 \in DOMAIN sdl /\ i \in Nat /\ sdl'[i] = sdl[i + 1]
  BY SeqTail DEF SoundTypes
<1>2. /\ \A i \in DOMAIN sdl : i \in Nat /\ 1 <= i /\ i <= Len(sdl)
      /\ Len(sdl) \in DOMAIN sdl
      /\ sdl' = <<>> => Len(sdl) = 1
      /\ sdl' # <<>> => Len(sdl) - 1 \in DOMAIN sdl'
  <2> HIDE DEF SoundInv, Clock!Plays
  <2>1. sdl \in Seq(SoundFrame)
    BY DEF SoundInv, SoundTypes
  <2>2. Len(sdl) \in Nat /\ DOMAIN sdl = 1..Len(sdl)
    BY <2>1, SeqElements
  <2>3. Len(sdl') \in Nat /\ DOMAIN sdl' = 1..Len(sdl') /\ (sdl' = <<>> <=> Len(sdl') = 0)
    BY <1>1, SeqElements
  <2>4. QED
    BY <1>1, <2>2, <2>3
<1>3. SoundTypes'
  BY <1>1 DEF SoundTypes
<1>4. RingOrder'
  BY DEF RingOrder, RingGen
<1>5. QueueOrder'
  <2>1. ASSUME NEW i \in DOMAIN sdl', NEW j \in DOMAIN sdl', i <= j
        PROVE  /\ sdl'[i].gen <= sdl'[j].gen
               /\ sdl'[i].gen = sdl'[j].gen => sdl'[j].pts - sdl'[i].pts = j - i
    <3>1. /\ sdl[i + 1].gen <= sdl[j + 1].gen
          /\ sdl[i + 1].gen = sdl[j + 1].gen =>
                sdl[j + 1].pts - sdl[i + 1].pts = (j + 1) - (i + 1)
      BY <1>1, <1>2, <2>1 DEF QueueOrder
    <3>2. QED
      BY <1>1, <2>1, <3>1
  <2>2. ASSUME NEW i \in DOMAIN sdl'
        PROVE  /\ heard'.gen <= sdl'[i].gen /\ sdl'[i].gen <= read_buf.gen
               /\ heard'.gen = sdl'[i].gen => sdl'[i].pts = heard'.pts + i
    <3>1. /\ sdl[1].gen <= sdl[i + 1].gen /\ sdl[i + 1].gen <= read_buf.gen
          /\ sdl[1].gen = sdl[i + 1].gen => sdl[i + 1].pts - sdl[1].pts = (i + 1) - 1
      BY <1>1, <1>2, <2>2 DEF QueueOrder
    <3>2. /\ i \in Nat /\ sdl[1].pts \in Int /\ sdl[i + 1].pts \in Int
          /\ sdl'[i] = sdl[i + 1] /\ heard' = sdl[1]
      BY <1>1, <2>2, SoundFacts
    <3> HIDE DEF SoundInv, Clock!Plays
    <3>3. QED
      BY <3>1, <3>2
  <2>3. heard'.gen <= read_buf.gen
    BY <1>1 DEF QueueOrder
  <2>4. ASSUME InHand
        PROVE  /\ \A i \in DOMAIN sdl' :
                     sdl'[i].gen = read_buf.gen => read_buf.pts - sdl'[i].pts = Len(sdl') + 1 - i
               /\ heard'.gen = read_buf.gen => read_buf.pts = heard'.pts + Len(sdl') + 1
    <3>1. \A i \in DOMAIN sdl' :
             sdl[i + 1].gen = read_buf.gen =>
                read_buf.pts - sdl[i + 1].pts = Len(sdl) + 1 - (i + 1)
      BY <1>1, <2>4 DEF QueueOrder
    <3>2. sdl[1].gen = read_buf.gen => read_buf.pts - sdl[1].pts = Len(sdl) + 1 - 1
      BY <1>1, <2>4 DEF QueueOrder
    <3>3. QED
      BY <1>1, <3>1, <3>2, SoundFacts, SMTT(30)
  <2>5. ASSUME ~InHand, sdl' # <<>>
        PROVE  read_buf = sdl'[Len(sdl')]
    BY <1>1, <1>2, <2>5, SoundFacts DEF QueueOrder
  <2>6. ASSUME ~InHand, sdl' = <<>>
        PROVE  heard' = read_buf
    BY <1>1, <1>2, <2>6 DEF QueueOrder
  <2>7. InHand' <=> InHand
    BY DEF InHand
  <2>8. QED
    BY <2>1, <2>2, <2>3, <2>4, <2>5, <2>6, <2>7 DEF QueueOrder
<1>6. ReadOnce'
  <2>1. NoneOfRing => NoneOfRing'
    BY <1>1 DEF NoneOfRing, RingGen
  <2>2. OneOfRing => OneOfRing'
    <3>1. ASSUME OneOfRing, sdl' # <<>> PROVE heard'.gen < RingGen
      <4>1. 1 < Len(sdl)
        BY <1>1, <1>2, <3>1, SoundFacts
      <4>2. QED
        BY <1>1, <3>1, <4>1 DEF OneOfRing
    <3>2. ASSUME OneOfRing, NEW i \in DOMAIN sdl', i < Len(sdl')
          PROVE  sdl'[i].gen < RingGen
      <4>1. i + 1 < Len(sdl)
        BY <1>1, <3>2, SoundFacts
      <4>2. QED
        BY <1>1, <3>2, <4>1 DEF OneOfRing
    <3>3. RingGen' = RingGen
      BY DEF RingGen
    <3>4. QED
      BY <3>1, <3>2, <3>3 DEF OneOfRing
  <2>3. QED
    BY <2>1, <2>2 DEF ReadOnce, InHand, Flowing
<1>7. LostOnce' /\ NothingStale'
  BY <1>1 DEF LostOnce, NothingStale, InHand
<1>8. ClockBehind'
  BY <1>1 DEF ClockBehind
<1>9. QED
  BY <1>3, <1>4, <1>5, <1>6, <1>7, <1>8

LEMMA SoundDecodes == ASSUME SoundInv, Clock!DecodeFrame PROVE SoundInv'
<1> USE DEF SoundInv, Clock!DecodeFrame, Clock!audioOnes, Clock!uiOnes
<1>1. PICK f : f = [gen |-> gen, pts |-> next]
  OBVIOUS
<1>2. f \in SoundFrame /\ f.gen = gen /\ f.pts = next
  BY <1>1 DEF SoundFrame, SoundTypes
<1>3. /\ ring' \in Seq(SoundFrame) /\ Len(ring') = Len(ring) + 1 /\ ring' # <<>>
      /\ DOMAIN ring' = DOMAIN ring \cup {Len(ring) + 1} /\ Len(ring) + 1 \notin DOMAIN ring
      /\ ring'[Len(ring) + 1] = f /\ \A i \in DOMAIN ring : ring'[i] = ring[i]
      /\ \A i \in DOMAIN ring : i \in Nat /\ 1 <= i /\ i <= Len(ring)
  BY <1>1, <1>2, SeqAppend, SoundFacts, SMTT(30) DEF SoundTypes
<1>4. SoundTypes'
  BY <1>3 DEF SoundTypes
<1>5. RingGen' = RingGen /\ RingGen = gen /\ Flowing /\ Flowing'
  BY DEF RingGen, Flowing
<1>6. RingOrder'
  <2>1. read_buf.gen = gen => next = read_buf.pts + (Len(ring) + 1)
    <3>1. CASE ring = <<>>
      BY <3>1, SoundFacts DEF RingOrder
    <3>2. CASE ring # <<>>
      <4>1. 1 \in DOMAIN ring
        BY <3>2, SoundFacts
      <4>2. next = ring[1].pts + (Len(ring) + 1 - 1)
        BY <4>1 DEF RingOrder
      <4>3. read_buf.gen = gen => ring[1].pts = read_buf.pts + 1
        BY <1>5, <4>1 DEF RingOrder
      <4>4. ring[1].pts \in Int /\ Len(ring) \in Nat /\ read_buf.pts \in Int
        BY <4>1, SoundFacts
      <4> HIDE DEF SoundInv, Clock!DecodeFrame
      <4>5. QED
        BY <4>2, <4>3, <4>4
    <3>3. QED
      BY <3>1, <3>2
  <2>2. \A i \in DOMAIN ring : next = ring[i].pts + (Len(ring) + 1 - i)
    BY DEF RingOrder
  <2>3. ASSUME NEW i \in DOMAIN ring', NEW j \in DOMAIN ring'
        PROVE  ring'[j].pts - ring'[i].pts = j - i
    <3>1. /\ Len(ring) \in Nat /\ next \in Int
          /\ \A k \in DOMAIN ring : k \in Nat /\ ring[k].pts \in Int
      BY <1>3, SoundFacts DEF SoundTypes
    <3>2. \A k, m \in DOMAIN ring : ring[m].pts - ring[k].pts = m - k
      BY DEF RingOrder
    <3>3. /\ DOMAIN ring' = DOMAIN ring \cup {Len(ring) + 1}
          /\ ring'[Len(ring) + 1].pts = next
          /\ \A k \in DOMAIN ring : ring'[k] = ring[k] /\ k # Len(ring) + 1
      BY <1>2, <1>3
    <3> HIDE DEF SoundInv, Clock!DecodeFrame
    <3>4. CASE i \in DOMAIN ring /\ j \in DOMAIN ring
      BY <3>2, <3>3, <3>4
    <3>5. CASE i \in DOMAIN ring /\ j = Len(ring) + 1
      BY <2>2, <3>1, <3>3, <3>5
    <3>6. CASE i = Len(ring) + 1 /\ j \in DOMAIN ring
      BY <2>2, <3>1, <3>3, <3>6
    <3>7. CASE i = Len(ring) + 1 /\ j = Len(ring) + 1
      BY <3>1, <3>3, <3>7
    <3>8. QED
      BY <2>3, <3>3, <3>4, <3>5, <3>6, <3>7
  <2>4. \A i \in DOMAIN ring' :
           ring'[i].gen = gen /\ (read_buf.gen = gen => ring'[i].pts = read_buf.pts + i)
    BY <1>2, <1>3, <1>5, <2>1 DEF RingOrder
  <2>5. \A i \in DOMAIN ring' : next' = ring'[i].pts + (Len(ring') + 1 - i)
    <3>1. /\ Len(ring) \in Nat /\ next \in Int /\ next' = next + 1
          /\ \A k \in DOMAIN ring : k \in Nat /\ ring[k].pts \in Int
      BY <1>3, SoundFacts DEF SoundTypes
    <3>2. /\ DOMAIN ring' = DOMAIN ring \cup {Len(ring) + 1} /\ Len(ring') = Len(ring) + 1
          /\ ring'[Len(ring) + 1].pts = next
          /\ \A k \in DOMAIN ring : ring'[k] = ring[k]
      BY <1>2, <1>3
    <3> HIDE DEF SoundInv, Clock!DecodeFrame
    <3>3. ASSUME NEW i \in DOMAIN ring' PROVE next' = ring'[i].pts + (Len(ring') + 1 - i)
      <4>1. CASE i \in DOMAIN ring
        <5>1. next = ring[i].pts + (Len(ring) + 1 - i) /\ ring'[i] = ring[i]
          BY <2>2, <3>2, <4>1
        <5>2. i \in Nat /\ ring[i].pts \in Int /\ Len(ring) \in Nat /\ next \in Int
          BY <3>1, <4>1
        <5>3. next + 1 = ring[i].pts + ((Len(ring) + 1) + 1 - i)
          <6>1. PICK p, l, n : p = ring[i].pts /\ l = Len(ring) /\ n = next
            OBVIOUS
          <6>2. n \in Int /\ p \in Int /\ l \in Int /\ i \in Int
            BY <5>2, <6>1
          <6>3. n = p + (l + 1 - i)
            BY <5>1, <6>1
          <6>4. n + 1 = p + ((l + 1) + 1 - i)
            BY <6>2, <6>3
          <6>5. QED
            BY <6>1, <6>4
        <5>4. QED
          BY <3>1, <3>2, <5>1, <5>3
      <4>2. CASE i = Len(ring) + 1
        BY <3>1, <3>2, <4>2
      <4>3. QED
        BY <3>2, <3>3, <4>1, <4>2
    <3>4. QED
      BY <3>3
  <2>6. QED
    BY <1>3, <1>5, <2>3, <2>4, <2>5 DEF RingOrder
<1>7. QueueOrder'
  BY <1>5 DEF QueueOrder, InHand
<1>8. ReadOnce' /\ LostOnce' /\ NothingStale' /\ ClockBehind'
  BY <1>5 DEF ReadOnce, LostOnce, NothingStale, ClockBehind, NoneOfRing, OneOfRing, InHand
<1>9. QED
  BY <1>4, <1>6, <1>7, <1>8

LEMMA SoundEnds == ASSUME SoundInv, Clock!EndOfFile \/ Clock!Stop PROVE SoundInv'
<1> USE DEF SoundInv, Clock!EndOfFile, Clock!Stop, Clock!audioOnes, Clock!uiOnes
<1>1. /\ (ring' = <<>> /\ DOMAIN ring' = {}) \/ ring' = ring
      /\ ring' \in Seq(SoundFrame)
      /\ clear_SDL' \in BOOLEAN /\ (clear_SDL => clear_SDL')
  <2>1. ring' = <<>> \/ ring' = ring
    OBVIOUS
  <2>2. ring' \in Seq(SoundFrame) /\ (ring' = <<>> => DOMAIN ring' = {})
    <3>1. <<>> \in Seq(SoundFrame) /\ DOMAIN <<>> = {} /\ ring \in Seq(SoundFrame)
      BY DEF SoundTypes
    <3> HIDE DEF SoundInv, Clock!EndOfFile, Clock!Stop
    <3>2. QED
      BY <2>1, <3>1
  <2>3. clear_SDL' = TRUE \/ clear_SDL' = clear_SDL
    OBVIOUS
  <2>4. clear_SDL' \in BOOLEAN /\ (clear_SDL => clear_SDL')
    BY <2>3 DEF SoundTypes
  <2>5. QED
    BY <2>1, <2>2, <2>4
<1>2. SoundTypes'
  BY <1>1 DEF SoundTypes
<1>3. /\ RingGen = gen /\ RingGen' = gen /\ decoding' \in {"stop", "last", "ended"}
      /\ Flowing' => Flowing /\ clear_SDL' = clear_SDL
      /\ ~stopAsked => clear_SDL' = clear_SDL
  BY DEF RingGen, Flowing, SoundTypes, RingOrder
<1>4. RingOrder'
  BY <1>1, <1>3 DEF RingOrder, SoundTypes
<1>5. QueueOrder'
  BY <1>3 DEF QueueOrder, InHand
<1>6. ReadOnce'
  BY <1>1, <1>3 DEF ReadOnce, NoneOfRing, OneOfRing, InHand
<1>7. LostOnce' /\ NothingStale' /\ ClockBehind'
  BY <1>1, <1>3 DEF LostOnce, NothingStale, ClockBehind, InHand
<1>8. QED
  BY <1>2, <1>4, <1>5, <1>6, <1>7

LEMMA SoundSeeks == ASSUME SoundInv, Clock!seek_by_offset PROVE SoundInv'
<1> USE DEF SoundInv, Clock!seek_by_offset, Clock!audioOnes, Clock!uiOnes, Clock!SeekOrder
<1>1. decoding = "run" /\ decoding' = "ring" /\ gen' = gen + 1 /\ lost' = 0 /\ seek_offset' = 0
  OBVIOUS
<1>2. next' \in Int
  BY ClockAssumption, SoundFacts DEF SoundTypes, Clock!Clamped
<1>3. SoundTypes'
  BY <1>1, <1>2 DEF SoundTypes
<1>4. RingGen = gen /\ RingGen' = gen /\ Flowing /\ Flowing'
  BY <1>1 DEF RingGen, Flowing, SoundTypes
<1>5. RingOrder'
  BY <1>1, <1>4 DEF RingOrder
<1>6. QueueOrder'
  BY <1>4 DEF QueueOrder, InHand
<1>7. ReadOnce'
  BY <1>4 DEF ReadOnce, NoneOfRing, OneOfRing, InHand
<1>8. LostOnce' /\ NothingStale' /\ ClockBehind'
  BY <1>1 DEF LostOnce, NothingStale, ClockBehind
<1>9. QED
  BY <1>3, <1>5, <1>6, <1>7, <1>8

LEMMA SoundSeekClears == ASSUME SoundInv, Clock!SeekClears PROVE SoundInv'
<1> USE DEF SoundInv, Clock!SeekClears, Clock!audioOnes, Clock!uiOnes, Clock!SeekOrder
<1>1. CASE decoding = "ring"
  <2>1. /\ decoding' = "flag" /\ ring' = <<>> /\ DOMAIN ring' = {} /\ ring' \in Seq(SoundFrame)
        /\ UNCHANGED clear_SDL
    BY <1>1
  <2>2. SoundTypes'
    BY <2>1 DEF SoundTypes
  <2>3. RingGen = gen - 1 /\ RingGen' = gen /\ Flowing /\ Flowing' /\ gen \in Nat
    BY <1>1, <2>1 DEF RingGen, Flowing, SoundTypes
  <2>4. RingOrder'
    BY <2>1, <2>3, SoundFacts DEF RingOrder
  <2>5. QueueOrder'
    BY <2>3, SoundFacts DEF QueueOrder, InHand
  <2>6. (NoneOfRing => NoneOfRing') /\ (OneOfRing => OneOfRing')
    BY <2>3, SoundFacts DEF NoneOfRing, OneOfRing
  <2>7. ReadOnce'
    BY <2>1, <2>3, <2>6 DEF ReadOnce, InHand
  <2>8. LostOnce' /\ NothingStale' /\ ClockBehind'
    BY <1>1, <2>1 DEF LostOnce, NothingStale, ClockBehind, InHand
  <2>9. QED
    BY <2>2, <2>4, <2>5, <2>7, <2>8
<1>2. CASE decoding = "flag"
  <2>1. /\ decoding' = "run" /\ UNCHANGED ring /\ clear_SDL' = TRUE /\ clear_SDL' \in BOOLEAN
        /\ clear_SDL' /\ ring = <<>> /\ DOMAIN ring = {} /\ read_buf.gen < gen
    BY <1>2 DEF RingOrder
  <2>2. SoundTypes'
    BY <2>1 DEF SoundTypes
  <2>3. RingGen = gen /\ RingGen' = gen /\ Flowing /\ Flowing'
    BY <1>2, <2>1 DEF RingGen, Flowing
  <2>4. RingOrder'
    BY <2>1, <2>3, SoundFacts DEF RingOrder
  <2>5. QueueOrder'
    BY <2>3 DEF QueueOrder, InHand
  <2>6. NoneOfRing' /\ OneOfRing'
    BY <2>1, <2>3, SoundFacts DEF NoneOfRing, OneOfRing, QueueOrder, SoundTypes
  <2>7. ReadOnce'
    BY <2>1, <2>6 DEF ReadOnce
  <2>8. LostOnce' /\ NothingStale' /\ ClockBehind'
    BY <1>2, <2>1 DEF LostOnce, NothingStale, ClockBehind
  <2>9. QED
    BY <2>2, <2>4, <2>5, <2>7, <2>8
<1>3. QED
  BY <1>1, <1>2

LEMMA SoundUi ==
    ASSUME SoundInv,
           \/ Clock!PlayButton \/ Clock!AskStop
           \/ \E offset1 \in {-1, 1} : Clock!keyPress(offset1)
           \/ \E place \in 0..Length : Clock!sliderReleased(place)
    PROVE  SoundInv'
<1> USE DEF Clock!PlayButton, Clock!AskStop, Clock!keyPress, Clock!sliderReleased,
            Clock!otherUi, Clock!decoderOnes, Clock!audioOnes
<1>1. UNCHANGED <<decoding, next, gen, ring, stage, read_buf, sdl, clear_SDL,
                  audio_clock, heard, lost>>
  OBVIOUS
<1>2. seek_offset' \in Int
  BY SoundFacts DEF SoundInv, SoundTypes
<1>3. stopAsked' \in BOOLEAN /\ (stopAsked => stopAsked')
  BY DEF SoundInv, SoundTypes
<1>4. QED
  BY <1>1, <1>2, <1>3, SoundUser

LEMMA SoundWaits ==
    ASSUME SoundInv, Clock!PauseOrGo \/ Clock!Look \/ Clock!SetClock \/ Clock!AwaitDevice
    PROVE  SoundInv'
<1> USE DEF Clock!Stage, Clock!decoderOnes, Clock!uiOnes
<1>1. CASE Clock!PauseOrGo
  BY <1>1, SoundThread DEF Clock!PauseOrGo
<1>2. CASE Clock!Look
  BY <1>2, SoundThread DEF Clock!Look
<1>3. CASE Clock!SetClock
  BY <1>3, SoundSetsClock DEF Clock!SetClock, InHand
<1>4. CASE Clock!AwaitDevice
  <2>1. CASE Len(sdl) > (IF stage = "full" THEN QueueRoom ELSE 0)
    <3>1. sdl # <<>>
      BY <2>1, ClockAssumption, SoundFacts DEF SoundInv
    <3>2. /\ audio_clock' = Clock!calc_audio_clock /\ stage' = stage
          /\ UNCHANGED <<decoding, next, gen, ring, read_buf, sdl, clear_SDL,
                         heard, lost, seek_offset, stopAsked>>
      BY <1>4, <2>1 DEF Clock!AwaitDevice
    <3>3. QED
      BY <3>1, <3>2, SoundSetsClock
  <2>2. CASE ~(Len(sdl) > (IF stage = "full" THEN QueueRoom ELSE 0))
    BY <1>4, <2>2, SoundThread DEF Clock!AwaitDevice
  <2>3. QED
    BY <2>1, <2>2
<1>5. QED
  BY <1>1, <1>2, <1>3, <1>4

LEMMA SoundNext == SoundInv /\ [Clock!Next]_(Clock!clockVars) => SoundInv'
<1> SUFFICES ASSUME SoundInv, [Clock!Next]_(Clock!clockVars)
             PROVE  SoundInv'
  OBVIOUS
<1>1. CASE UNCHANGED Clock!clockVars
  <2>1. seek_offset' \in Int /\ stopAsked' \in BOOLEAN
    BY <1>1 DEF SoundInv, SoundTypes, Clock!clockVars
  <2>2. QED
    BY <1>1, <2>1, SoundUser DEF Clock!clockVars
<1>2. QED
  BY <1>1, SoundDecodes, SoundEnds, SoundSeeks, SoundSeekClears, SoundClears, SoundResets,
     SoundReads, SoundReadEnds, SoundQueues, SoundPlays, SoundUi, SoundWaits DEF Clock!Next

(* For a film of any length, queues of any room and any number of seeks:   *)
(* however the audio thread and a seek interleave, nothing from before the *)
(* seek is on the way once the flag has been taken, at most one frame from *)
(* after it is thrown away unless the user opens another file, and the     *)
(* clock is never ahead of what is heard (seek_by_offset, the flag         *)
(* clear_SDL and audio_clock).                                             *)
THEOREM SoundHonestTheorem == Spec => []SoundHonest
<1>1. Init => SoundInv
  BY SoundInit DEF Init
<1>2. SoundInv => SoundHonest
  <2> SUFFICES ASSUME SoundInv PROVE Clock!SeeksHeard /\ Clock!ClockHonest
    BY DEF SoundHonest
  <2>1. ASSUME Clock!SeekDone PROVE \A f \in Clock!OnTheWay : f.gen = gen
    BY <2>1 DEF SoundInv, RingOrder, RingGen, NothingStale, InHand, Clock!SeekDone, Clock!OnTheWay
  <2>2. lost <= 1 \/ stopAsked
    BY DEF SoundInv, LostOnce
  <2>3. Clock!ClockHonest
    BY DEF SoundInv, ClockBehind, Clock!ClockHonest
  <2>4. QED
    BY <2>1, <2>2, <2>3 DEF Clock!SeeksHeard
<1>3. ASSUME [Next]_partsVars PROVE [Clock!Next]_(Clock!clockVars)
  BY <1>3 DEF Next, SerialStep, WindowStep, PoolStep, ConversionStep, ClockStep, FilmStep, ResizeStep,
     WriteStep, ChatStep, ServiceStep, UtilityStep, partsVars, toolOnes, playerOnes, netOnes,
     clockOnes, Clock!clockVars
<1>4. QED
  BY <1>1, <1>2, <1>3, SoundNext, PTL DEF Spec

----------------------------------------------------------------------------
(***************************************************************************)
(* A film without sound.                                                   *)
(***************************************************************************)
FilmFrame == [pts : Int]

FilmTypes ==
    /\ wall \in Int /\ elapsedBeforePause \in Int /\ started \in Int /\ waited \in Int
    /\ isTimerPaused \in BOOLEAN /\ now_clock \in Int
    /\ frames \in Seq(FilmFrame) /\ render_clock \in Int
    /\ onScreen \in [pts : Int, now : Int, elapsed : Int]
    /\ offset \in Int /\ reading \in Int

(* The timer stands while the thread waits, and what the thread has read   *)
(* of it lies behind: it never runs back.                                  *)
TimerKept ==
    /\ isTimerPaused <=> doing = "waiting"
    /\ Film!elapsed = wall - waited
    /\ now_clock <= wall - waited
ShownInTime ==
    /\ onScreen.pts <= onScreen.elapsed
    /\ onScreen.pts \in (onScreen.now - Late)..onScreen.now

FilmInv == FilmTypes /\ TimerKept /\ ShownInTime

LEMMA FilmInit == Film!Init => FilmInv
<1> SUFFICES ASSUME Film!Init PROVE FilmInv
  OBVIOUS
<1>1. frames \in Seq(FilmFrame)
  BY DEF Film!Init
<1>2. /\ onScreen \in [pts : Int, now : Int, elapsed : Int]
      /\ ShownInTime
  BY FilmAssumption DEF Film!Init, ShownInTime
<1>3. TimerKept
  BY DEF Film!Init, TimerKept, Film!elapsed
<1>4. /\ wall = 0 /\ elapsedBeforePause = 0 /\ started = 0 /\ isTimerPaused \in BOOLEAN
      /\ now_clock = 0 /\ render_clock = 0 /\ offset = 0 /\ reading = 0 /\ waited = 0
  BY DEF Film!Init
<1>5. QED
  BY <1>1, <1>2, <1>3, <1>4 DEF FilmInv, FilmTypes

LEMMA FilmPasses == ASSUME FilmInv, Film!Passes PROVE FilmInv'
  BY DEF FilmInv, FilmTypes, TimerKept, ShownInTime, Film!elapsed, Film!Passes, Film!timer,
         Film!user, Film!film

LEMMA FilmReadTimer == ASSUME FilmInv, Film!ReadTimer PROVE FilmInv'
  BY DEF FilmInv, FilmTypes, TimerKept, ShownInTime, Film!elapsed, Film!ReadTimer, Film!timer,
         Film!user, Film!film

LEMMA FilmAwaitResume == ASSUME FilmInv, Film!AwaitResume PROVE FilmInv'
<1> USE DEF Film!timer, Film!user, Film!film, Film!AwaitResume
<1>1. FilmTypes'
  <2>1. isTimerPaused' \in BOOLEAN
    BY DEF FilmInv, FilmTypes, Film!pause, Film!resume
  <2>2. elapsedBeforePause' \in Int /\ started' \in Int
    BY DEF FilmInv, FilmTypes, Film!elapsed, Film!pause, Film!resume
  <2>3. QED
    BY <2>1, <2>2 DEF FilmInv, FilmTypes
<1>2. TimerKept'
  BY DEF FilmInv, FilmTypes, TimerKept, Film!elapsed, Film!pause, Film!resume
<1>3. ShownInTime'
  BY DEF FilmInv, ShownInTime
<1>4. QED
  BY <1>1, <1>2, <1>3 DEF FilmInv

LEMMA FilmTakeFrame == ASSUME FilmInv, Film!TakeFrame PROVE FilmInv'
<1> USE DEF FilmInv, Film!timer, Film!user, Film!film
<1>1. Film!elapsed = wall - waited /\ Film!elapsed \in Int
  BY DEF FilmTypes, TimerKept
<1>2. TimerKept'
  BY DEF TimerKept, Film!TakeFrame, Film!elapsed
<1>3. CASE frames = <<>> \/ Head(frames) = Film!End
  BY <1>2, <1>3 DEF FilmTypes, ShownInTime, Film!TakeFrame
<1>4. CASE ~(frames = <<>> \/ Head(frames) = Film!End)
  <2>1. Head(frames) \in FilmFrame /\ Tail(frames) \in Seq(FilmFrame)
    BY <1>4 DEF FilmTypes
  <2>2. Head(frames).pts \in Int
    BY <2>1 DEF FilmFrame
  <2>3. frames' \in Seq(FilmFrame) /\ render_clock' \in Int
    BY <1>4, <2>1, <2>2 DEF FilmTypes, Film!TakeFrame
  <2>4. /\ onScreen' \in [pts : Int, now : Int, elapsed : Int]
        /\ ShownInTime'
    <3>1. CASE Head(frames).pts \in (now_clock - Late)..now_clock
      <4>1. onScreen' = [pts |-> Head(frames).pts, now |-> now_clock, elapsed |-> Film!elapsed]
        BY <1>4, <3>1 DEF Film!TakeFrame
      <4>2. now_clock \in Int /\ now_clock <= Film!elapsed
        BY <1>1 DEF FilmTypes, TimerKept
      <4>3. Head(frames).pts <= Film!elapsed
        BY <1>1, <2>2, <3>1, <4>2, FilmAssumption
      <4> HIDE DEF FilmInv
      <4>4. QED
        BY <1>1, <2>2, <3>1, <4>1, <4>2, <4>3 DEF ShownInTime
    <3>2. CASE ~(Head(frames).pts \in (now_clock - Late)..now_clock)
      BY <1>4, <3>2 DEF FilmTypes, ShownInTime, Film!TakeFrame
    <3>3. QED
      BY <3>1, <3>2
  <2>5. QED
    BY <1>2, <2>3, <2>4 DEF FilmTypes, Film!TakeFrame
<1>5. QED
  BY <1>3, <1>4

LEMMA FilmReadPacket == ASSUME FilmInv, Film!ReadPacket PROVE FilmInv'
<1> USE DEF Film!timer, Film!user
<1>1. TimerKept' /\ ShownInTime'
  BY DEF FilmInv, TimerKept, ShownInTime, Film!elapsed, Film!ReadPacket
<1>2. offset' \in Int
  BY DEF FilmInv, FilmTypes, Film!ReadPacket
<1>3. Film!End \in FilmFrame /\ [pts |-> reading] \in FilmFrame
  BY DEF FilmInv, FilmTypes, FilmFrame, Film!End
<1>4. /\ <<Film!End>> \in Seq(FilmFrame) /\ <<>> \in Seq(FilmFrame)
      /\ Append(frames, [pts |-> reading]) \in Seq(FilmFrame)
      /\ Append(frames, Film!End) \in Seq(FilmFrame)
  BY <1>3 DEF FilmInv, FilmTypes
<1>5. frames' \in Seq(FilmFrame)
  BY <1>4 DEF Film!ReadPacket
<1>6. reading' \in Int
  BY FilmAssumption DEF FilmInv, FilmTypes, Film!ReadPacket, Film!Over
<1>7. QED
  BY <1>1, <1>2, <1>5, <1>6 DEF FilmInv, FilmTypes, Film!ReadPacket

LEMMA FilmUser ==
    ASSUME FilmInv, Film!PauseKey \/ Film!OtherFile \/ \E o \in {-1, 1} : Film!Key(o)
    PROVE  FilmInv'
<1> USE DEF Film!PauseKey, Film!OtherFile, Film!Key, Film!timer, Film!film
<1>1. FilmTypes'
  <2>1. offset' \in Int
    BY DEF FilmInv, FilmTypes
  <2>2. UNCHANGED <<wall, elapsedBeforePause, started, waited, isTimerPaused, now_clock,
                    frames, render_clock, onScreen, reading>>
    OBVIOUS
  <2>3. QED
    BY <2>1, <2>2 DEF FilmInv, FilmTypes
<1>2. TimerKept' /\ ShownInTime'
  BY DEF FilmInv, TimerKept, ShownInTime, Film!elapsed
<1>3. QED
  BY <1>1, <1>2 DEF FilmInv

LEMMA FilmNext == FilmInv /\ [Film!Next]_(Film!filmVars) => FilmInv'
<1> SUFFICES ASSUME FilmInv, [Film!Next]_(Film!filmVars)
             PROVE  FilmInv'
  OBVIOUS
<1>1. CASE UNCHANGED Film!filmVars
  BY <1>1 DEF FilmInv, FilmTypes, TimerKept, ShownInTime, Film!elapsed, Film!filmVars
<1>2. QED
  BY <1>1, FilmPasses, FilmReadTimer, FilmAwaitResume, FilmTakeFrame, FilmReadPacket, FilmUser
     DEF Film!Next

(* For a film of any length and any number of pauses and seeks: the timer  *)
(* counts the time the thread has not waited for a pause to end, and a     *)
(* picture is shown not before its time and, when the timer was read, not  *)
(* late (the timer and the loop of the render thread).                     *)
THEOREM TimerHonestTheorem == Spec => []TimerHonest
<1>1. Init => FilmInv
  BY FilmInit DEF Init
<1>2. FilmInv => TimerHonest
  BY DEF FilmInv, TimerKept, ShownInTime, TimerHonest, Film!TimerHonest
<1>3. ASSUME [Next]_partsVars PROVE [Film!Next]_(Film!filmVars)
  BY <1>3 DEF Next, SerialStep, WindowStep, PoolStep, ConversionStep, ClockStep, FilmStep, ResizeStep,
     WriteStep, ChatStep, ServiceStep, UtilityStep, partsVars, toolOnes, playerOnes, netOnes,
     filmOnes, Film!filmVars
<1>4. QED
  BY <1>1, <1>2, <1>3, FilmNext, PTL DEF Spec

----------------------------------------------------------------------------
(***************************************************************************)
(* The size of the video window.                                           *)
(***************************************************************************)
Rectangle == [w : Nat, h : Nat]

ResizeTypes ==
    /\ asks \in [stage : {"calm", "width", "height"}, w : Nat, h : Nat]
    /\ frame \in [stage : {"test", "size", "sized", "reset", "width", "height"}, w : Nat, h : Nat]
    /\ dst_w \in Nat /\ dst_h \in Nat
    /\ is_window_resize \in BOOLEAN /\ raced \in BOOLEAN

(* As long as no resizeEvent and no taking of the flag have met: the flag  *)
(* is up while either of them goes on, never both, and what the render     *)
(* thread has already taken of the rectangle is still true of it.          *)
TakenWhole ==
    ~raced =>
        /\ asks.stage # "calm" => is_window_resize /\ ~Size!Taking
        /\ Size!Taking => is_window_resize
        /\ frame.stage = "sized" => frame.w = dst_w
        /\ frame.stage = "reset" => windowSize = [w |-> dst_w, h |-> dst_h]
        /\ asks.stage = "calm" /\ ~is_window_resize => windowSize = [w |-> dst_w, h |-> dst_h]

(* The picture lies in its rectangle and fills it one way.                 *)
Fits(r) ==
    /\ r.x >= 0 /\ r.x + r.w <= r.into.w
    /\ r.y >= 0 /\ r.y + r.h <= r.into.h
    /\ r.w >= r.into.w - 1 \/ r.h >= r.into.h - 1

ResizeInv == ResizeTypes /\ TakenWhole /\ Fits(drawn)

LEMMA CastWhole ==
    ASSUME NEW a \in Nat, NEW b \in Nat \ {0}, NEW n \in Size!Cast(b * a, b)
    PROVE  n \in Int /\ a - 1 <= n /\ n <= a
<1>1. (b * a) \div b = a
  BY SMT
<1>2. QED
  BY <1>1 DEF Size!Cast

LEMMA CastBelow ==
    ASSUME NEW num \in Nat, NEW b \in Nat \ {0}, NEW a \in Nat, num <= b * a,
           NEW n \in Size!Cast(num, b)
    PROVE  n \in Int /\ n <= a
<1>1. num \div b \in Int /\ num \div b <= a
  BY SMT
<1>2. QED
  BY <1>1 DEF Size!Cast

LEMMA HalfOfRest ==
    ASSUME NEW n \in Int, NEW a \in Nat, n <= a
    PROVE  (a - n) \div 2 >= 0 /\ (a - n) \div 2 + n <= a
  BY SMT

(* The two ways to scale, and the smaller of the two scales is the one     *)
(* that keeps the other side inside.                                       *)
LEMMA PictureInWindow ==
    ASSUME NEW into \in Rectangle,
           NEW r \in Size!transform_video_rect(FrameSize.w, FrameSize.h, into)
    PROVE  Fits(r)
<1> DEFINE w == FrameSize.w
           h == FrameSize.h
<1>1. w \in Nat \ {0} /\ h \in Nat \ {0} /\ into.w \in Nat /\ into.h \in Nat
  BY SizesAssumption DEF Rectangle
<1>0. h * into.w \in Nat /\ w * into.h \in Nat /\ h * into.w = into.w * h /\ w * into.h = into.h * w
  BY <1>1, SMT
<1>2. CASE into.w * h < into.h * w
  <2>1. PICK rw \in Size!Cast(w * into.w, w), rh \in Size!Cast(h * into.w, w) :
           r = [w |-> rw, h |-> rh, x |-> (into.w - rw) \div 2,
                y |-> (into.h - rh) \div 2, into |-> into]
    BY <1>2 DEF Size!transform_video_rect, Size!Scaled
  <2>2. rw \in Int /\ into.w - 1 <= rw /\ rw <= into.w
    BY <1>1, CastWhole
  <2>3. h * into.w <= w * into.h
    BY <1>1, <1>0, <1>2
  <2>4. rh \in Int /\ rh <= into.h
    BY <1>1, <1>0, <2>3, CastBelow
  <2>5. QED
    BY <1>1, <2>1, <2>2, <2>4, HalfOfRest DEF Fits
<1>3. CASE ~(into.w * h < into.h * w)
  <2>1. PICK rw \in Size!Cast(w * into.h, h), rh \in Size!Cast(h * into.h, h) :
           r = [w |-> rw, h |-> rh, x |-> (into.w - rw) \div 2,
                y |-> (into.h - rh) \div 2, into |-> into]
    BY <1>3 DEF Size!transform_video_rect, Size!Scaled
  <2>2. rh \in Int /\ into.h - 1 <= rh /\ rh <= into.h
    BY <1>1, CastWhole
  <2>3. w * into.h <= h * into.w
    BY <1>1, <1>0, <1>3
  <2>4. rw \in Int /\ rw <= into.w
    BY <1>1, <1>0, <2>3, CastBelow
  <2>5. QED
    BY <1>1, <2>1, <2>2, <2>4, HalfOfRest DEF Fits
<1>4. QED
  BY <1>2, <1>3

LEMMA ResizeInit == Size!Init => ResizeInv
<1> SUFFICES ASSUME Size!Init PROVE ResizeInv
  OBVIOUS
<1>1. windowSize \in Rectangle /\ windowSize = [w |-> windowSize.w, h |-> windowSize.h]
  BY SizesAssumption DEF Size!Init, Rectangle
<1>2. Fits(drawn)
  BY <1>1, PictureInWindow DEF Size!Init
<1>3. ResizeTypes
  BY <1>1 DEF Size!Init, Size!Calm, Size!NewFrame, ResizeTypes, Rectangle
<1>4. TakenWhole
  BY <1>1 DEF Size!Init, Size!Calm, Size!NewFrame, TakenWhole, Size!Taking
<1>5. QED
  BY <1>2, <1>3, <1>4 DEF ResizeInv

LEMMA SetResizeStep ==
    ASSUME ResizeInv, NEW new \in Sizes, Size!SetResize(new)
    PROVE  ResizeInv'
<1>1. new.w \in Nat /\ new.h \in Nat
  BY SizesAssumption
<1>2. ResizeTypes'
  BY <1>1 DEF Size!SetResize, ResizeInv, ResizeTypes, Size!Taking
<1>3. TakenWhole'
  BY <1>1 DEF Size!SetResize, ResizeInv, ResizeTypes, TakenWhole, Size!Taking
<1>4. QED
  BY <1>2, <1>3 DEF ResizeInv, Size!SetResize, Fits

LEMMA SetRectStep ==
    ASSUME ResizeInv, Size!SetRect
    PROVE  ResizeInv'
<1>1. UNCHANGED <<is_window_resize, frame, drawn, windowSize, raced>>
  BY DEF Size!SetRect
<1>2. CASE asks.stage = "width"
  <2>1. asks' = [asks EXCEPT !.stage = "height"] /\ dst_w' = asks.w /\ dst_h' = dst_h
    BY <1>2 DEF Size!SetRect
  <2>2. asks' \in [stage : {"calm", "width", "height"}, w : Nat, h : Nat] /\ asks'.stage = "height"
    BY <2>1 DEF ResizeInv, ResizeTypes
  <2>3. ResizeTypes'
    BY <1>1, <2>1, <2>2 DEF ResizeInv, ResizeTypes
  <2>4. TakenWhole'
    BY <1>1, <1>2, <2>2 DEF ResizeInv, TakenWhole, Size!Taking
  <2>5. QED
    BY <1>1, <2>3, <2>4 DEF ResizeInv, Fits
<1>3. CASE asks.stage = "height"
  <2>1. asks' = Size!Calm /\ dst_h' = asks.h /\ dst_w' = dst_w
    BY <1>3 DEF Size!SetRect
  <2>2. ResizeTypes'
    BY <1>1, <2>1 DEF ResizeInv, ResizeTypes, Size!Calm
  <2>3. TakenWhole'
    BY <1>1, <1>3, <2>1 DEF ResizeInv, TakenWhole, Size!Taking
  <2>4. QED
    BY <1>1, <2>2, <2>3 DEF ResizeInv, Fits
<1>4. QED
  BY <1>2, <1>3 DEF Size!SetRect

LEMMA RenderStep ==
    ASSUME ResizeInv, Size!TestResize \/ Size!SetWindowSize
    PROVE  ResizeInv'
<1>1. ResizeTypes'
  BY DEF Size!TestResize, Size!SetWindowSize, ResizeInv, ResizeTypes
<1>2. TakenWhole'
  <2>1. CASE Size!TestResize
    BY <2>1 DEF Size!TestResize, ResizeInv, ResizeTypes, TakenWhole, Size!Taking
  <2>2. CASE Size!SetWindowSize
    BY <2>2 DEF Size!SetWindowSize, ResizeInv, ResizeTypes, TakenWhole, Size!Taking
  <2>3. QED
    BY <2>1, <2>2
<1>3. QED
  BY <1>1, <1>2 DEF ResizeInv, Size!TestResize, Size!SetWindowSize, Fits

LEMMA DrawStep ==
    ASSUME ResizeInv, Size!Draw
    PROVE  ResizeInv'
<1>1. UNCHANGED <<asks, dst_w, dst_h, is_window_resize, windowSize, raced>>
  BY DEF Size!Draw
<1>2. CASE frame.stage = "width"
  <2>1. frame' = [frame EXCEPT !.stage = "height", !.w = dst_w] /\ drawn' = drawn
    BY <1>2 DEF Size!Draw, Size!ReadWidth
  <2>2. /\ frame' \in [stage : {"test", "size", "sized", "reset", "width", "height"}, w : Nat, h : Nat]
        /\ frame'.stage = "height"
    BY <2>1 DEF ResizeInv, ResizeTypes
  <2>3. ResizeTypes'
    BY <1>1, <2>2 DEF ResizeInv, ResizeTypes
  <2>4. TakenWhole'
    BY <1>1, <1>2, <2>2 DEF ResizeInv, TakenWhole, Size!Taking
  <2>5. QED
    BY <2>1, <2>3, <2>4 DEF ResizeInv, Fits
<1>3. CASE frame.stage = "height"
  <2>1. /\ frame' = Size!NewFrame
        /\ drawn' \in Size!transform_video_rect(FrameSize.w, FrameSize.h,
                                                 [w |-> frame.w, h |-> dst_h])
    BY <1>3 DEF Size!Draw
  <2>2. ResizeTypes'
    BY <1>1, <2>1 DEF ResizeInv, ResizeTypes, Size!NewFrame
  <2>3. TakenWhole'
    BY <1>1, <1>3, <2>1 DEF ResizeInv, TakenWhole, Size!Taking, Size!NewFrame
  <2>4. [w |-> frame.w, h |-> dst_h] \in Rectangle
    BY DEF ResizeInv, ResizeTypes, Rectangle
  <2>5. \A r \in Size!transform_video_rect(FrameSize.w, FrameSize.h,
                                           [w |-> frame.w, h |-> dst_h]) : Fits(r)
    BY <2>4, PictureInWindow
  <2>6. QED
    BY <2>1, <2>2, <2>3, <2>5 DEF ResizeInv, Fits
<1>4. QED
  BY <1>2, <1>3 DEF Size!Draw

LEMMA ResizeNext == ResizeInv /\ [Size!Next]_(Size!resizeVars) => ResizeInv'
<1> SUFFICES ASSUME ResizeInv, [Size!Next]_(Size!resizeVars)
             PROVE  ResizeInv'
  OBVIOUS
<1>1. CASE UNCHANGED Size!resizeVars
  BY <1>1 DEF Size!resizeVars, ResizeInv, ResizeTypes, TakenWhole, Size!Taking, Fits
<1>2. QED
  BY <1>1, SetResizeStep, SetRectStep, RenderStep, DrawStep DEF Size!Next

(* For rectangles and pictures of any size: when the flag has been taken   *)
(* the window has the size that was asked for, unless a resizeEvent and    *)
(* the render thread met; and the picture lies inside of its rectangle and *)
(* fills it in one direction but for one line or column (resizeEvent,      *)
(* is_window_resize, the casts of the rectangle's sides).                  *)
THEOREM SizeExplainedTheorem == Spec => []SizeExplained
<1>1. Init => ResizeInv
  BY ResizeInit DEF Init
<1>2. ResizeInv => SizeExplained
  BY DEF ResizeInv, ResizeTypes, TakenWhole, Fits, SizeExplained, Size!SizeExplained, Size!Calm
<1>3. ASSUME [Next]_partsVars PROVE [Size!Next]_(Size!resizeVars)
  BY <1>3 DEF Next, SerialStep, WindowStep, PoolStep, ConversionStep, ClockStep, FilmStep,
         ResizeStep, WriteStep, ChatStep, ServiceStep, UtilityStep, partsVars, toolOnes,
         playerOnes, netOnes, resizeOnes, Size!resizeVars
<1>4. QED
  BY <1>1, <1>2, <1>3, ResizeNext, PTL DEF Spec

----------------------------------------------------------------------------
(***************************************************************************)
(* What a Session writes.                                                  *)
(***************************************************************************)
Sending == Write!Sends
ChainPlaces == {"none", "test", "push", "pop", "flying", "flown", "wrote", "done"}
OnThread == {"test", "push", "pop", "wrote"}
Unpushed == {"none", "test", "push"}
Writers == {"pop", "flying", "flown", "wrote"}

WriteTypes ==
    /\ posted \in 0..MaxPosts /\ begun \in 0..posted
    /\ sendQueue \in Seq(Sending)
    /\ chain \in [Sending -> [at : ChainPlaces, busy : BOOLEAN, msg : 0..MaxPosts]]
    /\ wire \in Seq([msg : Sending, whole : BOOLEAN])
    /\ \A n \in Sending : chain[n].at = "none" <=> n > begun

(* A message is not pushed yet, or in the queue, or with the kernel, or on *)
(* the wire, or lost with an error; in one of these places, and once.      *)
AllOnce ==
    /\ \A i, j \in DOMAIN sendQueue : sendQueue[i] = sendQueue[j] => i = j
    /\ \A i \in DOMAIN sendQueue : chain[sendQueue[i]].at \notin Unpushed
    /\ \A i, j \in DOMAIN wire : wire[i].msg = wire[j].msg => i = j
    /\ \A i \in DOMAIN wire : chain[wire[i].msg].at \notin Unpushed
    /\ \A i \in DOMAIN sendQueue, j \in DOMAIN wire : sendQueue[i] # wire[j].msg
    /\ \A n \in Sending : chain[n].at = "flying" =>
          /\ chain[n].msg \in Sending /\ chain[chain[n].msg].at \notin Unpushed
          /\ \A i \in DOMAIN sendQueue : sendQueue[i] # chain[n].msg
          /\ \A i \in DOMAIN wire : wire[i].msg # chain[n].msg
    /\ \A n, k \in Sending :
          chain[n].at = "flying" /\ chain[k].at = "flying" /\ chain[n].msg = chain[k].msg => n = k

(* With one thread a handler has popped what it pushed before another one  *)
(* looks at the queue.                                                     *)
OneByOne ==
    threads = 1 =>
        /\ \A n, k \in Sending : chain[n].at \in OnThread /\ chain[k].at \in OnThread => n = k
        /\ \A n \in Sending : chain[n].at = "pop" => sendQueue = <<n>>
        /\ (\A n \in Sending : chain[n].at # "pop") => sendQueue = <<>>
        /\ \A n \in Sending : chain[n].at = "push" => ~chain[n].busy
        /\ emptied = FALSE /\ late = {}
        /\ \A n \in Sending : chain[n].msg \in {0, n}

(* Somebody will look at the queue again.                                  *)
SomebodyWrites ==
    sendQueue # <<>> =>
        sendQueue[1] \in late \/ failed = TRUE \/ \E n \in Sending : chain[n].at \in Writers

WriteInv == WriteTypes /\ AllOnce /\ OneByOne /\ SomebodyWrites

LEMMA WriteInit == Write!Init => WriteInv
<1> SUFFICES ASSUME Write!Init PROVE WriteInv
  OBVIOUS
<1>1. sendQueue = <<>> /\ wire = <<>> /\ DOMAIN sendQueue = {} /\ DOMAIN wire = {}
  BY DEF Write!Init
<1>2. <<>> \in Seq(Sending) /\ <<>> \in Seq([msg : Sending, whole : BOOLEAN])
  OBVIOUS
<1>3. chain = [n \in Sending |-> [at |-> "none", busy |-> FALSE, msg |-> 0]]
  BY DEF Write!Init, Sending
<1>4. WriteTypes
  BY <1>1, <1>2, <1>3, PostsAssumption DEF Write!Init, WriteTypes, ChainPlaces, Sending, Write!Sends
<1>5. AllOnce
  BY <1>1, <1>3 DEF AllOnce
<1>6. OneByOne /\ SomebodyWrites
  BY <1>1, <1>3 DEF Write!Init, OneByOne, SomebodyWrites, OnThread
<1>7. QED
  BY <1>4, <1>5, <1>6 DEF WriteInv

(* Handler n, and it alone, comes to another place.                        *)
LEMMA ChainMoves ==
    ASSUME WriteTypes, NEW n \in Sending, NEW to \in ChainPlaces, Write!Goes(n, to)
    PROVE  /\ chain' \in [Sending -> [at : ChainPlaces, busy : BOOLEAN, msg : 0..MaxPosts]]
           /\ chain'[n].at = to /\ chain'[n].busy = chain[n].busy /\ chain'[n].msg = chain[n].msg
           /\ \A k \in Sending : k # n => chain'[k] = chain[k]
<1>1. chain \in [Sending -> [at : ChainPlaces, busy : BOOLEAN, msg : 0..MaxPosts]]
  BY DEF WriteTypes
<1>2. chain' = [chain EXCEPT ![n].at = to]
  BY DEF Write!Goes
<1>3. QED
  BY <1>1, <1>2

(* Steps that touch neither the queue nor the wire and take no message.    *)
LEMMA MovesOnce ==
    ASSUME AllOnce, NEW n \in Sending, UNCHANGED <<sendQueue, wire>>,
           chain'[n].at \in Unpushed => chain[n].at \in Unpushed,
           chain'[n].at = "flying" => chain[n].at = "flying",
           chain'[n].msg = chain[n].msg,
           \A k \in Sending : k # n => chain'[k] = chain[k],
           sendQueue \in Seq(Sending), wire \in Seq([msg : Sending, whole : BOOLEAN])
    PROVE  AllOnce'
<1>1. \A k \in Sending : /\ chain'[k].at \in Unpushed => chain[k].at \in Unpushed
                         /\ chain'[k].at = "flying" => chain[k].at = "flying"
                         /\ chain'[k].msg = chain[k].msg
  OBVIOUS
<1>2. \A i \in DOMAIN sendQueue : sendQueue[i] \in Sending
  BY SeqElements
<1>3. \A i \in DOMAIN wire : wire[i].msg \in Sending
  <2>1. \A i \in DOMAIN wire : wire[i] \in [msg : Sending, whole : BOOLEAN]
    BY SeqElements
  <2>2. QED
    BY <2>1
<1>4. QED
  BY <1>1, <1>2, <1>3 DEF AllOnce

(* With one thread, whoever begins has it alone.                           *)
LEMMA NobodyOnThread ==
    ASSUME threads = 1, Write!Cardinality(Write!Running) < threads
    PROVE  \A k \in Sending : chain[k].at \notin OnThread
<1>1. Write!Cardinality(Write!Running) = Cardinality(Write!Running)
  BY DEF Write!Cardinality, Cardinality
<1>2. IsFiniteSet(Write!Sends)
  BY PostsAssumption, FS_Interval DEF Write!Sends
<1>3. IsFiniteSet(Write!Running)
  BY <1>2, FS_Subset DEF Write!Running
<1>4. Cardinality(Write!Running) < 1 /\ Cardinality(Write!Running) \in Nat
  BY <1>1, <1>3, FS_CardinalityType
<1>5. Write!Running = {}
  BY <1>3, <1>4, FS_EmptySet
<1>6. QED
  BY <1>5 DEF Write!Running, OnThread, Sending

LEMMA BeginStep ==
    ASSUME WriteInv, Write!Begin
    PROVE  WriteInv'
<1>1. WriteTypes /\ AllOnce /\ OneByOne /\ SomebodyWrites
  BY DEF WriteInv
<1>2. /\ begun < posted /\ Write!Goes(begun + 1, "test") /\ begun' = begun + 1
      /\ UNCHANGED <<threads, posted, sendQueue, wire, emptied, late, failed>>
  BY DEF Write!Begin
<1>3. PICK n \in Sending : n = begun + 1
  BY <1>1, <1>2, PostsAssumption DEF WriteTypes, Sending, Write!Sends
<1>4. /\ chain' \in [Sending -> [at : ChainPlaces, busy : BOOLEAN, msg : 0..MaxPosts]]
      /\ chain'[n].at = "test" /\ chain'[n].busy = chain[n].busy /\ chain'[n].msg = chain[n].msg
      /\ \A k \in Sending : k # n => chain'[k] = chain[k]
  BY <1>1, <1>2, <1>3, ChainMoves DEF ChainPlaces
<1>5. chain[n].at = "none"
  BY <1>1, <1>3 DEF WriteTypes
<1>6. WriteTypes'
  <2>1. \A k \in Sending : k # n => (k > begun <=> k > begun + 1)
    BY <1>1, <1>3 DEF WriteTypes, Sending, Write!Sends
  <2>2. begun' \in 0..posted' /\ posted' \in 0..MaxPosts
    BY <1>1, <1>2 DEF WriteTypes
  <2>3. ~(n > begun + 1)
    BY <1>1, <1>3 DEF WriteTypes, Sending, Write!Sends
  <2>4. QED
    BY <1>1, <1>2, <1>4, <2>1, <2>2, <2>3 DEF WriteTypes
<1>7. AllOnce'
  BY <1>1, <1>2, <1>4, <1>5, MovesOnce DEF WriteTypes, Unpushed
<1>8. threads = 1 => \A k \in Sending : chain[k].at \notin OnThread
  BY NobodyOnThread DEF Write!Begin
<1>9. OneByOne'
  BY <1>1, <1>2, <1>4, <1>5, <1>8 DEF OneByOne, OnThread
<1>10. SomebodyWrites'
  BY <1>1, <1>2, <1>4, <1>5 DEF SomebodyWrites, Writers
<1>11. QED
  BY <1>6, <1>7, <1>9, <1>10 DEF WriteInv

LEMMA TestStep ==
    ASSUME WriteInv, NEW n \in Sending, Write!Test(n)
    PROVE  WriteInv'
<1>1. WriteTypes /\ AllOnce /\ OneByOne /\ SomebodyWrites
  BY DEF WriteInv
<1>2. /\ chain[n].at = "test"
      /\ chain' = [chain EXCEPT ![n].at = "push", ![n].busy = (sendQueue # <<>>)]
      /\ UNCHANGED <<threads, posted, begun, sendQueue, wire, emptied, late, failed>>
  BY DEF Write!Test
<1>3. /\ chain' \in [Sending -> [at : ChainPlaces, busy : BOOLEAN, msg : 0..MaxPosts]]
      /\ chain'[n].at = "push" /\ (chain'[n].busy <=> sendQueue # <<>>) /\ chain'[n].msg = chain[n].msg
      /\ \A k \in Sending : k # n => chain'[k] = chain[k]
  BY <1>1, <1>2 DEF WriteTypes, ChainPlaces
<1>4. WriteTypes'
  BY <1>1, <1>2, <1>3 DEF WriteTypes
<1>5. AllOnce'
  BY <1>1, <1>2, <1>3, MovesOnce DEF WriteTypes, Unpushed
<1>6. OneByOne'
  BY <1>1, <1>2, <1>3 DEF OneByOne, OnThread
<1>7. SomebodyWrites'
  BY <1>1, <1>2, <1>3 DEF SomebodyWrites, Writers
<1>8. QED
  BY <1>4, <1>5, <1>6, <1>7 DEF WriteInv

LEMMA PushStep ==
    ASSUME WriteInv, NEW n \in Sending, Write!Push(n)
    PROVE  WriteInv'
<1>1. WriteTypes /\ AllOnce /\ OneByOne /\ SomebodyWrites
  BY DEF WriteInv
<1>2. /\ chain[n].at = "push" /\ sendQueue' = Append(sendQueue, n)
      /\ late' = IF chain[n].busy /\ sendQueue = <<>> THEN late \cup {n} ELSE late
      /\ UNCHANGED <<threads, posted, begun, wire, emptied, failed>>
  BY DEF Write!Push
<1>3. PICK to \in {"done", "pop"} : Write!Goes(n, to) /\ (to = "done" <=> chain[n].busy)
  BY DEF Write!Push
<1>4. /\ chain' \in [Sending -> [at : ChainPlaces, busy : BOOLEAN, msg : 0..MaxPosts]]
      /\ chain'[n].at = to /\ chain'[n].busy = chain[n].busy /\ chain'[n].msg = chain[n].msg
      /\ \A k \in Sending : k # n => chain'[k] = chain[k]
  BY <1>1, <1>3, ChainMoves DEF ChainPlaces
<1>5. PICK last : last = Len(sendQueue) + 1
  OBVIOUS
<1>6. /\ sendQueue' \in Seq(Sending)
      /\ DOMAIN sendQueue' = DOMAIN sendQueue \cup {last} /\ last \notin DOMAIN sendQueue
      /\ sendQueue'[last] = n /\ \A i \in DOMAIN sendQueue : sendQueue'[i] = sendQueue[i]
      /\ \A i \in DOMAIN sendQueue : sendQueue[i] \in Sending
      /\ (sendQueue # <<>> => 1 \in DOMAIN sendQueue) /\ (sendQueue = <<>> => sendQueue' = <<n>>)
  <2>1. sendQueue \in Seq(Sending)
    BY <1>1 DEF WriteTypes
  <2>2. QED
    BY <1>2, <1>5, <2>1, SeqAppend
<1>7. \A i \in DOMAIN wire : wire[i].msg \in Sending
  <2>1. \A i \in DOMAIN wire : wire[i] \in [msg : Sending, whole : BOOLEAN]
    BY <1>1, SeqElements DEF WriteTypes
  <2>2. QED
    BY <2>1
<1>8. WriteTypes'
  BY <1>1, <1>2, <1>4, <1>6, ZenonT(60) DEF WriteTypes
<1>9. AllOnce'
  <2>1. \A k \in Sending : /\ chain'[k].at \in Unpushed => chain[k].at \in Unpushed
                           /\ chain'[k].at = "flying" => chain[k].at = "flying"
                           /\ chain'[k].msg = chain[k].msg
    BY <1>2, <1>4 DEF Unpushed
  <2>2. chain[n].at \in Unpushed /\ chain'[n].at \notin Unpushed
    BY <1>2, <1>4 DEF Unpushed
  <2>3. \A i \in DOMAIN sendQueue : sendQueue[i] # n
    BY <1>1, <2>2 DEF AllOnce
  <2>4. \A i \in DOMAIN wire : wire[i].msg # n
    BY <1>1, <2>2 DEF AllOnce
  <2>5. \A k \in Sending : chain[k].at = "flying" => chain[k].msg # n
    BY <1>1, <2>2 DEF AllOnce
  <2>6. /\ \A i, j \in DOMAIN sendQueue' : sendQueue'[i] = sendQueue'[j] => i = j
        /\ \A i \in DOMAIN sendQueue' : chain'[sendQueue'[i]].at \notin Unpushed
        /\ \A i \in DOMAIN sendQueue', j \in DOMAIN wire : sendQueue'[i] # wire[j].msg
    BY <1>1, <1>6, <2>1, <2>2, <2>3, <2>4 DEF AllOnce
  <2>7. \A k \in Sending : chain'[k].at = "flying" =>
           \A i \in DOMAIN sendQueue' : sendQueue'[i] # chain'[k].msg
    BY <1>1, <1>6, <2>1, <2>5 DEF AllOnce
  <2>8. QED
    BY <1>1, <1>2, <1>7, <2>1, <2>6, <2>7 DEF AllOnce
<1>10. OneByOne'
  <2>1. SUFFICES ASSUME threads = 1 PROVE OneByOne'
    BY <1>2 DEF OneByOne
  <2>2. /\ ~chain[n].busy
        /\ \A k \in Sending : k # n => chain[k].at \notin OnThread
    BY <1>1, <1>2, <2>1 DEF OneByOne, OnThread
  <2>3. \A k \in Sending : chain[k].at # "pop"
    BY <1>2, <2>2 DEF OnThread
  <2>4. sendQueue = <<>>
    BY <1>1, <2>1, <2>3 DEF OneByOne
  <2>5. sendQueue' = <<n>> /\ to = "pop" /\ late' = late
    BY <1>2, <1>3, <1>6, <2>2, <2>4
  <2>6. QED
    BY <1>1, <1>2, <1>4, <2>1, <2>2, <2>3, <2>5 DEF OneByOne, OnThread
<1>11. SomebodyWrites'
  <2>1. CASE ~chain[n].busy
    BY <1>3, <1>4, <2>1 DEF SomebodyWrites, Writers
  <2>2. CASE chain[n].busy /\ sendQueue = <<>>
    <3>1. sendQueue'[1] = n /\ n \in late'
      BY <1>2, <1>6, <2>2
    <3>2. QED
      BY <3>1 DEF SomebodyWrites
  <2>3. CASE chain[n].busy /\ sendQueue # <<>>
    <3>1. late' = late /\ failed' = failed /\ sendQueue'[1] = sendQueue[1]
      BY <1>2, <1>6, <2>3
    <3>2. \A k \in Sending : chain[k].at \in Writers => chain'[k].at \in Writers
      BY <1>2, <1>4 DEF Writers
    <3>3. QED
      BY <1>1, <2>3, <3>1, <3>2 DEF SomebodyWrites
  <2>4. QED
    BY <2>1, <2>2, <2>3
<1>12. QED
  BY <1>8, <1>9, <1>10, <1>11 DEF WriteInv

LEMMA DoWriteStep ==
    ASSUME WriteInv, NEW n \in Sending, Write!do_write(n)
    PROVE  WriteInv'
<1>1. WriteTypes /\ AllOnce /\ OneByOne /\ SomebodyWrites
  BY DEF WriteInv
<1>2. /\ chain[n].at = "pop"
      /\ UNCHANGED <<threads, posted, begun, wire, late, failed>>
  BY DEF Write!do_write
<1>3. CASE sendQueue = <<>>
  <2>1. emptied' = TRUE /\ Write!Goes(n, "done") /\ sendQueue' = sendQueue
    BY <1>3 DEF Write!do_write
  <2>2. /\ chain' \in [Sending -> [at : ChainPlaces, busy : BOOLEAN, msg : 0..MaxPosts]]
        /\ chain'[n].at = "done" /\ chain'[n].busy = chain[n].busy /\ chain'[n].msg = chain[n].msg
        /\ \A k \in Sending : k # n => chain'[k] = chain[k]
    BY <1>1, <2>1, ChainMoves DEF ChainPlaces
  <2>3. WriteTypes'
    BY <1>1, <1>2, <2>1, <2>2 DEF WriteTypes
  <2>4. AllOnce'
    BY <1>1, <1>2, <2>1, <2>2, MovesOnce DEF WriteTypes, Unpushed
  <2>5. threads # 1
    BY <1>1, <1>2, <1>3 DEF OneByOne
  <2>6. OneByOne' /\ SomebodyWrites'
    BY <1>2, <1>3, <2>1, <2>5 DEF OneByOne, SomebodyWrites
  <2>7. QED
    BY <2>3, <2>4, <2>6 DEF WriteInv
<1>4. CASE sendQueue # <<>>
  <2>1. /\ chain' = [chain EXCEPT ![n].at = "flying", ![n].msg = Head(sendQueue)]
        /\ sendQueue' = Tail(sendQueue) /\ emptied' = emptied
    BY <1>4 DEF Write!do_write
  <2>2. sendQueue \in Seq(Sending) /\ wire \in Seq([msg : Sending, whole : BOOLEAN])
    BY <1>1 DEF WriteTypes
  <2>3. PICK m : m = Head(sendQueue)
    OBVIOUS
  <2>4. /\ Tail(sendQueue) \in Seq(Sending) /\ m \in Sending
        /\ 1 \in DOMAIN sendQueue /\ m = sendQueue[1]
        /\ \A i \in DOMAIN Tail(sendQueue) :
              i + 1 \in DOMAIN sendQueue /\ i \in Nat /\ i + 1 # 1 /\ Tail(sendQueue)[i] = sendQueue[i + 1]
    BY <1>4, <2>2, <2>3, SeqTail
  <2>5. /\ chain' \in [Sending -> [at : ChainPlaces, busy : BOOLEAN, msg : 0..MaxPosts]]
        /\ chain'[n].at = "flying" /\ chain'[n].busy = chain[n].busy /\ chain'[n].msg = m
        /\ \A k \in Sending : k # n => chain'[k] = chain[k]
    <3>1. m \in 0..MaxPosts
      BY <2>4, PostsAssumption DEF Sending, Write!Sends
    <3>2. QED
      BY <1>1, <2>1, <2>3, <3>1 DEF WriteTypes, ChainPlaces
  <2>6. WriteTypes'
    BY <1>1, <1>2, <2>1, <2>4, <2>5 DEF WriteTypes
  <2>7. AllOnce'
    <3>1. \A k \in Sending : /\ chain'[k].at \in Unpushed => chain[k].at \in Unpushed
                             /\ k # n => chain'[k].at = chain[k].at /\ chain'[k].msg = chain[k].msg
      BY <1>2, <2>5 DEF Unpushed
    <3>2. \A i \in DOMAIN wire : wire[i].msg \in Sending
      <4>1. \A i \in DOMAIN wire : wire[i] \in [msg : Sending, whole : BOOLEAN]
        BY <2>2, SeqElements
      <4>2. QED
        BY <4>1
    <3>3. \A i \in DOMAIN sendQueue : sendQueue[i] \in Sending
      BY <2>2, SeqElements
    <3>4. /\ \A i, j \in DOMAIN sendQueue' : sendQueue'[i] = sendQueue'[j] => i = j
          /\ \A i \in DOMAIN sendQueue' : chain'[sendQueue'[i]].at \notin Unpushed
          /\ \A i \in DOMAIN sendQueue', j \in DOMAIN wire : sendQueue'[i] # wire[j].msg
          /\ \A i \in DOMAIN sendQueue' : \E j \in DOMAIN sendQueue : sendQueue'[i] = sendQueue[j]
      <4>1. ASSUME NEW i \in DOMAIN sendQueue', NEW j \in DOMAIN sendQueue', sendQueue'[i] = sendQueue'[j]
            PROVE  i = j
        <5>1. i + 1 = j + 1 /\ i \in Nat /\ j \in Nat
          BY <1>1, <2>1, <2>4, <4>1 DEF AllOnce
        <5>2. QED
          BY <5>1
      <4>2. \A i \in DOMAIN sendQueue' : \E j \in DOMAIN sendQueue : sendQueue'[i] = sendQueue[j]
        BY <2>1, <2>4
      <4>3. QED
        BY <1>1, <3>1, <3>3, <4>1, <4>2 DEF AllOnce
    <3>5. /\ chain'[m].at \notin Unpushed
          /\ \A i \in DOMAIN sendQueue' : sendQueue'[i] # m
          /\ \A i \in DOMAIN wire : wire[i].msg # m
          /\ \A k \in Sending : chain[k].at = "flying" => chain[k].msg # m
      <4>1. chain'[m].at \notin Unpushed /\ \A i \in DOMAIN wire : wire[i].msg # m
        BY <1>1, <2>4, <3>1 DEF AllOnce
      <4>2. \A i \in DOMAIN sendQueue' : sendQueue'[i] # m
        BY <1>1, <2>1, <2>4 DEF AllOnce
      <4>3. \A k \in Sending : chain[k].at = "flying" => chain[k].msg # m
        BY <1>1, <2>4 DEF AllOnce
      <4>4. QED
        BY <4>1, <4>2, <4>3
    <3>6. ASSUME NEW k \in Sending, chain'[k].at = "flying"
          PROVE  /\ chain'[k].msg \in Sending /\ chain'[chain'[k].msg].at \notin Unpushed
                 /\ \A i \in DOMAIN sendQueue' : sendQueue'[i] # chain'[k].msg
                 /\ \A i \in DOMAIN wire : wire[i].msg # chain'[k].msg
      <4>1. CASE k = n
        BY <2>4, <2>5, <3>5, <4>1
      <4>2. CASE k # n
        BY <1>1, <3>1, <3>4, <3>6, <4>2 DEF AllOnce
      <4>3. QED
        BY <4>1, <4>2
    <3>7. \A k, l \in Sending :
             chain'[k].at = "flying" /\ chain'[l].at = "flying" /\ chain'[k].msg = chain'[l].msg => k = l
      BY <1>1, <2>5, <3>1, <3>5 DEF AllOnce
    <3>8. QED
      BY <1>1, <1>2, <3>1, <3>2, <3>4, <3>6, <3>7 DEF AllOnce
  <2>8. OneByOne'
    <3>1. SUFFICES ASSUME threads = 1 PROVE OneByOne'
      BY <1>2 DEF OneByOne
    <3>2. /\ sendQueue = <<n>>
          /\ \A k \in Sending : k # n => chain[k].at \notin OnThread
      BY <1>1, <1>2, <3>1 DEF OneByOne, OnThread
    <3>3. m = n /\ sendQueue' = <<>>
      BY <2>1, <2>3, <3>2
    <3>4. QED
      BY <1>1, <1>2, <2>1, <2>5, <3>1, <3>2, <3>3 DEF OneByOne, OnThread
  <2>9. SomebodyWrites'
    BY <2>5 DEF SomebodyWrites, Writers
  <2>10. QED
    BY <2>6, <2>7, <2>8, <2>9 DEF WriteInv
<1>5. QED
  BY <1>3, <1>4

LEMMA WrittenStep ==
    ASSUME WriteInv, NEW n \in Sending, Write!Written(n)
    PROVE  WriteInv'
<1>1. WriteTypes /\ AllOnce /\ OneByOne /\ SomebodyWrites
  BY DEF WriteInv
<1>2. /\ chain[n].at = "flying" /\ Write!Goes(n, "flown")
      /\ UNCHANGED <<threads, posted, begun, sendQueue, emptied, late, failed>>
  BY DEF Write!Written
<1>3. PICK whole \in BOOLEAN : wire' = Append(wire, [msg |-> chain[n].msg, whole |-> whole])
  BY DEF Write!Written
<1>4. /\ chain' \in [Sending -> [at : ChainPlaces, busy : BOOLEAN, msg : 0..MaxPosts]]
      /\ chain'[n].at = "flown" /\ chain'[n].busy = chain[n].busy /\ chain'[n].msg = chain[n].msg
      /\ \A k \in Sending : k # n => chain'[k] = chain[k]
  BY <1>1, <1>2, ChainMoves DEF ChainPlaces
<1>5. PICK last, w : last = Len(wire) + 1 /\ w = [msg |-> chain[n].msg, whole |-> whole]
  OBVIOUS
<1>6. chain[n].msg \in Sending /\ w \in [msg : Sending, whole : BOOLEAN]
  BY <1>1, <1>2, <1>5 DEF AllOnce
<1>7. /\ wire' \in Seq([msg : Sending, whole : BOOLEAN])
      /\ DOMAIN wire' = DOMAIN wire \cup {last} /\ last \notin DOMAIN wire
      /\ wire'[last] = w /\ \A i \in DOMAIN wire : wire'[i] = wire[i]
      /\ \A i \in DOMAIN wire : wire[i] \in [msg : Sending, whole : BOOLEAN]
  <2>1. wire \in Seq([msg : Sending, whole : BOOLEAN])
    BY <1>1 DEF WriteTypes
  <2>2. wire' = Append(wire, w)
    BY <1>3, <1>5
  <2>3. /\ Append(wire, w) \in Seq([msg : Sending, whole : BOOLEAN])
        /\ DOMAIN Append(wire, w) = DOMAIN wire \cup {last} /\ last \notin DOMAIN wire
        /\ Append(wire, w)[last] = w /\ \A i \in DOMAIN wire : Append(wire, w)[i] = wire[i]
        /\ \A i \in DOMAIN wire : wire[i] \in [msg : Sending, whole : BOOLEAN]
    <3> DEFINE R == [msg : Sending, whole : BOOLEAN]
    <3>1. w \in R /\ wire \in Seq(R)
      BY <1>6, <2>1
    <3> HIDE DEF R
    <3>2. /\ Append(wire, w) \in Seq(R)
          /\ DOMAIN Append(wire, w) = DOMAIN wire \cup {last} /\ last \notin DOMAIN wire
          /\ Append(wire, w)[last] = w /\ \A i \in DOMAIN wire : Append(wire, w)[i] = wire[i]
          /\ \A i \in DOMAIN wire : wire[i] \in R
      BY <1>5, <3>1, SeqAppend
    <3> USE DEF R
    <3>3. QED
      BY <3>2
  <2>4. QED
    BY <2>2, <2>3
<1>8. WriteTypes'
  BY <1>1, <1>2, <1>4, <1>7 DEF WriteTypes
<1>9. AllOnce'
  <2>1. \A k \in Sending : /\ chain'[k].at \in Unpushed => chain[k].at \in Unpushed
                           /\ chain'[k].at = "flying" => chain[k].at = "flying" /\ k # n
                           /\ chain'[k].msg = chain[k].msg
    BY <1>2, <1>4 DEF Unpushed
  <2>2. \A i \in DOMAIN sendQueue : sendQueue[i] \in Sending
    BY <1>1, SeqElements DEF WriteTypes
  <2>3. \A i \in DOMAIN wire : wire[i].msg \in Sending /\ wire'[i].msg = wire[i].msg
    BY <1>7
  <2>4. /\ wire'[last].msg = chain[n].msg /\ chain[chain[n].msg].at \notin Unpushed
        /\ \A i \in DOMAIN sendQueue : sendQueue[i] # chain[n].msg
        /\ \A i \in DOMAIN wire : wire[i].msg # chain[n].msg
    BY <1>1, <1>2, <1>5, <1>7 DEF AllOnce
  <2>5. /\ \A i, j \in DOMAIN wire' : wire'[i].msg = wire'[j].msg => i = j
        /\ \A i \in DOMAIN wire' : chain'[wire'[i].msg].at \notin Unpushed
        /\ \A i \in DOMAIN sendQueue, j \in DOMAIN wire' : sendQueue[i] # wire'[j].msg
    BY <1>1, <1>6, <1>7, <2>1, <2>3, <2>4 DEF AllOnce
  <2>6. ASSUME NEW k \in Sending, chain'[k].at = "flying", NEW i \in DOMAIN wire'
        PROVE  wire'[i].msg # chain'[k].msg
    <3>1. chain[k].at = "flying" /\ k # n /\ chain'[k].msg = chain[k].msg
      BY <2>1, <2>6
    <3>2. chain[k].msg # chain[n].msg
      BY <1>1, <1>2, <3>1 DEF AllOnce
    <3>3. QED
      BY <1>1, <1>7, <2>3, <2>4, <3>1, <3>2 DEF AllOnce
  <2>7. QED
    BY <1>1, <1>2, <2>1, <2>2, <2>5, <2>6 DEF AllOnce
<1>10. OneByOne'
  BY <1>1, <1>2, <1>4 DEF OneByOne, OnThread
<1>11. SomebodyWrites'
  BY <1>4 DEF SomebodyWrites, Writers
<1>12. QED
  BY <1>8, <1>9, <1>10, <1>11 DEF WriteInv

LEMMA CompletionStep ==
    ASSUME WriteInv, NEW n \in Sending,
           Write!WriteFails(n) \/ Write!Complete(n) \/ Write!WriteNext(n)
    PROVE  WriteInv'
<1>1. WriteTypes /\ AllOnce /\ OneByOne /\ SomebodyWrites
  BY DEF WriteInv
<1>2. UNCHANGED <<threads, posted, begun, sendQueue, wire, emptied, late>>
  BY DEF Write!WriteFails, Write!Complete, Write!WriteNext
<1>3. PICK to \in {"done", "wrote", "pop"} :
         /\ Write!Goes(n, to)
         /\ chain[n].at \in {"flying", "flown", "wrote"}
         /\ (to = "done" => failed' = TRUE \/ sendQueue = <<>>)
         /\ (to = "wrote" => chain[n].at = "flown" /\ Write!Complete(n))
         /\ (to = "pop" => chain[n].at = "wrote" /\ sendQueue # <<>>)
         /\ (failed => failed')
  BY DEF Write!WriteFails, Write!Complete, Write!WriteNext
<1>4. /\ chain' \in [Sending -> [at : ChainPlaces, busy : BOOLEAN, msg : 0..MaxPosts]]
      /\ chain'[n].at = to /\ chain'[n].busy = chain[n].busy /\ chain'[n].msg = chain[n].msg
      /\ \A k \in Sending : k # n => chain'[k] = chain[k]
  BY <1>1, <1>3, ChainMoves DEF ChainPlaces
<1>5. WriteTypes'
  BY <1>1, <1>2, <1>3, <1>4 DEF WriteTypes
<1>6. AllOnce'
  BY <1>1, <1>2, <1>3, <1>4, MovesOnce DEF WriteTypes, Unpushed
<1>7. OneByOne'
  <2>1. SUFFICES ASSUME threads = 1 PROVE OneByOne'
    BY <1>2 DEF OneByOne
  <2>2. to = "wrote" => \A k \in Sending : chain[k].at \notin OnThread
    BY <1>3, <2>1, NobodyOnThread DEF Write!Complete
  <2>3. to # "pop"
    <3>1. ASSUME to = "pop" PROVE FALSE
      <4>1. chain[n].at = "wrote" /\ sendQueue # <<>>
        BY <1>3, <3>1
      <4>2. \A k \in Sending : chain[k].at # "pop"
        BY <1>1, <2>1, <4>1 DEF OneByOne, OnThread
      <4>3. QED
        BY <1>1, <2>1, <4>1, <4>2 DEF OneByOne
    <3>2. QED
      BY <3>1
  <2>4. QED
    BY <1>1, <1>2, <1>3, <1>4, <2>1, <2>2, <2>3 DEF OneByOne, OnThread
<1>8. SomebodyWrites'
  <2>1. CASE to = "done"
    BY <1>2, <1>3, <2>1 DEF SomebodyWrites
  <2>2. CASE to # "done"
    BY <1>4, <2>2 DEF SomebodyWrites, Writers
  <2>3. QED
    BY <2>1, <2>2
<1>9. QED
  BY <1>5, <1>6, <1>7, <1>8 DEF WriteInv

LEMMA WriteNext == WriteInv /\ [Write!Next]_(Write!writeVars) => WriteInv'
<1> SUFFICES ASSUME WriteInv, [Write!Next]_(Write!writeVars)
             PROVE  WriteInv'
  OBVIOUS
<1>1. CASE UNCHANGED Write!writeVars
  BY <1>1 DEF Write!writeVars, WriteInv, WriteTypes, AllOnce, OneByOne, SomebodyWrites
<1>2. CASE Write!Send
  <2>1. posted' \in 0..MaxPosts /\ begun' \in 0..posted'
    BY <1>2, PostsAssumption DEF Write!Send, WriteInv, WriteTypes
  <2>2. QED
    BY <1>2, <2>1 DEF Write!Send, WriteInv, WriteTypes, AllOnce, OneByOne, SomebodyWrites
<1>3. QED
  BY <1>1, <1>2, BeginStep, TestStep, PushStep, DoWriteStep, WrittenStep, CompletionStep
     DEF Write!Next, Sending

(* For any number of messages and io threads: no message is given to the   *)
(* socket twice; with one io thread each is given to it by its own         *)
(* handler; and when nobody writes any more, messages are left in the      *)
(* queue only after an error or behind one pushed after the last writer    *)
(* had looked (send, do_write and the handler of async_write).             *)
THEOREM WritesExplainedTheorem == Spec => []WritesExplained
<1>1. Init => WriteInv
  BY WriteInit DEF Init
<1>2. WriteInv => WritesExplained
  <2> SUFFICES ASSUME WriteInv PROVE Write!WritesExplained
    BY DEF WritesExplained
  <2>1. WriteTypes /\ AllOnce /\ OneByOne /\ SomebodyWrites
    BY DEF WriteInv
  <2>2. Write!IsInjective([i \in DOMAIN wire |-> wire[i].msg])
    BY <2>1 DEF AllOnce, Write!IsInjective
  <2>3. Write!OnWire \cap Write!Range(sendQueue) = {}
    BY <2>1 DEF AllOnce, Write!OnWire, Write!Range
  <2>4. threads = 1 => /\ ~emptied /\ late = {} /\ Len(sendQueue) <= 1
                       /\ \A n \in Write!Sends : chain[n].msg \in {0, n}
    <3>1. ASSUME threads = 1 PROVE Len(sendQueue) <= 1
      <4>1. CASE sendQueue = <<>>
        BY <4>1
      <4>2. CASE \E n \in Sending : sendQueue = <<n>>
        BY <4>2
      <4>3. QED
        BY <2>1, <3>1, <4>1, <4>2 DEF OneByOne
    <3>2. QED
      BY <2>1, <3>1 DEF OneByOne, Sending
  <2>5. (Write!Asleep /\ sendQueue # <<>>) => sendQueue[1] \in late \/ failed
    BY <2>1 DEF SomebodyWrites, Write!Asleep, Writers, Sending
  <2>6. QED
    BY <2>2, <2>3, <2>4, <2>5 DEF Write!WritesExplained
<1>3. ASSUME [Next]_partsVars PROVE [Write!Next]_(Write!writeVars)
  BY <1>3 DEF Next, SerialStep, WindowStep, PoolStep, ConversionStep, ClockStep, FilmStep,
         ResizeStep, WriteStep, ChatStep, ServiceStep, UtilityStep, partsVars, toolOnes,
         playerOnes, netOnes, writeOnes, Write!writeVars
<1>4. QED
  BY <1>1, <1>2, <1>3, WriteNext, PTL DEF Spec

----------------------------------------------------------------------------
(***************************************************************************)
(* The older chat program.  What is told to a client is true when it is    *)
(* told, and stays true: connections, sessions and tables only grow.       *)
(***************************************************************************)
ChatKinds == {"login", "chat"}
ChatSteps == {"verify", "set_online", "set_id", "answer", "get_id", "is_online", "transmit"}
Asked == [n : Nat, kind : ChatKinds, user : Users, long : BOOLEAN]
Told == [kind : {"login", "feedback", "chat"}, user : Users, ok : BOOLEAN]
Connection == [client : Clients, up : BOOLEAN, toServer : Seq(Asked), toClient : Seq(Told)]
Posted == [m : Asked, from : Nat \ {0}]
IoThread ==
    [m : Asked, from : Nat \ {0}, at : ChatSteps, to : Int, ok : BOOLEAN, told : BOOLEAN]

ChatTypes ==
    /\ known \subseteq Users /\ answered \subseteq Users /\ chats \in Nat
    /\ isOnline \in [Users -> BOOLEAN] /\ id \in [Users -> Int]
    /\ logged \in [Users -> Seq(Nat \ {0})]
    /\ conns \in Seq(Connection) /\ completed \subseteq DOMAIN conns
    /\ handlers \in Seq(Posted) /\ threadsAt \subseteq IoThread
    /\ session0 \in [Clients -> Nat] /\ is_connected \in [Clients -> BOOLEAN]
    /\ logining \in [Clients -> Users \cup {NoUser}]
    /\ \A s \in strays : s.user \in Users

(* c is the connection its client sends everything on.                     *)
OnFirst(c) == c \in DOMAIN conns /\ session0[conns[c].client] = c
LoggedOn(u, c) == c \in Chat!Range(logged[u])

(* An id read from the table is that of a connection, or of none yet.      *)
SomeId(n) == n = Chat!NoSession \/ n = 0 \/ n + 1 \in DOMAIN conns

SentOnFirst ==
    /\ \A c \in DOMAIN conns : conns[c].toServer # <<>> => OnFirst(c)
    /\ \A i \in DOMAIN handlers : OnFirst(handlers[i].from)

(* A login that was accepted has been entered before it is answered.       *)
Accepted(c, m) == m.kind = "login" /\ m.ok => OnFirst(c) /\ LoggedOn(m.user, c)
AnswersTrue ==
    \A c \in DOMAIN conns : \A i \in DOMAIN conns[c].toClient :
        Accepted(c, conns[c].toClient[i])

LoginKnows(t) ==
    /\ t.at \in {"verify", "set_online", "set_id", "answer"}
    /\ t.at = "verify" => ~t.ok
    /\ t.at = "set_id" \/ (t.at = "answer" /\ t.ok) =>
          t.m.user \in known /\ isOnline[t.m.user]
    /\ t.at = "answer" /\ t.ok => LoggedOn(t.m.user, t.from)
ChatKnows(t) ==
    /\ t.at \in {"get_id", "is_online", "transmit", "answer"}
    /\ t.at \in {"is_online", "transmit"} =>
          /\ t.m.n \in fresh \/ LoggedOn(t.m.user, t.to + 1)
          /\ SomeId(t.to)
    /\ t.told => t.m.user \in answered
    /\ t.told /\ t.at = "answer" => t.ok
ThreadKnows(t) ==
    /\ OnFirst(t.from)
    /\ t.m.kind = "login" => LoginKnows(t)
    /\ t.m.kind = "chat" => ChatKnows(t)

TablesTrue ==
    /\ \A u \in answered : u \in known /\ isOnline[u]
    /\ \A u \in Users : logged[u] # <<>> => LoggedOn(u, id[u] + 1)
    /\ \A u \in Users : SomeId(id[u])

Routed ==
    /\ \A s \in strays : s.n \in fresh \/ LoggedOn(s.user, s.got)
    /\ crashed => \E t \in threadsAt : t.at = "transmit" /\ t.m.n \in fresh

Believed ==
    /\ \A k \in Clients :
          /\ session0[k] # 0 => session0[k] \in completed /\ conns[session0[k]].client = k
          /\ is_connected[k] => session0[k] # 0
          /\ logining[k] # NoUser => LoggedOn(logining[k], session0[k])
    /\ misled = {}

ChatInv ==
    /\ ChatTypes /\ SentOnFirst /\ AnswersTrue
    /\ \A t \in threadsAt : ThreadKnows(t)
    /\ TablesTrue /\ Routed /\ Believed

LEMMA RemovedAt ==
    ASSUME NEW S, NEW s \in Seq(S), NEW i \in DOMAIN s
    PROVE  /\ Chat!Without(s, i) \in Seq(S)
           /\ \A j \in DOMAIN Chat!Without(s, i) : \E k \in DOMAIN s : Chat!Without(s, i)[j] = s[k]
<1> DEFINE a == SubSeq(s, 1, i - 1)
           b == SubSeq(s, i + 1, Len(s))
<1>1. i \in 1..Len(s) /\ Len(s) \in Nat /\ DOMAIN s = 1..Len(s)
  OBVIOUS
<1>2. a \in Seq(S) /\ Len(a) = i - 1 /\ \A j \in 1..(i - 1) : a[j] = s[j]
  BY <1>1
<1>3. b \in Seq(S) /\ Len(b) = Len(s) - i /\ \A j \in 1..(Len(s) - i) : b[j] = s[i + j]
  BY <1>1
<1>4. Chat!Without(s, i) = a \o b
  BY DEF Chat!Without
<1> HIDE DEF a, b
<1>5. /\ a \o b \in Seq(S) /\ Len(a \o b) = Len(a) + Len(b)
      /\ \A j \in 1..Len(a) + Len(b) : (a \o b)[j] = IF j <= Len(a) THEN a[j] ELSE b[j - Len(a)]
  BY <1>2, <1>3, ConcatProperties
<1>6. Len(a) + Len(b) = Len(s) - 1
  BY <1>1, <1>2, <1>3
<1>7. DOMAIN (a \o b) = 1..(Len(s) - 1)
  BY <1>5, <1>6
<1>8. ASSUME NEW j \in 1..(Len(s) - 1)
      PROVE  \E k \in DOMAIN s : (a \o b)[j] = s[k]
  <2>1. (a \o b)[j] = IF j <= i - 1 THEN a[j] ELSE b[j - (i - 1)]
    BY <1>2, <1>5, <1>6
  <2>2. CASE j <= i - 1
    BY <1>1, <1>2, <2>1, <2>2
  <2>3. CASE ~(j <= i - 1)
    <3>1. j - (i - 1) \in 1..(Len(s) - i) /\ i + (j - (i - 1)) = j + 1 /\ j + 1 \in DOMAIN s
      BY <1>1, <2>3
    <3>2. (a \o b)[j] = s[j + 1]
      BY <1>3, <2>1, <2>3, <3>1
    <3>3. QED
      BY <3>1, <3>2
  <2>4. QED
    BY <2>2, <2>3
<1>9. QED
  BY <1>4, <1>5, <1>7, <1>8

(* A connection changed: one of its two queues.                            *)
LEMMA ConnTold ==
    ASSUME ChatTypes, NEW c \in DOMAIN conns, NEW q \in Seq(Told),
           conns' = [conns EXCEPT ![c].toClient = q]
    PROVE  /\ conns' \in Seq(Connection) /\ DOMAIN conns' = DOMAIN conns
           /\ \A d \in DOMAIN conns :
                 /\ conns'[d].client = conns[d].client
                 /\ conns'[d].toServer = conns[d].toServer
                 /\ conns'[d].toClient = IF d = c THEN q ELSE conns[d].toClient
<1>1. /\ Len(conns) \in Nat /\ DOMAIN conns = 1..Len(conns)
      /\ \A d \in DOMAIN conns : conns[d] \in Connection
  BY SeqElements DEF ChatTypes
<1>2. PICK r : r = [conns[c] EXCEPT !.toClient = q]
  OBVIOUS
<1>3. r \in Connection
  BY <1>1, <1>2 DEF Connection
<1>4. conns' = [conns EXCEPT ![c] = r]
  BY <1>2
<1>5. conns' \in Seq(Connection) /\ DOMAIN conns' = DOMAIN conns
  <2>1. conns \in Seq(Connection) /\ c \in 1..Len(conns)
    BY <1>1 DEF ChatTypes
  <2>2. [conns EXCEPT ![c] = r] \in Seq(Connection)
    BY <1>3, <2>1, ExceptSeq
  <2>3. DOMAIN [conns EXCEPT ![c] = r] = DOMAIN conns
    OBVIOUS
  <2>4. QED
    BY <1>4, <2>2, <2>3
<1>6. ASSUME NEW d \in DOMAIN conns
      PROVE  /\ conns'[d].client = conns[d].client
             /\ conns'[d].toServer = conns[d].toServer
             /\ conns'[d].toClient = IF d = c THEN q ELSE conns[d].toClient
  BY <1>1, <1>2, <1>4 DEF Connection
<1>7. QED
  BY <1>5, <1>6

LEMMA ConnAsked ==
    ASSUME ChatTypes, NEW c \in DOMAIN conns, NEW q \in Seq(Asked),
           conns' = [conns EXCEPT ![c].toServer = q]
    PROVE  /\ conns' \in Seq(Connection) /\ DOMAIN conns' = DOMAIN conns
           /\ \A d \in DOMAIN conns :
                 /\ conns'[d].client = conns[d].client
                 /\ conns'[d].toServer = IF d = c THEN q ELSE conns[d].toServer
                 /\ conns'[d].toClient = conns[d].toClient
<1>1. /\ Len(conns) \in Nat /\ DOMAIN conns = 1..Len(conns)
      /\ \A d \in DOMAIN conns : conns[d] \in Connection
  BY SeqElements DEF ChatTypes
<1>2. PICK r : r = [conns[c] EXCEPT !.toServer = q]
  OBVIOUS
<1>3. r \in Connection
  BY <1>1, <1>2 DEF Connection
<1>4. conns' = [conns EXCEPT ![c] = r]
  BY <1>2
<1>5. conns' \in Seq(Connection) /\ DOMAIN conns' = DOMAIN conns
  <2>1. conns \in Seq(Connection) /\ c \in 1..Len(conns)
    BY <1>1 DEF ChatTypes
  <2>2. [conns EXCEPT ![c] = r] \in Seq(Connection)
    BY <1>3, <2>1, ExceptSeq
  <2>3. DOMAIN [conns EXCEPT ![c] = r] = DOMAIN conns
    OBVIOUS
  <2>4. QED
    BY <1>4, <2>2, <2>3
<1>6. ASSUME NEW d \in DOMAIN conns
      PROVE  /\ conns'[d].client = conns[d].client
             /\ conns'[d].toServer = IF d = c THEN q ELSE conns[d].toServer
             /\ conns'[d].toClient = conns[d].toClient
  BY <1>1, <1>2, <1>4 DEF Connection
<1>7. QED
  BY <1>5, <1>6

LEMMA ConnFacts ==
    ASSUME ChatTypes
    PROVE  /\ Len(conns) \in Nat /\ DOMAIN conns = 1..Len(conns)
           /\ \A c \in DOMAIN conns :
                 /\ conns[c] \in Connection /\ conns[c].client \in Clients /\ conns[c].up \in BOOLEAN
                 /\ conns[c].toServer \in Seq(Asked) /\ conns[c].toClient \in Seq(Told)
                 /\ c # 0 /\ c \in Nat
<1>1. /\ Len(conns) \in Nat /\ DOMAIN conns = 1..Len(conns)
      /\ \A d \in DOMAIN conns : conns[d] \in Connection
  BY SeqElements DEF ChatTypes
<1>2. QED
  BY <1>1 DEF Connection

(* Connections, sessions and tables only grow: what a thread knows, and    *)
(* what an answer says, stays true.                                        *)
Growing ==
    /\ DOMAIN conns \subseteq DOMAIN conns'
    /\ \A c \in DOMAIN conns : conns'[c].client = conns[c].client
    /\ \A k \in Clients : session0[k] # 0 => session0'[k] = session0[k]
    /\ \A u \in Users : \A c : LoggedOn(u, c) => LoggedOn(u, c)'
    /\ known \subseteq known' /\ answered \subseteq answered' /\ fresh \subseteq fresh'
    /\ \A u \in Users : isOnline[u] => isOnline'[u]

LEMMA FirstStays ==
    ASSUME ChatTypes, Growing
    PROVE  /\ \A c : OnFirst(c) => OnFirst(c)'
           /\ \A n : SomeId(n) => SomeId(n)'
  BY ConnFacts DEF Growing, OnFirst, SomeId

LEMMA KnowledgeStays ==
    ASSUME ChatTypes, Growing
    PROVE  /\ \A t \in IoThread : ThreadKnows(t) => ThreadKnows(t)'
           /\ \A c : \A m \in Told : Accepted(c, m) => Accepted(c, m)'
<1>1. ASSUME NEW t \in IoThread, ThreadKnows(t) PROVE ThreadKnows(t)'
  <2>1. t.m.user \in Users
    BY DEF IoThread, Asked
  <2> HIDE DEF IoThread
  <2>2. OnFirst(t.from)'
    BY <1>1, FirstStays DEF ThreadKnows
  <2>3. ASSUME LoginKnows(t) PROVE LoginKnows(t)'
    BY <2>1, <2>3 DEF LoginKnows, Growing
  <2>4. ASSUME ChatKnows(t) PROVE ChatKnows(t)'
    BY <2>1, <2>4, FirstStays DEF ChatKnows, Growing
  <2>5. QED
    BY <1>1, <2>2, <2>3, <2>4 DEF ThreadKnows
<1>2. ASSUME NEW c, NEW m \in Told, Accepted(c, m) PROVE Accepted(c, m)'
  <2>1. m.user \in Users
    BY DEF Told
  <2>2. QED
    BY <1>2, <2>1, FirstStays DEF Accepted, Growing
<1>3. QED
  BY <1>1, <1>2

LEMMA ThreadsKeep ==
    ASSUME ChatInv, Growing, \A t \in threadsAt' : t \in threadsAt \/ ThreadKnows(t)'
    PROVE  \A t \in threadsAt' : ThreadKnows(t)'
  BY KnowledgeStays DEF ChatInv, ChatTypes

LEMMA QueuesKeep ==
    ASSUME ChatInv, Growing, UNCHANGED conns,
           \A i \in DOMAIN handlers' :
              \/ OnFirst(handlers'[i].from)
              \/ \E j \in DOMAIN handlers : handlers'[i] = handlers[j]
    PROVE  SentOnFirst' /\ AnswersTrue'
<1>1. SentOnFirst'
  BY FirstStays DEF ChatInv, SentOnFirst
<1>2. ASSUME NEW c \in DOMAIN conns, NEW i \in DOMAIN conns[c].toClient
      PROVE  Accepted(c, conns[c].toClient[i])'
  <2>1. PICK m : m = conns[c].toClient[i]
    OBVIOUS
  <2>2. m \in Told
    <3>1. conns[c].toClient \in Seq(Told)
      BY ConnFacts DEF ChatInv
    <3>2. QED
      BY <2>1, <3>1, SeqElements
  <2>3. Accepted(c, m)
    BY <2>1 DEF ChatInv, AnswersTrue
  <2>4. Accepted(c, m)'
    BY <2>2, <2>3, KnowledgeStays DEF ChatInv
  <2>5. QED
    BY <2>1, <2>4
<1>3. QED
  BY <1>1, <1>2 DEF AnswersTrue

LEMMA TablesKeep ==
    ASSUME ChatInv, Growing, UNCHANGED <<known, isOnline, id, logged, answered>>
    PROVE  TablesTrue'
  BY FirstStays DEF ChatInv, TablesTrue, LoggedOn

LEMMA RoutedKeeps ==
    ASSUME ChatInv, Growing, UNCHANGED strays, ~crashed'
    PROVE  Routed'
  BY DEF ChatInv, ChatTypes, Routed, Growing

LEMMA BelievedKeeps ==
    ASSUME ChatInv, Growing,
           UNCHANGED <<completed, session0, is_connected, logining, misled>>
    PROVE  Believed'
<1>1. ASSUME NEW k \in Clients, logining[k] # NoUser, logining[k] \in Users
      PROVE  LoggedOn(logining[k], session0[k])'
  BY <1>1 DEF ChatInv, Believed, Growing
<1>2. QED
  BY <1>1, ZenonT(60) DEF ChatInv, ChatTypes, Believed, Growing

LEMMA AnswersKeep ==
    ASSUME ChatInv, Growing,
           \A c \in DOMAIN conns' : \A i \in DOMAIN conns'[c].toClient :
              \/ \E m : m = conns'[c].toClient[i] /\ Accepted(c, m)'
              \/ /\ c \in DOMAIN conns
                 /\ \E j \in DOMAIN conns[c].toClient : conns'[c].toClient[i] = conns[c].toClient[j]
    PROVE  AnswersTrue'
<1>1. ASSUME NEW c \in DOMAIN conns, NEW j \in DOMAIN conns[c].toClient
      PROVE  \E m : m = conns[c].toClient[j] /\ Accepted(c, m)'
  <2>1. PICK m : m = conns[c].toClient[j]
    OBVIOUS
  <2>2. m \in Told
    <3>1. conns[c].toClient \in Seq(Told)
      BY ConnFacts DEF ChatInv
    <3>2. QED
      BY <2>1, <3>1, SeqElements
  <2>3. Accepted(c, m)
    BY <2>1 DEF ChatInv, AnswersTrue
  <2>4. Accepted(c, m)'
    BY <2>2, <2>3, KnowledgeStays DEF ChatInv
  <2>5. QED
    BY <2>1, <2>4
<1>2. ASSUME NEW c \in DOMAIN conns', NEW i \in DOMAIN conns'[c].toClient
      PROVE  Accepted(c, conns[c].toClient[i])'
  <2>1. CASE \E m : m = conns'[c].toClient[i] /\ Accepted(c, m)'
    BY <2>1 DEF Accepted
  <2>2. CASE /\ c \in DOMAIN conns
             /\ \E j \in DOMAIN conns[c].toClient : conns'[c].toClient[i] = conns[c].toClient[j]
    <3>1. PICK j \in DOMAIN conns[c].toClient : conns'[c].toClient[i] = conns[c].toClient[j]
      BY <2>2
    <3>2. PICK m : m = conns[c].toClient[j] /\ Accepted(c, m)'
      BY <1>1, <2>2
    <3>3. QED
      BY <3>1, <3>2 DEF Accepted
  <2>3. QED
    BY <2>1, <2>2
<1>3. QED
  BY <1>2 DEF AnswersTrue

LEMMA HandlersKeep ==
    ASSUME ChatInv, Growing, UNCHANGED handlers,
           \A c \in DOMAIN conns' : conns'[c].toServer # <<>> => OnFirst(c)'
    PROVE  SentOnFirst'
  BY FirstStays DEF ChatInv, SentOnFirst

LEMMA PutConns ==
    ASSUME ChatTypes, NEW c \in DOMAIN conns, NEW m \in Told, Chat!Put(c, m)
    PROVE  /\ conns' \in Seq(Connection) /\ DOMAIN conns' = DOMAIN conns
           /\ \A d \in DOMAIN conns :
                 /\ conns'[d].client = conns[d].client
                 /\ conns'[d].toServer = conns[d].toServer
                 /\ \A i \in DOMAIN conns'[d].toClient :
                       \/ d = c /\ conns'[d].toClient[i] = m
                       \/ \E j \in DOMAIN conns[d].toClient :
                             conns'[d].toClient[i] = conns[d].toClient[j]
<1>1. CASE ~conns[c].up
  <2>1. conns' = conns
    BY <1>1 DEF Chat!Put
  <2>2. QED
    BY <2>1 DEF ChatTypes
<1>2. CASE conns[c].up
  <2>1. PICK q : q = Append(conns[c].toClient, m)
    OBVIOUS
  <2>2. conns' = [conns EXCEPT ![c].toClient = q]
    BY <1>2, <2>1 DEF Chat!Put
  <2>3. conns[c].toClient \in Seq(Told)
    BY ConnFacts
  <2>4. /\ q \in Seq(Told)
        /\ \A i \in DOMAIN q :
              q[i] = m \/ \E j \in DOMAIN conns[c].toClient : q[i] = conns[c].toClient[j]
    BY <2>1, <2>3, SeqAppend
  <2>5. /\ conns' \in Seq(Connection) /\ DOMAIN conns' = DOMAIN conns
        /\ \A d \in DOMAIN conns :
              /\ conns'[d].client = conns[d].client
              /\ conns'[d].toServer = conns[d].toServer
              /\ conns'[d].toClient = IF d = c THEN q ELSE conns[d].toClient
    BY <2>2, <2>4, ConnTold
  <2>6. QED
    BY <2>4, <2>5
<1>3. QED
  BY <1>1, <1>2

LEMMA ThreadsMove ==
    ASSUME NEW t \in IoThread, NEW a \in ChatSteps, NEW n \in Int
    PROVE  /\ [t EXCEPT !.at = a] \in IoThread
           /\ [t EXCEPT !.at = a, !.ok = TRUE] \in IoThread
           /\ [t EXCEPT !.at = a, !.to = n] \in IoThread
<1>1. [t EXCEPT !.at = a] \in IoThread
  BY DEF IoThread
<1>2. [t EXCEPT !.at = a, !.ok = TRUE] \in IoThread
  BY DEF IoThread
<1>3. [t EXCEPT !.at = a, !.to = n] \in IoThread
  BY DEF IoThread
<1>4. QED
  BY <1>1, <1>2, <1>3

(* What a step of an io thread leaves alone.                               *)
ServerRest == <<handlers, conns, completed, session0, is_connected, logining, chats>>

(* What an io thread's next step changes, if it sends nothing.             *)
LEMMA ThreadSteps ==
    ASSUME ChatInv, Growing, NEW t \in threadsAt, NEW S, S \subseteq IoThread,
           Chat!Becomes(t, S), \A s \in S : ThreadKnows(s)', UNCHANGED ServerRest
    PROVE  /\ threadsAt' \subseteq IoThread /\ \A s \in threadsAt' : ThreadKnows(s)'
           /\ SentOnFirst' /\ AnswersTrue'
<1>1. threadsAt' \subseteq IoThread
  BY DEF Chat!Becomes, ChatInv, ChatTypes
<1>2. \A s \in threadsAt' : s \in threadsAt \/ ThreadKnows(s)'
  BY DEF Chat!Becomes
<1>3. SentOnFirst' /\ AnswersTrue'
  BY QueuesKeep DEF ServerRest
<1>4. QED
  BY <1>1, <1>2, <1>3, ThreadsKeep

LEMMA LogsGrow ==
    ASSUME ChatTypes, NEW u \in Users, NEW c \in Nat \ {0},
           logged' = [logged EXCEPT ![u] = Append(@, c)]
    PROVE  /\ logged' \in [Users -> Seq(Nat \ {0})]
           /\ \A v \in Users : \A d : LoggedOn(v, d)' <=> LoggedOn(v, d) \/ (v = u /\ d = c)
<1>1. \A v \in Users : logged'[v] = IF v = u THEN Append(logged[u], c) ELSE logged[v]
  BY DEF ChatTypes
<1>2. logged[u] \in Seq(Nat \ {0})
  BY DEF ChatTypes
<1>3. PICK q : q = Append(logged[u], c)
  OBVIOUS
<1>4. /\ q \in Seq(Nat \ {0}) /\ DOMAIN q = DOMAIN logged[u] \cup {Len(logged[u]) + 1}
      /\ q[Len(logged[u]) + 1] = c /\ \A i \in DOMAIN logged[u] : q[i] = logged[u][i]
  BY <1>2, <1>3, SeqAppend
<1>5. logged' \in [Users -> Seq(Nat \ {0})]
  BY <1>3, <1>4 DEF ChatTypes
<1>6. ASSUME NEW v \in Users, NEW d
      PROVE  LoggedOn(v, d)' <=> LoggedOn(v, d) \/ (v = u /\ d = c)
  <2>1. CASE v = u
    <3>1. logged'[v] = q
      BY <1>1, <1>3, <2>1
    <3>2. LoggedOn(v, d)' <=> \E i \in DOMAIN q : q[i] = d
      BY <3>1 DEF LoggedOn, Chat!Range
    <3>3. LoggedOn(v, d) <=> \E i \in DOMAIN logged[u] : logged[u][i] = d
      BY <2>1 DEF LoggedOn, Chat!Range
    <3>4. QED
      BY <1>4, <2>1, <3>2, <3>3
  <2>2. CASE v # u
    BY <1>1, <2>2 DEF LoggedOn, Chat!Range
  <2>3. QED
    BY <2>1, <2>2
<1>7. QED
  BY <1>5, <1>6

LEMMA ChatInit == Chat!Init => ChatInv
<1> SUFFICES ASSUME Chat!Init PROVE ChatInv
  OBVIOUS
<1>1. ChatTypes
  BY DEF Chat!Init, ChatTypes, Chat!NoSession
<1>2. SentOnFirst /\ AnswersTrue /\ threadsAt = {} /\ Routed /\ Believed
  BY DEF Chat!Init, SentOnFirst, AnswersTrue, Routed, Believed
<1>3. TablesTrue
  BY DEF Chat!Init, TablesTrue, SomeId, Chat!NoSession
<1>4. QED
  BY <1>1, <1>2, <1>3 DEF ChatInv

LEMMA ConnectKeeps == ASSUME ChatInv, NEW k \in Clients, Chat!Connect(k) PROVE ChatInv'
<1> USE DEF Chat!serverVars, Chat!tablesOfServer, Chat!clientVars, Chat!storyVars
<1>1. PICK r : r = [client |-> k, up |-> TRUE, toServer |-> <<>>, toClient |-> <<>>]
  OBVIOUS
<1>2. /\ r \in Connection /\ r.client = k /\ r.toServer = <<>> /\ r.toClient = <<>>
      /\ conns' = Append(conns, r) /\ conns \in Seq(Connection) /\ ~crashed'
  BY <1>1 DEF Connection, Chat!Connect, ChatInv, ChatTypes
<1>3. /\ conns' \in Seq(Connection) /\ DOMAIN conns' = DOMAIN conns \cup {Len(conns) + 1}
      /\ conns'[Len(conns) + 1] = r /\ \A d \in DOMAIN conns : conns'[d] = conns[d]
  BY <1>2, SeqAppend
<1>4. ChatTypes'
  BY <1>3 DEF ChatInv, ChatTypes, Chat!Connect
<1>5. Growing
  BY <1>3 DEF Chat!Connect, Growing, LoggedOn
<1>6. SentOnFirst'
  <2>1. \A c \in DOMAIN conns' : conns'[c].toServer # <<>> => OnFirst(c)'
    BY <1>2, <1>3, <1>5, FirstStays DEF ChatInv, SentOnFirst
  <2>2. QED
    BY <1>5, <2>1, HandlersKeep DEF Chat!Connect
<1>7. AnswersTrue'
  BY <1>2, <1>3, <1>5, AnswersKeep
<1>8. \A t \in threadsAt' : ThreadKnows(t)'
  BY <1>5, ThreadsKeep DEF Chat!Connect
<1>9. TablesTrue' /\ Routed' /\ Believed'
  <2>1. TablesTrue' /\ Routed'
    BY <1>2, <1>5, TablesKeep, RoutedKeeps DEF Chat!Connect
  <2>2. Believed'
    BY <1>5, BelievedKeeps DEF Chat!Connect
  <2>3. QED
    BY <2>1, <2>2
<1>10. QED
  BY <1>4, <1>6, <1>7, <1>8, <1>9 DEF ChatInv

LEMMA ConnectHandlerKeeps ==
    ASSUME ChatInv, NEW c \in DOMAIN conns, Chat!ConnectHandler(c) PROVE ChatInv'
<1> USE DEF Chat!serverVars, Chat!tablesOfServer, Chat!clientVars, Chat!storyVars
<1>1. PICK k : k = conns[c].client
  OBVIOUS
<1>2. /\ k \in Clients /\ c # 0 /\ c \in Nat /\ ~crashed'
      /\ completed' = completed \cup {c}
      /\ session0' = [session0 EXCEPT ![k] = IF @ = 0 THEN c ELSE @]
      /\ is_connected' = [is_connected EXCEPT ![k] = TRUE]
      /\ UNCHANGED <<conns, known, isOnline, id, handlers, threadsAt, crashed, logining,
                     chats, logged, answered, strays, fresh, misled>>
  BY <1>1, ConnFacts DEF ChatInv, Chat!ConnectHandler
<1>3. /\ session0' \in [Clients -> Nat] /\ is_connected' \in [Clients -> BOOLEAN]
      /\ \A l \in Clients : l # k => session0'[l] = session0[l] /\ is_connected'[l] = is_connected[l]
      /\ session0'[k] = IF session0[k] = 0 THEN c ELSE session0[k]
  BY <1>2 DEF ChatInv, ChatTypes
<1>4. ChatTypes'
  BY <1>2, <1>3 DEF ChatInv, ChatTypes
<1>5. Growing
  BY <1>2, <1>3 DEF Growing, LoggedOn
<1>6. SentOnFirst' /\ AnswersTrue'
  BY <1>2, <1>5, QueuesKeep
<1>7. \A t \in threadsAt' : ThreadKnows(t)'
  BY <1>2, <1>5, ThreadsKeep
<1>8. TablesTrue' /\ Routed'
  BY <1>2, <1>5, TablesKeep, RoutedKeeps
<1>9. Believed'
  <2>1. \A l \in Clients : session0'[l] # 0 =>
            session0'[l] \in completed' /\ conns'[session0'[l]].client = l
    BY <1>1, <1>2, <1>3 DEF ChatInv, Believed
  <2>2. \A l \in Clients : is_connected'[l] => session0'[l] # 0
    BY <1>2, <1>3 DEF ChatInv, Believed
  <2>3. ASSUME NEW l \in Clients, logining[l] # NoUser
        PROVE  LoggedOn(logining[l], session0[l])'
    <3>1. LoggedOn(logining[l], session0[l]) /\ logining[l] \in Users /\ logged[logining[l]] \in Seq(Nat \ {0})
      BY <2>3 DEF ChatInv, ChatTypes, Believed
    <3>2. session0[l] # 0
      <4>1. \A i \in DOMAIN logged[logining[l]] : logged[logining[l]][i] \in Nat \ {0}
        BY <3>1, SeqElements
      <4>2. QED
        BY <3>1, <4>1 DEF LoggedOn, Chat!Range
    <3>3. session0'[l] = session0[l]
      BY <1>3, <3>2
    <3>4. QED
      BY <1>2, <3>1, <3>3 DEF LoggedOn
  <2>4. QED
    BY <1>2, <2>1, <2>2, <2>3 DEF ChatInv, Believed
<1>10. QED
  BY <1>4, <1>6, <1>7, <1>8, <1>9 DEF ChatInv

LEMMA AcceptKeeps == ASSUME ChatInv, Chat!do_accept PROVE ChatInv'
<1> USE DEF Chat!serverVars, Chat!tablesOfServer, Chat!clientVars, Chat!storyVars
<1>1. /\ ~crashed' /\ UNCHANGED <<conns, known, isOnline, id, handlers, threadsAt, crashed, logining,
                     chats, logged, answered, strays, fresh, misled, completed, session0, is_connected>>
  BY DEF Chat!do_accept
<1>2. ChatTypes'
  BY <1>1 DEF ChatInv, ChatTypes
<1>3. Growing
  BY <1>1 DEF Growing, LoggedOn
<1>4. SentOnFirst' /\ AnswersTrue' /\ \A t \in threadsAt' : ThreadKnows(t)'
  BY <1>1, <1>3, QueuesKeep, ThreadsKeep
<1>5. TablesTrue' /\ Routed' /\ Believed'
  BY <1>1, <1>3, TablesKeep, RoutedKeeps, BelievedKeeps
<1>6. QED
  BY <1>2, <1>4, <1>5 DEF ChatInv

LEMMA LostKeeps == ASSUME ChatInv, NEW c \in DOMAIN conns, Chat!Lost(c) PROVE ChatInv'
<1> USE DEF Chat!serverVars, Chat!tablesOfServer, Chat!clientVars, Chat!storyVars
<1>1. /\ ~crashed' /\ UNCHANGED <<known, isOnline, id, handlers, threadsAt, crashed, logining,
                     chats, logged, answered, strays, fresh, misled, completed, session0, is_connected>>
  BY DEF Chat!Lost
<1>2. PICK r : r = [conns[c] EXCEPT !.up = FALSE, !.toServer = <<>>, !.toClient = <<>>]
  OBVIOUS
<1>3. /\ conns \in Seq(Connection) /\ conns[c] \in Connection /\ DOMAIN conns = 1..Len(conns)
  BY ConnFacts DEF ChatInv, ChatTypes
<1>4. r \in Connection /\ r.client = conns[c].client /\ r.toServer = <<>> /\ r.toClient = <<>>
  <2>1. conns[c].client \in Clients /\ <<>> \in Seq(Asked) /\ <<>> \in Seq(Told)
    BY <1>3, ConnFacts DEF ChatInv
  <2>2. r = [client |-> conns[c].client, up |-> FALSE, toServer |-> <<>>, toClient |-> <<>>]
    BY <1>2, <1>3 DEF Connection
  <2>3. QED
    BY <2>1, <2>2 DEF Connection
<1>5. conns' = [conns EXCEPT ![c] = r]
  BY <1>2 DEF Chat!Lost
<1>6. /\ conns' \in Seq(Connection) /\ DOMAIN conns' = DOMAIN conns /\ conns'[c] = r
      /\ \A d \in DOMAIN conns : d # c => conns'[d] = conns[d]
  BY <1>3, <1>4, <1>5, ExceptSeq
<1>7. ChatTypes'
  BY <1>1, <1>6 DEF ChatInv, ChatTypes
<1>8. Growing
  BY <1>1, <1>4, <1>6 DEF Growing, LoggedOn
<1>9. SentOnFirst'
  <2>1. \A d \in DOMAIN conns' : conns'[d].toServer # <<>> => OnFirst(d)'
    BY <1>4, <1>6, <1>8, FirstStays DEF ChatInv, SentOnFirst
  <2>2. QED
    BY <1>1, <1>8, <2>1, HandlersKeep
<1>10. AnswersTrue'
  BY <1>4, <1>6, <1>8, AnswersKeep
<1>11. TablesTrue' /\ Routed' /\ \A t \in threadsAt' : ThreadKnows(t)'
  BY <1>1, <1>8, TablesKeep, RoutedKeeps, ThreadsKeep
<1>12. Believed'
  <2>1. \A d \in DOMAIN conns : conns'[d].client = conns[d].client
    BY <1>8 DEF Growing
  <2>2. completed \subseteq DOMAIN conns
    BY DEF ChatInv, ChatTypes
  <2>3. QED
    BY <1>1, <2>1, <2>2 DEF ChatInv, Believed, LoggedOn
<1>13. QED
  BY <1>7, <1>9, <1>10, <1>11, <1>12 DEF ChatInv

LEMMA SendToKeeps == ASSUME ChatInv, NEW k \in Clients, Chat!send_to(k) PROVE ChatInv'
<1> USE DEF Chat!serverVars, Chat!tablesOfServer, Chat!clientVars, Chat!storyVars
<1>1. /\ ~crashed' /\ chats' = chats + 1
      /\ UNCHANGED <<known, isOnline, id, handlers, threadsAt, crashed, logining,
                     logged, answered, strays, fresh, misled, completed, session0, is_connected>>
  BY DEF Chat!send_to
<1>2. PICK c : c = session0[k]
  OBVIOUS
<1>3. /\ c \in DOMAIN conns /\ conns[c].client = k /\ OnFirst(c) /\ chats \in Nat
      /\ conns \in Seq(Connection)
  BY <1>2 DEF ChatInv, ChatTypes, Believed, OnFirst, Chat!send_to
<1>4. CASE ~conns[c].up
  <2>1. conns' = conns
    BY <1>2, <1>4 DEF Chat!send_to, Chat!FirstSession
  <2>2. Growing
    BY <1>1, <2>1 DEF Growing, LoggedOn
  <2>3. ChatTypes'
    BY <1>1, <1>3, <2>1 DEF ChatInv, ChatTypes
  <2>4. SentOnFirst' /\ AnswersTrue' /\ \A t \in threadsAt' : ThreadKnows(t)'
    BY <1>1, <2>1, <2>2, QueuesKeep, ThreadsKeep
  <2>5. TablesTrue' /\ Routed' /\ Believed'
    BY <1>1, <2>2, TablesKeep, RoutedKeeps, BelievedKeeps
  <2>6. QED
    BY <2>3, <2>4, <2>5 DEF ChatInv
<1>5. CASE conns[c].up
  <2>1. PICK sort \in ChatKinds, u \in Users, long \in BOOLEAN :
           conns' = [conns EXCEPT ![c].toServer =
                       Append(@, [n |-> chats', kind |-> sort, user |-> u, long |-> long])]
    <3>1. \E sort \in ChatKinds, u \in Users, long \in BOOLEAN :
             conns' = IF ~conns[c].up THEN conns
                      ELSE [conns EXCEPT ![c].toServer =
                       Append(@, [n |-> chats', kind |-> sort, user |-> u, long |-> long])]
      <4>1. \E sort \in {"login", "chat"}, u \in Users, long \in BOOLEAN :
               conns' = IF ~conns[session0[k]].up THEN conns
                        ELSE [conns EXCEPT ![session0[k]].toServer =
                         Append(@, [n |-> chats', kind |-> sort, user |-> u, long |-> long])]
        BY DEF Chat!send_to, Chat!FirstSession
      <4>2. QED
        BY <1>2, <4>1 DEF ChatKinds
    <3>2. QED
      BY <1>5, <3>1
  <2>2. PICK m : m = [n |-> chats', kind |-> sort, user |-> u, long |-> long]
    OBVIOUS
  <2>3. m \in Asked
    <3>1. chats' \in Nat
      BY <1>1, <1>3
    <3>2. QED
      BY <2>2, <3>1 DEF Asked
  <2>4. PICK q : q = Append(conns[c].toServer, m)
    OBVIOUS
  <2>5. q \in Seq(Asked)
    BY <1>3, <2>3, <2>4, ConnFacts, SeqAppend DEF ChatInv
  <2>6. conns' = [conns EXCEPT ![c].toServer = q]
    BY <2>1, <2>2, <2>4
  <2>7. /\ conns' \in Seq(Connection) /\ DOMAIN conns' = DOMAIN conns
        /\ \A d \in DOMAIN conns :
              /\ conns'[d].client = conns[d].client
              /\ conns'[d].toServer = IF d = c THEN q ELSE conns[d].toServer
              /\ conns'[d].toClient = conns[d].toClient
    BY <1>3, <2>5, <2>6, ConnAsked DEF ChatInv
  <2>8. ChatTypes'
    BY <1>1, <1>3, <2>7 DEF ChatInv, ChatTypes
  <2>9. Growing
    BY <1>1, <2>7 DEF Growing, LoggedOn
  <2>10. SentOnFirst'
    <3>1. \A d \in DOMAIN conns' : conns'[d].toServer # <<>> => OnFirst(d)'
      BY <1>3, <2>7, <2>9, FirstStays DEF ChatInv, SentOnFirst
    <3>2. QED
      BY <1>1, <2>9, <3>1, HandlersKeep
  <2>11. AnswersTrue'
    BY <2>7, <2>9, AnswersKeep
  <2>12. TablesTrue' /\ Routed' /\ Believed' /\ \A t \in threadsAt' : ThreadKnows(t)'
    BY <1>1, <2>9, TablesKeep, RoutedKeeps, BelievedKeeps, ThreadsKeep
  <2>13. QED
    BY <2>8, <2>10, <2>11, <2>12 DEF ChatInv
<1>6. QED
  BY <1>4, <1>5

LEMMA ClientHandlesKeeps ==
    ASSUME ChatInv, NEW c \in DOMAIN conns, NEW i \in DOMAIN conns[c].toClient,
           Chat!ClientHandles(c, i)
    PROVE  ChatInv'
<1> USE DEF Chat!serverVars, Chat!tablesOfServer, Chat!clientVars, Chat!storyVars
<1>1. /\ ~crashed' /\ UNCHANGED <<known, isOnline, id, handlers, threadsAt, crashed, chats,
                     logged, answered, strays, fresh, misled, completed, session0, is_connected>>
  BY DEF Chat!ClientHandles
<1>2. PICK q : q = Chat!Without(conns[c].toClient, i)
  OBVIOUS
<1>3. conns[c].toClient \in Seq(Told) /\ conns[c].client \in Clients
  BY ConnFacts DEF ChatInv
<1>4. /\ q \in Seq(Told)
      /\ \A j \in DOMAIN q : \E l \in DOMAIN conns[c].toClient : q[j] = conns[c].toClient[l]
  BY <1>2, <1>3, RemovedAt
<1>5. conns' = [conns EXCEPT ![c].toClient = q]
  BY <1>2 DEF Chat!ClientHandles
<1>6. /\ conns' \in Seq(Connection) /\ DOMAIN conns' = DOMAIN conns
      /\ \A d \in DOMAIN conns :
            /\ conns'[d].client = conns[d].client
            /\ conns'[d].toServer = conns[d].toServer
            /\ conns'[d].toClient = IF d = c THEN q ELSE conns[d].toClient
  BY <1>4, <1>5, ConnTold DEF ChatInv
<1>7. PICK m : m = conns[c].toClient[i]
  OBVIOUS
<1>8. m \in Told /\ m.user \in Users
  <2>1. m \in Told
    BY <1>3, <1>7, SeqElements
  <2>2. QED
    BY <2>1 DEF Told
<1>9. /\ logining' \in [Clients -> Users \cup {NoUser}]
      /\ \A k \in Clients : logining'[k] = IF k = conns[c].client /\ m.kind = "login" /\ m.ok
                                           THEN m.user ELSE logining[k]
  <2>1. logining' = IF m.kind = "login" /\ m.ok
                    THEN [logining EXCEPT ![conns[c].client] = m.user] ELSE logining
    BY <1>7 DEF Chat!ClientHandles
  <2>2. QED
    BY <1>3, <1>8, <2>1 DEF ChatInv, ChatTypes
<1>10. ChatTypes'
  BY <1>1, <1>6, <1>9 DEF ChatInv, ChatTypes
<1>11. Growing
  BY <1>1, <1>6 DEF Growing, LoggedOn
<1>12. SentOnFirst'
  <2>1. \A d \in DOMAIN conns' : conns'[d].toServer # <<>> => OnFirst(d)'
    BY <1>6, <1>11, FirstStays DEF ChatInv, SentOnFirst
  <2>2. QED
    BY <1>1, <1>11, <2>1, HandlersKeep
<1>13. AnswersTrue'
  BY <1>4, <1>6, <1>11, AnswersKeep
<1>14. TablesTrue' /\ Routed' /\ \A t \in threadsAt' : ThreadKnows(t)'
  BY <1>1, <1>11, TablesKeep, RoutedKeeps, ThreadsKeep
<1>15. Believed'
  <2>1. Accepted(c, m)
    BY <1>7 DEF ChatInv, AnswersTrue
  <2>2. \A k \in Clients : logining'[k] # NoUser => LoggedOn(logining'[k], session0[k])
    BY <1>9, <2>1 DEF ChatInv, Believed, Accepted, OnFirst
  <2>3. \A k \in Clients : session0[k] # 0 => session0[k] \in completed /\ conns'[session0[k]].client = k
    BY <1>6 DEF ChatInv, ChatTypes, Believed
  <2>4. QED
    BY <1>1, <2>2, <2>3 DEF ChatInv, Believed, LoggedOn
<1>16. QED
  BY <1>10, <1>12, <1>13, <1>14, <1>15 DEF ChatInv

LEMMA ProcessDataKeeps ==
    ASSUME ChatInv, NEW c \in DOMAIN conns, Chat!process_data(c) PROVE ChatInv'
<1> USE DEF Chat!serverVars, Chat!tablesOfServer, Chat!clientVars, Chat!storyVars
<1>1. /\ ~crashed' /\ UNCHANGED <<known, isOnline, id, threadsAt, crashed, logining, chats,
                     logged, answered, strays, fresh, misled, completed, session0, is_connected>>
  BY DEF Chat!process_data
<1>2. /\ conns[c].toServer \in Seq(Asked) /\ conns[c].toServer # <<>> /\ c \in Nat \ {0}
  BY ConnFacts DEF ChatInv, Chat!process_data
<1>3. PICK q, m : q = Tail(conns[c].toServer) /\ m = Head(conns[c].toServer)
  OBVIOUS
<1>4. q \in Seq(Asked) /\ m \in Asked
  BY <1>2, <1>3, SeqTail
<1>5. conns' = [conns EXCEPT ![c].toServer = q]
  BY <1>3 DEF Chat!process_data
<1>6. /\ conns' \in Seq(Connection) /\ DOMAIN conns' = DOMAIN conns
      /\ \A d \in DOMAIN conns :
            /\ conns'[d].client = conns[d].client
            /\ conns'[d].toServer = IF d = c THEN q ELSE conns[d].toServer
            /\ conns'[d].toClient = conns[d].toClient
  BY <1>4, <1>5, ConnAsked DEF ChatInv
<1>7. OnFirst(c)
  BY <1>2 DEF ChatInv, SentOnFirst
<1>8. PICK h : h = [m |-> m, from |-> c]
  OBVIOUS
<1>9. h \in Posted /\ h.from = c
  BY <1>2, <1>4, <1>8 DEF Posted
<1>10. handlers' = handlers \/ handlers' = Append(handlers, h)
  BY <1>3, <1>8 DEF Chat!process_data
<1>11. /\ handlers' \in Seq(Posted)
       /\ \A i \in DOMAIN handlers' :
             handlers'[i].from = c \/ \E j \in DOMAIN handlers : handlers'[i] = handlers[j]
  <2>1. handlers \in Seq(Posted)
    BY DEF ChatInv, ChatTypes
  <2>2. CASE handlers' = handlers
    BY <2>1, <2>2
  <2>3. CASE handlers' = Append(handlers, h)
    BY <1>9, <2>1, <2>3, SeqAppend
  <2>4. QED
    BY <1>10, <2>2, <2>3
<1>12. ChatTypes'
  BY <1>1, <1>6, <1>11 DEF ChatInv, ChatTypes
<1>13. Growing
  BY <1>1, <1>6 DEF Growing, LoggedOn
<1>14. SentOnFirst'
  <2>1. \A d \in DOMAIN conns' : conns'[d].toServer # <<>> => OnFirst(d)'
    BY <1>6, <1>7, <1>13, FirstStays DEF ChatInv, SentOnFirst
  <2>2. ASSUME NEW i \in DOMAIN handlers'
        PROVE  \E d : d = handlers'[i].from /\ OnFirst(d)'
    BY <1>7, <1>11, <1>13, FirstStays DEF ChatInv, SentOnFirst
  <2>3. QED
    BY <2>1, <2>2 DEF SentOnFirst, OnFirst
<1>15. AnswersTrue'
  BY <1>6, <1>13, AnswersKeep
<1>16. TablesTrue' /\ Routed' /\ Believed' /\ \A t \in threadsAt' : ThreadKnows(t)'
  BY <1>1, <1>13, TablesKeep, RoutedKeeps, BelievedKeeps, ThreadsKeep
<1>17. QED
  BY <1>12, <1>14, <1>15, <1>16 DEF ChatInv

LEMMA BeginKeeps == ASSUME ChatInv, Chat!Begin PROVE ChatInv'
<1> USE DEF Chat!serverVars, Chat!tablesOfServer, Chat!clientVars, Chat!storyVars
<1>1. /\ ~crashed' /\ UNCHANGED <<known, isOnline, id, crashed, logining, chats, conns,
                     logged, answered, strays, fresh, misled, completed, session0, is_connected>>
  BY DEF Chat!Begin
<1>2. handlers \in Seq(Posted) /\ handlers # <<>> /\ handlers' = Tail(handlers)
  BY DEF ChatInv, ChatTypes, Chat!Begin
<1>3. PICK h : h = Head(handlers)
  OBVIOUS
<1>4. /\ h \in Posted /\ handlers' \in Seq(Posted) /\ OnFirst(h.from)
      /\ \A i \in DOMAIN handlers' : \E j \in DOMAIN handlers : handlers'[i] = handlers[j]
  BY <1>2, <1>3, SeqTail DEF ChatInv, SentOnFirst
<1>5. PICK t : t = [m |-> h.m, from |-> h.from,
                    at |-> IF h.m.kind = "login" THEN "verify" ELSE "get_id",
                    to |-> Chat!NoSession, ok |-> FALSE, told |-> h.m.user \in answered]
  OBVIOUS
<1>6. threadsAt' = threadsAt \cup {t}
  BY <1>3, <1>5 DEF Chat!Begin
<1>7. h.m \in Asked /\ h.from \in Nat \ {0}
  BY <1>4 DEF Posted
<1>8. t \in IoThread
  <2>1. Chat!NoSession \in Int /\ (h.m.user \in answered) \in BOOLEAN
    BY DEF Chat!NoSession
  <2>2. (IF h.m.kind = "login" THEN "verify" ELSE "get_id") \in ChatSteps
    BY DEF ChatSteps
  <2>3. QED
    BY <1>5, <1>7, <2>1, <2>2 DEF IoThread
<1>9. ThreadKnows(t)
  BY <1>4, <1>5 DEF ThreadKnows, LoginKnows, ChatKnows
<1>10. ChatTypes'
  BY <1>1, <1>4, <1>6, <1>8 DEF ChatInv, ChatTypes
<1>11. Growing
  BY <1>1 DEF Growing, LoggedOn
<1>12. SentOnFirst' /\ AnswersTrue'
  BY <1>1, <1>4, <1>11, QueuesKeep
<1>13. \A s \in threadsAt' : ThreadKnows(s)'
  <2>1. ThreadKnows(t)'
    BY <1>8, <1>9, <1>11, KnowledgeStays DEF ChatInv
  <2>2. QED
    BY <1>6, <1>11, <2>1, ThreadsKeep
<1>14. TablesTrue' /\ Routed' /\ Believed'
  BY <1>1, <1>11, TablesKeep, RoutedKeeps, BelievedKeeps
<1>15. QED
  BY <1>10, <1>12, <1>13, <1>14 DEF ChatInv

LEMMA VerifyKeeps ==
    ASSUME ChatInv, NEW t \in threadsAt, Chat!verifyUserInfo(t) PROVE ChatInv'
<1> USE DEF Chat!tablesOfServer, Chat!clientVars, Chat!storyVars, Chat!serverRest
<1>1. /\ t.at = "verify" /\ ~crashed' /\ t \in IoThread /\ ThreadKnows(t)
      /\ UNCHANGED <<known, isOnline, id, handlers, logining, chats, conns,
                     logged, answered, strays, fresh, misled, completed, session0, is_connected>>
  BY DEF ChatInv, ChatTypes, Chat!verifyUserInfo, Chat!At
<1>2. PICK s1, s2 : s1 = [t EXCEPT !.at = "set_online", !.ok = TRUE] /\ s2 = [t EXCEPT !.at = "answer"]
  OBVIOUS
<1>3. Chat!Becomes(t, {s1}) \/ Chat!Becomes(t, {s2}) \/ Chat!Becomes(t, {})
  BY <1>2 DEF Chat!verifyUserInfo
<1>4. s1 \in IoThread /\ s2 \in IoThread
  <2>1. "set_online" \in ChatSteps /\ "answer" \in ChatSteps /\ 0 \in Int
    BY DEF ChatSteps
  <2>2. QED
    BY <1>1, <1>2, <2>1, ThreadsMove
<1>5. /\ s1.m = t.m /\ s1.from = t.from /\ s1.at = "set_online"
      /\ s2.m = t.m /\ s2.from = t.from /\ s2.at = "answer" /\ s2.ok = t.ok
  BY <1>1, <1>2 DEF IoThread
<1>6. OnFirst(t.from) /\ t.m.kind # "chat" /\ (t.m.kind = "login" => ~t.ok)
  BY <1>1 DEF ThreadKnows, LoginKnows, ChatKnows
<1>7. ThreadKnows(s1) /\ ThreadKnows(s2)
  BY <1>5, <1>6 DEF ThreadKnows, LoginKnows
<1>8. Growing
  BY <1>1 DEF Growing, LoggedOn
<1>9. ThreadKnows(s1)' /\ ThreadKnows(s2)'
  BY <1>4, <1>7, <1>8, KnowledgeStays DEF ChatInv
<1>10. PICK S : S \subseteq {s1, s2} /\ Chat!Becomes(t, S)
  BY <1>3
<1>11. /\ threadsAt' \subseteq IoThread /\ \A s \in threadsAt' : ThreadKnows(s)'
       /\ SentOnFirst' /\ AnswersTrue'
  BY <1>1, <1>4, <1>8, <1>9, <1>10, ThreadSteps DEF ServerRest
<1>12. ChatTypes'
  BY <1>1, <1>11 DEF ChatInv, ChatTypes
<1>13. TablesTrue' /\ Routed' /\ Believed'
  BY <1>1, <1>8, TablesKeep, RoutedKeeps, BelievedKeeps
<1>14. QED
  BY <1>11, <1>12, <1>13 DEF ChatInv

LEMMA SetOnlineKeeps ==
    ASSUME ChatInv, NEW t \in threadsAt, Chat!SetOnline(t) PROVE ChatInv'
<1> USE DEF Chat!tablesOfServer, Chat!clientVars, Chat!storyVars, Chat!serverRest
<1>1. /\ t.at = "set_online" /\ ~crashed' /\ t \in IoThread /\ ThreadKnows(t)
      /\ UNCHANGED <<id, handlers, logining, chats, conns,
                     logged, answered, strays, fresh, misled, completed, session0, is_connected>>
  BY DEF ChatInv, ChatTypes, Chat!SetOnline, Chat!At
<1>2. PICK s : s = [t EXCEPT !.at = "set_id"]
  OBVIOUS
<1>3. Chat!Becomes(t, {s})
  BY <1>2 DEF Chat!SetOnline
<1>4. s \in IoThread
  <2>1. "set_id" \in ChatSteps /\ 0 \in Int
    BY DEF ChatSteps
  <2>2. QED
    BY <1>1, <1>2, <2>1, ThreadsMove
<1>5. s.m = t.m /\ s.from = t.from /\ s.at = "set_id" /\ t.m.user \in Users
  BY <1>1, <1>2 DEF IoThread, Asked
<1>6. /\ known' = known \cup {t.m.user} /\ isOnline' \in [Users -> BOOLEAN]
      /\ \A u \in Users : isOnline'[u] <=> u = t.m.user \/ isOnline[u]
  BY <1>5 DEF ChatInv, ChatTypes, Chat!SetOnline
<1>7. Growing
  BY <1>1, <1>6 DEF Growing, LoggedOn
<1>8. ThreadKnows(s)'
  <2>1. OnFirst(t.from)' /\ t.m.kind # "chat"
    <3>1. OnFirst(t.from) /\ t.m.kind # "chat"
      BY <1>1 DEF ThreadKnows, ChatKnows
    <3>2. QED
      BY <1>7, <3>1, FirstStays DEF ChatInv
  <2>2. QED
    BY <1>5, <1>6, <2>1 DEF ThreadKnows, LoginKnows
<1>9. /\ threadsAt' \subseteq IoThread /\ \A r \in threadsAt' : ThreadKnows(r)'
      /\ SentOnFirst' /\ AnswersTrue'
  BY <1>1, <1>3, <1>4, <1>7, <1>8, ThreadSteps DEF ServerRest
<1>10. ChatTypes'
  BY <1>1, <1>5, <1>6, <1>9 DEF ChatInv, ChatTypes
<1>11. TablesTrue'
  <2>1. answered \subseteq Users
    BY DEF ChatInv, ChatTypes
  <2>2. QED
    BY <1>1, <1>6, <2>1 DEF ChatInv, TablesTrue, LoggedOn, SomeId
<1>12. Routed' /\ Believed'
  BY <1>1, <1>7, RoutedKeeps, BelievedKeeps
<1>13. QED
  BY <1>9, <1>10, <1>11, <1>12 DEF ChatInv

LEMMA SetIdKeeps == ASSUME ChatInv, NEW t \in threadsAt, Chat!SetId(t) PROVE ChatInv'
<1> USE DEF Chat!tablesOfServer, Chat!clientVars, Chat!storyVars, Chat!serverRest
<1>1. /\ t.at = "set_id" /\ ~crashed' /\ t \in IoThread /\ ThreadKnows(t)
      /\ UNCHANGED <<known, isOnline, handlers, logining, chats, conns,
                     answered, strays, fresh, misled, completed, session0, is_connected>>
  BY DEF ChatInv, ChatTypes, Chat!SetId, Chat!At
<1>2. PICK s : s = [t EXCEPT !.at = "answer"]
  OBVIOUS
<1>3. Chat!Becomes(t, {s})
  BY <1>2 DEF Chat!SetId
<1>4. s \in IoThread
  <2>1. "answer" \in ChatSteps /\ 0 \in Int
    BY DEF ChatSteps
  <2>2. QED
    BY <1>1, <1>2, <2>1, ThreadsMove
<1>5. /\ s.m = t.m /\ s.from = t.from /\ s.at = "answer"
      /\ t.m.user \in Users /\ t.from \in Nat \ {0}
  BY <1>1, <1>2 DEF IoThread, Asked
<1>6. /\ OnFirst(t.from) /\ t.from \in DOMAIN conns
      /\ t.m.user \in known /\ isOnline[t.m.user] /\ t.m.kind # "chat"
  <2>1. t.m.kind \in ChatKinds
    BY <1>1 DEF IoThread, Asked
  <2>2. QED
    BY <1>1, <2>1 DEF ThreadKnows, LoginKnows, ChatKnows, OnFirst, ChatKinds
<1>7. /\ logged' \in [Users -> Seq(Nat \ {0})]
      /\ \A u \in Users : \A d :
            LoggedOn(u, d)' <=> LoggedOn(u, d) \/ (u = t.m.user /\ d = t.from)
  BY <1>5, LogsGrow DEF ChatInv, Chat!SetId
<1>8. /\ id' \in [Users -> Int]
      /\ \A u \in Users : id'[u] = IF u = t.m.user THEN t.from - 1 ELSE id[u]
  BY <1>5 DEF ChatInv, ChatTypes, Chat!SetId, Chat!from_id, Chat!Id
<1>9. Growing
  BY <1>1, <1>7 DEF Growing
<1>10. ThreadKnows(s)'
  <2>1. OnFirst(t.from)'
    BY <1>6, <1>9, FirstStays DEF ChatInv
  <2>2. LoggedOn(t.m.user, t.from)'
    BY <1>5, <1>7
  <2>3. QED
    BY <1>1, <1>5, <1>6, <2>1, <2>2 DEF ThreadKnows, LoginKnows
<1>11. /\ threadsAt' \subseteq IoThread /\ \A r \in threadsAt' : ThreadKnows(r)'
       /\ SentOnFirst' /\ AnswersTrue'
  BY <1>1, <1>3, <1>4, <1>9, <1>10, ThreadSteps DEF ServerRest
<1>12. ChatTypes'
  BY <1>1, <1>7, <1>8, <1>11 DEF ChatInv, ChatTypes
<1>13. TablesTrue'
  <2>1. ASSUME NEW u \in Users
        PROVE  (logged'[u] # <<>> => LoggedOn(u, id[u] + 1)') /\ SomeId(id[u])'
    <3>1. CASE u = t.m.user
      <4>1. id'[u] + 1 = t.from
        BY <1>5, <1>8, <3>1
      <4>2. PICK d : d = id'[u]
        OBVIOUS
      <4>3. LoggedOn(u, d + 1)' /\ d + 1 \in DOMAIN conns'
        BY <1>1, <1>5, <1>6, <1>7, <3>1, <4>1, <4>2
      <4>4. QED
        BY <4>2, <4>3 DEF LoggedOn, SomeId
    <3>2. CASE u # t.m.user
      <4>1. id'[u] = id[u] /\ logged'[u] = logged[u]
        BY <1>5, <1>8, <3>2 DEF ChatInv, ChatTypes, Chat!SetId
      <4>2. QED
        BY <1>1, <4>1 DEF ChatInv, TablesTrue, LoggedOn, SomeId
    <3>3. QED
      BY <3>1, <3>2
  <2>2. QED
    BY <1>1, <2>1 DEF ChatInv, TablesTrue
<1>14. Routed' /\ Believed'
  BY <1>1, <1>9, RoutedKeeps, BelievedKeeps
<1>15. QED
  BY <1>11, <1>12, <1>13, <1>14 DEF ChatInv

LEMMA GetIdKeeps == ASSUME ChatInv, NEW t \in threadsAt, Chat!get_id(t) PROVE ChatInv'
<1> USE DEF Chat!tablesOfServer, Chat!clientVars, Chat!storyVars, Chat!serverRest
<1>1. /\ t.at = "get_id" /\ ~crashed' /\ t \in IoThread /\ ThreadKnows(t)
      /\ UNCHANGED <<known, isOnline, id, handlers, logining, chats, conns,
                     logged, answered, strays, misled, completed, session0, is_connected>>
  BY DEF ChatInv, ChatTypes, Chat!get_id, Chat!At
<1>2. PICK a, n : a = (IF t.m.user \in known THEN "is_online" ELSE "answer") /\ n = id[t.m.user]
  OBVIOUS
<1>3. PICK s : s = [t EXCEPT !.at = a, !.to = n]
  OBVIOUS
<1>4. Chat!Becomes(t, {s})
  BY <1>2, <1>3 DEF Chat!get_id
<1>5. t.m.user \in Users /\ n \in Int /\ a \in ChatSteps
  <2>1. t.m.user \in Users
    BY <1>1 DEF IoThread, Asked
  <2>2. QED
    BY <1>2, <2>1 DEF ChatInv, ChatTypes, ChatSteps
<1>6. s \in IoThread
  BY <1>1, <1>3, <1>5, ThreadsMove
<1>7. s.m = t.m /\ s.from = t.from /\ s.at = a /\ s.to = n /\ s.told = t.told
  BY <1>1, <1>3 DEF IoThread
<1>8. /\ fresh \subseteq fresh'
      /\ logged[t.m.user] = <<>> => t.m.n \in fresh'
  BY DEF Chat!get_id
<1>9. Growing
  BY <1>1, <1>8 DEF Growing, LoggedOn
<1>10. ThreadKnows(s)'
  <2>1. OnFirst(t.from)' /\ t.m.kind # "login" /\ (t.m.kind = "chat" => (t.told => t.m.user \in answered))
    <3>1. OnFirst(t.from) /\ t.m.kind # "login" /\ (t.m.kind = "chat" => (t.told => t.m.user \in answered))
      BY <1>1 DEF ThreadKnows, LoginKnows, ChatKnows
    <3>2. QED
      BY <1>9, <3>1, FirstStays DEF ChatInv
  <2>2. (t.m.n \in fresh' \/ LoggedOn(t.m.user, n + 1)') /\ SomeId(n)'
    BY <1>1, <1>2, <1>5, <1>8 DEF ChatInv, TablesTrue, LoggedOn, SomeId
  <2>3. t.m.user \in answered => t.m.user \in known
    BY DEF ChatInv, TablesTrue
  <2>4. QED
    BY <1>1, <1>2, <1>7, <2>1, <2>2, <2>3 DEF ThreadKnows, ChatKnows
<1>11. /\ threadsAt' \subseteq IoThread /\ \A r \in threadsAt' : ThreadKnows(r)'
       /\ SentOnFirst' /\ AnswersTrue'
  BY <1>1, <1>4, <1>6, <1>9, <1>10, ThreadSteps DEF ServerRest
<1>12. ChatTypes'
  BY <1>1, <1>11 DEF ChatInv, ChatTypes
<1>13. TablesTrue' /\ Routed' /\ Believed'
  BY <1>1, <1>9, TablesKeep, RoutedKeeps, BelievedKeeps
<1>14. QED
  BY <1>11, <1>12, <1>13 DEF ChatInv

LEMMA IsOnlineKeeps == ASSUME ChatInv, NEW t \in threadsAt, Chat!is_online(t) PROVE ChatInv'
<1> USE DEF Chat!tablesOfServer, Chat!clientVars, Chat!storyVars, Chat!serverRest
<1>1. /\ t.at = "is_online" /\ ~crashed' /\ t \in IoThread /\ ThreadKnows(t)
      /\ UNCHANGED <<known, isOnline, id, handlers, logining, chats, conns, fresh,
                     logged, answered, strays, misled, completed, session0, is_connected>>
  BY DEF ChatInv, ChatTypes, Chat!is_online, Chat!At
<1>2. PICK a : a = (IF isOnline[t.m.user] THEN "transmit" ELSE "answer")
  OBVIOUS
<1>3. PICK s : s = [t EXCEPT !.at = a]
  OBVIOUS
<1>4. Chat!Becomes(t, {s})
  BY <1>2, <1>3 DEF Chat!is_online
<1>5. s \in IoThread
  <2>1. a \in ChatSteps /\ 0 \in Int
    BY <1>2 DEF ChatSteps
  <2>2. QED
    BY <1>1, <1>3, <2>1, ThreadsMove
<1>6. s.m = t.m /\ s.from = t.from /\ s.at = a /\ s.to = t.to /\ s.told = t.told
  BY <1>1, <1>3 DEF IoThread
<1>7. Growing
  BY <1>1 DEF Growing, LoggedOn
<1>8. ThreadKnows(s)
  <2>1. OnFirst(t.from) /\ t.m.kind # "login"
    BY <1>1 DEF ThreadKnows, LoginKnows
  <2>2. ASSUME t.m.kind = "chat"
        PROVE  /\ t.m.n \in fresh \/ LoggedOn(t.m.user, t.to + 1)
               /\ SomeId(t.to) /\ (t.told => t.m.user \in answered)
    BY <1>1, <2>2 DEF ThreadKnows, ChatKnows
  <2>3. t.m.user \in answered => isOnline[t.m.user]
    BY DEF ChatInv, TablesTrue
  <2>4. QED
    BY <1>2, <1>6, <2>1, <2>2, <2>3 DEF ThreadKnows, ChatKnows
<1>9. ThreadKnows(s)'
  BY <1>5, <1>7, <1>8, KnowledgeStays DEF ChatInv
<1>10. /\ threadsAt' \subseteq IoThread /\ \A r \in threadsAt' : ThreadKnows(r)'
       /\ SentOnFirst' /\ AnswersTrue'
  BY <1>1, <1>4, <1>5, <1>7, <1>9, ThreadSteps DEF ServerRest
<1>11. ChatTypes'
  BY <1>1, <1>10 DEF ChatInv, ChatTypes
<1>12. TablesTrue' /\ Routed' /\ Believed'
  BY <1>1, <1>7, TablesKeep, RoutedKeeps, BelievedKeeps
<1>13. QED
  BY <1>10, <1>11, <1>12 DEF ChatInv

LEMMA AnswerKeeps == ASSUME ChatInv, NEW t \in threadsAt, Chat!Answer(t) PROVE ChatInv'
<1> USE DEF Chat!tablesOfServer, Chat!clientVars, Chat!storyVars, Chat!serverRest
<1>1. /\ t.at = "answer" /\ ~crashed' /\ t \in IoThread /\ ThreadKnows(t)
      /\ UNCHANGED <<known, isOnline, id, handlers, logining, chats, fresh,
                     logged, strays, completed, session0, is_connected>>
  BY DEF ChatInv, ChatTypes, Chat!Answer, Chat!At
<1>2. PICK m : m = [kind |-> IF t.m.kind = "login" THEN "login" ELSE "feedback",
                    user |-> t.m.user, ok |-> t.ok]
  OBVIOUS
<1>3. t.m.user \in Users /\ t.ok \in BOOLEAN /\ t.m.kind \in ChatKinds
  BY <1>1 DEF IoThread, Asked
<1>4. m \in Told
  <2>1. (IF t.m.kind = "login" THEN "login" ELSE "feedback") \in {"login", "feedback", "chat"}
    OBVIOUS
  <2>2. QED
    BY <1>2, <1>3, <2>1 DEF Told
<1>5. PICK c : c = t.from
  OBVIOUS
<1>6. OnFirst(c) /\ c \in DOMAIN conns /\ Chat!Put(c, m) /\ Chat!Becomes(t, {})
  BY <1>1, <1>2, <1>5 DEF ThreadKnows, OnFirst, Chat!Answer
<1>7. /\ conns' \in Seq(Connection) /\ DOMAIN conns' = DOMAIN conns
      /\ \A d \in DOMAIN conns :
            /\ conns'[d].client = conns[d].client
            /\ conns'[d].toServer = conns[d].toServer
            /\ \A i \in DOMAIN conns'[d].toClient :
                  \/ d = c /\ conns'[d].toClient[i] = m
                  \/ \E j \in DOMAIN conns[d].toClient :
                        conns'[d].toClient[i] = conns[d].toClient[j]
  BY <1>4, <1>6, PutConns DEF ChatInv
<1>8. /\ answered \subseteq answered'
      /\ answered' \subseteq answered \cup {t.m.user}
      /\ answered' # answered => t.m.kind = "login" /\ t.ok
  BY DEF Chat!Answer
<1>9. misled' = misled
  <2>1. t.m.kind = "chat" /\ t.told => t.ok
    BY <1>1 DEF ThreadKnows, ChatKnows
  <2>2. QED
    BY <2>1 DEF Chat!Answer
<1>10. Growing
  BY <1>1, <1>7, <1>8 DEF Growing, LoggedOn
<1>11. Accepted(c, m)'
  <2>1. Accepted(c, m)
    BY <1>1, <1>2, <1>5, <1>6 DEF ThreadKnows, LoginKnows, Accepted
  <2>2. QED
    BY <1>4, <1>10, <2>1, KnowledgeStays DEF ChatInv
<1>12. AnswersTrue'
  BY <1>7, <1>10, <1>11, AnswersKeep
<1>13. SentOnFirst'
  <2>1. \A d \in DOMAIN conns' : conns'[d].toServer # <<>> => OnFirst(d)'
    BY <1>7, <1>10, FirstStays DEF ChatInv, SentOnFirst
  <2>2. QED
    BY <1>1, <1>10, <2>1, HandlersKeep
<1>14. threadsAt' \subseteq threadsAt
  BY <1>6 DEF Chat!Becomes
<1>15. ChatTypes'
  <2>1. misled' = misled /\ threadsAt' \subseteq IoThread
    BY <1>9, <1>14 DEF ChatInv, ChatTypes
  <2>2. answered' \subseteq Users
    BY <1>3, <1>8 DEF ChatInv, ChatTypes
  <2>3. QED
    BY <1>1, <1>7, <2>1, <2>2 DEF ChatInv, ChatTypes
<1>16. TablesTrue'
  <2>1. \A u \in answered' : u \in known /\ isOnline[u]
    BY <1>1, <1>8 DEF ChatInv, TablesTrue, ThreadKnows, LoginKnows
  <2>2. QED
    BY <1>1, <1>7, <2>1 DEF ChatInv, TablesTrue, LoggedOn, SomeId
<1>17. Routed' /\ Believed' /\ \A s \in threadsAt' : ThreadKnows(s)'
  BY <1>1, <1>9, <1>10, <1>14, RoutedKeeps, BelievedKeeps, ThreadsKeep
<1>18. QED
  BY <1>12, <1>13, <1>15, <1>16, <1>17 DEF ChatInv

LEMMA TransmitKeeps ==
    ASSUME ChatInv, NEW t \in threadsAt, Chat!transmitMessage(t) PROVE ChatInv'
<1> USE DEF Chat!tablesOfServer, Chat!clientVars, Chat!storyVars
<1>1. /\ t.at = "transmit" /\ t \in IoThread /\ ThreadKnows(t)
      /\ UNCHANGED <<known, isOnline, id, handlers, logining, chats, fresh, answered, misled,
                     logged, completed, session0, is_connected>>
  BY DEF ChatInv, ChatTypes, Chat!transmitMessage, Chat!At
<1>2. t.m.user \in Users /\ t.m.kind \in ChatKinds /\ t.to \in Int
  BY <1>1 DEF IoThread, Asked
<1>3. /\ OnFirst(t.from) /\ t.m.kind = "chat" /\ SomeId(t.to)
      /\ t.m.n \in fresh \/ LoggedOn(t.m.user, t.to + 1)
      /\ t.told => t.m.user \in answered
  BY <1>1, <1>2 DEF ThreadKnows, LoginKnows, ChatKnows, ChatKinds
<1>4. CASE t.to = Chat!NoSession
  <2>1. UNCHANGED <<conns, strays, threadsAt>>
    BY <1>4 DEF Chat!transmitMessage
  <2>2. Growing
    BY <1>1, <2>1 DEF Growing, LoggedOn
  <2>3. ChatTypes'
    BY <1>1, <2>1 DEF ChatInv, ChatTypes
  <2>4. SentOnFirst' /\ AnswersTrue' /\ \A s \in threadsAt' : ThreadKnows(s)'
    BY <1>1, <2>1, <2>2, QueuesKeep, ThreadsKeep
  <2>5. TablesTrue' /\ Believed'
    BY <1>1, <2>2, TablesKeep, BelievedKeeps
  <2>6. Routed'
    <3>1. t.m.n \in fresh
      <4>1. t.to + 1 = 0
        BY <1>4 DEF Chat!NoSession
      <4>2. \A i \in DOMAIN logged[t.m.user] : logged[t.m.user][i] \in Nat \ {0}
        <5>1. logged[t.m.user] \in Seq(Nat \ {0})
          BY <1>2 DEF ChatInv, ChatTypes
        <5>2. QED
          BY <5>1, SeqElements
      <4>3. ~LoggedOn(t.m.user, t.to + 1)
        BY <4>1, <4>2 DEF LoggedOn, Chat!Range
      <4>4. QED
        BY <1>3, <4>3
    <3>2. t \in threadsAt' /\ t.m.n \in fresh'
      BY <1>1, <2>1, <3>1
    <3>3. \A s \in strays' : s.n \in fresh' \/ LoggedOn(s.user, s.got)'
      BY <1>1, <2>1 DEF ChatInv, Routed, LoggedOn
    <3>4. QED
      BY <1>1, <3>2, <3>3 DEF Routed
  <2>7. QED
    BY <2>3, <2>4, <2>5, <2>6 DEF ChatInv
<1>5. CASE t.to # Chat!NoSession
  <2>1. PICK c, m : c = t.to + 1 /\ m = [kind |-> "chat", user |-> t.m.user, ok |-> TRUE]
    OBVIOUS
  <2>2. c \in DOMAIN conns
    <3>1. Len(conns) \in Nat /\ DOMAIN conns = 1..Len(conns) /\ t.from \in DOMAIN conns
      BY <1>3, ConnFacts DEF ChatInv, OnFirst
    <3>2. 1 \in DOMAIN conns
      BY <3>1
    <3>3. QED
      BY <1>3, <1>5, <2>1, <3>2 DEF SomeId
  <2>3. m \in Told
    BY <1>2, <2>1 DEF Told
  <2>4. /\ Chat!Put(c, m) /\ ~crashed'
        /\ strays' = strays \/ strays' = strays \cup {[n |-> t.m.n, user |-> t.m.user, got |-> c]}
        /\ Chat!Becomes(t, {[t EXCEPT !.at = "answer", !.ok = TRUE]})
    BY <1>5, <2>1 DEF Chat!transmitMessage, Chat!At
  <2>5. /\ conns' \in Seq(Connection) /\ DOMAIN conns' = DOMAIN conns
        /\ \A d \in DOMAIN conns :
              /\ conns'[d].client = conns[d].client
              /\ conns'[d].toServer = conns[d].toServer
              /\ \A i \in DOMAIN conns'[d].toClient :
                    \/ d = c /\ conns'[d].toClient[i] = m
                    \/ \E j \in DOMAIN conns[d].toClient :
                          conns'[d].toClient[i] = conns[d].toClient[j]
    BY <2>2, <2>3, <2>4, PutConns DEF ChatInv
  <2>6. Growing
    BY <1>1, <2>5 DEF Growing, LoggedOn
  <2>7. Accepted(c, m)'
    BY <2>1 DEF Accepted
  <2>8. AnswersTrue'
    BY <2>5, <2>6, <2>7, AnswersKeep
  <2>9. SentOnFirst'
    <3>1. \A d \in DOMAIN conns' : conns'[d].toServer # <<>> => OnFirst(d)'
      BY <2>5, <2>6, FirstStays DEF ChatInv, SentOnFirst
    <3>2. QED
      BY <1>1, <2>6, <3>1, HandlersKeep
  <2>10. PICK s : s = [t EXCEPT !.at = "answer", !.ok = TRUE]
    OBVIOUS
  <2>11. s \in IoThread
    <3>1. "answer" \in ChatSteps /\ 0 \in Int
      BY DEF ChatSteps
    <3>2. QED
      BY <1>1, <2>10, <3>1, ThreadsMove
  <2>12. s.m = t.m /\ s.from = t.from /\ s.at = "answer" /\ s.ok = TRUE /\ s.told = t.told
    BY <1>1, <2>10 DEF IoThread
  <2>13. ThreadKnows(s)
    BY <1>3, <2>12 DEF ThreadKnows, ChatKnows
  <2>14. threadsAt' \subseteq threadsAt \cup {s}
    BY <2>4, <2>10 DEF Chat!Becomes
  <2>15. \A r \in threadsAt' : ThreadKnows(r)'
    <3>1. ThreadKnows(s)'
      BY <2>6, <2>11, <2>13, KnowledgeStays DEF ChatInv
    <3>2. QED
      BY <2>6, <2>14, <3>1, ThreadsKeep
  <2>16. PICK r : r = [n |-> t.m.n, user |-> t.m.user, got |-> c]
    OBVIOUS
  <2>17. r.user \in Users /\ (r.n \in fresh \/ LoggedOn(r.user, r.got))
    BY <1>2, <1>3, <2>1, <2>16
  <2>18. strays' \subseteq strays \cup {r}
    BY <2>4, <2>16
  <2>19. ChatTypes'
    <3>1. threadsAt' \subseteq IoThread
      BY <2>11, <2>14 DEF ChatInv, ChatTypes
    <3>2. \A q \in strays' : q.user \in Users
      BY <2>17, <2>18 DEF ChatInv, ChatTypes
    <3>3. QED
      BY <1>1, <2>5, <3>1, <3>2 DEF ChatInv, ChatTypes
  <2>20. Routed'
    BY <1>1, <2>4, <2>17, <2>18 DEF ChatInv, Routed, LoggedOn
  <2>21. TablesTrue' /\ Believed'
    BY <1>1, <2>6, TablesKeep, BelievedKeeps
  <2>22. QED
    BY <2>8, <2>9, <2>15, <2>19, <2>20, <2>21 DEF ChatInv
<1>6. QED
  BY <1>4, <1>5

LEMMA ChatNext == ASSUME ChatInv, [Chat!Next]_(Chat!oldVars) PROVE ChatInv'
<1>1. CASE UNCHANGED Chat!oldVars
  <2>1. UNCHANGED <<known, isOnline, id, accepted, handlers, threadsAt, crashed, conns,
                    completed, session0, is_connected, logining, chats, logged, answered,
                    strays, fresh, misled>>
    BY <1>1 DEF Chat!oldVars, Chat!serverVars, Chat!tablesOfServer, Chat!clientVars, Chat!storyVars
  <2>2. Growing
    BY <2>1 DEF Growing, LoggedOn
  <2>3. ChatTypes'
    BY <2>1 DEF ChatInv, ChatTypes
  <2>4. SentOnFirst' /\ AnswersTrue' /\ \A t \in threadsAt' : ThreadKnows(t)'
    BY <2>1, <2>2, QueuesKeep, ThreadsKeep
  <2>5. TablesTrue' /\ Believed'
    BY <2>1, <2>2, TablesKeep, BelievedKeeps
  <2>6. Routed'
    BY <2>1 DEF ChatInv, Routed, LoggedOn
  <2>7. QED
    BY <2>3, <2>4, <2>5, <2>6 DEF ChatInv
<1>2. ASSUME NEW k \in Clients, Chat!Connect(k) \/ Chat!send_to(k) PROVE ChatInv'
  BY <1>2, ConnectKeeps, SendToKeeps
<1>3. CASE Chat!do_accept \/ Chat!Begin
  BY <1>3, AcceptKeeps, BeginKeeps
<1>4. ASSUME NEW c \in DOMAIN conns,
             Chat!ConnectHandler(c) \/ Chat!Lost(c) \/ Chat!process_data(c)
      PROVE  ChatInv'
  BY <1>4, ConnectHandlerKeeps, LostKeeps, ProcessDataKeeps
<1>5. ASSUME NEW c \in DOMAIN conns, NEW i \in DOMAIN conns[c].toClient, Chat!ClientHandles(c, i)
      PROVE  ChatInv'
  BY <1>5, ClientHandlesKeeps
<1>6. ASSUME NEW t \in threadsAt,
             \/ Chat!verifyUserInfo(t) \/ Chat!SetOnline(t) \/ Chat!SetId(t) \/ Chat!Answer(t)
             \/ Chat!get_id(t) \/ Chat!is_online(t) \/ Chat!transmitMessage(t)
      PROVE  ChatInv'
  BY <1>6, VerifyKeeps, SetOnlineKeeps, SetIdKeeps, AnswerKeeps, GetIdKeeps, IsOnlineKeeps,
     TransmitKeeps
<1>7. QED
  BY <1>1, <1>2, <1>3, <1>4, <1>5, <1>6 DEF Chat!Next

LEMMA ChatInvExplains == ChatInv => ChatExplained
<1> SUFFICES ASSUME ChatInv PROVE ChatExplained
  OBVIOUS
<1>1. Chat!RoutingExplained
  BY DEF ChatInv, Routed, LoggedOn, Chat!RoutingExplained
<1>2. Chat!ClientsBelieve
  BY DEF ChatInv, Believed, LoggedOn, Chat!ClientsBelieve
<1>3. QED
  BY <1>1, <1>2 DEF ChatExplained

(* For any number of clients, users, io threads, connections and messages: *)
(* a chat that does not go to the session of its addressee's last login    *)
(* goes to that of an earlier one, and that to nobody, which ends the      *)
(* server, is one read before he had ever logged in; a client is who it    *)
(* thinks it is over the connection it sends on; and nobody is told that a *)
(* user is not there whose login had been answered (user_login, get_id,    *)
(* is_online and transmitMessage, which share tables without a lock).      *)
THEOREM ChatExplainedTheorem == Spec => []ChatExplained
<1>1. Init => ChatInv
  BY ChatInit DEF Init
<1>2. ASSUME [Next]_partsVars PROVE [Chat!Next]_(Chat!oldVars)
  BY <1>2 DEF Next, SerialStep, WindowStep, PoolStep, ConversionStep, ClockStep, FilmStep,
     ResizeStep, WriteStep, ChatStep, ServiceStep, UtilityStep, partsVars, toolOnes,
     playerOnes, netOnes, chatOnes, Chat!oldVars, Chat!serverVars, Chat!tablesOfServer,
     Chat!clientVars, Chat!storyVars
<1>3. QED
  BY <1>1, <1>2, ChatNext, ChatInvExplains, PTL DEF Spec

----------------------------------------------------------------------------
(***************************************************************************)
(* Threads and SQL connections under the chat programs.                    *)
(***************************************************************************)
Lives == {"up", "members", "stopped", "joined"}
ServiceThread == Service!ServiceThreads

ServiceTypes ==
    /\ kind \in {"server", "client"}
    /\ switching \in 0..MaxThreads /\ pools \in {0, 1, 2}
    /\ job \in [ServiceThread -> {"out", "idle", "handling", "verifying"}]
    /\ onset \in [ServiceThread -> Lives]
    /\ stopped \in BOOLEAN /\ life \in Lives
    /\ sqlPool \in Seq(1..PoolSize)
    /\ inHand \in [ServiceThread -> 0..PoolSize] /\ sql_conn \in 0..PoolSize

(* Every connection has exactly one holder: the pool, the thread that      *)
(* verifies a user, the server.                                            *)
OneHolder ==
    /\ frontOfNone = FALSE
    /\ \A i, j \in DOMAIN sqlPool : sqlPool[i] = sqlPool[j] => i = j
    /\ \A i \in DOMAIN sqlPool : sqlPool[i] # sql_conn
    /\ \A i \in DOMAIN sqlPool, t \in ServiceThread : sqlPool[i] # inHand[t]
    /\ \A t, u \in ServiceThread : inHand[t] # 0 /\ inHand[t] = inHand[u] => t = u
    /\ \A t \in ServiceThread : inHand[t] # 0 => inHand[t] # sql_conn
    /\ \A t \in ServiceThread : inHand[t] # 0 <=> job[t] = "verifying"
NoneLost ==
    \A c \in 1..PoolSize :
        \/ \E i \in DOMAIN sqlPool : sqlPool[i] = c
        \/ \E t \in ServiceThread : inHand[t] = c
        \/ sql_conn = c

(* No more threads than switch_thread_solution may ask for.                *)
ThreadsBounded == job[MaxThreads + 1] = "out"

(* A thread pool can only be joined when the io_context is stopped.        *)
PoolsHonest ==
    /\ pools = 0 => kind = "client" /\ Service!AllOut
    /\ pools > 0 /\ ~stopped => job[1] # "out"
    /\ pools < 2 \/ stopped
    /\ switching # 0 => pools < 2

(* What has happened when the members are gone.                            *)
EndHonest ==
    /\ life # "up" => switching = 0
    /\ life # "up" /\ kind = "server" => stopped
    /\ life \in {"stopped", "joined"} => stopped
    /\ life = "up" => sql_conn # 0
    /\ life = "joined" => Service!AllOut
    /\ \A t \in ServiceThread : onset[t] \in (IF kind = "server" THEN {"up"} ELSE {"up", "members"})
    /\ touched \subseteq (IF kind = "server" THEN {"up"} ELSE {"up", "members"})

ServiceInv == ServiceTypes /\ OneHolder /\ NoneLost /\ ThreadsBounded /\ PoolsHonest /\ EndHonest

LEMMA ServiceThreadsAre == ServiceThread = 1..(MaxThreads + 1) /\ 1 \in ServiceThread /\ MaxThreads + 1 \in ServiceThread
  BY ServiceAssumption DEF ServiceThread, Service!ServiceThreads

LEMMA ServiceInit == Service!Init => ServiceInv
<1> SUFFICES ASSUME Service!Init PROVE ServiceInv
  OBVIOUS
<1> USE ServiceAssumption, ServiceThreadsAre DEF ServiceThread
<1>1. /\ sqlPool = [i \in 1..(PoolSize - 1) |-> i] /\ PoolSize - 1 \in Nat
      /\ sqlPool \in Seq(1..PoolSize) /\ DOMAIN sqlPool = 1..(PoolSize - 1)
  BY DEF Service!Init
<1>2. ServiceTypes
  <2>1. job \in [ServiceThread -> {"out", "idle", "handling", "verifying"}]
    BY DEF Service!Init
  <2>2. onset \in [ServiceThread -> Lives] /\ inHand \in [ServiceThread -> 0..PoolSize]
    BY DEF Service!Init, Lives, Service!NoConnection
  <2>3. sql_conn \in 0..PoolSize /\ switching \in 0..MaxThreads /\ pools \in {0, 1, 2}
    BY DEF Service!Init
  <2>4. QED
    BY <1>1, <2>1, <2>2, <2>3 DEF Service!Init, ServiceTypes, Lives
<1>3. OneHolder
  BY <1>1 DEF Service!Init, OneHolder, Service!NoConnection
<1>4. NoneLost
  <2>1. ASSUME NEW c \in 1..PoolSize PROVE c \in 1..(PoolSize - 1) \/ c = PoolSize
    OBVIOUS
  <2>2. QED
    BY <1>1, <2>1 DEF Service!Init, NoneLost
<1>5. ThreadsBounded /\ PoolsHonest /\ EndHonest
  BY DEF Service!Init, ThreadsBounded, PoolsHonest, EndHonest, Service!AllOut
<1>6. QED
  BY <1>2, <1>3, <1>4, <1>5 DEF ServiceInv

(* Why the pool is never empty when a connection is wanted: at most one    *)
(* for each of the other threads and one for the server are out.           *)
LEMMA PoolSuffices ==
    ASSUME ServiceInv, NEW t \in ServiceThread, job[t] = "handling"
    PROVE  sqlPool # <<>>
<1> SUFFICES ASSUME sqlPool = <<>> PROVE FALSE
  OBVIOUS
<1> DEFINE Others == (1..MaxThreads) \ {t}
           Places == Others \cup {0}
           f == [p \in Places |-> IF p = 0 THEN sql_conn ELSE inHand[p]]
<1>1. /\ ServiceTypes /\ OneHolder /\ NoneLost /\ ThreadsBounded
  BY DEF ServiceInv
<1>2. t \in 1..MaxThreads
  BY <1>1, ServiceAssumption, ServiceThreadsAre DEF ThreadsBounded
<1>3. IsFiniteSet(1..MaxThreads) /\ Cardinality(1..MaxThreads) = MaxThreads
  BY ServiceAssumption, FS_Interval
<1>4. IsFiniteSet(Others) /\ Cardinality(Others) = MaxThreads - 1
  BY <1>2, <1>3, FS_RemoveElement
<1>5. IsFiniteSet(Places) /\ Cardinality(Places) = MaxThreads
  <2>1. 0 \notin Others
    OBVIOUS
  <2>2. IsFiniteSet(Places) /\ Cardinality(Places) = Cardinality(Others) + 1
    BY <1>4, <2>1, FS_AddElement
  <2>3. QED
    BY <1>4, <2>2, ServiceAssumption
<1>6. 1..PoolSize \subseteq {f[p] : p \in Places}
  <2> SUFFICES ASSUME NEW c \in 1..PoolSize PROVE \E p \in Places : f[p] = c
    OBVIOUS
  <2>1. CASE sql_conn = c
    BY <2>1
  <2>2. CASE \E u \in ServiceThread : inHand[u] = c
    <3>1. PICK u \in ServiceThread : inHand[u] = c
      BY <2>2
    <3>2. job[u] = "verifying"
      BY <1>1, <3>1 DEF OneHolder
    <3>3. u # t /\ u # MaxThreads + 1
      BY <1>1, <3>2 DEF ThreadsBounded
    <3>4. u \in Others /\ u # 0
      BY <3>3, ServiceAssumption, ServiceThreadsAre
    <3>5. QED
      BY <3>1, <3>4
  <2>3. DOMAIN sqlPool = {}
    OBVIOUS
  <2>4. QED
    BY <1>1, <2>1, <2>2, <2>3 DEF NoneLost
<1>7. /\ IsFiniteSet({f[p] : p \in Places})
      /\ Cardinality({f[p] : p \in Places}) <= Cardinality(Places)
      /\ Cardinality({f[p] : p \in Places}) \in Nat
  <2> HIDE DEF f, Places
  <2>1. QED
    BY <1>5, ImageCounted
<1>8. Cardinality(1..PoolSize) <= Cardinality({f[p] : p \in Places})
  <2> HIDE DEF f, Places
  <2>1. QED
    BY <1>6, <1>7, FS_Subset
<1>9. Cardinality(1..PoolSize) = PoolSize
  BY ServiceAssumption, FS_Interval
<1>10. QED
  <2> HIDE DEF f, Places
  <2>1. QED
    BY <1>5, <1>7, <1>8, <1>9, ServiceAssumption

LEMMA NoConnectionIn ==
    ASSUME NEW s \in Seq(1..PoolSize), NEW i \in DOMAIN s
    PROVE  s[i] # 0
<1>1. s[i] \in 1..PoolSize
  BY SeqElements
<1>2. QED
  BY <1>1, ServiceAssumption

(* The first connection of the pool, and the rest.                         *)
LEMMA PoolTail ==
    ASSUME ServiceTypes, sqlPool # <<>>
    PROVE  /\ Tail(sqlPool) \in Seq(1..PoolSize) /\ Head(sqlPool) \in 1..PoolSize
           /\ 1 \in DOMAIN sqlPool /\ Head(sqlPool) = sqlPool[1]
           /\ \A i \in DOMAIN Tail(sqlPool) :
                 i + 1 \in DOMAIN sqlPool /\ i \in Nat /\ i + 1 # 1 /\ Tail(sqlPool)[i] = sqlPool[i + 1]
           /\ \A i \in DOMAIN sqlPool : i # 1 =>
                 i - 1 \in DOMAIN Tail(sqlPool) /\ i \in Nat /\ Tail(sqlPool)[i - 1] = sqlPool[i]
<1>1. sqlPool \in Seq(1..PoolSize)
  BY DEF ServiceTypes
<1>2. QED
  BY <1>1, SeqTail

(* A connection comes back.                                                *)
LEMMA PoolAppend ==
    ASSUME ServiceTypes, NEW c \in 1..PoolSize
    PROVE  /\ Append(sqlPool, c) \in Seq(1..PoolSize)
           /\ DOMAIN Append(sqlPool, c) = DOMAIN sqlPool \cup {Len(sqlPool) + 1}
           /\ Len(sqlPool) + 1 \notin DOMAIN sqlPool
           /\ Append(sqlPool, c)[Len(sqlPool) + 1] = c
           /\ \A i \in DOMAIN sqlPool : Append(sqlPool, c)[i] = sqlPool[i]
<1>1. sqlPool \in Seq(1..PoolSize)
  BY DEF ServiceTypes
<1>2. QED
  BY <1>1

LEMMA VerifyStep ==
    ASSUME ServiceInv, NEW t \in ServiceThread, Service!verifyUserInfo(t)
    PROVE  ServiceInv'
<1>1. ServiceTypes /\ OneHolder /\ NoneLost /\ ThreadsBounded /\ PoolsHonest /\ EndHonest
  BY DEF ServiceInv
<1>2. /\ kind = "server" /\ job[t] = "handling" /\ job' = [job EXCEPT ![t] = "verifying"]
      /\ UNCHANGED <<kind, switching, pools, onset, stopped, life, sql_conn, touched>>
  BY DEF Service!verifyUserInfo, Service!poolOnes
<1>3. sqlPool # <<>>
  BY <1>2, PoolSuffices
<1>4. /\ inHand' = [inHand EXCEPT ![t] = Head(sqlPool)] /\ sqlPool' = Tail(sqlPool)
      /\ frontOfNone' = frontOfNone
  BY <1>3 DEF Service!verifyUserInfo, Service!get_connection
<1>5. /\ Tail(sqlPool) \in Seq(1..PoolSize) /\ Head(sqlPool) \in 1..PoolSize
      /\ 1 \in DOMAIN sqlPool /\ Head(sqlPool) = sqlPool[1]
      /\ \A i \in DOMAIN Tail(sqlPool) :
            i + 1 \in DOMAIN sqlPool /\ i \in Nat /\ i + 1 # 1 /\ Tail(sqlPool)[i] = sqlPool[i + 1]
      /\ \A i \in DOMAIN sqlPool : i # 1 =>
            i - 1 \in DOMAIN Tail(sqlPool) /\ i \in Nat /\ Tail(sqlPool)[i - 1] = sqlPool[i]
  BY <1>1, <1>3, PoolTail
<1>6. /\ job' \in [ServiceThread -> {"out", "idle", "handling", "verifying"}]
      /\ job'[t] = "verifying" /\ \A u \in ServiceThread : u # t => job'[u] = job[u]
  BY <1>1, <1>2 DEF ServiceTypes
<1>7. /\ inHand' \in [ServiceThread -> 0..PoolSize]
      /\ inHand'[t] = sqlPool[1] /\ sqlPool[1] # 0
      /\ \A u \in ServiceThread : u # t => inHand'[u] = inHand[u]
  BY <1>1, <1>4, <1>5 DEF ServiceTypes
<1>8. inHand[t] = 0
  BY <1>1, <1>2 DEF OneHolder
<1>9. ServiceTypes'
  BY <1>1, <1>2, <1>4, <1>5, <1>6, <1>7 DEF ServiceTypes
<1>10. OneHolder'
  BY <1>1, <1>2, <1>4, <1>5, <1>6, <1>7 DEF OneHolder
<1>11. NoneLost'
  <2> SUFFICES ASSUME NEW c \in 1..PoolSize
               PROVE  \/ \E i \in DOMAIN sqlPool' : sqlPool'[i] = c
                      \/ \E u \in ServiceThread : inHand'[u] = c
                      \/ sql_conn' = c
    BY DEF NoneLost
  <2>1. CASE \E i \in DOMAIN sqlPool : sqlPool[i] = c
    <3>1. PICK i \in DOMAIN sqlPool : sqlPool[i] = c
      BY <2>1
    <3>2. CASE i = 1
      BY <1>7, <3>1, <3>2
    <3>3. CASE i # 1
      BY <1>4, <1>5, <3>1, <3>3
    <3>4. QED
      BY <3>2, <3>3
  <2>2. CASE \E u \in ServiceThread : inHand[u] = c
    BY <1>7, <1>8, <2>2
  <2>3. QED
    BY <1>1, <1>2, <2>1, <2>2 DEF NoneLost
<1>12. ThreadsBounded' /\ PoolsHonest' /\ EndHonest'
  <2>1. MaxThreads + 1 # t
    BY <1>1, <1>2 DEF ThreadsBounded
  <2>2. QED
    BY <1>1, <1>2, <1>6, <2>1, ServiceThreadsAre
       DEF ThreadsBounded, PoolsHonest, EndHonest, Service!AllOut, ServiceThread
<1>13. QED
  BY <1>9, <1>10, <1>11, <1>12 DEF ServiceInv

LEMMA VerifiedStep ==
    ASSUME ServiceInv, NEW t \in ServiceThread, Service!Verified(t)
    PROVE  ServiceInv'
<1>1. ServiceTypes /\ OneHolder /\ NoneLost /\ ThreadsBounded /\ PoolsHonest /\ EndHonest
  BY DEF ServiceInv
<1>2. /\ job[t] = "verifying" /\ job' = [job EXCEPT ![t] = "handling"]
      /\ sqlPool' = Append(sqlPool, inHand[t]) /\ inHand' = [inHand EXCEPT ![t] = 0]
      /\ UNCHANGED <<kind, switching, pools, onset, stopped, life, sql_conn, frontOfNone, touched>>
  BY DEF Service!Verified, Service!poolOnes, Service!release_connections, Service!NoConnection
<1>3. inHand[t] \in 1..PoolSize
  BY <1>1, <1>2, ServiceAssumption DEF ServiceTypes, OneHolder
<1>4. PICK n : n = Len(sqlPool) + 1
  OBVIOUS
<1>5. /\ sqlPool' \in Seq(1..PoolSize)
      /\ DOMAIN sqlPool' = DOMAIN sqlPool \cup {n} /\ n \notin DOMAIN sqlPool
      /\ sqlPool'[n] = inHand[t] /\ \A i \in DOMAIN sqlPool : sqlPool'[i] = sqlPool[i]
  BY <1>1, <1>2, <1>3, <1>4, PoolAppend
<1>6. /\ job' \in [ServiceThread -> {"out", "idle", "handling", "verifying"}]
      /\ job'[t] = "handling" /\ \A u \in ServiceThread : u # t => job'[u] = job[u]
  BY <1>1, <1>2 DEF ServiceTypes
<1>7. /\ inHand' \in [ServiceThread -> 0..PoolSize]
      /\ inHand'[t] = 0 /\ \A u \in ServiceThread : u # t => inHand'[u] = inHand[u]
  BY <1>1, <1>2, ServiceAssumption DEF ServiceTypes
<1>8. ServiceTypes'
  BY <1>1, <1>2, <1>5, <1>6, <1>7 DEF ServiceTypes
<1>9. OneHolder'
  <2>1. \A i, j \in DOMAIN sqlPool' : sqlPool'[i] = sqlPool'[j] => i = j
    BY <1>1, <1>5 DEF OneHolder
  <2>2. \A i \in DOMAIN sqlPool' : sqlPool'[i] # sql_conn
    BY <1>1, <1>3, <1>5 DEF OneHolder
  <2>3. ASSUME NEW i \in DOMAIN sqlPool', NEW u \in ServiceThread PROVE sqlPool'[i] # inHand'[u]
    <3>1. sqlPool'[i] # 0
      BY <1>5, NoConnectionIn
    <3>2. QED
      BY <1>1, <1>3, <1>5, <1>7, <3>1 DEF OneHolder
  <2>4. QED
    BY <1>1, <1>2, <1>6, <1>7, <2>1, <2>2, <2>3 DEF OneHolder
<1>10. NoneLost'
  BY <1>1, <1>2, <1>5, <1>7 DEF NoneLost
<1>11. ThreadsBounded' /\ PoolsHonest' /\ EndHonest'
  <2>1. MaxThreads + 1 # t
    BY <1>1, <1>2 DEF ThreadsBounded
  <2>2. QED
    BY <1>1, <1>2, <1>6, <2>1, ServiceThreadsAre
       DEF ThreadsBounded, PoolsHonest, EndHonest, Service!AllOut, ServiceThread
<1>12. QED
  BY <1>8, <1>9, <1>10, <1>11 DEF ServiceInv

(* The other steps of a thread leave the connections where they are.       *)
LEMMA HandlerStep ==
    ASSUME ServiceInv, NEW t \in ServiceThread,
           Service!BeginHandler(t) \/ Service!EndHandler(t) \/ Service!LeaveRun(t)
    PROVE  ServiceInv'
<1>1. ServiceTypes /\ OneHolder /\ NoneLost /\ ThreadsBounded /\ PoolsHonest /\ EndHonest
  BY DEF ServiceInv
<1>2. /\ job[t] \in {"idle", "handling"}
      /\ UNCHANGED <<kind, switching, pools, stopped, life, sqlPool, inHand, sql_conn, frontOfNone>>
  BY DEF Service!BeginHandler, Service!EndHandler, Service!LeaveRun, Service!poolOnes, Service!sqlOnes
<1>3. PICK to \in {"idle", "handling", "out"} :
         job' = [job EXCEPT ![t] = to] /\ (to = "out" => stopped)
  BY DEF Service!BeginHandler, Service!EndHandler, Service!LeaveRun
<1>4. /\ job' \in [ServiceThread -> {"out", "idle", "handling", "verifying"}]
      /\ job'[t] = to /\ \A u \in ServiceThread : u # t => job'[u] = job[u]
  BY <1>1, <1>3 DEF ServiceTypes
<1>5. /\ onset' \in [ServiceThread -> Lives]
      /\ \A u \in ServiceThread : onset'[u] \in {onset[u], life} /\ (onset'[u] # onset[u] => ~stopped)
      /\ touched' \subseteq touched \cup {onset[t]}
  BY <1>1 DEF Service!BeginHandler, Service!EndHandler, Service!LeaveRun, ServiceTypes
<1>6. MaxThreads + 1 # t
  BY <1>1, <1>2 DEF ThreadsBounded
<1>7. ServiceTypes'
  BY <1>1, <1>2, <1>4, <1>5 DEF ServiceTypes
<1>8. OneHolder'
  BY <1>1, <1>2, <1>4 DEF OneHolder
<1>9. NoneLost'
  BY <1>1, <1>2 DEF NoneLost
<1>10. ThreadsBounded'
  BY <1>1, <1>4, <1>6, ServiceThreadsAre DEF ThreadsBounded
<1>11. PoolsHonest'
  <2>1. ~Service!AllOut
    BY <1>2 DEF Service!AllOut, ServiceThread
  <2>2. QED
    BY <1>1, <1>2, <1>3, <1>4, <2>1, ServiceThreadsAre DEF PoolsHonest
<1>12. EndHonest'
  <2>1. ~Service!AllOut
    BY <1>2 DEF Service!AllOut, ServiceThread
  <2>2. \A u \in ServiceThread : onset'[u] \in (IF kind = "server" THEN {"up"} ELSE {"up", "members"})
    BY <1>1, <1>5 DEF EndHonest, ServiceTypes, Lives
  <2>3. touched' \subseteq (IF kind = "server" THEN {"up"} ELSE {"up", "members"})
    BY <1>1, <1>5 DEF EndHonest
  <2>4. QED
    BY <1>1, <1>2, <2>1, <2>2, <2>3 DEF EndHonest
<1>13. QED
  BY <1>7, <1>8, <1>9, <1>10, <1>11, <1>12 DEF ServiceInv

LEMMA SwitchStep ==
    ASSUME ServiceInv, NEW count \in 1..(MaxThreads + 1), Service!switch_thread_solution(count)
    PROVE  ServiceInv'
  BY ServiceAssumption
     DEF Service!switch_thread_solution, Service!sqlOnes, ServiceInv, ServiceTypes, OneHolder,
         NoneLost, ThreadsBounded, PoolsHonest, EndHonest, Service!AllOut

LEMMA SwitchedStep ==
    ASSUME ServiceInv, Service!Switched
    PROVE  ServiceInv'
<1>1. ServiceTypes /\ OneHolder /\ NoneLost /\ ThreadsBounded /\ PoolsHonest /\ EndHonest
  BY DEF ServiceInv
<1>2. /\ switching # 0 /\ (pools = 0 \/ Service!AllOut) /\ switching' = 0 /\ pools' = pools + 1
      /\ job' = [t \in ServiceThread |-> IF t <= switching THEN "idle" ELSE "out"]
      /\ UNCHANGED <<kind, onset, stopped, life, sqlPool, inHand, sql_conn, frontOfNone, touched>>
  BY DEF Service!Switched, Service!start_threadpool, Service!sqlOnes, ServiceThread
<1>3. Service!AllOut /\ \A t \in ServiceThread : job[t] = "out"
  BY <1>1, <1>2 DEF PoolsHonest, Service!AllOut, ServiceThread
<1>4. switching \in 1..MaxThreads
  BY <1>1, <1>2, ServiceAssumption DEF ServiceTypes
<1>5. /\ job' \in [ServiceThread -> {"out", "idle", "handling", "verifying"}]
      /\ job'[1] = "idle" /\ job'[MaxThreads + 1] = "out"
      /\ \A t \in ServiceThread : job'[t] # "verifying"
  BY <1>2, <1>4, ServiceAssumption, ServiceThreadsAre
<1>6. pools \in {0, 1} /\ pools' \in {1, 2} /\ (pools = 1 => stopped)
  BY <1>1, <1>2, <1>3, ServiceThreadsAre DEF PoolsHonest, ServiceTypes
<1>7. ServiceTypes'
  BY <1>1, <1>2, <1>5, <1>6, ServiceAssumption DEF ServiceTypes
<1>8. OneHolder'
  BY <1>1, <1>2, <1>3, <1>5 DEF OneHolder
<1>9. NoneLost'
  BY <1>1, <1>2 DEF NoneLost
<1>10. ThreadsBounded' /\ PoolsHonest'
  BY <1>2, <1>5, <1>6 DEF ThreadsBounded, PoolsHonest
<1>11. EndHonest'
  BY <1>1, <1>2 DEF EndHonest
<1>12. QED
  BY <1>7, <1>8, <1>9, <1>10, <1>11 DEF ServiceInv

(* The window is closed, the context is stopped, the threads are joined.   *)
LEMMA ShutdownStep ==
    ASSUME ServiceInv,
           Service!shutdown \/ Service!StopContext \/ Service!join_all_thread
    PROVE  ServiceInv'
<1>1. ServiceTypes /\ OneHolder /\ NoneLost /\ ThreadsBounded /\ PoolsHonest /\ EndHonest
  BY DEF ServiceInv
<1>2. UNCHANGED <<kind, switching, pools, job, onset, sqlPool, inHand, sql_conn, frontOfNone, touched>>
  BY DEF Service!shutdown, Service!StopContext, Service!join_all_thread, Service!poolOnes, Service!sqlOnes
<1>3. /\ stopped' \in BOOLEAN /\ (stopped => stopped') /\ life' \in Lives
      /\ life' = "up" <=> life = "up"
      /\ life' \in {"stopped", "joined"} => stopped'
      /\ life' = "joined" => Service!AllOut
  BY <1>1 DEF Service!shutdown, Service!StopContext, Service!join_all_thread, ServiceTypes, EndHonest, Lives
<1>4. ServiceTypes' /\ OneHolder' /\ NoneLost' /\ ThreadsBounded'
  BY <1>1, <1>2, <1>3 DEF ServiceTypes, OneHolder, NoneLost, ThreadsBounded
<1>5. PoolsHonest'
  BY <1>1, <1>2, <1>3 DEF PoolsHonest, Service!AllOut
<1>6. EndHonest'
  BY <1>1, <1>2, <1>3 DEF EndHonest, Service!AllOut
<1>7. QED
  BY <1>4, <1>5, <1>6 DEF ServiceInv

(* The server gives back the connection it has kept.                       *)
LEMMA DestroyStep ==
    ASSUME ServiceInv, Service!DestroyMembers
    PROVE  ServiceInv'
<1>1. ServiceTypes /\ OneHolder /\ NoneLost /\ ThreadsBounded /\ PoolsHonest /\ EndHonest
  BY DEF ServiceInv
<1>2. /\ life = "up" /\ switching = 0 /\ (kind = "server" => stopped) /\ life' = "members"
      /\ UNCHANGED <<kind, switching, pools, job, onset, stopped, inHand, frontOfNone, touched>>
  BY DEF Service!DestroyMembers, Service!poolOnes
<1>3. sql_conn # 0 /\ sql_conn \in 1..PoolSize
  BY <1>1, <1>2, ServiceAssumption DEF EndHonest, ServiceTypes
<1>4. ThreadsBounded' /\ PoolsHonest'
  BY <1>1, <1>2 DEF ThreadsBounded, PoolsHonest, Service!AllOut
<1>5. EndHonest'
  BY <1>1, <1>2 DEF EndHonest
<1>6. CASE kind = "client"
  <2>1. UNCHANGED <<sqlPool, sql_conn>>
    BY <1>6 DEF Service!DestroyMembers
  <2>2. ServiceTypes' /\ OneHolder' /\ NoneLost'
    BY <1>1, <1>2, <2>1 DEF ServiceTypes, OneHolder, NoneLost, Lives
  <2>3. QED
    BY <1>4, <1>5, <2>2 DEF ServiceInv
<1>7. CASE kind = "server"
  <2>1. sqlPool' = Append(sqlPool, sql_conn) /\ sql_conn' = 0
    BY <1>7 DEF Service!DestroyMembers, Service!NoConnection
  <2>2. PICK n : n = Len(sqlPool) + 1
    OBVIOUS
  <2>3. /\ sqlPool' \in Seq(1..PoolSize)
        /\ DOMAIN sqlPool' = DOMAIN sqlPool \cup {n} /\ n \notin DOMAIN sqlPool
        /\ sqlPool'[n] = sql_conn /\ \A i \in DOMAIN sqlPool : sqlPool'[i] = sqlPool[i]
    BY <1>1, <1>3, <2>1, <2>2, PoolAppend
  <2>4. ServiceTypes'
    BY <1>1, <1>2, <2>1, <2>3, ServiceAssumption DEF ServiceTypes, Lives
  <2>5. OneHolder'
    <3>1. \A i \in DOMAIN sqlPool' : sqlPool'[i] # 0
      BY <2>3, NoConnectionIn
    <3>2. QED
      BY <1>1, <1>2, <1>3, <2>1, <2>3, <3>1 DEF OneHolder
  <2>6. NoneLost'
    BY <1>1, <1>2, <2>1, <2>3 DEF NoneLost
  <2>7. QED
    BY <1>4, <1>5, <2>4, <2>5, <2>6 DEF ServiceInv
<1>8. QED
  BY <1>1, <1>6, <1>7 DEF ServiceTypes

LEMMA ServiceNext == ServiceInv /\ [Service!Next]_(Service!serviceVars) => ServiceInv'
<1> SUFFICES ASSUME ServiceInv, [Service!Next]_(Service!serviceVars)
             PROVE  ServiceInv'
  OBVIOUS
<1>1. CASE UNCHANGED Service!serviceVars
  BY <1>1 DEF Service!serviceVars, ServiceInv, ServiceTypes, OneHolder, NoneLost,
              ThreadsBounded, PoolsHonest, EndHonest, Service!AllOut
<1>2. ASSUME NEW t \in ServiceThread,
             \/ Service!BeginHandler(t) \/ Service!verifyUserInfo(t) \/ Service!Verified(t)
             \/ Service!EndHandler(t) \/ Service!LeaveRun(t)
      PROVE  ServiceInv'
  BY <1>2, HandlerStep, VerifyStep, VerifiedStep
<1>3. QED
  BY <1>1, <1>2, SwitchStep, SwitchedStep, ShutdownStep, DestroyStep DEF Service!Next, ServiceThread

(* The invariant counted: ServiceHonest speaks of sets and their sizes.    *)
LEMMA ServiceCounted == ServiceInv => Service!ServiceHonest
<1> SUFFICES ASSUME ServiceInv PROVE Service!ServiceHonest
  OBVIOUS
<1>1. ServiceTypes /\ OneHolder /\ NoneLost /\ PoolsHonest /\ EndHonest
  BY DEF ServiceInv
<1>2. \A S : Service!Cardinality(S) = Cardinality(S)
  BY DEF Service!Cardinality, Cardinality
<1>3. Len(sqlPool) = Service!Cardinality(Service!Pooled)
  BY <1>1, <1>2, SeqElementsCounted DEF ServiceTypes, OneHolder, Service!Pooled
<1>4. \A t \in Service!Using : t \in ServiceThread /\ inHand[t] # 0
  BY DEF Service!Using, ServiceThread, Service!NoConnection
<1>5. Service!Pooled \cap Service!InUse = {}
  <2>1. ASSUME NEW i \in DOMAIN sqlPool PROVE sqlPool[i] \notin Service!InUse
    BY <1>1, <1>4 DEF OneHolder, Service!InUse, Service!NoConnection
  <2>2. QED
    BY <2>1 DEF Service!Pooled
<1>6. Service!Pooled \cup Service!InUse = 1..PoolSize
  <2>1. Service!Pooled \subseteq 1..PoolSize
    <3>1. sqlPool \in Seq(1..PoolSize)
      BY <1>1 DEF ServiceTypes
    <3>2. QED
      BY <3>1, SeqElements DEF Service!Pooled
  <2>2. Service!InUse \subseteq 1..PoolSize
    BY <1>1, <1>4, ServiceAssumption DEF ServiceTypes, Service!InUse, Service!NoConnection
  <2>3. ASSUME NEW c \in 1..PoolSize PROVE c \in Service!Pooled \cup Service!InUse
    <3>1. CASE \E i \in DOMAIN sqlPool : sqlPool[i] = c
      BY <3>1 DEF Service!Pooled
    <3>2. CASE \E t \in ServiceThread : inHand[t] = c
      BY <3>2 DEF Service!InUse, Service!Using, ServiceThread, Service!NoConnection
    <3>3. CASE sql_conn = c
      BY <3>3 DEF Service!InUse, Service!NoConnection
    <3>4. QED
      BY <1>1, <3>1, <3>2, <3>3 DEF NoneLost
  <2>4. QED
    BY <2>1, <2>2, <2>3
<1>7. Service!Cardinality({inHand[t] : t \in Service!Using}) = Service!Cardinality(Service!Using)
  <2>1. IsFiniteSet(Service!ServiceThreads)
    BY ServiceAssumption, FS_Interval DEF Service!ServiceThreads
  <2>2. IsFiniteSet(Service!Using)
    BY <2>1, FS_Subset DEF Service!Using
  <2>3. \A t, u \in Service!Using : inHand[t] = inHand[u] => t = u
    BY <1>1, <1>4 DEF OneHolder
  <2>4. QED
    BY <1>2, <2>2, <2>3, ImageCounted
<1>8. ~frontOfNone /\ (pools < 2 \/ stopped) /\ (life = "joined" => Service!AllOut)
  BY <1>1 DEF OneHolder, PoolsHonest, EndHonest
<1>9. /\ kind = "server" => touched \subseteq {"up"}
      /\ kind = "client" => touched \subseteq {"up", "members"}
  BY <1>1 DEF EndHonest
<1>10. QED
  BY <1>3, <1>5, <1>6, <1>7, <1>8, <1>9 DEF Service!ServiceHonest

(* For any number of threads and a pool with more connections than threads *)
(* may be asked for: a connection has one holder, none is lost, the pool   *)
(* is never empty when one is taken; no second thread pool is made while   *)
(* the io_context serves; and which handlers can meet members that are     *)
(* gone (switch_thread_solution, shut_down and the destructors of          *)
(* tcp_service, server and client).                                        *)
THEOREM ServiceHonestTheorem == Spec => []ServiceHonest
<1>1. Init => ServiceInv
  BY ServiceInit DEF Init
<1>2. ServiceInv => ServiceHonest
  BY ServiceCounted DEF ServiceHonest
<1>3. ASSUME [Next]_partsVars PROVE [Service!Next]_(Service!serviceVars)
  BY <1>3 DEF Next, SerialStep, WindowStep, PoolStep, ConversionStep, ClockStep, FilmStep,
         ResizeStep, WriteStep, ChatStep, ServiceStep, UtilityStep, partsVars, toolOnes,
         playerOnes, netOnes, serviceOnes, Service!serviceVars
<1>4. QED
  BY <1>1, <1>2, <1>3, ServiceNext, PTL DEF Spec

----------------------------------------------------------------------------
(***************************************************************************)
(* The workers of the utility thread pool.  What makes SleepersExplained   *)
(* inductive is what the mutex gives: a worker between its test and its    *)
(* sleep still has no task before it, since submit cannot push; and once   *)
(* stop is set nobody else gets there.                                     *)
(***************************************************************************)
UtilityPlaces == {"test", "lock", "about", "asleep", "run", "gone"}

UtilityTypes ==
    /\ worker \in [PoolWorkers -> UtilityPlaces]
    /\ submitter \in [Submitters -> {"out", "notify"}]
    /\ ending \in {"no", "notify", "join", "done"}
    /\ queued \in Nat

(* A worker about to sleep has no task before it, and after stop was set   *)
(* it is one that was there at that moment.                                *)
AboutToSleep ==
    \A w \in PoolWorkers : worker[w] = "about" =>
        /\ queued = 0
        /\ Utility!stop => w \in missed

(* The two halves of SleepersExplained, member by member.                  *)
SomebodyComes ==
    ending = "no" /\ queued > 0 /\ (\A w \in PoolWorkers : worker[w] = "asleep")
        => \E s \in Submitters : submitter[s] = "notify"
LeftAsleep ==
    ending = "join" => \A w \in PoolWorkers : worker[w] = "asleep" => w \in missed

UtilityInv == UtilityTypes /\ AboutToSleep /\ SomebodyComes /\ LeftAsleep

(* One worker moves and nobody else: what a step of its own may disturb.   *)
LEMMA WorkerGoes ==
    ASSUME UtilityTypes, NEW w \in PoolWorkers, NEW from, NEW to \in UtilityPlaces, Utility!Goes(w, from, to)
    PROVE  /\ worker' \in [PoolWorkers -> UtilityPlaces]
           /\ worker[w] = from /\ worker'[w] = to
           /\ \A v \in PoolWorkers : v # w => worker'[v] = worker[v]
  BY DEF UtilityTypes, Utility!Goes

LEMMA UtilityInit == ASSUME PoolWorkers # {}, Utility!Init PROVE UtilityInv
  BY DEF Utility!Init, UtilityInv, UtilityTypes, UtilityPlaces, AboutToSleep, SomebodyComes, LeftAsleep, Utility!stop

(* The steps of a worker that leave it awake.                              *)
LEMMA UtilityAwake ==
    ASSUME UtilityInv, NEW w \in PoolWorkers, NEW from, NEW to \in UtilityPlaces \ {"about", "asleep"},
           Utility!Goes(w, from, to), queued' \in Nat, queued = 0 => queued' = 0,
           UNCHANGED <<submitter, ending, missed>>
    PROVE  UtilityInv'
<1>1. /\ worker' \in [PoolWorkers -> UtilityPlaces]
      /\ worker'[w] = to
      /\ \A v \in PoolWorkers : v # w => worker'[v] = worker[v]
  BY WorkerGoes DEF UtilityInv
<1>2. UtilityTypes'
  BY <1>1 DEF UtilityInv, UtilityTypes
<1>3. AboutToSleep'
  BY <1>1 DEF UtilityInv, AboutToSleep, Utility!stop
<1>4. SomebodyComes'
  BY <1>1 DEF SomebodyComes
<1>5. LeftAsleep'
  BY <1>1 DEF UtilityInv, LeftAsleep
<1>6. QED
  BY <1>2, <1>3, <1>4, <1>5 DEF UtilityInv

LEMMA UtilityTakeOrSleep ==
    ASSUME UtilityInv, NEW w \in PoolWorkers, Utility!TakeOrSleep(w)
    PROVE  UtilityInv'
<1>1. CASE queued > 0
  <2>1. /\ Utility!Goes(w, "lock", "run") /\ queued' \in Nat
        /\ UNCHANGED <<submitter, ending, missed>>
    BY <1>1 DEF Utility!TakeOrSleep, UtilityInv, UtilityTypes
  <2>2. QED
    BY <1>1, <2>1, UtilityAwake DEF UtilityPlaces
<1>2. CASE queued = 0 /\ Utility!stop
  <2>1. Utility!Goes(w, "lock", "gone") /\ UNCHANGED <<submitter, ending, queued, missed>>
    BY <1>2 DEF Utility!TakeOrSleep
  <2>2. QED
    BY <1>2, <2>1, UtilityAwake DEF UtilityPlaces, UtilityInv, UtilityTypes
<1>3. CASE queued = 0 /\ ~Utility!stop
  <2>1. Utility!Goes(w, "lock", "about") /\ UNCHANGED <<submitter, ending, queued, missed>>
    BY <1>3 DEF Utility!TakeOrSleep
  <2>2. /\ worker' \in [PoolWorkers -> UtilityPlaces]
        /\ worker'[w] = "about"
        /\ \A v \in PoolWorkers : v # w => worker'[v] = worker[v]
    BY <2>1, WorkerGoes DEF UtilityInv, UtilityPlaces
  <2>3. UtilityTypes'
    BY <2>1, <2>2 DEF UtilityInv, UtilityTypes
  <2>4. AboutToSleep'
    BY <1>3, <2>1, <2>2 DEF UtilityInv, AboutToSleep, Utility!stop
  <2>5. SomebodyComes'
    BY <2>2 DEF SomebodyComes
  <2>6. LeftAsleep'
    BY <2>1, <2>2 DEF UtilityInv, LeftAsleep
  <2>7. QED
    BY <2>3, <2>4, <2>5, <2>6 DEF UtilityInv
<1>4. QED
  BY <1>1, <1>2, <1>3 DEF UtilityInv, UtilityTypes

(* Only here does AboutToSleep pay: no task is left behind by the sleep.   *)
LEMMA UtilitySleep ==
    ASSUME UtilityInv, NEW w \in PoolWorkers, Utility!Sleep(w)
    PROVE  UtilityInv'
<1>1. Utility!Goes(w, "about", "asleep") /\ UNCHANGED <<submitter, ending, queued, missed>>
  BY DEF Utility!Sleep
<1>2. /\ worker' \in [PoolWorkers -> UtilityPlaces]
      /\ worker[w] = "about" /\ worker'[w] = "asleep"
      /\ \A v \in PoolWorkers : v # w => worker'[v] = worker[v]
  BY <1>1, WorkerGoes DEF UtilityInv, UtilityPlaces
<1>3. queued = 0 /\ (Utility!stop => w \in missed)
  BY <1>2 DEF UtilityInv, AboutToSleep
<1>4. UtilityTypes'
  BY <1>1, <1>2 DEF UtilityInv, UtilityTypes
<1>5. AboutToSleep'
  BY <1>1, <1>2 DEF UtilityInv, AboutToSleep, Utility!stop
<1>6. SomebodyComes'
  BY <1>1, <1>3 DEF SomebodyComes
<1>7. LeftAsleep'
  BY <1>1, <1>2, <1>3 DEF UtilityInv, LeftAsleep, Utility!stop
<1>8. QED
  BY <1>4, <1>5, <1>6, <1>7 DEF UtilityInv

LEMMA UtilityWorker ==
    ASSUME UtilityInv, NEW w \in PoolWorkers,
           Utility!WhileNotStopped(w) \/ Utility!TakeOrSleep(w) \/ Utility!Sleep(w) \/ Utility!Spurious(w) \/ Utility!RunTask(w)
    PROVE  UtilityInv'
<1>1. queued \in Nat
  BY DEF UtilityInv, UtilityTypes
<1>2. CASE Utility!WhileNotStopped(w)
  <2>1. PICK to \in {"gone", "lock"} : Utility!Goes(w, "test", to)
    BY <1>2 DEF Utility!WhileNotStopped
  <2>2. QED
    BY <1>1, <1>2, <2>1, UtilityAwake DEF Utility!WhileNotStopped, UtilityPlaces
<1>3. CASE Utility!TakeOrSleep(w)
  BY <1>3, UtilityTakeOrSleep
<1>4. CASE Utility!Sleep(w)
  BY <1>4, UtilitySleep
<1>5. CASE Utility!Spurious(w)
  BY <1>1, <1>5, UtilityAwake DEF Utility!Spurious, UtilityPlaces
<1>6. CASE Utility!RunTask(w)
  BY <1>1, <1>6, UtilityAwake DEF Utility!RunTask, UtilityPlaces
<1>7. QED
  BY <1>2, <1>3, <1>4, <1>5, <1>6

(* submit has the mutex: nobody is between the test and the sleep.         *)
LEMMA UtilitySubmit ==
    ASSUME UtilityInv, NEW s \in Submitters, Utility!Submit(s)
    PROVE  UtilityInv'
<1>1. UtilityTypes'
  BY DEF Utility!Submit, UtilityInv, UtilityTypes
<1>2. AboutToSleep'
  BY DEF Utility!Submit, Utility!MutexHeld, AboutToSleep
<1>3. SomebodyComes'
  BY DEF Utility!Submit, UtilityInv, UtilityTypes, SomebodyComes
<1>4. LeftAsleep'
  BY DEF Utility!Submit, UtilityInv, LeftAsleep
<1>5. QED
  BY <1>1, <1>2, <1>3, <1>4 DEF UtilityInv

LEMMA UtilityNotifyOne ==
    ASSUME PoolWorkers # {}, UtilityInv, NEW s \in Submitters, Utility!NotifyOne(s)
    PROVE  UtilityInv'
<1>1. submitter' \in [Submitters -> {"out", "notify"}] /\ UNCHANGED <<ending, queued, missed>>
  BY DEF Utility!NotifyOne, UtilityInv, UtilityTypes
<1>2. CASE Utility!Asleep = {}
  <2>1. worker' = worker
    BY <1>2 DEF Utility!NotifyOne
  <2>2. SomebodyComes'
    BY <1>2, <2>1 DEF SomebodyComes, Utility!Asleep
  <2>3. QED
    BY <1>1, <2>1, <2>2 DEF UtilityInv, UtilityTypes, AboutToSleep, LeftAsleep, Utility!stop
<1>3. CASE Utility!Asleep # {}
  <2>1. PICK w \in PoolWorkers : Utility!Goes(w, "asleep", "lock")
    BY <1>3 DEF Utility!NotifyOne, Utility!Asleep
  <2>2. /\ worker' \in [PoolWorkers -> UtilityPlaces]
        /\ worker'[w] = "lock"
        /\ \A v \in PoolWorkers : v # w => worker'[v] = worker[v]
    BY <2>1, WorkerGoes DEF UtilityInv, UtilityPlaces
  <2>3. UtilityTypes'
    BY <1>1, <2>2 DEF UtilityInv, UtilityTypes
  <2>4. AboutToSleep'
    BY <1>1, <2>2 DEF UtilityInv, AboutToSleep, Utility!stop
  <2>5. SomebodyComes'
    BY <2>2 DEF SomebodyComes
  <2>6. LeftAsleep'
    BY <1>1, <2>2 DEF UtilityInv, LeftAsleep
  <2>7. QED
    BY <2>3, <2>4, <2>5, <2>6 DEF UtilityInv
<1>4. QED
  BY <1>2, <1>3

(* The destructor.  SetStop notes who is about to sleep, and NotifyAll     *)
(* leaves nobody asleep: whoever sleeps later is one of those.             *)
LEMMA UtilityEnding ==
    ASSUME UtilityInv, Utility!SetStop \/ Utility!NotifyAll \/ Utility!Join
    PROVE  UtilityInv'
<1>1. CASE Utility!SetStop
  BY <1>1 DEF Utility!SetStop, UtilityInv, UtilityTypes, AboutToSleep, SomebodyComes, LeftAsleep, Utility!stop
<1>2. CASE Utility!NotifyAll
  <2>1. /\ worker' = [w \in PoolWorkers |-> IF w \in Utility!Asleep THEN "lock" ELSE worker[w]]
        /\ ending = "notify" /\ ending' = "join"
        /\ UNCHANGED <<submitter, queued, missed>>
    BY <1>2 DEF Utility!NotifyAll, Utility!WakeAll
  <2>2. \A w \in PoolWorkers : worker'[w] # "asleep"
    BY <2>1 DEF Utility!Asleep, UtilityInv, UtilityTypes
  <2>3. \A w \in PoolWorkers : worker'[w] = "about" => worker[w] = "about"
    BY <2>1
  <2>4. UtilityTypes'
    BY <2>1 DEF UtilityInv, UtilityTypes, UtilityPlaces
  <2>5. AboutToSleep'
    BY <2>1, <2>3 DEF UtilityInv, AboutToSleep, Utility!stop
  <2>6. QED
    BY <2>1, <2>2, <2>4, <2>5 DEF UtilityInv, SomebodyComes, LeftAsleep
<1>3. CASE Utility!Join
  BY <1>3 DEF Utility!Join, UtilityInv, UtilityTypes, AboutToSleep, SomebodyComes, LeftAsleep, Utility!stop
<1>4. QED
  BY <1>1, <1>2, <1>3

LEMMA UtilityNext ==
    ASSUME PoolWorkers # {}, UtilityInv, [Utility!Next]_(Utility!utilityVars)
    PROVE  UtilityInv'
<1>1. CASE UNCHANGED Utility!utilityVars
  BY <1>1 DEF Utility!utilityVars, UtilityInv, UtilityTypes, AboutToSleep, SomebodyComes, LeftAsleep, Utility!stop
<1>2. ASSUME NEW w \in PoolWorkers,
             Utility!WhileNotStopped(w) \/ Utility!TakeOrSleep(w) \/ Utility!Sleep(w) \/ Utility!Spurious(w) \/ Utility!RunTask(w)
      PROVE  UtilityInv'
  BY <1>2, UtilityWorker
<1>3. ASSUME NEW s \in Submitters, Utility!Submit(s) \/ Utility!NotifyOne(s)
      PROVE  UtilityInv'
  BY <1>3, UtilitySubmit, UtilityNotifyOne
<1>4. CASE Utility!SetStop \/ Utility!NotifyAll \/ Utility!Join
  BY <1>4, UtilityEnding
<1>5. QED
  BY <1>1, <1>2, <1>3, <1>4 DEF Utility!Next

(* For any number of workers and submitters: a pool that has a worker      *)
(* strands no task while it lives, and whoever its destructor waits for in *)
(* vain was about to sleep when stop was set: that is the only way         *)
(* utility/ThreadPool hangs on a sleeper.                                  *)
THEOREM SleepersExplainedTheorem == Spec => []SleepersExplained
<1>1. Init => UtilityInv
  BY UtilityInit, WorkersAssumption DEF Init
<1>2. ASSUME [Next]_partsVars PROVE [Utility!Next]_(Utility!utilityVars)
  BY <1>2 DEF Next, SerialStep, WindowStep, PoolStep, ConversionStep, ClockStep, FilmStep,
     ResizeStep, WriteStep, ChatStep, ServiceStep, UtilityStep, partsVars, toolOnes,
     playerOnes, netOnes, utilityOnes, Utility!utilityVars
<1>3. ASSUME UtilityInv, [Utility!Next]_(Utility!utilityVars) PROVE UtilityInv'
  BY <1>3, UtilityNext, WorkersAssumption
<1>4. UtilityInv => SleepersExplained
  <2>1. Utility!Asleep = PoolWorkers => \A w \in PoolWorkers : worker[w] = "asleep"
    BY DEF Utility!Asleep
  <2>2. QED
    BY <2>1 DEF UtilityInv, SomebodyComes, LeftAsleep, SleepersExplained,
       Utility!SleepersExplained, Utility!Asleep
<1>5. QED
  BY <1>1, <1>2, <1>3, <1>4, PTL DEF Spec
=============================================================================
