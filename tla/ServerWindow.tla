----------------------------- MODULE ServerWindow -----------------------------
(***************************************************************************)
(* The chat rooms in the window of the chat server.  The table is filled   *)
(* once, from the database; the button of a row has captured the number of *)
(* the row it was made for, and the number is not looked up again when it  *)
(* is pressed.  A double click looks for the room by itemAt, which takes   *)
(* pixels, not a row and a column.                                         *)
(***************************************************************************)
EXTENDS Integers, Sequences

CONSTANTS Rooms,        \* number of rooms in chatRoomList
          MaxMessages,  \* bound on the messages kept per room
          MaxAsks       \* bound on the confirmations

VARIABLES
    table,     \* the rooms in the table, by row
    top,       \* the first row in view
    asking,    \* the button (its room) that asks for confirmation, or 0
    chatMessage,  \* room -> number of its messages in the database
    window,    \* [title, text, clicked] of the chat window
    removals   \* history: [asked, room] removed, room = 0 if there was no such row

windowVars == <<table, top, asking, chatMessage, window, removals>>
NoRoom == 0

(* init_table_chatRoom: row by row, a button in each.                      *)
Init ==
    /\ table = [row \in 1..Rooms |-> row] /\ top = 1 /\ asking = NoRoom
    /\ chatMessage = [room \in 1..Rooms |-> 0]
    /\ window = [title |-> NoRoom, text |-> 0, clicked |-> NoRoom] /\ removals = <<>>

NextRow(room) == room + 1   \* mutant: the row after the one captured
Captured(room) == room

Press(row) ==
    /\ asking = NoRoom /\ row >= top /\ Len(removals) < MaxAsks
    /\ asking' = table[row]
    /\ UNCHANGED <<table, top, chatMessage, window, removals>>

Without(row) == [i \in 1..(Len(table) - 1) |-> IF i < row THEN table[i] ELSE table[i + 1]]

(* Only the row of the table goes: the database keeps the room.            *)
onRemoveChatRoom(yes) ==
    /\ asking # NoRoom /\ asking' = NoRoom
    /\ LET row == Captured(asking)
           there == row \in DOMAIN table IN
       IF ~yes THEN UNCHANGED <<table, top, removals>>
       ELSE /\ table' = IF there THEN Without(row) ELSE table
            /\ top' = IF top > Len(table') /\ table' # <<>> THEN Len(table') ELSE top
            /\ removals' = Append(removals,
                  [asked |-> asking, room |-> IF there THEN table[row] ELSE NoRoom])
    /\ UNCHANGED <<chatMessage, window>>

Scroll(row) ==
    /\ asking = NoRoom /\ top # row /\ top' = row
    /\ UNCHANGED <<table, asking, chatMessage, window, removals>>

itemAt == table[top]

on_table_chatRoom_cellDoubleClicked(row) ==
    /\ asking = NoRoom /\ row >= top
    /\ window' = [title |-> itemAt, text |-> chatMessage[itemAt], clicked |-> table[row]]
    /\ UNCHANGED <<table, top, asking, chatMessage, removals>>

(* on_receive_chatRoom_message does nothing: the window is not refreshed.  *)
uploading_message(room) ==
    /\ chatMessage[room] < MaxMessages
    /\ chatMessage' = [chatMessage EXCEPT ![room] = @ + 1]
    /\ UNCHANGED <<table, top, asking, window, removals>>

Next ==
    \/ \E row \in DOMAIN table :
          Press(row) \/ Scroll(row) \/ on_table_chatRoom_cellDoubleClicked(row)
    \/ \E yes \in BOOLEAN : onRemoveChatRoom(yes)
    \/ \E room \in 1..Rooms : uploading_message(room)

Spec == Init /\ [][Next]_windowVars

----------------------------------------------------------------------------
GoneBefore(i) == {removals[j].room : j \in 1..(i - 1)}

(* A room is removed by its own button, unless a room above it had been    *)
(* removed, in whatever way: then a room further down goes in its place,   *)
(* or none.  The room shown in the chat window is one listed no later than *)
(* the one double clicked (the first in view), and what it shows are       *)
(* messages of that room, none that is not in the database.                *)
WindowHonest ==
    /\ \A i \in DOMAIN removals : LET r == removals[i] IN
          /\ r.room # r.asked => \E above \in GoneBefore(i) : above # NoRoom /\ above < r.asked
          /\ r.room # NoRoom => r.room >= r.asked /\ r.room \notin GoneBefore(i)
    /\ window.title # NoRoom =>
          /\ window.title <= window.clicked
          /\ window.text <= chatMessage[window.title]
=============================================================================
