----------------------------- MODULE RawSockets -----------------------------
(***************************************************************************)
(* The raw socket library with its client beside its server.  They share   *)
(* nothing but the network, which each module models from its own side, so *)
(* the client moves here while the server is at rest; RawServer!Spec has   *)
(* the server alone.                                                       *)
(***************************************************************************)
EXTENDS RawServer

CONSTANTS MaxPacketSize, Header, ChatLengths, LoginLength, Messages, Chats, Offlines

(* A buffer holds a header and something else, a message is not empty.     *)
ASSUME RawClientAssumption ==
    /\ MaxPacketSize \in Nat /\ Header \in 1..(MaxPacketSize - 1)
    /\ ChatLengths \subseteq Nat \ {0} /\ LoginLength \in Nat \ {0}
    /\ Messages \in Nat /\ Chats \in Nat /\ Offlines \in Nat

VARIABLES sending, nextId, asked, wire, sock, unreported, peer, isConnected,
          everythingDead, used, connect_event, login_event, stop_event, loginStatus,
          recvBuffer, stores, calls, rt, ui, verdict, logins, handled, times, full,
          early, wrong

Client == INSTANCE RawClient WITH edge <- unreported, tasks <- calls

ClientSpec == Init /\ Client!Init
              /\ [][Client!Next /\ UNCHANGED vars]_<<vars, Client!vars>>

(* A message is handed to a pool thread at most once, however the stream   *)
(* is cut, lost or reset, and shown made of all its packets, unless        *)
(* totalPacketCount is too small.                                          *)
MessagesWhole == Client!MessagesWhole

(* login() returns true only for a login that the server accepted.         *)
LoginHonest == Client!LoginHonest

(* The receive thread sleeps for ever for the two reasons named there.     *)
SleepExplained == Client!SleepExplained
=============================================================================
