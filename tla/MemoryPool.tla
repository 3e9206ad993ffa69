----------------------------- MODULE MemoryPool -----------------------------
(***************************************************************************)
(* MemoryPool_shared, as DecoderWorker has it for pictures and sound: not  *)
(* thread safe, used by the decoder, which takes objects out, and by the   *)
(* threads that drop the last reference to one (audio, render, and whoever *)
(* empties a ring), whose deleter puts the slot back.  pool_ is a std::    *)
(* queue over a deque: two positions, the first moved by pop, the second   *)
(* read, the cell there written, and then set one further by emplace.      *)
(***************************************************************************)
EXTENDS Integers, FiniteSets

CONSTANTS Droppers,    \* threads that drop objects
          FirstSize,   \* init_size (4 in the code)
          MaxObjects   \* bound on the objects taken

VARIABLES
    cells,       \* what has been written where: a position beyond is wild memory
    first, finish,
    size,
    slots,       \* slots allocated
    getter,      \* the decoder, in get
    dropper,     \* thread -> where it is in the deleter
    held,        \* objects in use: [n, slot]
    taken,       \* number of objects made
    wild,        \* memory that is no slot was handed out
    overlap      \* history: two threads were both between reading finish and
                 \* setting it

poolVars == <<cells, first, finish, size, slots, getter, dropper, held, taken,
              wild, overlap>>

Out == [at |-> "out", pos |-> 0, left |-> 0, slot |-> 0]

(* The constructor has allocated; allocate_memo doubles size every time.   *)
Init ==
    /\ cells = [i \in 1..FirstSize |-> i] /\ first = 1 /\ finish = FirstSize + 1
    /\ size = 2 * FirstSize /\ slots = FirstSize
    /\ getter = Out /\ dropper = [t \in Droppers |-> Out]
    /\ held = {} /\ taken = 0 /\ wild = FALSE /\ overlap = FALSE

Pushing == {t \in Droppers : dropper[t].at = "set"}

(* One emplace: the cell is written, then finish is set.                   *)
WriteCell(slot) ==
    cells' = [i \in DOMAIN cells \cup {finish} |-> IF i = finish THEN slot ELSE cells[i]]
SetFinish(pos) == finish' = pos + 1

----------------------------------------------------------------------------
(* get, on the decoder's thread.                                           *)

Get ==
    /\ getter.at = "out" /\ taken < MaxObjects /\ ~wild
    /\ getter' = IF first = finish THEN [Out EXCEPT !.at = "grow", !.left = size]
                                   ELSE [Out EXCEPT !.at = "front"]
    /\ UNCHANGED <<cells, first, finish, size, slots, dropper, held, taken, wild, overlap>>

(* allocate_memo, one slot at a time.                                      *)
GrowWrite ==
    /\ getter.at = "grow" /\ getter.left > 0
    /\ WriteCell(slots + 1) /\ slots' = slots + 1
    /\ getter' = [getter EXCEPT !.at = "growSet", !.pos = finish]
    /\ overlap' = (overlap \/ Pushing # {})
    /\ UNCHANGED <<first, finish, size, dropper, held, taken, wild>>

GrowSet ==
    /\ getter.at = "growSet"
    /\ SetFinish(getter.pos)
    /\ getter' = [getter EXCEPT !.at = "grow", !.left = @ - 1]
    /\ UNCHANGED <<cells, first, size, slots, dropper, held, taken, wild, overlap>>

Grown ==
    /\ getter.at = "grow" /\ getter.left = 0
    /\ size' = 2 * size /\ getter' = [getter EXCEPT !.at = "front"]
    /\ UNCHANGED <<cells, first, finish, slots, dropper, held, taken, wild, overlap>>

NotPopped == UNCHANGED first   \* mutant: front without pop
Popped == first' = first + 1

TakeFront ==
    /\ getter.at = "front" /\ Popped
    /\ IF first \in DOMAIN cells
       THEN getter' = [Out EXCEPT !.at = "make", !.slot = cells[first]] /\ UNCHANGED wild
       ELSE getter' = Out /\ wild' = TRUE
    /\ UNCHANGED <<cells, finish, size, slots, dropper, held, taken, overlap>>

Make ==
    /\ getter.at = "make" /\ getter' = Out
    /\ held' = held \cup {[n |-> taken + 1, slot |-> getter.slot]}
    /\ taken' = taken + 1
    /\ UNCHANGED <<cells, first, finish, size, slots, dropper, wild, overlap>>

(* The constructor of the object throws: the slot goes back.               *)
MakeThrows ==
    /\ getter.at = "make"
    /\ WriteCell(getter.slot)
    /\ getter' = [getter EXCEPT !.at = "throw", !.pos = finish]
    /\ taken' = taken + 1
    /\ overlap' = (overlap \/ Pushing # {})
    /\ UNCHANGED <<first, finish, size, slots, dropper, held, wild>>

Thrown ==
    /\ getter.at = "throw" /\ SetFinish(getter.pos) /\ getter' = Out
    /\ UNCHANGED <<cells, first, size, slots, dropper, held, taken, wild, overlap>>

----------------------------------------------------------------------------
(* The deleter, on any thread.                                             *)

Drop(t) ==
    /\ dropper[t].at = "out"
    /\ \E o \in held :
          /\ held' = held \ {o}
          /\ dropper' = [dropper EXCEPT ![t].at = "write", ![t].slot = o.slot]
    /\ UNCHANGED <<cells, first, finish, size, slots, getter, taken, wild, overlap>>

DropWrite(t) ==
    /\ dropper[t].at = "write"
    /\ WriteCell(dropper[t].slot)
    /\ dropper' = [dropper EXCEPT ![t].at = "set", ![t].pos = finish]
    /\ overlap' = (overlap \/ Pushing # {} \/ getter.at \in {"growSet", "throw"})
    /\ UNCHANGED <<first, finish, size, slots, getter, held, taken, wild>>

DropSet(t) ==
    /\ dropper[t].at = "set"
    /\ SetFinish(dropper[t].pos)
    /\ dropper' = [dropper EXCEPT ![t] = Out]
    /\ UNCHANGED <<cells, first, size, slots, getter, held, taken, wild, overlap>>

Next ==
    \/ Get \/ GrowWrite \/ GrowSet \/ Grown \/ TakeFront \/ Make \/ MakeThrows \/ Thrown
    \/ \E t \in Droppers : Drop(t) \/ DropWrite(t) \/ DropSet(t)

Spec == Init /\ [][Next]_poolVars

----------------------------------------------------------------------------
Queued == {cells[i] : i \in first..(finish - 1)}
Moving == {dropper[t].slot : t \in {u \in Droppers : dropper[u].at # "out"}}
          \cup (IF getter.at \in {"make", "throw"} THEN {getter.slot} ELSE {})
          \cup (IF getter.at = "growSet" THEN {slots} ELSE {})
InUse == {o.slot : o \in held}

(* The decoder and one thread that drops objects do not disturb each other *)
(* although no lock is held: a slot belongs to one object at a time, and   *)
(* none is lost.  It goes wrong only when two threads put slots back at    *)
(* the same time, one of them possibly the decoder, which allocates.       *)
SlotsKept ==
    ~overlap =>
        /\ ~wild /\ first <= finish
        /\ Cardinality(InUse) = Cardinality(held)
        /\ Cardinality(Queued) = finish - first
        /\ InUse \cap Queued = {} /\ Moving \cap (InUse \cup Queued) = {}
        /\ InUse \cup Queued \cup Moving = 1..slots
=============================================================================
