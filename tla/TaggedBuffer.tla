---------------------------- MODULE TaggedBuffer ----------------------------
(***************************************************************************)
(* TaggedBuffer (TaggedBuffer.cpp): stamped packets of any length packed   *)
(* to the left of one block of memory, each behind a header that holds     *)
(* its length.  Removing a packet shifts everything behind it.             *)
(*                                                                         *)
(* A cell of the model holds one number: a byte of a packet, or one of the *)
(* three fields of a header.                                               *)
(***************************************************************************)
EXTENDS Integers, Sequences

CONSTANTS
  Packets,         \* what is pushed: [stamp, id, data]
  spaceCapacity,   \* _spaceCapacity, in cells
  Predicates,      \* the sets of packets that removeIf() is asked for
  Rooms            \* the buffer sizes that readers offer

HL == 3            \* sizeof(Header)

TaggedBufferAssumption ==
  /\ spaceCapacity \in Nat
  /\ Packets \subseteq [stamp : Nat, id : Nat, data : Seq(Nat)]

VARIABLES
  space,           \* _space
  spaceUsed,       \* _spaceUsed
  given            \* what the last call returned or visited

vars == <<space, spaceUsed, given>>

Init ==
  /\ space = [i \in 0..(spaceCapacity - 1) |-> 0]
  /\ spaceUsed = 0 /\ given = <<"none">>

\* Copies cells into memory from place p on.
memcpy(mem, p, cells) ==
  [i \in DOMAIN mem |-> IF i \in p..(p + Len(cells) - 1) THEN cells[i - p + 1] ELSE mem[i]]

\* The packet at place p of b, and the place of the next one.
PacketAt(b, p) ==
  [stamp |-> b.space[p + 1], id |-> b.space[p + 2],
   data |-> [k \in 1..(b.space[p] - HL) |-> b.space[p + HL + k - 1]]]

len(b, p) == b.space[p]

Truncated(packet, room) ==
  [packet EXCEPT !.data = SubSeq(@, 1, IF room < Len(@) THEN room ELSE Len(@))]

Buffer == [space |-> space, used |-> spaceUsed]

Fits(packet) == spaceUsed + HL + Len(packet.data) <= spaceCapacity

push(packet) ==
  \/ /\ ~Fits(packet)
     /\ given' = <<"refused">>
     /\ UNCHANGED <<space, spaceUsed>>
  \/ /\ Fits(packet)
     /\ space' = memcpy(space, spaceUsed,
                        <<HL + Len(packet.data), packet.stamp, packet.id>> \o packet.data)
     /\ spaceUsed' = spaceUsed + HL + Len(packet.data)
     /\ given' = <<"inserted">>

\* Shifts by the length of the data.
Without_Bug(b, p) ==
  [space |-> [i \in DOMAIN b.space |->
                IF i \in p..(b.used - len(b, p) - 1)
                  THEN b.space[i + len(b, p) - HL] ELSE b.space[i]],
   used |-> b.used - len(b, p)]

\* What is behind the packet at p, moved to p.
Without(b, p) ==
  [space |-> [i \in DOMAIN b.space |->
                IF i \in p..(b.used - len(b, p) - 1)
                  THEN b.space[i + len(b, p)] ELSE b.space[i]],
   used |-> b.used - len(b, p)]

tryPeek(room) ==
  /\ spaceUsed # 0
  /\ given' = <<"first", Truncated(PacketAt(Buffer, 0), room)>>
  /\ UNCHANGED <<space, spaceUsed>>

\* pop() is tryPop() without a reader.
tryPop(room) ==
  /\ spaceUsed # 0
  /\ given' = <<"first", Truncated(PacketAt(Buffer, 0), room)>>
  /\ space' = Without(Buffer, 0).space /\ spaceUsed' = Without(Buffer, 0).used

\* One turn of the loop: pos stays where a packet was removed.
Turn(P, q) ==
  LET packet == PacketAt(q, q.pos)
  IN  IF packet \in P
        THEN [q EXCEPT !.space = Without(q, q.pos).space, !.used = Without(q, q.pos).used,
                       !.left = @ - 1, !.seen = Append(@, packet)]
        ELSE [q EXCEPT !.pos = @ + len(q, q.pos)]

\* The loop of removeIf(), up to the limit; i counts its turns.
Loop(P, start) ==
  LET q[i \in 0..spaceCapacity] ==
        IF i = 0 THEN start
        ELSE LET before == q[i - 1]
             IN  IF before.pos >= before.used \/ before.left = 0 THEN before
                 ELSE Turn(P, before)
  IN  q[spaceCapacity]

\* firstOnly is a limit of one.
removeIf(P, limit) ==
  LET start == [space |-> space, used |-> spaceUsed, pos |-> 0, left |-> limit, seen |-> <<>>]
      end == Loop(P, start)
  IN  /\ space' = end.space /\ spaceUsed' = end.used
      /\ given' = <<"visited", end.seen>>

\* The places of the packets, found by their lengths; the end is the last one.
Places ==
  LET next[p \in 0..spaceCapacity] ==
        IF p >= spaceUsed THEN p ELSE p + len(Buffer, p)
      place[n \in 0..spaceCapacity] ==
        IF n = 0 THEN 0 ELSE next[place[n - 1]]
  IN  place

Contents ==
  LET count == CHOOSE n \in 0..spaceCapacity :
                 Places[n] >= spaceUsed /\ \A m \in 0..(n - 1) : Places[m] < spaceUsed
  IN  [n \in 1..count |-> PacketAt(Buffer, Places[n - 1])]

visitAll ==
  /\ given' = <<"visited", Contents>>
  /\ UNCHANGED <<space, spaceUsed>>

clear ==
  /\ spaceUsed' = 0 /\ given' = <<"none">>
  /\ UNCHANGED space

Limits == {1, spaceCapacity}

Next ==
  \/ \E packet \in Packets : push(packet)
  \/ \E room \in Rooms : tryPeek(room) \/ tryPop(room)
  \/ \E P \in Predicates, limit \in Limits : removeIf(P, limit)
  \/ visitAll
  \/ clear

Spec == Init /\ [][Next]_vars

-----------------------------------------------------------------------------
Arrival ==
  INSTANCE OrderedList WITH
    list <- Contents, result <- given, Items <- Packets,
    Larger <- LAMBDA a, b : FALSE, Weight <- LAMBDA x : HL + Len(x.data),
    Space <- spaceCapacity, Given <- Truncated

\* The packed memory is a list of packets: none is torn, lost or reordered,
\* whichever one is removed and however often its successors have been shifted,
\* and a packet is refused only when it does not fit.
ImplementsPacketList == Arrival!Spec
=============================================================================
