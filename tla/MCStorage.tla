----------------------------- MODULE MCStorage -----------------------------
(***************************************************************************)
(* The containers, side by side: queue pointers used alone, single steps   *)
(* and blocks mixed with resets, a queue of frames, and the three          *)
(* containers that remove from the middle.  A behaviour uses one of them,  *)
(* so that their states add up instead of multiplying.  Sorted items have  *)
(* a key to sort by and a name to tell equal keys apart.                   *)
(***************************************************************************)
EXTENDS CircularQueuePointers, Sequences

CONSTANTS
  Items, NoItem, FillTrigger, MaxFrame,   \* frames
  Entries, comparator(_, _), Queued, Size,   \* the sorted list and the queue
  Packets, Room   \* the packed memory

MCEntries == [key : {1, 2}, name : {"x", "y"}]
ByKey(a, b) == a.key - b.key

\* Packets with no, one and two bytes of data.
MCPackets == {[stamp |-> 1, id |-> n, data |-> [k \in 1..n |-> 6 + k]] : n \in 0..2}

VARIABLES
  user,
  r, w, d, o, u, space, triggered, last, reader, starved,
  objSpace, ptrSpace, firstPtr, freePtr, visited,
  data, size, seen,
  bytes, spaceUsed, given

framed == <<r, w, d, o, u, space, triggered, last, reader, starved>>
sorted == <<objSpace, ptrSpace, firstPtr, freePtr, visited>>
queued == <<data, size, seen>>
packed == <<bytes, spaceUsed, given>>
all    == <<user, ptrs, framed, sorted, queued, packed>>

Frames ==
  INSTANCE CircularQueueWithTrigger
    WITH readPtr <- r, writePtr <- w, depth <- d, overflows <- o, underflows <- u,
         MaxFaults <- 1

SortedList ==
  INSTANCE FixedSortedList WITH
    Items <- Entries, spaceSize <- Size, Predicates <- SUBSET Entries

Fixed ==
  INSTANCE FixedQueue WITH
    Items <- Queued, MAX_SIZE <- Size, visited <- seen, Predicates <- SUBSET Queued

Tagged ==
  INSTANCE TaggedBuffer WITH
    spaceCapacity <- Room, Rooms <- {0, 1, 2},
    Predicates <- SUBSET Packets, space <- bytes

ASSUME StorageAssumption ==
  /\ Frames!TriggerAssumption
  /\ SortedList!SortedListAssumption
  /\ Fixed!FixedQueueAssumption
  /\ Tagged!TaggedBufferAssumption

MCInit ==
  /\ user \in {"pointers", "frames", "sorted", "queued", "packed"}
  /\ PtrInit /\ Frames!Init /\ Tagged!Init
  /\ objSpace = [i \in SortedList!Slot |-> CHOOSE e \in Entries : TRUE] /\ SortedList!Init
  /\ data = [i \in 0..(Size - 1) |-> CHOOSE x \in Queued : TRUE] /\ Fixed!Init
  /\ user = "frames" \/ reader = "tryPop"

MCNext ==
  /\ UNCHANGED user
  /\ \/ user = "pointers" /\ PtrNext /\ UNCHANGED <<framed, sorted, queued, packed>>
     \/ user = "frames" /\ Frames!Next /\ UNCHANGED <<ptrs, sorted, queued, packed>>
     \/ user = "sorted" /\ SortedList!Next /\ UNCHANGED <<ptrs, framed, queued, packed>>
     \/ user = "queued" /\ Fixed!Next /\ UNCHANGED <<ptrs, framed, sorted, packed>>
     \/ user = "packed" /\ Tagged!Next /\ UNCHANGED <<ptrs, framed, sorted, queued>>

MCSpec == MCInit /\ [][MCNext]_all

ImplementsBlockQueue == Frames!ImplementsBlockQueue
WaitsForFill == Frames!WaitsForFill
ImplementsSortedList == SortedList!ImplementsSortedList
ImplementsArrivalOrder == Fixed!ImplementsArrivalOrder
ImplementsPacketList == Tagged!ImplementsPacketList
=============================================================================
