--------------------------- MODULE CircularBuffer ---------------------------
(***************************************************************************)
(* CircularBufferImpl<S> (CircularBuffer.h): messages laid end to end in a *)
(* ring of S bytes, each behind a two-byte length.  The radio driver keeps *)
(* its two message queues in such rings.                                   *)
(*                                                                         *)
(* A push goes byte by byte and only finds out on the way that it does not *)
(* fit; it has by then overwritten the free part of the ring and moved     *)
(* _back, and takes that move back.                                        *)
(***************************************************************************)
EXTENDS Naturals, Sequences

CONSTANTS
  S,          \* bytes in the ring
  OobLen,     \* _oobBufLen
  Messages,   \* the messages pushed: [oob |-> bytes, body |-> bytes]
  Caps        \* the buffer sizes that readers offer

Byte == 0..255

RingAssumption ==
  /\ S \in Nat \ {0} /\ OobLen \in Nat /\ Caps \subseteq Nat
  /\ Messages \subseteq [oob : Seq(Byte), body : Seq(Byte)]
  /\ \A m \in Messages : Len(m.oob) = OobLen /\ OobLen + Len(m.body) < 65536

VARIABLES front, back, buf, result

vars == <<front, back, buf, result>>

Slot == 0..(S - 1)

_incAndWrap(p) == (p + 1) % S

\* The slot n bytes after p.
After(p, n) == (p + n) % S

Init ==
  /\ front = 0 /\ back = 0
  /\ buf = [i \in Slot |-> 0]
  /\ result = <<"none">>

Lesser(a, b) == IF a < b THEN a ELSE b

isEmpty == front = back

-----------------------------------------------------------------------------
\* One byte: stored, _back advanced, and only then the overflow noticed.
PushByte(r, b) ==
  IF ~r.ok THEN r
  ELSE [buf |-> [r.buf EXCEPT ![r.back] = b],
        back |-> _incAndWrap(r.back),
        ok |-> _incAndWrap(r.back) # front]

_pushRaw(bytes) ==
  LET pushed[n \in 0..Len(bytes)] ==      \* with the first n bytes
        IF n = 0 THEN [buf |-> buf, back |-> back, ok |-> TRUE]
        ELSE PushByte(pushed[n - 1], bytes[n])
  IN  pushed[Len(bytes)]

Header(n) == <<(n \div 256) % 256, n % 256>>

\* Forgets the rollback of _back.
push_Bug(m) ==
  LET r == _pushRaw(Header(OobLen + Len(m.body)) \o m.oob \o m.body)
  IN  /\ buf' = r.buf /\ back' = r.back
      /\ result' = <<"push", m, r.ok>>
      /\ UNCHANGED front

push(m) ==
  LET r == _pushRaw(Header(OobLen + Len(m.body)) \o m.oob \o m.body)
  IN  /\ buf' = r.buf
      /\ back' = IF r.ok THEN r.back ELSE back
      /\ result' = <<"push", m, r.ok>>
      /\ UNCHANGED front

-----------------------------------------------------------------------------
\* The message that starts at slot p.
EntrySize(p) == 256 * buf[p] + buf[_incAndWrap(p)]
Run(p, n) == [i \in 1..n |-> buf[After(p, i - 1)]]
Oob(p) == Run(After(p, 2), OobLen)
Body(p, n) == Run(After(p, 2 + OobLen), n)

_peek(cap) ==
  [oob |-> Oob(front), body |-> Body(front, Lesser(cap, EntrySize(front) - OobLen))]

\* Where the entry after the front one starts.
NewFront == After(front, 2 + EntrySize(front))

peek(cap) ==
  /\ ~isEmpty
  /\ result' = <<"peek", _peek(cap)>>
  /\ UNCHANGED <<front, back, buf>>

\* pop() as its callers use it: behind isEmpty(), as popIfNotEmpty() does.
popIfNotEmpty(cap) ==
  /\ ~isEmpty
  /\ result' = <<"pop", _peek(cap)>>
  /\ front' = NewFront
  /\ UNCHANGED <<back, buf>>

popAndDiscard ==
  /\ ~isEmpty
  /\ front' = NewFront
  /\ result' = <<"discard">>
  /\ UNCHANGED <<back, buf>>

Next ==
  \/ \E m \in Messages : push(m)
  \/ \E cap \in Caps : popIfNotEmpty(cap) \/ peek(cap)
  \/ popAndDiscard

Spec == Init /\ [][Next]_vars

-----------------------------------------------------------------------------
\* Both pointers stay inside the ring, whatever was refused.
TypeOK ==
  /\ front \in Slot /\ back \in Slot
  /\ buf \in [Slot -> Byte]

\* The messages laid out between front and back, read entry by entry.
Entries[n \in 0..S] ==      \* those in the n bytes before back
  IF n = 0 THEN <<>>
  ELSE LET p == After(back, S - n)
           size == 2 + EntrySize(p)
       IN  IF size > n \/ size < 2 + OobLen THEN <<"broken">>
           ELSE <<[oob |-> Oob(p), body |-> Body(p, size - 2 - OobLen)]>>
                  \o Entries[n - size]
Contents == Entries[After(back, S - front)]

Queue == INSTANCE MessageQueue WITH Space <- S, queue <- Contents

\* The ring is a message queue: no message is lost, torn, reordered or made
\* up, wherever it wraps, and a refused push leaves no trace.
ImplementsQueue == Queue!Spec
=============================================================================
