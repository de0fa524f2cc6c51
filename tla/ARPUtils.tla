------------------------------ MODULE ARPUtils ------------------------------
(***************************************************************************)
(* Address resolution with ARPUtils.c: a host asks who has an address, the *)
(* host that has it answers, and a frame that passes the checks teaches    *)
(* its sender's MAC.  Frames are byte sequences.  Any frame on the segment *)
(* may arrive, also in part: questions, answers to others, other protocols.*)
(***************************************************************************)
EXTENDS Integers, Sequences, FiniteSets

CONSTANTS
  Hosts,      \* the hosts on the segment
  MacOf,      \* their six bytes each
  IpOf,       \* their four bytes each
  Me,         \* the host that asks
  Frames,     \* frames of other protocols
  Capacities, \* the buffer sizes frames are built in
  MaxFrames   \* bound on the frames sent

VARIABLES
  segment,  \* the frames that have been sent
  known     \* what Me has learnt: the MAC of each host, or Unknown

vars == <<segment, known>>

Byte == 0 .. 255
Zeros(n) == [i \in 1 .. n |-> 0]
Broadcast == [i \in 1 .. 6 |-> 255]
Unknown == <<>>
Refused == <<>>

makePacket4(destMac, sourceMac, opCode, senderMac, senderIp, targetMac, targetIp, capacity) ==
  IF capacity < 60 THEN Refused
  ELSE destMac \o sourceMac \o <<8, 6, 0, 1, 8, 0, 6, 4, 0, opCode>>
       \o senderMac \o senderIp \o targetMac \o targetIp \o Zeros(18)

makeQuery4(sourceMac, sourceIp, targetIp, capacity) ==
  makePacket4(Broadcast, sourceMac, 1, sourceMac, sourceIp, Zeros(6), targetIp, capacity)

isValid4(p) == Len(p) >= 42 /\ SubSeq(p, 13, 18) = <<8, 6, 0, 1, 8, 0>>
isValidRequest4(p) == isValid4(p) /\ SubSeq(p, 21, 22) = <<0, 1>>

isValidReply4(p) == isValid4(p) /\ SubSeq(p, 21, 22) = <<0, 2>>

\* The MAC of the target, which stands behind the sender's.
extractSenderMac4_Bug(p) == IF isValid4(p) THEN SubSeq(p, 33, 38) ELSE Unknown

extractSenderMac4(p) == IF isValid4(p) THEN SubSeq(p, 23, 28) ELSE Unknown
extractSenderIp4(p) == IF isValid4(p) THEN SubSeq(p, 29, 32) ELSE Unknown
isSenderIp4(p, ip) == extractSenderIp4(p) = ip
isTargetIp4(p, ip) == isValid4(p) /\ SubSeq(p, 39, 42) = ip

\* Every host has an IP address of its own.
ARPUtilsAssumption ==
  /\ \A h \in Hosts : /\ MacOf[h] \in Seq(Byte) /\ Len(MacOf[h]) = 6
                       /\ IpOf[h] \in Seq(Byte) /\ Len(IpOf[h]) = 4
  /\ \A g, h \in Hosts : IpOf[g] = IpOf[h] => g = h
  /\ \A f \in Frames : f \in Seq(Byte) /\ ~isValid4(f)
-----------------------------------------------------------------------------
Init == segment = Frames /\ known = [h \in Hosts |-> Unknown]

Send(p) ==
  /\ p # Refused
  /\ segment' = segment \cup {p} /\ Cardinality(segment') <= MaxFrames
  /\ UNCHANGED known

Query ==
  \E h, target \in Hosts, capacity \in Capacities :
    Send(makeQuery4(MacOf[h], IpOf[h], IpOf[target], capacity))

\* A host answers a request for its own address, to whoever asked.
Answer ==
  \E p \in segment, h \in Hosts, capacity \in Capacities :
    /\ isValidRequest4(p) /\ isTargetIp4(p, IpOf[h])
    /\ Send(makePacket4(extractSenderMac4(p), MacOf[h], 2, MacOf[h], IpOf[h],
                        extractSenderMac4(p), extractSenderIp4(p), capacity))

\* A reply to Me that answers for the host's address, whole or cut short.
Learn ==
  \E f \in segment, len \in {20, 41, 42, 60}, h \in Hosts :
    LET p == SubSeq(f, 1, IF len < Len(f) THEN len ELSE Len(f)) IN
      /\ isValidReply4(p) /\ isTargetIp4(p, IpOf[Me]) /\ isSenderIp4(p, IpOf[h])
      /\ known' = [known EXCEPT ![h] = extractSenderMac4(p)]
      /\ UNCHANGED segment

Next == Query \/ Answer \/ Learn

Spec == Init /\ [][Next]_vars
-----------------------------------------------------------------------------
(* Properties.                                                             *)

\* What is learnt of a host is its own MAC, whatever else is on the segment
\* (isValidReply4(), isSenderIp4(), isTargetIp4(), extractSenderMac4()).
KnownIsOwners == \A h \in Hosts : known[h] \in {Unknown, MacOf[h]}
=============================================================================
