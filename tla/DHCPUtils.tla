------------------------------ MODULE DHCPUtils ------------------------------
(***************************************************************************)
(* A DHCP lease (DHCPUtils.cpp): a client broadcasts DISCOVER and REQUEST, *)
(* servers answer, and whatever the network delivers is parsed as OFFER or *)
(* ACK.  The network loses, repeats, reorders and cuts packets, and other  *)
(* clients' exchanges are on it.  Packets are byte sequences.              *)
(***************************************************************************)
EXTENDS NetUtils, TLC

CONSTANTS
  Mac,        \* the client's six bytes
  ReqId,      \* the transaction number it chose
  Capacities, \* the buffer sizes it builds its packets in
  Offers,     \* the servers: [addr, router, mask], each a number but the addr
  Others,     \* transaction numbers of other clients' exchanges on the net
  MaxNet      \* bound on the server packets on the net

VARIABLES
  stage,    \* what the client waits for: it sends in "discover", "request"
  rc,       \* what the last call returned
  lease, router, mask,  \* where the calls put what they find
  net       \* the packets the servers have sent
vars == <<stage, rc, lease, router, mask, net>>

\* No two servers offer the same address.
DHCPUtilsAssumption ==
  /\ NetUtilsAssumption /\ Byte = 256
  /\ Mac \in Seq(0 .. 255) /\ Len(Mac) = 6
  /\ ReqId \in Nat /\ ReqId < 65536
  /\ \A id \in Others : id \in Nat /\ id < 65536 /\ id # ReqId
  /\ \A s \in Offers : /\ s.addr \in Seq(0 .. 255) /\ Len(s.addr) = 4
                         /\ s.router \in Nat /\ s.router \div 16777216 < 256
                         /\ s.mask \in Nat /\ s.mask \div 16777216 < 256
  /\ \A s, t \in Offers : s.addr = t.addr => s = t

Zeros(n) == [i \in 1 .. n |-> 0]
Full(n) == [i \in 1 .. n |-> 255]
U16(v) == <<v \div 256, v % 256>>
U32(v) == <<v \div 16777216, (v \div 65536) % 256, (v \div 256) % 256, v % 256>>
Huge == 2 ^ 30
-----------------------------------------------------------------------------
(* Packets of the client.                                                  *)

EthHdr(source) == Full(6) \o source \o <<8, 0>>
IpHdr(len, id, sum) ==
  <<69, 0>> \o U16(len) \o U16(id) \o <<0, 0, 128, 17>> \o U16(sum) \o Zeros(4) \o Full(4)
UdpHdr(len, sum) == U16(68) \o U16(67) \o U16(len) \o U16(sum)

\* Leaves the header out of the length.
PseudoHdr_Bug(len) == Zeros(4) \o Full(4) \o <<0, 17>> \o U16(len - 8)

PseudoHdr(len) == Zeros(4) \o Full(4) \o <<0, 17>> \o U16(len)

bootphdr(req, id, your, mac) ==
  <<req, 1, 6, 0, 0, 0>> \o U16(id) \o <<0, 0, 128, 0>> \o Zeros(4) \o your \o Zeros(8)
  \o mac \o Zeros(202) \o <<99, 130, 83, 99>>

\* Each option takes its room from what is left; after one that did not fit
\* nothing is added.  Room is unsigned: below the fixed part it is huge.
Fixed == 282
Room(capacity) == IF capacity >= Fixed THEN capacity - Fixed ELSE Huge

AddOption(o, id, value, capacity) ==
  LET ie == addIE_str(id, value, capacity - Len(o.bytes)) IN
    IF o.rc < 0 THEN o
    ELSE IF ie = None THEN [o EXCEPT !.rc = -2] ELSE [o EXCEPT !.bytes = @ \o ie]

Options(reqType, addr, capacity) ==
  LET room == Room(capacity)
      kind == AddOption([rc |-> 0, bytes |-> <<>>], 53, <<reqType>>, room)
      client == AddOption(kind, 61, <<1>> \o Mac, room)
      asked == IF reqType = 3 THEN AddOption(client, 50, addr, room) ELSE client
      o == AddOption(asked, 55, <<1, 3, 6>>, room)
  IN IF o.rc < 0 THEN o ELSE IF Len(o.bytes) = room THEN [o EXCEPT !.rc = -3]
     ELSE [o EXCEPT !.bytes = Append(@, 255)]

Packet(source, id, ipSum, udpSum, body) ==
  EthHdr(source) \o IpHdr(28 + Len(body), id, ipSum) \o UdpHdr(8 + Len(body), udpSum) \o body

makeReq(reqType, addr, capacity) ==
  LET o == Options(reqType, addr, capacity)
      body == bootphdr(1, ReqId, Zeros(4), Mac) \o o.bytes
      udpLen == 8 + Len(body)
      ipSum == ipChecksum3(IpHdr(20 + udpLen, ReqId, 0), <<>>, <<>>)
      udpSum == ipChecksum3(PseudoHdr(udpLen), UdpHdr(udpLen, 0), body)
  IN IF o.rc < 0 THEN [rc |-> o.rc, packet |-> <<>>]
     ELSE [rc |-> 14 + 20 + udpLen, packet |-> Packet(Mac, ReqId, ipSum, udpSum, body)]
-----------------------------------------------------------------------------
(* What the client reads of a packet.                                      *)

isResponse(p) ==
  /\ Len(p) >= Fixed
  /\ p[13] = 8 /\ p[14] = 0 /\ p[24] = 17 /\ p[43] = 2
  /\ SubSeq(p, 279, 282) = <<99, 130, 83, 99>>

\* Does not look at the transaction number.
isValidDHCPResponse_Bug(p) == isResponse(p)

isValidDHCPResponse(p) == isResponse(p) /\ SubSeq(p, 47, 50) = <<0, 0>> \o U16(ReqId)

OptionsOf(p) == SubSeq(p, Fixed + 1, Len(p))

\* The type option, looked for in any valid response: 0, or the error.
TypeError(p, type) ==
  LET found == extractIE_uint8(OptionsOf(p), 53) IN
    IF ~isValidDHCPResponse(p) THEN -1
    ELSE IF found.rc # 0 THEN -2 ELSE IF found.value # type THEN -1 ELSE 0
-----------------------------------------------------------------------------
Init ==
  /\ stage = "discover" /\ rc = 0 /\ lease = Zeros(4) /\ router = 0 /\ mask = 0
  /\ net = {}

\* A server hears a request that was sent and answers it.  Others' exchanges
\* differ from the client's in nothing but the transaction number.
Answers(server, type) ==
  <<53, 1, type, 3, 4>> \o U32(server.router) \o <<1, 4>> \o U32(server.mask) \o <<255>>
Reply(server, id, type, mac) ==
  Packet(Full(6), id, 0, 0, bootphdr(2, id, server.addr, mac) \o Answers(server, type))

Sent(p) == net' = net \cup {p} /\ Cardinality(net') <= MaxNet

\* What a server needs to see: the words of the IP header, and those of the
\* datagram behind addresses, protocol and length, add up to zero in one's
\* complement.
AddsUp(bytes) ==
  LET even == IF Len(bytes) % 2 = 0 THEN bytes ELSE Append(bytes, 0)
      Word(i) == 256 * even[2 * i - 1] + even[2 * i]
  IN MapThenSumSet(Word, {i \in 1 .. Len(even) \div 2 : Word(i) # 0}) % 65535 = 0

SumsRight(p) ==
  /\ AddsUp(SubSeq(p, 15, 34))
  /\ AddsUp(SubSeq(p, 27, 34) \o <<0, p[24]>> \o SubSeq(p, 39, 40) \o SubSeq(p, 35, Len(p)))

ServerHears(made, type) ==
  /\ made.rc > 0 /\ SumsRight(made.packet)
  /\ \E s \in Offers :
       /\ type = 5 =>
            extractIE_raw(OptionsOf(made.packet), 50, 4).buf = s.addr
       /\ Sent(Reply(s, made.packet[49] * 256 + made.packet[50], type, Mac))

makeDISCOVER ==
  /\ stage = "discover"
  /\ \E capacity \in Capacities :
       LET made == makeReq(1, Zeros(4), capacity) IN
         /\ rc' = made.rc
         /\ \/ UNCHANGED net
            \/ ServerHears(made, 2)
  /\ UNCHANGED <<stage, lease, router, mask>>

makeREQUEST ==
  /\ stage = "request"
  /\ \E capacity \in Capacities :
       LET made == makeReq(3, lease, capacity) IN
         /\ rc' = made.rc
         /\ \/ UNCHANGED net
            \/ ServerHears(made, 5)
  /\ UNCHANGED <<stage, lease, router, mask>>

OtherExchange ==
  /\ \E id \in Others, s \in Offers, type \in {2, 5} : Sent(Reply(s, id, type, Full(6)))
  /\ UNCHANGED <<stage, rc, lease, router, mask>>

\* A packet as it is, or cut inside its options or its fixed part.
Arriving == net \cup UNION {{SubSeq(p, 1, Len(p) - 1), SubSeq(p, 1, Len(p) - 8),
                             SubSeq(p, 1, Fixed + 3), SubSeq(p, 1, Fixed + 2),
                             SubSeq(p, 1, Fixed), SubSeq(p, 1, 200)} : p \in net}

parseOFFER ==
  /\ stage = "discover"
  /\ \E p \in Arriving :
       LET error == TypeError(p, 2) IN
         /\ rc' = error
         /\ lease' = IF error = 0 THEN SubSeq(p, 59, 62) ELSE lease
         /\ stage' = IF error = 0 THEN "request" ELSE stage
  /\ UNCHANGED <<router, mask, net>>

\* The router is stored before the mask is looked for.
parseACK ==
  /\ stage = "request"
  /\ \E p \in Arriving :
       LET error == TypeError(p, 5)
           found == extractIE_uint32(OptionsOf(p), 3)
           masked == extractIE_uint32(OptionsOf(p), 1)
       IN /\ rc' = IF error # 0 THEN error
                   ELSE IF found.rc # 0 \/ masked.rc # 0 THEN -2 ELSE 0
          /\ router' = IF error = 0 /\ found.rc = 0 THEN found.value ELSE router
          /\ mask' = IF rc' = 0 THEN masked.value ELSE mask
          /\ stage' = IF rc' = 0 THEN "bound" ELSE stage
  /\ UNCHANGED <<lease, net>>

Next == makeDISCOVER \/ makeREQUEST \/ OtherExchange \/ parseOFFER \/ parseACK

Spec == Init /\ [][Next]_vars
-----------------------------------------------------------------------------
(* Properties.                                                             *)

\* A client that is bound has an address, a router and a mask that one server
\* gave it in its own exchange, whatever else was delivered, in whatever order
\* and however cut (parseOFFER(), parseACK(), makeREQUEST()).
LeaseIsOneServers ==
  stage = "bound" =>
    \E s \in Offers :
      /\ lease = s.addr /\ router = s.router /\ mask = s.mask
      /\ \A type \in {2, 5} : Reply(s, ReqId, type, Mac) \in net

\* After a call that made a request, a server would find the sums right in the
\* request of either kind made in any of the buffers (makeReq(), ipChecksum3()).
SumsComeOutRight ==
  rc > 0 =>
    \A capacity \in Capacities, type \in {1, 3} :
      LET made == makeReq(type, lease, capacity) IN made.rc > 0 => SumsRight(made.packet)
=============================================================================
