------------------------------ MODULE MCLinks ------------------------------
(***************************************************************************)
(* The parts that talk to something at the other end of a link, and the    *)
(* functions that build and read what is sent, side by side: a behaviour   *)
(* uses one of them, so that their states add up instead of multiplying.   *)
(***************************************************************************)
EXTENDS MCSWDDriver

CONSTANTS
  NPages, Offset, ImagePages, Tables,            \* of SWDUtils
  Asked, Records, NameRoom,                      \* of MicroDNS
  Mac, ReqId, Buffers, Offers, Others, MaxNet,   \* of DHCPUtils
  Hosts, MacOf, IpOf, Me, Frames                 \* of ARPUtils

VARIABLES
  user,
  job, stage, at, found, mismatch, result, core, flash, mode, ram, table, failures,
  asked, query, answer, packet, parsed,
  dhcp, rc, lease, router, mask, net,
  segment, known,
  fn, arg, ret

flashVars == <<job, stage, at, found, mismatch, result, core, flash, mode, ram, table, failures>>
nameVars  == <<asked, query, answer, packet, parsed>>
leaseVars == <<dhcp, rc, lease, router, mask, net>>
arpVars   == <<segment, known>>
callVars  == <<fn, arg, ret>>

Flasher == INSTANCE SWDUtils WITH faults <- failures

\* One ROM has an entry the program does not know, the other lacks the routine
\* that programs.
MCTables ==
  { << <<"IF", 1>>, <<"EX", 2>>, <<"ZZ", 9>>, <<"RE", 3>>, <<"RP", 4>>,
       <<"FC", 5>>, <<"DE", 8>>, <<"DT", 7>>, <<"CX", 6>> >>,
    << <<"DT", 7>>, <<"IF", 1>>, <<"EX", 2>>, <<"RE", 3>>, <<"FC", 5>>,
       <<"CX", 6>>, <<"DE", 8>> >> }

\* Names of two and three labels, and one that ends with a dot; every kind of
\* record for each.
MCAsked == {1, 16, 33} \X {<<97, 98, 46, 99>>, <<100, 46, 97, 46, 99>>, <<97, 46>>}
MCRecords ==
  [q \in MCAsked |->
     CASE q[1] = 33 -> <<258, 3, 65535, <<120, 121, 46>> \o q[2]>>
       [] q[1] = 1  -> <<44, 0, 7, Len(q[2])>>
       [] q[1] = 16 -> <<104, 105>>]

Names ==
  INSTANCE MicroDNS WITH
    Capacity <- NameRoom, Questions <- Asked, Data <- Records, result <- parsed

\* Two servers.
MCMac == <<2, 0, 0, 0, 0, 7>>
MCOffers == {[addr |-> <<10, 0, 0, 5>>, router |-> 16777217, mask |-> 65535],
             [addr |-> <<10, 0, 0, 6>>, router |-> 33554433, mask |-> 255]}

Leasing ==
  INSTANCE DHCPUtils WITH
    Byte <- 256, Port <- 65536, MaxAddr <- 63, MaxPort <- 7, MaxParam <- 63,
    Capacities <- Buffers, stage <- dhcp

\* Three hosts, and a frame of another protocol.
MCHosts == 1 .. 3
MCMacOf == [h \in MCHosts |-> <<2, 0, 0, 0, 0, h>>]
MCIpOf == [h \in MCHosts |-> <<10, 0, 0, h>>]
MCFrames == {[i \in 1 .. 60 |-> IF i = 13 THEN 8 ELSE IF i = 22 THEN 2 ELSE 0]}

Segment ==
  INSTANCE ARPUtils WITH Capacities <- {59, 60}, MaxFrames <- 5

Pure ==
  INSTANCE Calls WITH
    Byte <- 4, Modulus <- 16, MaxToken <- 2, W <- 3,
    Octet <- 256, Port <- 65536, MaxAddr <- 63, MaxPort <- 7, MaxParam <- 63,
    Million <- 10, EpochAdjustment <- 3, Era <- 8, Fraction <- 16, Grain <- 4

ASSUME LinksAssumption ==
  /\ Flasher!SWDUtilsAssumption /\ Names!MicroDNSAssumption
  /\ Leasing!DHCPUtilsAssumption /\ Segment!ARPUtilsAssumption
  /\ Pure!CallsAssumption

all == <<user, vars, flashVars, nameVars, leaseVars, arpVars, callVars>>

\* The unused parts start in one state each.
MCInit ==
  /\ user \in {"driver", "flasher", "names", "lease", "arp", "calls"}
  /\ Init /\ Flasher!Init /\ Names!Init /\ Leasing!Init /\ Segment!Init /\ Pure!Init
  /\ user = "flasher" \/ Flasher!Complete(table)

Driver(A) ==
  user = "driver" /\ A /\ UNCHANGED <<user, flashVars, nameVars, leaseVars, arpVars, callVars>>
Flash(A) ==
  user = "flasher" /\ A /\ UNCHANGED <<user, vars, nameVars, leaseVars, arpVars, callVars>>
Name(A) ==
  user = "names" /\ A /\ UNCHANGED <<user, vars, flashVars, leaseVars, arpVars, callVars>>
Lease(A) ==
  user = "lease" /\ A /\ UNCHANGED <<user, vars, flashVars, nameVars, arpVars, callVars>>
Arp(A) ==
  user = "arp" /\ A /\ UNCHANGED <<user, vars, flashVars, nameVars, leaseVars, callVars>>
Call(A) ==
  user = "calls" /\ A /\ UNCHANGED <<user, vars, flashVars, nameVars, leaseVars, arpVars>>

MCNext ==
  \/ Driver(Next) \/ Flash(Flasher!Next) \/ Name(Names!Next) \/ Lease(Leasing!Next)
  \/ Arp(Segment!Next) \/ Call(fn = "none" /\ Pure!Next)

MCSpec ==
  /\ MCInit /\ [][MCNext]_all
  /\ WF_all(Flash(Flasher!Host)) /\ WF_all(Flash(Flasher!Core))

RunsAsAsked == Flasher!RunsAsAsked
ReportsBadPages == Flasher!ReportsBadPages
OnlyErasedPages == Flasher!OnlyErasedPages
FlashReturns == Flasher!FlashReturns
LeaseIsOneServers == Leasing!LeaseIsOneServers
AnswersAreServers == Names!AnswersAreServers
KnownIsOwners == Segment!KnownIsOwners

\* The functions without state return what they should, and the checksums of
\* the packets that are built with them come out.
FunctionsAgree ==
  /\ Pure!ArithmeticAgrees /\ Pure!NetAgrees
  /\ user = "lease" => Leasing!SumsComeOutRight
=============================================================================
