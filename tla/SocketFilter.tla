---------------------------- MODULE SocketFilter ----------------------------
(***************************************************************************)
(* The two classic BPF programs that the collectors attach to their packet *)
(* sockets, dhcpFilter and trafficFilter, run instruction by instruction   *)
(* on a frame, and the parsers that read the frames which pass: udpPayload *)
(* (dhcp) and sourceMAC (neighbor).                                        *)
(*                                                                         *)
(* A frame is what the programs and the parsers look at: its length, the   *)
(* VLAN tags in front of the EtherType, the EtherType, the first byte of   *)
(* the IP header (version and header length in words), its fragment flags  *)
(* and offset, its protocol, and the two halfwords that follow it, the UDP *)
(* ports.  The programs read at fixed offsets, where a tag has pushed      *)
(* everything else aside; udpPayload unwraps the tags first.               *)
(***************************************************************************)
EXTENDS Integers, Sequences

CONSTANTS
  Lengths,      \* lengths of a frame
  Tagged,       \* the types of the tags in front of the EtherType
  EtherTypes,
  Fragments,    \* fragment flags and offsets
  Protocols,
  HeaderWords,  \* words in an IP header
  Ports         \* halfwords after an IP header

Half == {n \in Nat : n < 65536}

IPv4  == 2048
ARP   == 2054
IPv6  == 34525
UDP   == 17
Running == -1

\* 802.1Q and 802.1ad.
TagTypes == {33024, 34984}

\* An IP header has 5 to 15 words; a shorter one makes udpPayload give up.
ASSUME FrameAssumption ==
  /\ Lengths \subseteq Nat
  /\ Tagged \subseteq Seq(TagTypes)
  /\ EtherTypes \subseteq Half \ TagTypes
  /\ Fragments \subseteq Half /\ Ports \subseteq Half
  /\ Protocols \subseteq 0 .. 255
  /\ HeaderWords \subseteq 5 .. 15

VARIABLES
  program,  \* the filter that runs
  frame,
  at,       \* the next instruction, from 0
  a,        \* the accumulator
  x,        \* the index register
  verdict   \* bytes of the frame that pass, or Running

vars == <<program, frame, at, a, x, verdict>>

Frames ==
  [length : Lengths, tags : Tagged, etherType : EtherTypes, version : {4, 6},
   words : HeaderWords, fragment : Fragments, protocol : Protocols,
   source : Ports, destination : Ports,
   misfit : {"none", "IP", "UDP"}]  \* the header whose length does not fit

\* Where the UDP ports are when no tag precedes a header of w words.
SourcePortAt(w)      == 14 + 4 * w
DestinationPortAt(w) == 16 + 4 * w

\* What is found where the EtherType of an untagged frame is.
TypeField(f) == IF f.tags = <<>> THEN f.etherType ELSE f.tags[1]

\* The halfword at an offset, which the frame must cover.  Bound: of a tagged
\* frame, which no program looks into, only the first tag is told.
Halfword(f, offset) ==
  CASE offset = 12 -> TypeField(f)
    [] offset = 20 /\ f.tags = <<>> -> f.fragment
    [] offset = SourcePortAt(f.words) /\ f.tags = <<>> -> f.source
    [] offset = DestinationPortAt(f.words) /\ f.tags = <<>> -> f.destination

Covers(f, offset, size) == offset + size <= f.length
-----------------------------------------------------------------------------
(***************************************************************************)
(* The programs.  A jump skips jt instructions when its test succeeds, and *)
(* jf when it fails.                                                       *)
(***************************************************************************)

LoadHalf(k)         == [op |-> "load half", k |-> k, jt |-> 0, jf |-> 0]
LoadByte(k)         == [op |-> "load byte", k |-> k, jt |-> 0, jf |-> 0]
LoadXMSH(k)         == [op |-> "load x", k |-> k, jt |-> 0, jf |-> 0]
LoadHalfIndirect(k) == [op |-> "load half indirect", k |-> k, jt |-> 0, jf |-> 0]
JumpEqual(k, t, f)  == [op |-> "jump equal", k |-> k, jt |-> t, jf |-> f]
JumpSet(k, t, f)    == [op |-> "jump set", k |-> k, jt |-> t, jf |-> f]
Return(k)           == [op |-> "return", k |-> k, jt |-> 0, jf |-> 0]

\* Mutant: a jump counted from the instruction itself.
DhcpFilterOffByOne ==
  <<LoadHalf(12), JumpEqual(IPv4, 0, 14), LoadByte(23), JumpEqual(UDP, 0, 12),
    LoadHalf(20), JumpSet(16383, 10, 0), LoadXMSH(14), LoadHalfIndirect(14),
    JumpEqual(67, 3, 0), JumpEqual(68, 3, 0), Return(0), LoadHalfIndirect(16),
    JumpEqual(68, 2, 3), LoadHalfIndirect(16), JumpEqual(67, 0, 1),
    Return(65535), Return(0)>>

\* Mutant: the first rejection jumps past the end of the program.
DhcpFilterTooFar ==
  <<LoadHalf(12), JumpEqual(IPv4, 0, 15), LoadByte(23), JumpEqual(UDP, 0, 12),
    LoadHalf(20), JumpSet(16383, 10, 0), LoadXMSH(14), LoadHalfIndirect(14),
    JumpEqual(67, 2, 0), JumpEqual(68, 3, 0), Return(0), LoadHalfIndirect(16),
    JumpEqual(68, 2, 3), LoadHalfIndirect(16), JumpEqual(67, 0, 1),
    Return(65535), Return(0)>>

DhcpFilter ==
  <<LoadHalf(12), JumpEqual(IPv4, 0, 14), LoadByte(23), JumpEqual(UDP, 0, 12),
    LoadHalf(20), JumpSet(16383, 10, 0), LoadXMSH(14), LoadHalfIndirect(14),
    JumpEqual(67, 2, 0), JumpEqual(68, 3, 0), Return(0), LoadHalfIndirect(16),
    JumpEqual(68, 2, 3), LoadHalfIndirect(16), JumpEqual(67, 0, 1),
    Return(65535), Return(0)>>

\* Mutant: the last EtherType falls through to the rejection.
TrafficFilterOffByOne ==
  <<LoadHalf(12), JumpEqual(ARP, 3, 0), JumpEqual(IPv4, 2, 0), JumpEqual(IPv6, 0, 0),
    Return(0), Return(64)>>

TrafficFilter ==
  <<LoadHalf(12), JumpEqual(ARP, 3, 0), JumpEqual(IPv4, 2, 0), JumpEqual(IPv6, 1, 0),
    Return(0), Return(64)>>

Code == IF program = "dhcp" THEN DhcpFilter ELSE TrafficFilter
-----------------------------------------------------------------------------
(***************************************************************************)
(* The machine.                                                            *)
(***************************************************************************)

Instruction == Code[at + 1]

Init ==
  /\ program \in {"dhcp", "traffic"}
  /\ frame \in Frames
  /\ at = 0 /\ a = 0 /\ x = 0
  /\ verdict = Running

\* A load beyond the end of the frame rejects it.
Load(offset, size, value) ==
  IF Covers(frame, offset, size)
  THEN a' = value /\ at' = at + 1 /\ UNCHANGED <<x, verdict>>
  ELSE verdict' = 0 /\ UNCHANGED <<a, x, at>>

LoadHalfStep ==
  /\ Instruction.op = "load half"
  /\ Load(Instruction.k, 2, Halfword(frame, Instruction.k))

LoadByteStep ==
  /\ Instruction.op = "load byte"
  /\ Instruction.k = 23 /\ frame.tags = <<>>
  /\ Load(Instruction.k, 1, frame.protocol)

LoadHalfIndirectStep ==
  /\ Instruction.op = "load half indirect"
  /\ Load(x + Instruction.k, 2, Halfword(frame, x + Instruction.k))

\* The header length in bytes, from the low half of the byte at k.
LoadXStep ==
  /\ Instruction.op = "load x"
  /\ Instruction.k = 14 /\ frame.tags = <<>>
  /\ IF Covers(frame, Instruction.k, 1)
     THEN x' = 4 * frame.words /\ at' = at + 1 /\ UNCHANGED <<a, verdict>>
     ELSE verdict' = 0 /\ UNCHANGED <<a, x, at>>

\* The only mask in the programs is that of the low 14 bits.
Jump ==
  /\ Instruction.op \in {"jump equal", "jump set"}
  /\ at' = at + 1 + (IF \/ Instruction.op = "jump equal" /\ a = Instruction.k
                        \/ Instruction.op = "jump set" /\ a % (Instruction.k + 1) # 0
                     THEN Instruction.jt ELSE Instruction.jf)
  /\ UNCHANGED <<a, x, verdict>>

ReturnStep ==
  /\ Instruction.op = "return"
  /\ verdict' = Instruction.k
  /\ UNCHANGED <<a, x, at>>

Next ==
  /\ verdict = Running
  /\ \/ LoadHalfStep
     \/ LoadByteStep
     \/ LoadXStep
     \/ LoadHalfIndirectStep
     \/ Jump
     \/ ReturnStep
  /\ UNCHANGED <<program, frame>>

Spec == Init /\ [][Next]_vars
-----------------------------------------------------------------------------
(***************************************************************************)
(* The parsers.                                                            *)
(***************************************************************************)

\* Where the IP header is, behind the tags.
HeaderAt(f) == 14 + 4 * Len(f.tags)

IsIPv4(f) ==
  f.etherType = IPv4 /\ Covers(f, HeaderAt(f), 20) /\ f.version = 4

\* Mutant: a fragment is taken for a packet.
IsUDPFragmentOrNot(f) == f.protocol = UDP

IsUDP(f) == f.protocol = UDP /\ f.fragment % 16384 = 0

UsesDHCPPorts(f) == <<f.source, f.destination>> \in {<<67, 68>>, <<68, 67>>}

\* udpPayload: the payload, or one of its two errors.
UDPPayload(f) ==
  IF ~Covers(f, 0, HeaderAt(f))                    THEN "malformed"
  ELSE IF ~IsIPv4(f)                               THEN "not DHCP"
  ELSE IF ~Covers(f, HeaderAt(f) + 4 * f.words, 8) THEN "malformed"
  ELSE IF ~IsUDP(f)                                THEN "not DHCP"
  ELSE IF f.misfit = "IP"                          THEN "malformed"
  ELSE IF ~UsesDHCPPorts(f)                        THEN "not DHCP"
  ELSE IF f.misfit = "UDP"                         THEN "malformed"
  ELSE "payload"

\* sourceMAC looks for a sender in a frame of one of these types, and unwraps
\* no tag.
HasSource(f) == Covers(f, 0, 14) /\ TypeField(f) \in {ARP, IPv4, IPv6}
-----------------------------------------------------------------------------
\* Every program comes to an end at one of its own instructions.
TypeOK ==
  /\ program \in {"dhcp", "traffic"}
  /\ frame \in Frames
  /\ at \in 0 .. Len(Code) - 1
  /\ a \in Nat /\ x \in Nat
  /\ verdict \in {Running, 0, 64, 65535}

Passes == verdict > 0

\* The filter accepts untagged frames with unfragmented UDP packets using DHCP
\* ports, wherever the IP options have moved the ports to, and nothing else.
\* (dhcpFilter)
DhcpFilterIsExact ==
  (program = "dhcp" /\ verdict # Running) =>
    (Passes <=>
       /\ Covers(frame, DestinationPortAt(frame.words), 2)
       /\ frame.tags = <<>> /\ frame.etherType = IPv4
       /\ frame.protocol = UDP
       /\ frame.fragment \in {0, 16384, 32768, 49152}
       /\ UsesDHCPPorts(frame))

\* Where the filter and the parser differ: of the packets that the parser would
\* read the kernel drops exactly those behind a VLAN tag, which udpPayload is
\* ready to unwrap, and of the frames that pass the parser turns away as no DHCP
\* exactly those of another IP version.  (dhcpFilter, udpPayload)
DhcpFilterFitsParser ==
  (program = "dhcp" /\ verdict # Running) =>
    /\ UDPPayload(frame) = "payload" => (Passes <=> frame.tags = <<>>)
    /\ Passes => (UDPPayload(frame) = "not DHCP" <=> frame.version # 4)

\* The same of the other filter: exactly the frames in which the sniffer looks
\* for a sender reach it, with the bytes it looks at.
\* (trafficFilter, sourceMAC)
TrafficFilterFitsParser ==
  (program = "traffic" /\ verdict # Running) =>
    /\ Passes <=> HasSource(frame)
    /\ Passes => verdict >= 14
=============================================================================
