--------------------------- MODULE DhcpInputProofs ---------------------------
(***************************************************************************)
(* What comes through the filters and what becomes of it: the filters pass *)
(* exactly the frames that the parsers can use, and the option parser      *)
(* stays inside its payload and reads what its options say, whatever the   *)
(* bytes of it.                                                            *)
(***************************************************************************)
EXTENDS DhcpInput, SequenceTheorems, WellFoundedInduction, TLAPS

\* A set of positions has a first one and a last one.
LEMMA FirstAndLast ==
  ASSUME NEW n \in Nat, NEW S \in SUBSET (1 .. n), S # {}
  PROVE  /\ \E i \in S : \A j \in S : i <= j
         /\ \E i \in S : \A j \in S : j <= i
  <1> DEFINE Less == {p \in Nat \X Nat : p[1] < p[2]}
  <1>1. IsWellFoundedOn(Less, Nat)
    BY NatLessThanWellFounded DEF OpToRel
  <1>2. ASSUME NEW T, T \subseteq Nat, T # {}
        PROVE  \E i \in T : \A j \in T : i <= j
    <2>1. PICK i \in T : \A j \in T : ~(<<j, i>> \in Less)
      <3> HIDE DEF Less
      <3> QED BY <1>1, <1>2, WFMin
    <2>2. ASSUME NEW j \in T PROVE i <= j
      <3>1. i \in Nat /\ j \in Nat
        BY <1>2, <2>1
      <3>2. ~(j < i)
        <4>1. <<j, i>> \in Nat \X Nat
          BY <3>1
        <4> QED BY <2>1, <4>1
      <3> HIDE DEF Less
      <3> QED BY <3>1, <3>2
    <2> QED BY <2>2
  <1> HIDE DEF Less
  <1>3. S \subseteq Nat /\ \A i \in S : i \in Nat /\ i <= n
    OBVIOUS
  <1>4. \E i \in S : \A j \in S : i <= j
    BY <1>2, <1>3
  <1>5. \E i \in S : \A j \in S : j <= i
    <2> DEFINE T == {n - i : i \in S}
    <2>1. T \subseteq Nat /\ T # {}
      <3>1. \A i \in S : n - i \in Nat
        BY <1>3
      <3> QED BY <3>1
    <2>2. PICK t \in T : \A u \in T : t <= u
      BY <1>2, <2>1
    <2>3. PICK i \in S : t = n - i
      BY <2>2
    <2>4. ASSUME NEW j \in S PROVE j <= i
      <3>1. n - i <= n - j
        BY <2>2, <2>3
      <3> QED BY <1>3, <3>1
    <2> QED BY <2>4
  <1> QED BY <1>4, <1>5

\* A trimmed value is made of its bytes.
LEMMA TrimSpaceType ==
  ASSUME NEW bytes \in Seq(Byte)
  PROVE  TrimSpace(bytes) \in Seq(Byte)
  <1>1. CASE Inked(bytes) = {}
    BY <1>1 DEF TrimSpace, Empty
  <1>2. CASE Inked(bytes) # {}
    <2> DEFINE first == CHOOSE i \in Inked(bytes) : \A j \in Inked(bytes) : i <= j
               last  == CHOOSE i \in Inked(bytes) : \A j \in Inked(bytes) : j <= i
    <2>1. Inked(bytes) \in SUBSET (1 .. Len(bytes)) /\ Len(bytes) \in Nat
      BY LenProperties DEF Inked
    <2>2. first \in 1 .. Len(bytes) /\ last \in 1 .. Len(bytes)
      BY <1>2, <2>1, FirstAndLast
    <2>3. TrimSpace(bytes) = SubSeq(bytes, first, last)
      BY <1>2 DEF TrimSpace
    <2> HIDE DEF first, last
    <2>4. \A i \in first .. last : bytes[i] \in Byte
      BY <2>2, ElementOfSeq
    <2> QED BY <2>2, <2>3, <2>4, SubSeqProperties
  <1> QED BY <1>1, <1>2

\* An option is noted with bytes of its value.
LEMMA NotedType ==
  ASSUME NEW m \in Message, NEW code \in Byte, NEW value \in Seq(Byte)
  PROVE  Noted(m, code, value) \in Message
  <1>1. TrimSpace(value) \in Seq(Byte)
    BY TrimSpaceType
  <1>2. Len(value) = 1 => value[1] \in Byte
    BY ElementOfSeq
  <1> QED BY <1>1, <1>2 DEF Noted, Message

InPayload ==
  /\ options \in Seq(Byte)
  /\ StaysInPayload

\* Every step stays in the payload, and the next one can.
LEMMA InPayloadStep == InPayload /\ [ParserNext]_parser => InPayload'
  <1> SUFFICES ASSUME InPayload, [ParserNext]_parser PROVE InPayload'
    OBVIOUS
  <1> USE DEF InPayload, StaysInPayload, Parsing, Idle
  <1>1. CASE UNCHANGED parser
    BY <1>1 DEF parser
  <1>2. CASE RefuseHeader \/ NoEnd \/ RefuseOption
    BY <1>2 DEF RefuseHeader, NoEnd, RefuseOption, Finish
  <1>3. CASE ReachEnd
    BY <1>3 DEF ReachEnd, Finish
  <1>4. CASE SkipPad
    BY <1>4, LenProperties DEF SkipPad
  <1>5. CASE ReadOption
    <2> DEFINE n     == options[offset + 1]
               value == SubSeq(options, offset + 2, offset + 1 + n)
    <2>1. /\ Len(options) \in Nat /\ offset \in Nat /\ 1 <= offset
          /\ offset < Len(options)
          /\ options[offset] \in Byte /\ n \in Byte /\ n \in Nat
          /\ offset + 1 + n <= Len(options)
      <3>1. /\ Len(options) \in Nat /\ offset \in Nat /\ 1 <= offset
            /\ offset < Len(options)
        BY <1>5, LenProperties DEF ReadOption
      <3>2. options[offset] \in Byte /\ n \in Byte
        BY <3>1, ElementOfSeq
      <3>3. n \in Nat
        <4> HIDE DEF n
        <4> QED BY <3>2 DEF Byte
      <3>4. ~(offset + 1 + n > Len(options))
        BY <1>5 DEF ReadOption, BeyondPayload
      <3> HIDE DEF n
      <3> QED BY <3>1, <3>2, <3>3, <3>4
    <2>2. value \in Seq(Byte)
      <3>1. \A i \in offset + 2 .. offset + 1 + n : options[i] \in Byte
        <4> HIDE DEF n
        <4> TAKE i \in offset + 2 .. offset + 1 + n
        <4>1. i \in 1 .. Len(options)
          BY <2>1
        <4> QED BY <4>1, ElementOfSeq
      <3>2. offset + 2 \in Int /\ offset + 1 + n \in Int
        BY <2>1
      <3> HIDE DEF n
      <3> QED BY <3>1, <3>2, SubSeqProperties
    <2>3. /\ message' = Noted(message, options[offset], value)
          /\ offset' = offset + 2 + n
          /\ UNCHANGED <<header, options, parsed>>
      BY <1>5 DEF ReadOption, NextCode
    <2> HIDE DEF n, value
    <2>4. message' \in Message
      BY <2>1, <2>2, <2>3, NotedType
    <2>5. offset' \in 1 .. Len(options') + 1
      BY <2>1, <2>3 DEF Byte
    <2> QED BY <2>3, <2>4, <2>5
  <1> QED BY <1>1, <1>2, <1>3, <1>4, <1>5 DEF ParserNext

-----------------------------------------------------------------------------
(***************************************************************************)
(* The machine.                                                            *)
(***************************************************************************)

\* What each kind of instruction does.
LEMMA Instructions ==
  ASSUME Next
  PROVE  /\ verdict = Running /\ UNCHANGED <<program, frame>>
         /\ \A k : Instruction = LoadHalf(k) => Load(k, 2, Halfword(frame, k))
         /\ Instruction = LoadByte(23) => Load(23, 1, frame.protocol)
         /\ \A k : Instruction = LoadHalfIndirect(k) =>
              Load(x + k, 2, Halfword(frame, x + k))
         /\ Instruction = LoadXMSH(14) =>
              IF Covers(frame, 14, 1)
              THEN x' = 4 * frame.words /\ at' = at + 1 /\ UNCHANGED <<a, verdict>>
              ELSE verdict' = 0 /\ UNCHANGED <<a, x, at>>
         /\ \A k, t, f : Instruction = JumpEqual(k, t, f) =>
              /\ a = k => at' = at + 1 + t
              /\ a # k => at' = at + 1 + f
              /\ UNCHANGED <<a, x, verdict>>
         /\ \A k, t, f : Instruction = JumpSet(k, t, f) =>
              /\ a % (k + 1) # 0 => at' = at + 1 + t
              /\ a % (k + 1) = 0 => at' = at + 1 + f
              /\ UNCHANGED <<a, x, verdict>>
         /\ \A k : Instruction = Return(k) => verdict' = k /\ UNCHANGED <<a, x, at>>
  <1> USE DEF LoadHalf, LoadByte, LoadXMSH, LoadHalfIndirect, JumpEqual, JumpSet, Return
  <1>1. verdict = Running /\ UNCHANGED <<program, frame>>
    BY DEF Next
  <1>2. ASSUME NEW k, Instruction = LoadHalf(k)
        PROVE  Load(k, 2, Halfword(frame, k))
    BY <1>2 DEF Next, LoadHalfStep, LoadByteStep, LoadXStep, LoadHalfIndirectStep, Jump, ReturnStep
  <1>3. ASSUME Instruction = LoadByte(23)
        PROVE  Load(23, 1, frame.protocol)
    BY <1>3 DEF Next, LoadHalfStep, LoadByteStep, LoadXStep, LoadHalfIndirectStep, Jump, ReturnStep
  <1>4. ASSUME NEW k, Instruction = LoadHalfIndirect(k)
        PROVE  Load(x + k, 2, Halfword(frame, x + k))
    BY <1>4 DEF Next, LoadHalfStep, LoadByteStep, LoadXStep, LoadHalfIndirectStep, Jump, ReturnStep
  <1>5. ASSUME Instruction = LoadXMSH(14)
        PROVE  IF Covers(frame, 14, 1)
               THEN x' = 4 * frame.words /\ at' = at + 1 /\ UNCHANGED <<a, verdict>>
               ELSE verdict' = 0 /\ UNCHANGED <<a, x, at>>
    BY <1>5 DEF Next, LoadHalfStep, LoadByteStep, LoadXStep, LoadHalfIndirectStep, Jump, ReturnStep
  <1>6. ASSUME NEW k, NEW t, NEW f, Instruction = JumpEqual(k, t, f)
        PROVE  /\ a = k => at' = at + 1 + t
               /\ a # k => at' = at + 1 + f
               /\ UNCHANGED <<a, x, verdict>>
    BY <1>6 DEF Next, LoadHalfStep, LoadByteStep, LoadXStep, LoadHalfIndirectStep, Jump, ReturnStep
  <1>7. ASSUME NEW k, NEW t, NEW f, Instruction = JumpSet(k, t, f)
        PROVE  /\ a % (k + 1) # 0 => at' = at + 1 + t
               /\ a % (k + 1) = 0 => at' = at + 1 + f
               /\ UNCHANGED <<a, x, verdict>>
    BY <1>7 DEF Next, LoadHalfStep, LoadByteStep, LoadXStep, LoadHalfIndirectStep, Jump, ReturnStep
  <1>8. ASSUME NEW k, Instruction = Return(k)
        PROVE  verdict' = k /\ UNCHANGED <<a, x, at>>
    BY <1>8 DEF Next, LoadHalfStep, LoadByteStep, LoadXStep, LoadHalfIndirectStep, Jump, ReturnStep
  <1> QED BY <1>1, <1>2, <1>3, <1>4, <1>5, <1>6, <1>7, <1>8

\* The fields of a frame, and where the programs find them.
LEMMA FrameFields ==
  ASSUME NEW f \in Frames
  PROVE  /\ f.length \in Nat /\ TypeField(f) \in Half /\ f.fragment \in Half
         /\ f.protocol \in 0 .. 255 /\ f.words \in 5 .. 15
         /\ f.source \in Half /\ f.destination \in Half
         /\ Len(f.tags) \in Nat
         /\ Halfword(f, 12) = TypeField(f)
         /\ TypeField(f) = IPv4 <=> f.tags = <<>> /\ f.etherType = IPv4
         /\ f.tags = <<>> =>
              /\ Halfword(f, 20) = f.fragment
              /\ Halfword(f, SourcePortAt(f.words)) = f.source
              /\ Halfword(f, DestinationPortAt(f.words)) = f.destination
         /\ SourcePortAt(f.words) = 4 * f.words + 14
         /\ DestinationPortAt(f.words) = 4 * f.words + 16
  <1>1. /\ f.length \in Lengths /\ f.tags \in Tagged /\ f.etherType \in EtherTypes
        /\ f.fragment \in Fragments /\ f.protocol \in Protocols /\ f.words \in HeaderWords
        /\ f.source \in Ports /\ f.destination \in Ports
    BY DEF Frames
  <1>2. f.length \in Nat /\ f.protocol \in 0 .. 255 /\ f.words \in 5 .. 15
    <2>1. f.length \in Nat
      BY <1>1, FrameAssumption
    <2>2. f.protocol \in 0 .. 255
      BY <1>1, FrameAssumption
    <2>3. f.words \in 5 .. 15
      BY <1>1, FrameAssumption
    <2> QED BY <2>1, <2>2, <2>3
  <1>3. /\ f.fragment \in Half /\ f.source \in Half /\ f.destination \in Half
        /\ f.etherType \in Half /\ f.etherType \notin TagTypes
        /\ f.tags \in Seq(TagTypes)
    BY <1>1, FrameAssumption, Zenon
  <1>4. Len(f.tags) \in Nat /\ (f.tags # <<>> => f.tags[1] \in TagTypes)
    <2>1. Len(f.tags) \in Nat
      BY <1>3, LenProperties
    <2>2. ASSUME f.tags # <<>> PROVE f.tags[1] \in TagTypes
      BY <1>3, <2>2, EmptySeq, ElementOfSeq
    <2> QED BY <2>1, <2>2
  <1>5. TagTypes \subseteq Half /\ IPv4 \notin TagTypes
    BY DEF TagTypes, Half, IPv4
  <1>6. TypeField(f) \in Half
    BY <1>3, <1>4, <1>5, Zenon DEF TypeField
  <1>7. TypeField(f) = IPv4 <=> f.tags = <<>> /\ f.etherType = IPv4
    BY <1>4, <1>5, Zenon DEF TypeField
  <1>8. /\ SourcePortAt(f.words) = 4 * f.words + 14
        /\ DestinationPortAt(f.words) = 4 * f.words + 16
        /\ SourcePortAt(f.words) \notin {12, 20} /\ DestinationPortAt(f.words) \notin {12, 20}
        /\ SourcePortAt(f.words) # DestinationPortAt(f.words)
    BY <1>2 DEF SourcePortAt, DestinationPortAt
  <1>9. Halfword(f, 12) = TypeField(f)
    BY <1>8 DEF Halfword
  <1>10. ASSUME f.tags = <<>>
         PROVE  /\ Halfword(f, 20) = f.fragment
                /\ Halfword(f, SourcePortAt(f.words)) = f.source
                /\ Halfword(f, DestinationPortAt(f.words)) = f.destination
    <2>1. Halfword(f, 20) = f.fragment
      BY <1>8, <1>10 DEF Halfword
    <2>2. Halfword(f, SourcePortAt(f.words)) = f.source
      BY <1>8, <1>10 DEF Halfword
    <2>3. Halfword(f, DestinationPortAt(f.words)) = f.destination
      BY <1>8, <1>10 DEF Halfword
    <2> QED BY <2>1, <2>2, <2>3
  <1> QED BY <1>2, <1>3, <1>4, <1>6, <1>7, <1>8, <1>9, <1>10

-----------------------------------------------------------------------------
(***************************************************************************)
(* The filter of the DHCP collector.                                       *)
(***************************************************************************)

Acceptable(f) ==
  /\ Covers(f, DestinationPortAt(f.words), 2)
  /\ TypeField(f) = IPv4 /\ f.protocol = UDP /\ f.fragment % 16384 = 0
  /\ UsesDHCPPorts(f)

\* What the filter has found out of a frame when it comes to instruction i.
DhcpKnows(f, i, acc, index) ==
  /\ i = 1  => acc = TypeField(f)
  /\ i \in 2 .. 15  => TypeField(f) = IPv4
  /\ i = 3  => acc = f.protocol
  /\ i \in 4 .. 15  => f.protocol = UDP
  /\ i = 5  => acc = f.fragment
  /\ i \in 6 .. 15  => f.fragment % 16384 = 0
  /\ i \in 7 .. 15  => index = 4 * f.words
  /\ i \in {8, 9}   => acc = f.source
  /\ i = 9  => f.source # 67
  /\ i \in {11, 12} => f.source = 67
  /\ i \in {13, 14} => f.source = 68
  /\ i \in {12, 14} => acc = f.destination /\ Covers(f, DestinationPortAt(f.words), 2)
  /\ i = 15 => Acceptable(f)
  /\ i \in {10, 16} => ~Acceptable(f)

DhcpInv ==
  /\ frame \in Frames
  /\ at \in 0 .. 16 /\ a \in Nat /\ x \in Nat
  /\ DhcpKnows(frame, at, a, x)
  /\ \/ verdict = Running
     \/ verdict = 65535 /\ Acceptable(frame)
     \/ verdict = 0 /\ ~Acceptable(frame)

LEMMA DhcpCode ==
  /\ Len(DhcpFilter) = 17
  /\ DhcpFilter[1] = LoadHalf(12)          /\ DhcpFilter[2] = JumpEqual(IPv4, 0, 14)
  /\ DhcpFilter[3] = LoadByte(23)          /\ DhcpFilter[4] = JumpEqual(UDP, 0, 12)
  /\ DhcpFilter[5] = LoadHalf(20)          /\ DhcpFilter[6] = JumpSet(16383, 10, 0)
  /\ DhcpFilter[7] = LoadXMSH(14)          /\ DhcpFilter[8] = LoadHalfIndirect(14)
  /\ DhcpFilter[9] = JumpEqual(67, 2, 0)   /\ DhcpFilter[10] = JumpEqual(68, 3, 0)
  /\ DhcpFilter[11] = Return(0)            /\ DhcpFilter[12] = LoadHalfIndirect(16)
  /\ DhcpFilter[13] = JumpEqual(68, 2, 3)  /\ DhcpFilter[14] = LoadHalfIndirect(16)
  /\ DhcpFilter[15] = JumpEqual(67, 0, 1)  /\ DhcpFilter[16] = Return(65535)
  /\ DhcpFilter[17] = Return(0)
  BY DEF DhcpFilter

\* A frame that ends before a field the filter asks for is none it accepts.
LEMMA Uncovered ==
  ASSUME NEW f \in Frames
  PROVE  /\ ~Covers(f, 12, 2) => ~Acceptable(f)
         /\ ~Covers(f, 23, 1) => ~Acceptable(f)
         /\ ~Covers(f, 20, 2) => ~Acceptable(f)
         /\ ~Covers(f, 14, 1) => ~Acceptable(f)
         /\ ~Covers(f, SourcePortAt(f.words), 2) => ~Acceptable(f)
         /\ ~Covers(f, DestinationPortAt(f.words), 2) => ~Acceptable(f)
  <1>1. PICK w \in 5 .. 15 : w = f.words
    BY FrameFields
  <1>2. PICK n \in Nat : n = f.length
    BY FrameFields
  <1>3. SourcePortAt(f.words) = 4 * w + 14 /\ DestinationPortAt(f.words) = 4 * w + 16
    BY <1>1, FrameFields
  <1>4. ASSUME Covers(f, DestinationPortAt(f.words), 2)
        PROVE  /\ Covers(f, 12, 2) /\ Covers(f, 23, 1) /\ Covers(f, 20, 2)
               /\ Covers(f, 14, 1) /\ Covers(f, SourcePortAt(f.words), 2)
    BY <1>1, <1>2, <1>3, <1>4 DEF Covers
  <1> QED BY <1>4 DEF Acceptable

\* Every instruction of the filter finds out what the next one relies on.
LEMMA DhcpStep ==
  ASSUME program = "dhcp", DhcpInv, Next
  PROVE  DhcpInv'
  <1>a. Code = DhcpFilter
    BY DEF Code
  <1>b. /\ verdict = Running /\ UNCHANGED <<program, frame>>
        /\ frame \in Frames /\ a \in Nat /\ x \in Nat
    BY Instructions DEF DhcpInv
  <1>c. ASSUME NEW i \in 0 .. 16, NEW acc \in Nat, NEW index \in Nat,
               at' = i, a' = acc, x' = index, verdict' = verdict, DhcpKnows(frame, i, acc, index)
        PROVE  DhcpInv'
    BY <1>b, <1>c DEF DhcpInv
  <1>d. ASSUME ~Acceptable(frame), verdict' = 0, UNCHANGED <<a, x, at>>
        PROVE  DhcpInv'
    BY <1>b, <1>d DEF DhcpInv
  <1>e. /\ TypeField(frame) \in Nat /\ frame.fragment \in Nat /\ frame.protocol \in Nat
        /\ frame.source \in Nat /\ frame.destination \in Nat
        /\ 4 * frame.words \in Nat
    <2>1. /\ TypeField(frame) \in Half /\ frame.fragment \in Half
          /\ frame.protocol \in 0 .. 255 /\ frame.words \in 5 .. 15
          /\ frame.source \in Half /\ frame.destination \in Half
      <3>1. frame \in Frames
        BY <1>b
      <3> QED BY ONLY <3>1, FrameFields
    <2>2. Half \subseteq Nat /\ 0 .. 255 \subseteq Nat
      BY DEF Half
    <2>3. \A w \in 5 .. 15 : 4 * w \in Nat
      OBVIOUS
    <2> QED BY <2>1, <2>2, <2>3, Zenon
  <1>1. CASE at = 0
    <2>1. Instruction = LoadHalf(12)
      BY <1>1, <1>a, DhcpCode DEF Instruction
    <2>2. DhcpKnows(frame, 0, a, x)
      BY <1>1 DEF DhcpInv
    <2>4. /\ Covers(frame, 12, 2) =>
               a' = TypeField(frame) /\ at' = 1 /\ UNCHANGED <<x, verdict>>
          /\ ~Covers(frame, 12, 2) => verdict' = 0 /\ UNCHANGED <<a, x, at>>
      BY <1>1, <1>b, <2>1, FrameFields, Instructions DEF Load
    <2>5. Covers(frame, 12, 2) => DhcpKnows(frame, 1, TypeField(frame), x)
      BY <2>2 DEF DhcpKnows
    <2>6. ~Covers(frame, 12, 2) => ~Acceptable(frame)
      BY <1>b, Uncovered
    <2> QED BY <1>b, <1>c, <1>d, <1>e, <2>4, <2>5, <2>6
  <1>2. CASE at = 1
    <2>1. Instruction = JumpEqual(IPv4, 0, 14)
      BY <1>2, <1>a, DhcpCode DEF Instruction
    <2>2. DhcpKnows(frame, 1, a, x)
      BY <1>2 DEF DhcpInv
    <2>3. /\ TypeField(frame) = IPv4 => at' = 2
          /\ TypeField(frame) # IPv4 => at' = 16
          /\ UNCHANGED <<a, x, verdict>>
      <3>1. a = TypeField(frame)
        BY <2>2 DEF DhcpKnows
      <3>2. UNCHANGED <<a, x, verdict>>
        BY <2>1, Instructions
      <3>3. TypeField(frame) = IPv4 => at' = 2 + 0
        BY <1>2, <2>1, <3>1, Instructions
      <3>4. TypeField(frame) # IPv4 => at' = 2 + 14
        BY <1>2, <2>1, <3>1, Instructions
      <3> QED BY <3>2, <3>3, <3>4
    <2>4. /\ TypeField(frame) = IPv4 => DhcpKnows(frame, 2, a, x)
          /\ TypeField(frame) # IPv4 => DhcpKnows(frame, 16, a, x)
      BY <2>2 DEF DhcpKnows, Acceptable, UsesDHCPPorts
    <2> QED BY <1>b, <1>c, <2>3, <2>4
  <1>3. CASE at = 2
    <2>1. Instruction = LoadByte(23)
      BY <1>3, <1>a, DhcpCode DEF Instruction
    <2>2. DhcpKnows(frame, 2, a, x)
      BY <1>3 DEF DhcpInv
    <2>4. /\ Covers(frame, 23, 1) =>
               a' = frame.protocol /\ at' = 3 /\ UNCHANGED <<x, verdict>>
          /\ ~Covers(frame, 23, 1) => verdict' = 0 /\ UNCHANGED <<a, x, at>>
      BY <1>3, <1>b, <2>1, Instructions DEF Load
    <2>5. Covers(frame, 23, 1) => DhcpKnows(frame, 3, frame.protocol, x)
      BY <2>2 DEF DhcpKnows
    <2>6. ~Covers(frame, 23, 1) => ~Acceptable(frame)
      BY <1>b, Uncovered
    <2> QED BY <1>b, <1>c, <1>d, <1>e, <2>4, <2>5, <2>6
  <1>4. CASE at = 3
    <2>1. Instruction = JumpEqual(UDP, 0, 12)
      BY <1>4, <1>a, DhcpCode DEF Instruction
    <2>2. DhcpKnows(frame, 3, a, x)
      BY <1>4 DEF DhcpInv
    <2>3. /\ frame.protocol = UDP => at' = 4
          /\ frame.protocol # UDP => at' = 16
          /\ UNCHANGED <<a, x, verdict>>
      <3>1. a = frame.protocol
        BY <2>2 DEF DhcpKnows
      <3>2. UNCHANGED <<a, x, verdict>>
        BY <2>1, Instructions
      <3>3. frame.protocol = UDP => at' = 4 + 0
        BY <1>4, <2>1, <3>1, Instructions
      <3>4. frame.protocol # UDP => at' = 4 + 12
        BY <1>4, <2>1, <3>1, Instructions
      <3> QED BY <3>2, <3>3, <3>4
    <2>4. /\ frame.protocol = UDP => DhcpKnows(frame, 4, a, x)
          /\ frame.protocol # UDP => DhcpKnows(frame, 16, a, x)
      BY <2>2 DEF DhcpKnows, Acceptable, UsesDHCPPorts
    <2> QED BY <1>b, <1>c, <2>3, <2>4
  <1>5. CASE at = 4
    <2>1. Instruction = LoadHalf(20)
      BY <1>5, <1>a, DhcpCode DEF Instruction
    <2>2. DhcpKnows(frame, 4, a, x)
      BY <1>5 DEF DhcpInv
    <2>4. /\ Covers(frame, 20, 2) =>
               a' = frame.fragment /\ at' = 5 /\ UNCHANGED <<x, verdict>>
          /\ ~Covers(frame, 20, 2) => verdict' = 0 /\ UNCHANGED <<a, x, at>>
      <3>1. TypeField(frame) = IPv4
        BY <2>2 DEF DhcpKnows
      <3>2. Halfword(frame, 20) = frame.fragment
        BY <1>b, <3>1, FrameFields
      <3>3. Load(20, 2, Halfword(frame, 20))
        BY <2>1, Instructions
      <3> QED BY <1>5, <3>2, <3>3 DEF Load
    <2>5. Covers(frame, 20, 2) => DhcpKnows(frame, 5, frame.fragment, x)
      BY <2>2 DEF DhcpKnows
    <2>6. ~Covers(frame, 20, 2) => ~Acceptable(frame)
      BY <1>b, Uncovered
    <2> QED BY <1>b, <1>c, <1>d, <1>e, <2>4, <2>5, <2>6
  <1>6. CASE at = 5
    <2>1. Instruction = JumpSet(16383, 10, 0)
      BY <1>6, <1>a, DhcpCode DEF Instruction
    <2>2. DhcpKnows(frame, 5, a, x)
      BY <1>6 DEF DhcpInv
    <2>3. /\ frame.fragment % 16384 # 0 => at' = 16
          /\ frame.fragment % 16384 = 0 => at' = 6
          /\ UNCHANGED <<a, x, verdict>>
      <3>1. a = frame.fragment
        BY <2>2 DEF DhcpKnows
      <3>2. UNCHANGED <<a, x, verdict>>
        BY <2>1, Instructions
      <3>3. frame.fragment % 16384 # 0 => at' = 6 + 10
        BY <1>6, <2>1, <3>1, Instructions
      <3>4. frame.fragment % 16384 = 0 => at' = 6 + 0
        BY <1>6, <2>1, <3>1, Instructions
      <3> QED BY <3>2, <3>3, <3>4
    <2>4. /\ frame.fragment % 16384 # 0 => DhcpKnows(frame, 16, a, x)
          /\ frame.fragment % 16384 = 0 => DhcpKnows(frame, 6, a, x)
      BY <2>2 DEF DhcpKnows, Acceptable, UsesDHCPPorts
    <2> QED BY <1>b, <1>c, <2>3, <2>4
  <1>7. CASE at = 6
    <2>1. Instruction = LoadXMSH(14)
      BY <1>7, <1>a, DhcpCode DEF Instruction
    <2>2. DhcpKnows(frame, 6, a, x)
      BY <1>7 DEF DhcpInv
    <2>3. /\ Covers(frame, 14, 1) =>
               x' = 4 * frame.words /\ at' = 7 /\ UNCHANGED <<a, verdict>>
          /\ ~Covers(frame, 14, 1) => verdict' = 0 /\ UNCHANGED <<a, x, at>>
      BY <1>7, <2>1, Instructions
    <2>4. DhcpKnows(frame, 7, a, 4 * frame.words)
      BY <2>2 DEF DhcpKnows
    <2>5. ~Covers(frame, 14, 1) => ~Acceptable(frame)
      BY <1>b, Uncovered
    <2> QED BY <1>b, <1>c, <1>d, <1>e, <2>3, <2>4, <2>5
  <1>8. CASE at = 7
    <2>1. Instruction = LoadHalfIndirect(14)
      BY <1>8, <1>a, DhcpCode DEF Instruction
    <2>2. DhcpKnows(frame, 7, a, x)
      BY <1>8 DEF DhcpInv
    <2>3. x + 14 = SourcePortAt(frame.words) /\ Halfword(frame, x + 14) = frame.source
      BY <1>b, <2>2, FrameFields DEF DhcpKnows
    <2>4. /\ Covers(frame, SourcePortAt(frame.words), 2) =>
               a' = frame.source /\ at' = 8 /\ UNCHANGED <<x, verdict>>
          /\ ~Covers(frame, SourcePortAt(frame.words), 2) => verdict' = 0 /\ UNCHANGED <<a, x, at>>
      BY <1>8, <1>b, <2>1, <2>3, Instructions DEF Load
    <2>5. Covers(frame, SourcePortAt(frame.words), 2) => DhcpKnows(frame, 8, frame.source, x)
      BY <2>2 DEF DhcpKnows
    <2>6. ~Covers(frame, SourcePortAt(frame.words), 2) => ~Acceptable(frame)
      BY <1>b, Uncovered
    <2> QED BY <1>b, <1>c, <1>d, <1>e, <2>4, <2>5, <2>6
  <1>9. CASE at = 8
    <2>1. Instruction = JumpEqual(67, 2, 0)
      BY <1>9, <1>a, DhcpCode DEF Instruction
    <2>2. DhcpKnows(frame, 8, a, x)
      BY <1>9 DEF DhcpInv
    <2>3. /\ frame.source = 67 => at' = 11
          /\ frame.source # 67 => at' = 9
          /\ UNCHANGED <<a, x, verdict>>
      <3>1. a = frame.source
        BY <2>2 DEF DhcpKnows
      <3>2. UNCHANGED <<a, x, verdict>>
        BY <2>1, Instructions
      <3>3. frame.source = 67 => at' = 9 + 2
        BY <1>9, <2>1, <3>1, Instructions
      <3>4. frame.source # 67 => at' = 9 + 0
        BY <1>9, <2>1, <3>1, Instructions
      <3> QED BY <3>2, <3>3, <3>4
    <2>4. /\ frame.source = 67 => DhcpKnows(frame, 11, a, x)
          /\ frame.source # 67 => DhcpKnows(frame, 9, a, x)
      BY <2>2 DEF DhcpKnows, Acceptable, UsesDHCPPorts
    <2> QED BY <1>b, <1>c, <2>3, <2>4
  <1>10. CASE at = 9
    <2>1. Instruction = JumpEqual(68, 3, 0)
      BY <1>10, <1>a, DhcpCode DEF Instruction
    <2>2. DhcpKnows(frame, 9, a, x)
      BY <1>10 DEF DhcpInv
    <2>3. /\ frame.source = 68 => at' = 13
          /\ frame.source # 68 => at' = 10
          /\ UNCHANGED <<a, x, verdict>>
      <3>1. a = frame.source
        BY <2>2 DEF DhcpKnows
      <3>2. UNCHANGED <<a, x, verdict>>
        BY <2>1, Instructions
      <3>3. frame.source = 68 => at' = 10 + 3
        BY <1>10, <2>1, <3>1, Instructions
      <3>4. frame.source # 68 => at' = 10 + 0
        BY <1>10, <2>1, <3>1, Instructions
      <3> QED BY <3>2, <3>3, <3>4
    <2>4. /\ frame.source = 68 => DhcpKnows(frame, 13, a, x)
          /\ frame.source # 68 => DhcpKnows(frame, 10, a, x)
      BY <2>2 DEF DhcpKnows, Acceptable, UsesDHCPPorts
    <2> QED BY <1>b, <1>c, <2>3, <2>4
  <1>11. CASE at = 10
    <2>1. Instruction = Return(0)
      BY <1>11, <1>a, DhcpCode DEF Instruction
    <2>2. ~Acceptable(frame)
      BY <1>11 DEF DhcpInv, DhcpKnows
    <2>3. verdict' = 0 /\ UNCHANGED <<a, x, at>>
      BY <2>1, Instructions
    <2> QED BY <1>b, <2>2, <2>3 DEF DhcpInv
  <1>12. CASE at = 11
    <2>1. Instruction = LoadHalfIndirect(16)
      BY <1>12, <1>a, DhcpCode DEF Instruction
    <2>2. DhcpKnows(frame, 11, a, x)
      BY <1>12 DEF DhcpInv
    <2>3. x + 16 = DestinationPortAt(frame.words) /\ Halfword(frame, x + 16) = frame.destination
      BY <1>b, <2>2, FrameFields DEF DhcpKnows
    <2>4. /\ Covers(frame, DestinationPortAt(frame.words), 2) =>
               a' = frame.destination /\ at' = 12 /\ UNCHANGED <<x, verdict>>
          /\ ~Covers(frame, DestinationPortAt(frame.words), 2) => verdict' = 0 /\ UNCHANGED <<a, x, at>>
      BY <1>12, <1>b, <2>1, <2>3, Instructions DEF Load
    <2>5. Covers(frame, DestinationPortAt(frame.words), 2) => DhcpKnows(frame, 12, frame.destination, x)
      BY <2>2 DEF DhcpKnows
    <2>6. ~Covers(frame, DestinationPortAt(frame.words), 2) => ~Acceptable(frame)
      BY <1>b, Uncovered
    <2> QED BY <1>b, <1>c, <1>d, <1>e, <2>4, <2>5, <2>6
  <1>13. CASE at = 12
    <2>1. Instruction = JumpEqual(68, 2, 3)
      BY <1>13, <1>a, DhcpCode DEF Instruction
    <2>2. DhcpKnows(frame, 12, a, x)
      BY <1>13 DEF DhcpInv
    <2>3. /\ frame.destination = 68 => at' = 15
          /\ frame.destination # 68 => at' = 16
          /\ UNCHANGED <<a, x, verdict>>
      <3>1. a = frame.destination
        BY <2>2 DEF DhcpKnows
      <3>2. UNCHANGED <<a, x, verdict>>
        BY <2>1, Instructions
      <3>3. frame.destination = 68 => at' = 13 + 2
        BY <1>13, <2>1, <3>1, Instructions
      <3>4. frame.destination # 68 => at' = 13 + 3
        BY <1>13, <2>1, <3>1, Instructions
      <3> QED BY <3>2, <3>3, <3>4
    <2>4. /\ frame.destination = 68 => DhcpKnows(frame, 15, a, x)
          /\ frame.destination # 68 => DhcpKnows(frame, 16, a, x)
      BY <2>2 DEF DhcpKnows, Acceptable, UsesDHCPPorts
    <2> QED BY <1>b, <1>c, <2>3, <2>4
  <1>14. CASE at = 13
    <2>1. Instruction = LoadHalfIndirect(16)
      BY <1>14, <1>a, DhcpCode DEF Instruction
    <2>2. DhcpKnows(frame, 13, a, x)
      BY <1>14 DEF DhcpInv
    <2>3. x + 16 = DestinationPortAt(frame.words) /\ Halfword(frame, x + 16) = frame.destination
      BY <1>b, <2>2, FrameFields DEF DhcpKnows
    <2>4. /\ Covers(frame, DestinationPortAt(frame.words), 2) =>
               a' = frame.destination /\ at' = 14 /\ UNCHANGED <<x, verdict>>
          /\ ~Covers(frame, DestinationPortAt(frame.words), 2) => verdict' = 0 /\ UNCHANGED <<a, x, at>>
      BY <1>14, <1>b, <2>1, <2>3, Instructions DEF Load
    <2>5. Covers(frame, DestinationPortAt(frame.words), 2) => DhcpKnows(frame, 14, frame.destination, x)
      BY <2>2 DEF DhcpKnows
    <2>6. ~Covers(frame, DestinationPortAt(frame.words), 2) => ~Acceptable(frame)
      BY <1>b, Uncovered
    <2> QED BY <1>b, <1>c, <1>d, <1>e, <2>4, <2>5, <2>6
  <1>15. CASE at = 14
    <2>1. Instruction = JumpEqual(67, 0, 1)
      BY <1>15, <1>a, DhcpCode DEF Instruction
    <2>2. DhcpKnows(frame, 14, a, x)
      BY <1>15 DEF DhcpInv
    <2>3. /\ frame.destination = 67 => at' = 15
          /\ frame.destination # 67 => at' = 16
          /\ UNCHANGED <<a, x, verdict>>
      <3>1. a = frame.destination
        BY <2>2 DEF DhcpKnows
      <3>2. UNCHANGED <<a, x, verdict>>
        BY <2>1, Instructions
      <3>3. frame.destination = 67 => at' = 15 + 0
        BY <1>15, <2>1, <3>1, Instructions
      <3>4. frame.destination # 67 => at' = 15 + 1
        BY <1>15, <2>1, <3>1, Instructions
      <3> QED BY <3>2, <3>3, <3>4
    <2>4. /\ frame.destination = 67 => DhcpKnows(frame, 15, a, x)
          /\ frame.destination # 67 => DhcpKnows(frame, 16, a, x)
      BY <2>2 DEF DhcpKnows, Acceptable, UsesDHCPPorts
    <2> QED BY <1>b, <1>c, <2>3, <2>4
  <1>16. CASE at = 15
    <2>1. Instruction = Return(65535)
      BY <1>16, <1>a, DhcpCode DEF Instruction
    <2>2. Acceptable(frame)
      BY <1>16 DEF DhcpInv, DhcpKnows
    <2>3. verdict' = 65535 /\ UNCHANGED <<a, x, at>>
      BY <2>1, Instructions
    <2> QED BY <1>b, <2>2, <2>3 DEF DhcpInv
  <1>17. CASE at = 16
    <2>1. Instruction = Return(0)
      BY <1>17, <1>a, DhcpCode DEF Instruction
    <2>2. ~Acceptable(frame)
      BY <1>17 DEF DhcpInv, DhcpKnows
    <2>3. verdict' = 0 /\ UNCHANGED <<a, x, at>>
      BY <2>1, Instructions
    <2> QED BY <1>b, <2>2, <2>3 DEF DhcpInv
  <1>18. at \in 0 .. 16
    BY DEF DhcpInv
  <1> QED BY <1>1, <1>2, <1>3, <1>4, <1>5, <1>6, <1>7, <1>8, <1>9, <1>10, <1>11, <1>12, <1>13,
             <1>14, <1>15, <1>16, <1>17, <1>18

-----------------------------------------------------------------------------
(***************************************************************************)
(* The filter of the sniffer.                                              *)
(***************************************************************************)

TrafficKnows(f, i, acc) ==
  /\ i >= 1 => Covers(f, 0, 14)
  /\ i \in 1 .. 3 => acc = TypeField(f)
  /\ i \in 2 .. 4 => TypeField(f) # ARP
  /\ i \in 3 .. 4 => TypeField(f) # IPv4
  /\ i = 4 => TypeField(f) # IPv6
  /\ i = 5 => TypeField(f) \in {ARP, IPv4, IPv6}

TrafficInv ==
  /\ frame \in Frames
  /\ at \in 0 .. 5 /\ a \in Nat /\ x \in Nat
  /\ TrafficKnows(frame, at, a)
  /\ \/ verdict = Running
     \/ verdict = 64 /\ HasSource(frame)
     \/ verdict = 0 /\ ~HasSource(frame)

LEMMA TrafficCode ==
  /\ Len(TrafficFilter) = 6
  /\ TrafficFilter[1] = LoadHalf(12)           /\ TrafficFilter[2] = JumpEqual(ARP, 3, 0)
  /\ TrafficFilter[3] = JumpEqual(IPv4, 2, 0)  /\ TrafficFilter[4] = JumpEqual(IPv6, 1, 0)
  /\ TrafficFilter[5] = Return(0)              /\ TrafficFilter[6] = Return(64)
  BY DEF TrafficFilter

\* So does every instruction of the other filter.
LEMMA TrafficStep ==
  ASSUME program = "traffic", TrafficInv, Next
  PROVE  TrafficInv'
  <1>a. Code = TrafficFilter
    BY DEF Code
  <1>b. /\ verdict = Running /\ UNCHANGED <<program, frame>>
        /\ frame \in Frames /\ a \in Nat /\ x \in Nat
    BY Instructions DEF TrafficInv
  <1>c. ASSUME NEW i \in 0 .. 5, NEW acc \in Nat,
               at' = i, a' = acc, UNCHANGED <<x, verdict>>, TrafficKnows(frame, i, acc)
        PROVE  TrafficInv'
    BY <1>b, <1>c DEF TrafficInv
  <1>d. /\ Covers(frame, 0, 14) <=> Covers(frame, 12, 2)
        /\ TypeField(frame) \in Nat
    <2>1. PICK n \in Nat : n = frame.length
      BY <1>b, FrameFields
    <2>2. Half \subseteq Nat
      BY DEF Half
    <2>3. Covers(frame, 0, 14) <=> Covers(frame, 12, 2)
      BY <2>1 DEF Covers
    <2> QED BY <1>b, <2>2, <2>3, FrameFields
  <1>1. CASE at = 0
    <2>1. Instruction = LoadHalf(12)
      BY <1>1, <1>a, TrafficCode DEF Instruction
    <2>2. /\ Covers(frame, 12, 2) =>
               a' = TypeField(frame) /\ at' = 1 /\ UNCHANGED <<x, verdict>>
          /\ ~Covers(frame, 12, 2) => verdict' = 0 /\ UNCHANGED <<a, x, at>>
      BY <1>1, <1>b, <2>1, FrameFields, Instructions DEF Load
    <2>3. CASE Covers(frame, 12, 2)
      <3>1. TrafficKnows(frame, 1, TypeField(frame))
        BY <1>d, <2>3 DEF TrafficKnows
      <3> QED BY <1>c, <1>d, <2>2, <2>3, <3>1
    <2>4. CASE ~Covers(frame, 12, 2)
      <3>1. ~HasSource(frame)
        BY <1>d, <2>4 DEF HasSource
      <3> QED BY <1>b, <2>2, <2>4, <3>1 DEF TrafficInv
    <2> QED BY <2>3, <2>4
  <1>2. ASSUME NEW i \in 1 .. 3, at = i, NEW type, NEW j \in {4 - i},
               Instruction = JumpEqual(type, j, 0)
        PROVE  /\ UNCHANGED <<a, x, verdict>> /\ TrafficKnows(frame, i, a)
               /\ a = TypeField(frame)
               /\ TypeField(frame) = type => at' = 5
               /\ TypeField(frame) # type => at' = i + 1
    <2>1. TrafficKnows(frame, i, a)
      BY <1>2 DEF TrafficInv
    <2>2. a = TypeField(frame)
      BY <2>1 DEF TrafficKnows
    <2>3. /\ a = type => at' = i + 1 + j
          /\ a # type => at' = i + 1 + 0
          /\ UNCHANGED <<a, x, verdict>>
      BY <1>2, Instructions
    <2> QED BY <2>1, <2>2, <2>3
  <1>3. CASE at = 1
    <2>1. Instruction = JumpEqual(ARP, 3, 0)
      BY <1>3, <1>a, TrafficCode DEF Instruction
    <2>2. /\ UNCHANGED <<a, x, verdict>> /\ TrafficKnows(frame, 1, a)
          /\ TypeField(frame) = ARP => at' = 5
          /\ TypeField(frame) # ARP => at' = 2
      BY <1>2, <1>3, <2>1
    <2>3. /\ TypeField(frame) = ARP => TrafficKnows(frame, 5, a)
          /\ TypeField(frame) # ARP => TrafficKnows(frame, 2, a)
      BY <2>2 DEF TrafficKnows
    <2> QED BY <1>b, <1>c, <2>2, <2>3
  <1>4. CASE at = 2
    <2>1. Instruction = JumpEqual(IPv4, 2, 0)
      BY <1>4, <1>a, TrafficCode DEF Instruction
    <2>2. /\ UNCHANGED <<a, x, verdict>> /\ TrafficKnows(frame, 2, a)
          /\ TypeField(frame) = IPv4 => at' = 5
          /\ TypeField(frame) # IPv4 => at' = 3
      BY <1>2, <1>4, <2>1
    <2>3. /\ TypeField(frame) = IPv4 => TrafficKnows(frame, 5, a)
          /\ TypeField(frame) # IPv4 => TrafficKnows(frame, 3, a)
      BY <2>2 DEF TrafficKnows
    <2> QED BY <1>b, <1>c, <2>2, <2>3
  <1>5. CASE at = 3
    <2>1. Instruction = JumpEqual(IPv6, 1, 0)
      BY <1>5, <1>a, TrafficCode DEF Instruction
    <2>2. /\ UNCHANGED <<a, x, verdict>> /\ TrafficKnows(frame, 3, a)
          /\ TypeField(frame) = IPv6 => at' = 5
          /\ TypeField(frame) # IPv6 => at' = 4
      BY <1>2, <1>5, <2>1
    <2>3. /\ TypeField(frame) = IPv6 => TrafficKnows(frame, 5, a)
          /\ TypeField(frame) # IPv6 => TrafficKnows(frame, 4, a)
      BY <2>2 DEF TrafficKnows
    <2> QED BY <1>b, <1>c, <2>2, <2>3
  <1>6. CASE at = 4
    <2>1. Instruction = Return(0)
      BY <1>6, <1>a, TrafficCode DEF Instruction
    <2>2. ~HasSource(frame)
      BY <1>6 DEF TrafficInv, TrafficKnows, HasSource
    <2>3. verdict' = 0 /\ UNCHANGED <<a, x, at>>
      BY <2>1, Instructions
    <2> QED BY <1>b, <2>2, <2>3 DEF TrafficInv
  <1>7. CASE at = 5
    <2>1. Instruction = Return(64)
      BY <1>7, <1>a, TrafficCode DEF Instruction
    <2>2. HasSource(frame)
      BY <1>7 DEF TrafficInv, TrafficKnows, HasSource
    <2>3. verdict' = 64 /\ UNCHANGED <<a, x, at>>
      BY <2>1, Instructions
    <2> QED BY <1>b, <2>2, <2>3 DEF TrafficInv
  <1>8. at \in 0 .. 5
    BY DEF TrafficInv
  <1> QED BY <1>1, <1>3, <1>4, <1>5, <1>6, <1>7, <1>8

-----------------------------------------------------------------------------
(***************************************************************************)
(* What passes.                                                            *)
(***************************************************************************)

FilterInv ==
  /\ program \in {"dhcp", "traffic"}
  /\ program = "dhcp" => DhcpInv
  /\ program = "traffic" => TrafficInv

LEMMA FilterInit == Init => FilterInv
  BY DEF Init, FilterInv, DhcpInv, DhcpKnows, TrafficInv, TrafficKnows

LEMMA FilterStepKeeps ==
  ASSUME FilterInv, [FilterStep \/ Unpack \/ ParserStep]_<<vars, parser>>
  PROVE  FilterInv'
  <1>1. CASE Next
    <2>1. program' = program
      BY <1>1, Instructions
    <2>2. CASE program = "dhcp"
      BY <1>1, <2>1, <2>2, DhcpStep DEF FilterInv
    <2>3. CASE program = "traffic"
      BY <1>1, <2>1, <2>3, TrafficStep DEF FilterInv
    <2> QED BY <2>2, <2>3 DEF FilterInv
  <1>2. CASE UNCHANGED vars
    <2>1. UNCHANGED <<program, frame, at, a, x, verdict>>
      BY <1>2 DEF vars
    <2> QED BY <2>1 DEF FilterInv, DhcpInv, TrafficInv
  <1> QED BY <1>1, <1>2 DEF FilterStep, Unpack, ParserStep

LEMMA FilterInvariant == InputSpec => []FilterInv
  BY FilterInit, FilterStepKeeps, PTL DEF InputSpec, InputInit

\* The machine that runs the filters keeps its types: every jump lands on an instruction of
\* its own program, and every program ends on one of the results it can return.
THEOREM FilterTypeCorrect == InputSpec => []TypeOK
  <1>1. FilterInv => TypeOK
    <2> SUFFICES ASSUME FilterInv PROVE TypeOK
      OBVIOUS
    <2>1. CASE program = "dhcp"
      <3>1. Code = DhcpFilter /\ Len(Code) = 17
        BY <2>1, DhcpCode DEF Code
      <3> QED BY <2>1, <3>1 DEF FilterInv, DhcpInv, TypeOK
    <2>2. CASE program = "traffic"
      <3>1. Code = TrafficFilter /\ Len(Code) = 6
        BY <2>2, TrafficCode DEF Code
      <3> QED BY <2>2, <3>1 DEF FilterInv, TrafficInv, TypeOK
    <2> QED BY <2>1, <2>2 DEF FilterInv
  <1> QED BY <1>1, FilterInvariant, PTL

\* The filter has passed exactly the frames it is to pass.
LEMMA DhcpVerdict ==
  ASSUME FilterInv, program = "dhcp", verdict # Running
  PROVE  frame \in Frames /\ (Passes <=> Acceptable(frame))
  BY DEF FilterInv, DhcpInv, Passes, Running

\* The DHCP filter accepts untagged frames with unfragmented IPv4 UDP packets that use the
\* ports of DHCP, wherever the IP options have moved them to, and nothing else; of frames of
\* any length and content.
\* (dhcpFilter)
THEOREM FilterIsExact == InputSpec => []DhcpFilterIsExact
  <1>1. ASSUME NEW fragment \in Half
        PROVE  fragment % 16384 = 0 <=> fragment \in {0, 16384, 32768, 49152}
    <2>1. fragment \in Nat /\ fragment < 65536
      BY <1>1 DEF Half
    <2>2. /\ fragment = 16384 * (fragment \div 16384) + (fragment % 16384)
          /\ fragment \div 16384 \in 0 .. 3
      BY <2>1
    <2>3. fragment % 16384 = 0 => fragment \in {0, 16384, 32768, 49152}
      BY <2>1, <2>2
    <2>4. fragment \in {0, 16384, 32768, 49152} => fragment % 16384 = 0
      OBVIOUS
    <2> QED BY <2>3, <2>4
  <1>2. FilterInv => DhcpFilterIsExact
    <2> SUFFICES ASSUME FilterInv, program = "dhcp", verdict # Running
                 PROVE  DhcpFilterIsExact
      BY DEF DhcpFilterIsExact
    <2>1. frame \in Frames /\ (Passes <=> Acceptable(frame))
      BY DhcpVerdict
    <2>2. frame.fragment % 16384 = 0 <=> frame.fragment \in {0, 16384, 32768, 49152}
      BY <1>1, <2>1, FrameFields
    <2>3. TypeField(frame) = IPv4 <=> frame.tags = <<>> /\ frame.etherType = IPv4
      BY <2>1, FrameFields
    <2> QED BY <2>1, <2>2, <2>3 DEF DhcpFilterIsExact, Acceptable
  <1> QED BY <1>2, FilterInvariant, PTL

\* What the filter accepts of the packets that the parser would read, and what the parser
\* turns away of the frames that the filter accepts.
LEMMA ParserAccepts ==
  ASSUME NEW f \in Frames
  PROVE  /\ UDPPayload(f) = "payload" => (Acceptable(f) <=> f.tags = <<>>)
         /\ Acceptable(f) => (UDPPayload(f) = "not DHCP" <=> f.version # 4)
  <1>1. PICK w \in 5 .. 15 : w = f.words
    BY FrameFields
  <1>2. PICK n \in Nat : n = f.length
    BY FrameFields
  <1>3. DestinationPortAt(f.words) = 4 * w + 16
    BY <1>1, FrameFields
  <1>4. TypeField(f) = IPv4 <=> f.tags = <<>> /\ f.etherType = IPv4
    BY FrameFields
  <1>5. f.tags = <<>> => HeaderAt(f) = 14
    BY EmptySeq DEF HeaderAt
  <1>6. ASSUME UDPPayload(f) = "payload"
        PROVE  Acceptable(f) <=> f.tags = <<>>
    <2>1. /\ IsIPv4(f) /\ Covers(f, HeaderAt(f) + 4 * f.words, 8)
          /\ IsUDP(f) /\ UsesDHCPPorts(f)
      BY <1>6, Zenon DEF UDPPayload
    <2>2. f.tags = <<>> => Covers(f, 14 + 4 * w, 8)
      BY <1>1, <1>5, <2>1
    <2>3. f.tags = <<>> => Covers(f, DestinationPortAt(f.words), 2)
      BY <1>2, <1>3, <2>2 DEF Covers
    <2>4. f.etherType = IPv4 /\ f.protocol = UDP /\ f.fragment % 16384 = 0
      BY <2>1 DEF IsIPv4, IsUDP
    <2>5. ASSUME f.tags = <<>> PROVE Acceptable(f)
      BY <1>4, <2>1, <2>3, <2>4, <2>5 DEF Acceptable
    <2>6. ASSUME Acceptable(f) PROVE f.tags = <<>>
      <3>1. TypeField(f) = IPv4
        BY <2>6 DEF Acceptable
      <3> QED BY <1>4, <3>1
    <2> QED BY <2>5, <2>6
  <1>7. ASSUME Acceptable(f)
        PROVE  UDPPayload(f) = "not DHCP" <=> f.version # 4
    <2>1. Covers(f, DestinationPortAt(f.words), 2) /\ TypeField(f) = IPv4
      BY <1>7 DEF Acceptable
    <2>2. HeaderAt(f) = 14 /\ f.etherType = IPv4
      BY <1>4, <1>5, <2>1
    <2>3. Covers(f, 0, 14) /\ Covers(f, 14, 20)
      BY <1>2, <1>3, <2>1 DEF Covers
    <2>4. IsIPv4(f) <=> f.version = 4
      BY <2>2, <2>3 DEF IsIPv4
    <2>5. IsUDP(f) /\ UsesDHCPPorts(f)
      BY <1>7 DEF Acceptable, IsUDP
    <2> QED BY <2>2, <2>3, <2>4, <2>5 DEF UDPPayload
  <1> QED BY <1>6, <1>7

\* Of the packets that the parser would read the kernel drops exactly those behind a VLAN tag,
\* and of the frames that pass the parser turns away as no DHCP exactly those of another IP
\* version; whatever the frame. (dhcpFilter, udpPayload)
THEOREM FilterFitsParser == InputSpec => []DhcpFilterFitsParser
  <1>1. FilterInv => DhcpFilterFitsParser
    BY DhcpVerdict, ParserAccepts DEF DhcpFilterFitsParser
  <1> QED BY <1>1, FilterInvariant, PTL

\* Exactly the frames in which the sniffer looks for a sender reach it, with the bytes it
\* looks at. (trafficFilter, sourceMAC)
THEOREM SnifferSeesAllSenders == InputSpec => []TrafficFilterFitsParser
  <1>1. FilterInv => TrafficFilterFitsParser
    BY DEF FilterInv, TrafficInv, TrafficFilterFitsParser, Passes, Running
  <1> QED BY <1>1, FilterInvariant, PTL

\* Unpacking a frame begins its options anew.
LEMMA InPayloadFrameStep ==
  ASSUME InPayload, [FilterStep \/ Unpack \/ ParserStep]_<<vars, parser>>
  PROVE  InPayload'
  <1>1. CASE [ParserNext]_parser
    BY <1>1, InPayloadStep
  <1>2. CASE Unpack
    <2>1. options' \in Seq(Byte) /\ Len(options') \in Nat
      BY <1>2, PayloadAssumption, LenProperties DEF Unpack
    <2>2. NoMessage \in Message
      BY DEF NoMessage, Message, Byte, Empty
    <2> QED BY <1>2, <2>1, <2>2 DEF Unpack, InPayload, StaysInPayload
  <1> QED BY <1>1, <1>2 DEF FilterStep, ParserStep

\* Whatever the bytes of whatever frame say, the parser reads none beyond the payload, and
\* what it keeps is bytes of the payload. (parsePayload)
THEOREM NoReadBeyondPayload == InputSpec => []StaysInPayload
  <1>1. InputInit => InPayload
    BY DEF InputInit, NotParsed, InPayload, StaysInPayload, NoMessage, Message, Byte, Empty
  <1>2. InPayload => StaysInPayload
    BY DEF InPayload
  <1>3. InPayload /\ [FilterStep \/ Unpack \/ ParserStep]_<<vars, parser>> => InPayload'
    BY InPayloadFrameStep
  <1> QED BY <1>1, <1>2, <1>3, PTL DEF InputSpec

-----------------------------------------------------------------------------
(***************************************************************************)
(* What the options say.                                                   *)
(***************************************************************************)

\* The recursive definition of the places where codes are has a solution: the least set that
\* holds the first place and whatever follows one of its places.
LEMMA CodesSolve ==
  ASSUME NEW o \in Seq(Byte)
  PROVE  \E r : /\ r = [i \in DOMAIN o |-> i = 1 \/ \E j \in 1 .. i - 1 : i \in Following(o, j) /\ r[j]]
                /\ Codes(o) = {i \in DOMAIN o : r[i]}
  <1> DEFINE n == Len(o)
             Closed(S) == \A i \in 1 .. n : (i = 1 \/ \E j \in 1 .. i - 1 : i \in Following(o, j) /\ j \in S) => i \in S
             R == {i \in 1 .. n : \A S \in SUBSET (1 .. n) : Closed(S) => i \in S}
             r0 == [i \in 1 .. n |-> i \in R]
  <1>1. DOMAIN o = 1 .. n /\ n \in Nat
    BY LenProperties
  <1> HIDE DEF n
  <1>2. ASSUME NEW i \in 1 .. n
        PROVE  i \in R <=> (i = 1 \/ \E j \in 1 .. i - 1 : i \in Following(o, j) /\ j \in R)
    <2>1. ASSUME i = 1 \/ \E j \in 1 .. i - 1 : i \in Following(o, j) /\ j \in R
          PROVE  i \in R
      BY <2>1
    <2>2. ASSUME i \in R, ~(i = 1 \/ \E j \in 1 .. i - 1 : i \in Following(o, j) /\ j \in R)
          PROVE  FALSE
      <3>1. Closed(R \ {i})
        <4> SUFFICES ASSUME NEW k \in 1 .. n,
                            k = 1 \/ \E j \in 1 .. k - 1 : k \in Following(o, j) /\ j \in R \ {i}
                     PROVE  k \in R \ {i}
          OBVIOUS
        <4>1. k # i
          BY <2>2
        <4>2. k \in R
          OBVIOUS
        <4> QED BY <4>1, <4>2
      <3>2. R \ {i} \in SUBSET (1 .. n)
        OBVIOUS
      <3> QED BY <2>2, <3>1, <3>2
    <2> QED BY <2>1, <2>2
  <1> HIDE DEF R
  <1>3. r0 = [i \in DOMAIN o |-> i = 1 \/ \E j \in 1 .. i - 1 : i \in Following(o, j) /\ r0[j]]
    <2>1. \A i \in 1 .. n : \A j \in 1 .. i - 1 : j \in 1 .. n /\ (r0[j] <=> j \in R)
      <3> TAKE i \in 1 .. n
      <3> TAKE j \in 1 .. i - 1
      <3>1. j \in 1 .. n
        BY <1>1
      <3> QED BY <3>1
    <2>2. r0 = [i \in 1 .. n |-> i = 1 \/ \E j \in 1 .. i - 1 : i \in Following(o, j) /\ r0[j]]
      <3> DEFINE Q(i) == i = 1 \/ \E j \in 1 .. i - 1 : i \in Following(o, j) /\ r0[j]
      <3>1. ASSUME NEW i \in 1 .. n PROVE i \in R <=> Q(i)
        <4> HIDE DEF r0
        <4>1. (\E j \in 1 .. i - 1 : i \in Following(o, j) /\ j \in R)
                <=> \E j \in 1 .. i - 1 : i \in Following(o, j) /\ r0[j]
          BY <2>1
        <4> QED BY <1>2, <4>1
      <3>2. \A i : Q(i) \in BOOLEAN
        OBVIOUS
      <3> HIDE DEF Q
      <3>3. [i \in 1 .. n |-> i \in R] = [i \in 1 .. n |-> Q(i)]
        BY <3>1, <3>2
      <3> QED BY <3>3 DEF Q
    <2> HIDE DEF r0
    <2> QED BY <1>1, <2>2
  <1> HIDE DEF r0
  <1> DEFINE P(r) == r = [i \in DOMAIN o |-> i = 1 \/ \E j \in 1 .. i - 1 : i \in Following(o, j) /\ r[j]]
             c == CHOOSE r : P(r)
  <1>4. P(c)
    <2>1. P(r0)
      BY <1>3
    <2> HIDE DEF P
    <2> QED BY <2>1
  <1>5. Codes(o) = {i \in DOMAIN o : c[i]}
    BY DEF Codes
  <1> QED BY <1>4, <1>5

LEMMA ByteIsNat == \A b \in Byte : b \in Nat
  BY DEF Byte

\* Codes begin at the first byte and follow one another, forwards.
LEMMA CodesProperties ==
  ASSUME NEW o \in Seq(Byte)
  PROVE  /\ Len(o) \in Nat /\ DOMAIN o = 1 .. Len(o)
         /\ Codes(o) \subseteq 1 .. Len(o)
         /\ Len(o) >= 1 => 1 \in Codes(o)
         /\ \A j \in 1 .. Len(o) : \A i \in Following(o, j) : i \in Nat /\ j < i /\ i <= Len(o) + 1
         /\ \A j \in Codes(o) : \A i \in Following(o, j) : i <= Len(o) => i \in Codes(o)
         /\ \A i \in Codes(o) : i # 1 => \E j \in Codes(o) : j < i /\ i \in Following(o, j)
  <1> DEFINE n == Len(o)
  <1>1. n \in Nat /\ DOMAIN o = 1 .. n
    BY LenProperties
  <1>2. PICK r : /\ r = [i \in DOMAIN o |-> i = 1 \/ \E j \in 1 .. i - 1 : i \in Following(o, j) /\ r[j]]
                 /\ Codes(o) = {i \in DOMAIN o : r[i]}
    BY CodesSolve
  <1>3. \A i \in 1 .. n : r[i] <=> (i = 1 \/ \E j \in 1 .. i - 1 : i \in Following(o, j) /\ r[j])
    BY <1>1, <1>2
  <1>4. Codes(o) = {i \in 1 .. n : r[i]}
    BY <1>1, <1>2
  <1>5. ASSUME NEW j \in 1 .. n, NEW i \in Following(o, j)
        PROVE  i \in Nat /\ j < i /\ i <= n + 1
    <2>1. CASE o[j] = Pad
      BY <1>1, <1>5, <2>1 DEF Following
    <2>2. CASE o[j] # Pad
      <3>1. i = j + 2 + o[j + 1] /\ j < n /\ j + 1 + o[j + 1] <= n
        BY <1>5, <2>2 DEF Following, Complete
      <3>2. o[j + 1] \in Byte
        BY <1>1, <3>1, ElementOfSeq
      <3>3. PICK b \in Nat : b = o[j + 1]
        BY <3>2, ByteIsNat
      <3> QED BY <1>1, <3>1, <3>3
    <2> QED BY <2>1, <2>2
  <1> HIDE DEF n
  <1>6. n >= 1 => 1 \in Codes(o)
    BY <1>1, <1>3, <1>4
  <1>7. ASSUME NEW j \in Codes(o), NEW i \in Following(o, j), i <= n
        PROVE  i \in Codes(o)
    <2>1. j \in 1 .. n /\ r[j]
      BY <1>4
    <2>2. i \in Nat /\ j < i
      BY <1>5, <2>1
    <2>3. i \in 1 .. n /\ j \in 1 .. i - 1
      BY <1>1, <1>7, <2>1, <2>2
    <2> QED BY <1>3, <1>4, <2>1, <2>3
  <1>8. ASSUME NEW i \in Codes(o), i # 1
        PROVE  \E j \in Codes(o) : j < i /\ i \in Following(o, j)
    <2>1. i \in 1 .. n /\ r[i]
      BY <1>4
    <2>2. PICK j \in 1 .. i - 1 : i \in Following(o, j) /\ r[j]
      BY <1>3, <1>8, <2>1
    <2>3. j \in 1 .. n /\ j < i
      BY <1>1, <2>1
    <2> QED BY <1>4, <2>2, <2>3
  <1> QED BY <1>1, <1>4, <1>5, <1>6, <1>7, <1>8 DEF n

Below(o, k) == {i \in Codes(o) : i < k}

\* The codes before k have been followed, up to k, and none was the end.
Walked(o, k) ==
  \A j \in Below(o, k) : o[j] # End /\ \A i \in Following(o, j) : i <= k

\* The first code after k follows k.
LEMMA AfterCode ==
  ASSUME NEW o \in Seq(Byte), NEW k \in Codes(o), Walked(o, k), NEW l \in Codes(o), k < l
  PROVE  \E m \in Following(o, k) : m <= l
  <1> DEFINE S == {i \in Codes(o) : k < i}
  <1>1. /\ Len(o) \in Nat /\ Codes(o) \subseteq 1 .. Len(o)
        /\ \A i \in Codes(o) : i # 1 => \E j \in Codes(o) : j < i /\ i \in Following(o, j)
    BY CodesProperties
  <1>2. PICK m \in S : \A i \in S : m <= i
    <2>1. S \in SUBSET (1 .. Len(o)) /\ S # {}
      BY <1>1
    <2> HIDE DEF S
    <2> QED BY <1>1, <2>1, FirstAndLast
  <1>3. m \in Codes(o) /\ k < m /\ m <= l
    BY <1>2
  <1>4. \A i \in Codes(o) : i < m => i <= k
    <2> SUFFICES ASSUME NEW i \in Codes(o), i < m, ~(i <= k) PROVE FALSE
      OBVIOUS
    <2>1. i \in 1 .. Len(o) /\ k \in 1 .. Len(o) /\ m \in 1 .. Len(o)
      BY <1>1, <1>3
    <2>2. i \in S
      BY <2>1
    <2> HIDE DEF S
    <2> QED BY <1>2, <2>1, <2>2
  <1> HIDE DEF S
  <1>5. k \in 1 .. Len(o) /\ m \in 1 .. Len(o)
    BY <1>1, <1>3
  <1>6. PICK j \in Codes(o) : j < m /\ m \in Following(o, j)
    BY <1>1, <1>3, <1>5
  <1>7. j \in 1 .. Len(o) /\ j <= k
    BY <1>1, <1>4, <1>6
  <1>8. j = k
    <2> SUFFICES ASSUME j < k PROVE FALSE
      BY <1>5, <1>7
    <2>1. m <= k
      BY <1>6 DEF Walked, Below
    <2> QED BY <1>3, <1>5, <2>1
  <1> QED BY <1>3, <1>6, <1>8

\* From one code to the next.
LEMMA NextCodes ==
  ASSUME NEW o \in Seq(Byte), NEW k \in Codes(o), Walked(o, k), o[k] # End,
         NEW m \in Following(o, k)
  PROVE  /\ m \in 1 .. Len(o) + 1 /\ (m <= Len(o) => m \in Codes(o))
         /\ Below(o, m) = Below(o, k) \cup {k}
         /\ Walked(o, m)
  <1>1. /\ Len(o) \in Nat /\ Codes(o) \subseteq 1 .. Len(o) /\ k \in 1 .. Len(o)
        /\ m \in Nat /\ k < m /\ m <= Len(o) + 1 /\ (m <= Len(o) => m \in Codes(o))
    BY CodesProperties
  <1>2. \A i \in Following(o, k) : i = m
    BY DEF Following
  <1>3. ASSUME NEW l \in Codes(o), k < l
        PROVE  m <= l
    BY <1>2, <1>3, AfterCode
  <1>4. Below(o, m) = Below(o, k) \cup {k}
    BY <1>1, <1>3 DEF Below
  <1>5. Walked(o, m)
    <2> SUFFICES ASSUME NEW j \in Below(o, m)
                 PROVE  o[j] # End /\ \A i \in Following(o, j) : i <= m
      BY DEF Walked
    <2>1. CASE j = k
      BY <1>1, <1>2, <2>1
    <2>2. CASE j # k
      <3>1. j \in Below(o, k)
        BY <1>4, <2>2
      <3>2. o[j] # End /\ \A i \in Following(o, j) : i <= k
        BY <3>1 DEF Walked
      <3>3. \A i \in Following(o, j) : i \in Nat
        BY <1>1, <3>1, CodesProperties DEF Below
      <3> QED BY <1>1, <3>2, <3>3
    <2> QED BY <2>1, <2>2
  <1> QED BY <1>1, <1>4, <1>5

\* After a code that nothing follows there is no other.
LEMMA LastCode ==
  ASSUME NEW o \in Seq(Byte), NEW k \in Codes(o), Walked(o, k), Following(o, k) = {}
  PROVE  Codes(o) = Below(o, k) \cup {k}
  <1>1. Len(o) \in Nat /\ Codes(o) \subseteq 1 .. Len(o)
    BY CodesProperties
  <1>2. \A l \in Codes(o) : ~(k < l)
    BY AfterCode
  <1> QED BY <1>1, <1>2 DEF Below

\* The values given by the codes of a set of places.
GivenAt(o, places, code, lengths) ==
  {i \in places : o[i] = code /\ Complete(o, i) /\ o[i + 1] \in lengths}

Latest(places) == CHOOSE i \in places : \A j \in places : j <= i

ValueAt(o, places, code, lengths) ==
  LET given == GivenAt(o, places, code, lengths)
  IN  IF given = {} THEN Empty
      ELSE Value(o, Latest(given))

LEMMA LastValueOfAll ==
  ASSUME NEW o, NEW code, NEW lengths
  PROVE  LastValue(o, code, lengths) = ValueAt(o, Codes(o), code, lengths)
  BY DEF LastValue, ValueAt, GivenAt, Latest

\* One more place gives the value, or changes nothing.
LEMMA OneMorePlace ==
  ASSUME NEW o \in Seq(Byte), NEW k \in Codes(o), NEW code, NEW lengths
  PROVE  LET old  == ValueAt(o, Below(o, k), code, lengths)
             more == ValueAt(o, Below(o, k) \cup {k}, code, lengths)
         IN  IF o[k] = code /\ Complete(o, k) /\ o[k + 1] \in lengths
             THEN more = Value(o, k)
             ELSE more = old
  <1> DEFINE old  == GivenAt(o, Below(o, k), code, lengths)
             more == GivenAt(o, Below(o, k) \cup {k}, code, lengths)
  <1>1. Len(o) \in Nat /\ Codes(o) \subseteq 1 .. Len(o) /\ k \in 1 .. Len(o) /\ k \in Nat
    BY CodesProperties
  <1>2. CASE o[k] = code /\ Complete(o, k) /\ o[k + 1] \in lengths
    <2>1. k \in more /\ \A j \in more : j <= k /\ j \in Nat
      BY <1>1, <1>2 DEF GivenAt, Below
    <2> HIDE DEF more
    <2>2. \A i \in more : (\A j \in more : j <= i) => i = k
      BY <1>1, <2>1
    <2>3. Latest(more) = k
      BY <2>1, <2>2 DEF Latest
    <2>4. ValueAt(o, Below(o, k) \cup {k}, code, lengths) = Value(o, k)
      BY <2>1, <2>3 DEF ValueAt, more
    <2> QED BY <1>2, <2>4
  <1>3. CASE ~(o[k] = code /\ Complete(o, k) /\ o[k + 1] \in lengths)
    <2>1. more = old
      BY <1>3 DEF GivenAt
    <2> HIDE DEF more, old
    <2>2. ValueAt(o, Below(o, k) \cup {k}, code, lengths)
            = ValueAt(o, Below(o, k), code, lengths)
      BY <2>1 DEF ValueAt, more, old
    <2> QED BY <1>3, <2>2
  <1> QED BY <1>2, <1>3

\* A value that was given has the length that was asked for.
LEMMA ValueLength ==
  ASSUME NEW o \in Seq(Byte), NEW i \in 1 .. Len(o), Complete(o, i)
  PROVE  Value(o, i) \in Seq(Byte) /\ Len(Value(o, i)) = o[i + 1] /\ o[i + 1] \in Byte
  <1>1. Len(o) \in Nat /\ i + 1 \in 1 .. Len(o)
    BY LenProperties DEF Complete
  <1>2. o[i + 1] \in Byte
    BY <1>1, ElementOfSeq
  <1>3. PICK b \in Byte : b = o[i + 1]
    BY <1>2
  <1>4. b \in Nat /\ i + 1 + b <= Len(o) /\ i \in Nat
    BY <1>1, <1>3, ByteIsNat DEF Complete
  <1>5. \A l \in i + 2 .. i + 1 + b : o[l] \in Byte
    <2> TAKE l \in i + 2 .. i + 1 + b
    <2>1. l \in 1 .. Len(o)
      BY <1>1, <1>4
    <2> QED BY <2>1, ElementOfSeq
  <1>6. /\ SubSeq(o, i + 2, i + 1 + b) \in Seq(Byte)
        /\ Len(SubSeq(o, i + 2, i + 1 + b)) = b
    <2>1. i + 2 \in Int /\ i + 1 + b \in Int
      BY <1>4
    <2>2. /\ SubSeq(o, i + 2, i + 1 + b) \in Seq(Byte)
          /\ Len(SubSeq(o, i + 2, i + 1 + b)) =
               IF i + 2 <= i + 1 + b THEN (i + 1 + b) - (i + 2) + 1 ELSE 0
      BY <1>5, <2>1, SubSeqProperties
    <2> QED BY <1>4, <2>2
  <1> QED BY <1>2, <1>3, <1>6 DEF Value

LEMMA LatestIsOne ==
  ASSUME NEW n \in Nat, NEW S \in SUBSET (1 .. n), S # {}
  PROVE  Latest(S) \in S
  BY FirstAndLast DEF Latest

\* A value of one byte is that byte.
LEMMA OneByteValue ==
  ASSUME NEW o \in Seq(Byte), NEW code
  PROVE  LET v == ValueAt(o, Codes(o), code, {1})
         IN  v # Empty => v[1] \in Byte /\ v = <<v[1]>>
  <1> DEFINE v     == ValueAt(o, Codes(o), code, {1})
             given == GivenAt(o, Codes(o), code, {1})
  <1> SUFFICES ASSUME v # Empty PROVE v[1] \in Byte /\ v = <<v[1]>>
    OBVIOUS
  <1>1. Len(o) \in Nat /\ Codes(o) \subseteq 1 .. Len(o)
    BY CodesProperties
  <1>2. given \in SUBSET (1 .. Len(o)) /\ given # {} /\ v = Value(o, Latest(given))
    BY <1>1 DEF ValueAt, GivenAt
  <1> HIDE DEF given, v
  <1>3. PICK i \in given : i = Latest(given)
    BY <1>1, <1>2, LatestIsOne
  <1>4. i \in 1 .. Len(o) /\ Complete(o, i) /\ o[i + 1] = 1
    BY <1>2, <1>3 DEF given, GivenAt
  <1>5. v \in Seq(Byte) /\ Len(v) = 1
    BY <1>2, <1>3, <1>4, ValueLength
  <1>6. 1 \in 1 .. Len(v)
    BY <1>5
  <1>7. v[1] \in Byte
    BY <1>5, <1>6, ElementOfSeq
  <1>8. v = <<v[1]>>
    <2>1. <<v[1]>> \in Seq(Byte) /\ Len(<<v[1]>>) = 1 /\ <<v[1]>>[1] = v[1]
      BY <1>7
    <2> QED BY <1>5, <2>1, SeqEqual
  <1> QED BY <1>7, <1>8

\* Message m is what the codes at these places say.
Says(o, places, m) ==
  /\ m.type = LET v == ValueAt(o, places, MessageType, {1}) IN IF v = Empty THEN 0 ELSE v[1]
  /\ m.hostname = TrimSpace(ValueAt(o, places, HostName, Byte))
  /\ m.requestedIP = ValueAt(o, places, RequestedIP, {IPv4Len})
  /\ m.serverIP = ValueAt(o, places, ServerIP, {IPv4Len})

LEMMA NothingRead ==
  ASSUME NEW o \in Seq(Byte)
  PROVE  /\ 1 <= Len(o) => 1 \in Codes(o)
         /\ Walked(o, 1)
         /\ Says(o, Below(o, 1), NoMessage)
  <1>1. /\ Len(o) \in Nat /\ Codes(o) \subseteq 1 .. Len(o)
        /\ Len(o) >= 1 => 1 \in Codes(o)
    BY CodesProperties
  <1>2. Below(o, 1) = {}
    BY <1>1 DEF Below
  <1>3. \A code, lengths : ValueAt(o, Below(o, 1), code, lengths) = Empty
    BY <1>2 DEF ValueAt, GivenAt
  <1>4. TrimSpace(Empty) = Empty
    BY EmptySeq DEF TrimSpace, Inked, Empty
  <1>5. Says(o, Below(o, 1), NoMessage)
    BY <1>3, <1>4 DEF Says, NoMessage
  <1> QED BY <1>1, <1>2, <1>5 DEF Walked

\* A pad or an end says nothing.
LEMMA NothingMoreSaid ==
  ASSUME NEW o \in Seq(Byte), NEW k \in Codes(o), o[k] \in {Pad, End},
         NEW m, Says(o, Below(o, k), m)
  PROVE  Says(o, Below(o, k) \cup {k}, m)
  <1>1. o[k] \notin {MessageType, HostName, RequestedIP, ServerIP}
    BY DEF Pad, End, MessageType, HostName, RequestedIP, ServerIP
  <1>2. \A code \in {MessageType, HostName, RequestedIP, ServerIP} : \A lengths :
          ValueAt(o, Below(o, k) \cup {k}, code, lengths) = ValueAt(o, Below(o, k), code, lengths)
    BY <1>1, OneMorePlace
  <1> QED BY <1>2 DEF Says

\* An option says what is noted.
LEMMA OptionSaid ==
  ASSUME NEW o \in Seq(Byte), NEW k \in Codes(o), Complete(o, k),
         NEW m \in Message, Says(o, Below(o, k), m)
  PROVE  Says(o, Below(o, k) \cup {k}, Noted(m, o[k], Value(o, k)))
  <1> DEFINE Old(code, lengths)  == ValueAt(o, Below(o, k), code, lengths)
             More(code, lengths) == ValueAt(o, Below(o, k) \cup {k}, code, lengths)
  <1>1. k \in 1 .. Len(o)
    BY CodesProperties
  <1>2. PICK value \in Seq(Byte) :
          value = Value(o, k) /\ Len(value) = o[k + 1] /\ o[k + 1] \in Byte
    BY <1>1, ValueLength
  <1>3. \A code, lengths :
          IF o[k] = code /\ Len(value) \in lengths
          THEN More(code, lengths) = value
          ELSE More(code, lengths) = Old(code, lengths)
    <2> TAKE code, lengths
    <2>1. CASE o[k] = code /\ o[k + 1] \in lengths
      <3>1. More(code, lengths) = Value(o, k)
        BY <2>1, OneMorePlace
      <3> QED BY <1>2, <2>1, <3>1
    <2>2. CASE ~(o[k] = code /\ o[k + 1] \in lengths)
      <3>1. More(code, lengths) = Old(code, lengths)
        BY <2>2, OneMorePlace
      <3> QED BY <1>2, <2>2, <3>1
    <2> QED BY <2>1, <2>2
  <1>4. /\ m.type = IF Old(MessageType, {1}) = Empty THEN 0 ELSE Old(MessageType, {1})[1]
        /\ m.hostname = TrimSpace(Old(HostName, Byte))
        /\ m.requestedIP = Old(RequestedIP, {IPv4Len})
        /\ m.serverIP = Old(ServerIP, {IPv4Len})
    BY DEF Says
  <1> HIDE DEF Old, More
  <1> DEFINE noted == Noted(m, o[k], value)
  <1>5. noted.type = IF More(MessageType, {1}) = Empty THEN 0 ELSE More(MessageType, {1})[1]
    <2>1. CASE o[k] = MessageType /\ Len(value) = 1
      <3>1. noted.type = value[1]
        BY <2>1 DEF Noted, Message, MessageType, HostName, RequestedIP, ServerIP
      <3>2. More(MessageType, {1}) = value /\ value # Empty
        BY <1>3, <2>1, EmptySeq DEF Empty
      <3> QED BY <3>1, <3>2
    <2>2. CASE ~(o[k] = MessageType /\ Len(value) = 1)
      <3>1. noted.type = m.type
        BY <2>2 DEF Noted, Message, MessageType, HostName, RequestedIP, ServerIP
      <3>2. More(MessageType, {1}) = Old(MessageType, {1})
        BY <1>3, <2>2
      <3> QED BY <1>4, <3>1, <3>2
    <2> QED BY <2>1, <2>2
  <1>6. noted.hostname = TrimSpace(More(HostName, Byte))
    <2>1. CASE o[k] = HostName
      <3>1. noted.hostname = TrimSpace(value)
        BY <2>1 DEF Noted, Message, MessageType, HostName, RequestedIP, ServerIP
      <3>2. More(HostName, Byte) = value
        BY <1>2, <1>3, <2>1
      <3> QED BY <3>1, <3>2
    <2>2. CASE o[k] # HostName
      <3>1. noted.hostname = m.hostname
        BY <2>2 DEF Noted, Message
      <3>2. More(HostName, Byte) = Old(HostName, Byte)
        BY <1>3, <2>2
      <3> QED BY <1>4, <3>1, <3>2
    <2> QED BY <2>1, <2>2
  <1>7. noted.requestedIP = More(RequestedIP, {IPv4Len})
    <2>1. CASE o[k] = RequestedIP /\ Len(value) = IPv4Len
      <3>1. noted.requestedIP = value
        BY <2>1 DEF Noted, Message, MessageType, HostName, RequestedIP, ServerIP
      <3>2. More(RequestedIP, {IPv4Len}) = value
        BY <1>3, <2>1
      <3> QED BY <3>1, <3>2
    <2>2. CASE ~(o[k] = RequestedIP /\ Len(value) = IPv4Len)
      <3>1. noted.requestedIP = m.requestedIP
        BY <2>2 DEF Noted, Message, MessageType, HostName, RequestedIP, ServerIP
      <3>2. More(RequestedIP, {IPv4Len}) = Old(RequestedIP, {IPv4Len})
        BY <1>3, <2>2
      <3> QED BY <1>4, <3>1, <3>2
    <2> QED BY <2>1, <2>2
  <1>8. noted.serverIP = More(ServerIP, {IPv4Len})
    <2>1. CASE o[k] = ServerIP /\ Len(value) = IPv4Len
      <3>1. noted.serverIP = value
        BY <2>1 DEF Noted, Message, MessageType, HostName, RequestedIP, ServerIP
      <3>2. More(ServerIP, {IPv4Len}) = value
        BY <1>3, <2>1
      <3> QED BY <3>1, <3>2
    <2>2. CASE ~(o[k] = ServerIP /\ Len(value) = IPv4Len)
      <3>1. noted.serverIP = m.serverIP
        BY <2>2 DEF Noted, Message, MessageType, HostName, RequestedIP, ServerIP
      <3>2. More(ServerIP, {IPv4Len}) = Old(ServerIP, {IPv4Len})
        BY <1>3, <2>2
      <3> QED BY <1>4, <3>1, <3>2
    <2> QED BY <2>1, <2>2
  <1> HIDE DEF noted
  <1>9. Says(o, Below(o, k) \cup {k}, noted)
    BY <1>5, <1>6, <1>7, <1>8 DEF Says, More
  <1> QED BY <1>2, <1>9 DEF noted

\* At the end option everything has been said; it is a message if its type has been.
LEMMA AllSaid ==
  ASSUME NEW o \in Seq(Byte), NEW k \in Codes(o), Walked(o, k), o[k] = End,
         NEW m, Says(o, Below(o, k), m)
  PROVE  /\ WellFormed(o) <=> m.type # 0
         /\ m.type # 0 => m.type = LastValue(o, MessageType, {1})[1]
         /\ m.hostname = TrimSpace(LastValue(o, HostName, Byte))
         /\ m.requestedIP = LastValue(o, RequestedIP, {IPv4Len})
         /\ m.serverIP = LastValue(o, ServerIP, {IPv4Len})
  <1>1. Codes(o) = Below(o, k) \cup {k}
    <2>1. Following(o, k) = {}
      BY DEF Following, End, Pad
    <2> QED BY <2>1, LastCode
  <1>2. Says(o, Codes(o), m)
    BY <1>1, NothingMoreSaid
  <1> DEFINE v == LastValue(o, MessageType, {1})
  <1>3. /\ m.type = IF v = Empty THEN 0 ELSE v[1]
        /\ m.hostname = TrimSpace(LastValue(o, HostName, Byte))
        /\ m.requestedIP = LastValue(o, RequestedIP, {IPv4Len})
        /\ m.serverIP = LastValue(o, ServerIP, {IPv4Len})
    BY <1>2, LastValueOfAll DEF Says
  <1>4. v # Empty => v[1] \in Byte /\ v = <<v[1]>>
    BY OneByteValue, LastValueOfAll
  <1>5. WellFormed(o) <=> v \notin {Empty, <<0>>}
    BY DEF WellFormed
  <1> HIDE DEF v
  <1>6. v \notin {Empty, <<0>>} <=> v # Empty /\ v[1] # 0
    BY <1>4
  <1> QED BY <1>3, <1>5, <1>6 DEF v

\* How far the parser has come.
ReadInv ==
  /\ offset <= Len(options) => offset \in Codes(options)
  /\ Walked(options, offset)
  /\ Says(options, Below(options, offset), message)

GivenInv ==
  /\ InPayload
  /\ ParsedAsGiven
  /\ parsed = Parsing /\ header => ReadInv

LEMMA GivenStep ==
  ASSUME GivenInv, ParserNext
  PROVE  GivenInv'
  <1>0. /\ InPayload' /\ options' = options /\ header' = header /\ parsed = Parsing
        /\ options \in Seq(Byte) /\ message \in Message
        /\ offset \in 1 .. Len(options) + 1 /\ Len(options) \in Nat
    <2>1. InPayload'
      BY InPayloadStep DEF GivenInv
    <2> QED BY <2>1, LenProperties
            DEF GivenInv, InPayload, StaysInPayload, ParserNext, RefuseHeader, NoEnd, SkipPad,
                ReachEnd, RefuseOption, ReadOption, Finish
  <1>1. header => ReadInv
    BY <1>0 DEF GivenInv
  <1>2. ASSUME parsed' = "malformed", ~(header /\ WellFormed(options)), UNCHANGED message
        PROVE  GivenInv'
    <2>1. WellFormed(options)' = WellFormed(options)
      BY <1>0
    <2> QED BY <1>0, <1>2, <2>1 DEF GivenInv, ParsedAsGiven, Parsing
  <1>3. ASSUME parsed' = Parsing, ReadInv'
        PROVE  GivenInv'
    BY <1>0, <1>3 DEF GivenInv, ParsedAsGiven, Parsing
  <1>4. CASE RefuseHeader
    BY <1>2, <1>4 DEF RefuseHeader, Finish
  <1>5. CASE NoEnd
    <2>1. \A i \in Codes(options) : i \in Below(options, offset)
      <3>1. Codes(options) \subseteq 1 .. Len(options)
        BY <1>0, CodesProperties
      <3> QED BY <1>0, <1>5, <3>1 DEF NoEnd, Below
    <2>2. ~WellFormed(options)
      BY <1>1, <1>5, <2>1 DEF NoEnd, ReadInv, Walked, WellFormed
    <2> QED BY <1>2, <1>5, <2>2 DEF NoEnd, Finish
  <1>6. ASSUME header, offset <= Len(options)
        PROVE  /\ offset \in Codes(options) /\ Walked(options, offset)
               /\ Says(options, Below(options, offset), message)
    BY <1>1, <1>6 DEF ReadInv
  <1>7. CASE SkipPad
    <2>1. /\ offset \in Codes(options) /\ Walked(options, offset)
          /\ Says(options, Below(options, offset), message)
          /\ options[offset] = Pad /\ offset' = offset + 1
          /\ parsed' = Parsing /\ UNCHANGED message
      BY <1>0, <1>6, <1>7 DEF SkipPad, NextCode
    <2>2. offset + 1 \in Following(options, offset) /\ options[offset] # End
      BY <2>1 DEF Following, Pad, End
    <2>3. /\ offset + 1 <= Len(options) => offset + 1 \in Codes(options)
          /\ Below(options, offset + 1) = Below(options, offset) \cup {offset}
          /\ Walked(options, offset + 1)
      BY <1>0, <2>1, <2>2, NextCodes
    <2>4. Says(options, Below(options, offset + 1), message)
      BY <1>0, <2>1, <2>3, NothingMoreSaid
    <2>5. ReadInv'
      BY <1>0, <2>1, <2>3, <2>4 DEF ReadInv
    <2> QED BY <1>3, <2>1, <2>5
  <1>8. CASE ReachEnd
    <2>1. /\ offset \in Codes(options) /\ Walked(options, offset)
          /\ Says(options, Below(options, offset), message)
          /\ options[offset] = End /\ header /\ UNCHANGED message
          /\ parsed' = IF message.type = 0 THEN "malformed" ELSE "message"
      BY <1>6, <1>8 DEF ReachEnd, NextCode, Finish
    <2>2. /\ WellFormed(options) <=> message.type # 0
          /\ message.type # 0 => message.type = LastValue(options, MessageType, {1})[1]
          /\ message.hostname = TrimSpace(LastValue(options, HostName, Byte))
          /\ message.requestedIP = LastValue(options, RequestedIP, {IPv4Len})
          /\ message.serverIP = LastValue(options, ServerIP, {IPv4Len})
      BY <1>0, <2>1, AllSaid
    <2>3. CASE message.type = 0
      BY <1>2, <2>1, <2>2, <2>3
    <2>4. CASE message.type # 0
      <3>1. parsed' = "message" /\ WellFormed(options)
        BY <2>1, <2>2, <2>4
      <3>2. ParsedAsGiven'
        BY <1>0, <2>1, <2>2, <2>4, <3>1 DEF ParsedAsGiven
      <3> QED BY <1>0, <3>1, <3>2 DEF GivenInv, Parsing
    <2> QED BY <2>3, <2>4
  <1>9. CASE RefuseOption
    <2>1. /\ offset \in Codes(options) /\ Walked(options, offset)
          /\ options[offset] \notin {Pad, End} /\ offset <= Len(options)
          /\ parsed' = "malformed" /\ UNCHANGED message
      BY <1>6, <1>9 DEF RefuseOption, AtOption, NextCode, Finish
    <2>2. ~Complete(options, offset)
      <3>1. CASE offset = Len(options)
        BY <1>0, <3>1 DEF Complete
      <3>2. CASE offset < Len(options) /\ BeyondPayload(options[offset + 1])
        <4>1. PICK b \in Byte : b = options[offset + 1]
          <5>1. offset + 1 \in 1 .. Len(options)
            BY <1>0, <3>2
          <5> QED BY <1>0, <5>1, ElementOfSeq
        <4>2. b \in Nat /\ offset + 1 + b > Len(options)
          BY <3>2, <4>1, ByteIsNat DEF BeyondPayload
        <4> QED BY <1>0, <4>1, <4>2 DEF Complete
      <3> QED BY <1>9, <3>1, <3>2 DEF RefuseOption
    <2>3. Following(options, offset) = {}
      BY <2>1, <2>2 DEF Following
    <2>4. Codes(options) = Below(options, offset) \cup {offset}
      BY <1>0, <2>1, <2>3, LastCode
    <2>5. ~WellFormed(options)
      BY <2>1, <2>4 DEF Walked, WellFormed
    <2> QED BY <1>2, <2>1, <2>5
  <1>10. CASE ReadOption
    <2>1. /\ offset \in Codes(options) /\ Walked(options, offset)
          /\ Says(options, Below(options, offset), message)
          /\ options[offset] \notin {Pad, End} /\ offset < Len(options)
          /\ parsed' = Parsing
      <3>1. header /\ offset <= Len(options)
        BY <1>10 DEF ReadOption, AtOption
      <3> QED BY <1>0, <1>6, <1>10, <3>1 DEF ReadOption, AtOption, NextCode
    <2>2. PICK b \in Byte : b = options[offset + 1]
      <3>1. offset + 1 \in 1 .. Len(options)
        BY <1>0, <2>1
      <3> QED BY <1>0, <3>1, ElementOfSeq
    <2>3. /\ ~BeyondPayload(b) /\ offset' = offset + 2 + b
          /\ message' = Noted(message, options[offset], SubSeq(options, offset + 2, offset + 1 + b))
      BY <1>10, <2>2 DEF ReadOption, NextCode
    <2>4. b \in Nat /\ ~(offset + 1 + b > Len(options))
      BY <2>2, <2>3, ByteIsNat DEF BeyondPayload
    <2>5. Complete(options, offset)
      BY <1>0, <2>1, <2>2, <2>4 DEF Complete
    <2>6. message' = Noted(message, options[offset], Value(options, offset))
      BY <2>2, <2>3 DEF Value
    <2>7. offset' \in Following(options, offset)
      BY <2>1, <2>2, <2>3, <2>5 DEF Following
    <2>8. PICK m \in Following(options, offset) : m = offset'
      BY <2>7
    <2>9. /\ m <= Len(options) => m \in Codes(options)
          /\ Below(options, m) = Below(options, offset) \cup {offset}
          /\ Walked(options, m)
      BY <1>0, <2>1, NextCodes
    <2>10. Says(options, Below(options, offset) \cup {offset},
                Noted(message, options[offset], Value(options, offset)))
      BY <1>0, <2>1, <2>5, OptionSaid
    <2>11. ReadInv'
      BY <1>0, <2>6, <2>8, <2>9, <2>10 DEF ReadInv
    <2> QED BY <1>3, <2>1, <2>11
  <1> QED BY <1>4, <1>5, <1>7, <1>8, <1>9, <1>10 DEF ParserNext

\* A message is accepted when its options can be followed up to an end option and one of them
\* says its type; the last option of each kind holds, unless it has the wrong length: for
\* options of any length and content. (parsePayload)
THEOREM OptionsAreParsedAsGiven == InputSpec => []ParsedAsGiven
  <1>1. InputInit => GivenInv
    <2> SUFFICES ASSUME InputInit PROVE GivenInv
      OBVIOUS
    <2>1. InPayload
      BY DEF InputInit, NotParsed, InPayload, StaysInPayload, NoMessage, Message, Byte, Empty
    <2> QED BY <2>1 DEF InputInit, NotParsed, GivenInv, ParsedAsGiven, Parsing, Idle
  <1>2. GivenInv /\ [FilterStep \/ Unpack \/ ParserStep]_<<vars, parser>> => GivenInv'
    <2> SUFFICES ASSUME GivenInv, [FilterStep \/ Unpack \/ ParserStep]_<<vars, parser>>
                 PROVE  GivenInv'
      OBVIOUS
    <2>1. InPayload'
      BY InPayloadFrameStep DEF GivenInv
    <2>2. CASE ParserNext
      BY <2>2, GivenStep
    <2>3. CASE UNCHANGED parser
      BY <2>1, <2>3 DEF parser, GivenInv, ParsedAsGiven, ReadInv
    <2>4. CASE Unpack
      <3>1. /\ offset' = 1 /\ message' = NoMessage /\ parsed' = Parsing
            /\ options' \in Seq(Byte)
        BY <2>4, PayloadAssumption DEF Unpack
      <3>2. PICK o \in Seq(Byte) : o = options'
        BY <3>1
      <3>3. /\ 1 <= Len(o) => 1 \in Codes(o)
            /\ Walked(o, 1)
            /\ Says(o, Below(o, 1), NoMessage)
        BY NothingRead
      <3>4. ReadInv'
        BY <3>1, <3>2, <3>3 DEF ReadInv
      <3> QED BY <2>1, <3>1, <3>4 DEF GivenInv, ParsedAsGiven
    <2> QED BY <2>2, <2>3, <2>4 DEF FilterStep, ParserStep
  <1>3. GivenInv => ParsedAsGiven
    BY DEF GivenInv
  <1> QED BY <1>1, <1>2, <1>3, PTL DEF InputSpec
=============================================================================
