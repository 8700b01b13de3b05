------------------------ MODULE CaptureBlocksProofs -------------------------
(***************************************************************************)
(* Proof that the bytes of a capture reach the flow's buffer up to the     *)
(* first packet that cannot be read, and none behind it; that what comes   *)
(* out are the messages of those bytes; and that a capture without losses  *)
(* gave all of its messages: for any file of any length, in any order of   *)
(* its blocks, cut into packets anywhere.                                  *)
(***************************************************************************)
EXTENDS CaptureBlocks, FramingProofs

USE CaptureAssumption

Counters ==
    /\ file \in Files
    /\ fed \in Nat /\ sent \in Nat /\ pending \in Nat
    /\ unreadable \in BOOLEAN

(* What a section is read with: interfaces are numbered as they come, the  *)
(* badly described ones included, and known if they are well described.    *)
InterfacesOfSection ==
    /\ section \in Seq(Descriptions)
    /\ next_if_id = Len(section)
    /\ DOMAIN interfaces = {i \in 0 .. Len(section) - 1 :
                              section[i + 1].resolution # NoResolution}
    /\ \A i \in DOMAIN interfaces : interfaces[i] = section[i + 1]

HeaderTyped == legacy = NoHeader \/ legacy \in [link : Links, resolution : {Micros, Nanos}]

(* Bytes are fed in order, so once the buffer has fallen behind it stays   *)
(* behind.                                                                 *)
Delivered ==
    /\ fed <= sent
    /\ fed = sent <=> ~unreadable

IInv == Counters /\ InterfacesOfSection /\ HeaderTyped /\ (status # "failed" => Delivered)

LEMMA InitInv == Init => IInv
<1> SUFFICES ASSUME Init PROVE IInv
  OBVIOUS
<1>1. Counters /\ HeaderTyped
  BY DEF Init, Counters, HeaderTyped
<1>2. Delivered
  <2>1. fed = 0 /\ sent = 0 /\ unreadable = FALSE
    BY DEF Init
  <2> QED
    BY <2>1 DEF Delivered
<1>3. InterfacesOfSection
  <2>1. /\ section = <<>> /\ Len(section) = 0 /\ section \in Seq(Descriptions)
        /\ DOMAIN interfaces = {} /\ next_if_id = 0
    BY EmptySeq DEF Init
  <2>2. 0 .. Len(section) - 1 = {}
    BY <2>1
  <2> QED
    BY <2>1, <2>2 DEF InterfacesOfSection
<1> QED
  BY <1>1, <1>2, <1>3 DEF IInv

LEMMA BlockTyped ==
  ASSUME Counters, NEW b \in file.blocks
  PROVE  /\ b.type \in {"Legacy", "EnhancedPacket", "SimplePacket"} => b.packet \in Packet
         /\ b.type = "LegacyHeader" =>
               [link |-> b.link, resolution |-> b.resolution]
                  \in [link : Links, resolution : {Micros, Nanos}]
         /\ b.type = "InterfaceDescription" => b.interface \in Descriptions
         /\ b.type = "EnhancedPacket" => b.if_id \in Nat
  BY DEF Counters, Block

(* A frame of the link type it is read with becomes work exactly if it is  *)
(* a whole TCP segment.                                                    *)
LEMMA WorkIffReadable ==
  ASSUME NEW packet \in Packet, NEW interface, interface.resolution # NoResolution
  PROVE  Outcome(packet, interface.link) = "work" <=> Readable(packet, interface)
  BY DEF Outcome, DecodePacketData, Readable, Packet

(* The bytes of a packet that cannot be read are not fed.                  *)
LEMMA BehindStep ==
  ASSUME Counters, Delivered, NEW packet \in Packet, file' = file,
         fed' = fed, pending' = pending, sent' = sent + packet.bytes,
         unreadable' = (unreadable \/ packet.bytes > 0)
  PROVE  Counters' /\ Delivered'
<1>1. packet.bytes \in Nat
  BY DEF Packet
<1>2. fed' \in Nat /\ pending' \in Nat /\ sent' \in Nat /\ fed' <= sent'
  BY <1>1 DEF Counters, Delivered
<1>3. CASE packet.bytes = 0
  <2>1. sent' = sent /\ ~(packet.bytes > 0)
    BY <1>3, <1>1 DEF Counters
  <2> QED
    BY <2>1, <1>2 DEF Counters, Delivered
<1>4. CASE packet.bytes > 0
  <2>1. fed' # sent'
    BY <1>4, <1>1 DEF Counters, Delivered
  <2>2. unreadable' = TRUE
    BY <1>4
  <2> QED
    BY <2>1, <2>2, <1>2 DEF Counters, Delivered
<1> QED
  BY <1>1, <1>3, <1>4

(* A packet that is read with the interface that describes it.             *)
LEMMA PacketStep ==
  ASSUME Counters, Delivered, NEW packet \in Packet, NEW interface,
         interface.resolution # NoResolution,
         HandlePacketBlock(packet, interface.link), Captured(packet, interface), file' = file
  PROVE  Counters' /\ Delivered'
<1>1. packet.bytes \in Nat
  BY DEF Packet
<1>2. /\ sent' = sent + packet.bytes
      /\ unreadable' = (unreadable \/ (packet.bytes > 0 /\ ~Readable(packet, interface)))
  BY DEF Captured
<1>3. CASE Readable(packet, interface)
  <2>1. Outcome(packet, interface.link) = "work"
    BY <1>3, WorkIffReadable
  <2>2. Received(packet)
    BY <2>1 DEF HandlePacketBlock
  <2>3. /\ fed' = IF fed = sent THEN fed + packet.bytes ELSE fed
        /\ pending' = IF fed = sent THEN pending ELSE pending + packet.bytes
    BY <2>2 DEF Received
  <2>4. unreadable' = unreadable
    BY <1>2, <1>3 DEF Counters
  <2>5. fed' \in Nat /\ pending' \in Nat /\ sent' \in Nat
    BY <1>1, <1>2, <2>3 DEF Counters
  <2>6. fed' <= sent' /\ (fed' = sent' <=> fed = sent)
    BY <1>1, <1>2, <2>3 DEF Counters, Delivered
  <2> QED
    BY <2>4, <2>5, <2>6 DEF Counters, Delivered
<1>4. CASE ~Readable(packet, interface)
  <2>1. Outcome(packet, interface.link) # "work"
    BY <1>4, WorkIffReadable
  <2>2. UNCHANGED flowVars
    BY <2>1 DEF HandlePacketBlock, Loss
  <2>3. fed' = fed /\ pending' = pending
    BY <2>2 DEF flowVars
  <2>4. unreadable' = (unreadable \/ packet.bytes > 0)
    BY <1>2, <1>4
  <2> QED
    BY <1>2, <2>3, <2>4, BehindStep
<1> QED
  BY <1>3, <1>4

(* A packet whose interface is not (validly) described is a loss.          *)
LEMMA LostStep ==
  ASSUME Counters, Delivered, NEW packet \in Packet, NEW interface,
         interface.resolution = NoResolution,
         Loss, Captured(packet, interface), file' = file
  PROVE  Counters' /\ Delivered'
<1>1. packet.bytes \in Nat
  BY DEF Packet
<1>2. sent' = sent + packet.bytes /\ unreadable' = (unreadable \/ packet.bytes > 0)
  BY DEF Captured, Readable
<1>3. fed' = fed /\ pending' = pending
  BY DEF Loss, flowVars
<1> QED
  BY <1>2, <1>3, BehindStep

(* A packet that ends the program: only the counting matters.              *)
LEMMA FailsStep ==
  ASSUME Counters, NEW packet \in Packet, NEW interface,
         Fails, Captured(packet, interface), file' = file
  PROVE  Counters' /\ status' = "failed"
<1>1. packet.bytes \in Nat
  BY DEF Packet
<1>2. sent' = sent + packet.bytes /\ unreadable' \in BOOLEAN
  BY DEF Captured, Counters
<1>3. fed' = fed /\ pending' = pending /\ status' = "failed"
  BY DEF Fails, flowVars
<1> QED
  BY <1>1, <1>2, <1>3 DEF Counters

(* DescribedBy says of a number what the code's table says.                *)
LEMMA Described ==
  ASSUME InterfacesOfSection, NEW id \in Nat
  PROVE  /\ id \in DOMAIN interfaces <=> DescribedBy(id).resolution # NoResolution
         /\ id \in DOMAIN interfaces => interfaces[id] = DescribedBy(id)
<1>1. Len(section) \in Nat /\ DOMAIN section = 1 .. Len(section)
  BY LenProperties DEF InterfacesOfSection
<1>2. id + 1 \in DOMAIN section <=> id \in 0 .. Len(section) - 1
  BY <1>1
<1> QED
  BY <1>2 DEF InterfacesOfSection, DescribedBy

(* One more description: it takes the next number, and is known if good.   *)
LEMMA InterfaceStep ==
  ASSUME IInv, NEW b \in file.blocks, InterfaceDescription(b)
  PROVE  InterfacesOfSection'
<1>1. PICK d : d = b.interface
  OBVIOUS
<1>2. d \in Descriptions
  BY <1>1, BlockTyped DEF InterfaceDescription, IInv
<1>3. /\ Len(section) \in Nat /\ DOMAIN section = 1 .. Len(section)
      /\ section \in Seq(Descriptions) /\ next_if_id = Len(section)
  BY LenProperties DEF IInv, InterfacesOfSection
<1>4. section' = Append(section, d) /\ next_if_id' = next_if_id + 1
  BY <1>1 DEF InterfaceDescription
<1>5. /\ section' \in Seq(Descriptions) /\ Len(section') = Len(section) + 1
      /\ \A i \in 1 .. Len(section) : section'[i] = section[i]
      /\ section'[Len(section) + 1] = d
  BY <1>2, <1>3, <1>4, AppendProperties
<1>6. DOMAIN interfaces = {i \in 0 .. Len(section) - 1 :
                             section'[i + 1].resolution # NoResolution}
  BY <1>3, <1>5 DEF IInv, InterfacesOfSection
<1>7. \A i \in DOMAIN interfaces : interfaces[i] = section'[i + 1]
  BY <1>3, <1>5 DEF IInv, InterfacesOfSection
<1>8. 0 .. Len(section') - 1 = (0 .. Len(section) - 1) \cup {Len(section)}
  BY <1>3, <1>5
<1>9. CASE d.resolution = NoResolution
  <2>1. interfaces' = interfaces
    BY <1>1, <1>9 DEF InterfaceDescription
  <2>2. DOMAIN interfaces' = {i \in 0 .. Len(section') - 1 :
                                section'[i + 1].resolution # NoResolution}
    BY <2>1, <1>5, <1>6, <1>8, <1>9
  <2> QED
    BY <2>1, <2>2, <1>3, <1>4, <1>5, <1>7 DEF InterfacesOfSection
<1>10. CASE d.resolution # NoResolution
  <2>1. interfaces' = [i \in DOMAIN interfaces \cup {Len(section)} |->
                         IF i = Len(section) THEN d ELSE interfaces[i]]
    BY <1>1, <1>3, <1>10 DEF InterfaceDescription, Inserted
  <2>2. DOMAIN interfaces' = {i \in 0 .. Len(section') - 1 :
                                section'[i + 1].resolution # NoResolution}
    BY <2>1, <1>5, <1>6, <1>8, <1>10
  <2>3. \A i \in DOMAIN interfaces' : interfaces'[i] = section'[i + 1]
    BY <2>1, <1>5, <1>7
  <2> QED
    BY <2>2, <2>3, <1>3, <1>4, <1>5 DEF InterfacesOfSection
<1> QED
  BY <1>9, <1>10

LEMMA InvStep == IInv /\ [Next]_vars => IInv'
<1> SUFFICES ASSUME IInv, [Next]_vars PROVE IInv'
  OBVIOUS
<1>1. CASE UNCHANGED vars
  BY <1>1 DEF vars, stateVars, flowVars, IInv, Counters, InterfacesOfSection, HeaderTyped, Delivered
<1>2. ASSUME status = "reading", NEW b \in file.blocks, ReadBlock(b)
      PROVE  IInv'
  <2>1. HandleBlock(b) /\ file' = file
    BY <1>2 DEF ReadBlock
  <2> DEFINE StillCounted == Counters' /\ (status' # "failed" => Delivered')
  <2>2. Counters /\ Delivered
    BY <1>2 DEF IInv
  <2>3. CASE LegacyHeader(b)
    <3>1. HeaderTyped'
      BY <2>3, <2>2, BlockTyped DEF LegacyHeader, HeaderTyped
    <3>2. StillCounted
      BY <2>3, <2>1, <2>2 DEF LegacyHeader, NoPacket, flowVars, Counters, Delivered
    <3>3. InterfacesOfSection'
      BY <2>3 DEF IInv, LegacyHeader, InterfacesOfSection
    <3> QED
      BY <3>1, <3>2, <3>3 DEF IInv
  <2>4. CASE LegacyPacket(b)
    <3>1. PICK header :
            header = IF legacy = NoHeader THEN [link |-> Ethernet, resolution |-> Micros] ELSE legacy
      OBVIOUS
    <3>2. PICK packet : packet = b.packet
      OBVIOUS
    <3>3. packet \in Packet
      BY <2>4, <2>2, <3>2, BlockTyped DEF LegacyPacket
    <3>4. header.resolution # NoResolution
      BY <3>1 DEF IInv, HeaderTyped
    <3>5. /\ IF CaptureTimestamp(b.fraction, header.resolution)
             THEN HandlePacketBlock(packet, header.link) /\ UNCHANGED status
             ELSE Fails
          /\ Captured(packet, header)
      BY <2>4, <3>1, <3>2 DEF LegacyPacket
    <3>6. StillCounted
      BY <2>1, <2>2, <3>3, <3>4, <3>5, PacketStep, FailsStep
    <3>7. HeaderTyped' /\ InterfacesOfSection'
      BY <2>4 DEF IInv, LegacyPacket, stateVars, Captured, HeaderTyped, InterfacesOfSection
    <3> QED
      BY <3>6, <3>7 DEF IInv
  <2>5. CASE SectionHeader(b)
    <3>1. StillCounted
      BY <2>5, <2>1, <2>2 DEF SectionHeader, NoPacket, flowVars, Counters, Delivered
    <3>2. InterfacesOfSection'
      <4>1. /\ section' = <<>> /\ Len(section') = 0 /\ section' \in Seq(Descriptions)
            /\ DOMAIN interfaces' = {} /\ next_if_id' = 0
        BY <2>5, EmptySeq DEF SectionHeader
      <4>2. 0 .. Len(section') - 1 = {}
        BY <4>1
      <4> QED
        BY <4>1, <4>2 DEF InterfacesOfSection
    <3>3. HeaderTyped'
      BY <2>5 DEF IInv, SectionHeader, HeaderTyped
    <3> QED
      BY <3>1, <3>2, <3>3 DEF IInv
  <2>6. CASE InterfaceDescription(b)
    <3>1. StillCounted
      BY <2>6, <2>1, <2>2 DEF InterfaceDescription, flowVars, Counters, Delivered
    <3>2. InterfacesOfSection'
      BY <2>6, InterfaceStep
    <3>3. HeaderTyped'
      BY <2>6 DEF IInv, InterfaceDescription, HeaderTyped
    <3> QED
      BY <3>1, <3>2, <3>3 DEF IInv
  <2>7. CASE EnhancedPacket(b)
    <3>1. PICK id : id = b.if_id
      OBVIOUS
    <3>2. PICK packet : packet = b.packet
      OBVIOUS
    <3>3. packet \in Packet /\ id \in Nat
      BY <2>7, <2>2, <3>1, <3>2, BlockTyped DEF EnhancedPacket
    <3>4. PICK interface : interface = DescribedBy(id)
      OBVIOUS
    <3>5. /\ id \in DOMAIN interfaces <=> interface.resolution # NoResolution
          /\ id \in DOMAIN interfaces => interfaces[id] = interface
      BY <3>3, <3>4, Described DEF IInv
    <3>6. /\ IF id \notin DOMAIN interfaces THEN Loss /\ UNCHANGED status
             ELSE IF CaptureTimestamp(0, interfaces[id].resolution)
             THEN HandlePacketBlock(packet, interfaces[id].link) /\ UNCHANGED status
             ELSE Fails
          /\ Captured(packet, interface)
      BY <2>7, <3>1, <3>2, <3>4 DEF EnhancedPacket
    <3>7. ASSUME id \notin DOMAIN interfaces PROVE StillCounted
      BY <3>7, <2>1, <2>2, <3>3, <3>5, <3>6, LostStep
    <3>8. ASSUME id \in DOMAIN interfaces PROVE StillCounted
      BY <3>8, <2>1, <2>2, <3>3, <3>5, <3>6, PacketStep, FailsStep
    <3>9. HeaderTyped' /\ InterfacesOfSection'
      BY <2>7 DEF IInv, EnhancedPacket, stateVars, Captured, HeaderTyped, InterfacesOfSection
    <3> QED
      BY <3>7, <3>8, <3>9 DEF IInv
  <2>8. CASE SimplePacket(b)
    <3>1. PICK packet : packet = b.packet
      OBVIOUS
    <3>2. packet \in Packet
      BY <2>8, <2>2, <3>1, BlockTyped DEF SimplePacket
    <3>3. PICK interface : interface = DescribedBy(0)
      OBVIOUS
    <3>4. /\ 0 \in DOMAIN interfaces <=> interface.resolution # NoResolution
          /\ 0 \in DOMAIN interfaces => interfaces[0] = interface
      BY <3>3, Described DEF IInv
    <3>5. /\ IF 0 \in DOMAIN interfaces THEN HandlePacketBlock(packet, interfaces[0].link) ELSE Loss
          /\ Captured(packet, interface)
      BY <2>8, <3>1, <3>3 DEF SimplePacket
    <3>6. StillCounted
      BY <2>1, <2>2, <3>2, <3>4, <3>5, PacketStep, LostStep
    <3>7. HeaderTyped' /\ InterfacesOfSection'
      BY <2>8 DEF IInv, SimplePacket, stateVars, Captured, HeaderTyped, InterfacesOfSection
    <3> QED
      BY <3>6, <3>7 DEF IInv
  <2>9. CASE OtherBlock(b)
    BY <2>9, <2>1, <2>2 DEF OtherBlock, NoPacket, flowVars, stateVars, IInv, Counters,
                            Delivered, HeaderTyped, InterfacesOfSection
  <2> QED
    BY <2>1, <2>3, <2>4, <2>5, <2>6, <2>7, <2>8, <2>9 DEF HandleBlock
<1>3. CASE status = "reading" /\ EndOfFile
  BY <1>3 DEF EndOfFile, stateVars, IInv, Counters, Delivered, HeaderTyped, InterfacesOfSection
<1>4. CASE ParseError
  BY <1>4 DEF ParseError, stateVars, flowVars, IInv, Counters, HeaderTyped, InterfacesOfSection
<1> QED
  BY <1>1, <1>2, <1>3, <1>4 DEF Next

(* For any capture: the flow gets the bytes up to the first packet that    *)
(* cannot be read, and no byte behind it.                                  *)
THEOREM ReadableDelivered == Spec => []DeliversReadable
<1>1. IInv => DeliversReadable
  BY DEF IInv, Delivered, DeliversReadable
<1> QED
  BY <1>1, InitInv, InvStep, PTL DEF Spec

-----------------------------------------------------------------------------
(* What the flow has emitted and what its buffer holds is what one call on *)
(* all the bytes it received would have given: the invariant that makes    *)
(* the way the stream was cut irrelevant.                                  *)
Scanned ==
    /\ fed \in 0 .. Len(file.stream)
    /\ FlushCompleteMessages(SubSeq(file.stream, 1, fed)) = [emitted |-> out, buffer |-> buffer]

(* Unreadable bytes and leftover bytes are losses.                         *)
LossesCounted ==
    /\ losses \in Nat
    /\ status # "failed" /\ losses = 0 => ~unreadable
    /\ status = "ended" /\ losses = 0 => buffer = <<>>

ScanInv == IInv /\ Scanned /\ LossesCounted

LEMMA FedBytes ==
  ASSUME Counters, Scanned
  PROVE  /\ file.stream \in Seq(Tokens) /\ SubSeq(file.stream, 1, fed) \in Seq(Tokens)
         /\ fed \in Nat /\ Len(file.stream) \in Nat /\ fed <= Len(file.stream)
<1>1. file.stream \in Seq(Tokens) /\ fed \in Nat /\ fed <= Len(file.stream)
  BY DEF Counters, Scanned
<1> QED
  BY <1>1, SubSeqIs

LEMMA ScannedIs ==
  ASSUME Counters, Scanned
  PROVE  /\ buffer \in Seq(Tokens) /\ out \in Seq(Seq(Tokens))
         /\ CutIndependent
         /\ KeepsOnlyCandidates
<1>1. PICK b \in Seq(Tokens) : b = SubSeq(file.stream, 1, fed)
  BY FedBytes
<1>2. FlushCompleteMessages(b) = [emitted |-> out, buffer |-> buffer]
  BY <1>1 DEF Scanned
<1>3. [emitted |-> out, buffer |-> buffer] \in Flushed(Tokens)
  BY <1>1, <1>2, FlushIsBounded
<1>4. buffer \in Seq(Tokens) /\ out \in Seq(Seq(Tokens))
  BY <1>3 DEF Flushed
<1>5. CutIndependent
  <2>1. FlushCompleteMessages(b).emitted = Messages(b)
    BY <1>1, FlushEmitsMessages
  <2>2. out = Messages(b)
    BY <1>2, <2>1
  <2> QED
    BY <1>1, <2>2 DEF CutIndependent
<1>6. KeepsOnlyCandidates
  <2>1. buffer = FlushCompleteMessages(b).buffer
    BY <1>2
  <2>2. \/ StartsWith(buffer, 1, BeginString)
        \/ \E n \in 0 .. Len(BeginString) - 1 : buffer = SubSeq(BeginString, 1, n)
    BY <1>1, <2>1, FlushLeavesCandidate
  <2> QED
    BY <2>2 DEF KeepsOnlyCandidates
<1> QED
  BY <1>4, <1>5, <1>6

LEMMA InitScanned == Init => ScanInv
<1> SUFFICES ASSUME Init PROVE ScanInv
  OBVIOUS
<1>1. IInv
  BY InitInv
<1>2. file.stream \in Seq(Tokens) /\ fed = 0 /\ out = <<>> /\ buffer = <<>>
  BY <1>1 DEF Init, IInv, Counters
<1>3. SubSeq(file.stream, 1, fed) = <<>>
  BY <1>2, SubSeqEmpty
<1>4. Scanned
  <2>1. FlushCompleteMessages(SubSeq(file.stream, 1, fed)) = [emitted |-> out, buffer |-> buffer]
    BY <1>2, <1>3, FlushNothing
  <2>2. fed \in 0 .. Len(file.stream)
    BY <1>2
  <2> QED
    BY <2>1, <2>2 DEF Scanned
<1>5. LossesCounted
  BY DEF Init, LossesCounted
<1> QED
  BY <1>1, <1>4, <1>5 DEF ScanInv

LEMMA AdjacentPieces ==
  ASSUME NEW T, NEW s \in Seq(T), NEW k \in 0 .. Len(s), NEW n \in k .. Len(s),
         NEW b, NEW x, b = SubSeq(s, 1, k), x = SubSeq(s, k + 1, n)
  PROVE  b \o x = SubSeq(s, 1, n)
<1>1. 1 \in 1 .. Len(s) + 1 /\ k \in 1 - 1 .. Len(s)
  OBVIOUS
<1> QED
  BY <1>1, ConcatAdjacentSubSeq

(* The next bytes of the stream.                                           *)
LEMMA ReceivedStep ==
  ASSUME Counters, Delivered, Scanned, NEW packet \in Packet, Received(packet),
         sent + packet.bytes <= Len(file.stream), file' = file
  PROVE  Scanned'
<1>1. PICK n \in Nat : n = packet.bytes
  BY DEF Packet
<1>2. PICK s : s = file.stream
  OBVIOUS
<1>3. s \in Seq(Tokens) /\ fed \in Nat /\ Len(s) \in Nat /\ fed <= Len(s) /\ file'.stream = s
  BY <1>2, FedBytes
<1>4. CASE fed = sent
  <2>1. fed + n \in Nat /\ fed + n <= Len(s)
    BY <1>1, <1>2, <1>3, <1>4
  <2>2. PICK b, x : b = SubSeq(s, 1, fed) /\ x = SubSeq(s, fed + 1, fed + n)
    OBVIOUS
  <2>3. b \in Seq(Tokens) /\ x \in Seq(Tokens)
    <3>1. 1 \in Int /\ fed \in Int /\ fed + 1 \in Int /\ fed + n \in Int /\ fed + 1 >= 1
      BY <1>1, <1>3
    <3>2. b \in Seq(Tokens)
      BY <1>3, <2>2, <3>1, SubSeqIs
    <3>3. x \in Seq(Tokens)
      BY <1>3, <2>1, <2>2, <3>1, SubSeqIs
    <3> QED
      BY <3>2, <3>3
  <2>4. b \o x = SubSeq(s, 1, fed + n)
    <3>1. 1 \in 1 .. Len(s) + 1 /\ fed \in 1 - 1 .. Len(s) /\ fed + n \in fed .. Len(s)
      BY <1>1, <1>3, <2>1
    <3> QED
      BY <1>3, <3>1, <2>2, AdjacentPieces
  <2>5. FlushCompleteMessages(b) = [emitted |-> out, buffer |-> buffer]
    BY <1>2, <2>2 DEF Scanned
  <2>6. PICK next : next = FlushCompleteMessages(buffer \o x)
    OBVIOUS
  <2>7. FlushCompleteMessages(b \o x) = [emitted |-> out \o next.emitted, buffer |-> next.buffer]
    <3>1. PICK d : d = b \o x
      OBVIOUS
    <3>2. FlushCompleteMessages(d) = Continued([emitted |-> out, buffer |-> buffer], x)
      <4>1. Joined(b, x, d) /\ 1 \in 1 .. Len(b) + 1
        BY <2>3, <3>1 DEF Joined
      <4>2. Flush(d)[1] = Continued(Flush(b)[1], x)
        BY <2>3, <4>1, FlushContinues
      <4> QED
        BY <2>5, <4>2, FlushIs
    <3>3. Continued([emitted |-> out, buffer |-> buffer], x)
            = [emitted |-> out \o next.emitted, buffer |-> next.buffer]
      BY <2>6, FlushIs DEF Continued
    <3> QED
      BY <3>1, <3>2, <3>3
  <2>8. fed' = fed + n /\ buffer' = next.buffer /\ out' = out \o next.emitted
    BY <1>1, <1>2, <1>4, <2>2, <2>6 DEF Received
  <2> QED
    BY <1>3, <2>1, <2>4, <2>7, <2>8 DEF Scanned
<1>5. CASE fed # sent
  <2>1. fed' = fed /\ buffer' = buffer /\ out' = out
    BY <1>5 DEF Received
  <2> QED
    BY <2>1 DEF Scanned
<1> QED
  BY <1>4, <1>5

(* A packet read with the interface that describes it: what is not read is *)
(* either counted or no part of the stream.                                *)
LEMMA PacketScanned ==
  ASSUME Counters, Delivered, Scanned, losses \in Nat, losses = 0 => ~unreadable,
         NEW packet \in Packet, NEW interface, interface.resolution # NoResolution,
         HandlePacketBlock(packet, interface.link), Captured(packet, interface),
         sent + packet.bytes <= Len(file.stream), file' = file
  PROVE  Scanned' /\ losses' \in Nat /\ (losses' = 0 => ~unreadable')
<1>1. packet.bytes \in Nat
  BY DEF Packet
<1>2. unreadable' = (unreadable \/ (packet.bytes > 0 /\ ~Readable(packet, interface)))
  BY DEF Captured
<1>3. CASE Outcome(packet, interface.link) = "work"
  <2>1. Received(packet) /\ losses' = losses
    BY <1>3 DEF HandlePacketBlock
  <2>2. Scanned'
    BY <2>1, ReceivedStep
  <2>3. Readable(packet, interface)
    BY <1>3, WorkIffReadable
  <2> QED
    BY <1>2, <2>1, <2>2, <2>3
<1>4. CASE Outcome(packet, interface.link) = "nothing"
  <2>1. UNCHANGED <<losses, flowVars>>
    BY <1>4 DEF HandlePacketBlock
  <2>2. Scanned' /\ losses' = losses
    BY <2>1 DEF flowVars, Scanned
  <2>3. packet.bytes = 0
    BY <1>1, <1>4 DEF Outcome, DecodePacketData, Packet
  <2>4. unreadable' = unreadable
    BY <1>2, <2>3 DEF Counters
  <2> QED
    BY <2>2, <2>4
<1>5. CASE Outcome(packet, interface.link) = "loss"
  <2>1. Loss
    BY <1>5 DEF HandlePacketBlock
  <2>2. Scanned' /\ losses' = losses + 1
    BY <2>1 DEF Loss, flowVars, Scanned
  <2> QED
    BY <2>2
<1> QED
  BY <1>3, <1>4, <1>5 DEF Outcome

LEMMA LossScanned ==
  ASSUME Scanned, losses \in Nat, Loss, file' = file
  PROVE  Scanned' /\ losses' \in Nat /\ (losses' = 0 => ~unreadable')
<1>1. Scanned' /\ losses' = losses + 1
  BY DEF Loss, flowVars, Scanned
<1> QED
  BY <1>1

LEMMA FailsScanned ==
  ASSUME Scanned, losses \in Nat, Fails, file' = file
  PROVE  Scanned' /\ losses' \in Nat /\ status' = "failed"
  BY DEF Fails, flowVars, Scanned

(* The end of the file: one more call finds nothing new in the buffer.     *)
LEMMA EndScanned ==
  ASSUME Counters, Scanned, LossesCounted, status = "reading", EndOfFile
  PROVE  Scanned' /\ LossesCounted'
<1>1. buffer \in Seq(Tokens) /\ out \in Seq(Seq(Tokens))
  BY ScannedIs
<1>2. PICK b \in Seq(Tokens) : b = SubSeq(file.stream, 1, fed)
  BY FedBytes
<1>3. PICK x : x = <<>> /\ x \in Seq(Tokens)
  BY EmptySeq
<1>4. PICK flushed \in Flushed(Tokens) : flushed = FlushCompleteMessages(buffer)
  BY <1>1, FlushIsBounded
<1>5. flushed.buffer = buffer /\ out \o flushed.emitted = out
  <2>1. Joined(b, x, b) /\ Joined(buffer, x, buffer)
    BY <1>1, <1>2, <1>3, ConcatEmptySeq DEF Joined
  <2>2. Flush(b)[1] = Continued(Flush(b)[1], x)
    <3>1. b \in Seq(Tokens) /\ x \in Seq(Tokens)
      BY <1>3
    <3>2. \A c \in 1 .. Len(b) + 1 : Flush(b)[c] = Continued(Flush(b)[c], x)
      BY <2>1, <3>1, FlushContinues
    <3>3. 1 \in 1 .. Len(b) + 1
      BY <3>1
    <3> QED
      BY <3>2, <3>3
  <2>3. Flush(b)[1] = [emitted |-> out, buffer |-> buffer]
    BY <1>2, FlushIs DEF Scanned
  <2>4. Continued(Flush(b)[1], x) = [emitted |-> out \o flushed.emitted, buffer |-> flushed.buffer]
    <3>1. PICK r : r = Flush(b)[1]
      OBVIOUS
    <3>2. r.emitted = out /\ r.buffer = buffer
      BY <2>3, <3>1
    <3>3. r.buffer \o x = buffer
      BY <2>1, <3>2 DEF Joined
    <3>4. flushed = Flush(buffer)[1]
      BY <1>4, FlushIs
    <3> QED
      BY <3>1, <3>2, <3>3, <3>4 DEF Continued
  <2> QED
    BY <2>2, <2>3, <2>4
<1>6. /\ status' = "ended" /\ out' = out /\ buffer' = buffer /\ fed' = fed /\ file' = file
      /\ losses' = losses + (IF Len(buffer) + pending > 0 THEN 1 ELSE 0)
      /\ unreadable' = unreadable
  BY <1>4, <1>5 DEF EndOfFile
<1>7. Scanned'
  BY <1>6 DEF Scanned
<1>8. LossesCounted'
  <2>1. losses' \in Nat /\ (losses' = 0 => losses = 0 /\ ~(Len(buffer) + pending > 0))
    BY <1>1, <1>6 DEF LossesCounted, Counters
  <2>2. ~(Len(buffer) + pending > 0) => buffer = <<>>
    <3>1. ~(Len(buffer) + pending > 0) => Len(buffer) = 0
      BY <1>1 DEF Counters
    <3> QED
      BY <1>1, <3>1, EmptySeq
  <2> QED
    BY <1>6, <2>1, <2>2 DEF LossesCounted
<1> QED
  BY <1>7, <1>8

LEMMA ScanStep == ScanInv /\ [Next]_vars => ScanInv'
<1> SUFFICES ASSUME ScanInv, [Next]_vars PROVE Scanned' /\ LossesCounted'
  BY InvStep DEF ScanInv
<1>1. CASE UNCHANGED vars
  BY <1>1 DEF vars, stateVars, flowVars, ScanInv, Scanned, LossesCounted
<1>2. ASSUME status = "reading", NEW b \in file.blocks, ReadBlock(b)
      PROVE  Scanned' /\ LossesCounted'
  <2>1. HandleBlock(b) /\ file' = file /\ Truthful(b)
    BY <1>2 DEF ReadBlock
  <2>2. Counters /\ Delivered /\ Scanned /\ losses \in Nat /\ (losses = 0 => ~unreadable)
    BY <1>2 DEF ScanInv, IInv, LossesCounted
  <2> DEFINE Done == Scanned' /\ losses' \in Nat /\ (losses' = 0 => ~unreadable')
             Failed == Scanned' /\ losses' \in Nat /\ status' = "failed"
  <2>3. (Done /\ status' = status) \/ Failed => Scanned' /\ LossesCounted'
    BY <1>2 DEF LossesCounted
  <2>4. CASE LegacyHeader(b) \/ SectionHeader(b) \/ OtherBlock(b)
    BY <2>1, <2>2, <2>3, <2>4 DEF LegacyHeader, SectionHeader, OtherBlock, NoPacket, flowVars,
                                  Scanned
  <2>5. CASE InterfaceDescription(b)
    <3>1. losses' \in {losses, losses + 1} /\ unreadable' = unreadable /\ status' = status
      BY <2>5 DEF InterfaceDescription
    <3>2. Scanned'
      BY <2>1, <2>2, <2>5 DEF InterfaceDescription, flowVars, Scanned
    <3> QED
      BY <2>2, <2>3, <3>1, <3>2
  <2>6. ASSUME b.type \in {"Legacy", "EnhancedPacket", "SimplePacket"}
        PROVE  b.packet \in Packet /\ sent + b.packet.bytes <= Len(file.stream)
    BY <2>1, <2>2, <2>6, BlockTyped DEF Truthful
  <2>7. CASE LegacyPacket(b)
    <3>1. PICK header :
            header = IF legacy = NoHeader THEN [link |-> Ethernet, resolution |-> Micros] ELSE legacy
      OBVIOUS
    <3>2. PICK packet \in Packet : packet = b.packet /\ sent + packet.bytes <= Len(file.stream)
      BY <2>6, <2>7 DEF LegacyPacket
    <3>3. header.resolution # NoResolution
      BY <3>1 DEF ScanInv, IInv, HeaderTyped
    <3>4. /\ IF CaptureTimestamp(b.fraction, header.resolution)
             THEN HandlePacketBlock(packet, header.link) /\ UNCHANGED status
             ELSE Fails
          /\ Captured(packet, header)
      BY <2>7, <3>1, <3>2 DEF LegacyPacket
    <3>5. CASE HandlePacketBlock(packet, header.link) /\ UNCHANGED status
      BY <2>1, <2>2, <2>3, <3>2, <3>3, <3>4, <3>5, PacketScanned
    <3>6. CASE Fails
      BY <2>1, <2>2, <2>3, <3>6, FailsScanned
    <3> QED
      BY <3>4, <3>5, <3>6
  <2>8. CASE EnhancedPacket(b)
    <3>1. PICK id : id = b.if_id
      OBVIOUS
    <3>2. PICK packet \in Packet : packet = b.packet /\ sent + packet.bytes <= Len(file.stream)
      BY <2>6, <2>8 DEF EnhancedPacket
    <3>3. id \in Nat
      BY <2>2, <2>8, <3>1, BlockTyped DEF EnhancedPacket
    <3>4. PICK interface : interface = DescribedBy(id)
      OBVIOUS
    <3>5. /\ id \in DOMAIN interfaces <=> interface.resolution # NoResolution
          /\ id \in DOMAIN interfaces => interfaces[id] = interface
      BY <3>3, <3>4, Described DEF ScanInv, IInv
    <3>6. /\ IF id \notin DOMAIN interfaces THEN Loss /\ UNCHANGED status
             ELSE IF CaptureTimestamp(0, interfaces[id].resolution)
             THEN HandlePacketBlock(packet, interfaces[id].link) /\ UNCHANGED status
             ELSE Fails
          /\ Captured(packet, interface)
      BY <2>8, <3>1, <3>2, <3>4 DEF EnhancedPacket
    <3>7. CASE id \notin DOMAIN interfaces
      BY <2>1, <2>2, <2>3, <3>6, <3>7, LossScanned
    <3>8. CASE id \in DOMAIN interfaces
      <4>1. CASE HandlePacketBlock(packet, interface.link) /\ UNCHANGED status
        BY <2>1, <2>2, <2>3, <3>2, <3>5, <3>6, <3>8, <4>1, PacketScanned
      <4>2. CASE Fails
        BY <2>1, <2>2, <2>3, <4>2, FailsScanned
      <4> QED
        BY <3>5, <3>6, <3>8, <4>1, <4>2
    <3> QED
      BY <3>7, <3>8
  <2>9. CASE SimplePacket(b)
    <3>1. PICK packet \in Packet : packet = b.packet /\ sent + packet.bytes <= Len(file.stream)
      BY <2>6, <2>9 DEF SimplePacket
    <3>2. PICK interface : interface = DescribedBy(0)
      OBVIOUS
    <3>3. /\ 0 \in DOMAIN interfaces <=> interface.resolution # NoResolution
          /\ 0 \in DOMAIN interfaces => interfaces[0] = interface
      BY <3>2, Described DEF ScanInv, IInv
    <3>4. /\ IF 0 \in DOMAIN interfaces THEN HandlePacketBlock(packet, interfaces[0].link) ELSE Loss
          /\ Captured(packet, interface) /\ status' = status
      BY <2>9, <3>1, <3>2 DEF SimplePacket
    <3>5. CASE 0 \in DOMAIN interfaces
      BY <2>1, <2>2, <2>3, <3>1, <3>3, <3>4, <3>5, PacketScanned
    <3>6. CASE 0 \notin DOMAIN interfaces
      BY <2>1, <2>2, <2>3, <3>4, <3>6, LossScanned
    <3> QED
      BY <3>5, <3>6
  <2> QED
    BY <2>1, <2>4, <2>5, <2>7, <2>8, <2>9 DEF HandleBlock
<1>3. CASE status = "reading" /\ EndOfFile
  BY <1>3, EndScanned DEF ScanInv, IInv
<1>4. CASE ParseError
  BY <1>4 DEF ParseError, flowVars, ScanInv, Scanned, LossesCounted
<1> QED
  BY <1>1, <1>2, <1>3, <1>4 DEF Next

LEMMA ScanInvAlways == Spec => []ScanInv
  BY InitScanned, ScanStep, PTL DEF Spec

(* For any capture: the messages that came out are those of the bytes the  *)
(* flow received, read as a whole, however the packets cut them; no        *)
(* message is lost, emitted twice, or made of the bytes of another.        *)
THEOREM EmitsWholeMessages == Spec => []CutIndependent
<1>1. ScanInv => CutIndependent
  BY ScannedIs DEF ScanInv, IInv
<1> QED
  BY <1>1, ScanInvAlways, PTL

(* For any capture: what waits in the buffer begins like a message.        *)
THEOREM KeepsNoGarbage == Spec => []KeepsOnlyCandidates
<1>1. ScanInv => KeepsOnlyCandidates
  BY ScannedIs DEF ScanInv, IInv
<1> QED
  BY <1>1, ScanInvAlways, PTL

(* For any capture: a run that ends and counts no loss has emitted every   *)
(* message of the captured bytes, and leaves none in the buffer.           *)
THEOREM NoLossNothingMissing == Spec => []HonestCapture
<1>1. ScanInv => HonestCapture
  <2> SUFFICES ASSUME ScanInv, status = "ended", losses = 0
               PROVE  out = Messages(SubSeq(file.stream, 1, sent)) /\ buffer = <<>>
    BY DEF HonestCapture
  <2>1. fed = sent /\ buffer = <<>>
    BY DEF ScanInv, IInv, Delivered, LossesCounted
  <2>2. CutIndependent
    BY ScannedIs DEF ScanInv, IInv
  <2> QED
    BY <2>1, <2>2 DEF CutIndependent
<1> QED
  BY <1>1, ScanInvAlways, PTL

=============================================================================
