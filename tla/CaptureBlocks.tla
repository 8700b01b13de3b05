---------------------------- MODULE CaptureBlocks ---------------------------
(***************************************************************************)
(* How pcap2fix reads a capture file: blocks come one by one, some carry   *)
(* the state that later ones are read with (the link type and precision of *)
(* a pcap header; the interfaces of a PCAPNG section, which packets refer  *)
(* to by number), some carry a packet, and a packet becomes work for the   *)
(* flow shards, nothing, or a counted loss (handle_block and its callees). *)
(*                                                                         *)
(* The parsers of the pcap-parser and etherparse crates are external: a    *)
(* packet is described by what they make of it.  The captured packets of   *)
(* interest carry the next bytes of one TCP stream; the stream's buffer is *)
(* the one of FixFraming.  Idle eviction is off (--idle-timeout 0) and     *)
(* there is one flow: eviction and the shards are ShardPool's.             *)
(***************************************************************************)
EXTENDS FixFraming

CONSTANTS
    Tokens,          \* what the streams are made of
    Files,           \* the captures: the stream, the blocks a file may hold,
                     \* and a bound on how many
    Descriptions,    \* interface descriptions: [link, resolution]
    Micros, Nanos,   \* 1_000_000 and 1_000_000_000
    NoResolution,    \* ts_resolution() is None
    NoHeader,        \* no legacy header yet
    Ethernet, Sll2   \* Linktype::ETHERNET and LINKTYPE_LINUX_SLL2

Links == {Ethernet, Sll2}
InterfaceInfo == [link : Links, resolution : Nat]

(* `bytes` of the stream, or none; `link` is how the capturing interface   *)
(* framed it; `holds` what is in the frame; `whole` whether captured_len   *)
(* bytes are there.  Other protocols, and tunnels, carry none of them.     *)
Packet == {p \in [bytes : Nat, link : Links, whole : BOOLEAN,
                  holds : {"tcp", "other", "tunnel", "monitor", "damaged"}] :
             p.bytes > 0 => \/ p.holds \in {"tcp", "damaged"}
                            \/ p.holds = "monitor" /\ p.link = Sll2}

Block == [type : {"LegacyHeader"}, link : Links, resolution : {Micros, Nanos}]
         \union [type : {"Legacy"}, fraction : Nat, packet : Packet]
         \union [type : {"SectionHeader", "Other"}]
         \union [type : {"InterfaceDescription"}, interface : Descriptions]
         \union [type : {"EnhancedPacket"}, if_id : Nat, packet : Packet]
         \union [type : {"SimplePacket"}, packet : Packet]

ASSUME CaptureAssumption ==
    /\ \A f \in Files : f.stream \in Seq(Tokens) /\ f.blocks \subseteq Block /\ f.length \in Nat
    /\ Descriptions \subseteq [link : Links, resolution : Nat \union {NoResolution}]
    /\ NoResolution \notin Nat
    /\ NoHeader \notin [link : Links, resolution : Nat]
    /\ Ethernet # Sll2
    /\ Micros \in Nat /\ Nanos \in Nat

VARIABLES
    file, read,          \* the capture, and how many of its blocks were read
    status,              \* "reading", "failed" or "ended"
    legacy,              \* legacy_linktype and legacy_nanosecond_precision
    interfaces,          \* CaptureState.interfaces
    next_if_id,
    next_packet_index,
    losses,
    fed, buffer, out,    \* the bytes the flow received, its buffer, its messages
    pending,             \* the bytes that wait behind a missing segment
    \* what the file says, for comparison
    section,             \* the interface descriptions of the current section
    sent,                \* the bytes of the stream that were captured so far
    unreadable           \* some of them in a packet nobody could read

stateVars == <<legacy, interfaces, next_if_id>>
flowVars  == <<next_packet_index, fed, buffer, out, pending>>
vars == <<file, read, status, stateVars, losses, flowVars, section, sent, unreadable>>

Init ==
    /\ file \in Files
    /\ read = 0
    /\ status = "reading"
    /\ legacy = NoHeader
    /\ interfaces = [i \in {} |-> NoHeader]
    /\ next_if_id = 0
    /\ next_packet_index = 0 /\ losses = 0
    /\ fed = 0 /\ buffer = <<>> /\ out = <<>> /\ pending = 0
    /\ section = <<>> /\ sent = 0 /\ unreadable = FALSE

(* get_packetdata (external) reads a frame only by its own link type;      *)
(* decode_packet_data itself takes Linux SLL2 frames apart.                *)
DecodePacketData(packet, link) ==
    CASE ~packet.whole                               -> "none"
      [] packet.link # link                          -> "damaged"
      [] link = Sll2 /\ packet.holds = "monitor"     -> "none"
      [] OTHER                                       -> packet.holds

(* packet_to_work: the shard gets the packet, or it is no TCP data of      *)
(* interest, or it is a loss.                                              *)
Outcome(packet, link) ==
    CASE DecodePacketData(packet, link) \in {"none", "damaged"} -> "loss"
      [] DecodePacketData(packet, link) = "tcp"                 -> "work"
      [] OTHER                                                  -> "nothing"

(* Segments come in order; once one is missing, later ones wait behind the *)
(* gap and none of them reaches the buffer.                                *)
Received(packet) ==
    LET flushed == FlushCompleteMessages(buffer \o SubSeq(file.stream, fed + 1, fed + packet.bytes))
    IN  IF fed = sent
        THEN /\ fed' = fed + packet.bytes
             /\ buffer' = flushed.buffer
             /\ out' = out \o flushed.emitted
             /\ UNCHANGED pending
        ELSE /\ pending' = pending + packet.bytes
             /\ UNCHANGED <<fed, buffer, out>>

LossUncounted == UNCHANGED <<losses, flowVars>>
Loss == losses' = losses + 1 /\ UNCHANGED flowVars

HandlePacketBlock(packet, link) ==
    CASE Outcome(packet, link) = "work" ->
            /\ next_packet_index' = next_packet_index + 1
            /\ Received(packet)
            /\ UNCHANGED losses
      [] Outcome(packet, link) = "nothing" -> UNCHANGED <<losses, flowVars>>
      [] OTHER -> Loss
-----------------------------------------------------------------------------
(* The reference: a packet is readable if its section describes its        *)
(* interface, by its place among the descriptions, and it is whole.        *)
DescribedBy(id) ==
    IF id + 1 \in DOMAIN section THEN section[id + 1]
    ELSE [link |-> Ethernet, resolution |-> NoResolution]

Readable(packet, interface) ==
    /\ interface.resolution # NoResolution
    /\ packet.link = interface.link
    /\ packet.whole /\ packet.holds = "tcp"

Captured(packet, interface) ==
    /\ sent' = sent + packet.bytes
    /\ unreadable' = (unreadable \/ (packet.bytes > 0 /\ ~Readable(packet, interface)))
    /\ UNCHANGED section

NoPacket == UNCHANGED <<losses, flowVars, sent, unreadable>>
Fails == status' = "failed" /\ UNCHANGED <<losses, flowVars>>
-----------------------------------------------------------------------------
LegacyHeader(b) ==
    /\ b.type = "LegacyHeader"
    /\ legacy' = [link |-> b.link, resolution |-> b.resolution]
    /\ NoPacket /\ UNCHANGED <<status, interfaces, next_if_id, section>>

(* capture_timestamp refuses a fraction of a second that is none: the      *)
(* error ends the program.                                                 *)
CaptureTimestamp(fraction, resolution) == resolution # 0 /\ fraction < resolution

LegacyPacket(b) ==
    LET header == IF legacy = NoHeader THEN [link |-> Ethernet, resolution |-> Micros] ELSE legacy
    IN  /\ b.type = "Legacy"
        /\ IF CaptureTimestamp(b.fraction, header.resolution)
           THEN HandlePacketBlock(b.packet, header.link) /\ UNCHANGED status
           ELSE Fails
        /\ Captured(b.packet, header)
        /\ UNCHANGED stateVars

SectionHeaderKeepingInterfaces(b) ==
    /\ b.type = "SectionHeader"
    /\ next_if_id' = 0
    /\ section' = <<>>
    /\ NoPacket /\ UNCHANGED <<status, legacy, interfaces>>

SectionHeader(b) ==
    /\ b.type = "SectionHeader"
    /\ interfaces' = [i \in {} |-> NoHeader]
    /\ next_if_id' = 0
    /\ section' = <<>>
    /\ NoPacket /\ UNCHANGED <<status, legacy>>

Inserted(interface) ==
    [i \in DOMAIN interfaces \union {next_if_id} |->
        IF i = next_if_id THEN interface ELSE interfaces[i]]

(* An interface with a bad resolution is a loss, and still takes a number. *)
InterfaceDescription(b) ==
    /\ b.type = "InterfaceDescription"
    /\ section' = Append(section, b.interface)
    /\ next_if_id' = next_if_id + 1
    /\ IF b.interface.resolution = NoResolution
       THEN losses' = losses + 1 /\ UNCHANGED interfaces
       ELSE interfaces' = Inserted(b.interface) /\ UNCHANGED losses
    /\ UNCHANGED <<status, legacy, flowVars, sent, unreadable>>

(* decode_ts (external) leaves a fraction below the resolution, so an      *)
(* enhanced packet's time is always one unless the resolution is zero.     *)
EnhancedPacket(b) ==
    /\ b.type = "EnhancedPacket"
    /\ IF b.if_id \notin DOMAIN interfaces THEN Loss /\ UNCHANGED status
       ELSE IF CaptureTimestamp(0, interfaces[b.if_id].resolution)
       THEN HandlePacketBlock(b.packet, interfaces[b.if_id].link) /\ UNCHANGED status
       ELSE Fails
    /\ Captured(b.packet, DescribedBy(b.if_id))
    /\ UNCHANGED stateVars

SimplePacket(b) ==
    /\ b.type = "SimplePacket"
    /\ IF 0 \in DOMAIN interfaces THEN HandlePacketBlock(b.packet, interfaces[0].link) ELSE Loss
    /\ Captured(b.packet, DescribedBy(0))
    /\ UNCHANGED <<status, stateVars>>

OtherBlock(b) ==
    /\ b.type = "Other"
    /\ NoPacket /\ UNCHANGED <<status, stateVars, section>>

HandleBlock(b) ==
    \/ LegacyHeader(b) \/ LegacyPacket(b)
    \/ SectionHeader(b) \/ InterfaceDescription(b)
    \/ EnhancedPacket(b) \/ SimplePacket(b) \/ OtherBlock(b)

(* A capturing program writes the truth: a pcap header comes first and     *)
(* once, and frames are framed as their interface's description says.      *)
Truthful(b) ==
    /\ read = 0 <=> b.type = "LegacyHeader" \/ (read = 0 /\ b.type = "SectionHeader")
    /\ b.type = "Legacy" => b.packet.link = legacy.link
    /\ b.type \in {"EnhancedPacket", "SimplePacket"} =>
          LET id == IF b.type = "SimplePacket" THEN 0 ELSE b.if_id
          IN  id + 1 \in DOMAIN section => b.packet.link = section[id + 1].link
    /\ b.type \in {"Legacy", "EnhancedPacket", "SimplePacket"} =>
          sent + b.packet.bytes <= Len(file.stream)

(* process_capture: the next block, the end of the file, or an error of    *)
(* the parser; at the end flush_remaining_flow_outputs counts what is left.*)
ReadBlock(b) ==
    /\ read < file.length
    /\ Truthful(b)
    /\ HandleBlock(b)
    /\ read' = read + 1
    /\ UNCHANGED file

EndOfFile ==
    LET flushed == FlushCompleteMessages(buffer)
    IN  /\ status' = "ended"
        /\ out' = out \o flushed.emitted
        /\ buffer' = flushed.buffer
        /\ losses' = losses + (IF Len(flushed.buffer) + pending > 0 THEN 1 ELSE 0)
        /\ UNCHANGED <<file, read, stateVars, next_packet_index, fed, pending,
                       section, sent, unreadable>>

ParseError ==
    /\ status' = "failed"
    /\ UNCHANGED <<file, read, stateVars, losses, flowVars, section, sent, unreadable>>

Next ==
    /\ status = "reading"
    /\ \/ \E b \in file.blocks : ReadBlock(b)
       \/ EndOfFile
       \/ ParseError

Spec == Init /\ [][Next]_vars
-----------------------------------------------------------------------------
(* What has been emitted is what the bytes received so far contain, read   *)
(* as a whole: however the stream was cut into packets, no message is lost *)
(* or emitted twice, and no body bytes are taken for one.                  *)
CutIndependent == out = Messages(SubSeq(file.stream, 1, fed))

(* Garbage never accumulates: the buffer is empty, or starts with a        *)
(* possible message, or is the beginning of a begin string cut in two.     *)
KeepsOnlyCandidates ==
    \/ StartsWith(buffer, 1, BeginString)
    \/ \E n \in 0 .. Len(BeginString) - 1 : buffer = SubSeq(BeginString, 1, n)

(* The stream reaches the buffer up to the first packet that is cut, or    *)
(* whose interface the current section does not (validly) describe, and no *)
(* byte behind it: no packet is read with an interface of an old section,  *)
(* nor refused because a bad description before its own was skipped.       *)
DeliversReadable == status # "failed" => (fed = sent <=> ~unreadable)

(* --strict: a capture that ends without a loss gave every message of the  *)
(* bytes it holds and left nothing over.                                   *)
HonestCapture ==
    status = "ended" /\ losses = 0 =>
        /\ out = Messages(SubSeq(file.stream, 1, sent))
        /\ buffer = <<>>
=============================================================================
