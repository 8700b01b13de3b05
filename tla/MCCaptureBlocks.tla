--------------------------- MODULE MCCaptureBlocks --------------------------
(* Two kinds of files.  Plain pcap files carry streams of up to MaxPieces  *)
(* pieces in packets cut anywhere: whole messages (one with a begin string *)
(* in its body), and the fragments that can mislead the scanner.  PCAPNG   *)
(* files carry one message in two or three packets among up to MaxBlocks   *)
(* blocks of every kind.                                                   *)
EXTENDS CaptureBlocks, SequencesExt

CONSTANTS MaxPieces, MaxBlocks

MCBeginString == <<"8=", "FIX">>
MCBodyLength  == [t \in {"9=0", "9=1", "9=2"} |->
                    CASE t = "9=0" -> 0 [] t = "9=1" -> 1 [] t = "9=2" -> 2]
MCTokens == {"8=", "FIX", "|", "9=0", "9=1", "9=2", "10=", "x"}

Empty == <<"8=", "FIX", "|", "9=0", "|", "10=", "|">>
Pieces == {
    Empty,
    <<"8=", "FIX", "|", "9=2", "|", "8=", "FIX", "10=", "|">>,
    <<"8=", "FIX", "|", "9=1", "|">>,
    <<"8=", "FIX", "|", "x">>,
    <<"8=">>,
    <<"10=", "|">>,
    <<"x">> }

Tcp(n, l)  == [bytes |-> n, link |-> l, whole |-> TRUE, holds |-> "tcp"]
Cut(n, l)  == [Tcp(n, l) EXCEPT !.whole = FALSE]
Holds(n, l, what) == [Tcp(n, l) EXCEPT !.holds = what]
Legacy(p, f)   == [type |-> "Legacy", fraction |-> f, packet |-> p]
Enhanced(p, i) == [type |-> "EnhancedPacket", if_id |-> i, packet |-> p]
Interface(l, r) == [type |-> "InterfaceDescription", interface |-> [link |-> l, resolution |-> r]]

PcapBlocks ==
    {[type |-> "LegacyHeader", link |-> Ethernet, resolution |-> Micros]}
    \union {Legacy(Tcp(n, Ethernet), 0) : n \in 1 .. 12}

(* Fractions of a second that only a precision of nanoseconds allows.      *)
PreciseBlocks ==
    {[type |-> "LegacyHeader", link |-> Sll2, resolution |-> r] : r \in {Micros, Nanos}}
    \union {Legacy(Tcp(n, Sll2), f) : n \in {3, 4}, f \in {Micros - 1, Micros}}
    \union {Legacy(Holds(4, Sll2, "monitor"), 0), Legacy(Holds(0, Sll2, "tunnel"), 0)}

NGBlocks ==
    {[type |-> "SectionHeader"], [type |-> "Other"]}
    \union {Interface(Ethernet, Micros), Interface(Sll2, Nanos), Interface(Ethernet, NoResolution)}
    \union {Enhanced(Tcp(n, l), i) : n \in {3, 4}, l \in Links, i \in {0, 1}}
    \union {[type |-> "SimplePacket", packet |-> p] :
              p \in {Tcp(4, Ethernet), Cut(3, Ethernet), Holds(3, Ethernet, "damaged")}}

MCDescriptions == {b.interface : b \in {k \in NGBlocks : k.type = "InterfaceDescription"}}

MCFiles ==
    {[stream |-> FlattenSeq(p), blocks |-> PcapBlocks, length |-> 28]
        : p \in BoundedSeq(Pieces, MaxPieces)}
    \union {[stream |-> Empty, blocks |-> PreciseBlocks, length |-> 4],
            [stream |-> Empty, blocks |-> NGBlocks, length |-> MaxBlocks]}
=============================================================================
