----------------------------- MODULE FixFraming -----------------------------
(***************************************************************************)
(* How pcap2fix cuts FIX messages out of the reassembled bytes of a flow:  *)
(* flush_complete_messages and the functions it calls.  Bytes are          *)
(* abstracted to tokens, the smallest pieces the code tells apart: the     *)
(* parts of the begin string, the delimiter, a whole 9=n field, a whole    *)
(* 10=ddd field, anything else.  A body length counts tokens.              *)
(*                                                                         *)
(* The operators are pure; FlowState applies them to the buffer of a flow. *)
(***************************************************************************)
EXTENDS Naturals, Sequences

CONSTANTS
    BeginString,   \* FIX_BEGIN, a sequence of tokens
    Delim,         \* the delimiter
    Trailer,       \* a 10=ddd field
    BodyLength,    \* function from the 9=n tokens to the n they carry
    MinFrame       \* buffers shorter than this are not examined at all

(* The shortest message is the begin string, a delimiter, 9=0, a delimiter,*)
(* 10=ddd and a delimiter: 17 bytes in the code, whose MinFrame is 16.     *)
(* Bytes are cut into tokens with a --delimiter in mind that is none of    *)
(* the characters of these fields.                                         *)
ASSUME FramingAssumption ==
    /\ BeginString \in Seq({BeginString[k] : k \in DOMAIN BeginString}) \ {<<>>}
    /\ \A k \in DOMAIN BeginString : BeginString[k] # Delim
    /\ Delim \notin DOMAIN BodyLength
    /\ \A t \in DOMAIN BodyLength : BodyLength[t] \in Nat
    /\ MinFrame \in 0 .. Len(BeginString) + 4

-----------------------------------------------------------------------------
Incomplete  == [kind |-> "Incomplete", end |-> 0]
Invalid     == [kind |-> "Invalid",    end |-> 0]
Complete(e) == [kind |-> "Complete",   end |-> e]

Delims(b, from) == {k \in from .. Len(b) : b[k] = Delim}
Least(S) == CHOOSE x \in S : \A y \in S : x <= y

StartsWith(b, i, prefix) ==
    /\ i + Len(prefix) - 1 <= Len(b)
    /\ SubSeq(b, i, i + Len(prefix) - 1) = prefix

(* Whether the message that begins at b[i] is whole, and where it ends.    *)
FindMessageEnd(b, i) ==
    LET bodyLenField == Least(Delims(b, i)) + 1
        bodyLenEnd   == Least(Delims(b, bodyLenField))
        wellFormed   == /\ bodyLenEnd = bodyLenField + 1
                        /\ b[bodyLenField] \in DOMAIN BodyLength
        bodyEnd      == bodyLenEnd + 1 + BodyLength[b[bodyLenField]]
    IN  IF Len(b) - i + 1 < MinFrame \/ Delims(b, i) = {} \/ Delims(b, bodyLenField) = {}
        THEN Incomplete
        ELSE IF ~wellFormed           THEN Invalid
        ELSE IF bodyEnd + 1 > Len(b)  THEN Incomplete
        ELSE IF b[bodyEnd] # Trailer \/ b[bodyEnd + 1] # Delim THEN Invalid
        ELSE Complete(bodyEnd + 1)

MessageStarts(b, cursor) == {i \in cursor .. Len(b) : StartsWith(b, i, BeginString)}

RetainNothing(b)    == <<>>
RetainEverything(b) == b

(* The longest proper prefix of the begin string that ends b, or nothing.  *)
RetainPartialBeginString(b) ==
    LET kept == {n \in 0 .. Len(BeginString) - 1 :
                   /\ n <= Len(b)
                   /\ SubSeq(b, Len(b) - n + 1, Len(b)) = SubSeq(BeginString, 1, n)}
        keep == CHOOSE n \in kept : \A m \in kept : m <= n
    IN  SubSeq(b, Len(b) - keep + 1, Len(b))

(* What one call emits and what it leaves in the buffer.                   *)
FlushCompleteMessages(b) ==
    LET from[cursor \in 1 .. Len(b) + 1] ==
          LET i   == Least(MessageStarts(b, cursor))
              end == FindMessageEnd(b, i)
          IN  IF MessageStarts(b, cursor) = {}
              THEN [emitted |-> <<>>,
                    buffer  |-> RetainPartialBeginString(SubSeq(b, cursor, Len(b)))]
              ELSE IF end.kind = "Incomplete"
              THEN [emitted |-> <<>>, buffer |-> SubSeq(b, i, Len(b))]
              ELSE IF end.kind = "Invalid"
              THEN from[i + 1]
              ELSE [from[end.end + 1] EXCEPT !.emitted = <<SubSeq(b, i, end.end)>> \o @]
    IN  from[1]

-----------------------------------------------------------------------------
(* The reference: what the messages of a byte string are, said of the      *)
(* string as a whole, without buffers, cursors or calls.                   *)

IsMessage(s, i, j) ==
    \E d \in i .. j :
        /\ StartsWith(s, i, BeginString)
        /\ s[d] = Delim /\ \A k \in i .. d - 1 : s[k] # Delim
        /\ d + 2 <= j /\ s[d + 2] = Delim
        /\ s[d + 1] \in DOMAIN BodyLength
        /\ j = d + 4 + BodyLength[s[d + 1]]
        /\ s[j - 1] = Trailer /\ s[j] = Delim

(* Bytes that more bytes may still turn into a message: a begin string cut *)
(* short, or one whose first two fields are not both there, or whose       *)
(* trailer is not.                                                         *)
IsOpen(s, i) ==
    \/ /\ Len(s) - i + 1 < Len(BeginString)
       /\ SubSeq(s, i, Len(s)) = SubSeq(BeginString, 1, Len(s) - i + 1)
    \/ /\ StartsWith(s, i, BeginString)
       /\ \A d \in i .. Len(s) :
             s[d] = Delim /\ (\A k \in i .. d - 1 : s[k] # Delim) =>
                 \/ \A k \in d + 1 .. Len(s) : s[k] # Delim
                 \/ /\ d + 2 <= Len(s) /\ s[d + 2] = Delim
                    /\ s[d + 1] \in DOMAIN BodyLength
                    /\ d + 4 + BodyLength[s[d + 1]] > Len(s)

(* The messages of s, and whether s ends in the middle of one.             *)
ReadWhole(s) ==
    LET from[i \in 1 .. Len(s) + 1] ==
          IF i > Len(s)           THEN [messages |-> <<>>, open |-> FALSE]
          ELSE IF IsOpen(s, i)    THEN [messages |-> <<>>, open |-> TRUE]
          ELSE IF \E j \in i .. Len(s) : IsMessage(s, i, j)
          THEN LET j == CHOOSE j \in i .. Len(s) : IsMessage(s, i, j)
               IN  [from[j + 1] EXCEPT !.messages = <<SubSeq(s, i, j)>> \o @]
          ELSE from[i + 1]
    IN  from[1]

Messages(s) == ReadWhole(s).messages
=============================================================================
