---------------------------- MODULE FramingProofs ----------------------------
(***************************************************************************)
(* What flush_complete_messages does with a buffer, for any bytes: it      *)
(* emits the messages the buffer contains, and cutting the bytes into      *)
(* several calls makes no difference.                                      *)
(***************************************************************************)
EXTENDS FixFraming, Induction, SequenceTheorems

(* The assumption, in the parts the proofs need.                           *)
BeginTokens == {BeginString[k] : k \in DOMAIN BeginString}

LEMMA BeginIs == BeginString \in Seq(BeginTokens) /\ Len(BeginString) \in Nat \ {0}
<1>1. BeginString \in Seq(BeginTokens) /\ BeginString # <<>>
  BY FramingAssumption DEF BeginTokens
<1> HIDE DEF BeginTokens
<1> QED
  BY <1>1, EmptySeq

LEMMA LengthsAre == \A t \in DOMAIN BodyLength : BodyLength[t] \in Nat
  BY FramingAssumption

LEMMA FrameIs == MinFrame \in Nat /\ MinFrame <= Len(BeginString) + 4
  BY FramingAssumption, BeginIs

(* The least of a set of positions.                                        *)
LEMMA LeastIs ==
  ASSUME NEW S, S \subseteq Nat, S # {}
  PROVE  Least(S) \in S /\ \A y \in S : Least(S) <= y
  BY LeastNumber DEF Least

LEMMA LeastIsThe ==
  ASSUME NEW S, S \subseteq Nat, NEW m \in S, \A y \in S : m <= y
  PROVE  Least(S) = m
<1>1. Least(S) \in S /\ Least(S) <= m
  BY LeastIs
<1>2. m <= Least(S)
  BY <1>1
<1>3. Least(S) \in Nat /\ m \in Nat
  BY <1>1
<1> QED
  BY <1>1, <1>2, <1>3

LEMMA DelimsAre ==
  ASSUME NEW T, NEW b \in Seq(T), NEW i \in Nat \ {0}
  PROVE  /\ Delims(b, i) \subseteq Nat
         /\ Delims(b, i) # {} => Least(Delims(b, i)) \in i .. Len(b)
<1>1. Delims(b, i) \subseteq Nat /\ Delims(b, i) \subseteq i .. Len(b)
  BY DEF Delims
<1> QED
  BY <1>1, LeastIs

(* Where a message ends.  The parts of find_message_end by name.           *)
LengthField(b, i) == Least(Delims(b, i)) + 1
LengthEnd(b, i)   == Least(Delims(b, LengthField(b, i)))
HasFields(b, i)   == Delims(b, i) # {} /\ Delims(b, LengthField(b, i)) # {}
Measured(b, i)    == /\ LengthEnd(b, i) = LengthField(b, i) + 1
                     /\ b[LengthField(b, i)] \in DOMAIN BodyLength
BodyEnd(b, i)     == LengthEnd(b, i) + 1 + BodyLength[b[LengthField(b, i)]]
Closed(b, i)      == b[BodyEnd(b, i)] = Trailer /\ b[BodyEnd(b, i) + 1] = Delim

LEMMA EndIs ==
  ASSUME NEW b, NEW i
  PROVE  FindMessageEnd(b, i) =
           IF Len(b) - i + 1 < MinFrame \/ ~HasFields(b, i) THEN Incomplete
           ELSE IF ~Measured(b, i) THEN Invalid
           ELSE IF BodyEnd(b, i) + 1 > Len(b) THEN Incomplete
           ELSE IF ~Closed(b, i) THEN Invalid
           ELSE Complete(BodyEnd(b, i) + 1)
  BY DEF FindMessageEnd, HasFields, LengthField, LengthEnd, Measured, BodyEnd, Closed

LEMMA FieldsAre ==
  ASSUME NEW T, NEW b \in Seq(T), NEW i \in Nat \ {0}, HasFields(b, i)
  PROVE  /\ LengthField(b, i) \in i + 1 .. Len(b)
         /\ LengthEnd(b, i) \in LengthField(b, i) .. Len(b)
         /\ Measured(b, i) => BodyEnd(b, i) \in LengthEnd(b, i) + 1 .. BodyEnd(b, i)
<1>1. Least(Delims(b, i)) \in i .. Len(b)
  BY DelimsAre DEF HasFields
<1>2. LengthField(b, i) \in Nat \ {0} /\ LengthField(b, i) >= i + 1
  BY <1>1 DEF LengthField
<1>3. LengthEnd(b, i) \in LengthField(b, i) .. Len(b)
  BY <1>2, DelimsAre DEF HasFields, LengthEnd
<1>4. Measured(b, i) => BodyLength[b[LengthField(b, i)]] \in Nat
  BY LengthsAre DEF Measured
<1> QED
  BY <1>2, <1>3, <1>4 DEF BodyEnd

LEMMA EndBounds ==
  ASSUME NEW T, NEW b \in Seq(T), NEW i \in Nat \ {0}
  PROVE  LET end == FindMessageEnd(b, i)
         IN  \/ end = Incomplete \/ end = Invalid
             \/ /\ end = Complete(end.end) /\ end.end \in i + 3 .. Len(b)
<1>1. CASE HasFields(b, i) /\ Measured(b, i) /\ ~(BodyEnd(b, i) + 1 > Len(b))
  <2>1. BodyEnd(b, i) + 1 \in i + 3 .. Len(b)
    BY <1>1, FieldsAre DEF Measured
  <2> QED
    BY <1>1, <2>1, EndIs DEF Complete
<1> QED
  BY <1>1, EndIs

-----------------------------------------------------------------------------
(* One step of the scan, and the scan: it is defined by recursion towards  *)
(* the end of the buffer, so a function that follows the step exists.      *)
First(b, cursor) == Least(MessageStarts(b, cursor))

FlushAt(b, g, cursor) ==
    LET i   == First(b, cursor)
        end == FindMessageEnd(b, i)
    IN  IF MessageStarts(b, cursor) = {}
        THEN [emitted |-> <<>>, buffer |-> RetainPartialBeginString(SubSeq(b, cursor, Len(b)))]
        ELSE IF end.kind = "Incomplete"
        THEN [emitted |-> <<>>, buffer |-> SubSeq(b, i, Len(b))]
        ELSE IF end.kind = "Invalid"
        THEN g[i + 1]
        ELSE [g[end.end + 1] EXCEPT !.emitted = <<SubSeq(b, i, end.end)>> \o @]

FlushRule(b, g) == [cursor \in 1 .. Len(b) + 1 |-> FlushAt(b, g, cursor)]
Flush(b) == CHOOSE g : g = FlushRule(b, g)
Flushed(T) == [emitted : Seq(Seq(T)), buffer : Seq(T)]

LEMMA FlushIs ==
  ASSUME NEW b
  PROVE  FlushCompleteMessages(b) = Flush(b)[1]
  BY DEF FlushCompleteMessages, Flush, FlushRule, FlushAt, First

LEMMA StartsAre ==
  ASSUME NEW T, NEW b \in Seq(T), NEW cursor \in Nat \ {0}
  PROVE  /\ MessageStarts(b, cursor) \subseteq cursor .. Len(b)
         /\ MessageStarts(b, cursor) # {} =>
               /\ First(b, cursor) \in cursor .. Len(b)
               /\ First(b, cursor) \in MessageStarts(b, cursor)
               /\ \A i \in MessageStarts(b, cursor) : First(b, cursor) <= i
<1>1. MessageStarts(b, cursor) \subseteq cursor .. Len(b)
  BY DEF MessageStarts
<1>2. MessageStarts(b, cursor) \subseteq Nat
  BY <1>1
<1> QED
  BY <1>1, <1>2, LeastIs DEF First

(* A step looks only at what comes behind it.                              *)
LEMMA FlushLooksAhead ==
  ASSUME NEW T, NEW b \in Seq(T), NEW cursor \in 1 .. Len(b) + 1, NEW g, NEW h,
         \A i \in cursor + 1 .. Len(b) + 1 : g[i] = h[i]
  PROVE  FlushAt(b, g, cursor) = FlushAt(b, h, cursor)
<1> DEFINE i == First(b, cursor)
           end == FindMessageEnd(b, i)
<1>1. CASE MessageStarts(b, cursor) # {} /\ end.kind # "Incomplete"
  <2>1. i \in cursor .. Len(b)
    BY <1>1, StartsAre
  <2>2. end = Invalid \/ (end = Complete(end.end) /\ end.end \in i + 3 .. Len(b))
    BY <1>1, <2>1, EndBounds DEF Incomplete
  <2>3. g[i + 1] = h[i + 1]
    BY <2>1
  <2>4. end.kind # "Invalid" => g[end.end + 1] = h[end.end + 1]
    BY <2>1, <2>2 DEF Invalid
  <2> HIDE DEF i
  <2> QED
    BY <2>3, <2>4 DEF FlushAt, i
<1> QED
  BY <1>1 DEF FlushAt

LEMMA FlushExists ==
  ASSUME NEW T, NEW b \in Seq(T)
  PROVE  \E g : g = FlushRule(b, g)
<1> DEFINE N == Len(b) + 1
           Follows(g, n) == \A c \in 1 .. N : c > N - n => g[c] = FlushAt(b, g, c)
           S == {n \in Nat : n <= N => \E g : Follows(g, n)}
<1>0. N \in Nat
  OBVIOUS
<1>1. 0 \in S
  BY <1>0
<1>2. ASSUME NEW n \in Nat, n \in S PROVE n + 1 \in S
  <2> SUFFICES ASSUME n + 1 <= N PROVE \E g : Follows(g, n + 1)
    OBVIOUS
  <2>1. PICK g : Follows(g, n)
    BY <1>0, <1>2
  <2> DEFINE c0 == N - n
             h == [c \in 1 .. N |-> IF c = c0 THEN FlushAt(b, g, c0) ELSE g[c]]
  <2>2. ASSUME NEW c \in 1 .. N, c > N - (n + 1) PROVE h[c] = FlushAt(b, h, c)
    <3>1. \A k \in c + 1 .. N : g[k] = h[k]
      BY <1>0, <2>2
    <3> HIDE DEF h, N
    <3>2. FlushAt(b, g, c) = FlushAt(b, h, c)
      BY <3>1, FlushLooksAhead DEF N
    <3>3. c = c0 => h[c] = FlushAt(b, g, c)
      BY DEF h
    <3>4. c # c0 => h[c] = g[c] /\ c > N - n
      BY <1>0, <2>2 DEF h
    <3> QED
      BY <2>1, <3>2, <3>3, <3>4
  <2> HIDE DEF h
  <2> QED
    BY <2>2
<1> HIDE DEF S
<1>3. \A n \in Nat : n \in S
  BY <1>1, <1>2, UpwardInduction
<1>4. PICK g : Follows(g, N)
  BY <1>0, <1>3 DEF S
<1> DEFINE f == [c \in 1 .. N |-> g[c]]
<1>5. ASSUME NEW c \in 1 .. N PROVE f[c] = FlushAt(b, f, c)
  <2>1. \A k \in c + 1 .. N : g[k] = f[k]
    BY <1>0
  <2>2. f[c] = g[c] /\ c > N - N
    BY <1>0
  <2> HIDE DEF f
  <2>3. FlushAt(b, g, c) = FlushAt(b, f, c)
    BY <2>1, FlushLooksAhead
  <2> QED
    BY <1>4, <2>2, <2>3
<1>6. f = FlushRule(b, f)
  BY <1>5 DEF FlushRule
<1> QED
  BY <1>6

LEMMA FlushFollows ==
  ASSUME NEW T, NEW b \in Seq(T)
  PROVE  \A c \in 1 .. Len(b) + 1 : Flush(b)[c] = FlushAt(b, Flush(b), c)
<1>1. Flush(b) = FlushRule(b, Flush(b))
  BY FlushExists DEF Flush
<1> QED
  BY <1>1 DEF FlushRule

(* The four outcomes of a scan that begins at c.                           *)
NothingFrom(b, c) ==
    /\ MessageStarts(b, c) = {}
    /\ Flush(b)[c] = [emitted |-> <<>>,
                      buffer |-> RetainPartialBeginString(SubSeq(b, c, Len(b)))]
OpenFrom(b, c, i) ==
    /\ FindMessageEnd(b, i) = Incomplete
    /\ Flush(b)[c] = [emitted |-> <<>>, buffer |-> SubSeq(b, i, Len(b))]
InvalidFrom(b, c, i) ==
    /\ FindMessageEnd(b, i) = Invalid
    /\ Flush(b)[c] = Flush(b)[i + 1]
MessageFrom(b, c, i, e) ==
    /\ FindMessageEnd(b, i) = Complete(e)
    /\ Flush(b)[c] = [Flush(b)[e + 1] EXCEPT !.emitted = <<SubSeq(b, i, e)>> \o @]

LEMMA FlushCases ==
  ASSUME NEW T, NEW b \in Seq(T), NEW c \in 1 .. Len(b) + 1
  PROVE  \/ NothingFrom(b, c)
         \/ \E i \in c .. Len(b) :
              /\ i = First(b, c) /\ i \in MessageStarts(b, c)
              /\ \A j \in MessageStarts(b, c) : i <= j
              /\ \/ OpenFrom(b, c, i)
                 \/ InvalidFrom(b, c, i)
                 \/ \E e \in i + 3 .. Len(b) : MessageFrom(b, c, i, e)
<1>1. Flush(b)[c] = FlushAt(b, Flush(b), c)
  BY FlushFollows
<1>2. CASE MessageStarts(b, c) = {}
  BY <1>1, <1>2 DEF FlushAt, NothingFrom
<1>3. CASE MessageStarts(b, c) # {}
  <2>1. PICK i \in c .. Len(b) :
          /\ i = First(b, c) /\ i \in MessageStarts(b, c)
          /\ \A j \in MessageStarts(b, c) : i <= j
    BY <1>3, StartsAre
  <2>2. LET end == FindMessageEnd(b, i)
        IN  Flush(b)[c] = IF end.kind = "Incomplete"
                          THEN [emitted |-> <<>>, buffer |-> SubSeq(b, i, Len(b))]
                          ELSE IF end.kind = "Invalid" THEN Flush(b)[i + 1]
                          ELSE [Flush(b)[end.end + 1] EXCEPT
                                  !.emitted = <<SubSeq(b, i, end.end)>> \o @]
    BY <1>1, <1>3, <2>1 DEF FlushAt
  <2>3. LET end == FindMessageEnd(b, i)
        IN  \/ end = Incomplete \/ end = Invalid
            \/ end = Complete(end.end) /\ end.end \in i + 3 .. Len(b)
    BY EndBounds
  <2>4. FindMessageEnd(b, i) = Incomplete => OpenFrom(b, c, i)
    BY <2>2 DEF OpenFrom, Incomplete
  <2>5. FindMessageEnd(b, i) = Invalid => InvalidFrom(b, c, i)
    BY <2>2 DEF InvalidFrom, Invalid
  <2>6. ASSUME NEW e \in i + 3 .. Len(b), FindMessageEnd(b, i) = Complete(e)
        PROVE  MessageFrom(b, c, i, e)
    BY <2>2, <2>6 DEF MessageFrom, Complete
  <2> QED
    BY <2>1, <2>3, <2>4, <2>5, <2>6
<1> QED
  BY <1>2, <1>3

(* What is kept of bytes without a begin string: the longest proper prefix *)
(* of one at their end.                                                    *)
Keeps(b, n) == /\ n \in 0 .. Len(BeginString) - 1 /\ n <= Len(b)
               /\ SubSeq(b, Len(b) - n + 1, Len(b)) = SubSeq(BeginString, 1, n)

LEMMA RetainedIs ==
  ASSUME NEW T, NEW b \in Seq(T)
  PROVE  \E n \in 0 .. Len(b) :
            /\ Keeps(b, n) /\ \A m \in 0 .. Len(b) : Keeps(b, m) => m <= n
            /\ RetainPartialBeginString(b) = SubSeq(b, Len(b) - n + 1, Len(b))
<1> DEFINE S == {n \in 0 .. Len(BeginString) - 1 :
                   n <= Len(b) /\ SubSeq(b, Len(b) - n + 1, Len(b)) = SubSeq(BeginString, 1, n)}
           P(n) == \A m \in S : m <= n
           T2 == {Len(b) - n : n \in S}
<1>0. Len(b) \in Nat /\ Len(BeginString) \in Nat /\ Len(BeginString) > 0
  BY BeginIs
<1>1. 0 \in S
  <2>1. SubSeq(b, Len(b) + 1, Len(b)) = <<>> /\ SubSeq(BeginString, 1, 0) = <<>>
    BY <1>0, SubSeqEmpty
  <2> QED
    BY <1>0, <2>1
<1>2. S \subseteq Nat /\ \A n \in S : n <= Len(b)
  BY <1>0
<1>3. PICK n \in S : P(n)
  <2>1. T2 \subseteq Nat /\ T2 # {}
    BY <1>0, <1>1, <1>2
  <2>2. PICK t \in T2 : \A y \in T2 : t <= y
    BY <2>1, LeastNumber
  <2>3. PICK n \in S : t = Len(b) - n
    BY <2>2
  <2>4. ASSUME NEW m \in S PROVE m <= n
    <3>1. t <= Len(b) - m
      BY <2>2
    <3> QED
      BY <1>0, <1>2, <2>3, <3>1
  <2> QED
    BY <2>4
<1>4. (CHOOSE k \in S : \A m \in S : m <= k) = n
  <2>1. ASSUME NEW k \in S, \A m \in S : m <= k PROVE k = n
    BY <1>2, <1>3, <2>1
  <2> QED
    BY <1>3, <2>1
<1>5. RetainPartialBeginString(b) = SubSeq(b, Len(b) - n + 1, Len(b))
  BY <1>4 DEF RetainPartialBeginString
<1>6. Keeps(b, n) /\ \A m \in 0 .. Len(b) : Keeps(b, m) => m <= n
  BY <1>3 DEF Keeps
<1> QED
  BY <1>2, <1>5, <1>6

LEMMA FlushTyped ==
  ASSUME NEW T, NEW b \in Seq(T)
  PROVE  \A c \in 1 .. Len(b) + 1 :
            /\ Flush(b)[c] \in Flushed(T)
            /\ Len(Flush(b)[c].buffer) <= Len(b) + 1 - c
<1> DEFINE N == Len(b) + 1
           S == {c \in 1 .. N : /\ Flush(b)[c] \in Flushed(T)
                                /\ Len(Flush(b)[c].buffer) <= Len(b) + 1 - c}
<1>0. <<>> \in Seq(Seq(T)) /\ N \in Nat
  OBVIOUS
<1>1. ASSUME NEW i \in Int, NEW j \in Int, i >= 1, j <= Len(b)
      PROVE  SubSeq(b, i, j) \in Seq(T) /\ Len(SubSeq(b, i, j)) = IF i <= j THEN j - i + 1 ELSE 0
  <2>1. \A k \in i .. j : b[k] \in T
    BY <1>1
  <2> QED
    BY <2>1, SubSeqProperties
<1>2. ASSUME NEW c \in 1 .. N, \A k \in c + 1 .. N : k \in S PROVE c \in S
  <2>1. CASE NothingFrom(b, c)
    <3>1. PICK x : x = SubSeq(b, c, Len(b))
      OBVIOUS
    <3>2. x \in Seq(T) /\ Len(x) = Len(b) + 1 - c
      BY <1>1, <3>1
    <3>3. PICK n \in 0 .. Len(x) : RetainPartialBeginString(x) = SubSeq(x, Len(x) - n + 1, Len(x))
      BY <3>2, RetainedIs
    <3>4. \A k \in Len(x) - n + 1 .. Len(x) : x[k] \in T
      BY <3>2
    <3>5. SubSeq(x, Len(x) - n + 1, Len(x)) \in Seq(T)
          /\ Len(SubSeq(x, Len(x) - n + 1, Len(x))) <= Len(x)
      BY <3>2, <3>4, SubSeqProperties
    <3>6. PICK y : y = RetainPartialBeginString(x)
      OBVIOUS
    <3>7. y \in Seq(T) /\ Len(y) <= Len(b) + 1 - c
      BY <3>2, <3>3, <3>5, <3>6
    <3>8. Flush(b)[c] \in Flushed(T) /\ Flush(b)[c].buffer = y
      BY <2>1, <3>1, <3>6, <3>7, <1>0 DEF NothingFrom, Flushed
    <3> QED
      BY <3>7, <3>8
  <2>2. ASSUME NEW i \in c .. Len(b), OpenFrom(b, c, i) PROVE c \in S
    <3>1. SubSeq(b, i, Len(b)) \in Seq(T) /\ Len(SubSeq(b, i, Len(b))) <= Len(b) + 1 - c
      BY <1>1
    <3>2. Flush(b)[c] \in Flushed(T) /\ Flush(b)[c].buffer = SubSeq(b, i, Len(b))
      BY <2>2, <3>1, <1>0 DEF OpenFrom, Flushed
    <3> QED
      BY <3>1, <3>2
  <2>3. ASSUME NEW i \in c .. Len(b), InvalidFrom(b, c, i) PROVE c \in S
    BY <1>2, <2>3 DEF InvalidFrom, Flushed
  <2>4. ASSUME NEW i \in c .. Len(b), NEW e \in i + 3 .. Len(b), MessageFrom(b, c, i, e)
        PROVE  c \in S
    <3>1. e + 1 \in S /\ e + 1 > c
      BY <1>2
    <3>2. SubSeq(b, i, e) \in Seq(T)
      BY <1>1
    <3>3. <<SubSeq(b, i, e)>> \o Flush(b)[e + 1].emitted \in Seq(Seq(T))
      BY <3>1, <3>2, ConcatProperties DEF Flushed
    <3>4. PICK m : m = <<SubSeq(b, i, e)>> \o Flush(b)[e + 1].emitted
      OBVIOUS
    <3>5. Flush(b)[c] = [Flush(b)[e + 1] EXCEPT !.emitted = m]
      BY <2>4, <3>4 DEF MessageFrom
    <3>6. PICK r \in Flushed(T) : r = Flush(b)[e + 1] /\ Len(r.buffer) <= Len(b) + 1 - (e + 1)
      BY <3>1
    <3>7. Flush(b)[c] \in Flushed(T) /\ Flush(b)[c].buffer = r.buffer
      BY <3>3, <3>4, <3>5, <3>6 DEF Flushed
    <3>8. r.buffer \in Seq(T)
      BY <3>6 DEF Flushed
    <3> QED
      BY <3>6, <3>7, <3>8
  <2> QED
    BY <2>1, <2>2, <2>3, <2>4, FlushCases
<1> HIDE DEF S, N
<1>3. \A c \in 1 .. N : c \in S
  BY <1>0, <1>2, DownwardInduction
<1> QED
  BY <1>3 DEF S, N

-----------------------------------------------------------------------------
(* The bytes of b are found in d from position k + 1 on.                   *)
Within(b, d, k) == /\ k \in Nat /\ k + Len(b) <= Len(d)
                   /\ \A j \in 1 .. Len(b) : d[k + j] = b[j]

LEMMA LeastDelimMoves ==
  ASSUME NEW T, NEW b \in Seq(T), NEW d \in Seq(T), NEW k, Within(b, d, k),
         NEW i \in Nat \ {0}, Delims(b, i) # {}
  PROVE  Delims(d, k + i) # {} /\ Least(Delims(d, k + i)) = k + Least(Delims(b, i))
<1>1. PICK m : m = Least(Delims(b, i))
  OBVIOUS
<1>2. m \in i .. Len(b) /\ m \in Delims(b, i) /\ \A y \in Delims(b, i) : m <= y
  BY <1>1, DelimsAre, LeastIs
<1>3. k + m \in Delims(d, k + i)
  BY <1>2 DEF Delims, Within
<1>4. ASSUME NEW y \in Delims(d, k + i) PROVE k + m <= y
  <2>1. y \in k + i .. Len(d) /\ d[y] = Delim
    BY <1>4 DEF Delims
  <2>2. SUFFICES ASSUME y < k + m PROVE FALSE
    BY <1>2, <2>1 DEF Within
  <2>3. PICK j \in i .. Len(b) : y = k + j /\ j < m
    <3>1. y - k \in i .. Len(b) /\ y = k + (y - k) /\ y - k < m
      BY <1>2, <2>1, <2>2 DEF Within
    <3> QED
      BY <3>1
  <2>4. b[j] = d[y]
    BY <2>3 DEF Within
  <2>5. j \in Delims(b, i)
    BY <2>1, <2>3, <2>4 DEF Delims
  <2> QED
    BY <1>2, <2>3, <2>5
<1>5. Delims(d, k + i) \subseteq Nat
  BY DEF Delims, Within
<1>6. Least(Delims(d, k + i)) = k + m
  BY <1>3, <1>4, <1>5, LeastIsThe
<1> QED
  BY <1>1, <1>3, <1>6

LEMMA FieldsMove ==
  ASSUME NEW T, NEW b \in Seq(T), NEW d \in Seq(T), NEW k, Within(b, d, k),
         NEW i \in Nat \ {0}, HasFields(b, i)
  PROVE  /\ HasFields(d, k + i)
         /\ LengthField(d, k + i) = k + LengthField(b, i)
         /\ LengthEnd(d, k + i) = k + LengthEnd(b, i)
         /\ Measured(d, k + i) <=> Measured(b, i)
         /\ Measured(b, i) => BodyEnd(d, k + i) = k + BodyEnd(b, i)
<1>1. k \in Nat
  BY DEF Within
<1>2. Delims(d, k + i) # {} /\ Least(Delims(d, k + i)) = k + Least(Delims(b, i))
  BY LeastDelimMoves DEF HasFields
<1>3. PICK l \in i + 1 .. Len(b) : l = LengthField(b, i)
  BY FieldsAre
<1>4. LengthField(d, k + i) = k + l
  <2>1. PICK m \in i .. Len(b) : m = Least(Delims(b, i))
    BY DelimsAre DEF HasFields
  <2>2. l = m + 1 /\ LengthField(d, k + i) = (k + m) + 1
    BY <1>2, <1>3, <2>1 DEF LengthField
  <2> QED
    BY <1>1, <2>1, <2>2
<1>5. l \in Nat \ {0} /\ Delims(b, l) # {}
  BY <1>3 DEF HasFields
<1>6. Delims(d, k + l) # {} /\ Least(Delims(d, k + l)) = k + Least(Delims(b, l))
  BY <1>5, LeastDelimMoves
<1>7. PICK e \in l .. Len(b) : e = LengthEnd(b, i)
  BY <1>3, FieldsAre
<1>8. LengthEnd(d, k + i) = k + e
  BY <1>3, <1>4, <1>6, <1>7 DEF LengthEnd
<1>9. HasFields(d, k + i)
  BY <1>2, <1>4, <1>6 DEF HasFields
<1>10. d[k + l] = b[l]
  BY <1>3 DEF Within
<1>11. Measured(d, k + i) <=> Measured(b, i)
  <2>1. k + e = k + l + 1 <=> e = l + 1
    BY <1>1
  <2> QED
    BY <1>3, <1>4, <1>7, <1>8, <1>10, <2>1 DEF Measured
<1>12. Measured(b, i) => BodyEnd(d, k + i) = k + BodyEnd(b, i)
  <2> SUFFICES ASSUME Measured(b, i) PROVE BodyEnd(d, k + i) = k + BodyEnd(b, i)
    OBVIOUS
  <2>1. PICK n \in Nat : n = BodyLength[b[l]]
    BY <1>3, LengthsAre DEF Measured
  <2>2. BodyEnd(b, i) = e + 1 + n /\ BodyEnd(d, k + i) = k + e + 1 + n
    BY <1>3, <1>4, <1>7, <1>8, <1>10, <2>1 DEF BodyEnd
  <2> QED
    BY <1>1, <2>2
<1> QED
  BY <1>3, <1>4, <1>7, <1>8, <1>9, <1>11, <1>12

(* More bytes change nothing about a message that is whole or is none; nor *)
(* does it matter where in the buffer it lies.                             *)
LEMMA EndMoves ==
  ASSUME NEW T, NEW b \in Seq(T), NEW d \in Seq(T), NEW k, Within(b, d, k),
         NEW i \in 1 .. Len(b), FindMessageEnd(b, i) # Incomplete
  PROVE  /\ FindMessageEnd(b, i) = Invalid => FindMessageEnd(d, k + i) = Invalid
         /\ \A e \in Nat : FindMessageEnd(b, i) = Complete(e) =>
                                FindMessageEnd(d, k + i) = Complete(k + e)
<1>1. k \in Nat /\ MinFrame \in Nat
  BY FrameIs DEF Within
<1>2. HasFields(b, i) /\ ~(Len(b) - i + 1 < MinFrame)
  BY EndIs
<1>3. /\ HasFields(d, k + i)
      /\ Measured(d, k + i) <=> Measured(b, i)
      /\ Measured(b, i) => BodyEnd(d, k + i) = k + BodyEnd(b, i)
  BY <1>2, FieldsMove
<1>4. ~(Len(d) - (k + i) + 1 < MinFrame)
  BY <1>1, <1>2 DEF Within
<1>5. CASE ~Measured(b, i)
  BY <1>2, <1>3, <1>4, <1>5, EndIs DEF Complete, Invalid, Incomplete
<1>6. CASE Measured(b, i)
  <2>1. PICK m : m = BodyEnd(b, i)
    OBVIOUS
  <2>2. m \in Nat /\ m > 1
    BY <1>2, <1>6, <2>1, FieldsAre DEF Measured
  <2>3. m + 1 <= Len(b)
    BY <1>2, <1>6, <2>1, <2>2, EndIs
  <2>4. d[k + m] = b[m] /\ d[k + m + 1] = b[m + 1]
    <3>1. m \in 1 .. Len(b) /\ m + 1 \in 1 .. Len(b) /\ k + m + 1 = k + (m + 1)
      BY <1>1, <2>2, <2>3
    <3> QED
      BY <3>1 DEF Within
  <2>5. BodyEnd(d, k + i) = k + m /\ ~(k + m + 1 > Len(d))
    BY <1>1, <1>3, <1>6, <2>1, <2>2, <2>3 DEF Within
  <2>6. Closed(d, k + i) <=> Closed(b, i)
    BY <2>1, <2>4, <2>5 DEF Closed
  <2>7. FindMessageEnd(b, i) = IF ~Closed(b, i) THEN Invalid ELSE Complete(m + 1)
    BY <1>2, <1>6, <2>1, <2>2, <2>3, EndIs
  <2>8. FindMessageEnd(d, k + i) = IF ~Closed(b, i) THEN Invalid ELSE Complete(k + m + 1)
    BY <1>3, <1>4, <1>6, <2>5, <2>6, EndIs
  <2>9. k + m + 1 = k + (m + 1)
    BY <1>1, <2>2
  <2> QED
    BY <2>7, <2>8, <2>9 DEF Complete, Invalid
<1> QED
  BY <1>5, <1>6

LEMMA FieldsStay ==
  ASSUME NEW T, NEW b \in Seq(T), NEW d \in Seq(T), NEW k, Within(b, d, k),
         Len(d) = k + Len(b), NEW i \in Nat \ {0}
  PROVE  /\ Delims(d, k + i) # {} => Delims(b, i) # {}
         /\ HasFields(d, k + i) => HasFields(b, i)
<1>1. ASSUME NEW h \in Nat \ {0}, Delims(d, k + h) # {} PROVE Delims(b, h) # {}
  <2>1. PICK y \in Delims(d, k + h) : TRUE
    BY <1>1
  <2>2. y - k \in h .. Len(b) /\ k + (y - k) = y /\ d[y] = Delim
    BY <2>1 DEF Delims, Within
  <2>3. b[y - k] = d[y]
    BY <2>2 DEF Within
  <2>4. y - k \in Delims(b, h)
    BY <2>2, <2>3 DEF Delims
  <2> QED
    BY <2>4
<1>2. ASSUME HasFields(d, k + i) PROVE HasFields(b, i)
  <2>1. Delims(b, i) # {}
    BY <1>1, <1>2 DEF HasFields
  <2>2. LengthField(d, k + i) = k + LengthField(b, i) /\ LengthField(b, i) \in Nat \ {0}
    <3>1. Least(Delims(b, i)) \in i .. Len(b)
      BY <2>1, DelimsAre
    <3>2. Least(Delims(d, k + i)) = k + Least(Delims(b, i))
      BY <2>1, LeastDelimMoves
    <3> QED
      BY <3>1, <3>2 DEF LengthField, Within
  <2>3. Delims(b, LengthField(b, i)) # {}
    BY <1>1, <1>2, <2>2 DEF HasFields
  <2> QED
    BY <2>1, <2>3 DEF HasFields
<1> QED
  BY <1>1, <1>2

LEMMA EndStays ==
  ASSUME NEW T, NEW b \in Seq(T), NEW d \in Seq(T), NEW k, Within(b, d, k),
         Len(d) = k + Len(b), NEW i \in 1 .. Len(b), FindMessageEnd(b, i) = Incomplete
  PROVE  FindMessageEnd(d, k + i) = Incomplete
<1>1. k \in Nat /\ MinFrame \in Nat
  BY FrameIs DEF Within
<1>2. Len(d) - (k + i) + 1 = Len(b) - i + 1
  BY <1>1
<1>3. CASE Len(b) - i + 1 < MinFrame \/ ~HasFields(b, i)
  BY <1>2, <1>3, FieldsStay, EndIs
<1>4. CASE ~(Len(b) - i + 1 < MinFrame) /\ HasFields(b, i)
  <2>1. Measured(b, i) /\ BodyEnd(b, i) + 1 > Len(b)
    BY <1>4, EndIs DEF Incomplete, Invalid, Complete
  <2>2. HasFields(d, k + i) /\ Measured(d, k + i) /\ BodyEnd(d, k + i) = k + BodyEnd(b, i)
    BY <1>4, <2>1, FieldsMove
  <2>3. BodyEnd(b, i) \in Nat
    BY <1>4, <2>1, FieldsAre DEF Measured
  <2>4. BodyEnd(d, k + i) + 1 > Len(d)
    BY <1>1, <2>1, <2>2, <2>3
  <2> QED
    BY <2>2, <2>4, EndIs
<1> QED
  BY <1>3, <1>4

-----------------------------------------------------------------------------
(* A begin string may begin at i, as far as the bytes go.  Every scan ends *)
(* at the first such place, which may be the end of the buffer.            *)
Candidate(b, i) ==
    \A m \in 1 .. Len(BeginString) : i + m - 1 <= Len(b) => b[i + m - 1] = BeginString[m]

LEMMA SubSeqIs ==
  ASSUME NEW T, NEW b \in Seq(T), NEW i \in Int, NEW j \in Int, i >= 1, j <= Len(b)
  PROVE  /\ SubSeq(b, i, j) \in Seq(T)
         /\ Len(SubSeq(b, i, j)) = IF i <= j THEN j - i + 1 ELSE 0
         /\ \A m \in 1 .. j - i + 1 : SubSeq(b, i, j)[m] = b[i + m - 1]
<1>1. \A k \in i .. j : b[k] \in T
  OBVIOUS
<1> QED
  BY <1>1, SubSeqProperties

LEMMA StartsIff ==
  ASSUME NEW T, NEW b \in Seq(T), NEW i \in Nat \ {0}
  PROVE  StartsWith(b, i, BeginString) <=>
            Candidate(b, i) /\ i + Len(BeginString) - 1 <= Len(b)
<1> DEFINE L == Len(BeginString)
<1>1. L \in Nat \ {0} /\ BeginString \in Seq(BeginTokens)
  BY BeginIs
<1> SUFFICES ASSUME i + L - 1 <= Len(b)
             PROVE  SubSeq(b, i, i + L - 1) = BeginString <=> Candidate(b, i)
  BY <1>1 DEF StartsWith
<1>2. PICK x : x = SubSeq(b, i, i + L - 1)
  OBVIOUS
<1>3. x \in Seq(T) /\ Len(x) = L /\ \A m \in 1 .. L : x[m] = b[i + m - 1]
  <2>1. (i + L - 1) - i + 1 = L
    BY <1>1
  <2> QED
    BY <1>1, <1>2, <2>1, SubSeqIs
<1>4. ASSUME x = BeginString PROVE Candidate(b, i)
  BY <1>3, <1>4 DEF Candidate
<1>5. ASSUME Candidate(b, i) PROVE x = BeginString
  <2>1. \A m \in 1 .. L : x[m] = BeginString[m]
    BY <1>1, <1>3, <1>5 DEF Candidate
  <2>2. x \in Seq(T \cup BeginTokens) /\ BeginString \in Seq(T \cup BeginTokens)
    BY <1>1, <1>3, SeqMonotonic
  <2> QED
    BY <1>1, <1>3, <2>1, <2>2, SeqEqual
<1> QED
  BY <1>2, <1>4, <1>5

LEMMA KeepsIff ==
  ASSUME NEW T, NEW b \in Seq(T), NEW n \in 0 .. Len(b)
  PROVE  Keeps(b, n) <=> n < Len(BeginString) /\ Candidate(b, Len(b) - n + 1)
<1>1. Len(BeginString) \in Nat \ {0} /\ BeginString \in Seq(BeginTokens) /\ Len(b) \in Nat
  BY BeginIs
<1> SUFFICES ASSUME n < Len(BeginString)
             PROVE  SubSeq(b, Len(b) - n + 1, Len(b)) = SubSeq(BeginString, 1, n)
                      <=> Candidate(b, Len(b) - n + 1)
  BY <1>1 DEF Keeps
<1>2. PICK x, y, i : /\ x = SubSeq(b, Len(b) - n + 1, Len(b)) /\ y = SubSeq(BeginString, 1, n)
                     /\ i = Len(b) - n + 1
  OBVIOUS
<1>3. x \in Seq(T) /\ Len(x) = n /\ \A m \in 1 .. n : x[m] = b[i + m - 1]
  <2>1. /\ x = SubSeq(b, i, Len(b)) /\ i \in Int /\ i >= 1
        /\ Len(b) - i + 1 = n /\ (i <= Len(b) <=> n # 0)
    BY <1>1, <1>2
  <2> QED
    BY <1>1, <2>1, SubSeqIs
<1>4. y \in Seq(BeginTokens) /\ Len(y) = n /\ \A m \in 1 .. n : y[m] = BeginString[m]
  BY <1>1, <1>2, SubSeqIs
<1>5. Candidate(b, i) <=> \A m \in 1 .. n : b[i + m - 1] = BeginString[m]
  BY <1>1, <1>2 DEF Candidate
<1>6. (\A m \in 1 .. n : x[m] = y[m]) => x = y
  <2>1. x \in Seq(T \cup BeginTokens) /\ y \in Seq(T \cup BeginTokens)
    BY <1>3, <1>4, SeqMonotonic
  <2> QED
    BY <1>3, <1>4, <2>1, SeqEqual
<1> QED
  BY <1>2, <1>3, <1>4, <1>5, <1>6

LEMMA SuffixOfSuffix ==
  ASSUME NEW T, NEW b \in Seq(T), NEW c \in 1 .. Len(b) + 1, NEW n \in 0 .. Len(b) + 1 - c,
         NEW x, x = SubSeq(b, c, Len(b))
  PROVE  SubSeq(x, Len(x) - n + 1, Len(x)) = SubSeq(b, Len(b) - n + 1, Len(b))
<1>1. x \in Seq(T) /\ Len(x) = Len(b) + 1 - c /\ \A m \in 1 .. Len(x) : x[m] = b[c + m - 1]
  BY SubSeqIs
<1>2. PICK y, z : /\ y = SubSeq(x, Len(x) - n + 1, Len(x))
                  /\ z = SubSeq(b, Len(b) - n + 1, Len(b))
  OBVIOUS
<1>3. y \in Seq(T) /\ Len(y) = n /\ \A m \in 1 .. n : y[m] = x[Len(x) - n + m]
  BY <1>1, <1>2, SubSeqIs
<1>4. z \in Seq(T) /\ Len(z) = n /\ \A m \in 1 .. n : z[m] = b[Len(b) - n + m]
  BY <1>2, SubSeqIs
<1>5. ASSUME NEW m \in 1 .. n PROVE y[m] = z[m]
  <2>1. Len(x) - n + m \in 1 .. Len(x) /\ c + (Len(x) - n + m) - 1 = Len(b) - n + m
    BY <1>1
  <2> QED
    BY <1>1, <1>3, <1>4, <2>1
<1> QED
  BY <1>2, <1>3, <1>4, <1>5, SeqEqual

LEMMA CandidateOfSuffix ==
  ASSUME NEW T, NEW b \in Seq(T), NEW c \in 1 .. Len(b) + 1, NEW x, x = SubSeq(b, c, Len(b)),
         NEW i \in 1 .. Len(x) + 1
  PROVE  Candidate(x, i) <=> Candidate(b, c + i - 1)
<1>1. x \in Seq(T) /\ Len(x) = Len(b) + 1 - c /\ \A m \in 1 .. Len(x) : x[m] = b[c + m - 1]
  BY SubSeqIs
<1>2. ASSUME NEW m \in 1 .. Len(BeginString)
      PROVE  /\ i + m - 1 <= Len(x) <=> (c + i - 1) + m - 1 <= Len(b)
             /\ i + m - 1 <= Len(x) => x[i + m - 1] = b[(c + i - 1) + m - 1]
  <2>1. i + m - 1 <= Len(x) => i + m - 1 \in 1 .. Len(x)
                              /\ c + (i + m - 1) - 1 = (c + i - 1) + m - 1
    BY <1>1, BeginIs
  <2> QED
    BY <1>1, <2>1, BeginIs
<1> QED
  BY <1>2 DEF Candidate

(* Whether there is a message at a candidate: more bytes may be needed.    *)
Verdict(b, s) == IF s + Len(BeginString) - 1 > Len(b) THEN Incomplete ELSE FindMessageEnd(b, s)

ScanAt(b, s) ==
    IF Verdict(b, s) = Incomplete THEN [emitted |-> <<>>, buffer |-> SubSeq(b, s, Len(b))]
    ELSE IF Verdict(b, s) = Invalid THEN Flush(b)[s + 1]
    ELSE LET e == Verdict(b, s).end
         IN  [Flush(b)[e + 1] EXCEPT !.emitted = <<SubSeq(b, s, e)>> \o @]

(* The first candidate from c on.                                          *)
FirstFrom(b, c, s) == /\ s \in c .. Len(b) + 1 /\ Candidate(b, s)
                  /\ \A i \in c .. s - 1 : ~Candidate(b, i)

LEMMA FirstCandidate ==
  ASSUME NEW T, NEW b \in Seq(T), NEW c \in 1 .. Len(b) + 1
  PROVE  \E s \in c .. Len(b) + 1 : FirstFrom(b, c, s)
<1> DEFINE S == {i \in c .. Len(b) + 1 : Candidate(b, i)}
<1>1. Candidate(b, Len(b) + 1)
  BY BeginIs DEF Candidate
<1>2. S \subseteq Nat /\ S # {}
  BY <1>1
<1>3. PICK s \in S : \A i \in S : s <= i
  BY <1>2, LeastNumber
<1>4. \A i \in c .. s - 1 : ~Candidate(b, i)
  BY <1>3
<1> QED
  BY <1>3, <1>4 DEF FirstFrom

LEMMA NextUnique ==
  ASSUME NEW T, NEW b \in Seq(T), NEW c \in 1 .. Len(b) + 1, NEW s, NEW t,
         FirstFrom(b, c, s), FirstFrom(b, c, t)
  PROVE  s = t
  BY DEF FirstFrom

(* Every scan ends at the first candidate.                                 *)
LEMMA ScansToCandidate ==
  ASSUME NEW T, NEW b \in Seq(T), NEW c \in 1 .. Len(b) + 1, NEW s, FirstFrom(b, c, s)
  PROVE  Flush(b)[c] = ScanAt(b, s)
<1> DEFINE L == Len(BeginString)
<1>1. /\ L \in Nat \ {0} /\ s \in c .. Len(b) + 1 /\ Candidate(b, s)
      /\ \A i \in c .. s - 1 : ~Candidate(b, i)
  BY BeginIs DEF FirstFrom
<1>2. \A i \in c .. Len(b) : i \in MessageStarts(b, c) <=> Candidate(b, i) /\ i + L - 1 <= Len(b)
  BY StartsIff DEF MessageStarts
<1>3. MessageStarts(b, c) \subseteq c .. Len(b)
  BY StartsAre
<1>4. CASE NothingFrom(b, c)
  <2>1. s + L - 1 > Len(b)
    <3>1. CASE s \in c .. Len(b)
      BY <1>1, <1>2, <1>4, <3>1 DEF NothingFrom
    <3>2. CASE s = Len(b) + 1
      BY <1>1, <3>2
    <3> QED
      BY <1>1, <3>1, <3>2
  <2>2. PICK x : x = SubSeq(b, c, Len(b))
    OBVIOUS
  <2>3. x \in Seq(T) /\ Len(x) = Len(b) + 1 - c
    BY <2>2, SubSeqIs
  <2>4. PICK n \in 0 .. Len(x) :
          /\ Keeps(x, n) /\ \A m \in 0 .. Len(x) : Keeps(x, m) => m <= n
          /\ RetainPartialBeginString(x) = SubSeq(x, Len(x) - n + 1, Len(x))
    BY <2>3, RetainedIs
  <2>5. ASSUME NEW m \in 0 .. Len(x)
        PROVE  Keeps(x, m) <=> m < L /\ Candidate(b, Len(b) + 1 - m)
    <3>1. Keeps(x, m) <=> m < L /\ Candidate(x, Len(x) - m + 1)
      BY <2>3, KeepsIff
    <3>2. PICK i : i = Len(x) - m + 1
      OBVIOUS
    <3>3. i \in 1 .. Len(x) + 1 /\ c + i - 1 = Len(b) + 1 - m
      BY <2>3, <3>2
    <3>4. Candidate(x, i) <=> Candidate(b, c + i - 1)
      BY <2>2, <3>3, CandidateOfSuffix
    <3> QED
      BY <3>1, <3>2, <3>3, <3>4
  <2>6. n = Len(b) + 1 - s
    <3>1. PICK m : m = Len(b) + 1 - s
      OBVIOUS
    <3>2. m \in 0 .. Len(x) /\ m < L /\ Len(b) + 1 - m = s
      BY <1>1, <2>1, <2>3, <3>1
    <3>3. m <= n
      BY <1>1, <2>4, <2>5, <3>2
    <3>4. Candidate(b, Len(b) + 1 - n)
      BY <2>4, <2>5
    <3>5. ~(m < n)
      <4>1. m < n => Len(b) + 1 - n \in c .. s - 1
        BY <2>3, <3>1, <3>2
      <4> QED
        BY <1>1, <3>4, <4>1
    <3> QED
      BY <3>1, <3>2, <3>3, <3>5
  <2>7. RetainPartialBeginString(x) = SubSeq(b, s, Len(b))
    <3>1. SubSeq(x, Len(x) - n + 1, Len(x)) = SubSeq(b, Len(b) - n + 1, Len(b))
      BY <2>2, <2>3, SuffixOfSuffix
    <3>2. Len(b) - n + 1 = s
      BY <1>1, <2>6
    <3> QED
      BY <2>4, <3>1, <3>2
  <2> QED
    BY <1>4, <2>1, <2>2, <2>7 DEF NothingFrom, ScanAt, Verdict
<1>5. ASSUME NEW i \in c .. Len(b), i \in MessageStarts(b, c),
             \A j \in MessageStarts(b, c) : i <= j
      PROVE  i = s /\ Verdict(b, s) = FindMessageEnd(b, s)
  <2>1. Candidate(b, i) /\ i + L - 1 <= Len(b)
    BY <1>2, <1>5
  <2>2. s <= i
    BY <1>1, <2>1
  <2>3. s \in c .. Len(b) /\ s + L - 1 <= Len(b)
    BY <1>1, <2>1, <2>2
  <2>4. i <= s
    BY <1>1, <1>2, <1>5, <2>3
  <2> QED
    BY <1>1, <2>2, <2>3, <2>4 DEF Verdict
<1>6. ASSUME NEW i \in c .. Len(b), i \in MessageStarts(b, c),
             \A j \in MessageStarts(b, c) : i <= j,
             \/ OpenFrom(b, c, i)
             \/ InvalidFrom(b, c, i)
             \/ \E e \in i + 3 .. Len(b) : MessageFrom(b, c, i, e)
      PROVE  Flush(b)[c] = ScanAt(b, s)
  <2>1. i = s /\ Verdict(b, s) = FindMessageEnd(b, s)
    BY <1>5, <1>6
  <2>2. CASE OpenFrom(b, c, i)
    BY <2>1, <2>2 DEF OpenFrom, ScanAt
  <2>3. CASE InvalidFrom(b, c, i)
    BY <2>1, <2>3 DEF InvalidFrom, ScanAt, Incomplete, Invalid
  <2>4. ASSUME NEW e \in i + 3 .. Len(b), MessageFrom(b, c, i, e)
        PROVE  Flush(b)[c] = ScanAt(b, s)
    BY <2>1, <2>4 DEF MessageFrom, ScanAt, Incomplete, Invalid, Complete
  <2> QED
    BY <1>6, <2>2, <2>3, <2>4
<1> QED
  BY <1>4, <1>6, FlushCases

Piece(b, i, j) == SubSeq(b, i, j)
Rest(b, s)     == [emitted |-> <<>>, buffer |-> Piece(b, s, Len(b))]
Before(m, r)   == [r EXCEPT !.emitted = <<m>> \o @]

LEMMA ScanIs ==
  ASSUME NEW b, NEW s, NEW e
  PROVE  /\ Verdict(b, s) = Incomplete => ScanAt(b, s) = Rest(b, s)
         /\ Verdict(b, s) = Invalid => ScanAt(b, s) = Flush(b)[s + 1]
         /\ Verdict(b, s) = Complete(e) =>
                ScanAt(b, s) = Before(Piece(b, s, e), Flush(b)[e + 1])
<1>1. Invalid # Incomplete
  BY DEF Incomplete, Invalid
<1>2. Complete(e) # Incomplete /\ Complete(e) # Invalid /\ Complete(e).end = e
  BY DEF Complete, Incomplete, Invalid
<1> QED
  BY <1>1, <1>2 DEF ScanAt, Rest, Before, Piece

LEMMA Verdicts ==
  ASSUME NEW T, NEW b \in Seq(T), NEW s \in 1 .. Len(b) + 1
  PROVE  \/ Verdict(b, s) = Incomplete
         \/ s \in 1 .. Len(b) /\ Verdict(b, s) = Invalid
         \/ \E e \in s + 3 .. Len(b) : s \in 1 .. Len(b) /\ Verdict(b, s) = Complete(e)
<1>1. CASE Verdict(b, s) # Incomplete
  <2>1. s + Len(BeginString) - 1 <= Len(b) /\ Verdict(b, s) = FindMessageEnd(b, s)
    BY <1>1, BeginIs DEF Verdict
  <2>2. s \in 1 .. Len(b)
    BY <2>1, BeginIs
  <2>3. \/ Verdict(b, s) = Invalid
        \/ Verdict(b, s) = Complete(Verdict(b, s).end) /\ Verdict(b, s).end \in s + 3 .. Len(b)
    BY <1>1, <2>1, <2>2, EndBounds
  <2> QED
    BY <2>2, <2>3
<1> QED
  BY <1>1

(* More bytes can only show that a candidate is none.                      *)
LEMMA CandidateMoves ==
  ASSUME NEW T, NEW b \in Seq(T), NEW d \in Seq(T), NEW k, Within(b, d, k),
         NEW i \in 1 .. Len(b) + 1
  PROVE  /\ Candidate(d, k + i) => Candidate(b, i)
         /\ Candidate(b, i) /\ (i + Len(BeginString) - 1 <= Len(b) \/ Len(d) = k + Len(b))
               => Candidate(d, k + i)
<1>1. k \in Nat /\ k + Len(b) <= Len(d) /\ Len(BeginString) \in Nat
  BY BeginIs DEF Within
<1>2. ASSUME NEW m \in 1 .. Len(BeginString), i + m - 1 <= Len(b)
      PROVE  (k + i) + m - 1 <= Len(d) /\ d[(k + i) + m - 1] = b[i + m - 1]
  <2>1. i + m - 1 \in 1 .. Len(b) /\ (k + i) + m - 1 = k + (i + m - 1)
    BY <1>1, <1>2
  <2> QED
    BY <1>1, <2>1 DEF Within
<1>3. ASSUME Candidate(d, k + i) PROVE Candidate(b, i)
  BY <1>2, <1>3 DEF Candidate
<1>4. ASSUME Candidate(b, i), i + Len(BeginString) - 1 <= Len(b) \/ Len(d) = k + Len(b)
      PROVE  Candidate(d, k + i)
  <2>1. ASSUME NEW m \in 1 .. Len(BeginString), (k + i) + m - 1 <= Len(d)
        PROVE  i + m - 1 <= Len(b)
    BY <1>1, <1>4, <2>1
  <2> QED
    BY <1>2, <1>4, <2>1 DEF Candidate
<1> QED
  BY <1>3, <1>4

LEMMA VerdictMoves ==
  ASSUME NEW T, NEW b \in Seq(T), NEW d \in Seq(T), NEW k, Within(b, d, k),
         NEW s \in 1 .. Len(b) + 1
  PROVE  /\ Verdict(b, s) = Invalid => Verdict(d, k + s) = Invalid
         /\ \A e \in Nat : Verdict(b, s) = Complete(e) => Verdict(d, k + s) = Complete(k + e)
         /\ Verdict(b, s) = Incomplete /\ Len(d) = k + Len(b) => Verdict(d, k + s) = Incomplete
<1>1. k \in Nat /\ k + Len(b) <= Len(d) /\ Len(BeginString) \in Nat \ {0}
  BY BeginIs DEF Within
<1>2. CASE s + Len(BeginString) - 1 > Len(b)
  <2>1. Verdict(b, s) = Incomplete
    BY <1>2 DEF Verdict
  <2>2. Len(d) = k + Len(b) => (k + s) + Len(BeginString) - 1 > Len(d)
    BY <1>1, <1>2
  <2> QED
    BY <2>1, <2>2 DEF Verdict, Incomplete, Invalid, Complete
<1>3. CASE ~(s + Len(BeginString) - 1 > Len(b))
  <2>1. s \in 1 .. Len(b) /\ ~((k + s) + Len(BeginString) - 1 > Len(d))
    BY <1>1, <1>3
  <2>2. Verdict(b, s) = FindMessageEnd(b, s) /\ Verdict(d, k + s) = FindMessageEnd(d, k + s)
    BY <1>3, <2>1 DEF Verdict
  <2>3. Invalid # Incomplete /\ \A e : Complete(e) # Incomplete
    BY DEF Incomplete, Invalid, Complete
  <2>4. FindMessageEnd(b, s) = Invalid => FindMessageEnd(d, k + s) = Invalid
    BY <2>1, <2>3, EndMoves
  <2>5. \A e \in Nat : FindMessageEnd(b, s) = Complete(e) => FindMessageEnd(d, k + s) = Complete(k + e)
    BY <2>1, <2>3, EndMoves
  <2>6. FindMessageEnd(b, s) = Incomplete /\ Len(d) = k + Len(b)
          => FindMessageEnd(d, k + s) = Incomplete
    BY <2>1, EndStays
  <2> QED
    BY <2>2, <2>4, <2>5, <2>6
<1> QED
  BY <1>2, <1>3

Moved(k, i, u) == i \in Nat /\ u = k + i

LEMMA SubSeqMoves ==
  ASSUME NEW T, NEW b \in Seq(T), NEW d \in Seq(T), NEW k, NEW i, NEW j, NEW u, NEW v,
         Within(b, d, k), i # 0, j <= Len(b), Moved(k, i, u), Moved(k, j, v)
  PROVE  Piece(d, u, v) = Piece(b, i, j)
<1>1. k \in Nat /\ k + Len(b) <= Len(d)
  BY DEF Within
<1>7. i \in Nat \ {0} /\ j \in Nat /\ u = k + i /\ v = k + j
  BY DEF Moved
<1>2. PICK x, y : x = SubSeq(b, i, j) /\ y = SubSeq(d, u, v)
  OBVIOUS
<1>3. x \in Seq(T) /\ Len(x) = (IF i <= j THEN j - i + 1 ELSE 0)
      /\ \A m \in 1 .. j - i + 1 : x[m] = b[i + m - 1]
  BY <1>2, <1>7, SubSeqIs
<1>4. y \in Seq(T) /\ Len(y) = (IF u <= v THEN v - u + 1 ELSE 0)
      /\ \A m \in 1 .. v - u + 1 : y[m] = d[u + m - 1]
  BY <1>1, <1>2, <1>7, SubSeqIs
<1>5. Len(x) = Len(y)
  BY <1>1, <1>7, <1>3, <1>4
<1>6. ASSUME NEW m \in 1 .. Len(x) PROVE x[m] = y[m]
  <2>1. /\ m \in 1 .. j - i + 1 /\ m \in 1 .. v - u + 1
        /\ i + m - 1 \in 1 .. Len(b) /\ u + m - 1 = k + (i + m - 1)
    BY <1>1, <1>7, <1>3
  <2> QED
    BY <1>3, <1>4, <2>1 DEF Within
<1> QED
  BY <1>2, <1>3, <1>4, <1>5, <1>6, SeqEqual DEF Piece

(* Bytes in front of the cursor play no part: the scan of the end of d is  *)
(* the scan of those bytes alone.                                          *)
LEMMA FlushShifts ==
  ASSUME NEW T, NEW b \in Seq(T), NEW d \in Seq(T), NEW k, Within(b, d, k),
         Len(d) = k + Len(b)
  PROVE  \A c \in 1 .. Len(b) + 1 : Flush(d)[k + c] = Flush(b)[c]
<1> DEFINE N == Len(b) + 1
           S == {c \in 1 .. N : Flush(d)[k + c] = Flush(b)[c]}
<1>1. k \in Nat /\ N \in Nat /\ Len(b) \in Nat
  BY DEF Within
<1>2. ASSUME NEW c \in 1 .. N, \A j \in c + 1 .. N : j \in S PROVE c \in S
  <2>0. \A j \in c + 1 .. N : Flush(d)[k + j] = Flush(b)[j]
    BY <1>2
  <2>1. PICK s \in c .. N : FirstFrom(b, c, s)
    BY FirstCandidate
  <2>a. s \in Nat \ {0} /\ s \in 1 .. Len(b) + 1
    BY <1>1
  <2>b. PICK t : t = k + s
    OBVIOUS
  <2>2. FirstFrom(d, k + c, k + s)
    <3>1. Candidate(d, k + s)
      BY <2>1, CandidateMoves DEF FirstFrom
    <3>2. ASSUME NEW i \in k + c .. (k + s) - 1 PROVE ~Candidate(d, i)
      <4>1. i - k \in c .. s - 1 /\ i - k \in 1 .. N /\ k + (i - k) = i
        BY <1>1
      <4> QED
        BY <2>1, <4>1, CandidateMoves DEF FirstFrom
    <3>3. k + s \in k + c .. Len(d) + 1
      BY <1>1
    <3> QED
      BY <3>1, <3>2, <3>3 DEF FirstFrom
  <2>3. Flush(b)[c] = ScanAt(b, s)
    BY <2>1, ScansToCandidate
  <2>4. Flush(d)[k + c] = ScanAt(d, t)
    <3>1. k + c \in 1 .. Len(d) + 1
      BY <1>1
    <3> QED
      BY <2>2, <2>b, <3>1, ScansToCandidate
  <2> HIDE DEF S, N
  <2>5. ASSUME Verdict(b, s) = Incomplete PROVE Flush(d)[k + c] = Flush(b)[c]
    <3>1. Verdict(d, t) = Incomplete
      BY <2>5, <2>a, <2>b, VerdictMoves
    <3>2. Moved(k, s, t) /\ Moved(k, Len(b), Len(d))
      BY <1>1, <2>a, <2>b DEF Moved
    <3>3. Piece(d, t, Len(d)) = Piece(b, s, Len(b))
      <4>1. s # 0 /\ Len(b) <= Len(b)
        BY <1>1, <2>a
      <4> QED
        BY <3>2, <4>1, SubSeqMoves
    <3>4. Rest(d, t) = Rest(b, s)
      BY <3>3 DEF Rest
    <3>5. ScanAt(d, t) = Rest(d, t) /\ ScanAt(b, s) = Rest(b, s)
      BY <2>5, <3>1, ScanIs
    <3> QED
      BY <2>3, <2>4, <3>4, <3>5
  <2>6. ASSUME s \in 1 .. Len(b), Verdict(b, s) = Invalid
        PROVE  Flush(d)[k + c] = Flush(b)[c]
    <3>1. Verdict(d, t) = Invalid
      BY <2>6, <2>b, VerdictMoves
    <3>2. ScanAt(d, t) = Flush(d)[t + 1] /\ ScanAt(b, s) = Flush(b)[s + 1]
      BY <2>6, <3>1, ScanIs
    <3>3. s + 1 \in c + 1 .. N /\ k + (s + 1) = t + 1
      BY <1>1, <2>b, <2>6 DEF N
    <3>4. Flush(d)[t + 1] = Flush(b)[s + 1]
      BY <2>0, <3>3
    <3> QED
      BY <2>3, <2>4, <3>2, <3>4
  <2>7. ASSUME NEW e \in s + 3 .. Len(b), s \in 1 .. Len(b), Verdict(b, s) = Complete(e)
        PROVE  Flush(d)[k + c] = Flush(b)[c]
    <3>0. PICK f : f = k + e
      OBVIOUS
    <3>1. e \in Nat /\ e <= Len(b)
      BY <2>a
    <3>2. Verdict(d, t) = Complete(f)
      BY <2>7, <2>a, <2>b, <3>0, <3>1, VerdictMoves
    <3>8. Moved(k, s, t) /\ Moved(k, e, f)
      BY <2>a, <2>b, <3>0, <3>1 DEF Moved
    <3>3. ScanAt(d, t) = Before(Piece(d, t, f), Flush(d)[f + 1])
      BY <3>2, ScanIs
    <3>4. ScanAt(b, s) = Before(Piece(b, s, e), Flush(b)[e + 1])
      BY <2>7, ScanIs
    <3>5. e + 1 \in c + 1 .. N /\ k + (e + 1) = f + 1
      BY <1>1, <2>a, <3>0, <3>1 DEF N
    <3>6. Flush(d)[f + 1] = Flush(b)[e + 1]
      BY <2>0, <3>5
    <3>7. Piece(d, t, f) = Piece(b, s, e)
      <4>1. s # 0
        BY <2>a
      <4> QED
        BY <3>1, <3>8, <4>1, SubSeqMoves
    <3> QED
      BY <2>3, <2>4, <3>3, <3>4, <3>6, <3>7
  <2>8. Flush(d)[k + c] = Flush(b)[c]
    <3>1. \/ Verdict(b, s) = Incomplete
          \/ s \in 1 .. Len(b) /\ Verdict(b, s) = Invalid
          \/ \E e \in s + 3 .. Len(b) : s \in 1 .. Len(b) /\ Verdict(b, s) = Complete(e)
      BY <2>a, Verdicts
    <3> QED
      BY <3>1, <2>5, <2>6, <2>7
  <2> QED
    BY <2>8 DEF S
<1> HIDE DEF S, N
<1>3. \A c \in 1 .. N : c \in S
  BY <1>1, <1>2, DownwardInduction
<1> QED
  BY <1>3 DEF S, N

(* What a call leaves in the buffer, and what the next one makes of it and *)
(* of the bytes that arrived between them.                                 *)
Continued(r, x) == LET next == Flush(r.buffer \o x)[1]
                   IN  [emitted |-> r.emitted \o next.emitted, buffer |-> next.buffer]

LEMMA FlushedFrom ==
  ASSUME NEW T, NEW b \in Seq(T)
  PROVE  Flush(b)[1] \in Flushed(T) /\ Len(Flush(b)[1].buffer) <= Len(b)
<1>1. 1 \in 1 .. Len(b) + 1
  OBVIOUS
<1> QED
  BY <1>1, FlushTyped

Joined(b, x, d) == d = b \o x

LEMMA BeforeIs ==
  ASSUME NEW m, NEW e, NEW u, NEW v, Joined(<<m>>, e, v)
  PROVE  Before(m, [emitted |-> e, buffer |-> u]) = [emitted |-> v, buffer |-> u]
<1>1. PICK r : r = [emitted |-> e, buffer |-> u]
  OBVIOUS
<1>2. r.emitted = e
  BY <1>1
<1>3. Before(m, r) = [r EXCEPT !.emitted = v]
  BY <1>2 DEF Before, Joined
<1>4. [r EXCEPT !.emitted = v] = [emitted |-> v, buffer |-> u]
  BY <1>1
<1> QED
  BY <1>1, <1>3, <1>4

LEMMA ContinuedBefore ==
  ASSUME NEW T, NEW r \in Flushed(T), NEW x \in Seq(T), NEW m \in Seq(T)
  PROVE  Continued(Before(m, r), x) = Before(m, Continued(r, x))
<1>1. PICK e, u : e = r.emitted /\ u = r.buffer
  OBVIOUS
<1>2. e \in Seq(Seq(T)) /\ u \in Seq(T) /\ r = [emitted |-> e, buffer |-> u]
  BY <1>1 DEF Flushed
<1>3. PICK next \in Flushed(T) : next = Flush(u \o x)[1]
  <2>1. u \o x \in Seq(T)
    BY <1>2, ConcatProperties
  <2> QED
    BY <2>1, FlushedFrom
<1>4. PICK f, v : f = next.emitted /\ v = next.buffer
  OBVIOUS
<1>5. f \in Seq(Seq(T))
  BY <1>3, <1>4 DEF Flushed
<1>6. PICK me, ef, mef : me = <<m>> \o e /\ ef = e \o f /\ mef = <<m>> \o ef
  OBVIOUS
<1>a. Joined(<<m>>, e, me) /\ Joined(<<m>>, ef, mef)
  BY <1>6 DEF Joined
<1>7. Before(m, r) = [emitted |-> me, buffer |-> u]
  BY <1>2, <1>a, BeforeIs
<1>8. Continued(r, x) = [emitted |-> ef, buffer |-> v]
  BY <1>2, <1>3, <1>4, <1>6 DEF Continued
<1>9. me \o f = mef
  <2>1. <<m>> \in Seq(Seq(T))
    OBVIOUS
  <2>2. PICK h \in Seq(Seq(T)) : h = <<m>>
    BY <2>1
  <2>3. (h \o e) \o f = h \o (e \o f)
    <3>1. PICK Q : Q = Seq(T)
      OBVIOUS
    <3>2. h \in Seq(Q) /\ e \in Seq(Q) /\ f \in Seq(Q)
      BY <1>2, <1>5, <3>1
    <3> QED
      BY <3>2, ConcatAssociative
  <2> QED
    BY <1>6, <2>2, <2>3
<1>10. Continued(Before(m, r), x) = [emitted |-> mef, buffer |-> v]
  <2>1. PICK w : w = Before(m, r)
    OBVIOUS
  <2>2. w.emitted = me /\ w.buffer = u
    BY <1>7, <2>1
  <2> QED
    BY <1>3, <1>4, <1>9, <2>1, <2>2 DEF Continued
<1>11. Before(m, Continued(r, x)) = [emitted |-> mef, buffer |-> v]
  BY <1>8, <1>a, BeforeIs
<1> QED
  BY <1>10, <1>11

LEMMA JoinedIs ==
  ASSUME NEW T, NEW b \in Seq(T), NEW x \in Seq(T), NEW d, Joined(b, x, d)
  PROVE  /\ d \in Seq(T) /\ Len(d) = Len(b) + Len(x)
         /\ \A m \in 1 .. Len(d) : d[m] = IF m <= Len(b) THEN b[m] ELSE x[m - Len(b)]
<1>1. d = b \o x
  BY DEF Joined
<1> QED
  BY <1>1, ConcatProperties

LEMMA PieceThenMore ==
  ASSUME NEW T, NEW b \in Seq(T), NEW x \in Seq(T), NEW s \in 1 .. Len(b) + 1,
         NEW d, NEW q, NEW k \in Nat, Joined(b, x, d), Joined(Piece(b, s, Len(b)), x, q),
         Moved(k, 1, s)
  PROVE  q \in Seq(T) /\ Within(q, d, k) /\ Len(d) = k + Len(q)
<1>1. PICK p : p = Piece(b, s, Len(b))
  OBVIOUS
<1>2. p \in Seq(T) /\ Len(p) = Len(b) + 1 - s /\ \A m \in 1 .. Len(p) : p[m] = b[s + m - 1]
  BY <1>1, SubSeqIs DEF Piece
<1>3. /\ q \in Seq(T) /\ Len(q) = Len(p) + Len(x)
      /\ \A m \in 1 .. Len(q) : q[m] = IF m <= Len(p) THEN p[m] ELSE x[m - Len(p)]
  <2>1. Joined(p, x, q)
    BY <1>1
  <2>2. p \in Seq(T)
    BY <1>2
  <2> QED
    BY <2>1, <2>2, JoinedIs
<1>4. /\ d \in Seq(T) /\ Len(d) = Len(b) + Len(x)
      /\ \A m \in 1 .. Len(d) : d[m] = IF m <= Len(b) THEN b[m] ELSE x[m - Len(b)]
  BY JoinedIs
<1>5. k \in Nat /\ s = k + 1 /\ Len(d) = k + Len(q) /\ k + Len(p) = Len(b)
  BY <1>2, <1>3, <1>4 DEF Moved
<1>6. ASSUME NEW m \in 1 .. Len(q) PROVE d[k + m] = q[m]
  <2>1. k + m \in 1 .. Len(d) /\ (m <= Len(p) <=> k + m <= Len(b))
    BY <1>2, <1>3, <1>4, <1>5
  <2>2. m <= Len(p) => p[m] = b[k + m]
    BY <1>2, <1>3, <1>5
  <2>3. (k + m) - Len(b) = m - Len(p)
    BY <1>2, <1>3, <1>5
  <2> QED
    BY <1>3, <1>4, <2>1, <2>2, <2>3
<1> QED
  BY <1>3, <1>5, <1>6 DEF Within

LEMMA WithinMore ==
  ASSUME NEW T, NEW b \in Seq(T), NEW x \in Seq(T), NEW d, Joined(b, x, d)
  PROVE  Within(b, d, 0)
<1>1. /\ d \in Seq(T) /\ Len(d) = Len(b) + Len(x)
      /\ \A m \in 1 .. Len(d) : d[m] = IF m <= Len(b) THEN b[m] ELSE x[m - Len(b)]
  BY JoinedIs
<1>2. ASSUME NEW j \in 1 .. Len(b) PROVE d[0 + j] = b[j]
  BY <1>1
<1> QED
  BY <1>1, <1>2 DEF Within

(* However the bytes were cut into two calls, the outcome is the same.     *)
LEMMA FlushContinues ==
  ASSUME NEW T, NEW b \in Seq(T), NEW x \in Seq(T), NEW d, Joined(b, x, d)
  PROVE  \A c \in 1 .. Len(b) + 1 : Flush(d)[c] = Continued(Flush(b)[c], x)
<1> DEFINE N == Len(b) + 1
           S == {c \in 1 .. N : Flush(d)[c] = Continued(Flush(b)[c], x)}
<1>1. N \in Nat /\ Len(b) \in Nat /\ Len(x) \in Nat
  OBVIOUS
<1>0. PICK z : z = 0
  OBVIOUS
<1>2. d \in Seq(T) /\ Within(b, d, z) /\ Len(d) = Len(b) + Len(x)
  BY <1>0, WithinMore, JoinedIs
<1>5. \A i \in Nat : z + i = i
  BY <1>0
<1>3. ASSUME NEW c \in 1 .. N, \A j \in c + 1 .. N : j \in S PROVE c \in S
  <2>0. \A j \in c + 1 .. N : Flush(d)[j] = Continued(Flush(b)[j], x)
    BY <1>3
  <2>1. PICK s \in c .. N : FirstFrom(b, c, s)
    BY FirstCandidate
  <2>2. s \in Nat \ {0} /\ s \in 1 .. Len(b) + 1 /\ c \in 1 .. Len(d) + 1 /\ s \in c .. Len(d) + 1
    BY <1>1, <1>2
  <2>3. \A i \in c .. s - 1 : ~Candidate(d, i)
    <3>1. ASSUME NEW i \in c .. s - 1 PROVE ~Candidate(d, i)
      <4>1. i \in 1 .. Len(b) + 1 /\ z + i = i
        BY <1>0, <1>1, <2>2
      <4> QED
        BY <1>2, <2>1, <4>1, CandidateMoves DEF FirstFrom
    <3> QED
      BY <3>1
  <2>4. Flush(b)[c] = ScanAt(b, s)
    BY <2>1, ScansToCandidate
  <2> HIDE DEF S
  <2>5. ASSUME Verdict(b, s) = Incomplete PROVE Flush(d)[c] = Continued(Flush(b)[c], x)
    <3>0. PICK k \in Nat : k = s - 1
      BY <2>2
    <3>1. PICK q : q = Piece(b, s, Len(b)) \o x
      OBVIOUS
    <3>a. Joined(Piece(b, s, Len(b)), x, q) /\ Moved(k, 1, s)
      BY <2>2, <3>0, <3>1 DEF Joined, Moved
    <3>2. q \in Seq(T) /\ Within(q, d, k) /\ Len(d) = k + Len(q)
      BY <2>2, <3>a, PieceThenMore
    <3>3. Flush(d)[s] = Flush(q)[1]
      <4>1. 1 \in 1 .. Len(q) + 1 /\ k + 1 = s
        BY <2>2, <3>0, <3>2
      <4>2. Flush(d)[k + 1] = Flush(q)[1]
        BY <1>2, <3>2, <4>1, FlushShifts
      <4> QED
        BY <4>1, <4>2
    <3>4. PICK t \in s .. Len(d) + 1 : FirstFrom(d, s, t)
      <4>1. s \in 1 .. Len(d) + 1
        BY <2>2
      <4> QED
        BY <1>2, <4>1, FirstCandidate
    <3>5. FirstFrom(d, c, t)
      BY <2>2, <2>3, <3>4 DEF FirstFrom
    <3>6. Flush(d)[c] = Flush(d)[s]
      <4>1. Flush(d)[c] = ScanAt(d, t)
        BY <1>2, <2>2, <3>5, ScansToCandidate
      <4>2. s \in 1 .. Len(d) + 1
        BY <2>2
      <4>3. Flush(d)[s] = ScanAt(d, t)
        BY <1>2, <3>4, <4>2, ScansToCandidate
      <4> QED
        BY <4>1, <4>3
    <3>7. Flush(b)[c] = Rest(b, s)
      BY <2>4, <2>5, ScanIs
    <3>8. PICK next \in Flushed(T) : next = Flush(q)[1]
      BY <3>2, FlushedFrom
    <3>9. Continued(Rest(b, s), x) = [emitted |-> <<>> \o next.emitted, buffer |-> next.buffer]
      BY <3>1, <3>8 DEF Continued, Rest
    <3>10. <<>> \o next.emitted = next.emitted
      BY <3>8, ConcatEmptySeq DEF Flushed
    <3>11. next = [emitted |-> next.emitted, buffer |-> next.buffer]
      BY <3>8 DEF Flushed
    <3> QED
      BY <3>3, <3>6, <3>7, <3>8, <3>9, <3>10, <3>11
  <2>6. ASSUME s \in 1 .. Len(b), Verdict(b, s) # Incomplete
        PROVE  Flush(d)[c] = ScanAt(d, s)
    <3>1. s + Len(BeginString) - 1 <= Len(b) /\ z + s = s
      BY <1>0, <2>6, BeginIs DEF Verdict
    <3>2. Candidate(d, s)
      BY <1>2, <2>1, <2>2, <3>1, CandidateMoves DEF FirstFrom
    <3>3. FirstFrom(d, c, s)
      BY <2>2, <2>3, <3>2 DEF FirstFrom
    <3> QED
      BY <1>2, <2>2, <3>3, ScansToCandidate
  <2>7. ASSUME s \in 1 .. Len(b), Verdict(b, s) = Invalid
        PROVE  Flush(d)[c] = Continued(Flush(b)[c], x)
    <3>1. Verdict(d, s) = Invalid
      <4>1. z + s = s
        BY <1>0, <2>2
      <4> QED
        BY <1>2, <2>2, <2>7, <4>1, VerdictMoves
    <3>2. Flush(d)[c] = Flush(d)[s + 1]
      BY <2>6, <2>7, <3>1, ScanIs DEF Invalid, Incomplete
    <3>3. Flush(b)[c] = Flush(b)[s + 1]
      BY <2>4, <2>7, ScanIs
    <3>4. s + 1 \in c + 1 .. N
      BY <1>1, <2>7
    <3> QED
      BY <2>0, <3>2, <3>3, <3>4
  <2>8. ASSUME NEW e \in s + 3 .. Len(b), s \in 1 .. Len(b), Verdict(b, s) = Complete(e)
        PROVE  Flush(d)[c] = Continued(Flush(b)[c], x)
    <3>1. e \in Nat /\ e <= Len(b) /\ z + e = e /\ z + s = s /\ s # 0
      BY <1>0, <2>2
    <3>2. Verdict(d, s) = Complete(e)
      BY <1>2, <2>2, <2>8, <3>1, VerdictMoves
    <3>3. Moved(z, s, s) /\ Moved(z, e, e)
      BY <2>2, <3>1 DEF Moved
    <3>4. Piece(d, s, e) = Piece(b, s, e)
      BY <1>2, <3>1, <3>3, SubSeqMoves
    <3>5. PICK m \in Seq(T) : m = Piece(b, s, e)
      <4>1. s \in Int /\ e \in Int /\ s >= 1
        BY <2>2, <3>1
      <4> QED
        BY <3>1, <4>1, SubSeqIs DEF Piece
    <3>6. Flush(d)[c] = Before(m, Flush(d)[e + 1])
      <4>1. Verdict(b, s) # Incomplete
        BY <2>8 DEF Complete, Incomplete
      <4>2. ScanAt(d, s) = Before(Piece(d, s, e), Flush(d)[e + 1])
        BY <3>2, ScanIs
      <4> QED
        BY <2>6, <2>8, <3>4, <3>5, <4>1, <4>2
    <3>7. Flush(b)[c] = Before(m, Flush(b)[e + 1])
      BY <2>4, <2>8, <3>5, ScanIs
    <3>8. Flush(d)[e + 1] = Continued(Flush(b)[e + 1], x)
      <4>1. e + 1 \in c + 1 .. N
        BY <1>1, <2>2, <3>1
      <4> QED
        BY <2>0, <4>1
    <3>9. PICK r \in Flushed(T) : r = Flush(b)[e + 1]
      <4>1. e + 1 \in 1 .. Len(b) + 1
        BY <3>1
      <4> QED
        BY <4>1, FlushTyped
    <3>10. Continued(Before(m, r), x) = Before(m, Continued(r, x))
      BY <3>5, <3>9, ContinuedBefore
    <3> QED
      BY <3>6, <3>7, <3>8, <3>9, <3>10
  <2>9. Flush(d)[c] = Continued(Flush(b)[c], x)
    <3>1. \/ Verdict(b, s) = Incomplete
          \/ s \in 1 .. Len(b) /\ Verdict(b, s) = Invalid
          \/ \E e \in s + 3 .. Len(b) : s \in 1 .. Len(b) /\ Verdict(b, s) = Complete(e)
      BY <2>2, Verdicts
    <3> QED
      BY <3>1, <2>5, <2>7, <2>8
  <2> QED
    BY <2>9 DEF S
<1> HIDE DEF S, N
<1>4. \A c \in 1 .. N : c \in S
  BY <1>1, <1>3, DownwardInduction
<1> QED
  BY <1>4 DEF S, N

-----------------------------------------------------------------------------
(* Reading the bytes as a whole, without a buffer: a recursion towards the *)
(* end of the bytes like the scan.                                         *)
HasMessage(b, i) == \E j \in i .. Len(b) : IsMessage(b, i, j)
MessageEnd(b, i) == CHOOSE j \in i .. Len(b) : IsMessage(b, i, j)

ReadAt(b, g, i) ==
    IF i > Len(b)         THEN [messages |-> <<>>, open |-> FALSE]
    ELSE IF IsOpen(b, i)  THEN [messages |-> <<>>, open |-> TRUE]
    ELSE IF HasMessage(b, i)
    THEN LET j == MessageEnd(b, i)
         IN  [g[j + 1] EXCEPT !.messages = <<SubSeq(b, i, j)>> \o @]
    ELSE g[i + 1]

ReadRule(b, g) == [i \in 1 .. Len(b) + 1 |-> ReadAt(b, g, i)]
Read(b) == CHOOSE g : g = ReadRule(b, g)

LEMMA ReadIs ==
  ASSUME NEW b
  PROVE  ReadWhole(b) = Read(b)[1]
  BY DEF ReadWhole, Read, ReadRule, ReadAt, HasMessage, MessageEnd

LEMMA TokensAre ==
  /\ Delim \notin DOMAIN BodyLength
  /\ \A m \in 1 .. Len(BeginString) : BeginString[m] # Delim
<1>1. /\ Delim \notin DOMAIN BodyLength
      /\ \A k \in DOMAIN BeginString : BeginString[k] # Delim
  BY FramingAssumption
<1>2. DOMAIN BeginString = 1 .. Len(BeginString)
  BY BeginIs
<1> QED
  BY <1>1, <1>2

(* The first delimiter behind i.                                           *)
FirstDelim(b, i, d) == d \in i .. Len(b) /\ b[d] = Delim /\ \A k \in i .. d - 1 : b[k] # Delim

LEMMA FirstDelimIs ==
  ASSUME NEW T, NEW b \in Seq(T), NEW i \in Nat \ {0}
  PROVE  /\ Delims(b, i) = {} => \A d : ~FirstDelim(b, i, d)
         /\ Delims(b, i) # {} => \A d : FirstDelim(b, i, d) <=> d = Least(Delims(b, i))
<1>1. Delims(b, i) = {} => \A d : ~FirstDelim(b, i, d)
  BY DEF Delims, FirstDelim
<1>2. ASSUME Delims(b, i) # {} PROVE \A d : FirstDelim(b, i, d) <=> d = Least(Delims(b, i))
  <2>1. PICK m : m = Least(Delims(b, i))
    OBVIOUS
  <2>2. m \in Delims(b, i) /\ \A y \in Delims(b, i) : m <= y
    BY <1>2, <2>1, DelimsAre, LeastIs
  <2>3. m \in i .. Len(b) /\ b[m] = Delim
    BY <2>2 DEF Delims
  <2>4. \A k \in i .. m - 1 : b[k] # Delim
    BY <2>2, <2>3 DEF Delims
  <2>5. ASSUME NEW d, FirstDelim(b, i, d) PROVE d = m
    <3>1. d \in i .. Len(b) /\ d \in Delims(b, i) /\ \A k \in i .. d - 1 : b[k] # Delim
      BY <2>5 DEF FirstDelim, Delims
    <3>2. m <= d
      BY <2>2, <3>1
    <3>3. ~(m < d)
      BY <2>3, <3>1
    <3> QED
      BY <2>3, <3>1, <3>2, <3>3
  <2> QED
    BY <2>1, <2>3, <2>4, <2>5 DEF FirstDelim
<1> QED
  BY <1>1, <1>2

(* The second field is a body length exactly if a delimiter follows it at  *)
(* once.                                                                   *)
LEMMA MeasuredIff ==
  ASSUME NEW T, NEW b \in Seq(T), NEW i \in Nat \ {0}, NEW d, FirstDelim(b, i, d)
  PROVE  /\ Delims(b, i) # {} /\ LengthField(b, i) = d + 1
         /\ HasFields(b, i) <=> \E k \in d + 1 .. Len(b) : b[k] = Delim
         /\ HasFields(b, i) /\ Measured(b, i) <=>
               d + 2 <= Len(b) /\ b[d + 2] = Delim /\ b[d + 1] \in DOMAIN BodyLength
         /\ HasFields(b, i) /\ Measured(b, i) => BodyEnd(b, i) = d + 3 + BodyLength[b[d + 1]]
<1>1. Delims(b, i) # {} /\ d = Least(Delims(b, i)) /\ d \in Nat \ {0} /\ d <= Len(b)
  <2>1. Delims(b, i) # {} /\ d = Least(Delims(b, i))
    BY FirstDelimIs
  <2> QED
    BY <2>1 DEF FirstDelim
<1>2. PICK l \in Nat \ {0} : l = d + 1
  BY <1>1
<1>3. LengthField(b, i) = l
  BY <1>1, <1>2 DEF LengthField
<1>4. HasFields(b, i) <=> Delims(b, l) # {}
  BY <1>1, <1>3 DEF HasFields
<1>5. Delims(b, l) # {} <=> \E k \in l .. Len(b) : b[k] = Delim
  BY DEF Delims
<1>6. ASSUME HasFields(b, i), Measured(b, i)
      PROVE  /\ d + 2 <= Len(b) /\ b[d + 2] = Delim /\ b[d + 1] \in DOMAIN BodyLength
             /\ BodyEnd(b, i) = d + 3 + BodyLength[b[d + 1]]
  <2>1. b[l] \in DOMAIN BodyLength /\ LengthEnd(b, i) = l + 1
    BY <1>3, <1>6 DEF Measured
  <2>2. LengthEnd(b, i) = Least(Delims(b, l))
    BY <1>3 DEF LengthEnd
  <2>3. FirstDelim(b, l, l + 1)
    BY <1>4, <1>6, <2>1, <2>2, FirstDelimIs
  <2>4. l + 1 <= Len(b) /\ b[l + 1] = Delim
    BY <2>3 DEF FirstDelim
  <2>5. PICK n \in Nat : n = BodyLength[b[l]]
    BY <2>1, LengthsAre
  <2>6. BodyEnd(b, i) = l + 1 + 1 + n
    BY <1>3, <2>1, <2>5 DEF BodyEnd
  <2>7. l + 1 = d + 2 /\ l + 1 + 1 + n = d + 3 + n
    BY <1>1, <1>2
  <2> QED
    BY <1>2, <2>1, <2>4, <2>5, <2>6, <2>7
<1>7. ASSUME d + 2 <= Len(b), b[d + 2] = Delim, b[d + 1] \in DOMAIN BodyLength
      PROVE  HasFields(b, i) /\ Measured(b, i)
  <2>1. l + 1 = d + 2 /\ l + 1 \in l .. Len(b) /\ l .. (l + 1) - 1 = {l}
    BY <1>1, <1>2, <1>7
  <2>2. b[l] # Delim
    BY <1>2, <1>7, TokensAre
  <2>3. FirstDelim(b, l, l + 1)
    BY <1>7, <2>1, <2>2 DEF FirstDelim
  <2>4. Delims(b, l) # {} /\ l + 1 = Least(Delims(b, l))
    BY <2>3, FirstDelimIs
  <2> QED
    BY <1>2, <1>3, <1>4, <1>7, <2>4 DEF Measured, LengthEnd
<1> QED
  BY <1>1, <1>2, <1>3, <1>4, <1>5, <1>6, <1>7

(* Where a begin string begins, the reference and find_message_end agree.  *)
LEMMA OpenIff ==
  ASSUME NEW T, NEW b \in Seq(T), NEW i \in 1 .. Len(b), StartsWith(b, i, BeginString)
  PROVE  IsOpen(b, i) <=> ~HasFields(b, i) \/ (Measured(b, i) /\ BodyEnd(b, i) + 1 > Len(b))
<1> DEFINE Q(d) == \/ \A k \in d + 1 .. Len(b) : b[k] # Delim
                   \/ /\ d + 2 <= Len(b) /\ b[d + 2] = Delim
                      /\ b[d + 1] \in DOMAIN BodyLength
                      /\ d + 4 + BodyLength[b[d + 1]] > Len(b)
<1>1. IsOpen(b, i) <=> \A d \in i .. Len(b) : FirstDelim(b, i, d) => Q(d)
  <2>1. ~(Len(b) - i + 1 < Len(BeginString))
    BY BeginIs DEF StartsWith
  <2>2. ASSUME NEW d \in i .. Len(b)
        PROVE  FirstDelim(b, i, d) <=> b[d] = Delim /\ \A k \in i .. d - 1 : b[k] # Delim
    BY DEF FirstDelim
  <2> QED
    BY <2>1, <2>2 DEF IsOpen
<1>2. CASE Delims(b, i) = {}
  BY <1>1, <1>2, FirstDelimIs DEF HasFields
<1>3. CASE Delims(b, i) # {}
  <2>0. PICK d : d = Least(Delims(b, i))
    OBVIOUS
  <2>1. FirstDelim(b, i, d) /\ \A e : FirstDelim(b, i, e) => e = d
    BY <1>3, <2>0, FirstDelimIs
  <2>2. d \in i .. Len(b) /\ d \in Nat
    BY <2>1 DEF FirstDelim
  <2>3. IsOpen(b, i) <=> Q(d)
    BY <1>1, <2>1, <2>2
  <2>4. /\ HasFields(b, i) <=> \E k \in d + 1 .. Len(b) : b[k] = Delim
        /\ HasFields(b, i) /\ Measured(b, i) <=>
               d + 2 <= Len(b) /\ b[d + 2] = Delim /\ b[d + 1] \in DOMAIN BodyLength
        /\ HasFields(b, i) /\ Measured(b, i) => BodyEnd(b, i) = d + 3 + BodyLength[b[d + 1]]
    BY <2>1, MeasuredIff
  <2>5. b[d + 1] \in DOMAIN BodyLength => BodyLength[b[d + 1]] \in Nat
    BY LengthsAre
  <2>6. HasFields(b, i) /\ Measured(b, i) =>
           (d + 4 + BodyLength[b[d + 1]] > Len(b) <=> BodyEnd(b, i) + 1 > Len(b))
    BY <2>2, <2>4, <2>5
  <2> QED
    BY <2>3, <2>4, <2>6
<1> QED
  BY <1>2, <1>3

LEMMA MessageIff ==
  ASSUME NEW T, NEW b \in Seq(T), NEW i \in 1 .. Len(b), NEW j \in i .. Len(b)
  PROVE  IsMessage(b, i, j) <=>
            /\ StartsWith(b, i, BeginString)
            /\ HasFields(b, i) /\ Measured(b, i) /\ Closed(b, i)
            /\ j = BodyEnd(b, i) + 1
<1> DEFINE Q(d) == /\ d + 2 <= j /\ b[d + 2] = Delim
                   /\ b[d + 1] \in DOMAIN BodyLength
                   /\ j = d + 4 + BodyLength[b[d + 1]]
                   /\ b[j - 1] = Trailer /\ b[j] = Delim
<1>1. IsMessage(b, i, j) <=>
         /\ StartsWith(b, i, BeginString)
         /\ \E d \in i .. j : FirstDelim(b, i, d) /\ Q(d)
  <2>1. ASSUME NEW d \in i .. j
        PROVE  FirstDelim(b, i, d) <=> b[d] = Delim /\ \A k \in i .. d - 1 : b[k] # Delim
    BY DEF FirstDelim
  <2> QED
    BY <2>1 DEF IsMessage
<1>2. CASE Delims(b, i) = {}
  BY <1>1, <1>2, FirstDelimIs DEF HasFields
<1>3. CASE Delims(b, i) # {}
  <2>0. PICK d : d = Least(Delims(b, i))
    OBVIOUS
  <2>1. FirstDelim(b, i, d) /\ \A e : FirstDelim(b, i, e) => e = d
    BY <1>3, <2>0, FirstDelimIs
  <2>2. d \in i .. Len(b) /\ d \in Nat
    BY <2>1 DEF FirstDelim
  <2>3. IsMessage(b, i, j) <=> StartsWith(b, i, BeginString) /\ Q(d)
    <3>1. Q(d) => d \in i .. j
      BY <2>2
    <3> HIDE DEF Q
    <3> QED
      BY <1>1, <2>1, <3>1
  <2>4. /\ HasFields(b, i) /\ Measured(b, i) <=>
               d + 2 <= Len(b) /\ b[d + 2] = Delim /\ b[d + 1] \in DOMAIN BodyLength
        /\ HasFields(b, i) /\ Measured(b, i) => BodyEnd(b, i) = d + 3 + BodyLength[b[d + 1]]
    BY <2>1, MeasuredIff
  <2>5. b[d + 1] \in DOMAIN BodyLength => BodyLength[b[d + 1]] \in Nat
    BY LengthsAre
  <2>6. ASSUME HasFields(b, i), Measured(b, i)
        PROVE  Q(d) <=> Closed(b, i) /\ j = BodyEnd(b, i) + 1
    <3>1. PICK n \in Nat : n = BodyLength[b[d + 1]]
      BY <2>4, <2>5, <2>6
    <3>2. BodyEnd(b, i) = d + 3 + n /\ BodyEnd(b, i) + 1 = d + 4 + n
      BY <2>2, <2>4, <2>6, <3>1
    <3>3. j = d + 4 + n => d + 2 <= j /\ j - 1 = BodyEnd(b, i) /\ j = BodyEnd(b, i) + 1
      BY <2>2, <3>2
    <3> QED
      BY <2>4, <2>6, <3>1, <3>2, <3>3 DEF Closed
  <2>7. Q(d) => HasFields(b, i) /\ Measured(b, i)
    BY <2>2, <2>4
  <2> HIDE DEF Q
  <2> QED
    BY <2>3, <2>6, <2>7
<1> QED
  BY <1>2, <1>3

(* A message is at least as long as the shortest one.                      *)
LEMMA MessageLength ==
  ASSUME NEW T, NEW b \in Seq(T), NEW i \in 1 .. Len(b), NEW j \in i .. Len(b),
         IsMessage(b, i, j)
  PROVE  Len(b) - i + 1 >= MinFrame
<1>1. PICK d \in i .. j :
        /\ StartsWith(b, i, BeginString) /\ b[d] = Delim
        /\ b[d + 1] \in DOMAIN BodyLength /\ j = d + 4 + BodyLength[b[d + 1]]
  BY DEF IsMessage
<1>2. PICK n \in Nat : j = d + 4 + n
  BY <1>1, LengthsAre
<1>3. Candidate(b, i) /\ i + Len(BeginString) - 1 <= Len(b)
  BY <1>1, StartsIff
<1>4. ~(d <= i + Len(BeginString) - 1)
  <2> SUFFICES ASSUME d <= i + Len(BeginString) - 1 PROVE FALSE
    OBVIOUS
  <2>1. PICK m \in 1 .. Len(BeginString) : i + m - 1 = d
    <3>1. d - i + 1 \in 1 .. Len(BeginString) /\ i + (d - i + 1) - 1 = d
      BY BeginIs
    <3> QED
      BY <3>1
  <2>2. b[d] = BeginString[m]
    BY <1>3, <2>1 DEF Candidate
  <2> QED
    BY <1>1, <2>2, TokensAre
<1> QED
  BY <1>2, <1>4, FrameIs, BeginIs

(* The reading, case by case.                                              *)
LEMMA ReadLooksAhead ==
  ASSUME NEW T, NEW b \in Seq(T), NEW i \in 1 .. Len(b) + 1, NEW g, NEW h,
         \A k \in i + 1 .. Len(b) + 1 : g[k] = h[k]
  PROVE  ReadAt(b, g, i) = ReadAt(b, h, i)
<1>1. CASE i > Len(b)
  BY <1>1 DEF ReadAt
<1>2. CASE i <= Len(b)
  <2>1. g[i + 1] = h[i + 1]
    BY <1>2
  <2>2. HasMessage(b, i) => g[MessageEnd(b, i) + 1] = h[MessageEnd(b, i) + 1]
    <3> SUFFICES ASSUME HasMessage(b, i) PROVE g[MessageEnd(b, i) + 1] = h[MessageEnd(b, i) + 1]
      OBVIOUS
    <3>1. MessageEnd(b, i) \in i .. Len(b)
      BY DEF HasMessage, MessageEnd
    <3>2. PICK j : j = MessageEnd(b, i)
      OBVIOUS
    <3>3. j + 1 \in i + 1 .. Len(b) + 1
      BY <3>1, <3>2
    <3> QED
      BY <3>2, <3>3
  <2>3. ~(i > Len(b))
    BY <1>2
  <2> QED
    BY <2>1, <2>2, <2>3 DEF ReadAt
<1> QED
  BY <1>1, <1>2

LEMMA ReadExists ==
  ASSUME NEW T, NEW b \in Seq(T)
  PROVE  \E g : g = ReadRule(b, g)
<1> DEFINE N == Len(b) + 1
           Follows(g, n) == \A c \in 1 .. N : c > N - n => g[c] = ReadAt(b, g, c)
           S == {n \in Nat : n <= N => \E g : Follows(g, n)}
<1>0. N \in Nat
  OBVIOUS
<1>1. 0 \in S
  BY <1>0
<1>2. ASSUME NEW n \in Nat, n \in S PROVE n + 1 \in S
  <2> SUFFICES ASSUME n + 1 <= N PROVE \E g : Follows(g, n + 1)
    OBVIOUS
  <2>1. PICK g : Follows(g, n)
    BY <1>0, <1>2
  <2> DEFINE c0 == N - n
             h == [c \in 1 .. N |-> IF c = c0 THEN ReadAt(b, g, c0) ELSE g[c]]
  <2>2. ASSUME NEW c \in 1 .. N, c > N - (n + 1) PROVE h[c] = ReadAt(b, h, c)
    <3>1. \A k \in c + 1 .. N : g[k] = h[k]
      BY <1>0, <2>2
    <3> HIDE DEF h, N
    <3>2. ReadAt(b, g, c) = ReadAt(b, h, c)
      BY <3>1, ReadLooksAhead DEF N
    <3>3. c = c0 => h[c] = ReadAt(b, g, c)
      BY DEF h
    <3>4. c # c0 => h[c] = g[c] /\ c > N - n
      BY <1>0, <2>2 DEF h
    <3> QED
      BY <2>1, <3>2, <3>3, <3>4
  <2> HIDE DEF h
  <2> QED
    BY <2>2
<1> HIDE DEF S
<1>3. \A n \in Nat : n \in S
  BY <1>1, <1>2, UpwardInduction
<1>4. PICK g : Follows(g, N)
  BY <1>0, <1>3 DEF S
<1> DEFINE f == [c \in 1 .. N |-> g[c]]
<1>5. ASSUME NEW c \in 1 .. N PROVE f[c] = ReadAt(b, f, c)
  <2>1. \A k \in c + 1 .. N : g[k] = f[k]
    BY <1>0
  <2>2. f[c] = g[c] /\ c > N - N
    BY <1>0
  <2> HIDE DEF f
  <2>3. ReadAt(b, g, c) = ReadAt(b, f, c)
    BY <2>1, ReadLooksAhead
  <2> QED
    BY <1>4, <2>2, <2>3
<1>6. f = ReadRule(b, f)
  BY <1>5 DEF ReadRule
<1> QED
  BY <1>6

LEMMA ReadFollows ==
  ASSUME NEW T, NEW b \in Seq(T)
  PROVE  \A i \in 1 .. Len(b) + 1 : Read(b)[i] = ReadAt(b, Read(b), i)
<1>1. Read(b) = ReadRule(b, Read(b))
  BY ReadExists DEF Read
<1> QED
  BY <1>1 DEF ReadRule

ReadTyped(T) == [messages : Seq(Seq(T)), open : BOOLEAN]

(* What is read from i on: nothing, a message and what follows it, or what *)
(* is read from the next byte on.                                          *)
StopsAt(b, i)      == Read(b)[i].messages = <<>>
MessageAt(b, i, j) == /\ IsMessage(b, i, j)
                      /\ Read(b)[i].messages = <<SubSeq(b, i, j)>> \o Read(b)[j + 1].messages
SkipsAt(b, i)      == Read(b)[i] = Read(b)[i + 1]

LEMMA MessageUnique ==
  ASSUME NEW T, NEW b \in Seq(T), NEW i \in 1 .. Len(b), NEW j \in i .. Len(b),
         IsMessage(b, i, j)
  PROVE  HasMessage(b, i) /\ MessageEnd(b, i) = j
<1>1. \A k \in i .. Len(b) : IsMessage(b, i, k) => k = j
  BY MessageIff
<1> QED
  BY <1>1 DEF HasMessage, MessageEnd

LEMMA OpenOrMessage ==
  ASSUME NEW T, NEW b \in Seq(T), NEW i \in 1 .. Len(b), NEW j \in i .. Len(b),
         IsMessage(b, i, j)
  PROVE  ~IsOpen(b, i)
<1>1. /\ StartsWith(b, i, BeginString) /\ HasFields(b, i) /\ Measured(b, i)
      /\ j = BodyEnd(b, i) + 1
  BY MessageIff
<1>2. IsOpen(b, i) <=> ~HasFields(b, i) \/ (Measured(b, i) /\ BodyEnd(b, i) + 1 > Len(b))
  BY <1>1, OpenIff
<1> QED
  BY <1>1, <1>2

LEMMA ReadTypes ==
  ASSUME NEW T, NEW b \in Seq(T)
  PROVE  \A i \in 1 .. Len(b) + 1 : Read(b)[i] \in ReadTyped(T)
<1> DEFINE N == Len(b) + 1
           S == {i \in 1 .. N : Read(b)[i] \in ReadTyped(T)}
<1>0. N \in Nat
  OBVIOUS
<1>3. PICK z \in Seq(Seq(T)) : z = <<>>
  BY EmptySeq
<1>4. ASSUME NEW o \in BOOLEAN PROVE [messages |-> z, open |-> o] \in ReadTyped(T)
  BY DEF ReadTyped
<1>1. ASSUME NEW i \in 1 .. N, \A k \in i + 1 .. N : k \in S PROVE i \in S
  <2>1. Read(b)[i] = ReadAt(b, Read(b), i)
    BY ReadFollows
  <2>2. CASE i > Len(b)
    <3>1. Read(b)[i] = [messages |-> z, open |-> FALSE]
      BY <1>3, <2>1, <2>2 DEF ReadAt
    <3> QED
      BY <1>4, <3>1
  <2>3. CASE i <= Len(b) /\ ~IsOpen(b, i) /\ HasMessage(b, i)
    <3>1. PICK j \in i .. Len(b) : j = MessageEnd(b, i)
      BY <2>3 DEF HasMessage, MessageEnd
    <3>2. j + 1 \in S
      BY <1>1, <3>1
    <3>3. PICK r \in ReadTyped(T) : r = Read(b)[j + 1]
      BY <3>2
    <3>4. SubSeq(b, i, j) \in Seq(T)
      BY SubSeqIs
    <3>5. PICK v : v = <<SubSeq(b, i, j)>> \o r.messages
      OBVIOUS
    <3>6. v \in Seq(Seq(T))
      BY <3>3, <3>4, <3>5, ConcatProperties DEF ReadTyped
    <3>7. Read(b)[i] = [r EXCEPT !.messages = v]
      BY <2>1, <2>3, <3>1, <3>3, <3>5 DEF ReadAt
    <3> QED
      BY <3>3, <3>6, <3>7 DEF ReadTyped
  <2>4. CASE i <= Len(b) /\ IsOpen(b, i)
    <3>1. Read(b)[i] = [messages |-> z, open |-> TRUE]
      BY <1>3, <2>1, <2>4 DEF ReadAt
    <3> QED
      BY <1>4, <3>1
  <2>5. CASE i <= Len(b) /\ ~IsOpen(b, i) /\ ~HasMessage(b, i)
    <3>1. i + 1 \in S
      BY <1>1, <2>5
    <3>2. Read(b)[i] = Read(b)[i + 1]
      BY <2>1, <2>5 DEF ReadAt
    <3> QED
      BY <3>1, <3>2
  <2> QED
    BY <2>2, <2>3, <2>4, <2>5
<1> HIDE DEF S, N
<1>2. \A i \in 1 .. N : i \in S
  BY <1>0, <1>1, DownwardInduction
<1> QED
  BY <1>2 DEF S, N

LEMMA ReadCases ==
  ASSUME NEW T, NEW b \in Seq(T), NEW i \in 1 .. Len(b) + 1
  PROVE  /\ i > Len(b) \/ IsOpen(b, i) => StopsAt(b, i)
         /\ \A j \in i .. Len(b) : IsMessage(b, i, j) => MessageAt(b, i, j)
         /\ i <= Len(b) /\ ~IsOpen(b, i) /\ ~HasMessage(b, i) => SkipsAt(b, i)
<1>1. Read(b)[i] = ReadAt(b, Read(b), i)
  BY ReadFollows
<1>2. ASSUME NEW j \in i .. Len(b), IsMessage(b, i, j) PROVE MessageAt(b, i, j)
  <2>1. i \in 1 .. Len(b) /\ ~IsOpen(b, i) /\ HasMessage(b, i) /\ MessageEnd(b, i) = j
    BY <1>2, OpenOrMessage, MessageUnique
  <2>2. PICK r \in ReadTyped(T) : r = Read(b)[j + 1]
    <3>1. j + 1 \in 1 .. Len(b) + 1
      OBVIOUS
    <3> QED
      BY <3>1, ReadTypes
  <2>3. PICK v : v = <<SubSeq(b, i, j)>> \o r.messages
    OBVIOUS
  <2>4. Read(b)[i] = [r EXCEPT !.messages = v]
    BY <1>1, <2>1, <2>2, <2>3 DEF ReadAt
  <2>5. Read(b)[i].messages = v
    BY <2>2, <2>4 DEF ReadTyped
  <2> QED
    BY <1>2, <2>2, <2>3, <2>5 DEF MessageAt
<1> QED
  BY <1>1, <1>2 DEF ReadAt, StopsAt, SkipsAt

(* Nothing begins where the bytes are those of no begin string; and bytes  *)
(* that may be the beginning of one wait for more.                         *)
LEMMA NoCandidateNothing ==
  ASSUME NEW T, NEW b \in Seq(T), NEW i \in 1 .. Len(b), ~Candidate(b, i)
  PROVE  ~IsOpen(b, i) /\ ~HasMessage(b, i)
<1>1. ~StartsWith(b, i, BeginString)
  BY StartsIff
<1>2. ~HasMessage(b, i)
  BY <1>1, MessageIff DEF HasMessage
<1>3. PICK n \in 1 .. Len(b) : n = Len(b) - i + 1 /\ Len(b) - n + 1 = i
  <2>1. Len(b) - i + 1 \in 1 .. Len(b) /\ Len(b) - (Len(b) - i + 1) + 1 = i
    OBVIOUS
  <2> QED
    BY <2>1
<1>4. Keeps(b, n) <=> n < Len(BeginString) /\ Candidate(b, i)
  BY <1>3, KeepsIff
<1>5. n < Len(BeginString) /\ SubSeq(b, i, Len(b)) = SubSeq(BeginString, 1, n) => Keeps(b, n)
  BY <1>3, BeginIs DEF Keeps
<1>6. ~(n < Len(BeginString) /\ SubSeq(b, i, Len(b)) = SubSeq(BeginString, 1, n))
  BY <1>4, <1>5
<1> QED
  BY <1>1, <1>2, <1>3, <1>6 DEF IsOpen

LEMMA PartialIsOpen ==
  ASSUME NEW T, NEW b \in Seq(T), NEW i \in 1 .. Len(b), Candidate(b, i),
         i + Len(BeginString) - 1 > Len(b)
  PROVE  IsOpen(b, i)
<1>3. PICK n \in 1 .. Len(b) : n = Len(b) - i + 1 /\ Len(b) - n + 1 = i
  <2>1. Len(b) - i + 1 \in 1 .. Len(b) /\ Len(b) - (Len(b) - i + 1) + 1 = i
    OBVIOUS
  <2> QED
    BY <2>1
<1>4. Keeps(b, n)
  BY <1>3, KeepsIff, BeginIs
<1>5. n < Len(BeginString) /\ SubSeq(b, i, Len(b)) = SubSeq(BeginString, 1, n)
  BY <1>3, <1>4, BeginIs DEF Keeps
<1> QED
  BY <1>3, <1>5 DEF IsOpen

(* Bytes shorter than the shortest message hold none.                      *)
LEMMA ShortReads ==
  ASSUME NEW T, NEW b \in Seq(T)
  PROVE  \A i \in 1 .. Len(b) + 1 : Len(b) - i + 1 < MinFrame => StopsAt(b, i)
<1> DEFINE N == Len(b) + 1
           S == {i \in 1 .. N : Len(b) - i + 1 < MinFrame => StopsAt(b, i)}
<1>0. N \in Nat /\ MinFrame \in Nat
  BY FrameIs
<1>1. ASSUME NEW i \in 1 .. N, \A k \in i + 1 .. N : k \in S PROVE i \in S
  <2>0. \A k \in i + 1 .. N : Len(b) - k + 1 < MinFrame => StopsAt(b, k)
    BY <1>1
  <2>1. ASSUME Len(b) - i + 1 < MinFrame PROVE StopsAt(b, i)
    <3>1. CASE i > Len(b) \/ IsOpen(b, i)
      BY <3>1, ReadCases
    <3>2. CASE i <= Len(b) /\ ~IsOpen(b, i)
      <4>1. i \in 1 .. Len(b)
        BY <3>2
      <4>2. ~HasMessage(b, i)
        BY <1>0, <2>1, <4>1, MessageLength DEF HasMessage
      <4>3. SkipsAt(b, i)
        BY <3>2, <4>2, ReadCases
      <4>4. StopsAt(b, i + 1)
        <5>1. i + 1 \in i + 1 .. N /\ Len(b) - (i + 1) + 1 < MinFrame
          BY <1>0, <2>1, <4>1
        <5> QED
          BY <2>0, <5>1
      <4> QED
        BY <4>3, <4>4 DEF SkipsAt, StopsAt
    <3> QED
      BY <3>1, <3>2
  <2> QED
    BY <2>1
<1> HIDE DEF S, N
<1>2. \A i \in 1 .. N : i \in S
  BY <1>0, <1>1, DownwardInduction
<1> QED
  BY <1>2 DEF S, N

(* A scan passes over a byte at which nothing can begin.                   *)
LEMMA FlushSkips ==
  ASSUME NEW T, NEW b \in Seq(T), NEW c \in 1 .. Len(b), ~Candidate(b, c)
  PROVE  Flush(b)[c] = Flush(b)[c + 1]
<1>1. c + 1 \in 1 .. Len(b) + 1 /\ c \in 1 .. Len(b) + 1
  OBVIOUS
<1>2. PICK s \in c + 1 .. Len(b) + 1 : FirstFrom(b, c + 1, s)
  BY <1>1, FirstCandidate
<1>3. FirstFrom(b, c, s)
  BY <1>2 DEF FirstFrom
<1>4. Flush(b)[c + 1] = ScanAt(b, s)
  BY <1>1, <1>2, ScansToCandidate
<1>5. Flush(b)[c] = ScanAt(b, s)
  BY <1>1, <1>3, ScansToCandidate
<1> QED
  BY <1>4, <1>5

LEMMA FlushAtCandidate ==
  ASSUME NEW T, NEW b \in Seq(T), NEW c \in 1 .. Len(b) + 1, Candidate(b, c)
  PROVE  Flush(b)[c] = ScanAt(b, c)
<1>1. FirstFrom(b, c, c)
  BY DEF FirstFrom
<1> QED
  BY <1>1, ScansToCandidate

(* The verdict at a candidate is the reading of the bytes from there on.   *)
LEMMA VerdictReads ==
  ASSUME NEW T, NEW b \in Seq(T), NEW c \in 1 .. Len(b), Candidate(b, c)
  PROVE  /\ Verdict(b, c) = Incomplete => StopsAt(b, c)
         /\ Verdict(b, c) = Invalid => SkipsAt(b, c)
         /\ \A e \in c + 3 .. Len(b) : Verdict(b, c) = Complete(e) => MessageAt(b, c, e)
<1>1. c \in 1 .. Len(b) + 1 /\ c <= Len(b) /\ MinFrame \in Nat
  BY FrameIs
<1>2. CASE c + Len(BeginString) - 1 > Len(b)
  <2>1. IsOpen(b, c)
    BY <1>2, PartialIsOpen
  <2>2. StopsAt(b, c)
    BY <1>1, <2>1, ReadCases
  <2>3. Verdict(b, c) = Incomplete
    BY <1>2 DEF Verdict
  <2> QED
    BY <2>2, <2>3 DEF Incomplete, Invalid, Complete
<1>3. CASE ~(c + Len(BeginString) - 1 > Len(b))
  <2>1. StartsWith(b, c, BeginString)
    BY <1>3, StartsIff, BeginIs
  <2>2. Verdict(b, c) = FindMessageEnd(b, c)
    BY <1>3 DEF Verdict
  <2>3. IsOpen(b, c) <=> ~HasFields(b, c) \/ (Measured(b, c) /\ BodyEnd(b, c) + 1 > Len(b))
    BY <2>1, OpenIff
  <2>4. \A j \in c .. Len(b) : IsMessage(b, c, j) <=>
            HasFields(b, c) /\ Measured(b, c) /\ Closed(b, c) /\ j = BodyEnd(b, c) + 1
    BY <2>1, MessageIff
  <2>5. Invalid # Incomplete /\ \A e : Complete(e) # Incomplete /\ Complete(e) # Invalid
    BY DEF Incomplete, Invalid, Complete
  <2>6. ASSUME Verdict(b, c) = Incomplete PROVE StopsAt(b, c)
    <3>1. CASE Len(b) - c + 1 < MinFrame
      BY <1>1, <3>1, ShortReads
    <3>2. CASE ~(Len(b) - c + 1 < MinFrame)
      <4>1. IsOpen(b, c)
        BY <2>2, <2>3, <2>5, <2>6, <3>2, EndIs
      <4> QED
        BY <1>1, <4>1, ReadCases
    <3> QED
      BY <3>1, <3>2
  <2>7. ASSUME Verdict(b, c) = Invalid PROVE SkipsAt(b, c)
    <3>1. /\ HasFields(b, c)
          /\ \/ ~Measured(b, c)
             \/ ~(BodyEnd(b, c) + 1 > Len(b)) /\ ~Closed(b, c)
      BY <2>2, <2>5, <2>7, EndIs
    <3>2. ~IsOpen(b, c) /\ ~HasMessage(b, c)
      BY <2>3, <2>4, <3>1 DEF HasMessage
    <3> QED
      BY <1>1, <3>2, ReadCases
  <2>8. ASSUME NEW e \in c + 3 .. Len(b), Verdict(b, c) = Complete(e) PROVE MessageAt(b, c, e)
    <3>1. /\ HasFields(b, c) /\ Measured(b, c) /\ Closed(b, c)
          /\ Complete(e) = Complete(BodyEnd(b, c) + 1)
      BY <2>2, <2>5, <2>8, EndIs
    <3>2. e = BodyEnd(b, c) + 1
      BY <3>1 DEF Complete
    <3>3. e \in c .. Len(b) /\ IsMessage(b, c, e)
      BY <1>1, <2>4, <3>1, <3>2
    <3> QED
      BY <1>1, <3>3, ReadCases
  <2> QED
    BY <2>6, <2>7, <2>8
<1> QED
  BY <1>2, <1>3

LEMMA BeforeTyped ==
  ASSUME NEW T, NEW r \in Flushed(T), NEW m, NEW v, Joined(<<m>>, r.emitted, v)
  PROVE  Before(m, r).emitted = v /\ Before(m, r).buffer = r.buffer
<1>1. PICK e, u : e = r.emitted /\ u = r.buffer
  OBVIOUS
<1>2. r = [emitted |-> e, buffer |-> u] /\ Joined(<<m>>, e, v)
  BY <1>1 DEF Flushed
<1>3. Before(m, r) = [emitted |-> v, buffer |-> u]
  BY <1>2, BeforeIs
<1> QED
  BY <1>1, <1>3

(* The three ways a scan goes on from c, for the induction along it.       *)
LEMMA FlushSteps ==
  ASSUME NEW T, NEW b \in Seq(T), NEW c \in 1 .. Len(b) + 1
  PROVE  \/ Candidate(b, c) /\ Verdict(b, c) = Incomplete /\ Flush(b)[c] = Rest(b, c)
         \/ /\ c \in 1 .. Len(b) /\ Flush(b)[c] = Flush(b)[c + 1]
            /\ ~Candidate(b, c) \/ (Candidate(b, c) /\ Verdict(b, c) = Invalid)
         \/ \E e \in c + 3 .. Len(b) :
               /\ c \in 1 .. Len(b) /\ Candidate(b, c) /\ Verdict(b, c) = Complete(e)
               /\ Flush(b)[c] = Before(Piece(b, c, e), Flush(b)[e + 1])
<1>1. CASE ~Candidate(b, c)
  <2>1. c # Len(b) + 1
    BY <1>1, BeginIs DEF Candidate
  <2>2. c \in 1 .. Len(b)
    BY <2>1
  <2> QED
    BY <1>1, <2>2, FlushSkips
<1>2. CASE Candidate(b, c)
  <2>1. Flush(b)[c] = ScanAt(b, c)
    BY <1>2, FlushAtCandidate
  <2>2. CASE Verdict(b, c) = Incomplete
    BY <1>2, <2>1, <2>2, ScanIs
  <2>3. CASE c \in 1 .. Len(b) /\ Verdict(b, c) = Invalid
    BY <1>2, <2>1, <2>3, ScanIs
  <2>4. ASSUME NEW e \in c + 3 .. Len(b), c \in 1 .. Len(b), Verdict(b, c) = Complete(e)
        PROVE  Flush(b)[c] = Before(Piece(b, c, e), Flush(b)[e + 1])
    BY <2>1, <2>4, ScanIs
  <2>5. \/ Verdict(b, c) = Incomplete
        \/ c \in 1 .. Len(b) /\ Verdict(b, c) = Invalid
        \/ \E e \in c + 3 .. Len(b) : c \in 1 .. Len(b) /\ Verdict(b, c) = Complete(e)
    BY Verdicts
  <2>6. CASE \E e \in c + 3 .. Len(b) : c \in 1 .. Len(b) /\ Verdict(b, c) = Complete(e)
    BY <1>2, <2>4, <2>6
  <2> QED
    BY <2>2, <2>3, <2>5, <2>6
<1> QED
  BY <1>1, <1>2

(* A scan emits the messages that the bytes contain, read as a whole.      *)
LEMMA FlushReads ==
  ASSUME NEW T, NEW b \in Seq(T)
  PROVE  \A c \in 1 .. Len(b) + 1 : Flush(b)[c].emitted = Read(b)[c].messages
<1> DEFINE N == Len(b) + 1
           S == {c \in 1 .. N : Flush(b)[c].emitted = Read(b)[c].messages}
<1>0. N \in Nat
  OBVIOUS
<1>1. ASSUME NEW c \in 1 .. N, \A k \in c + 1 .. N : k \in S PROVE c \in S
  <2>0. \A k \in c + 1 .. N : Flush(b)[k].emitted = Read(b)[k].messages
    BY <1>1
  <2> HIDE DEF S
  <2>1. ASSUME Candidate(b, c), Verdict(b, c) = Incomplete, Flush(b)[c] = Rest(b, c)
        PROVE  Flush(b)[c].emitted = Read(b)[c].messages
    <3>1. Flush(b)[c].emitted = <<>>
      BY <2>1 DEF Rest
    <3>2. StopsAt(b, c)
      <4>1. CASE c = Len(b) + 1
        <5>1. c > Len(b)
          BY <4>1
        <5> QED
          BY <5>1, ReadCases
      <4>2. CASE c \in 1 .. Len(b)
        BY <2>1, <4>2, VerdictReads
      <4> QED
        BY <4>1, <4>2
    <3> QED
      BY <3>1, <3>2 DEF StopsAt
  <2>2. ASSUME c \in 1 .. Len(b), Flush(b)[c] = Flush(b)[c + 1],
               ~Candidate(b, c) \/ (Candidate(b, c) /\ Verdict(b, c) = Invalid)
        PROVE  Flush(b)[c].emitted = Read(b)[c].messages
    <3>1. SkipsAt(b, c)
      <4>1. CASE ~Candidate(b, c)
        <5>1. ~IsOpen(b, c) /\ ~HasMessage(b, c)
          BY <2>2, <4>1, NoCandidateNothing
        <5> QED
          BY <2>2, <5>1, ReadCases
      <4>2. CASE Candidate(b, c) /\ Verdict(b, c) = Invalid
        BY <2>2, <4>2, VerdictReads
      <4> QED
        BY <2>2, <4>1, <4>2
    <3>2. c + 1 \in c + 1 .. N
      BY <2>2
    <3>3. Flush(b)[c + 1].emitted = Read(b)[c + 1].messages
      BY <2>0, <3>2
    <3> QED
      BY <2>2, <3>1, <3>3 DEF SkipsAt
  <2>3. ASSUME NEW e \in c + 3 .. Len(b), c \in 1 .. Len(b), Candidate(b, c),
               Verdict(b, c) = Complete(e),
               Flush(b)[c] = Before(Piece(b, c, e), Flush(b)[e + 1])
        PROVE  Flush(b)[c].emitted = Read(b)[c].messages
    <3>1. MessageAt(b, c, e)
      BY <2>3, VerdictReads
    <3>2. e + 1 \in c + 1 .. N /\ e + 1 \in 1 .. Len(b) + 1
      BY <2>3
    <3>3. PICK r \in Flushed(T) : r = Flush(b)[e + 1]
      BY <3>2, FlushTyped
    <3>4. r.emitted = Read(b)[e + 1].messages
      BY <2>0, <3>2, <3>3
    <3>5. PICK m, v : m = Piece(b, c, e) /\ v = <<m>> \o r.emitted
      OBVIOUS
    <3>6. Read(b)[c].messages = v
      BY <3>1, <3>4, <3>5 DEF MessageAt, Piece
    <3>7. Joined(<<m>>, r.emitted, v)
      BY <3>5 DEF Joined
    <3>8. Before(m, r).emitted = v
      BY <3>7, BeforeTyped
    <3> QED
      BY <2>3, <3>3, <3>5, <3>6, <3>8
  <2>4. Flush(b)[c].emitted = Read(b)[c].messages
    BY FlushSteps, <2>1, <2>2, <2>3
  <2> QED
    BY <2>4 DEF S
<1> HIDE DEF S, N
<1>2. \A c \in 1 .. N : c \in S
  BY <1>0, <1>1, DownwardInduction
<1> QED
  BY <1>2 DEF S, N

(* What a scan leaves begins where a begin string may begin.               *)
LeavesFrom(b, c, s) == /\ Candidate(b, s) /\ s \in c .. Len(b) + 1
                       /\ Flush(b)[c].buffer = Piece(b, s, Len(b))

LEMMA FlushLeaves ==
  ASSUME NEW T, NEW b \in Seq(T)
  PROVE  \A c \in 1 .. Len(b) + 1 : \E s : LeavesFrom(b, c, s)
<1> DEFINE N == Len(b) + 1
           S == {c \in 1 .. N : \E s : LeavesFrom(b, c, s)}
<1>0. N \in Nat
  OBVIOUS
<1>1. ASSUME NEW c \in 1 .. N, \A k \in c + 1 .. N : k \in S PROVE c \in S
  <2>0. \A k \in c + 1 .. N : \E s : LeavesFrom(b, k, s)
    BY <1>1
  <2> HIDE DEF S
  <2>1. ASSUME Candidate(b, c), Flush(b)[c] = Rest(b, c) PROVE \E s : LeavesFrom(b, c, s)
    BY <2>1 DEF LeavesFrom, Rest
  <2>2. ASSUME c \in 1 .. Len(b), Flush(b)[c] = Flush(b)[c + 1]
        PROVE  \E s : LeavesFrom(b, c, s)
    <3>1. c + 1 \in c + 1 .. N
      BY <2>2
    <3>2. PICK s : LeavesFrom(b, c + 1, s)
      BY <2>0, <3>1
    <3>3. LeavesFrom(b, c, s)
      BY <2>2, <3>2 DEF LeavesFrom
    <3> QED
      BY <3>3
  <2>3. ASSUME NEW e \in c + 3 .. Len(b),
               Flush(b)[c] = Before(Piece(b, c, e), Flush(b)[e + 1])
        PROVE  \E s : LeavesFrom(b, c, s)
    <3>1. e + 1 \in c + 1 .. N /\ e + 1 \in 1 .. Len(b) + 1
      BY <2>3
    <3>2. PICK s : LeavesFrom(b, e + 1, s)
      BY <2>0, <3>1
    <3>3. PICK r \in Flushed(T) : r = Flush(b)[e + 1]
      BY <3>1, FlushTyped
    <3>4. PICK m, v : m = Piece(b, c, e) /\ Joined(<<m>>, r.emitted, v)
      BY DEF Joined
    <3>5. Before(m, r).buffer = r.buffer
      BY <3>4, BeforeTyped
    <3>6. LeavesFrom(b, c, s)
      <4>1. s \in c .. Len(b) + 1 /\ Candidate(b, s)
        BY <3>1, <3>2 DEF LeavesFrom
      <4>2. Flush(b)[c].buffer = Piece(b, s, Len(b))
        BY <2>3, <3>2, <3>3, <3>4, <3>5 DEF LeavesFrom
      <4> QED
        BY <4>1, <4>2 DEF LeavesFrom
    <3> QED
      BY <3>6
  <2>4. \E s : LeavesFrom(b, c, s)
    BY FlushSteps, <2>1, <2>2, <2>3
  <2> QED
    BY <2>4 DEF S
<1> HIDE DEF S, N
<1>2. \A c \in 1 .. N : c \in S
  BY <1>0, <1>1, DownwardInduction
<1> QED
  BY <1>2 DEF S, N

(* Bytes that end in the middle of a message leave something to keep.      *)
LEMMA OpenAt ==
  ASSUME NEW T, NEW b \in Seq(T), NEW c \in 1 .. Len(b), NEW e \in c .. Len(b),
         IsMessage(b, c, e)
  PROVE  Read(b)[c].open = Read(b)[e + 1].open
<1>1. Read(b)[c] = ReadAt(b, Read(b), c)
  BY ReadFollows
<1>2. ~IsOpen(b, c) /\ HasMessage(b, c) /\ MessageEnd(b, c) = e
  BY OpenOrMessage, MessageUnique
<1>3. PICK r \in ReadTyped(T) : r = Read(b)[e + 1]
  <2>1. e + 1 \in 1 .. Len(b) + 1
    OBVIOUS
  <2> QED
    BY <2>1, ReadTypes
<1>4. PICK v : v = <<SubSeq(b, c, e)>> \o r.messages
  OBVIOUS
<1>5. Read(b)[c] = [r EXCEPT !.messages = v]
  BY <1>1, <1>2, <1>3, <1>4 DEF ReadAt
<1> QED
  BY <1>3, <1>5 DEF ReadTyped

LEMMA OpenIsKept ==
  ASSUME NEW T, NEW b \in Seq(T)
  PROVE  \A c \in 1 .. Len(b) + 1 : Read(b)[c].open => Flush(b)[c].buffer # <<>>
<1> DEFINE N == Len(b) + 1
           S == {c \in 1 .. N : Read(b)[c].open => Flush(b)[c].buffer # <<>>}
<1>0. N \in Nat
  OBVIOUS
<1>1. ASSUME NEW c \in 1 .. N, \A k \in c + 1 .. N : k \in S PROVE c \in S
  <2>0. \A k \in c + 1 .. N : Read(b)[k].open => Flush(b)[k].buffer # <<>>
    BY <1>1
  <2> HIDE DEF S
  <2>1. ASSUME Flush(b)[c] = Rest(b, c), Read(b)[c].open
        PROVE  Flush(b)[c].buffer # <<>>
    <3>1. c <= Len(b)
      <4>1. Read(b)[c] = ReadAt(b, Read(b), c)
        BY ReadFollows
      <4>2. c > Len(b) => Read(b)[c] = [messages |-> <<>>, open |-> FALSE]
        BY <4>1 DEF ReadAt
      <4> QED
        BY <2>1, <4>2
    <3>2. PICK u : u = Piece(b, c, Len(b))
      OBVIOUS
    <3>3. u \in Seq(T) /\ Len(u) = Len(b) - c + 1
      BY <3>1, <3>2, SubSeqIs DEF Piece
    <3>4. u # <<>>
      BY <3>1, <3>3, EmptySeq
    <3> QED
      BY <2>1, <3>2, <3>4 DEF Rest
  <2>2. ASSUME c \in 1 .. Len(b), Flush(b)[c] = Flush(b)[c + 1],
               ~Candidate(b, c) \/ (Candidate(b, c) /\ Verdict(b, c) = Invalid)
        PROVE  Read(b)[c].open => Flush(b)[c].buffer # <<>>
    <3>1. SkipsAt(b, c)
      <4>1. CASE ~Candidate(b, c)
        <5>1. ~IsOpen(b, c) /\ ~HasMessage(b, c)
          BY <2>2, <4>1, NoCandidateNothing
        <5> QED
          BY <2>2, <5>1, ReadCases
      <4>2. CASE Candidate(b, c) /\ Verdict(b, c) = Invalid
        BY <2>2, <4>2, VerdictReads
      <4> QED
        BY <2>2, <4>1, <4>2
    <3>2. c + 1 \in c + 1 .. N
      BY <2>2
    <3>3. Read(b)[c + 1].open => Flush(b)[c + 1].buffer # <<>>
      BY <2>0, <3>2
    <3> QED
      BY <2>2, <3>1, <3>3 DEF SkipsAt
  <2>3. ASSUME NEW e \in c + 3 .. Len(b), c \in 1 .. Len(b), Candidate(b, c),
               Verdict(b, c) = Complete(e),
               Flush(b)[c] = Before(Piece(b, c, e), Flush(b)[e + 1])
        PROVE  Read(b)[c].open => Flush(b)[c].buffer # <<>>
    <3>0. MessageAt(b, c, e)
      BY <2>3, VerdictReads
    <3>1. IsMessage(b, c, e) /\ e \in c .. Len(b)
      BY <2>3, <3>0 DEF MessageAt
    <3>2. e + 1 \in c + 1 .. N /\ e + 1 \in 1 .. Len(b) + 1
      BY <2>3
    <3>3. Read(b)[e + 1].open => Flush(b)[e + 1].buffer # <<>>
      BY <2>0, <3>2
    <3>4. PICK r \in Flushed(T) : r = Flush(b)[e + 1]
      BY <3>2, FlushTyped
    <3>5. PICK m, v : m = Piece(b, c, e) /\ Joined(<<m>>, r.emitted, v)
      BY DEF Joined
    <3>6. Before(m, r).buffer = r.buffer
      BY <3>5, BeforeTyped
    <3>7. Read(b)[c].open = Read(b)[e + 1].open
      BY <2>3, <3>1, OpenAt
    <3>8. Flush(b)[c].buffer = Flush(b)[e + 1].buffer
      BY <2>3, <3>4, <3>5, <3>6
    <3> QED
      BY <3>3, <3>7, <3>8
  <2>4. Read(b)[c].open => Flush(b)[c].buffer # <<>>
    BY FlushSteps, <2>1, <2>2, <2>3
  <2> QED
    BY <2>4 DEF S
<1> HIDE DEF S, N
<1>2. \A c \in 1 .. N : c \in S
  BY <1>0, <1>1, DownwardInduction
<1> QED
  BY <1>2 DEF S, N

-----------------------------------------------------------------------------
(* What the callers of flush_complete_messages rely on.                    *)

(* A call emits messages and leaves bytes that fit where the buffer was.   *)
THEOREM FlushIsBounded ==
  ASSUME NEW T, NEW b \in Seq(T)
  PROVE  /\ FlushCompleteMessages(b) \in Flushed(T)
         /\ Len(FlushCompleteMessages(b).buffer) <= Len(b)
  BY FlushIs, FlushedFrom

(* Without bytes there is nothing to emit or to leave.                     *)
THEOREM FlushNothing == FlushCompleteMessages(<<>>) = [emitted |-> <<>>, buffer |-> <<>>]
<1>1. PICK T, b : b \in Seq(T) /\ b = <<>>
  BY EmptySeq
<1>2. Len(b) = 0 /\ 1 \in 1 .. Len(b) + 1 /\ 1 > Len(b)
  BY <1>1
<1>3. PICK r \in Flushed(T) : r = Flush(b)[1]
  BY <1>1, FlushedFrom
<1>4. r.buffer = <<>>
  <2>1. r.buffer \in Seq(T) /\ Len(r.buffer) <= Len(b)
    BY <1>1, <1>3, FlushedFrom DEF Flushed
  <2>2. Len(r.buffer) = 0
    BY <1>2, <2>1
  <2> QED
    BY <2>1, <2>2, EmptySeq
<1>5. r.emitted = <<>>
  <2>1. StopsAt(b, 1)
    BY <1>1, <1>2, ReadCases
  <2> QED
    BY <1>1, <1>2, <1>3, <2>1, FlushReads DEF StopsAt
<1>6. r = [emitted |-> <<>>, buffer |-> <<>>]
  BY <1>3, <1>4, <1>5 DEF Flushed
<1> QED
  BY <1>1, <1>3, <1>6, FlushIs

(* A call emits exactly the messages its bytes contain, read as a whole:   *)
(* none is lost, none is emitted twice, none is made of the bytes of a     *)
(* body or of a message that is malformed.                                 *)
THEOREM FlushEmitsMessages ==
  ASSUME NEW T, NEW b \in Seq(T)
  PROVE  FlushCompleteMessages(b).emitted = Messages(b)
<1>1. 1 \in 1 .. Len(b) + 1
  OBVIOUS
<1> QED
  BY <1>1, FlushIs, ReadIs, FlushReads DEF Messages

(* Cutting the bytes makes no difference: a call, and another one when x   *)
(* has arrived, emit and leave what a single call on all the bytes would.  *)
THEOREM FlushInPieces ==
  ASSUME NEW T, NEW b \in Seq(T), NEW x \in Seq(T)
  PROVE  LET first == FlushCompleteMessages(b)
             next  == FlushCompleteMessages(first.buffer \o x)
         IN  FlushCompleteMessages(b \o x) =
               [emitted |-> first.emitted \o next.emitted, buffer |-> next.buffer]
<1>1. PICK d : d = b \o x
  OBVIOUS
<1>2. Joined(b, x, d) /\ 1 \in 1 .. Len(b) + 1
  BY <1>1 DEF Joined
<1>3. Flush(d)[1] = Continued(Flush(b)[1], x)
  BY <1>2, FlushContinues
<1> QED
  BY <1>1, <1>3, FlushIs DEF Continued

(* What a flush leaves has no message in it: flushing it again changes     *)
(* nothing.                                                                *)
THEOREM FlushSettles ==
  ASSUME NEW T, NEW b \in Seq(T), NEW u, u = FlushCompleteMessages(b).buffer
  PROVE  FlushCompleteMessages(u) = [emitted |-> <<>>, buffer |-> u]
<1>1. PICK v \in Flushed(T) : v = FlushCompleteMessages(b)
  BY FlushIsBounded
<1>2. u \in Seq(T)
  BY <1>1 DEF Flushed
<1>3. PICK w \in Flushed(T) : w = FlushCompleteMessages(u)
  BY <1>2, FlushIsBounded
<1>4. b \o <<>> = b /\ u \o <<>> = u /\ <<>> \in Seq(T)
  BY <1>2, ConcatEmptySeq, EmptySeq
<1>5. FlushCompleteMessages(b \o <<>>) =
        [emitted |-> FlushCompleteMessages(b).emitted \o
                       FlushCompleteMessages(FlushCompleteMessages(b).buffer \o <<>>).emitted,
         buffer |-> FlushCompleteMessages(FlushCompleteMessages(b).buffer \o <<>>).buffer]
  BY <1>4, FlushInPieces
<1>6. v = [emitted |-> v.emitted \o w.emitted, buffer |-> w.buffer]
  BY <1>1, <1>3, <1>4, <1>5
<1>7. PICK x, y \in Seq(Seq(T)) : x = v.emitted /\ y = w.emitted
  BY DEF Flushed
<1>8. x \o y = x
  BY <1>6, <1>7
<1>9. y = <<>>
  BY <1>8, ConcatSimplifications!idRight
<1>10. w.buffer = u
  BY <1>1, <1>6
<1> QED
  BY <1>3, <1>7, <1>9, <1>10 DEF Flushed

(* Bytes that end in the middle of a message are not all given away.       *)
THEOREM FlushKeepsOpen ==
  ASSUME NEW T, NEW b \in Seq(T), ReadWhole(b).open
  PROVE  FlushCompleteMessages(b).buffer # <<>>
<1>1. 1 \in 1 .. Len(b) + 1
  OBVIOUS
<1> QED
  BY <1>1, FlushIs, ReadIs, OpenIsKept

(* What a call leaves begins with a begin string, or is the beginning of   *)
(* one that the end of the bytes cut in two.                               *)
THEOREM FlushLeavesCandidate ==
  ASSUME NEW T, NEW b \in Seq(T), NEW u, u = FlushCompleteMessages(b).buffer
  PROVE  \/ StartsWith(u, 1, BeginString)
         \/ \E n \in 0 .. Len(BeginString) - 1 : u = SubSeq(BeginString, 1, n)
<1>1. 1 \in 1 .. Len(b) + 1
  OBVIOUS
<1>2. PICK s : LeavesFrom(b, 1, s)
  BY <1>1, FlushLeaves
<1>3. s \in 1 .. Len(b) + 1 /\ Candidate(b, s) /\ u = SubSeq(b, s, Len(b))
  BY <1>2, FlushIs DEF LeavesFrom, Piece
<1>4. u \in Seq(T) /\ Len(u) = Len(b) + 1 - s
  BY <1>3, SubSeqIs
<1>5. Len(BeginString) \in Nat \ {0}
  BY BeginIs
<1>6. CASE Len(u) >= Len(BeginString)
  <2>1. Candidate(u, 1)
    <3>1. 1 \in 1 .. Len(u) + 1 /\ s + 1 - 1 = s
      BY <1>3, <1>4
    <3>2. Candidate(u, 1) <=> Candidate(b, s + 1 - 1)
      BY <1>3, <3>1, CandidateOfSuffix
    <3> QED
      BY <1>3, <3>1, <3>2
  <2>2. 1 + Len(BeginString) - 1 <= Len(u)
    BY <1>4, <1>5, <1>6
  <2> QED
    BY <1>4, <2>1, <2>2, StartsIff
<1>7. CASE ~(Len(u) >= Len(BeginString))
  <2>1. PICK n \in 0 .. Len(b) : n = Len(u) /\ Len(b) - n + 1 = s
    <3>1. Len(u) \in 0 .. Len(b) /\ Len(b) - Len(u) + 1 = s
      BY <1>3, <1>4
    <3> QED
      BY <3>1
  <2>2. n < Len(BeginString) /\ n \in 0 .. Len(BeginString) - 1
    BY <1>5, <1>7, <2>1
  <2>3. Keeps(b, n)
    BY <1>3, <2>1, <2>2, KeepsIff
  <2>4. u = SubSeq(BeginString, 1, n)
    BY <1>3, <2>1, <2>3 DEF Keeps
  <2> QED
    BY <2>2, <2>4
<1> QED
  BY <1>6, <1>7

==============================================================================
