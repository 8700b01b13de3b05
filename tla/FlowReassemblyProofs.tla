------------------------ MODULE FlowReassemblyProofs ------------------------
(***************************************************************************)
(* The arithmetic of sequence numbers that reassembly rests on, for a      *)
(* space of any (even) size, 2^32 included, and wherever in it a flow is:  *)
(* what follows the last byte is appended, what was received before is cut *)
(* off, and no segment is both early and late.  On it rests what holds of  *)
(* a flow between packets, whatever is captured and in whatever order.     *)
(***************************************************************************)
EXTENDS FlowReassembly, FramingProofs

USE FlowAssumption

Half == SeqSpace \div 2
Numbers == 0 .. SeqSpace - 1

LEMMA HalfTwice == Half \in Nat \ {0} /\ SeqSpace = 2 * Half
  BY DEF Half

(* Remainders, of numbers below twice the divisor.                         *)
LEMMA ModBelow ==
  ASSUME NEW m \in Nat \ {0}, NEW x \in 0 .. m - 1
  PROVE  x % m = x
  OBVIOUS

LEMMA ModAbove ==
  ASSUME NEW m \in Nat \ {0}, NEW x \in m .. 2 * m - 1
  PROVE  x % m = x - m
  OBVIOUS

LEMMA AddCases ==
  ASSUME NEW s \in Numbers, NEW n \in Numbers
  PROVE  /\ SeqAdd(s, n) \in Numbers
         /\ SeqAdd(s, n) = s + n \/ SeqAdd(s, n) = s + n - SeqSpace
<1>1. CASE s + n < SeqSpace
  BY <1>1, ModBelow DEF SeqAdd, Numbers
<1>2. CASE s + n >= SeqSpace
  BY <1>2, ModAbove DEF SeqAdd, Numbers
<1> QED
  BY <1>1, <1>2 DEF Numbers

LEMMA SubCases ==
  ASSUME NEW a \in Numbers, NEW b \in Numbers
  PROVE  /\ SeqSub(a, b) \in Numbers
         /\ a >= b => SeqSub(a, b) = a - b
         /\ a < b => SeqSub(a, b) = a - b + SeqSpace
<1>1. CASE a < b
  BY <1>1, ModBelow DEF SeqSub, Numbers
<1>2. CASE a >= b
  BY <1>2, ModAbove DEF SeqSub, Numbers
<1> QED
  BY <1>1, <1>2 DEF Numbers

(* How far apart two numbers are, that lie d and n ahead of a third.       *)
LEMMA Distance ==
  ASSUME NEW s \in Numbers, NEW d \in Numbers, NEW n \in Numbers
  PROVE  SeqSub(SeqAdd(s, n), SeqAdd(s, d)) = IF n >= d THEN n - d ELSE n - d + SeqSpace
<1>1. PICK a : a = SeqAdd(s, n)
  OBVIOUS
<1>2. PICK b : b = SeqAdd(s, d)
  OBVIOUS
<1>3. /\ a \in Numbers /\ b \in Numbers
      /\ a = s + n \/ a = s + n - SeqSpace
      /\ b = s + d \/ b = s + d - SeqSpace
  BY <1>1, <1>2, AddCases
<1>4. /\ a >= b => SeqSub(a, b) = a - b
      /\ a < b => SeqSub(a, b) = a - b + SeqSpace
  BY <1>3, SubCases
<1>5. SeqSub(a, b) = IF n >= d THEN n - d ELSE n - d + SeqSpace
  BY <1>3, <1>4 DEF Numbers
<1> QED
  BY <1>1, <1>2, <1>5

LEMMA AddNothing ==
  ASSUME NEW s \in Numbers
  PROVE  SeqAdd(s, 0) = s
  BY ModBelow DEF SeqAdd, Numbers

(* Of two numbers less than half the space apart, exactly the one that     *)
(* lies ahead is after the other.                                          *)
THEOREM AfterIsAhead ==
  ASSUME NEW s \in Numbers, NEW d \in 1 .. Half - 1
  PROVE  SequenceAfter(SeqAdd(s, d), s) /\ ~SequenceAfter(s, SeqAdd(s, d))
<1>1. d \in Numbers /\ 0 \in Numbers
  BY HalfTwice DEF Numbers
<1>2. SeqSub(SeqAdd(s, d), s) = d
  BY <1>1, Distance, AddNothing
<1>3. SeqSub(s, SeqAdd(s, d)) = SeqSpace - d
  BY <1>1, Distance, AddNothing
<1> QED
  BY <1>2, <1>3, HalfTwice DEF SequenceAfter, Half

LEMMA AddOn ==
  ASSUME NEW s \in Numbers, NEW d \in Numbers, NEW n \in Numbers, n >= d
  PROVE  SeqAdd(SeqAdd(s, d), n - d) = SeqAdd(s, n)
<1>1. PICK b : b = SeqAdd(s, d)
  OBVIOUS
<1>2. PICK k : k = n - d
  OBVIOUS
<1>3. k \in Numbers /\ n = d + k
  BY <1>2 DEF Numbers
<1>4. b \in Numbers /\ (b = s + d \/ b = s + d - SeqSpace)
  BY <1>1, AddCases
<1>5. SeqAdd(b, k) \in Numbers /\ (SeqAdd(b, k) = b + k \/ SeqAdd(b, k) = b + k - SeqSpace)
  BY <1>3, <1>4, AddCases
<1>6. SeqAdd(s, n) \in Numbers /\ (SeqAdd(s, n) = s + n \/ SeqAdd(s, n) = s + n - SeqSpace)
  BY AddCases
<1>7. SeqAdd(b, k) = SeqAdd(s, n)
  BY <1>3, <1>4, <1>5, <1>6 DEF Numbers
<1> QED
  BY <1>1, <1>2, <1>7

(* A segment that begins d bytes before the expected one, less than half   *)
(* the space away, as far as it reaches: if it holds more than those d     *)
(* bytes, exactly the bytes from the expected one on join the buffer, and  *)
(* the byte after them is expected next; if not, nothing changes.          *)
THEOREM SegmentJoins ==
  ASSUME NEW T, NEW f, NEW payload \in Seq(T), payload # <<>>,
         NEW s \in Numbers, NEW d \in 0 .. Half - 1,
         Len(payload) \in Numbers, Len(payload) - d < Half,
         f.next_seq = SeqAdd(s, d)
  PROVE  AppendSegment(f, s, payload) =
           IF Len(payload) > d
           THEN [f EXCEPT !.buffer = @ \o SubSeq(payload, d + 1, Len(payload)),
                             !.next_seq = SeqAdd(s, Len(payload))]
           ELSE f
<1> DEFINE expected == Expected(f, s)
           fresh    == SubSeq(payload, d + 1, Len(payload))
<1>1. PICK n : n = Len(payload)
  OBVIOUS
<1>2. n \in Numbers /\ d \in Numbers /\ 0 \in Numbers /\ n > 0 /\ n - d < Half /\ Half \in Nat
  BY <1>1, HalfTwice, EmptySeq, LenProperties DEF Numbers
<1>3. SeqAdd(s, d) \in Numbers
  BY <1>2, AddCases
<1>4. expected = SeqAdd(s, d)
  BY <1>3 DEF Expected, Numbers
<1>5. SeqSub(expected, s) = d
  <2>1. SeqSub(SeqAdd(s, d), SeqAdd(s, 0)) = d
    BY <1>2, Distance DEF Numbers
  <2> QED
    BY <2>1, <1>4, AddNothing
<1>6. s = expected <=> d = 0
  <2>1. d = 0 => s = expected
    BY <1>4, AddNothing
  <2>2. s = expected => SeqSub(expected, s) = 0
    <3>1. s >= s => SeqSub(s, s) = s - s
      BY SubCases
    <3> QED
      BY <3>1 DEF Numbers
  <2> QED
    BY <2>1, <2>2, <1>5
<1>7. SequenceAfter(SeqAdd(s, n), expected) <=> n > d
  <2>1. SeqSub(SeqAdd(s, n), expected) = IF n >= d THEN n - d ELSE n - d + SeqSpace
    BY <1>2, <1>4, Distance
  <2> QED
    BY <2>1, <1>2, HalfTwice DEF SequenceAfter, Half, Numbers
<1> HIDE DEF expected
<1>8. AppendSegment(f, s, payload) =
        IF n > d THEN [f EXCEPT !.buffer = @ \o fresh, !.next_seq = SeqAdd(expected, Len(fresh))]
        ELSE f
  BY <1>1, <1>2, <1>5, <1>6, <1>7 DEF AppendSegment, expected, Numbers
<1>9. n > d => SeqAdd(expected, Len(fresh)) = SeqAdd(s, n)
  <2>1. n > d => Len(fresh) = n - d
    <3>1. \A i \in d + 1 .. n : payload[i] \in T
      BY <1>1, <1>2, ElementOfSeq DEF Numbers
    <3> QED
      BY <3>1, <1>1, <1>2, SubSeqProperties DEF Numbers
  <2> QED
    BY <2>1, <1>2, <1>4, AddOn DEF Numbers
<1> QED
  BY <1>1, <1>8, <1>9

-----------------------------------------------------------------------------
(* What a flow is made of: bytes some peer sends, and numbers of the space.*)
Bytes    == UNION {Range(Sent[c]) : c \in DOMAIN Sent}
Payloads == Seq(Bytes)
Pendings == UNION {[D -> Payloads] : D \in SUBSET Numbers}
Flows    == [next_seq : Numbers, buffer : Payloads, pending : Pendings]
FlowRec(n, b, p) == [next_seq |-> n, buffer |-> b, pending |-> p]

LEMMA FlowIs ==
  ASSUME NEW f \in Flows
  PROVE  /\ f.next_seq \in Numbers /\ f.buffer \in Payloads /\ f.pending \in Pendings
         /\ f = FlowRec(f.next_seq, f.buffer, f.pending)
  BY DEF Flows, FlowRec

LEMMA IsFlow ==
  ASSUME NEW n \in Numbers, NEW b \in Payloads, NEW p \in Pendings
  PROVE  FlowRec(n, b, p) \in Flows
  BY DEF Flows, FlowRec

LEMMA PendingIs ==
  ASSUME NEW p \in Pendings
  PROVE  /\ DOMAIN p \subseteq Numbers
         /\ p = [s \in DOMAIN p |-> p[s]]
         /\ \A s \in DOMAIN p : p[s] \in Payloads
<1>1. PICK D \in SUBSET Numbers : p \in [D -> Payloads]
  BY DEF Pendings
<1> QED
  BY <1>1

LEMMA IsPending ==
  ASSUME NEW D \in SUBSET Numbers, NEW p \in [D -> Payloads]
  PROVE  p \in Pendings
  BY DEF Pendings

LEMMA NumbersAreFinite == IsFiniteSet(Numbers)
  BY FS_Interval DEF Numbers

(* What is left of a number modulo the space is a number of the space.     *)
LEMMA ModIsNumber ==
  ASSUME NEW x \in Nat
  PROVE  x % SeqSpace \in Numbers
  BY DEF Numbers

LEMMA AddIsNumber ==
  ASSUME NEW x \in Nat, NEW y \in Nat
  PROVE  SeqAdd(x, y) \in Numbers
<1>1. x + y \in Nat
  OBVIOUS
<1> QED
  BY <1>1, ModIsNumber DEF SeqAdd

LEMMA NoSeqIsNoNumber == NoSeq \notin Numbers
  BY DEF Numbers

(* What follows the first k bytes of a payload.                            *)
LEMMA RestOfPayload ==
  ASSUME NEW p \in Payloads, NEW k \in Nat
  PROVE  /\ SubSeq(p, k + 1, Len(p)) \in Payloads
         /\ Len(SubSeq(p, k + 1, Len(p))) \in Nat
<1>1. Len(p) \in Nat /\ \A i \in 1 .. Len(p) : p[i] \in Bytes
  BY DEF Payloads
<1>2. \A i \in k + 1 .. Len(p) : p[i] \in Bytes
  BY <1>1
<1>3. SubSeq(p, k + 1, Len(p)) \in Seq(Bytes)
  BY <1>1, <1>2, SubSeqProperties
<1> QED
  BY <1>3 DEF Payloads

(* A segment appended to a flow leaves a flow that expects some byte, and  *)
(* leaves the early segments alone.                                        *)
LEMMA AppendKeeps ==
  ASSUME NEW n \in Numbers \cup {NoSeq}, NEW b \in Payloads, NEW p \in Pendings,
         NEW s \in Numbers, NEW payload \in Payloads
  PROVE  /\ AppendSegment(FlowRec(n, b, p), s, payload) \in Flows
         /\ AppendSegment(FlowRec(n, b, p), s, payload).pending = p
<1>1. PICK f : f = FlowRec(n, b, p)
  OBVIOUS
<1>2. f.next_seq = n /\ f.buffer = b /\ f.pending = p
  BY <1>1 DEF FlowRec
<1>3. PICK e \in Numbers : e = Expected(f, s)
  BY <1>2 DEF Expected
<1>4. PICK k \in Nat : k = SeqSub(e, s)
  BY SubCases DEF Numbers
<1>5. PICK fresh \in Payloads : fresh = SubSeq(payload, k + 1, Len(payload))
  BY RestOfPayload
<1>6. PICK m \in Numbers : m = SeqAdd(e, Len(fresh))
  <2>1. e \in Nat /\ Len(fresh) \in Nat
    BY DEF Numbers, Payloads
  <2> QED
    BY <2>1, AddIsNumber
<1>7. PICK bf \in Payloads : bf = b \o fresh
  BY ConcatProperties DEF Payloads
<1>8. \/ AppendSegment(f, s, payload) = [f EXCEPT !.buffer = f.buffer \o fresh, !.next_seq = m]
      \/ s # e /\ AppendSegment(f, s, payload) = f
  BY <1>3, <1>4, <1>5, <1>6 DEF AppendSegment
<1>9. [f EXCEPT !.buffer = f.buffer \o fresh, !.next_seq = m] = FlowRec(m, bf, p)
  <2>1. f.buffer \o fresh = bf
    BY <1>2, <1>7
  <2>2. [f EXCEPT !.buffer = bf, !.next_seq = m] = [[f EXCEPT !.buffer = bf] EXCEPT !.next_seq = m]
    OBVIOUS
  <2>3. PICK h : h = [f EXCEPT !.buffer = bf]
    OBVIOUS
  <2>4. h = [next_seq |-> n, buffer |-> bf, pending |-> p]
    BY <1>1, <2>3 DEF FlowRec
  <2>5. [h EXCEPT !.next_seq = m] = FlowRec(m, bf, p)
    BY <2>4 DEF FlowRec
  <2> QED
    BY <2>1, <2>2, <2>3, <2>5
<1>10. s # e => n \in Numbers
  BY <1>2, <1>3 DEF Expected
<1>11. FlowRec(m, bf, p) \in Flows /\ FlowRec(m, bf, p).pending = p
  BY IsFlow DEF FlowRec
<1>12. n \in Numbers => f \in Flows
  BY <1>1, IsFlow
<1> QED
  BY <1>1, <1>2, <1>8, <1>9, <1>10, <1>11, <1>12

(* So does an early segment that is stored.                                *)
LEMMA StoreKeeps ==
  ASSUME NEW f \in Flows, NEW s \in Numbers, NEW payload \in Payloads
  PROVE  StoreFutureSegment(f, s, payload) \in Flows
<1>1. PICK p \in Pendings : p = f.pending
  BY FlowIs
<1>2. PICK q : q = [t \in DOMAIN p \cup {s} |-> IF t = s THEN payload ELSE p[t]]
  OBVIOUS
<1>3. q \in Pendings
  <2>1. DOMAIN p \cup {s} \in SUBSET Numbers
    BY PendingIs
  <2>2. q \in [DOMAIN p \cup {s} -> Payloads]
    BY <1>2, PendingIs
  <2> QED
    BY <2>1, <2>2, IsPending
<1>4. StoreFutureSegment(f, s, payload) \in {f, [f EXCEPT !.pending = q]}
  BY <1>1, <1>2 DEF StoreFutureSegment
<1>5. [f EXCEPT !.pending = q] = FlowRec(f.next_seq, f.buffer, q)
  BY DEF Flows, FlowRec
<1>6. FlowRec(f.next_seq, f.buffer, q) \in Flows
  BY <1>3, FlowIs, IsFlow
<1> QED
  BY <1>4, <1>5, <1>6

(* One turn of the drain loop takes out one early segment, if one of them  *)
(* begins at or before the expected byte.                                  *)
Ready(f) == {s \in DOMAIN f.pending : ~SequenceAfter(s, f.next_seq)}
Waiting(f) == Cardinality(DOMAIN f.pending)

LEMMA WaitingIs ==
  ASSUME NEW f \in Flows
  PROVE  /\ IsFiniteSet(DOMAIN f.pending) /\ Waiting(f) \in Nat
         /\ Waiting(f) = 0 => Ready(f) = {}
<1>1. DOMAIN f.pending \subseteq Numbers
  BY FlowIs, PendingIs
<1>2. IsFiniteSet(DOMAIN f.pending)
  BY <1>1, NumbersAreFinite, FS_Subset
<1>3. Waiting(f) \in Nat
  BY <1>2, FS_CardinalityType DEF Waiting
<1>4. Waiting(f) = 0 => DOMAIN f.pending = {}
  BY <1>2, FS_EmptySet DEF Waiting
<1> QED
  BY <1>2, <1>3, <1>4 DEF Ready

Nearest(f) == CHOOSE s \in Ready(f) : \A t \in Ready(f) :
                 SeqSub(f.next_seq, s) <= SeqSub(f.next_seq, t)

LEMMA NearestIs ==
  ASSUME NEW f \in Flows, Ready(f) # {}
  PROVE  Nearest(f) \in Ready(f)
<1>1. PICK n \in Numbers : n = f.next_seq
  BY FlowIs
<1>2. Ready(f) \subseteq Numbers
  BY FlowIs, PendingIs DEF Ready
<1> DEFINE D == {SeqSub(n, t) : t \in Ready(f)}
<1>3. ASSUME NEW t \in Ready(f) PROVE SeqSub(n, t) \in Nat
  <2>1. t \in Numbers
    BY <1>2
  <2>2. SeqSub(n, t) \in Numbers
    BY <2>1, SubCases
  <2> QED
    BY <2>2 DEF Numbers
<1>4. D \subseteq Nat /\ D # {}
  BY <1>3
<1>5. PICK d \in D : \A e \in D : d <= e
  <2> HIDE DEF D
  <2> QED
    BY <1>4, LeastNumber
<1>6. PICK s \in Ready(f) : \A t \in Ready(f) : SeqSub(n, s) <= SeqSub(n, t)
  BY <1>5
<1> QED
  BY <1>1, <1>6 DEF Nearest

Without(p, s) == [t \in DOMAIN p \ {s} |-> p[t]]

LEMMA DrainOneIs ==
  ASSUME NEW f \in Flows, Ready(f) # {}
  PROVE  DrainOne(f) = AppendSegment(
             FlowRec(f.next_seq, f.buffer, Without(f.pending, Nearest(f))),
             Nearest(f), f.pending[Nearest(f)])
<1>1. PICK s : s = Nearest(f)
  OBVIOUS
<1>2. PICK p : p = f.pending
  OBVIOUS
<1>3. f.next_seq # NoSeq
  BY FlowIs, NoSeqIsNoNumber
<1>4. RestrictDomain(p, LAMBDA t : t # s) = Without(p, s)
  BY DEF RestrictDomain, Restrict, Without
<1>5. DrainOne(f) = AppendSegment(
          [f EXCEPT !.pending = RestrictDomain(f.pending, LAMBDA t : t # s)], s, f.pending[s])
  BY <1>1, <1>3 DEF DrainOne, Ready, Nearest
<1>6. PICK q : q = Without(p, s)
  OBVIOUS
<1>7. [f EXCEPT !.pending = q] = FlowRec(f.next_seq, f.buffer, q)
  BY DEF Flows, FlowRec
<1> QED
  BY <1>1, <1>2, <1>4, <1>5, <1>6, <1>7

LEMMA DrainOneNothing ==
  ASSUME NEW f, Ready(f) = {}
  PROVE  DrainOne(f) = f
  BY DEF DrainOne, Ready

LEMMA DrainOneTakes ==
  ASSUME NEW f \in Flows
  PROVE  /\ DrainOne(f) \in Flows
         /\ Ready(f) = {} => DrainOne(f) = f
         /\ Ready(f) # {} => Waiting(DrainOne(f)) + 1 = Waiting(f)
<1>1. CASE Ready(f) = {}
  BY <1>1, DrainOneNothing
<1>2. CASE Ready(f) # {}
  <2>1. PICK s \in Ready(f) : s = Nearest(f)
    BY <1>2, NearestIs
  <2>2. PICK p \in Pendings : p = f.pending
    BY FlowIs
  <2>3. DOMAIN p \subseteq Numbers /\ s \in DOMAIN p /\ p[s] \in Payloads
    BY <2>1, <2>2, PendingIs DEF Ready
  <2>4. PICK q \in Pendings : q = Without(p, s)
    <3>1. DOMAIN p \ {s} \in SUBSET Numbers
      BY <2>3
    <3>2. Without(p, s) \in [DOMAIN p \ {s} -> Payloads]
      BY PendingIs DEF Without
    <3> QED
      BY <3>1, <3>2, IsPending
  <2>5. DrainOne(f) = AppendSegment(FlowRec(f.next_seq, f.buffer, q), s, p[s])
    BY <1>2, <2>1, <2>2, <2>4, DrainOneIs
  <2>6. PICK d \in Flows : d = DrainOne(f) /\ d.pending = q
    <3>1. f.next_seq \in Numbers \cup {NoSeq} /\ f.buffer \in Payloads /\ s \in Numbers
      BY <2>3, FlowIs
    <3>2. PICK n \in Numbers \cup {NoSeq}, b \in Payloads, c \in Payloads :
               n = f.next_seq /\ b = f.buffer /\ c = p[s]
      BY <2>3, <3>1
    <3>a. s \in Numbers
      BY <3>1
    <3>3. /\ AppendSegment(FlowRec(n, b, q), s, c) \in Flows
          /\ AppendSegment(FlowRec(n, b, q), s, c).pending = q
      BY <3>a, AppendKeeps
    <3> QED
      BY <2>5, <3>2, <3>3
  <2>7. Waiting(d) + 1 = Waiting(f)
    <3>1. DOMAIN q = DOMAIN p \ {s}
      BY <2>4 DEF Without
    <3>2. IsFiniteSet(DOMAIN p) /\ Cardinality(DOMAIN p) \in Nat
      BY <2>2, WaitingIs DEF Waiting
    <3>3. Cardinality(DOMAIN p \ {s}) = Cardinality(DOMAIN p) - 1
      BY <2>3, <3>2, FS_RemoveElement
    <3> QED
      BY <2>2, <2>6, <3>1, <3>2, <3>3 DEF Waiting
  <2> QED
    BY <1>2, <2>6, <2>7
<1> QED
  BY <1>1, <1>2

(* The loop: as many turns as there are early segments leave none that     *)
(* could be appended.                                                      *)
DrainRule(f, S, g) ==
    [s \in SUBSET S |-> IF s = {} THEN f
                       ELSE LET x == CHOOSE y \in s : TRUE IN DrainOne(g[s \ {x}])]

LEMMA DrainIs ==
  ASSUME NEW f
  PROVE  DrainPendingSegments(f) =
             (CHOOSE g : g = DrainRule(f, DOMAIN f.pending, g))[DOMAIN f.pending]
  BY DEF DrainPendingSegments, FoldFunction, FoldFunctionOnSet, MapThenFoldSet, DrainRule

LEMMA DrainExists ==
  ASSUME NEW f \in Flows, NEW S, IsFiniteSet(S)
  PROVE  \E g \in [SUBSET S -> Flows] : g = DrainRule(f, S, g)
<1> DEFINE op == [x \in S |-> [d \in Flows |-> DrainOne(d)]]
<1>1. \A d \in Flows : DrainOne(d) \in Flows
  BY DrainOneTakes
<1>2. op \in Steps(S, Flows)
  BY <1>1 DEF Steps
<1>3. \A x \in S : \A d \in Flows : op[x][d] = DrainOne(d)
  OBVIOUS
<1> HIDE DEF op
<1>4. PICK g \in [SUBSET S -> Flows] : g = FoldRule(op, f, S, g)
  <2>1. HasFold(op, f, S, Flows)
    BY <1>2, FoldExists
  <2> QED
    BY <2>1 DEF HasFold
<1>5. \A s \in SUBSET S : s # {} =>
         LET x == CHOOSE y \in s : TRUE IN x \in S /\ op[x][g[s \ {x}]] = DrainOne(g[s \ {x}])
  BY <1>3
<1>6. DrainRule(f, S, g) = FoldRule(op, f, S, g)
  BY <1>5 DEF DrainRule, FoldRule
<1> QED
  BY <1>4, <1>6

LEMMA DrainEmpties ==
  ASSUME NEW f \in Flows
  PROVE  DrainPendingSegments(f) \in Flows /\ Ready(DrainPendingSegments(f)) = {}
<1>1. PICK S : S = DOMAIN f.pending /\ IsFiniteSet(S)
  BY WaitingIs
<1>2. \E g : g = DrainRule(f, S, g)
  BY <1>1, DrainExists
<1>3. PICK g : g = DrainRule(f, S, g) /\ DrainPendingSegments(f) = g[S]
  BY <1>1, <1>2, DrainIs
<1> DEFINE C == {s \in SUBSET S : /\ g[s] \in Flows
                                  /\ \/ Ready(g[s]) = {}
                                     \/ Waiting(g[s]) + Cardinality(s) = Waiting(f)}
<1>4. \A s \in SUBSET S : g[s] = IF s = {} THEN f
                                 ELSE LET x == CHOOSE y \in s : TRUE IN DrainOne(g[s \ {x}])
  BY <1>3 DEF DrainRule
<1>5. {} \in C
  <2>1. g[{}] = f
    BY <1>4
  <2>2. Cardinality({}) = 0 /\ Waiting(f) \in Nat
    BY FS_EmptySet, WaitingIs
  <2> QED
    BY <2>1, <2>2
<1>6. ASSUME NEW s \in SUBSET S, s # {}, \A x \in s : s \ {x} \in C PROVE s \in C
  <2>1. PICK x \in s : g[s] = DrainOne(g[s \ {x}])
    BY <1>4, <1>6
  <2>2. PICK d : d = g[s \ {x}]
    OBVIOUS
  <2>3. PICK r : r = s \ {x}
    OBVIOUS
  <2>4. d \in Flows /\ (Ready(d) = {} \/ Waiting(d) + Cardinality(r) = Waiting(f))
    BY <1>6, <2>2, <2>3
  <2>5. IsFiniteSet(s) /\ Cardinality(s) \in Nat
    BY <1>1, FS_Subset, FS_CardinalityType
  <2>6. Cardinality(r) = Cardinality(s) - 1
    BY <2>3, <2>5, FS_RemoveElement
  <2>7. PICK e \in Flows : e = DrainOne(d)
    BY <2>4, DrainOneTakes
  <2>8. Ready(d) = {} => e = d
    BY <2>4, <2>7, DrainOneTakes
  <2>9. Ready(d) # {} => Waiting(e) + 1 = Waiting(d)
    BY <2>4, <2>7, DrainOneTakes
  <2>10. Waiting(d) \in Nat /\ Waiting(e) \in Nat
    BY <2>4, WaitingIs
  <2>11. Ready(e) = {} \/ Waiting(e) + Cardinality(s) = Waiting(f)
    BY <2>4, <2>5, <2>6, <2>8, <2>9, <2>10
  <2>12. g[s] = e
    BY <2>1, <2>2, <2>7
  <2> QED
    BY <2>11, <2>12
<1> HIDE DEF C
<1>a. \A s \in SUBSET S : s # {} /\ (\A x \in s : s \ {x} \in C) => s \in C
  BY <1>6
<1>b. IsFiniteSet(S)
  BY <1>1
<1>7. \A s \in SUBSET S : s \in C
  BY <1>b, <1>5, <1>a, FiniteInduction
<1>8. PICK d \in Flows : d = g[S] /\ (Ready(d) = {} \/ Waiting(d) + Cardinality(S) = Waiting(f))
  BY <1>7 DEF C
<1>9. Waiting(d) \in Nat /\ Waiting(f) = Cardinality(S) /\ Waiting(f) \in Nat
  BY <1>1, WaitingIs DEF Waiting
<1>10. Ready(d) = {}
  BY <1>8, <1>9, WaitingIs
<1> QED
  BY <1>3, <1>8, <1>10

-----------------------------------------------------------------------------
(* The bytes a flow holds.                                                 *)
Sizes(p) == [s \in DOMAIN p |-> Len(p[s])]

LEMMA EarlyBytes ==
  ASSUME NEW f \in Flows
  PROVE  SumFunction([s \in DOMAIN f.pending |-> Len(f.pending[s])]) \in Nat
<1>1. PICK p \in Pendings : p = f.pending
  BY FlowIs
<1>2. PICK z : z = [s \in DOMAIN p |-> Len(p[s])]
  OBVIOUS
<1>3. DOMAIN z = DOMAIN p /\ \A s \in DOMAIN p : z[s] = Len(p[s])
  BY <1>2
<1>4. \A s \in DOMAIN z : z[s] \in Nat
  <2>1. \A s \in DOMAIN p : p[s] \in Seq(Bytes)
    BY PendingIs DEF Payloads
  <2> QED
    BY <1>3, <2>1
<1>5. IsFiniteSet(DOMAIN z)
  BY <1>1, <1>3, WaitingIs
<1>6. SumFunctionOnSet(z, DOMAIN z) \in Nat
  BY <1>4, <1>5, SumOverSet
<1> QED
  BY <1>1, <1>2, <1>6 DEF SumFunction

LEMMA BytesAre ==
  ASSUME NEW f \in Flows
  PROVE  /\ BufferedBytes(f) \in Nat
         /\ BufferedBytes(f) = Len(f.buffer) +
                SumFunction([s \in DOMAIN f.pending |-> Len(f.pending[s])])
<1>1. Len(f.buffer) \in Nat
  BY FlowIs DEF Payloads
<1> QED
  BY <1>1, EarlyBytes DEF BufferedBytes

LEMMA NewFlowIsEmpty == BufferedBytes(NewFlow) = 0
<1>1. PICK f : f = NewFlow
  OBVIOUS
<1>2. f.buffer = <<>> /\ f.pending = <<>>
  BY <1>1 DEF NewFlow
<1>3. PICK z : z = [s \in DOMAIN f.pending |-> Len(f.pending[s])]
  OBVIOUS
<1>4. DOMAIN z = {}
  BY <1>2, <1>3
<1>5. SumFunctionOnSet(z, DOMAIN z) = 0
  BY <1>4, FS_EmptySet, SumOverSet
<1>6. SumFunction(z) = 0
  BY <1>5 DEF SumFunction
<1> QED
  BY <1>1, <1>2, <1>3, <1>6 DEF BufferedBytes

(* What holds of a flow between packets.                                   *)
Sound(f) ==
    \/ f = NewFlow
    \/ f \in Flows /\ Ready(f) = {} /\ BufferedBytes(f) <= MaxFlowBytes

LEMMA SoundBytes ==
  ASSUME NEW f, Sound(f)
  PROVE  BufferedBytes(f) \in Nat
<1>1. CASE f = NewFlow
  BY <1>1, NewFlowIsEmpty
<1>2. CASE f \in Flows
  BY <1>2, BytesAre
<1> QED
  BY <1>1, <1>2 DEF Sound

(* Every segment, wherever it lies, leaves a sound flow.                   *)
LEMMA StoredIs ==
  ASSUME NEW f, f \in Flows \/ f = NewFlow, NEW s \in Numbers, NEW payload \in Payloads
  PROVE  (IF SequenceAfter(s, Expected(f, s)) THEN StoreFutureSegment(f, s, payload)
          ELSE AppendSegment(f, s, payload)) \in Flows
<1>1. CASE f \in Flows
  <2>1. AppendSegment(f, s, payload) \in Flows
    <3>1. PICK n \in Numbers \cup {NoSeq}, b \in Payloads, p \in Pendings : f = FlowRec(n, b, p)
      BY <1>1, FlowIs
    <3> QED
      BY <3>1, AppendKeeps
  <2> QED
    BY <1>1, <2>1, StoreKeeps
<1>2. CASE f = NewFlow
  <2>1. Expected(f, s) = s
    BY <1>2 DEF Expected, NewFlow
  <2>2. ~SequenceAfter(s, s)
    <3>1. s - s = 0 /\ s >= s
      BY DEF Numbers
    <3>2. SeqSub(s, s) = 0
      BY <3>1, SubCases
    <3> QED
      BY <3>2 DEF SequenceAfter
  <2>3. f = FlowRec(NoSeq, <<>>, <<>>)
    BY <1>2 DEF NewFlow, FlowRec
  <2>4. <<>> \in Payloads /\ NoSeq \in Numbers \cup {NoSeq}
    BY EmptySeq DEF Payloads
  <2>5. PICK none : none = <<>>
    OBVIOUS
  <2>6. none \in Pendings
    <3>1. none = [t \in {} |-> none[t]]
      BY <2>5
    <3>2. {} \in SUBSET Numbers /\ none \in [{} -> Payloads]
      BY <3>1
    <3> QED
      BY <3>2, IsPending
  <2>7. AppendSegment(f, s, payload) \in Flows
    BY <2>3, <2>4, <2>5, <2>6, AppendKeeps
  <2> QED
    BY <2>1, <2>2, <2>7
<1> QED
  BY <1>1, <1>2

Stored(f, s, payload) ==
    IF SequenceAfter(s, Expected(f, s)) THEN StoreFutureSegment(f, s, payload)
    ELSE AppendSegment(f, s, payload)

LEMMA ReassembleKeeps ==
  ASSUME NEW f, f \in Flows \/ f = NewFlow, NEW s \in Numbers, NEW payload \in Payloads
  PROVE  Sound(Reassemble(f, s, payload).flow) /\ Reassemble(f, s, payload).overflow \in BOOLEAN
<1>1. PICK d \in Flows : d = DrainPendingSegments(Stored(f, s, payload)) /\ Ready(d) = {}
  <2>1. Stored(f, s, payload) \in Flows
    BY StoredIs DEF Stored
  <2> QED
    BY <2>1, DrainEmpties
<1>2. PICK fl \in Flushed(Bytes) : /\ fl = FlushCompleteMessages(d.buffer)
                                   /\ Len(fl.buffer) <= Len(d.buffer)
  BY FlowIs, FlushIsBounded DEF Payloads
<1>3. PICK b \in Payloads : b = fl.buffer /\ Len(b) <= Len(d.buffer)
  BY <1>2 DEF Flushed, Payloads
<1>4. PICK e : e = [d EXCEPT !.buffer = b]
  OBVIOUS
<1>5. e = FlowRec(d.next_seq, b, d.pending)
  BY <1>4 DEF Flows, FlowRec
<1>6. e \in Flows /\ e.next_seq = d.next_seq /\ e.pending = d.pending /\ e.buffer = b
  <2>1. FlowRec(d.next_seq, b, d.pending) \in Flows
    BY FlowIs, IsFlow
  <2> QED
    BY <1>5, <2>1 DEF FlowRec
<1>7. Ready(e) = {}
  BY <1>1, <1>6 DEF Ready
<1>8. BufferedBytes(e) <= BufferedBytes(d)
  <2>1. PICK k \in Nat : k = SumFunction([t \in DOMAIN d.pending |-> Len(d.pending[t])])
    BY EarlyBytes
  <2>2. BufferedBytes(d) = Len(d.buffer) + k /\ BufferedBytes(e) = Len(b) + k
    BY <1>6, <2>1 DEF BufferedBytes
  <2>3. Len(d.buffer) \in Nat /\ Len(b) \in Nat
    BY FlowIs DEF Payloads
  <2> QED
    BY <1>3, <2>1, <2>2, <2>3
<1>9. Reassemble(f, s, payload) =
        IF BufferedBytes(d) > MaxFlowBytes
        THEN [flow |-> NewFlow, emitted |-> <<>>, overflow |-> TRUE]
        ELSE [flow |-> e, emitted |-> fl.emitted, overflow |-> FALSE]
  BY <1>1, <1>2, <1>3, <1>4 DEF Reassemble, Stored
<1>10. BufferedBytes(d) <= MaxFlowBytes => Sound(e)
  <2>1. BufferedBytes(d) \in Nat /\ BufferedBytes(e) \in Nat
    BY <1>6, BytesAre
  <2> QED
    BY <1>6, <1>7, <1>8, <2>1 DEF Sound
<1>11. BufferedBytes(d) > MaxFlowBytes \/ BufferedBytes(d) <= MaxFlowBytes
  <2>1. BufferedBytes(d) \in Nat
    BY BytesAre
  <2> QED
    BY <2>1
<1> QED
  BY <1>9, <1>10, <1>11 DEF Sound

(* A captured packet carries bytes of its connection, at their number.     *)
LEMMA WorkIs ==
  ASSUME NEW p \in Packets
  PROVE  WorkOf(p).seq \in Numbers /\ WorkOf(p).payload \in Payloads
<1>1. PICK c \in DOMAIN Sent : c = p.conn
  BY ConnectionAssumption
<1>2. PICK b \in Payloads : b = Sent[c]
  <2>1. Sent[c] \in Seq(Range(Sent[c]))
    BY ConnectionAssumption
  <2>2. Range(Sent[c]) \subseteq Bytes
    BY DEF Bytes
  <2>3. Sent[c] \in Seq(Bytes)
    BY <2>1, <2>2
  <2> QED
    BY <2>3 DEF Payloads
<1>3. PICK u, v : u = p.from /\ v = p.to
  OBVIOUS
<1>4. v \in 0 .. Len(b) /\ u \in 0 .. v
  BY <1>1, <1>2, <1>3, ConnectionAssumption
<1>5. Len(b) \in Nat /\ \A i \in 1 .. Len(b) : b[i] \in Bytes
  BY DEF Payloads
<1>6. SubSeq(b, u + 1, v) \in Payloads
  <2>1. \A i \in u + 1 .. v : b[i] \in Bytes
    BY <1>4, <1>5
  <2>2. u + 1 \in Int /\ v \in Int
    BY <1>4, <1>5
  <2> QED
    BY <2>1, <2>2, SubSeqProperties DEF Payloads
<1>7. Isn[c] \in Numbers /\ Isn[c] \in Nat
  BY ConnectionAssumption DEF Numbers
<1>8. SeqAdd(Isn[c], 1) \in Numbers /\ SeqAdd(Isn[c], 1 + u) \in Numbers
  BY <1>4, <1>5, <1>7, AddIsNumber
<1> QED
  BY <1>1, <1>2, <1>3, <1>6, <1>8 DEF WorkOf, SeqAt

-----------------------------------------------------------------------------
FlowInv ==
    /\ conn \in DOMAIN Sent
    /\ left \in [Packets -> 0 .. Copies]
    /\ flow # NoFlow => Sound(flow)
    /\ losses \in Nat
    /\ done \in BOOLEAN

LEMMA FlowInvInit == Init => FlowInv
<1>1. 1 \in DOMAIN Sent /\ Copies \in Nat
  BY ConnectionAssumption
<1>2. [p \in Packets |-> Copies] \in [Packets -> 0 .. Copies]
  BY <1>1
<1>3. Init => conn \in DOMAIN Sent /\ left \in [Packets -> 0 .. Copies]
  BY <1>1, <1>2 DEF Init
<1>4. Init => (flow # NoFlow => Sound(flow))
  BY DEF Init
<1>5. Init => losses \in Nat
  BY DEF Init
<1>6. Init => done \in BOOLEAN
  BY Zenon DEF Init
<1> QED
  BY <1>3, <1>4, <1>5, <1>6 DEF FlowInv

(* The handling of a packet: the flow that is found or created is sound,   *)
(* so is what reassembly makes of it, and the losses only grow.            *)
LEMMA HandlingKeeps ==
  ASSUME NEW work, work.seq \in Numbers, work.payload \in Payloads,
         NEW refused \in BOOLEAN, NEW exceeded \in BOOLEAN,
         flow # NoFlow => Sound(flow), losses \in Nat,
         HandlePacketWork(work, refused, exceeded)
  PROVE  (flow' # NoFlow => Sound(flow')) /\ losses' \in Nat
<1> DEFINE reset == work.starts_flow /\ flow # NoFlow
           start == IF reset \/ flow = NoFlow THEN NewFlow ELSE flow
           step  == IF work.payload = <<>>
                    THEN [flow |-> start, emitted |-> <<>>, overflow |-> FALSE]
                    ELSE Reassemble(start, work.seq, work.payload)
           grown   == BufferedBytes(step.flow) > BufferedBytes(start)
           cleared == grown /\ exceeded
           kept    == IF cleared THEN NewFlow ELSE step.flow
<1>1. Sound(start)
  BY DEF Sound
<1>2. Sound(step.flow)
  <2>1. CASE work.payload = <<>>
    BY <2>1, <1>1
  <2>2. CASE work.payload # <<>>
    <3>1. start \in Flows \/ start = NewFlow
      BY <1>1 DEF Sound
    <3> HIDE DEF start
    <3>2. Sound(Reassemble(start, work.seq, work.payload).flow)
      BY <3>1, ReassembleKeeps
    <3> QED
      BY <2>2, <3>2
  <2> QED
    BY <2>1, <2>2
<1>3. Sound(kept)
  <2> HIDE DEF step, cleared
  <2> QED
    BY <1>2 DEF Sound
<1>4. CASE refused /\ flow' = NoFlow /\ losses' = losses + 1
  BY <1>4
<1>5. CASE /\ flow' = IF work.ends_flow THEN NoFlow ELSE kept
           /\ \E r, e, o, c \in 0 .. 1 : losses' = losses + r + e + o + c
  <2> HIDE DEF kept
  <2> QED
    BY <1>3, <1>5
<1> QED
  BY <1>4, <1>5 DEF HandlePacketWork

LEMMA FlowInvStep == FlowInv /\ [Next]_vars => FlowInv'
<1> SUFFICES ASSUME FlowInv, [Next]_vars PROVE FlowInv'
  OBVIOUS
<1>1. ASSUME NEW p \in Packets, CapturePacket(p) PROVE FlowInv'
  <2>1. conn' \in DOMAIN Sent
    BY <1>1, ConnectionAssumption DEF CapturePacket
  <2>2. left' \in [Packets -> 0 .. Copies]
    BY <1>1, ConnectionAssumption DEF CapturePacket, FlowInv
  <2>3. (flow' # NoFlow => Sound(flow')) /\ losses' \in Nat
    <3>1. PICK refused \in BOOLEAN, exceeded \in BOOLEAN :
               HandlePacketWork(WorkOf(p), refused, exceeded)
      BY <1>1 DEF CapturePacket
    <3>2. PICK work : work = WorkOf(p)
      OBVIOUS
    <3>3. work.seq \in Numbers /\ work.payload \in Payloads
      BY <3>2, WorkIs
    <3>4. HandlePacketWork(work, refused, exceeded)
      BY <3>1, <3>2
    <3> QED
      BY <3>3, <3>4, HandlingKeeps DEF FlowInv
  <2>4. done' \in BOOLEAN
    BY <1>1 DEF CapturePacket, FlowInv
  <2> QED
    BY <2>1, <2>2, <2>3, <2>4 DEF FlowInv
<1>2. CASE EvictIdle
  BY <1>2 DEF EvictIdle, FlowInv
<1>3. CASE Finish
  BY <1>3 DEF Finish, FlowInv
<1>4. CASE UNCHANGED vars
  BY <1>4 DEF vars, FlowInv
<1> QED
  BY <1>1, <1>2, <1>3, <1>4 DEF Next

LEMMA FlowInvHolds == Spec => []FlowInv
<1>1. FlowInv /\ [Next]_vars => FlowInv'
  BY FlowInvStep
<1> QED
  BY <1>1, FlowInvInit, PTL DEF Spec

(* What the invariant says of the fields TypeOK names.                     *)
LEMMA SoundIsTyped ==
  ASSUME NEW f, Sound(f)
  PROVE  /\ f.next_seq \in (0 .. SeqSpace - 1) \cup {NoSeq}
         /\ DOMAIN f.pending \subseteq 0 .. SeqSpace - 1
<1>1. CASE f = NewFlow
  <2>1. DOMAIN NewFlow.pending = {} /\ NewFlow.next_seq = NoSeq
    BY DEF NewFlow
  <2> QED
    BY <1>1, <2>1
<1>2. CASE f \in Flows
  BY <1>2, FlowIs, PendingIs DEF Numbers
<1> QED
  BY <1>1, <1>2 DEF Sound

(* A flow's sequence numbers and early segments stay in the space, and the *)
(* losses are counted, whatever is captured, refused, given up or evicted. *)
THEOREM FlowsAreTyped == Spec => []TypeOK
<1>1. FlowInv => TypeOK
  BY SoundIsTyped DEF FlowInv, TypeOK
<1> QED
  BY <1>1, FlowInvHolds, PTL

(* Draining is complete: between packets, every early segment lies         *)
(* strictly ahead of the byte that is expected, and a flow that expects    *)
(* none holds nothing.                                                     *)
THEOREM DrainIsComplete == Spec => []PendingIsAhead
<1>1. ASSUME Sound(flow)
      PROVE  /\ flow.next_seq = NoSeq => flow = NewFlow
             /\ \A s \in DOMAIN flow.pending : SequenceAfter(s, flow.next_seq)
  <2>1. CASE flow = NewFlow
    <3>1. DOMAIN NewFlow.pending = {}
      BY DEF NewFlow
    <3> QED
      BY <2>1, <3>1
  <2>2. CASE flow \in Flows /\ Ready(flow) = {}
    <3>1. flow.next_seq # NoSeq
      BY <2>2, FlowIs, NoSeqIsNoNumber
    <3> QED
      BY <2>2, <3>1 DEF Ready
  <2> QED
    BY <1>1, <2>1, <2>2 DEF Sound
<1>2. FlowInv => PendingIsAhead
  BY <1>1 DEF FlowInv, PendingIsAhead
<1> QED
  BY <1>2, FlowInvHolds, PTL

(* --max-flow-bytes is a bound: what a flow holds between packets, in the  *)
(* buffer and in early segments, never exceeds it, because a flow that     *)
(* would is given up, and cutting messages out of a buffer never grows it. *)
THEOREM FlowMemoryBounded == Spec => []FlowIsBounded
<1>1. ASSUME Sound(flow) PROVE BufferedBytes(flow) <= MaxFlowBytes
  BY <1>1, NewFlowIsEmpty DEF Sound
<1>2. FlowInv => FlowIsBounded
  BY <1>1 DEF FlowInv, FlowIsBounded, BufferedBytes
<1> QED
  BY <1>2, FlowInvHolds, PTL

-----------------------------------------------------------------------------
(* The refinement.  MessageStream reads bytes with operators of its own    *)
(* instance of FixFraming, which are the same.                             *)
HIDE FlowAssumption

LEMMA SameReading ==
  ASSUME NEW s
  PROVE  Promise!ReadWhole(s) = ReadWhole(s)
  BY DEF Promise!ReadWhole, Promise!IsOpen, Promise!IsMessage, Promise!StartsWith,
         ReadWhole, IsOpen, IsMessage, StartsWith

LEMMA SameMessages ==
  ASSUME NEW s
  PROVE  Promise!Messages(s) = Messages(s)
  BY SameReading DEF Promise!Messages, Messages

(* The offset in the stream of connection c that a sequence number stands  *)
(* for, and an early segment that is a part of this stream.                *)
Offset(c, s) == SeqSub(s, SeqAt(c, 0))
Span(c, s, q) == Offset(c, s) .. Offset(c, s) + Len(q) - 1
Early(c, s, q) ==
    /\ s = SeqAt(c, Offset(c, s))
    /\ Offset(c, s) + Len(q) <= Len(Sent[c])
    /\ q # <<>>
    /\ q = SubSeq(Sent[c], Offset(c, s) + 1, Offset(c, s) + Len(q))
Covered(c, p) == UNION {Span(c, s, p[s]) : s \in DOMAIN p}

LEMMA StreamIs ==
  ASSUME NEW c \in DOMAIN Sent
  PROVE  /\ Sent[c] \in Payloads /\ Len(Sent[c]) \in Nat
         /\ Len(Sent[c]) + 1 <= Half /\ Half + Half = SeqSpace
         /\ Isn[c] \in Numbers
<1>1. Sent[c] \in Seq(Range(Sent[c])) /\ Isn[c] \in Numbers /\ Len(Sent[c]) < Half
  BY ConnectionAssumption, WindowAssumption DEF Numbers, Half
<1>2. Range(Sent[c]) \subseteq Bytes
  BY DEF Bytes
<1>3. Sent[c] \in Seq(Bytes) /\ Len(Sent[c]) \in Nat
  BY <1>1, <1>2
<1> QED
  BY <1>1, <1>3, HalfTwice DEF Payloads

LEMMA SeqAtIs ==
  ASSUME NEW c \in DOMAIN Sent, NEW a \in 0 .. Len(Sent[c])
  PROVE  /\ 1 + a \in Numbers
         /\ SeqAt(c, a) \in Numbers
         /\ Offset(c, SeqAt(c, a)) = a
<1>1. PICK n : n = Len(Sent[c])
  OBVIOUS
<1>2. n \in Nat /\ n + 1 <= Half /\ Half + Half = SeqSpace /\ Half \in Nat /\ Isn[c] \in Numbers
  BY <1>1, StreamIs, HalfTwice
<1>3. a \in 0 .. n
  BY <1>1
<1>4. 1 + a \in Numbers /\ 1 \in Numbers /\ 1 + a >= 1
  BY <1>2, <1>3 DEF Numbers
<1>5. SeqAt(c, a) \in Numbers
  BY <1>2, <1>4, AddCases DEF SeqAt
<1>6. SeqSub(SeqAdd(Isn[c], 1 + a), SeqAdd(Isn[c], 1)) = (1 + a) - 1
  BY <1>2, <1>4, Distance
<1>7. SeqAt(c, 0) = SeqAdd(Isn[c], 1) /\ (1 + a) - 1 = a
  BY <1>3 DEF SeqAt
<1> QED
  BY <1>4, <1>5, <1>6, <1>7 DEF Offset, SeqAt

(* Offsets are apart as their numbers are.                                 *)
LEMMA SeqAtApart ==
  ASSUME NEW c \in DOMAIN Sent, NEW a \in 0 .. Len(Sent[c]), NEW r \in a .. Len(Sent[c])
  PROVE  /\ r - a \in 0 .. Half - 1
         /\ SeqAt(c, r) = SeqAdd(SeqAt(c, a), r - a)
<1>1. PICK n : n = Len(Sent[c])
  OBVIOUS
<1>2. n \in Nat /\ n + 1 <= Half /\ Half + Half = SeqSpace /\ Half \in Nat /\ Isn[c] \in Numbers
  BY <1>1, StreamIs, HalfTwice
<1>3. a \in 0 .. n /\ r \in a .. n
  BY <1>1
<1>4. PICK d, e : d = 1 + a /\ e = 1 + r
  OBVIOUS
<1>5. d \in Numbers /\ e \in Numbers /\ e >= d /\ e - d = r - a
  BY <1>2, <1>3, <1>4 DEF Numbers
<1>6. SeqAdd(SeqAdd(Isn[c], d), e - d) = SeqAdd(Isn[c], e)
  BY <1>2, <1>5, AddOn
<1> QED
  BY <1>2, <1>3, <1>4, <1>5, <1>6 DEF SeqAt

LEMMA SeqAtAfter ==
  ASSUME NEW c \in DOMAIN Sent, NEW a \in 0 .. Len(Sent[c]), NEW r \in 0 .. Len(Sent[c])
  PROVE  SequenceAfter(SeqAt(c, a), SeqAt(c, r)) <=> a > r
<1>0. Len(Sent[c]) \in Nat /\ SeqAt(c, a) \in Numbers /\ SeqAt(c, r) \in Numbers /\ Half \in Nat
  BY StreamIs, SeqAtIs, HalfTwice
<1>1. CASE a > r
  <2>1. r \in 0 .. Len(Sent[c]) /\ a \in r .. Len(Sent[c])
    BY <1>0, <1>1
  <2>2. a - r \in 0 .. Half - 1 /\ SeqAt(c, a) = SeqAdd(SeqAt(c, r), a - r)
    BY <2>1, SeqAtApart
  <2>3. a - r \in 1 .. Half - 1
    BY <1>0, <1>1, <2>2
  <2> QED
    BY <1>0, <1>1, <2>2, <2>3, AfterIsAhead
<1>2. CASE a < r
  <2>1. r \in a .. Len(Sent[c])
    BY <1>0, <1>2
  <2>2. r - a \in 0 .. Half - 1 /\ SeqAt(c, r) = SeqAdd(SeqAt(c, a), r - a)
    BY <2>1, SeqAtApart
  <2>3. r - a \in 1 .. Half - 1
    BY <1>0, <1>2, <2>2
  <2>4. ~SequenceAfter(SeqAt(c, a), SeqAt(c, r))
    BY <1>0, <2>2, <2>3, AfterIsAhead
  <2> QED
    BY <1>2, <2>4
<1>3. CASE a = r
  <2>1. PICK s \in Numbers : s = SeqAt(c, a)
    BY <1>0
  <2>2. SeqSub(s, s) = 0
    <3>1. s >= s => SeqSub(s, s) = s - s
      BY SubCases
    <3> QED
      BY <3>1 DEF Numbers
  <2>3. ~SequenceAfter(s, s)
    BY <2>2 DEF SequenceAfter
  <2> QED
    BY <1>3, <2>1, <2>3
<1> QED
  BY <1>1, <1>2, <1>3

-----------------------------------------------------------------------------
(* Parts of a stream.                                                      *)
Part(c, a, e) == SubSeq(Sent[c], a + 1, e)

LEMMA PartIs ==
  ASSUME NEW c \in DOMAIN Sent, NEW e \in 0 .. Len(Sent[c]), NEW a \in 0 .. e
  PROVE  /\ Part(c, a, e) \in Payloads /\ Len(Part(c, a, e)) = e - a
         /\ \A k \in 1 .. e - a : Part(c, a, e)[k] = Sent[c][a + k]
<1>1. PICK b \in Payloads : b = Sent[c]
  BY StreamIs
<1>2. e <= Len(b) /\ a + 1 \in Int /\ e \in Int /\ a + 1 >= 1
  BY <1>1
<1>3. /\ SubSeq(b, a + 1, e) \in Seq(Bytes)
      /\ Len(SubSeq(b, a + 1, e)) = IF a + 1 <= e THEN e - (a + 1) + 1 ELSE 0
      /\ \A m \in 1 .. e - (a + 1) + 1 : SubSeq(b, a + 1, e)[m] = b[(a + 1) + m - 1]
  BY <1>2, SubSeqIs DEF Payloads
<1> QED
  BY <1>1, <1>3 DEF Part, Payloads

LEMMA NoPart ==
  ASSUME NEW c \in DOMAIN Sent, NEW a \in 0 .. Len(Sent[c])
  PROVE  Part(c, a, a) = <<>>
<1>0. a \in Nat /\ a \in 0 .. a /\ a - a = 0
  BY StreamIs
<1>1. Part(c, a, a) \in Payloads /\ Len(Part(c, a, a)) = a - a
  BY <1>0, PartIs
<1> QED
  BY <1>0, <1>1, EmptySeq DEF Payloads

LEMMA PartsJoin ==
  ASSUME NEW c \in DOMAIN Sent, NEW e \in 0 .. Len(Sent[c]), NEW r \in 0 .. e, NEW a \in 0 .. r
  PROVE  Part(c, a, r) \o Part(c, r, e) = Part(c, a, e)
<1>1. PICK b \in Payloads : b = Sent[c]
  BY StreamIs
<1>2. PICK m : m = a + 1
  OBVIOUS
<1>3. m \in 1 .. Len(b) + 1 /\ r \in m - 1 .. Len(b) /\ e \in r .. Len(b)
  BY <1>1, <1>2 DEF Payloads
<1>4. SubSeq(b, m, r) \o SubSeq(b, r + 1, e) = SubSeq(b, m, e)
  BY <1>3, ConcatAdjacentSubSeq DEF Payloads
<1> QED
  BY <1>1, <1>2, <1>4 DEF Part

LEMMA PartsJoinOn ==
  ASSUME NEW c \in DOMAIN Sent, NEW e \in 0 .. Len(Sent[c]), NEW r \in 0 .. e, NEW a \in 0 .. r,
         NEW b \in Payloads
  PROVE  /\ (b \o Part(c, a, r)) \o Part(c, r, e) = b \o Part(c, a, e)
         /\ b \o Part(c, a, e) \in Payloads
<1>1. r \in 0 .. Len(Sent[c]) /\ a \in 0 .. e
  BY StreamIs
<1>2. PICK x, y, z : x = Part(c, a, r) /\ y = Part(c, r, e) /\ z = Part(c, a, e)
  OBVIOUS
<1>3. x \in Seq(Bytes) /\ y \in Seq(Bytes) /\ z \in Seq(Bytes) /\ b \in Seq(Bytes)
  BY <1>1, <1>2, PartIs DEF Payloads
<1>4. x \o y = z
  BY <1>2, PartsJoin
<1>5. (b \o x) \o y = b \o (x \o y)
  BY <1>3, ConcatAssociative, SMTT(20)
<1>6. b \o z \in Payloads
  BY <1>3, ConcatProperties DEF Payloads
<1> QED
  BY <1>2, <1>4, <1>5, <1>6

LEMMA PartOfPart ==
  ASSUME NEW c \in DOMAIN Sent, NEW e \in 0 .. Len(Sent[c]), NEW r \in 0 .. e, NEW a \in 0 .. r
  PROVE  SubSeq(Part(c, a, e), (r - a) + 1, Len(Part(c, a, e))) = Part(c, r, e)
<1>1. PICK n \in Nat : n = Len(Sent[c])
  BY StreamIs
<1>2. a \in 0 .. e
  OBVIOUS
<1>4. PICK y \in Payloads : /\ y = Part(c, r, e) /\ Len(y) = e - r
                            /\ \A k \in 1 .. e - r : y[k] = Sent[c][r + k]
  BY <1>2, PartIs
<1>5. PICK z \in Payloads : /\ z = Part(c, a, e) /\ Len(z) = e - a
                            /\ \A k \in 1 .. e - a : z[k] = Sent[c][a + k]
  BY <1>2, PartIs
<1>6. PICK i, j \in Int : i = (r - a) + 1 /\ j = Len(z) /\ i >= 1 /\ j <= Len(z)
  BY <1>5
<1>7. /\ SubSeq(z, i, j) \in Seq(Bytes)
      /\ Len(SubSeq(z, i, j)) = IF i <= j THEN j - i + 1 ELSE 0
      /\ \A m \in 1 .. j - i + 1 : SubSeq(z, i, j)[m] = z[i + m - 1]
  BY <1>6, SubSeqIs DEF Payloads
<1>8. PICK w : w = SubSeq(z, i, j)
  OBVIOUS
<1>a. e \in Nat /\ r \in Nat /\ a \in Nat /\ r <= e /\ a <= r
  BY <1>1
<1>b. j - i + 1 = e - r /\ (e - r = 0 \/ i <= j)
  BY <1>5, <1>6, <1>a
<1>c. w \in Seq(Bytes) /\ Len(w) = IF i <= j THEN e - r ELSE 0
  BY <1>7, <1>8, <1>b
<1>d. \A m \in 1 .. e - r : w[m] = z[i + m - 1]
  BY <1>7, <1>8, <1>b
<1>9. w \in Seq(Bytes) /\ Len(w) = e - r
  BY <1>a, <1>b, <1>c
<1>10. ASSUME NEW k \in 1 .. e - r PROVE w[k] = y[k]
  <2>1. w[k] = z[i + k - 1]
    BY <1>d
  <2>2. i + k - 1 \in 1 .. e - a /\ a + (i + k - 1) = r + k
    BY <1>6
  <2> QED
    BY <1>4, <1>5, <2>1, <2>2
<1>11. w = y
  BY <1>4, <1>9, <1>10, SeqEqual DEF Payloads
<1> QED
  BY <1>4, <1>5, <1>6, <1>8, <1>11

(* What a segment makes of a flow that has reached offset r, and of a new  *)
(* one.                                                                    *)
LEMMA FollowsOn ==
  ASSUME NEW c \in DOMAIN Sent, NEW a \in 0 .. Len(Sent[c]), NEW e \in a + 1 .. Len(Sent[c]),
         NEW r \in a .. Len(Sent[c]), NEW f \in Flows, f.next_seq = SeqAt(c, r)
  PROVE  AppendSegment(f, SeqAt(c, a), Part(c, a, e)) =
           IF e > r THEN FlowRec(SeqAt(c, e), f.buffer \o Part(c, r, e), f.pending) ELSE f
<1>1. PICK n \in Nat : n = Len(Sent[c]) /\ n + 1 <= Half /\ Half \in Nat /\ Half + Half = SeqSpace
  BY StreamIs, HalfTwice
<1>2. a \in 0 .. n /\ e \in a + 1 .. n /\ r \in a .. n
  BY <1>1
<1>3. PICK q \in Payloads : q = Part(c, a, e) /\ Len(q) = e - a
  <2>1. e \in 0 .. Len(Sent[c]) /\ a \in 0 .. e
    BY <1>1, <1>2
  <2> QED
    BY <2>1, PartIs
<1>4. PICK s \in Numbers : s = SeqAt(c, a)
  BY SeqAtIs
<1>5. PICK d \in 0 .. Half - 1 : d = r - a /\ SeqAt(c, r) = SeqAdd(s, d)
  BY <1>4, SeqAtApart
<1>6. PICK m : m = Len(q) /\ m = e - a /\ SeqAt(c, e) = SeqAdd(s, m)
  <2>1. e \in a .. Len(Sent[c])
    BY <1>1, <1>2
  <2> QED
    BY <1>3, <1>4, <2>1, SeqAtApart
<1>7. m \in Numbers /\ m - d < Half /\ q # <<>> /\ (m > d <=> e > r)
  <2>1. m \in Numbers /\ m - d < Half /\ m > 0 /\ (m > d <=> e > r)
    BY <1>1, <1>2, <1>5, <1>6 DEF Numbers
  <2>2. Len(q) > 0 /\ Len(<<>>) = 0
    BY <1>6, <2>1, EmptySeq
  <2>3. q # <<>>
    BY <2>2
  <2> QED
    BY <2>1, <2>3
<1>8. AppendSegment(f, s, q) =
        IF m > d THEN [f EXCEPT !.buffer = @ \o SubSeq(q, d + 1, m), !.next_seq = SeqAdd(s, m)]
        ELSE f
  <2>1. Len(q) \in Numbers /\ Len(q) - d < Half /\ f.next_seq = SeqAdd(s, d)
    BY <1>5, <1>6, <1>7
  <2>2. q \in Seq(Bytes)
    BY DEF Payloads
  <2>3. q # <<>>
    BY <1>7
  <2>4. AppendSegment(f, s, q) =
          IF Len(q) > d
          THEN [f EXCEPT !.buffer = @ \o SubSeq(q, d + 1, Len(q)), !.next_seq = SeqAdd(s, Len(q))]
          ELSE f
    BY <2>1, <2>2, <2>3, SegmentJoins
  <2> QED
    BY <1>6, <2>4
<1>9. CASE e > r
  <2>1. SubSeq(q, d + 1, m) = Part(c, r, e)
    <3>1. e \in 0 .. Len(Sent[c]) /\ r \in 0 .. e /\ a \in 0 .. r
      BY <1>1, <1>2, <1>9
    <3> QED
      BY <1>3, <1>5, <1>6, <3>1, PartOfPart
  <2>2. PICK x, t : x = f.buffer \o Part(c, r, e) /\ t = SeqAt(c, e)
    OBVIOUS
  <2>3. AppendSegment(f, s, q) = [f EXCEPT !.buffer = x, !.next_seq = t]
    BY <1>6, <1>7, <1>8, <1>9, <2>1, <2>2
  <2>4. [f EXCEPT !.buffer = x, !.next_seq = t] = FlowRec(t, x, f.pending)
    <3>1. [f EXCEPT !.buffer = x, !.next_seq = t] = [[f EXCEPT !.buffer = x] EXCEPT !.next_seq = t]
      OBVIOUS
    <3>2. PICK h : h = [f EXCEPT !.buffer = x]
      OBVIOUS
    <3>3. h = [next_seq |-> f.next_seq, buffer |-> x, pending |-> f.pending]
      BY <3>2, FlowIs DEF FlowRec
    <3>4. [h EXCEPT !.next_seq = t] = FlowRec(t, x, f.pending)
      BY <3>3 DEF FlowRec
    <3> QED
      BY <3>1, <3>2, <3>4
  <2> QED
    BY <1>3, <1>4, <1>9, <2>2, <2>3, <2>4
<1> QED
  BY <1>3, <1>4, <1>7, <1>8, <1>9

LEMMA OpensWith ==
  ASSUME NEW c \in DOMAIN Sent, NEW a \in 0 .. Len(Sent[c]), NEW e \in a + 1 .. Len(Sent[c])
  PROVE  AppendSegment(NewFlow, SeqAt(c, a), Part(c, a, e)) =
           FlowRec(SeqAt(c, e), Part(c, a, e), <<>>)
<1>1. e \in 0 .. Len(Sent[c]) /\ a \in 0 .. e /\ e \in a .. Len(Sent[c])
  BY StreamIs
<1>2. PICK s \in Numbers : s = SeqAt(c, a)
  BY SeqAtIs
<1>3. PICK q \in Payloads : q = Part(c, a, e) /\ Len(q) = e - a
  BY <1>1, PartIs
<1>4. SeqAt(c, e) = SeqAdd(s, Len(q))
  BY <1>1, <1>2, <1>3, SeqAtApart
<1>5. SeqSub(s, s) = 0
  <2>1. s >= s => SeqSub(s, s) = s - s
    BY SubCases
  <2> QED
    BY <2>1 DEF Numbers
<1>6. SubSeq(q, 0 + 1, Len(q)) = q
  BY SubSeqFull DEF Payloads
<1>7. PICK z \in Seq(Bytes) : z = <<>>
  BY EmptySeq
<1>8. z \o q = q
  BY <1>7, ConcatEmptySeq DEF Payloads
<1>9. PICK n : n = NewFlow /\ n.next_seq = NoSeq /\ n.buffer = z /\ n.pending = <<>>
             /\ n = FlowRec(NoSeq, z, <<>>)
  BY <1>7 DEF NewFlow, FlowRec
<1>10. AppendSegment(n, s, q) =
         [n EXCEPT !.buffer = z \o SubSeq(q, 0 + 1, Len(q)),
                   !.next_seq = SeqAdd(s, Len(SubSeq(q, 0 + 1, Len(q))))]
  BY <1>5, <1>9 DEF AppendSegment, Expected
<1>11. PICK t : t = SeqAt(c, e)
  OBVIOUS
<1>12. AppendSegment(n, s, q) = [n EXCEPT !.buffer = q, !.next_seq = t]
  BY <1>4, <1>6, <1>8, <1>10, <1>11
<1>13. [n EXCEPT !.buffer = q, !.next_seq = t] = FlowRec(t, q, <<>>)
  <2>1. [n EXCEPT !.buffer = q, !.next_seq = t] = [[n EXCEPT !.buffer = q] EXCEPT !.next_seq = t]
    OBVIOUS
  <2>2. PICK h : h = [n EXCEPT !.buffer = q]
    OBVIOUS
  <2>3. h = [next_seq |-> NoSeq, buffer |-> q, pending |-> <<>>]
    BY <1>9, <2>2 DEF FlowRec
  <2>4. [h EXCEPT !.next_seq = t] = FlowRec(t, q, <<>>)
    BY <2>3 DEF FlowRec
  <2> QED
    BY <2>1, <2>2, <2>4
<1> QED
  BY <1>2, <1>3, <1>9, <1>11, <1>12, <1>13

-----------------------------------------------------------------------------
(* The offsets from o on of a segment a .. e.                              *)
NewBytes(o, a, e) == {k \in a .. e - 1 : k >= o}

(* A flow that follows the stream of c from offset o, and has captured the *)
(* offsets g: its buffer is b and what came after offset n without a gap,  *)
(* its early segments are parts of the stream, and nothing is missing.     *)
Reach(c, f) == Offset(c, f.next_seq)
AllEarly(c, o, p) == \A s \in DOMAIN p : Early(c, s, p[s]) /\ Offset(c, s) >= o
Gathered(c, o, n, b, g, f) ==
    /\ f \in Flows
    /\ Reach(c, f) \in n .. Len(Sent[c]) /\ f.next_seq = SeqAt(c, Reach(c, f))
    /\ f.buffer = b \o Part(c, n, Reach(c, f))
    /\ AllEarly(c, o, f.pending)
    /\ g = (o .. Reach(c, f) - 1) \cup Covered(c, f.pending)

LEMMA OffsetIs ==
  ASSUME NEW c \in DOMAIN Sent, NEW s \in Numbers
  PROVE  Offset(c, s) \in Nat
<1>1. SeqAt(c, 0) \in Numbers
  BY StreamIs, SeqAtIs
<1> QED
  BY <1>1, SubCases DEF Offset, Numbers

LEMMA EarlyIs ==
  ASSUME NEW c \in DOMAIN Sent, NEW s \in Numbers, NEW q \in Payloads, Early(c, s, q)
  PROVE  \E a \in 0 .. Len(Sent[c]) : \E e \in a + 1 .. Len(Sent[c]) :
            /\ a = Offset(c, s) /\ s = SeqAt(c, a) /\ e = a + Len(q)
            /\ q = Part(c, a, e) /\ Span(c, s, q) = a .. e - 1
<1>1. PICK n \in Nat : n = Len(Sent[c])
  BY StreamIs
<1>2. PICK a \in Nat : a = Offset(c, s)
  BY OffsetIs
<1>3. PICK m \in Nat : m = Len(q) /\ m > 0
  <2>1. Len(q) \in Nat \ {0}
    BY EmptySeq DEF Early, Payloads
  <2> QED
    BY <2>1
<1>4. PICK e : e = a + m
  OBVIOUS
<1>5. a \in 0 .. n /\ e \in a + 1 .. n
  <2>1. Offset(c, s) + Len(q) <= Len(Sent[c])
    BY DEF Early
  <2>2. a + m <= n
    BY <1>1, <1>2, <1>3, <2>1
  <2> QED
    BY <1>3, <1>4, <2>2
<1>a. s = SeqAt(c, a) /\ q = SubSeq(Sent[c], a + 1, a + Len(q))
  BY <1>2 DEF Early
<1>b. q = Part(c, a, e)
  BY <1>3, <1>4, <1>a DEF Part
<1>c. Span(c, s, q) = a .. e - 1
  BY <1>2, <1>3, <1>4 DEF Span
<1>6. s = SeqAt(c, a) /\ q = Part(c, a, e) /\ Span(c, s, q) = a .. e - 1
  BY <1>a, <1>b, <1>c
<1> QED
  BY <1>1, <1>2, <1>3, <1>4, <1>5, <1>6

LEMMA IsEarly ==
  ASSUME NEW c \in DOMAIN Sent, NEW a \in 0 .. Len(Sent[c]), NEW e \in a + 1 .. Len(Sent[c])
  PROVE  /\ Early(c, SeqAt(c, a), Part(c, a, e))
         /\ Span(c, SeqAt(c, a), Part(c, a, e)) = a .. e - 1
<1>1. PICK n \in Nat : n = Len(Sent[c])
  BY StreamIs
<1>2. Offset(c, SeqAt(c, a)) = a
  BY SeqAtIs
<1>3. PICK q \in Payloads : q = Part(c, a, e) /\ Len(q) = e - a
  <2>1. e \in 0 .. Len(Sent[c]) /\ a \in 0 .. e
    BY <1>1
  <2> QED
    BY <2>1, PartIs
<1>4. a + (e - a) = e /\ e - a > 0
  BY <1>1
<1>5. q # <<>>
  <2>1. Len(q) > 0 /\ Len(<<>>) = 0
    BY <1>3, <1>4, EmptySeq
  <2> QED
    BY <2>1
<1>6. Early(c, SeqAt(c, a), q)
  BY <1>1, <1>2, <1>3, <1>4, <1>5 DEF Early, Part
<1>7. Span(c, SeqAt(c, a), q) = a .. e - 1
  BY <1>2, <1>3, <1>4 DEF Span
<1> QED
  BY <1>3, <1>6, <1>7

(* A segment that begins where the flow is, or before.                     *)
LEMMA GatheredAppend ==
  ASSUME NEW c \in DOMAIN Sent, NEW n \in 0 .. Len(Sent[c]), NEW o \in 0 .. n, NEW b \in Payloads,
         NEW g, NEW f, Gathered(c, o, n, b, g, f),
         NEW a \in 0 .. Len(Sent[c]), NEW e \in a + 1 .. Len(Sent[c]), a <= Reach(c, f)
  PROVE  Gathered(c, o, n, b, g \cup NewBytes(o, a, e),
                  AppendSegment(f, SeqAt(c, a), Part(c, a, e)))
<1>1. PICK l \in Nat : l = Len(Sent[c])
  BY StreamIs
<1>2. PICK r \in n .. l : /\ r = Reach(c, f) /\ f.next_seq = SeqAt(c, r)
                          /\ f.buffer = b \o Part(c, n, r)
                          /\ g = (o .. r - 1) \cup Covered(c, f.pending)
  BY <1>1 DEF Gathered
<1>3. /\ n \in 0 .. l /\ o \in 0 .. n /\ a \in 0 .. l /\ e \in a + 1 .. l /\ a <= r
      /\ r \in a .. Len(Sent[c]) /\ f \in Flows
  BY <1>1, <1>2 DEF Gathered
<1>4. AppendSegment(f, SeqAt(c, a), Part(c, a, e)) =
        IF e > r THEN FlowRec(SeqAt(c, e), f.buffer \o Part(c, r, e), f.pending) ELSE f
  BY <1>2, <1>3, FollowsOn
<1>5. CASE e > r
  <2>1. PICK h : h = FlowRec(SeqAt(c, e), f.buffer \o Part(c, r, e), f.pending)
    OBVIOUS
  <2>2. h.next_seq = SeqAt(c, e) /\ h.pending = f.pending /\ h.buffer = f.buffer \o Part(c, r, e)
    BY <2>1 DEF FlowRec
  <2>3. /\ e \in 0 .. Len(Sent[c]) /\ r \in 0 .. e /\ n \in 0 .. r /\ n \in 0 .. e
        /\ r \in 0 .. Len(Sent[c]) /\ e \in n .. l
    BY <1>1, <1>2, <1>3, <1>5
  <2>4. Reach(c, h) = e /\ SeqAt(c, e) \in Numbers
    BY <2>2, <2>3, SeqAtIs DEF Reach
  <2>5. h.buffer = b \o Part(c, n, e) /\ h.buffer \in Payloads
    <3>1. /\ (b \o Part(c, n, r)) \o Part(c, r, e) = b \o Part(c, n, e)
          /\ b \o Part(c, n, e) \in Payloads
      BY <2>3, PartsJoinOn
    <3> QED
      BY <1>2, <2>2, <3>1
  <2>6. h \in Flows
    <3>1. f.pending \in Pendings
      BY <1>3, FlowIs
    <3>2. FlowRec(SeqAt(c, e), h.buffer, f.pending) \in Flows
      BY <2>4, <2>5, <3>1, IsFlow
    <3> QED
      BY <2>1, <2>2, <3>2
  <2>7. g \cup NewBytes(o, a, e) = (o .. e - 1) \cup Covered(c, h.pending)
    <3>1. (o .. r - 1) \cup NewBytes(o, a, e) = o .. e - 1
      <4>1. ASSUME NEW k PROVE k \in (o .. r - 1) \cup NewBytes(o, a, e) <=> k \in o .. e - 1
        BY <1>2, <1>3, <1>5 DEF NewBytes
      <4> QED
        BY <4>1
    <3> QED
      BY <1>2, <2>2, <3>1
  <2>8. AllEarly(c, o, h.pending)
    BY <2>2 DEF Gathered
  <2>9. Gathered(c, o, n, b, g \cup NewBytes(o, a, e), h)
    BY <1>1, <2>2, <2>3, <2>4, <2>5, <2>6, <2>7, <2>8 DEF Gathered
  <2> QED
    BY <1>4, <1>5, <2>1, <2>9
<1>6. CASE ~(e > r)
  <2>1. NewBytes(o, a, e) \subseteq o .. r - 1
    BY <1>2, <1>3, <1>6 DEF NewBytes
  <2>2. g \cup NewBytes(o, a, e) = g
    BY <1>2, <2>1
  <2> QED
    BY <1>4, <1>6, <2>2
<1> QED
  BY <1>5, <1>6

(* Taking an early segment out gives up the offsets it covered.            *)
LEMMA GatheredWithout ==
  ASSUME NEW c \in DOMAIN Sent, NEW n \in 0 .. Len(Sent[c]), NEW o \in 0 .. n, NEW b \in Payloads,
         NEW g, NEW f, Gathered(c, o, n, b, g, f), NEW s \in DOMAIN f.pending
  PROVE  \E h : /\ Gathered(c, o, n, b, h,
                            FlowRec(f.next_seq, f.buffer, Without(f.pending, s)))
                /\ g = h \cup Span(c, s, f.pending[s])
<1>1. f \in Flows
  BY DEF Gathered
<1>2. PICK p \in Pendings : p = f.pending
  BY <1>1, FlowIs
<1>3. PICK q : q = Without(p, s)
  OBVIOUS
<1>4. DOMAIN q = DOMAIN p \ {s} /\ \A t \in DOMAIN q : q[t] = p[t]
  BY <1>3 DEF Without
<1>5. q \in Pendings
  <2>1. DOMAIN p \ {s} \in SUBSET Numbers
    BY PendingIs
  <2>2. q \in [DOMAIN p \ {s} -> Payloads]
    BY <1>3, PendingIs DEF Without
  <2> QED
    BY <2>1, <2>2, IsPending
<1>6. PICK d : d = FlowRec(f.next_seq, f.buffer, q)
  OBVIOUS
<1>7. d \in Flows /\ d.next_seq = f.next_seq /\ d.buffer = f.buffer /\ d.pending = q
  <2>1. FlowRec(f.next_seq, f.buffer, q) \in Flows
    BY <1>1, <1>5, FlowIs, IsFlow
  <2> QED
    BY <1>6, <2>1 DEF FlowRec
<1>8. PICK r : r = Reach(c, f)
  OBVIOUS
<1>9. Reach(c, d) = r
  BY <1>7, <1>8 DEF Reach
<1>10. AllEarly(c, o, q)
  BY <1>2, <1>4 DEF Gathered, AllEarly
<1>11. PICK h : h = (o .. r - 1) \cup Covered(c, q)
  OBVIOUS
<1>12. Gathered(c, o, n, b, h, d)
  BY <1>7, <1>8, <1>9, <1>10, <1>11 DEF Gathered
<1>13. Covered(c, p) = Covered(c, q) \cup Span(c, s, p[s])
  BY <1>2, <1>4 DEF Covered
<1>14. g = h \cup Span(c, s, p[s])
  BY <1>2, <1>8, <1>11, <1>13 DEF Gathered
<1> QED
  BY <1>2, <1>3, <1>6, <1>12, <1>14

(* A turn of the drain loop moves bytes, and loses none.                   *)
LEMMA GatheredDrain ==
  ASSUME NEW c \in DOMAIN Sent, NEW n \in 0 .. Len(Sent[c]), NEW o \in 0 .. n, NEW b \in Payloads,
         NEW g, NEW f, Gathered(c, o, n, b, g, f)
  PROVE  Gathered(c, o, n, b, g, DrainOne(f))
<1>1. CASE Ready(f) = {}
  BY <1>1, DrainOneNothing
<1>2. CASE Ready(f) # {}
  <2>1. f \in Flows
    BY DEF Gathered
  <2>2. PICK s \in Ready(f) : s = Nearest(f)
    BY <1>2, <2>1, NearestIs
  <2>3. PICK p \in Pendings : p = f.pending
    BY <2>1, FlowIs
  <2>4. s \in DOMAIN p /\ s \in Numbers /\ p[s] \in Payloads /\ ~SequenceAfter(s, f.next_seq)
    BY <2>2, <2>3, PendingIs DEF Ready
  <2>5. PICK q \in Payloads : q = p[s]
    BY <2>4
  <2>6. Early(c, s, q) /\ Offset(c, s) >= o
    BY <2>3, <2>4, <2>5 DEF Gathered, AllEarly
  <2>a. PICK a \in 0 .. Len(Sent[c]) : \E e \in a + 1 .. Len(Sent[c]) :
          /\ a = Offset(c, s) /\ s = SeqAt(c, a) /\ q = Part(c, a, e) /\ Span(c, s, q) = a .. e - 1
    BY <2>4, <2>6, EarlyIs
  <2>7. PICK e \in a + 1 .. Len(Sent[c]) :
          /\ a = Offset(c, s) /\ s = SeqAt(c, a) /\ q = Part(c, a, e) /\ Span(c, s, q) = a .. e - 1
    BY <2>a
  <2>8. PICK h, d : /\ d = FlowRec(f.next_seq, f.buffer, Without(p, s))
                    /\ Gathered(c, o, n, b, h, d) /\ g = h \cup Span(c, s, q)
    BY <2>3, <2>4, <2>5, GatheredWithout
  <2>9. DrainOne(f) = AppendSegment(d, s, q)
    BY <1>2, <2>1, <2>2, <2>3, <2>5, <2>8, DrainOneIs
  <2>10. a <= Reach(c, d)
    <3>1. PICK r \in 0 .. Len(Sent[c]) : r = Reach(c, f) /\ f.next_seq = SeqAt(c, r)
      BY StreamIs DEF Gathered
    <3>2. Reach(c, d) = r
      BY <2>8, <3>1 DEF FlowRec, Reach
    <3>3. ~(a > r)
      BY <2>4, <2>7, <3>1, SeqAtAfter
    <3> QED
      BY <3>2, <3>3
  <2>b. Gathered(c, o, n, b, h, d)
    BY <2>8
  <2>c. Gathered(c, o, n, b, h \cup NewBytes(o, a, e), AppendSegment(d, SeqAt(c, a), Part(c, a, e)))
    BY <2>10, <2>b, GatheredAppend
  <2>11. Gathered(c, o, n, b, h \cup NewBytes(o, a, e), DrainOne(f))
    BY <2>7, <2>9, <2>c
  <2>12. NewBytes(o, a, e) = a .. e - 1
    BY <2>6, <2>7 DEF NewBytes
  <2> QED
    BY <2>7, <2>8, <2>11, <2>12
<1> QED
  BY <1>1, <1>2

LEMMA DrainStays ==
  ASSUME NEW f \in Flows, NEW F, f \in F, F \subseteq Flows, \A d \in F : DrainOne(d) \in F
  PROVE  DrainPendingSegments(f) \in F
<1>1. PICK S : S = DOMAIN f.pending /\ IsFiniteSet(S)
  BY WaitingIs
<1>2. \E g : g = DrainRule(f, S, g)
  BY <1>1, DrainExists
<1>3. PICK g : g = DrainRule(f, S, g) /\ DrainPendingSegments(f) = g[S]
  BY <1>1, <1>2, DrainIs
<1> DEFINE C == {s \in SUBSET S : g[s] \in F}
<1>4. \A s \in SUBSET S : g[s] = IF s = {} THEN f
                                 ELSE LET x == CHOOSE y \in s : TRUE IN DrainOne(g[s \ {x}])
  BY <1>3 DEF DrainRule
<1>5. {} \in C
  BY <1>4
<1>6. ASSUME NEW s \in SUBSET S, s # {}, \A x \in s : s \ {x} \in C PROVE s \in C
  <2>1. PICK x \in s : g[s] = DrainOne(g[s \ {x}])
    BY <1>4, <1>6
  <2>2. g[s \ {x}] \in F
    BY <1>6
  <2>3. g[s] \in F
    BY <2>1, <2>2
  <2> QED
    BY <2>3
<1> HIDE DEF C
<1>7. \A s \in SUBSET S : s # {} /\ (\A x \in s : s \ {x} \in C) => s \in C
  BY <1>6
<1>8. IsFiniteSet(S)
  BY <1>1
<1>9. \A s \in SUBSET S : s \in C
  BY <1>5, <1>7, <1>8, FiniteInduction
<1> QED
  BY <1>3, <1>9 DEF C

(* A segment that begins ahead of where the flow is.  Of two early ones    *)
(* that begin at the same byte the longer covers the other.                *)
LEMMA GatheredStore ==
  ASSUME NEW c \in DOMAIN Sent, NEW n \in 0 .. Len(Sent[c]), NEW o \in 0 .. n, NEW b \in Payloads,
         NEW g, NEW f, Gathered(c, o, n, b, g, f),
         NEW a \in 0 .. Len(Sent[c]), NEW e \in a + 1 .. Len(Sent[c]), a > Reach(c, f)
  PROVE  Gathered(c, o, n, b, g \cup NewBytes(o, a, e),
                  StoreFutureSegment(f, SeqAt(c, a), Part(c, a, e)))
<1>1. PICK s \in Numbers : s = SeqAt(c, a) /\ Offset(c, s) = a
  BY SeqAtIs
<1>2. PICK q \in Payloads : q = Part(c, a, e) /\ Len(q) = e - a
  <2>1. e \in 0 .. Len(Sent[c]) /\ a \in 0 .. e
    BY StreamIs
  <2> QED
    BY <2>1, PartIs
<1>3. Early(c, s, q) /\ Span(c, s, q) = a .. e - 1
  BY <1>1, <1>2, IsEarly
<1>4. PICK p \in Pendings : p = f.pending
  BY FlowIs DEF Gathered
<1>5. PICK r \in 0 .. Len(Sent[c]) : r = Reach(c, f) /\ r >= o /\ a > r
  BY StreamIs DEF Gathered
<1>6. a >= o /\ NewBytes(o, a, e) = a .. e - 1
  BY <1>5 DEF NewBytes
<1>7. g = (o .. r - 1) \cup Covered(c, p)
  BY <1>4, <1>5 DEF Gathered
<1>8. CASE s \in DOMAIN p /\ Len(q) <= Len(p[s])
  <2>1. StoreFutureSegment(f, s, q) = f
    BY <1>4, <1>8 DEF StoreFutureSegment
  <2>2. Span(c, s, p[s]) = a .. a + Len(p[s]) - 1 /\ Len(p[s]) \in Nat
    BY <1>1, <1>4, <1>8, PendingIs DEF Span, Payloads
  <2>3. a .. e - 1 \subseteq Span(c, s, p[s])
    BY <1>2, <1>8, <2>2
  <2>4. a .. e - 1 \subseteq Covered(c, p)
    BY <1>8, <2>3 DEF Covered
  <2>5. g \cup NewBytes(o, a, e) = g
    BY <1>6, <1>7, <2>4
  <2> QED
    BY <1>1, <1>2, <2>1, <2>5
<1>9. CASE ~(s \in DOMAIN p /\ Len(q) <= Len(p[s]))
  <2>1. PICK z : z = [t \in DOMAIN p \cup {s} |-> IF t = s THEN q ELSE p[t]]
    OBVIOUS
  <2>2. DOMAIN z = DOMAIN p \cup {s} /\ z[s] = q /\ \A t \in DOMAIN p : t # s => z[t] = p[t]
    BY <2>1
  <2>3. PICK h : h = StoreFutureSegment(f, s, q)
    OBVIOUS
  <2>4. h = [f EXCEPT !.pending = z]
    BY <1>4, <1>9, <2>1, <2>3 DEF StoreFutureSegment
  <2>5. h \in Flows
    BY <2>3, StoreKeeps DEF Gathered
  <2>6. h.next_seq = f.next_seq /\ h.buffer = f.buffer /\ h.pending = z
    <3>1. f \in Flows
      BY DEF Gathered
    <3> QED
      BY <2>4, <3>1 DEF Flows
  <2>7. Reach(c, h) = r
    BY <1>5, <2>6 DEF Reach
  <2>8. AllEarly(c, o, z)
    <3>1. ASSUME NEW t \in DOMAIN z PROVE Early(c, t, z[t]) /\ Offset(c, t) >= o
      <4>1. CASE t = s
        BY <1>1, <1>3, <1>6, <2>2, <4>1
      <4>2. CASE t # s
        <5>1. t \in DOMAIN p /\ z[t] = p[t]
          BY <2>2, <4>2
        <5>2. AllEarly(c, o, p)
          BY <1>4 DEF Gathered
        <5> QED
          BY <5>1, <5>2 DEF AllEarly
      <4> QED
        BY <4>1, <4>2
    <3> QED
      BY <3>1 DEF AllEarly
  <2>9. Covered(c, z) = Covered(c, p) \cup (a .. e - 1)
    <3>1. Span(c, s, z[s]) = a .. e - 1
      BY <1>3, <2>2
    <3>2. \A t \in DOMAIN p : t # s => Span(c, t, z[t]) = Span(c, t, p[t])
      BY <2>2
    <3>3. s \in DOMAIN p => Span(c, s, p[s]) \subseteq a .. e - 1
      <4>1. ASSUME s \in DOMAIN p PROVE Span(c, s, p[s]) \subseteq a .. e - 1
        <5>1. Span(c, s, p[s]) = a .. a + Len(p[s]) - 1 /\ Len(p[s]) \in Nat
          BY <1>1, <4>1, PendingIs DEF Span, Payloads
        <5>2. ~(e - a <= Len(p[s]))
          BY <1>2, <1>9, <4>1
        <5> QED
          BY <5>1, <5>2
      <4> QED
        BY <4>1
    <3>4. \A k : k \in Covered(c, z) <=> \E t \in DOMAIN z : k \in Span(c, t, z[t])
      BY DEF Covered
    <3>5. \A k : k \in Covered(c, p) <=> \E t \in DOMAIN p : k \in Span(c, t, p[t])
      BY DEF Covered
    <3>6. ASSUME NEW k PROVE k \in Covered(c, z) <=> k \in Covered(c, p) \cup (a .. e - 1)
      BY <2>2, <3>1, <3>2, <3>3, <3>4, <3>5
    <3> QED
      BY <3>6
  <2>10. g \cup NewBytes(o, a, e) = (o .. Reach(c, h) - 1) \cup Covered(c, h.pending)
    BY <1>6, <1>7, <2>6, <2>7, <2>9
  <2>11. h.next_seq = SeqAt(c, Reach(c, h)) /\ h.buffer = b \o Part(c, n, Reach(c, h))
    BY <1>5, <2>6, <2>7 DEF Gathered
  <2>12. Reach(c, h) \in n .. Len(Sent[c]) /\ AllEarly(c, o, h.pending)
    BY <1>5, <2>6, <2>7, <2>8 DEF Gathered
  <2>13. Gathered(c, o, n, b, g \cup NewBytes(o, a, e), h)
    BY <2>5, <2>10, <2>11, <2>12 DEF Gathered
  <2> QED
    BY <1>1, <1>2, <2>3, <2>13
<1> QED
  BY <1>8, <1>9

-----------------------------------------------------------------------------
(* Between packets the buffer is what the messages of the gap-free bytes   *)
(* leave, and no early segment is due.                                     *)
Left(c, o, r) == FlushCompleteMessages(Part(c, o, r)).buffer
Found(c, o, r) == Messages(Part(c, o, r))
Following(c, o, g, f) ==
    /\ Ready(f) = {}
    /\ Reach(c, f) \in o .. Len(Sent[c])
    /\ f.buffer = Left(c, o, Reach(c, f))
    /\ Gathered(c, o, Reach(c, f), f.buffer, g, f)

LEMMA LeftIs ==
  ASSUME NEW c \in DOMAIN Sent, NEW r \in 0 .. Len(Sent[c]), NEW o \in 0 .. r
  PROVE  /\ Left(c, o, r) \in Payloads
         /\ Found(c, o, r) \in Seq(Payloads)
         /\ o = r => Left(c, o, r) = <<>> /\ Found(c, o, r) = <<>>
<1>1. PICK b : b = Part(c, o, r) /\ b \in Seq(Bytes)
  BY PartIs DEF Payloads
<1>2. FlushCompleteMessages(b) \in Flushed(Bytes)
  BY <1>1, FlushIsBounded
<1>3. FlushCompleteMessages(b).emitted = Messages(b)
  BY <1>1, FlushEmitsMessages
<1>4. o = r => b = <<>>
  BY <1>1, NoPart
<1>5. b = <<>> => FlushCompleteMessages(b).buffer = <<>> /\ FlushCompleteMessages(b).emitted = <<>>
  BY FlushNothing
<1> QED
  BY <1>1, <1>2, <1>3, <1>4, <1>5 DEF Left, Found, Flushed, Payloads

FlushedInto(d, h) == h = [d EXCEPT !.buffer = FlushCompleteMessages(d.buffer).buffer]

(* Draining a flow and flushing its buffer: the flow follows the stream,   *)
(* and what is emitted are the messages that the new bytes complete.       *)
LEMMA FlushFollowsStream ==
  ASSUME NEW c \in DOMAIN Sent, NEW n \in 0 .. Len(Sent[c]), NEW o \in 0 .. n,
         NEW g, NEW f, Gathered(c, o, n, Left(c, o, n), g, f),
         NEW h, FlushedInto(DrainPendingSegments(f), h)
  PROVE  /\ Following(c, o, g, h) /\ Reach(c, h) \in n .. Len(Sent[c])
         /\ Found(c, o, Reach(c, h)) =
              Found(c, o, n) \o FlushCompleteMessages(DrainPendingSegments(f).buffer).emitted
<1>1. PICK b \in Payloads : b = Left(c, o, n)
  BY LeftIs
<1>2. PICK d : d = DrainPendingSegments(f)
  OBVIOUS
<1>3. Gathered(c, o, n, b, g, d) /\ d \in Flows /\ Ready(d) = {}
  <2> DEFINE F == {x \in Flows : Gathered(c, o, n, b, g, x)}
  <2>1. f \in Flows /\ f \in F /\ F \subseteq Flows
    BY <1>1 DEF Gathered
  <2>2. \A x \in F : DrainOne(x) \in F
    <3>1. ASSUME NEW x \in F PROVE DrainOne(x) \in F
      <4>1. Gathered(c, o, n, b, g, DrainOne(x))
        BY GatheredDrain
      <4> QED
        BY <4>1 DEF Gathered
    <3> QED
      BY <3>1
  <2>3. d \in F
    <3> HIDE DEF F
    <3> QED
      BY <1>2, <2>1, <2>2, DrainStays
  <2> QED
    BY <1>2, <2>1, <2>3, DrainEmpties
<1>4. PICK r \in n .. Len(Sent[c]) : /\ r = Reach(c, d) /\ d.next_seq = SeqAt(c, r)
                                     /\ d.buffer = b \o Part(c, n, r)
  BY <1>3 DEF Gathered
<1>5. /\ r \in 0 .. Len(Sent[c]) /\ o \in 0 .. r /\ n \in 0 .. r /\ r \in r .. Len(Sent[c])
  BY StreamIs
<1>6. PICK x, y, z \in Payloads : /\ x = Part(c, o, n) /\ y = Part(c, n, r) /\ z = Part(c, o, r)
                                  /\ z = x \o y
  <2>1. Part(c, o, n) \in Payloads /\ Part(c, n, r) \in Payloads /\ Part(c, o, r) \in Payloads
    BY <1>5, PartIs
  <2>2. Part(c, o, n) \o Part(c, n, r) = Part(c, o, r)
    BY <1>5, PartsJoin
  <2> QED
    BY <2>1, <2>2
<1>7. PICK v \in Flushed(Bytes) : v = FlushCompleteMessages(d.buffer)
  <2>1. d.buffer \in Seq(Bytes)
    BY <1>3, FlowIs DEF Payloads
  <2> QED
    BY <2>1, FlushIsBounded
<1>8. /\ FlushCompleteMessages(z).buffer = v.buffer
      /\ Messages(z) = Messages(x) \o v.emitted
  <2>1. x \in Seq(Bytes) /\ y \in Seq(Bytes) /\ z \in Seq(Bytes)
    BY DEF Payloads
  <2>2. FlushCompleteMessages(x \o y) =
          [emitted |-> FlushCompleteMessages(x).emitted \o
                         FlushCompleteMessages(FlushCompleteMessages(x).buffer \o y).emitted,
           buffer |-> FlushCompleteMessages(FlushCompleteMessages(x).buffer \o y).buffer]
    BY <2>1, FlushInPieces
  <2>3. FlushCompleteMessages(x).buffer = b
    BY <1>1, <1>6 DEF Left
  <2>4. FlushCompleteMessages(FlushCompleteMessages(x).buffer \o y) = v
    BY <1>4, <1>6, <1>7, <2>3
  <2>5. /\ FlushCompleteMessages(x).emitted = Messages(x)
        /\ FlushCompleteMessages(z).emitted = Messages(z)
    BY <2>1, FlushEmitsMessages
  <2> QED
    BY <1>6, <2>2, <2>4, <2>5
<1>9. h.next_seq = d.next_seq /\ h.buffer = v.buffer /\ h.pending = d.pending /\ h \in Flows
  <2>1. h = FlowRec(d.next_seq, v.buffer, d.pending)
    BY <1>2, <1>3, <1>7 DEF Flows, FlowRec, FlushedInto
  <2>2. v.buffer \in Payloads
    BY DEF Flushed, Payloads
  <2>3. FlowRec(d.next_seq, v.buffer, d.pending) \in Flows
    BY <1>3, <2>2, FlowIs, IsFlow
  <2>4. h.next_seq = d.next_seq /\ h.buffer = v.buffer /\ h.pending = d.pending
    BY <2>1 DEF FlowRec
  <2> QED
    BY <2>1, <2>3, <2>4
<1>10. Reach(c, h) = r
  BY <1>4, <1>9 DEF Reach
<1>11. h.buffer = Left(c, o, r)
  BY <1>6, <1>8, <1>9 DEF Left
<1>12. Ready(h) = {}
  BY <1>3, <1>9 DEF Ready
<1>13. Gathered(c, o, r, h.buffer, g, h)
  <2>1. h.buffer = h.buffer \o Part(c, r, r)
    <3>1. Part(c, r, r) = <<>> /\ h.buffer \in Seq(Bytes)
      BY <1>5, <1>9, NoPart, FlowIs DEF Payloads
    <3> QED
      BY <3>1, ConcatEmptySeq
  <2>2. AllEarly(c, o, h.pending)
    BY <1>3, <1>9 DEF Gathered
  <2>3. g = (o .. r - 1) \cup Covered(c, h.pending)
    BY <1>3, <1>4, <1>9 DEF Gathered
  <2>4. h.next_seq = SeqAt(c, r)
    BY <1>4, <1>9
  <2> QED
    BY <1>5, <1>9, <1>10, <2>1, <2>2, <2>3, <2>4 DEF Gathered
<1>14. Found(c, o, r) = Found(c, o, n) \o v.emitted
  BY <1>6, <1>8 DEF Found
<1>15. r \in o .. Len(Sent[c])
  BY <1>5
<1> QED
  BY <1>2, <1>7, <1>10, <1>11, <1>12, <1>13, <1>14, <1>15 DEF Following

-----------------------------------------------------------------------------
(* What MessageStream says of a flow that follows the stream.              *)
LEMMA ReachedIs ==
  ASSUME NEW c \in DOMAIN Sent, NEW o \in 0 .. Len(Sent[c]), NEW g, NEW r \in o .. Len(Sent[c]),
         r \notin g, o .. r - 1 \subseteq g
  PROVE  /\ Promise!Reached(c, o, g) = r
         /\ Promise!Contents(c, o, g) = Part(c, o, r)
<1>1. PICK n \in Nat : n = Len(Sent[c])
  BY StreamIs
<1> DEFINE P(t) == t \notin g /\ \A q \in o .. t - 1 : q \in g
<1>2. r \in o .. Len(Sent[c]) /\ P(r)
  OBVIOUS
<1>3. ASSUME NEW t \in o .. Len(Sent[c]), P(t) PROVE t = r
  <2>1. ~(t < r)
    <3>1. t < r => t \in o .. r - 1
      BY <1>1
    <3> QED
      BY <1>3, <3>1
  <2>2. ~(r < t)
    <3>1. r < t => r \in o .. t - 1
      BY <1>1
    <3> QED
      BY <1>3, <3>1
  <2> QED
    BY <1>1, <2>1, <2>2
<1>4. (CHOOSE t \in o .. Len(Sent[c]) : P(t)) = r
  <2> HIDE DEF P
  <2> QED
    BY <1>2, <1>3
<1>5. Promise!Reached(c, o, g) = r
  BY <1>4 DEF Promise!Reached
<1> QED
  BY <1>5 DEF Promise!Contents, Part

LEMMA FollowingIs ==
  ASSUME NEW c \in DOMAIN Sent, NEW o \in 0 .. Len(Sent[c]), NEW g, NEW f, Following(c, o, g, f)
  PROVE  /\ Promise!Reached(c, o, g) = Reach(c, f)
         /\ Promise!Contents(c, o, g) = Part(c, o, Reach(c, f))
         /\ Promise!Unfinished(c, o, g) => BufferedBytes(f) > 0
<1>1. PICK n \in Nat : n = Len(Sent[c])
  BY StreamIs
<1>2. PICK r \in o .. n : r = Reach(c, f)
  BY <1>1 DEF Following
<1>3. /\ f \in Flows /\ f.next_seq = SeqAt(c, r) /\ AllEarly(c, o, f.pending)
      /\ g = (o .. r - 1) \cup Covered(c, f.pending) /\ Ready(f) = {}
      /\ f.buffer = Left(c, o, r)
  BY <1>2 DEF Following, Gathered
<1>4. PICK p \in Pendings : p = f.pending
  BY <1>3, FlowIs
<1>5. ASSUME NEW s \in DOMAIN p
      PROVE  \E a \in 0 .. n : \E e \in a + 1 .. n : a > r /\ Span(c, s, p[s]) = a .. e - 1
  <2>1. s \in Numbers /\ p[s] \in Payloads /\ Early(c, s, p[s])
    BY <1>3, <1>4, PendingIs DEF AllEarly
  <2>2. PICK a \in 0 .. Len(Sent[c]) : \E e \in a + 1 .. Len(Sent[c]) :
           s = SeqAt(c, a) /\ Span(c, s, p[s]) = a .. e - 1
    <3>1. PICK q \in Payloads : q = p[s]
      BY <2>1
    <3> QED
      BY <2>1, <3>1, EarlyIs
  <2>3. SequenceAfter(s, f.next_seq)
    BY <1>3, <1>4 DEF Ready
  <2>4. r \in 0 .. Len(Sent[c])
    BY <1>1, <1>2
  <2>5. a > r
    BY <1>3, <2>2, <2>3, <2>4, SeqAtAfter
  <2> QED
    BY <1>1, <2>2, <2>5
<1>6. r \notin Covered(c, p)
  BY <1>1, <1>2, <1>5 DEF Covered
<1>7. r \in o .. Len(Sent[c]) /\ r \notin g /\ o .. r - 1 \subseteq g
  BY <1>1, <1>2, <1>3, <1>4, <1>6
<1>8. Promise!Reached(c, o, g) = r /\ Promise!Contents(c, o, g) = Part(c, o, r)
  BY <1>7, ReachedIs
<1>9. PICK k \in Nat : k = Len(f.buffer)
  BY <1>3, FlowIs DEF Payloads
<1>10. ASSUME NEW q \in g, q > r PROVE BufferedBytes(f) > 0
  <2>1. PICK s \in DOMAIN p : q \in Span(c, s, p[s])
    BY <1>1, <1>2, <1>3, <1>4, <1>10 DEF Covered
  <2>2. p[s] # <<>>
    BY <1>3, <1>4 DEF AllEarly, Early
  <2>3. PICK z : z = [t \in DOMAIN p |-> Len(p[t])]
    OBVIOUS
  <2>4. DOMAIN z = DOMAIN p /\ z[s] = Len(p[s])
    BY <2>3
  <2>5. \A t \in DOMAIN z : z[t] \in Nat
    <3>1. \A t \in DOMAIN p : p[t] \in Seq(Bytes)
      BY PendingIs DEF Payloads
    <3> QED
      BY <2>3, <3>1
  <2>6. z[s] > 0
    <3>1. p[s] \in Seq(Bytes)
      BY PendingIs DEF Payloads
    <3>2. Len(p[s]) # 0 /\ Len(p[s]) \in Nat
      BY <2>2, <3>1, EmptySeq
    <3> QED
      BY <2>4, <3>2
  <2>7. IsFiniteSet(DOMAIN z)
    BY <1>3, <1>4, <2>4, WaitingIs
  <2>8. SumFunctionOnSet(z, DOMAIN z) \in Nat /\ z[s] <= SumFunctionOnSet(z, DOMAIN z)
    <3>1. PICK D : D = DOMAIN z /\ IsFiniteSet(D) /\ s \in D /\ \A t \in D : z[t] \in Nat
      BY <2>4, <2>5, <2>7
    <3>2. SumFunctionOnSet(z, D) \in Nat
      BY <3>1, SumOverSet
    <3>3. z[s] <= SumFunctionOnSet(z, D)
      BY <3>1, SumBounds
    <3> QED
      BY <3>1, <3>2, <3>3
  <2>9. BufferedBytes(f) = k + SumFunctionOnSet(z, DOMAIN z)
    BY <1>4, <1>9, <2>3 DEF BufferedBytes, SumFunction
  <2> QED
    BY <2>4, <2>5, <2>6, <2>8, <2>9
<1>11. ASSUME ReadWhole(Part(c, o, r)).open PROVE BufferedBytes(f) > 0
  <2>1. Part(c, o, r) \in Seq(Bytes)
    <3>1. r \in 0 .. Len(Sent[c]) /\ o \in 0 .. r
      BY <1>1, <1>2
    <3> QED
      BY <3>1, PartIs DEF Payloads
  <2>2. f.buffer # <<>>
    BY <1>3, <1>11, <2>1, FlushKeepsOpen DEF Left
  <2>3. f.buffer \in Seq(Bytes)
    BY <1>3, FlowIs DEF Payloads
  <2>4. k > 0
    BY <1>9, <2>2, <2>3, EmptySeq
  <2> QED
    <3>1. PICK m \in Nat : m = SumFunction([t \in DOMAIN f.pending |-> Len(f.pending[t])])
      BY <1>3, EarlyBytes
    <3>2. BufferedBytes(f) = k + m
      BY <1>9, <3>1 DEF BufferedBytes
    <3> QED
      BY <2>4, <3>1, <3>2
<1>12. Promise!Unfinished(c, o, g) => BufferedBytes(f) > 0
  <2>1. Promise!ReadWhole(Part(c, o, r)).open <=> ReadWhole(Part(c, o, r)).open
    BY SameReading
  <2> QED
    BY <1>8, <1>10, <1>11, <2>1 DEF Promise!Unfinished
<1> QED
  BY <1>2, <1>8, <1>12

(* A stretch that has captured nothing.                                    *)
LEMMA NothingCaptured ==
  ASSUME NEW c \in DOMAIN Sent, NEW o \in 0 .. Len(Sent[c])
  PROVE  /\ Promise!Contents(c, o, {}) = Part(c, o, o)
         /\ ~Promise!Unfinished(c, o, {})
<1>1. o \in o .. Len(Sent[c]) /\ o .. o - 1 \subseteq {}
  BY StreamIs
<1>2. Promise!Contents(c, o, {}) = Part(c, o, o)
  BY <1>1, ReachedIs
<1>3. PICK b \in Seq(Bytes) : b = <<>> /\ b = Part(c, o, o)
  BY NoPart, EmptySeq
<1>4. ~ReadWhole(b).open
  <2>1. FlushCompleteMessages(b).buffer = <<>>
    BY <1>3, FlushNothing
  <2> QED
    BY <2>1, FlushKeepsOpen
<1>5. ~Promise!ReadWhole(b).open
  BY <1>4, SameReading
<1> QED
  BY <1>2, <1>3, <1>5 DEF Promise!Unfinished

(* The messages that new bytes complete.                                   *)
LEMMA CompletedIs ==
  ASSUME NEW c, NEW o, NEW g, NEW h, NEW e \in Seq(Payloads),
         Messages(Promise!Contents(c, o, g)) \in Seq(Payloads),
         Messages(Promise!Contents(c, o, h)) = Messages(Promise!Contents(c, o, g)) \o e
  PROVE  Promise!Completed(c, o, g, h) = e
<1>0. PICK x, y : x = Promise!Contents(c, o, g) /\ y = Promise!Contents(c, o, h)
  OBVIOUS
<1>1. Promise!Completed(c, o, g, h) = SubSeq(Messages(y), Len(Messages(x)) + 1, Len(Messages(y)))
  BY <1>0, SameMessages DEF Promise!Completed
<1>2. PICK u \in Seq(Payloads) : u = Messages(x)
  BY <1>0
<1>3. PICK w \in Seq(Payloads) : w = Messages(y) /\ w = u \o e
  BY <1>0, <1>2, ConcatProperties
<1>4. PICK i, j : i = Len(u) + 1 /\ j = Len(w)
  OBVIOUS
<1>5. Len(w) = Len(u) + Len(e) /\ \A k \in 1 .. Len(e) : w[Len(u) + k] = e[k]
  <2>1. /\ Len(u \o e) = Len(u) + Len(e)
        /\ \A k \in 1 .. Len(u) + Len(e) : (u \o e)[k] = IF k <= Len(u) THEN u[k] ELSE e[k - Len(u)]
    BY ConcatProperties
  <2> QED
    BY <1>3, <2>1
<1>6. i \in Int /\ j \in Int /\ i >= 1 /\ j <= Len(w)
  BY <1>4
<1>7. /\ SubSeq(w, i, j) \in Seq(Payloads)
      /\ Len(SubSeq(w, i, j)) = IF i <= j THEN j - i + 1 ELSE 0
      /\ \A m \in 1 .. j - i + 1 : SubSeq(w, i, j)[m] = w[i + m - 1]
  BY <1>6, SubSeqIs
<1>8. PICK z \in Seq(Payloads) : z = SubSeq(w, i, j)
  BY <1>7
<1>9. Len(z) = Len(e)
  BY <1>4, <1>5, <1>7, <1>8
<1>10. ASSUME NEW k \in 1 .. Len(e) PROVE z[k] = e[k]
  <2>1. z[k] = w[i + k - 1] /\ i + k - 1 = Len(u) + k
    BY <1>4, <1>5, <1>7, <1>8
  <2> QED
    BY <1>5, <2>1
<1>11. z = e
  BY <1>9, <1>10, SeqEqual
<1> QED
  BY <1>1, <1>2, <1>3, <1>4, <1>8, <1>11

(* A segment that is stored in a new flow, or in one that follows.         *)
LEMMA OpensStream ==
  ASSUME NEW c \in DOMAIN Sent, NEW a \in 0 .. Len(Sent[c]), NEW e \in a + 1 .. Len(Sent[c])
  PROVE  Gathered(c, a, a, Left(c, a, a), NewBytes(a, a, e),
                  Stored(NewFlow, SeqAt(c, a), Part(c, a, e)))
<1>1. PICK l \in Nat : l = Len(Sent[c]) /\ a \in 0 .. l /\ e \in a + 1 .. l
  BY StreamIs
<1>2. PICK s \in Numbers : s = SeqAt(c, a)
  BY SeqAtIs
<1>3. Stored(NewFlow, s, Part(c, a, e)) = AppendSegment(NewFlow, s, Part(c, a, e))
  <2>1. Expected(NewFlow, s) = s
    BY DEF Expected, NewFlow
  <2>2. SeqSub(s, s) = 0
    <3>1. s >= s => SeqSub(s, s) = s - s
      BY SubCases
    <3> QED
      BY <3>1 DEF Numbers
  <2>3. ~SequenceAfter(s, s)
    BY <2>2 DEF SequenceAfter
  <2> QED
    BY <2>1, <2>3 DEF Stored
<1>4. PICK q \in Payloads : q = Part(c, a, e)
  <2>1. e \in 0 .. Len(Sent[c]) /\ a \in 0 .. e
    BY <1>1
  <2> QED
    BY <2>1, PartIs
<1>5. PICK p : p = <<>>
  OBVIOUS
<1>6. p \in Pendings /\ DOMAIN p = {}
  <2>1. p = [t \in {} |-> p[t]]
    BY <1>5
  <2>2. {} \in SUBSET Numbers /\ p \in [{} -> Payloads]
    BY <2>1
  <2> QED
    BY <2>2, IsPending
<1>7. PICK h : h = FlowRec(SeqAt(c, e), q, p)
  OBVIOUS
<1>8. h.next_seq = SeqAt(c, e) /\ h.buffer = q /\ h.pending = p
  BY <1>7 DEF FlowRec
<1>9. e \in 0 .. Len(Sent[c]) /\ a \in 0 .. a /\ a \in 0 .. Len(Sent[c])
  BY <1>1
<1>10. SeqAt(c, e) \in Numbers /\ Reach(c, h) = e
  BY <1>8, <1>9, SeqAtIs DEF Reach
<1>11. h \in Flows
  BY <1>6, <1>7, <1>10, IsFlow
<1>12. h.buffer = Left(c, a, a) \o Part(c, a, e)
  <2>1. Left(c, a, a) = <<>>
    BY <1>9, LeftIs
  <2>2. q \in Seq(Bytes) /\ <<>> \o q = q
    BY ConcatEmptySeq DEF Payloads
  <2> QED
    BY <1>4, <1>8, <2>1, <2>2
<1>13. NewBytes(a, a, e) = (a .. e - 1) \cup Covered(c, p)
  <2>1. Covered(c, p) = {}
    BY <1>6 DEF Covered
  <2> QED
    BY <1>1, <2>1 DEF NewBytes
<1>14. AllEarly(c, a, p)
  BY <1>6 DEF AllEarly
<1>15. Gathered(c, a, a, Left(c, a, a), NewBytes(a, a, e), h)
  <2>1. e \in a .. Len(Sent[c])
    BY <1>1
  <2> QED
    BY <1>8, <1>10, <1>11, <1>12, <1>13, <1>14, <2>1 DEF Gathered
<1> QED
  BY <1>2, <1>3, <1>4, <1>5, <1>7, <1>15, OpensWith

LEMMA StaysInStream ==
  ASSUME NEW c \in DOMAIN Sent, NEW o \in 0 .. Len(Sent[c]), NEW g, NEW f, Following(c, o, g, f),
         NEW a \in 0 .. Len(Sent[c]), NEW e \in a + 1 .. Len(Sent[c])
  PROVE  Gathered(c, o, Reach(c, f), Left(c, o, Reach(c, f)), g \cup NewBytes(o, a, e),
                  Stored(f, SeqAt(c, a), Part(c, a, e)))
<1>1. PICK l \in Nat : l = Len(Sent[c])
  BY StreamIs
<1>2. PICK r \in 0 .. Len(Sent[c]) : r = Reach(c, f) /\ r \in o .. Len(Sent[c])
  BY <1>1 DEF Following
<1>3. f \in Flows /\ f.next_seq = SeqAt(c, r)
  BY <1>2 DEF Following, Gathered
<1>4. PICK b \in Payloads : b = Left(c, o, r) /\ Gathered(c, o, r, b, g, f)
  <2>1. o \in 0 .. r
    BY <1>1, <1>2
  <2>2. Left(c, o, r) \in Payloads
    BY <1>2, <2>1, LeftIs
  <2> QED
    BY <1>2, <2>2 DEF Following
<1>5. PICK s, q : s = SeqAt(c, a) /\ q = Part(c, a, e)
  OBVIOUS
<1>6. Expected(f, s) = f.next_seq
  BY <1>3, FlowIs, NoSeqIsNoNumber DEF Expected
<1>7. SequenceAfter(s, Expected(f, s)) <=> a > r
  BY <1>2, <1>3, <1>5, <1>6, SeqAtAfter
<1>8. o \in 0 .. r
  BY <1>1, <1>2
<1>9. CASE a > r
  <2>1. Stored(f, s, q) = StoreFutureSegment(f, s, q)
    BY <1>7, <1>9 DEF Stored
  <2>2. Gathered(c, o, r, b, g \cup NewBytes(o, a, e),
                 StoreFutureSegment(f, SeqAt(c, a), Part(c, a, e)))
    BY <1>2, <1>4, <1>8, <1>9, GatheredStore
  <2> QED
    BY <1>2, <1>4, <1>5, <2>1, <2>2
<1>10. CASE ~(a > r)
  <2>1. Stored(f, s, q) = AppendSegment(f, s, q)
    BY <1>7, <1>10 DEF Stored
  <2>2. a <= r
    BY <1>1, <1>2, <1>10
  <2>3. Gathered(c, o, r, b, g \cup NewBytes(o, a, e), AppendSegment(f, SeqAt(c, a), Part(c, a, e)))
    BY <1>2, <1>4, <1>8, <2>2, GatheredAppend
  <2> QED
    BY <1>2, <1>4, <1>5, <2>1, <2>3
<1> QED
  BY <1>9, <1>10

(* A segment is captured into a stretch from o, of which g was captured.   *)
InStretch(c, o, g, f, a) ==
    \/ f = NewFlow /\ o = a /\ g = {}
    \/ o \in 0 .. Len(Sent[c]) /\ Following(c, o, g, f)

Reassembled(c, a, e, f, r) ==
    r = Reassemble(f, SeqAt(c, a), Part(c, a, e)) /\ ~r.overflow

LEMMA ReassemblyFollows ==
  ASSUME NEW c \in DOMAIN Sent, NEW a \in 0 .. Len(Sent[c]), NEW e \in a + 1 .. Len(Sent[c]),
         NEW o, NEW g, NEW f, InStretch(c, o, g, f, a),
         NEW r, Reassembled(c, a, e, f, r)
  PROVE  /\ o \in 0 .. Len(Sent[c]) /\ Following(c, o, g \cup NewBytes(o, a, e), r.flow)
         /\ r.emitted \in Seq(Payloads)
         /\ Promise!Completed(c, o, g, g \cup NewBytes(o, a, e)) = r.emitted
<1>1. PICK l \in Nat : l = Len(Sent[c])
  BY StreamIs
<1>2. PICK h : h = g \cup NewBytes(o, a, e)
  OBVIOUS
<1>3. PICK u : u = Stored(f, SeqAt(c, a), Part(c, a, e))
  OBVIOUS
<1>4. PICK n \in 0 .. Len(Sent[c]) :
         /\ o \in 0 .. n /\ Promise!Contents(c, o, g) = Part(c, o, n)
         /\ Gathered(c, o, n, Left(c, o, n), h, u)
  <2>1. CASE f = NewFlow /\ o = a /\ g = {}
    <3>1. Gathered(c, a, a, Left(c, a, a), NewBytes(a, a, e), u)
      BY <1>3, <2>1, OpensStream
    <3>2. Promise!Contents(c, o, g) = Part(c, o, a) /\ h = NewBytes(a, a, e) /\ a \in 0 .. a
      BY <1>1, <1>2, <2>1, NothingCaptured
    <3> QED
      BY <2>1, <3>1, <3>2
  <2>2. CASE o \in 0 .. Len(Sent[c]) /\ Following(c, o, g, f)
    <3>1. PICK n \in o .. l : n = Reach(c, f)
      BY <1>1, <2>2 DEF Following
    <3>2. Promise!Contents(c, o, g) = Part(c, o, n)
      BY <2>2, <3>1, FollowingIs
    <3>3. Gathered(c, o, n, Left(c, o, n), h, u)
      BY <1>2, <1>3, <2>2, <3>1, StaysInStream
    <3>4. n \in 0 .. Len(Sent[c]) /\ o \in 0 .. n
      BY <1>1, <2>2, <3>1
    <3> QED
      BY <3>2, <3>3, <3>4
  <2> QED
    BY <2>1, <2>2 DEF InStretch
<1>5. PICK d, v : d = DrainPendingSegments(u) /\ v = FlushCompleteMessages(d.buffer)
  OBVIOUS
<1>6. r.flow = [d EXCEPT !.buffer = v.buffer] /\ r.emitted = v.emitted
  <2>1. Reassemble(f, SeqAt(c, a), Part(c, a, e)) =
          IF BufferedBytes(d) > MaxFlowBytes
          THEN [flow |-> NewFlow, emitted |-> <<>>, overflow |-> TRUE]
          ELSE [flow |-> [d EXCEPT !.buffer = v.buffer], emitted |-> v.emitted, overflow |-> FALSE]
    BY <1>3, <1>5 DEF Reassemble, Stored
  <2> QED
    BY <2>1 DEF Reassembled
<1>7. /\ Following(c, o, h, r.flow) /\ Reach(c, r.flow) \in n .. Len(Sent[c])
      /\ Found(c, o, Reach(c, r.flow)) = Found(c, o, n) \o v.emitted
  <2>1. PICK k : k = r.flow
    OBVIOUS
  <2>2. FlushedInto(DrainPendingSegments(u), k)
    BY <1>5, <1>6, <2>1 DEF FlushedInto
  <2>3. /\ Following(c, o, h, k) /\ Reach(c, k) \in n .. Len(Sent[c])
        /\ Found(c, o, Reach(c, k)) =
             Found(c, o, n) \o FlushCompleteMessages(DrainPendingSegments(u).buffer).emitted
    BY <1>4, <2>2, FlushFollowsStream
  <2> QED
    BY <1>5, <2>1, <2>3
<1>8. v.emitted \in Seq(Payloads)
  <2>1. u \in Flows
    BY <1>4 DEF Gathered
  <2>2. d.buffer \in Seq(Bytes)
    BY <1>5, <2>1, DrainEmpties, FlowIs DEF Payloads
  <2>3. v \in Flushed(Bytes)
    BY <1>5, <2>2, FlushIsBounded
  <2> QED
    BY <2>3 DEF Flushed, Payloads
<1>9. o \in 0 .. Len(Sent[c])
  BY <1>1, <1>4
<1>10. Promise!Contents(c, o, h) = Part(c, o, Reach(c, r.flow))
  BY <1>7, <1>9, FollowingIs
<1>11. Promise!Completed(c, o, g, h) = v.emitted
  <2>1. PICK x, y : x = Part(c, o, n) /\ y = Part(c, o, Reach(c, r.flow))
    OBVIOUS
  <2>2. Messages(x) \in Seq(Payloads) /\ Messages(y) = Messages(x) \o v.emitted
    BY <1>4, <1>7, <2>1, LeftIs DEF Found
  <2> QED
    <3>1. Promise!Contents(c, o, g) = x /\ Promise!Contents(c, o, h) = y
      BY <1>4, <1>10, <2>1
    <3> QED
      BY <1>8, <2>2, <3>1, CompletedIs
<1> QED
  BY <1>2, <1>6, <1>7, <1>8, <1>9, <1>11

-----------------------------------------------------------------------------
(* The steps of MessageStream that a flow takes.                           *)
LEMMA CapturesAnew ==
  ASSUME NEW c \in DOMAIN Sent, NEW o \in 0 .. Len(Sent[c]), NEW e \in o .. Len(Sent[c]),
         NEW ends \in BOOLEAN, Promise!Capture(c, o, o .. e - 1, TRUE, ends)
  PROVE  Promise!Next
  BY DEF Promise!Next

LEMMA CapturesMore ==
  ASSUME from # NotOpen, NEW a \in from .. Len(Sent[conn]), NEW e \in a .. Len(Sent[conn]),
         NEW ends \in BOOLEAN, Promise!Capture(conn, from, a .. e - 1, FALSE, ends)
  PROVE  Promise!Next
  BY DEF Promise!Next

LEMMA GivesUp ==
  ASSUME conn' \in DOMAIN Sent, losses \in Nat, losses' \in Nat, losses' > losses, out' = out,
         from' = NotOpen, got' = {}
  PROVE  Promise!Next
<1>1. PICK c \in DOMAIN Sent : c = conn'
  OBVIOUS
<1>2. 0 \in 0 .. Len(Sent[c]) /\ losses' >= losses
  BY StreamIs
<1>3. Promise!Capture(c, 0, 0 .. 0 - 1, TRUE, TRUE)
  BY <1>1, <1>2 DEF Promise!Capture
<1> QED
  BY <1>2, <1>3, CapturesAnew

(* A packet's work, in terms of the stream.                                *)
LEMMA PacketIs ==
  ASSUME NEW p \in Packets, NEW c, NEW a, NEW e, c = p.conn, a = p.from, e = p.to
  PROVE  /\ c \in DOMAIN Sent /\ a \in 0 .. Len(Sent[c]) /\ e \in a .. Len(Sent[c])
         /\ WorkOf(p).seq = SeqAt(c, a) /\ WorkOf(p).payload = Part(c, a, e)
         /\ WorkOf(p).starts_flow = p.syn /\ WorkOf(p).ends_flow = p.fin
         /\ p.syn \in BOOLEAN /\ p.fin \in BOOLEAN
         /\ WorkOf(p).payload = <<>> <=> a = e
<1>1. /\ c \in DOMAIN Sent /\ e \in 0 .. Len(Sent[c]) /\ a \in 0 .. e
      /\ p.syn \in BOOLEAN /\ p.fin \in BOOLEAN
      /\ p.syn => a = 0
  BY ConnectionAssumption
<1>2. a \in 0 .. Len(Sent[c]) /\ e \in a .. Len(Sent[c])
  BY <1>1, StreamIs
<1>3. WorkOf(p).seq = SeqAt(c, a)
  <2>1. a = 0 => 1 + a = 1
    OBVIOUS
  <2>2. PICK x : x = 1 + a
    OBVIOUS
  <2>3. SeqAt(c, a) = SeqAdd(Isn[c], x)
    BY <2>2 DEF SeqAt
  <2>4. WorkOf(p).seq = IF p.syn THEN SeqAdd(Isn[c], 1) ELSE SeqAt(c, a)
    BY <1>1 DEF WorkOf
  <2>5. CASE p.syn
    <3>1. x = 1
      BY <1>1, <2>1, <2>2, <2>5
    <3>2. SeqAt(c, a) = SeqAdd(Isn[c], 1)
      BY <2>3, <3>1
    <3> QED
      BY <2>4, <2>5, <3>2
  <2>6. CASE ~p.syn
    BY <2>4, <2>6
  <2> QED
    BY <2>5, <2>6
<1>4. /\ WorkOf(p).payload = Part(c, a, e)
      /\ WorkOf(p).starts_flow = p.syn /\ WorkOf(p).ends_flow = p.fin
  BY DEF WorkOf, Part
<1>5. Part(c, a, e) = <<>> <=> a = e
  <2>1. PICK q \in Payloads : q = Part(c, a, e) /\ Len(q) = e - a
    BY <1>1, PartIs
  <2>2. Len(q) = 0 <=> q = <<>>
    BY EmptySeq DEF Payloads
  <2> QED
    BY <1>1, <1>2, <2>1, <2>2
<1>6. WorkOf(p).payload = <<>> <=> a = e
  BY <1>4, <1>5
<1>7. WorkOf(p).starts_flow = p.syn /\ WorkOf(p).ends_flow = p.fin
  BY Zenon DEF WorkOf
<1>8. /\ c \in DOMAIN Sent /\ a \in 0 .. Len(Sent[c]) /\ e \in a .. Len(Sent[c])
      /\ WorkOf(p).seq = SeqAt(c, a) /\ WorkOf(p).payload = Part(c, a, e)
      /\ p.syn \in BOOLEAN /\ p.fin \in BOOLEAN
  BY <1>1, <1>2, <1>3, <1>4
<1> QED
  BY <1>6, <1>7, <1>8, Zenon

(* The handling of a packet that is not refused.                           *)
Fresh(work) == (work.starts_flow /\ flow # NoFlow) \/ flow = NoFlow
Count(b) == IF b THEN 1 ELSE 0

HandledAs(work, start, step, cleared) ==
    LET kept == IF cleared THEN NewFlow ELSE step.flow
    IN  /\ start = (IF Fresh(work) THEN NewFlow ELSE flow)
        /\ step = (IF work.payload = <<>>
                   THEN [flow |-> start, emitted |-> <<>>, overflow |-> FALSE]
                   ELSE Reassemble(start, work.seq, work.payload))
        /\ cleared \in BOOLEAN
        /\ cleared => BufferedBytes(step.flow) > BufferedBytes(start)
        /\ flow' = (IF work.ends_flow THEN NoFlow ELSE kept)
        /\ out' = out \o step.emitted
        /\ losses' = losses + Count(work.starts_flow /\ flow # NoFlow /\ Held(flow) > 0)
                       + Count(work.ends_flow /\ BufferedBytes(kept) > 0)
                       + Count(step.overflow) + Count(cleared)

LEMMA Handling ==
  ASSUME NEW work, NEW refused \in BOOLEAN, NEW exceeded \in BOOLEAN,
         HandlePacketWork(work, refused, exceeded)
  PROVE  \/ flow' = NoFlow /\ losses' = losses + 1 /\ out' = out
         \/ \E start, step, cleared : HandledAs(work, start, step, cleared)
<1> DEFINE reset == work.starts_flow /\ flow # NoFlow
           start == IF reset \/ flow = NoFlow THEN NewFlow ELSE flow
           step  == IF work.payload = <<>>
                    THEN [flow |-> start, emitted |-> <<>>, overflow |-> FALSE]
                    ELSE Reassemble(start, work.seq, work.payload)
           cleared == BufferedBytes(step.flow) > BufferedBytes(start) /\ exceeded
           kept == IF cleared THEN NewFlow ELSE step.flow
<1>1. CASE flow' = NoFlow /\ losses' = losses + 1 /\ out' = out
  BY <1>1
<1>2. CASE /\ flow' = (IF work.ends_flow THEN NoFlow ELSE kept)
           /\ out' = out \o step.emitted
           /\ losses' = losses + (IF reset /\ Held(flow) > 0 THEN 1 ELSE 0)
                          + (IF work.ends_flow /\ BufferedBytes(kept) > 0 THEN 1 ELSE 0)
                          + (IF step.overflow THEN 1 ELSE 0) + (IF cleared THEN 1 ELSE 0)
  <2>1. start = (IF Fresh(work) THEN NewFlow ELSE flow)
    BY DEF Fresh
  <2>2. losses' = losses + Count(work.starts_flow /\ flow # NoFlow /\ Held(flow) > 0)
                    + Count(work.ends_flow /\ BufferedBytes(kept) > 0)
                    + Count(step.overflow) + Count(cleared)
    <3> HIDE DEF kept, step, cleared
    <3> QED
      BY <1>2 DEF Count
  <2>3. HandledAs(work, start, step, cleared)
    BY <1>2, <2>1, <2>2 DEF HandledAs
  <2> QED
    BY <2>3
<1>3. \/ flow' = NoFlow /\ losses' = losses + 1 /\ out' = out
      \/ /\ flow' = (IF work.ends_flow THEN NoFlow ELSE kept)
         /\ out' = out \o step.emitted
         /\ losses' = losses + (IF reset /\ Held(flow) > 0 THEN 1 ELSE 0)
                        + (IF work.ends_flow /\ BufferedBytes(kept) > 0 THEN 1 ELSE 0)
                        + (IF step.overflow THEN 1 ELSE 0) + (IF cleared THEN 1 ELSE 0)
  BY Zenon DEF HandlePacketWork
<1> QED
  BY <1>1, <1>2, <1>3

-----------------------------------------------------------------------------
(* The history agrees with the flow: what is followed is what the flow has *)
(* reached, and what was captured is in it or has been written.            *)
StreamInv ==
    /\ flow.next_seq = NoSeq => from = NotOpen
    /\ flow.next_seq = NoSeq => got = {}
    /\ flow.next_seq # NoSeq => /\ from \in 0 .. Len(Sent[conn])
                                /\ Following(conn, from, got, flow)
    /\ out \in Seq(Payloads)

LEMMA StreamInvInit == Init => StreamInv /\ Promise!Init
<1>1. <<>> \in Seq(Payloads)
  BY EmptySeq
<1>2. Init => flow.next_seq = NoSeq
  BY DEF Init, NoFlow
<1> QED
  BY <1>1, <1>2 DEF Init, StreamInv, Promise!Init

LEMMA OpenIs ==
  ASSUME FlowInv, StreamInv, flow # NoFlow
  PROVE  \/ from = NotOpen /\ flow = NewFlow
         \/ /\ from # NotOpen /\ from \in 0 .. Len(Sent[conn])
            /\ flow \in Flows /\ Following(conn, from, got, flow)
<1>1. CASE flow = NewFlow
  BY <1>1 DEF StreamInv, NewFlow
<1>2. CASE flow \in Flows
  <2>1. flow.next_seq # NoSeq
    BY <1>2, FlowIs, NoSeqIsNoNumber
  <2>2. from \in 0 .. Len(Sent[conn]) /\ Following(conn, from, got, flow)
    BY <2>1 DEF StreamInv
  <2>3. from # NotOpen
    <3>1. from \in Nat
      BY <2>2
    <3> QED
      BY <3>1, FlowAssumption DEF NotOpen
  <2> QED
    BY <1>2, <2>2, <2>3
<1> QED
  BY <1>1, <1>2 DEF FlowInv, Sound

LEMMA ClosedIs ==
  ASSUME StreamInv, flow = NoFlow
  PROVE  from = NotOpen /\ got = {}
  BY DEF StreamInv, NoFlow

(* Unwritten bytes of the stretch are held by the flow.                    *)
LEMMA UnfinishedIsHeld ==
  ASSUME FlowInv, StreamInv, from # NotOpen, Promise!Unfinished(conn, from, got)
  PROVE  flow # NoFlow /\ BufferedBytes(flow) > 0
<1>1. flow # NoFlow
  BY ClosedIs
<1>2. from \in 0 .. Len(Sent[conn]) /\ Following(conn, from, got, flow)
  BY <1>1, OpenIs
<1>3. conn \in DOMAIN Sent
  BY DEF FlowInv
<1> QED
  BY <1>1, <1>2, <1>3, FollowingIs

(* The stretch a packet is captured into, and the flow it finds there.     *)
Reopens(p) == from = NotOpen \/ p.syn \/ p.conn # conn
Opens(p) == IF Reopens(p) THEN p.from ELSE from
Captured(p) == IF Reopens(p) THEN {} ELSE got

LEMMA StretchIs ==
  ASSUME FlowInv, StreamInv, NEW p \in Packets, p.conn = conn \/ p.syn,
         NEW start, start = IF Fresh(WorkOf(p)) THEN NewFlow ELSE flow
  PROVE  /\ InStretch(p.conn, Opens(p), Captured(p), start, p.from)
         /\ Reopens(p) => start = NewFlow
         /\ ~Reopens(p) => /\ start = flow /\ start # NoFlow /\ p.conn = conn
                           /\ ~p.syn /\ from # NotOpen
<1>1. WorkOf(p).starts_flow = p.syn
  BY Zenon DEF WorkOf
<1>2. CASE Reopens(p)
  <2>1. start = NewFlow
    <3>1. CASE from = NotOpen
      <4>1. flow = NoFlow \/ flow = NewFlow
        BY <3>1, OpenIs
      <4> QED
        BY <4>1 DEF Fresh
    <3>2. CASE p.syn
      BY <1>1, <3>2 DEF Fresh
    <3> QED
      BY <1>2, <3>1, <3>2 DEF Reopens
  <2> QED
    BY <1>2, <2>1 DEF InStretch, Opens, Captured
<1>3. CASE ~Reopens(p)
  <2>1. from # NotOpen /\ ~p.syn /\ p.conn = conn
    BY <1>3 DEF Reopens
  <2>2. flow # NoFlow
    BY <2>1, ClosedIs
  <2>3. start = flow
    BY <1>1, <2>1, <2>2 DEF Fresh
  <2>4. from \in 0 .. Len(Sent[conn]) /\ Following(conn, from, got, flow)
    BY <2>1, <2>2, OpenIs
  <2> QED
    BY <1>3, <2>1, <2>2, <2>3, <2>4 DEF InStretch, Opens, Captured
<1> QED
  BY <1>2, <1>3

LEMMA FollowIs ==
  ASSUME NEW p, Follow(p)
  PROVE  /\ flow'.next_seq = NoSeq => from' = NotOpen /\ got' = {}
         /\ flow'.next_seq # NoSeq =>
               /\ from' = Opens(p)
               /\ got' = Captured(p) \cup NewBytes(Opens(p), p.from, p.to)
  BY DEF Follow, Opens, Captured, Reopens, NewBytes

(* The offsets from o on of a segment are an interval, as MessageStream    *)
(* has it.                                                                 *)
LEMMA NewBytesAre ==
  ASSUME NEW l \in Nat, NEW o \in 0 .. l, NEW a \in 0 .. l, NEW e \in a .. l
  PROVE  \E i \in o .. l : \E j \in i .. l : NewBytes(o, a, e) = i .. j - 1
<1>1. CASE e <= o
  <2>1. NewBytes(o, a, e) = o .. o - 1
    BY <1>1 DEF NewBytes
  <2> QED
    BY <2>1
<1>2. CASE e > o /\ a <= o
  <2>1. NewBytes(o, a, e) = o .. e - 1
    BY <1>2 DEF NewBytes
  <2> QED
    BY <1>2, <2>1
<1>3. CASE a > o
  <2>1. NewBytes(o, a, e) = a .. e - 1
    BY <1>3 DEF NewBytes
  <2>2. a \in o .. l
    BY <1>3
  <2> QED
    BY <2>1, <2>2
<1> QED
  BY <1>1, <1>2, <1>3

-----------------------------------------------------------------------------
(* A packet is a step of MessageStream, and leaves the history in order.   *)
PacketStep == Promise!Next /\ StreamInv'

LEMMA ClosedAfter ==
  ASSUME NEW p, Follow(p), flow'.next_seq = NoSeq, out' \in Seq(Payloads)
  PROVE  from' = NotOpen /\ got' = {} /\ StreamInv'
<1>1. from' = NotOpen /\ got' = {}
  BY FollowIs
<1> QED
  BY <1>1 DEF StreamInv

(* A stretch is closed, and its bytes that were not written are counted.   *)
LEMMA StretchCloses ==
  ASSUME FlowInv, StreamInv, from # NotOpen, from' = NotOpen, got' = {}, conn' = conn,
         out' = out, losses' \in Nat, losses' >= losses,
         BufferedBytes(flow) > 0 => losses' > losses
  PROVE  Promise!Next
<1>1. /\ flow # NoFlow /\ conn \in DOMAIN Sent /\ losses \in Nat
      /\ from \in 0 .. Len(Sent[conn]) /\ Following(conn, from, got, flow)
  BY OpenIs, ClosedIs DEF FlowInv
<1>2. PICK none : none = from .. from - 1 /\ none = {} /\ from \in from .. Len(Sent[conn])
  BY <1>1
<1>3. Promise!Unfinished(conn, from, got) => losses' > losses
  BY UnfinishedIsHeld
<1>4. Promise!Completed(conn, from, got, got) = <<>>
  <2>1. PICK x : x = Promise!Contents(conn, from, got) /\ Messages(x) \in Seq(Payloads)
    <3>1. PICK r : r = Reach(conn, flow)
      OBVIOUS
    <3>2. r \in 0 .. Len(Sent[conn]) /\ from \in 0 .. r
      BY <1>1, <3>1 DEF Following
    <3>3. Found(conn, from, r) \in Seq(Payloads)
      BY <1>1, <3>2, LeftIs
    <3> QED
      BY <1>1, <3>1, <3>3, FollowingIs DEF Found
  <2>2. <<>> \in Seq(Payloads)
    BY EmptySeq
  <2>3. Messages(x) = Messages(x) \o <<>>
    BY <2>1, ConcatEmptySeq
  <2> QED
    BY <2>1, <2>2, <2>3, CompletedIs
<1>5. out' = out \o <<>>
  BY ConcatEmptySeq DEF StreamInv
<1>6. Promise!Capture(conn, from, from .. from - 1, FALSE, TRUE)
  <2>1. got \cup none = got
    BY <1>2
  <2> QED
    BY <1>2, <1>3, <1>4, <1>5, <2>1 DEF Promise!Capture
<1> QED
  BY <1>2, <1>6, CapturesMore

(* Nothing but flags: a SYN opens a flow that expects no byte yet, a FIN   *)
(* closes the flow.                                                        *)
LEMMA FlagsOnly ==
  ASSUME FlowInv, StreamInv, NEW p \in Packets, HasWork(p), conn' = p.conn,
         p.conn = conn \/ p.syn, Follow(p), p.from = p.to,
         NEW start, NEW step, NEW cleared, HandledAs(WorkOf(p), start, step, cleared)
  PROVE  PacketStep
<1>1. PICK c, a : c = p.conn /\ a = p.from /\ a = p.to
  OBVIOUS
<1>2. /\ c \in DOMAIN Sent /\ a \in 0 .. Len(Sent[c]) /\ WorkOf(p).payload = <<>>
      /\ WorkOf(p).starts_flow = p.syn /\ WorkOf(p).ends_flow = p.fin
      /\ p.syn \in BOOLEAN /\ p.fin \in BOOLEAN
  BY <1>1, PacketIs
<1>3. /\ step = [flow |-> start, emitted |-> <<>>, overflow |-> FALSE]
      /\ start = (IF Fresh(WorkOf(p)) THEN NewFlow ELSE flow)
  BY <1>2 DEF HandledAs
<1>4. start = NewFlow \/ (start = flow /\ flow # NoFlow)
  BY <1>3 DEF Fresh
<1>5. cleared = FALSE
  <2>1. BufferedBytes(start) \in Nat
    BY <1>4, NewFlowIsEmpty, SoundBytes DEF FlowInv
  <2>2. ~(BufferedBytes(step.flow) > BufferedBytes(start))
    BY <1>3, <2>1
  <2> QED
    BY <2>2 DEF HandledAs
<1>6. /\ flow' = (IF p.fin THEN NoFlow ELSE start)
      /\ out' = out \o <<>>
      /\ losses' = losses + Count(p.syn /\ flow # NoFlow /\ Held(flow) > 0)
                     + Count(p.fin /\ BufferedBytes(start) > 0)
  <2>1. step.flow = start /\ step.emitted = <<>> /\ step.overflow = FALSE
    BY <1>3
  <2>2. Count(FALSE) = 0
    BY DEF Count
  <2>3. PICK x, y \in {0, 1} : /\ x = Count(p.syn /\ flow # NoFlow /\ Held(flow) > 0)
                               /\ y = Count(p.fin /\ BufferedBytes(start) > 0)
    BY DEF Count
  <2>4. losses' = losses + x + y + 0 + 0
    BY <1>2, <1>5, <2>1, <2>2, <2>3 DEF HandledAs
  <2>5. losses' = losses + x + y
    BY <2>4 DEF FlowInv
  <2> QED
    BY <1>2, <1>5, <2>1, <2>3, <2>5 DEF HandledAs
<1>7. out' = out /\ out' \in Seq(Payloads)
  <2>1. out \in Seq(Payloads) /\ out \o <<>> = out
    BY ConcatEmptySeq DEF StreamInv
  <2> QED
    BY <1>6, <2>1
<1>8. losses \in Nat /\ losses' \in Nat /\ losses' >= losses
  BY <1>6 DEF FlowInv, Count
<1>9. CASE Reopens(p)
  <2>1. start = NewFlow
    BY <1>3, <1>9, StretchIs
  <2>2. flow'.next_seq = NoSeq
    BY <1>6, <2>1 DEF NewFlow, NoFlow
  <2>3. from' = NotOpen /\ got' = {} /\ StreamInv'
    BY <1>7, <2>2, ClosedAfter
  <2>4. from # NotOpen /\ Promise!Unfinished(conn, from, got) => losses' > losses
    <3>1. SUFFICES ASSUME from # NotOpen, Promise!Unfinished(conn, from, got)
                   PROVE  losses' > losses
      OBVIOUS
    <3>2. flow # NoFlow /\ Held(flow) > 0
      BY <3>1, UnfinishedIsHeld DEF Held
    <3>3. p.syn
      BY <1>9, <3>1 DEF Reopens
    <3>4. Count(p.syn /\ flow # NoFlow /\ Held(flow) > 0) = 1
      BY <3>2, <3>3 DEF Count
    <3> QED
      BY <1>6, <1>8, <3>4 DEF Count
  <2>5. ~Promise!Unfinished(c, a, {})
    BY <1>2, NothingCaptured
  <2>6. PICK none : none = a .. a - 1 /\ none = {} /\ a \in a .. Len(Sent[c])
    BY <1>2
  <2>7. Promise!Completed(c, a, {}, {}) = <<>>
    <3>1. PICK x : x = Promise!Contents(c, a, {}) /\ x = Part(c, a, a)
      BY <1>2, NothingCaptured
    <3>2. Messages(x) \in Seq(Payloads) /\ <<>> \in Seq(Payloads)
      <4>1. a \in 0 .. a
        BY <1>2
      <4>2. Found(c, a, a) \in Seq(Payloads)
        BY <1>2, <4>1, LeftIs
      <4> QED
        BY <3>1, <4>2, EmptySeq DEF Found
    <3>3. Messages(x) = Messages(x) \o <<>>
      BY <3>2, ConcatEmptySeq
    <3> QED
      BY <3>1, <3>2, <3>3, CompletedIs
  <2>8. Promise!Capture(c, a, a .. a - 1, TRUE, TRUE)
    <3>1. {} \cup none = {}
      BY <2>6
    <3>2. conn' = c
      BY <1>1
    <3> QED
      BY <1>6, <1>8, <2>3, <2>4, <2>5, <2>6, <2>7, <3>1, <3>2 DEF Promise!Capture
  <2>9. Promise!Next
    BY <1>2, <2>6, <2>8, CapturesAnew
  <2> QED
    BY <2>3, <2>9 DEF PacketStep
<1>10. CASE ~Reopens(p)
  <2>1. start = flow /\ flow # NoFlow /\ c = conn /\ ~p.syn /\ from # NotOpen
    BY <1>1, <1>3, <1>10, StretchIs
  <2>2. p.fin
    BY <1>1, <1>2, <2>1 DEF HasWork
  <2>3. flow' = NoFlow /\ flow'.next_seq = NoSeq
    BY <1>6, <2>2 DEF NoFlow
  <2>4. from' = NotOpen /\ got' = {} /\ StreamInv'
    BY <1>7, <2>3, ClosedAfter
  <2>5. BufferedBytes(flow) > 0 => losses' > losses
    <3>1. SUFFICES ASSUME BufferedBytes(flow) > 0 PROVE losses' > losses
      OBVIOUS
    <3>2. Count(p.fin /\ BufferedBytes(start) > 0) = 1
      BY <2>1, <2>2, <3>1 DEF Count
    <3> QED
      BY <1>6, <1>8, <3>2 DEF Count
  <2>10. Promise!Next
    <3>1. conn' = conn
      BY <1>1, <2>1
    <3> QED
      BY <1>7, <1>8, <2>1, <2>4, <2>5, <3>1, StretchCloses
  <2> QED
    BY <2>4, <2>10 DEF PacketStep
<1> QED
  BY <1>9, <1>10

(* Bytes: the flow is given up, or goes on with what reassembly leaves.    *)
LEMMA SomeBytes ==
  ASSUME FlowInv, StreamInv, NEW p \in Packets, conn' = p.conn,
         p.conn = conn \/ p.syn, Follow(p), p.from # p.to,
         NEW start, NEW step, NEW cleared, HandledAs(WorkOf(p), start, step, cleared)
  PROVE  PacketStep
<1>1. PICK c, a, e : c = p.conn /\ a = p.from /\ e = p.to
  OBVIOUS
<1>2. /\ c \in DOMAIN Sent /\ a \in 0 .. Len(Sent[c]) /\ e \in a .. Len(Sent[c])
      /\ WorkOf(p).payload = Part(c, a, e) /\ WorkOf(p).payload # <<>>
      /\ WorkOf(p).seq = SeqAt(c, a)
      /\ WorkOf(p).starts_flow = p.syn /\ WorkOf(p).ends_flow = p.fin
      /\ p.syn \in BOOLEAN /\ p.fin \in BOOLEAN
  BY <1>1, PacketIs
<1>3. PICK l \in Nat : /\ l = Len(Sent[c]) /\ a \in 0 .. l /\ e \in a + 1 .. l
                       /\ e \in a + 1 .. Len(Sent[c])
  BY <1>1, <1>2, StreamIs
<1>4. /\ step = Reassemble(start, SeqAt(c, a), Part(c, a, e))
      /\ start = (IF Fresh(WorkOf(p)) THEN NewFlow ELSE flow)
  BY <1>2 DEF HandledAs
<1>5. start = NewFlow \/ start \in Flows
  <2>1. flow # NoFlow => flow = NewFlow \/ flow \in Flows
    BY DEF FlowInv, Sound
  <2> QED
    BY <1>4, <2>1 DEF Fresh
<1>6. step.overflow \in BOOLEAN
  <2>1. PICK s \in Numbers : s = SeqAt(c, a)
    BY <1>2, SeqAtIs
  <2>2. PICK q \in Payloads : q = Part(c, a, e)
    <3>1. e \in 0 .. Len(Sent[c]) /\ a \in 0 .. e
      BY <1>3
    <3> QED
      BY <1>2, <3>1, PartIs
  <2> QED
    BY <1>4, <1>5, <2>1, <2>2, ReassembleKeeps
<1>7. PICK kept : kept = IF cleared THEN NewFlow ELSE step.flow
  OBVIOUS
<1>8. /\ flow' = (IF p.fin THEN NoFlow ELSE kept)
      /\ out' = out \o step.emitted /\ cleared \in BOOLEAN
      /\ losses' = losses + Count(p.syn /\ flow # NoFlow /\ Held(flow) > 0)
                     + Count(p.fin /\ BufferedBytes(kept) > 0)
                     + Count(step.overflow) + Count(cleared)
  BY <1>2, <1>7 DEF HandledAs
<1>9. PICK w, x, y, z \in {0, 1} :
        /\ w = Count(p.syn /\ flow # NoFlow /\ Held(flow) > 0)
        /\ x = Count(p.fin /\ BufferedBytes(kept) > 0)
        /\ y = Count(step.overflow) /\ z = Count(cleared)
  BY DEF Count
<1>10. losses \in Nat /\ losses' \in Nat /\ losses' = losses + w + x + y + z /\ losses' >= losses
  <2>1. losses' = losses + w + x + y + z
    BY <1>8, <1>9, Zenon
  <2>2. losses \in Nat
    BY DEF FlowInv
  <2>3. w \in Nat /\ x \in Nat /\ y \in Nat /\ z \in Nat
    BY <1>9
  <2> QED
    BY <2>1, <2>2, <2>3
<1>11. /\ (p.syn /\ flow # NoFlow /\ Held(flow) > 0) => losses' > losses
       /\ (p.fin /\ BufferedBytes(kept) > 0) => losses' > losses
       /\ step.overflow => losses' > losses
       /\ cleared => losses' > losses
  BY <1>9, <1>10 DEF Count
<1>12. CASE step.overflow
  <2>1. step.flow = NewFlow /\ step.emitted = <<>>
    BY <1>4, <1>12 DEF Reassemble
  <2>2. flow'.next_seq = NoSeq
    BY <1>7, <1>8, <2>1 DEF NewFlow, NoFlow
  <2>3. out' = out /\ out' \in Seq(Payloads)
    <3>1. out \in Seq(Payloads) /\ out \o <<>> = out
      BY ConcatEmptySeq DEF StreamInv
    <3> QED
      BY <1>8, <2>1, <3>1
  <2>4. from' = NotOpen /\ got' = {} /\ StreamInv'
    BY <2>2, <2>3, ClosedAfter
  <2>5. conn' \in DOMAIN Sent /\ losses' > losses
    BY <1>1, <1>2, <1>11, <1>12
  <2>6. Promise!Next
    BY <1>10, <2>3, <2>4, <2>5, GivesUp
  <2> QED
    BY <2>4, <2>6 DEF PacketStep
<1>13. CASE ~step.overflow
  <2>1. PICK o, g, h : o = Opens(p) /\ g = Captured(p) /\ h = g \cup NewBytes(o, a, e)
    OBVIOUS
  <2>2. InStretch(c, o, g, start, a)
    BY <1>1, <1>4, <2>1, StretchIs
  <2>a. Reassembled(c, a, e, start, step)
    BY <1>4, <1>13 DEF Reassembled
  <2>3. /\ o \in 0 .. Len(Sent[c]) /\ Following(c, o, h, step.flow)
        /\ step.emitted \in Seq(Payloads)
        /\ Promise!Completed(c, o, g, h) = step.emitted
    <3>1. /\ o \in 0 .. Len(Sent[c]) /\ Following(c, o, g \cup NewBytes(o, a, e), step.flow)
          /\ step.emitted \in Seq(Payloads)
          /\ Promise!Completed(c, o, g, g \cup NewBytes(o, a, e)) = step.emitted
      BY <1>2, <1>3, <2>2, <2>a, ReassemblyFollows, ZenonT(30)
    <3> QED
      BY <2>1, <3>1
  <2>4. out' \in Seq(Payloads)
    BY <1>8, <2>3, ConcatProperties DEF StreamInv
  <2>5. PICK ends \in BOOLEAN : ends <=> (p.fin \/ cleared)
    BY <1>2, <1>8
  <2>6. ends => from' = NotOpen /\ got' = {} /\ StreamInv'
    <3>1. ends => flow'.next_seq = NoSeq
      BY <1>7, <1>8, <2>5 DEF NewFlow, NoFlow
    <3> QED
      BY <2>4, <3>1, ClosedAfter
  <2>7. ~ends => from' = o /\ got' = h /\ StreamInv'
    <3>1. SUFFICES ASSUME ~ends PROVE from' = o /\ got' = h /\ StreamInv'
      OBVIOUS
    <3>2. flow' = step.flow
      BY <1>7, <1>8, <2>5, <3>1
    <3>3. flow'.next_seq # NoSeq
      BY <2>3, <3>2, FlowIs, NoSeqIsNoNumber DEF Following, Gathered
    <3>4. from' = o /\ got' = h
      BY <1>1, <2>1, <3>3, FollowIs
    <3>5. conn' = c
      BY <1>1
    <3> QED
      BY <2>3, <2>4, <3>2, <3>3, <3>4, <3>5 DEF StreamInv
  <2>8. ends /\ Promise!Unfinished(c, o, h) => losses' > losses
    <3>1. SUFFICES ASSUME ends, Promise!Unfinished(c, o, h) PROVE losses' > losses
      OBVIOUS
    <3>2. BufferedBytes(step.flow) > 0
      BY <1>2, <2>3, <3>1, FollowingIs
    <3> QED
      BY <1>7, <1>11, <2>5, <3>1, <3>2
  <2>9. CASE Reopens(p)
    <3>1. o = a /\ g = {} /\ h = a .. e - 1
      BY <1>1, <1>3, <2>1, <2>9 DEF Opens, Captured, NewBytes
    <3>2. from # NotOpen /\ Promise!Unfinished(conn, from, got) => losses' > losses
      <4>1. SUFFICES ASSUME from # NotOpen, Promise!Unfinished(conn, from, got)
                     PROVE  losses' > losses
        OBVIOUS
      <4>2. flow # NoFlow /\ Held(flow) > 0
        BY <4>1, UnfinishedIsHeld DEF Held
      <4>3. p.syn
        BY <2>9, <4>1 DEF Reopens
      <4> QED
        BY <1>11, <4>2, <4>3
    <3>3. Promise!Capture(c, a, a .. e - 1, TRUE, ends)
      <4>1. conn' = c /\ {} \cup (a .. e - 1) = h
        BY <1>1, <3>1
      <4>2. Promise!Completed(c, a, {}, h) = step.emitted
        BY <2>3, <3>1
      <4> QED
        BY <1>8, <1>10, <2>6, <2>7, <2>8, <3>1, <3>2, <4>1, <4>2 DEF Promise!Capture
    <3>4. Promise!Next
      BY <1>2, <3>3, CapturesAnew
    <3> QED
      BY <2>6, <2>7, <3>4 DEF PacketStep
  <2>10. CASE ~Reopens(p)
    <3>1. c = conn /\ from # NotOpen /\ o = from /\ g = got
      BY <1>1, <1>4, <2>1, <2>10, StretchIs DEF Opens, Captured
    <3>a. PICK i \in o .. l : \E j \in i .. l : NewBytes(o, a, e) = i .. j - 1
      <4>1. o \in 0 .. l /\ e \in a .. l
        BY <1>3, <2>3
      <4> QED
        BY <1>3, <4>1, NewBytesAre
    <3>2. PICK j \in i .. l : NewBytes(o, a, e) = i .. j - 1
      BY <3>a
    <3>3. Promise!Capture(conn, from, i .. j - 1, FALSE, ends)
      <4>1. conn' = conn /\ got \cup (i .. j - 1) = h
        BY <1>1, <2>1, <3>1, <3>2
      <4>2. Promise!Completed(conn, from, got, h) = step.emitted
        BY <2>3, <3>1
      <4> QED
        BY <1>8, <1>10, <2>6, <2>7, <2>8, <3>1, <4>1, <4>2 DEF Promise!Capture
    <3>4. i \in from .. Len(Sent[conn]) /\ j \in i .. Len(Sent[conn])
      BY <1>3, <3>1, <3>2
    <3>5. Promise!Next
      BY <3>1, <3>3, <3>4, CapturesMore
    <3> QED
      BY <2>6, <2>7, <3>5 DEF PacketStep
  <2> QED
    BY <2>9, <2>10
<1> QED
  BY <1>6, <1>12, <1>13

-----------------------------------------------------------------------------
LEMMA PacketFollows ==
  ASSUME FlowInv, StreamInv, NEW p \in Packets, CapturePacket(p)
  PROVE  PacketStep
<1>1. HasWork(p) /\ conn' = p.conn /\ (p.conn = conn \/ p.syn) /\ Follow(p)
  BY DEF CapturePacket
<1>2. PICK refused \in BOOLEAN, exceeded \in BOOLEAN :
         HandlePacketWork(WorkOf(p), refused, exceeded)
  BY DEF CapturePacket
<1>3. CASE flow' = NoFlow /\ losses' = losses + 1 /\ out' = out
  <2>1. flow'.next_seq = NoSeq
    BY <1>3 DEF NoFlow
  <2>2. out' \in Seq(Payloads) /\ losses \in Nat /\ losses' \in Nat /\ losses' > losses
    BY <1>3 DEF FlowInv, StreamInv
  <2>3. from' = NotOpen /\ got' = {} /\ StreamInv'
    BY <1>1, <2>1, <2>2, ClosedAfter
  <2>4. conn' \in DOMAIN Sent
    BY <1>1, ConnectionAssumption
  <2>5. Promise!Next
    BY <1>3, <2>2, <2>3, <2>4, GivesUp
  <2> QED
    BY <2>3, <2>5 DEF PacketStep
<1>4. ASSUME NEW start, NEW step, NEW cleared, HandledAs(WorkOf(p), start, step, cleared)
      PROVE  PacketStep
  <2>1. CASE p.from = p.to
    BY <1>1, <1>4, <2>1, FlagsOnly
  <2>2. CASE p.from # p.to
    BY <1>1, <1>4, <2>2, SomeBytes
  <2> QED
    BY <2>1, <2>2
<1>5. \/ flow' = NoFlow /\ losses' = losses + 1 /\ out' = out
      \/ \E start, step, cleared : HandledAs(WorkOf(p), start, step, cleared)
  BY <1>2, Handling
<1> QED
  BY <1>3, <1>4, <1>5

(* A flow that is evicted, or flushed at the end, closes what it followed. *)
LEMMA FlowCloses ==
  ASSUME FlowInv, StreamInv, conn' = conn, out' = out, flow' = NoFlow,
         from' = NotOpen, got' = {}, losses' \in Nat,
         losses' = IF flow # NoFlow /\ BufferedBytes(flow) > 0 THEN losses + 1 ELSE losses
  PROVE  (Promise!Next \/ UNCHANGED Promise!vars) /\ StreamInv'
<1>1. losses \in Nat
  BY DEF FlowInv
<1>2. StreamInv'
  BY DEF StreamInv, NoFlow
<1>3. CASE from = NotOpen
  <2>1. flow = NoFlow \/ flow = NewFlow
    BY <1>3, OpenIs
  <2>2. got = {}
    BY <2>1 DEF StreamInv, NoFlow, NewFlow
  <2>3. losses' = losses
    BY <2>1, NewFlowIsEmpty
  <2> QED
    BY <1>2, <1>3, <2>2, <2>3 DEF Promise!vars
<1>4. CASE from # NotOpen
  <2>1. flow # NoFlow
    BY <1>4, ClosedIs
  <2>2. losses' >= losses /\ (BufferedBytes(flow) > 0 => losses' > losses)
    BY <1>1, <2>1
  <2> QED
    BY <1>2, <1>4, <2>2, StretchCloses
<1> QED
  BY <1>3, <1>4

LEMMA EvictionFollows ==
  ASSUME FlowInv, FlowInv', StreamInv, EvictIdle
  PROVE  (Promise!Next \/ UNCHANGED Promise!vars) /\ StreamInv'
<1>1. losses \in Nat /\ losses' \in Nat
  BY DEF FlowInv
<1>2. losses' = IF flow # NoFlow /\ BufferedBytes(flow) > 0 THEN losses + 1 ELSE losses
  BY <1>1 DEF EvictIdle
<1> QED
  BY <1>1, <1>2, FlowCloses DEF EvictIdle

LEMMA FinishFollows ==
  ASSUME FlowInv, FlowInv', StreamInv, Finish
  PROVE  (Promise!Next \/ UNCHANGED Promise!vars) /\ StreamInv'
<1>1. losses \in Nat /\ losses' \in Nat /\ out \in Seq(Payloads) /\ out \o <<>> = out
  BY ConcatEmptySeq DEF FlowInv, StreamInv
<1>2. CASE flow = NoFlow
  <2>1. /\ out' = out
        /\ losses' = IF flow # NoFlow /\ BufferedBytes(flow) > 0 THEN losses + 1 ELSE losses
    BY <1>2 DEF Finish
  <2> QED
    BY <1>1, <2>1, FlowCloses DEF Finish
<1>3. CASE flow # NoFlow
  <2>1. FlushCompleteMessages(flow.buffer) = [emitted |-> <<>>, buffer |-> flow.buffer]
    <3>1. CASE flow = NewFlow
      <4>1. flow.buffer = <<>>
        BY <3>1 DEF NewFlow
      <4> QED
        BY <4>1, FlushNothing
    <3>2. CASE from \in 0 .. Len(Sent[conn]) /\ Following(conn, from, got, flow)
      <4>1. PICK r : r = Reach(conn, flow)
        OBVIOUS
      <4>2. /\ r \in from .. Len(Sent[conn])
            /\ flow.buffer = FlushCompleteMessages(Part(conn, from, r)).buffer
        BY <3>2, <4>1 DEF Following, Left
      <4>3. conn \in DOMAIN Sent
        BY DEF FlowInv
      <4>4. r \in 0 .. Len(Sent[conn]) /\ from \in 0 .. r
        BY <3>2, <4>2, <4>3, StreamIs
      <4>5. Part(conn, from, r) \in Seq(Bytes)
        BY <4>3, <4>4, PartIs DEF Payloads
      <4> QED
        BY <4>2, <4>5, FlushSettles
    <3> QED
      BY <1>3, <3>1, <3>2, OpenIs
  <2>2. PICK b : b = flow.buffer
    OBVIOUS
  <2>3. [flow EXCEPT !.buffer = b] = flow
    <3>1. flow = NewFlow \/ flow \in Flows
      BY <1>3 DEF FlowInv, Sound
    <3> QED
      BY <2>2, <3>1 DEF NewFlow, Flows
  <2>4. out' = out
    BY <1>1, <1>3, <2>1 DEF Finish
  <2>5. losses' = losses + (IF BufferedBytes(flow) > 0 THEN 1 ELSE 0)
    BY <1>3, <2>1, <2>2, <2>3 DEF Finish
  <2>6. losses' = IF flow # NoFlow /\ BufferedBytes(flow) > 0 THEN losses + 1 ELSE losses
    BY <1>1, <1>3, <2>5
  <2> QED
    BY <1>1, <2>4, <2>6, FlowCloses DEF Finish
<1> QED
  BY <1>2, <1>3

LEMMA StepFollows ==
  ASSUME FlowInv, FlowInv', StreamInv, [Next]_vars
  PROVE  [Promise!Next]_(Promise!vars) /\ StreamInv'
<1>1. ASSUME NEW p \in Packets, CapturePacket(p) PROVE Promise!Next /\ StreamInv'
  BY <1>1, PacketFollows DEF PacketStep
<1>2. CASE EvictIdle
  BY <1>2, EvictionFollows
<1>3. CASE Finish
  BY <1>3, FinishFollows
<1>4. CASE UNCHANGED vars
  <2>1. UNCHANGED Promise!vars
    BY <1>4 DEF vars, Promise!vars
  <2>2. StreamInv'
    BY <1>4 DEF vars, StreamInv
  <2> QED
    BY <2>1, <2>2
<1> QED
  BY <1>1, <1>2, <1>3, <1>4 DEF Next

(* A flow keeps the promise of MessageStream: for any streams of any bytes *)
(* of less than half the sequence space, whatever of them is captured, in  *)
(* whatever order, overlap and repetition and across wrap-around, what is  *)
(* written are the messages of the gap-free bytes that were captured, each *)
(* once and in order, and a stretch whose captured bytes were not all used *)
(* is never given up without counting a loss.                              *)
THEOREM KeepsThePromise == Spec => ImplementsMessageStream
<1>1. Init => FlowInv /\ StreamInv /\ Promise!Init
  BY FlowInvInit, StreamInvInit
<1>2. FlowInv /\ FlowInv' /\ StreamInv /\ [Next]_vars => [Promise!Next]_(Promise!vars) /\ StreamInv'
  BY StepFollows
<1> QED
  BY <1>1, <1>2, FlowInvHolds, PTL DEF Spec, ImplementsMessageStream, Promise!Spec

=============================================================================
