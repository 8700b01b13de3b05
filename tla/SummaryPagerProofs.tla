------------------------- MODULE SummaryPagerProofs -------------------------
(***************************************************************************)
(* Proofs about OrderSummary, for any identifiers, any set of messages and *)
(* any log: an order is kept once, the footer's numbers add up, every      *)
(* message is in one record, and orders never mix.  What makes a record    *)
(* terminal is never looked at: the facts hold whatever derive_state says. *)
(* They hold as well of the tracker and the pager together (SummaryPager). *)
(* Of the pager itself: what it shows beside the orders is right, scrolling*)
(* leaves no line out, and the panes fit, for any terminal and contents.   *)
(***************************************************************************)
EXTENDS SummaryPager, Induction, SequenceTheorems

CodeWidths == MinLeftWidth = 28 /\ MinRightWidth = 48 /\ DividerWidth = 3

(* render refuses a left pane of less than 8 columns and a right one of    *)
(* less than 16.  From 59 columns on it never does so, however wide the    *)
(* panes' contents, and the panes fill the terminal exactly.               *)
THEOREM PanesFit ==
  ASSUME CodeWidths,
         NEW hint \in Nat, NEW right \in Nat, NEW terminalWidth \in Nat,
         right >= 16, terminalWidth >= 59
  PROVE  LET left == LeftWidthOf(hint, right, terminalWidth)
         IN  /\ left >= 8
             /\ Less(terminalWidth, left + DividerWidth) >= 16
             /\ left + DividerWidth + Less(terminalWidth, left + DividerWidth) = terminalWidth
<1> DEFINE available == Less(terminalWidth, DividerWidth)
           cap       == Most(terminalWidth \div 3, MinLeftWidth)
           wanted    == Least(Least(Most(hint, MinLeftWidth), cap), available)
           squeezed  == IF Less(available, wanted) < MinRightWidth /\ available > MinRightWidth
                        THEN available - MinRightWidth ELSE wanted
           left      == LeftWidthOf(hint, right, terminalWidth)
<1>1. available = terminalWidth - 3 /\ available \in Nat /\ available >= 56
  BY DEF CodeWidths, Less
<1>2. cap \in Nat /\ cap >= 28 /\ (cap = 28 \/ cap * 3 <= terminalWidth)
  <2>1. /\ terminalWidth \div 3 \in Nat
        /\ 3 * (terminalWidth \div 3) <= terminalWidth
    OBVIOUS
  <2> QED
    BY <2>1 DEF CodeWidths, Most
<1>3. wanted \in Nat /\ wanted >= 28 /\ wanted <= cap /\ wanted <= available
  <2> HIDE DEF cap, available
  <2> QED
    BY <1>1, <1>2 DEF CodeWidths, Most, Least
<1>4. squeezed \in Nat /\ squeezed >= 8 /\ squeezed <= available - 16
  <2> HIDE DEF cap, available, wanted
  <2> QED
    BY <1>1, <1>2, <1>3 DEF CodeWidths, Less
<1>5. left = Most(Most(squeezed, Less(available, right)), 1)
  BY DEF LeftWidthOf
<1>6. left \in Nat /\ left >= 8 /\ left <= available - 16
  <2> HIDE DEF available, squeezed, left
  <2> QED
    BY <1>1, <1>4, <1>5 DEF Most, Less
<1> HIDE DEF available, left
<1>7. /\ left >= 8
      /\ Less(terminalWidth, left + DividerWidth) >= 16
      /\ left + DividerWidth + Less(terminalWidth, left + DividerWidth) = terminalWidth
  BY <1>1, <1>6 DEF CodeWidths, Less
<1> QED
  BY <1>7 DEF left

-----------------------------------------------------------------------------
(* The tracker.                                                            *)
USE SummaryAssumption

(* The numbers can only add up if the open orders can be counted, and they *)
(* only can be subtracted from while they do.                              *)
IInv == TypeOK /\ IsFiniteSet(DOMAIN orders) /\ KeptOnce /\ StatusAddsUp

LEMMA InitInv == Init => IInv
<1> SUFFICES ASSUME Init PROVE IInv
  OBVIOUS
<1>1. TypeOK /\ KeptOnce
  BY DEF Init, TypeOK, KeptOnce, CompletedAt
<1>2. IsFiniteSet(DOMAIN orders) /\ Cardinality(DOMAIN orders) = 0
  BY FS_EmptySet DEF Init
<1>3. StatusAddsUp
  BY <1>2 DEF Init, StatusAddsUp
<1> QED
  BY <1>1, <1>2, <1>3 DEF IInv

(* A message's part of the state.                                          *)
LEMMA MessageTyped ==
  ASSUME NEW m \in Messages
  PROVE  /\ m.type \in Maybe(MsgTypes)
         /\ m.order_id \in Maybe(Ids) /\ m.cl_ord_id \in Maybe(Ids) /\ m.orig \in Maybe(Ids)
         /\ IdsOf(m) \subseteq Ids
  BY DEF Message, Maybe, IdsOf

LEMMA KeyTyped ==
  ASSUME TypeOK, NEW m \in Messages
  PROVE  ResolveKey(m) \in Keys
<1>1. UnknownKey(unknown_counter + 1) \in Keys
  BY DEF TypeOK, UnknownKey, Keys
<1>2. OrElse(m.order_id, OrElse(m.cl_ord_id, UnknownKey(unknown_counter + 1))) \in Keys
  BY <1>1, MessageTyped DEF OrElse, Maybe, Keys
<1>3. \A id : id \in DOMAIN aliases => aliases[id] \in Keys
  BY DEF TypeOK
<1> QED
  BY <1>2, <1>3 DEF ResolveKey

LEMMA AliasesTyped ==
  ASSUME TypeOK, NEW m \in Messages
  PROVE  LET noted == NoteAliases(ResolveKey(m), IdsOf(m))
         IN  /\ DOMAIN noted \subseteq Ids
             /\ \A id \in DOMAIN noted : noted[id] \in Keys
  BY MessageTyped, KeyTyped DEF NoteAliases, TypeOK

LEMMA MergedTyped ==
  ASSUME TypeOK, NEW m \in Messages, NEW r \in Record
  PROVE  Merged(r, m) \in Record /\ Merged(r, m).key = r.key
<1>1. EventOf(m, next_sequence) \in Event
  BY DEF EventOf, Event, TypeOK
<1>2. \A a, b \in Maybe(Ids) : OrElse(a, b) \in Maybe(Ids)
  BY DEF OrElse, Maybe
<1> QED
  BY <1>1, <1>2, MessageTyped DEF Merged, Record, TypeOK

LEMMA NewRecordTyped ==
  ASSUME NEW key \in Keys
  PROVE  NewRecord(key) \in Record /\ NewRecord(key).key = key
  BY DEF NewRecord, Record, Maybe

(* What RemoveAt leaves of a sequence.                                     *)
LEMMA RemoveAtProperties ==
  ASSUME NEW S, NEW s \in Seq(S), NEW i \in 1 .. Len(s)
  PROVE  /\ RemoveAt(s, i) \in Seq(S)
         /\ Len(RemoveAt(s, i)) = Len(s) - 1
         /\ \A j \in 1 .. Len(s) - 1 :
               RemoveAt(s, i)[j] = IF j < i THEN s[j] ELSE s[j + 1]
<1> DEFINE before == SubSeq(s, 1, i - 1)
           after  == SubSeq(s, i + 1, Len(s))
<1>1. Len(s) \in Nat /\ \A j \in 1 .. Len(s) : s[j] \in S
  BY LenProperties, ElementOfSeq
<1>2. /\ before \in Seq(S) /\ Len(before) = i - 1
      /\ \A j \in 1 .. i - 1 : before[j] = s[j]
  <2>1. \A j \in 1 .. i - 1 : s[j] \in S
    BY <1>1
  <2>2. 1 \in Int /\ i - 1 \in Int
    BY <1>1
  <2> HIDE DEF before
  <2>3. /\ before \in Seq(S)
        /\ Len(before) = IF 1 <= i - 1 THEN (i - 1) - 1 + 1 ELSE 0
        /\ \A j \in 1 .. (i - 1) - 1 + 1 : before[j] = s[1 + j - 1]
    BY <2>1, <2>2, SubSeqProperties DEF before
  <2> QED
    BY <2>3, <1>1
<1>3. /\ after \in Seq(S) /\ Len(after) = Len(s) - i
      /\ \A j \in 1 .. Len(s) - i : after[j] = s[i + j]
  <2>1. \A j \in i + 1 .. Len(s) : s[j] \in S
    BY <1>1
  <2>2. i + 1 \in Int /\ Len(s) \in Int
    BY <1>1
  <2> HIDE DEF after
  <2>3. /\ after \in Seq(S)
        /\ Len(after) = IF i + 1 <= Len(s) THEN Len(s) - (i + 1) + 1 ELSE 0
        /\ \A j \in 1 .. Len(s) - (i + 1) + 1 : after[j] = s[i + 1 + j - 1]
    BY <2>1, <2>2, SubSeqProperties DEF after
  <2> QED
    BY <2>3, <1>1
<1>4. RemoveAt(s, i) = before \o after
  BY DEF RemoveAt
<1> HIDE DEF before, after
<1>5. /\ before \o after \in Seq(S)
      /\ Len(before \o after) = Len(before) + Len(after)
      /\ \A j \in 1 .. Len(before) + Len(after) :
            (before \o after)[j] = IF j <= Len(before) THEN before[j] ELSE after[j - Len(before)]
  BY <1>2, <1>3, ConcatProperties
<1>6. \A j \in 1 .. Len(s) - 1 : RemoveAt(s, i)[j] = IF j < i THEN s[j] ELSE s[j + 1]
  <2> TAKE j \in 1 .. Len(s) - 1
  <2>1. CASE j < i
    BY <2>1, <1>1, <1>2, <1>3, <1>4, <1>5
  <2>2. CASE ~(j < i)
    <3>1. j - (i - 1) \in 1 .. Len(s) - i /\ i + (j - (i - 1)) = j + 1
      BY <2>2, <1>1
    <3>2. after[j - (i - 1)] = s[j + 1]
      BY <3>1, <1>3
    <3> QED
      BY <3>2, <2>2, <1>1, <1>2, <1>3, <1>4, <1>5
  <2> QED
    BY <2>1, <2>2
<1>7. RemoveAt(s, i) \in Seq(S)
  BY <1>4, <1>5
<1>8. Len(RemoveAt(s, i)) = Len(s) - 1
  <2>1. Len(RemoveAt(s, i)) = (i - 1) + (Len(s) - i)
    BY <1>2, <1>3, <1>4, <1>5
  <2> QED
    BY <2>1, <1>1
<1> QED
  BY <1>6, <1>7, <1>8

(* What is left when completed record i has been taken out: all others.    *)
LEMMA TakenOut ==
  ASSUME TypeOK, KeptOnce, NEW i \in DOMAIN completed
  PROVE  LET kept == RemoveAt(completed, i)
         IN  /\ kept \in Seq(Record)
             /\ Len(kept) = Len(completed) - 1
             /\ \A j \in DOMAIN kept :
                   \E k \in DOMAIN completed : k # i /\ kept[j] = completed[k]
             /\ \A k \in DOMAIN completed :
                   k # i => \E j \in DOMAIN kept : kept[j] = completed[k]
             /\ \A j, k \in DOMAIN kept : kept[j].key = kept[k].key => j = k
<1> DEFINE kept == RemoveAt(completed, i)
<1>1. /\ completed \in Seq(Record) /\ Len(completed) \in Nat
      /\ DOMAIN completed = 1 .. Len(completed) /\ i \in 1 .. Len(completed)
  BY LenProperties DEF TypeOK
<1>2. /\ kept \in Seq(Record) /\ Len(kept) = Len(completed) - 1
      /\ \A j \in 1 .. Len(completed) - 1 :
            kept[j] = IF j < i THEN completed[j] ELSE completed[j + 1]
  BY <1>1, RemoveAtProperties
<1> HIDE DEF kept
<1>3. DOMAIN kept = 1 .. Len(completed) - 1
  BY <1>1, <1>2, LenProperties
<1>4. \A j \in DOMAIN kept : \E k \in DOMAIN completed : k # i /\ kept[j] = completed[k]
  <2> TAKE j \in DOMAIN kept
  <2>1. CASE j < i
    <3>1. j \in DOMAIN completed /\ j # i /\ kept[j] = completed[j]
      BY <2>1, <1>1, <1>2, <1>3
    <3> QED
      BY <3>1
  <2>2. CASE ~(j < i)
    <3>1. j + 1 \in DOMAIN completed /\ j + 1 # i /\ kept[j] = completed[j + 1]
      BY <2>2, <1>1, <1>2, <1>3
    <3> QED
      BY <3>1
  <2> QED
    BY <2>1, <2>2
<1>5. ASSUME NEW j \in DOMAIN kept, NEW k \in DOMAIN kept, kept[j].key = kept[k].key
      PROVE  j = k
  <2> DEFINE old(n) == IF n < i THEN n ELSE n + 1
  <2>1. /\ old(j) \in DOMAIN completed /\ kept[j] = completed[old(j)]
        /\ old(k) \in DOMAIN completed /\ kept[k] = completed[old(k)]
    BY <1>1, <1>2, <1>3
  <2>2. old(j) = old(k)
    <3> HIDE DEF old
    <3> QED
      BY <2>1, <1>5 DEF KeptOnce
  <2> QED
    BY <2>2, <1>1, <1>3
<1>6. ASSUME NEW k \in DOMAIN completed, k # i
      PROVE  \E j \in DOMAIN kept : kept[j] = completed[k]
  <2>1. CASE k < i
    <3>1. k \in DOMAIN kept /\ kept[k] = completed[k]
      BY <2>1, <1>1, <1>2, <1>3
    <3> QED
      BY <3>1
  <2>2. CASE ~(k < i)
    <3>1. /\ k - 1 \in DOMAIN kept /\ ~(k - 1 < i) /\ (k - 1) + 1 = k
          /\ kept[k - 1] = completed[(k - 1) + 1]
      BY <2>2, <1>1, <1>2, <1>3, <1>6
    <3> QED
      BY <3>1
  <2> QED
    BY <2>1, <2>2
<1> QED
  BY <1>2, <1>4, <1>5, <1>6 DEF kept

(* A record that takes a message ends up in one place, and whatever it was *)
(* before, it is counted there once.  `r` is the record of `key` as it was,*)
(* `kept` the completed records without it.                                *)
LEMMA TrackStep ==
  ASSUME IInv, NEW m \in Messages, NEW key \in Keys, NEW r \in Record, r.key = key,
         NEW kept \in Seq(Record), NEW terminals \in Nat,
         \A i \in DOMAIN kept : IsTerminal(kept[i]) /\ kept[i].key # key
                                /\ kept[i].key \notin DOMAIN orders,
         \A i, j \in DOMAIN kept : kept[i].key = kept[j].key => i = j,
         Track(m, key, r, kept, terminals)
  PROVE  /\ DOMAIN orders' \subseteq Keys /\ \A k \in DOMAIN orders' : orders'[k] \in Record
         /\ completed' \in Seq(Record)
         /\ terminal_orders' \in Nat
         /\ terminal_orders' = Len(completed') + (terminals - Len(kept))
         /\ IsFiniteSet(DOMAIN orders')
         /\ Cardinality(DOMAIN orders') + terminal_orders' =
               Cardinality(DOMAIN orders) + terminals + (IF key \in DOMAIN orders THEN 0 ELSE 1)
         /\ KeptOnce'
<1> DEFINE record == Merged(r, m)
<1>1. record \in Record /\ record.key = key
  BY MergedTyped DEF IInv
<1>2. /\ Len(kept) \in Nat /\ DOMAIN kept = 1 .. Len(kept)
      /\ Cardinality(DOMAIN orders) \in Nat /\ IsFiniteSet(DOMAIN orders)
  BY LenProperties, FS_CardinalityType DEF IInv
<1> HIDE DEF record
<1>3. CASE IsTerminal(record)
  <2>1. /\ completed' = Append(kept, record)
        /\ orders' = Restrict(orders, DOMAIN orders \ {key})
        /\ terminal_orders' = terminals + 1
    BY <1>3 DEF Track, record
  <2>2. /\ completed' \in Seq(Record) /\ Len(completed') = Len(kept) + 1
        /\ DOMAIN completed' = 1 .. Len(kept) + 1
        /\ \A i \in 1 .. Len(kept) : completed'[i] = kept[i]
        /\ completed'[Len(kept) + 1] = record
    BY <2>1, <1>1, <1>2, AppendProperties, LenProperties
  <2>3. /\ DOMAIN orders' = DOMAIN orders \ {key}
        /\ \A k \in DOMAIN orders' : orders'[k] = orders[k]
    BY <2>1 DEF Restrict
  <2>4. /\ IsFiniteSet(DOMAIN orders')
        /\ Cardinality(DOMAIN orders') =
              Cardinality(DOMAIN orders) - (IF key \in DOMAIN orders THEN 1 ELSE 0)
    BY <2>3, <1>2, FS_RemoveElement
  <2>5. \A k \in DOMAIN orders' :
           orders'[k].key = k /\ ~IsTerminal(orders'[k]) /\ CompletedAt(k)' = {}
    <3> TAKE k \in DOMAIN orders'
    <3>1. k \in DOMAIN orders /\ k # key /\ orders'[k] = orders[k]
      BY <2>3
    <3>2. orders[k].key = k /\ ~IsTerminal(orders[k])
      BY <3>1 DEF IInv, KeptOnce
    <3>3. ASSUME NEW i \in DOMAIN completed', completed'[i].key = k PROVE FALSE
      <4>1. CASE i = Len(kept) + 1
        BY <4>1, <3>3, <3>1, <2>2, <1>1
      <4>2. CASE i \in 1 .. Len(kept)
        BY <4>2, <3>3, <3>1, <2>2, <1>2
      <4> QED
        BY <4>1, <4>2, <2>2, <1>2
    <3> QED
      BY <3>1, <3>2, <3>3 DEF CompletedAt
  <2>6. \A i \in DOMAIN completed' : IsTerminal(completed'[i])
    <3> TAKE i \in DOMAIN completed'
    <3>1. CASE i = Len(kept) + 1
      BY <3>1, <2>2, <1>3
    <3>2. CASE i \in 1 .. Len(kept)
      BY <3>2, <2>2, <1>2
    <3> QED
      BY <3>1, <3>2, <2>2, <1>2
  <2>7. ASSUME NEW i \in DOMAIN completed', NEW j \in DOMAIN completed',
               completed'[i].key = completed'[j].key
        PROVE  i = j
    BY <2>7, <2>2, <1>1, <1>2
  <2>8. KeptOnce'
    BY <2>5, <2>6, <2>7 DEF KeptOnce
  <2>9. /\ terminal_orders' \in Nat
        /\ terminal_orders' = Len(completed') + (terminals - Len(kept))
        /\ Cardinality(DOMAIN orders') + terminal_orders' =
              Cardinality(DOMAIN orders) + terminals + (IF key \in DOMAIN orders THEN 0 ELSE 1)
    <3>1. /\ terminal_orders' \in Nat
          /\ terminal_orders' = Len(completed') + (terminals - Len(kept))
      BY <2>1, <2>2, <1>2
    <3>2. CASE key \in DOMAIN orders
      <4>1. Cardinality(DOMAIN orders') = Cardinality(DOMAIN orders) - 1
        BY <3>2, <2>4
      <4> QED
        BY <3>1, <3>2, <4>1, <2>1, <1>2
    <3>3. CASE key \notin DOMAIN orders
      <4>1. Cardinality(DOMAIN orders') = Cardinality(DOMAIN orders)
        BY <3>3, <2>4, <1>2
      <4> QED
        BY <3>1, <3>3, <4>1, <2>1, <1>2
    <3> QED
      BY <3>2, <3>3
  <2>10. DOMAIN orders' \subseteq Keys /\ \A k \in DOMAIN orders' : orders'[k] \in Record
    BY <2>3 DEF IInv, TypeOK
  <2> QED
    BY <2>2, <2>4, <2>8, <2>9, <2>10
<1>4. CASE ~IsTerminal(record)
  <2>1. /\ completed' = kept
        /\ orders' = [k \in DOMAIN orders \cup {key} |->
                        IF k = key THEN record ELSE orders[k]]
        /\ terminal_orders' = terminals
    BY <1>4 DEF Track, record
  <2>2. /\ DOMAIN orders' = DOMAIN orders \cup {key}
        /\ orders'[key] = record
        /\ \A k \in DOMAIN orders \ {key} : orders'[k] = orders[k]
    BY <2>1
  <2>3. /\ IsFiniteSet(DOMAIN orders')
        /\ Cardinality(DOMAIN orders') =
              Cardinality(DOMAIN orders) + (IF key \in DOMAIN orders THEN 0 ELSE 1)
    BY <2>2, <1>2, FS_AddElement
  <2>4. \A k \in DOMAIN orders' :
           orders'[k].key = k /\ ~IsTerminal(orders'[k]) /\ CompletedAt(k)' = {}
    <3> TAKE k \in DOMAIN orders'
    <3>1. CASE k = key
      BY <3>1, <2>1, <2>2, <1>1, <1>4 DEF CompletedAt
    <3>2. CASE k # key
      <4>1. k \in DOMAIN orders /\ orders'[k] = orders[k]
        BY <3>2, <2>2
      <4>2. orders[k].key = k /\ ~IsTerminal(orders[k])
        BY <4>1 DEF IInv, KeptOnce
      <4> QED
        BY <4>1, <4>2, <2>1 DEF CompletedAt
    <3> QED
      BY <3>1, <3>2
  <2>5. KeptOnce'
    BY <2>1, <2>4 DEF KeptOnce
  <2>6. DOMAIN orders' \subseteq Keys /\ \A k \in DOMAIN orders' : orders'[k] \in Record
    BY <2>2, <1>1 DEF IInv, TypeOK
  <2>7. /\ terminal_orders' \in Nat
        /\ terminal_orders' = Len(completed') + (terminals - Len(kept))
        /\ Cardinality(DOMAIN orders') + terminal_orders' =
              Cardinality(DOMAIN orders) + terminals + (IF key \in DOMAIN orders THEN 0 ELSE 1)
    <3>1. CASE key \in DOMAIN orders
      <4>1. Cardinality(DOMAIN orders') = Cardinality(DOMAIN orders)
        BY <3>1, <2>3, <1>2
      <4> QED
        BY <3>1, <4>1, <2>1, <1>2
    <3>2. CASE key \notin DOMAIN orders
      <4>1. Cardinality(DOMAIN orders') = Cardinality(DOMAIN orders) + 1
        BY <3>2, <2>3
      <4> QED
        BY <3>2, <4>1, <2>1, <1>2
    <3> QED
      BY <3>1, <3>2
  <2> QED
    BY <2>1, <2>3, <2>5, <2>6, <2>7
<1> QED
  BY <1>3, <1>4

-----------------------------------------------------------------------------
(* The rest of what a message changes.                                     *)
LEMMA LogStep ==
  ASSUME TypeOK, NEW m \in Messages, RecordMessage(m)
  PROVE  /\ follow' \in BOOLEAN /\ printed' \in Seq(Record) /\ in_line' \in Nat
         /\ next_sequence' \in Nat /\ unknown_counter' \in Nat
         /\ DOMAIN aliases' \subseteq Ids /\ \A id \in DOMAIN aliases' : aliases'[id] \in Keys
         /\ input' \in Seq(Messages)
         /\ message_log' \in Seq([sequence : Nat, type : MsgTypes])
<1>1. UNCHANGED aliases \/ aliases' = NoteAliases(ResolveKey(m), IdsOf(m))
  BY DEF RecordMessage
<1>2. DOMAIN aliases' \subseteq Ids /\ \A id \in DOMAIN aliases' : aliases'[id] \in Keys
  BY <1>1, AliasesTyped DEF TypeOK
<1>3. message_log' \in Seq([sequence : Nat, type : MsgTypes])
  <2>1. m.type # None => [sequence |-> next_sequence, type |-> m.type]
                            \in [sequence : Nat, type : MsgTypes]
    BY MessageTyped DEF Maybe, TypeOK
  <2> QED
    BY <2>1, AppendProperties DEF RecordMessage, TypeOK
<1>4. input' \in Seq(Messages)
  BY AppendProperties DEF RecordMessage, TypeOK
<1>5. /\ follow' \in BOOLEAN /\ printed' \in Seq(Record) /\ in_line' \in Nat
      /\ next_sequence' \in Nat /\ unknown_counter' \in Nat
  BY DEF RecordMessage, TypeOK
<1> QED
  BY <1>2, <1>3, <1>4, <1>5

LEMMA RecordStep ==
  ASSUME IInv, NEW m \in Messages, RecordMessage(m)
  PROVE  IInv'
<1> DEFINE key == ResolveKey(m)
<1>1. /\ Len(completed) \in Nat /\ DOMAIN completed = 1 .. Len(completed)
      /\ Len(printed) \in Nat /\ Cardinality(DOMAIN orders) \in Nat
      /\ total_orders \in Nat /\ terminal_orders \in Nat
      /\ total_orders = Cardinality(DOMAIN orders) + terminal_orders
      /\ terminal_orders = Len(completed) + Len(printed)
      /\ printed' = printed
  BY LenProperties, FS_CardinalityType DEF IInv, TypeOK, StatusAddsUp, RecordMessage
<1>2. CASE Ignored(m)
  <2>1. UNCHANGED <<orders, completed, total_orders, terminal_orders, printed>>
    BY <1>2 DEF RecordMessage
  <2>2. TypeOK'
    BY <2>1, LogStep DEF IInv, TypeOK
  <2>3. KeptOnce' /\ StatusAddsUp' /\ IsFiniteSet(DOMAIN orders')
    BY <2>1 DEF IInv, KeptOnce, StatusAddsUp, CompletedAt
  <2> QED
    BY <2>2, <2>3 DEF IInv
<1>3. CASE ~Ignored(m)
  <2>1. key \in Keys
    BY KeyTyped DEF IInv
  <2> DEFINE Tracked(r, kept, terminals) ==
               /\ r \in Record /\ r.key = key
               /\ kept \in Seq(Record) /\ terminals \in Nat
               /\ \A i \in DOMAIN kept : /\ IsTerminal(kept[i]) /\ kept[i].key # key
                                        /\ kept[i].key \notin DOMAIN orders
               /\ \A i, j \in DOMAIN kept : kept[i].key = kept[j].key => i = j
               /\ terminals - Len(kept) = Len(printed)
               /\ Track(m, key, r, kept, terminals)
  <2>2. \A i \in DOMAIN completed : /\ IsTerminal(completed[i])
                                   /\ completed[i].key \notin DOMAIN orders
    BY DEF IInv, KeptOnce, CompletedAt
  <2>3. \E r, kept, terminals :
          /\ Tracked(r, kept, terminals)
          /\ Cardinality(DOMAIN orders) + terminals + (IF key \in DOMAIN orders THEN 0 ELSE 1)
                = total_orders'
    <3>1. CASE /\ key \in DOMAIN orders
               /\ Track(m, key, orders[key], completed, terminal_orders)
               /\ UNCHANGED total_orders
      <4>1. orders[key] \in Record /\ orders[key].key = key
        BY <3>1 DEF IInv, TypeOK, KeptOnce
      <4>2. \A i \in DOMAIN completed : completed[i].key # key
        BY <3>1, <2>2
      <4>3. \A i, j \in DOMAIN completed : completed[i].key = completed[j].key => i = j
        BY DEF IInv, KeptOnce
      <4>4. completed \in Seq(Record) /\ terminal_orders - Len(completed) = Len(printed)
        BY <1>1 DEF IInv, TypeOK
      <4>5. Tracked(orders[key], completed, terminal_orders)
        <5> HIDE DEF key
        <5> QED
          BY <4>1, <4>2, <4>3, <4>4, <3>1, <2>2, <1>1
      <4>6. total_orders' = Cardinality(DOMAIN orders) + terminal_orders + 0
        BY <3>1, <1>1
      <4> HIDE DEF Tracked, key
      <4> QED
        BY <4>5, <4>6, <3>1
    <3>2. CASE key \notin DOMAIN orders /\ Reopen(m, key)
      <4>1. PICK i \in CompletedAt(key) :
              Track(m, key, completed[i], RemoveAt(completed, i),
                    terminal_orders - (IF IsTerminal(completed[i]) /\ terminal_orders > 0
                                       THEN 1 ELSE 0))
        BY <3>2 DEF Reopen
      <4>2. i \in DOMAIN completed /\ completed[i].key = key
        BY DEF CompletedAt
      <4>3. IsTerminal(completed[i]) /\ terminal_orders > 0
        BY <4>2, <2>2, <1>1
      <4>4. Track(m, key, completed[i], RemoveAt(completed, i), terminal_orders - 1)
        BY <4>1, <4>3
      <4>5. completed[i] \in Record
        BY <4>2, <1>1, ElementOfSeq DEF IInv, TypeOK
      <4> DEFINE kept == RemoveAt(completed, i)
      <4>6. /\ kept \in Seq(Record)
            /\ Len(kept) = Len(completed) - 1
            /\ \A j \in DOMAIN kept :
                  \E k \in DOMAIN completed : k # i /\ kept[j] = completed[k]
            /\ \A j, k \in DOMAIN kept : kept[j].key = kept[k].key => j = k
        BY <4>2, TakenOut DEF IInv
      <4> HIDE DEF kept
      <4>7. \A j \in DOMAIN kept : /\ IsTerminal(kept[j]) /\ kept[j].key # key
                                  /\ kept[j].key \notin DOMAIN orders
        BY <4>6, <4>2, <2>2 DEF IInv, KeptOnce
      <4>8. terminal_orders - 1 \in Nat /\ (terminal_orders - 1) - Len(kept) = Len(printed)
        BY <4>3, <4>6, <1>1
      <4>9. Tracked(completed[i], kept, terminal_orders - 1)
        BY <4>2, <4>4, <4>5, <4>6, <4>7, <4>8 DEF kept
      <4>10. total_orders' = Cardinality(DOMAIN orders) + (terminal_orders - 1) + 1
        BY <3>2, <1>1 DEF Reopen
      <4> QED
        BY <4>9, <4>10, <3>2
    <3>3. CASE /\ key \notin DOMAIN orders /\ CompletedAt(key) = {}
               /\ Track(m, key, NewRecord(key), completed, terminal_orders)
               /\ total_orders' = total_orders + 1
      <4>1. NewRecord(key) \in Record /\ NewRecord(key).key = key
        BY <2>1, NewRecordTyped
      <4>2. \A i \in DOMAIN completed : completed[i].key # key
        BY <3>3 DEF CompletedAt
      <4>3. Tracked(NewRecord(key), completed, terminal_orders)
        BY <4>1, <4>2, <3>3, <2>2, <1>1 DEF IInv, TypeOK, KeptOnce
      <4> QED
        BY <4>3, <3>3, <1>1
    <3> QED
      BY <3>1, <3>2, <3>3, <1>3 DEF RecordMessage
  <2>4. PICK r, kept, terminals :
          /\ Tracked(r, kept, terminals)
          /\ Cardinality(DOMAIN orders) + terminals + (IF key \in DOMAIN orders THEN 0 ELSE 1)
                = total_orders'
    BY <2>3
  <2>5. PICK k : k = key
    OBVIOUS
  <2>6. /\ DOMAIN orders' \subseteq Keys /\ \A n \in DOMAIN orders' : orders'[n] \in Record
        /\ completed' \in Seq(Record)
        /\ terminal_orders' \in Nat
        /\ terminal_orders' = Len(completed') + (terminals - Len(kept))
        /\ IsFiniteSet(DOMAIN orders')
        /\ Cardinality(DOMAIN orders') + terminal_orders' =
              Cardinality(DOMAIN orders) + terminals + (IF k \in DOMAIN orders THEN 0 ELSE 1)
        /\ KeptOnce'
    <3> HIDE DEF key
    <3> QED
      BY <2>1, <2>4, <2>5, TrackStep
  <2>7. StatusAddsUp' /\ total_orders' \in Nat
    <3>1. total_orders' = Cardinality(DOMAIN orders') + terminal_orders'
      BY <2>4, <2>5, <2>6
    <3>2. Cardinality(DOMAIN orders') \in Nat
      BY <2>6, FS_CardinalityType
    <3>3. terminal_orders' = Len(completed') + Len(printed')
      BY <2>4, <2>6, <1>1
    <3> QED
      BY <3>1, <3>2, <3>3, <2>6 DEF StatusAddsUp
  <2>8. TypeOK'
    BY <2>6, <2>7, LogStep DEF IInv, TypeOK
  <2> QED
    BY <2>6, <2>7, <2>8 DEF IInv
<1> QED
  BY <1>2, <1>3

LEMMA EndLineStep ==
  ASSUME IInv, EndLine
  PROVE  IInv'
<1>1. /\ completed \in Seq(Record) /\ printed \in Seq(Record)
      /\ printed \o completed \in Seq(Record)
      /\ Len(printed \o completed) = Len(printed) + Len(completed)
      /\ Len(completed) \in Nat /\ Len(printed) \in Nat
  BY ConcatProperties, LenProperties DEF IInv, TypeOK
<1>2. CASE follow
  <2>1. printed' = printed \o completed /\ completed' = <<>>
    BY <1>2 DEF EndLine
  <2>2. TypeOK'
    BY <2>1, <1>1, EmptySeq DEF IInv, TypeOK, EndLine
  <2>3. KeptOnce'
    BY <2>1 DEF IInv, KeptOnce, CompletedAt, EndLine
  <2>4. StatusAddsUp'
    <3>1. Len(completed') = 0 /\ Len(printed') = Len(printed) + Len(completed)
      BY <2>1, <1>1
    <3> QED
      BY <3>1, <1>1 DEF IInv, StatusAddsUp, EndLine
  <2> QED
    BY <2>2, <2>3, <2>4 DEF IInv, EndLine
<1>3. CASE ~follow
  BY <1>3 DEF IInv, TypeOK, KeptOnce, StatusAddsUp, CompletedAt, EndLine
<1> QED
  BY <1>2, <1>3

LEMMA InvStep == IInv /\ [Next]_vars => IInv'
<1> SUFFICES ASSUME IInv, [Next]_vars PROVE IInv'
  OBVIOUS
<1>1. CASE UNCHANGED vars
  BY <1>1 DEF vars, IInv, TypeOK, KeptOnce, StatusAddsUp, CompletedAt
<1>2. ASSUME NEW m \in Messages, RecordMessage(m) PROVE IInv'
  BY <1>2, RecordStep
<1>3. CASE EndLine
  BY <1>3, EndLineStep
<1> QED
  BY <1>1, <1>2, <1>3 DEF Next

(* The state of the tracker keeps its types, for any log.                  *)
THEOREM TypeCorrect == Spec => []TypeOK
<1>1. IInv => TypeOK
  BY DEF IInv
<1> QED
  BY <1>1, InitInv, InvStep, PTL DEF Spec

(* No order is kept twice, however messages reopen settled orders and the  *)
(* settled ones are printed and forgotten.                                 *)
THEOREM OrdersKeptOnce == Spec => []KeptOnce
<1>1. IInv => KeptOnce
  BY DEF IInv
<1> QED
  BY <1>1, InitInv, InvStep, PTL DEF Spec

(* The footer's open, settled and total numbers add up after every line.   *)
THEOREM FooterAddsUp == Spec => []StatusAddsUp
<1>1. IInv => StatusAddsUp
  BY DEF IInv
<1> QED
  BY <1>1, InitInv, InvStep, PTL DEF Spec

(* An identifier never moves from one order to another.                    *)
THEOREM IdsNeverMove == Spec => IdsStay
<1>1. Next => \A id \in DOMAIN aliases : id \in DOMAIN aliases' /\ aliases'[id] = aliases[id]
  <2>1. ASSUME NEW m \in Messages, RecordMessage(m)
        PROVE  \A id \in DOMAIN aliases : id \in DOMAIN aliases' /\ aliases'[id] = aliases[id]
    BY <2>1 DEF RecordMessage, NoteAliases
  <2>2. CASE EndLine
    BY <2>2 DEF EndLine
  <2> QED
    BY <2>1, <2>2 DEF Next
<1> QED
  BY <1>1, PTL DEF Spec, IdsStay

-----------------------------------------------------------------------------
(* Where the messages are.  A record holds messages of the log as they     *)
(* came; every identifier of an event is noted, under a key whose records  *)
(* hold it; a record's key is noted under itself.                          *)
EventsAreInput ==
    /\ next_sequence = Len(input)
    /\ \A r \in AllRecords : \A e \in r.events :
          e.sequence < next_sequence /\ e.fields = input[e.sequence + 1]
IdsNoted ==
    /\ \A id \in DOMAIN aliases :
          \E r \in AllRecords : r.key = aliases[id] /\ \E e \in r.events : id \in IdsOf(e.fields)
    /\ \A r \in AllRecords :
          /\ r.key \in DOMAIN aliases /\ aliases[r.key] = r.key
          /\ \A e \in r.events : IdsOf(e.fields) \subseteq DOMAIN aliases

(* A message is in at most one record, and the messages that are in one    *)
(* are those of order flows.                                               *)
Held(n) == \E r \in AllRecords : Holds(r, n - 1)
HeldOnce == \A r, q \in AllRecords : \A n \in Nat : Holds(r, n) /\ Holds(q, n) => r = q
FlowHeld ==
    \A n \in 1 .. Len(input) :
        Held(n) <=> /\ ~input[n].admin
                    /\ \/ input[n].order_id # None \/ input[n].cl_ord_id # None
                       \/ /\ input[n].orig # None
                          /\ \E i \in 1 .. n - 1 : Held(i) /\ input[n].orig \in IdsOf(input[i])

(* A printed record ended, and is not also among those still to print.     *)
PrintedApart ==
    \A i \in DOMAIN printed : /\ IsTerminal(printed[i])
                              /\ \A j \in DOMAIN completed : printed[i] # completed[j]

FlowInv == /\ IInv /\ EventsAreInput /\ IdsNoted /\ HeldOnce /\ FlowHeld /\ PrintedApart
           /\ SharesAnId

(* What a message makes of the records: one of its key, `r`, takes it; the *)
(* others stay.  It is a new one only if none is open or still to print.   *)
Taken(m, key, r, old) ==
    /\ r \in Record /\ r.key = key
    /\ \/ r \in AllRecords /\ old = {r}
       \/ r = NewRecord(key) /\ old = {}
    /\ AllRecords' = (AllRecords \ old) \cup {Merged(r, m)}
    /\ PrintedApart'

LEMMA AllRecordsTyped ==
  ASSUME TypeOK
  PROVE  AllRecords \subseteq Record
<1>1. \A i \in DOMAIN completed : completed[i] \in Record
  BY LenProperties, ElementOfSeq DEF TypeOK
<1>2. \A i \in DOMAIN printed : printed[i] \in Record
  BY LenProperties, ElementOfSeq DEF TypeOK
<1> QED
  BY <1>1, <1>2 DEF AllRecords, TypeOK

(* Track puts the record it made beside those that it was given.           *)
OpenBut(key) == {orders[k] : k \in DOMAIN orders \ {key}}

LEMMA TrackRecords ==
  ASSUME NEW m, NEW key, NEW r, NEW kept \in Seq(Record), NEW terminals,
         Merged(r, m) \in Record, UNCHANGED printed, Track(m, key, r, kept, terminals)
  PROVE  /\ AllRecords' = OpenBut(key) \cup Range(kept) \cup Range(printed) \cup {Merged(r, m)}
         /\ Range(completed') \subseteq Range(kept) \cup {Merged(r, m)}
<1> DEFINE record == Merged(r, m)
<1>1. Len(kept) \in Nat /\ DOMAIN kept = 1 .. Len(kept)
  BY LenProperties
<1> HIDE DEF record
<1>2. CASE IsTerminal(record)
  <2>1. /\ completed' = Append(kept, record)
        /\ orders' = Restrict(orders, DOMAIN orders \ {key})
    BY <1>2 DEF Track, record
  <2>2. /\ DOMAIN completed' = 1 .. Len(kept) + 1
        /\ \A i \in 1 .. Len(kept) : completed'[i] = kept[i]
        /\ completed'[Len(kept) + 1] = record
    BY <2>1, <1>1, AppendProperties, LenProperties DEF record
  <2>3. /\ DOMAIN orders' = DOMAIN orders \ {key}
        /\ \A k \in DOMAIN orders' : orders'[k] = orders[k]
    BY <2>1 DEF Restrict
  <2>4. {orders'[k] : k \in DOMAIN orders'} = {orders[k] : k \in DOMAIN orders \ {key}}
    BY <2>3
  <2>5. Range(completed') = Range(kept) \cup {record}
    <3>1. DOMAIN completed' = DOMAIN kept \cup {Len(kept) + 1}
      BY <2>2, <1>1
    <3> QED
      BY <3>1, <2>2, <1>1 DEF Range
  <2> QED
    BY <2>4, <2>5 DEF AllRecords, OpenBut, Range, record
<1>3. CASE ~IsTerminal(record)
  <2>1. /\ completed' = kept
        /\ orders' = [k \in DOMAIN orders \cup {key} |->
                        IF k = key THEN record ELSE orders[k]]
    BY <1>3 DEF Track, record
  <2>2. {orders'[k] : k \in DOMAIN orders'} =
           {orders[k] : k \in DOMAIN orders \ {key}} \cup {record}
    BY <2>1
  <2> QED
    BY <2>1, <2>2 DEF AllRecords, OpenBut, Range, record
<1> QED
  BY <1>2, <1>3

LEMMA TakenBy ==
  ASSUME IInv, PrintedApart, EventsAreInput, NEW m \in Messages, RecordMessage(m), ~Ignored(m)
  PROVE  \E r, old : Taken(m, ResolveKey(m), r, old)
<1>0. PICK key : key = ResolveKey(m)
  OBVIOUS
<1> DEFINE others == OpenBut(key)
           settled == Range(completed)
           gone == Range(printed)
<1>1. key \in Keys /\ UNCHANGED printed /\ completed \in Seq(Record)
  BY <1>0, KeyTyped DEF IInv, TypeOK, RecordMessage
<1>2. /\ \A r \in others : r.key # key /\ ~IsTerminal(r)
      /\ \A r \in settled : IsTerminal(r) /\ r.key \notin DOMAIN orders
      /\ \A r \in gone : IsTerminal(r) /\ r \notin settled
  BY DEF IInv, KeptOnce, CompletedAt, PrintedApart, OpenBut, Range
<1>3. AllRecords \subseteq Record /\ others \cup settled \cup gone \subseteq AllRecords
  BY AllRecordsTyped DEF AllRecords, IInv, OpenBut, Range
<1>4. \A r \in Record : Merged(r, m) \in Record /\ Merged(r, m) \notin gone
  <2> TAKE r \in Record
  <2>1. EventOf(m, next_sequence) \in Merged(r, m).events
    BY MergedTyped DEF Merged, Record, IInv
  <2>2. EventOf(m, next_sequence).sequence = next_sequence
    BY DEF EventOf
  <2>3. \A q \in gone : \A e \in q.events : e.sequence < next_sequence
    BY <1>3 DEF EventsAreInput
  <2>4. next_sequence \in Nat
    BY DEF IInv, TypeOK
  <2> QED
    BY <2>1, <2>2, <2>3, <2>4, MergedTyped DEF IInv
<1>5. ASSUME NEW r \in Record, NEW kept \in Seq(Record), NEW terminals,
             Track(m, key, r, kept, terminals), Range(kept) \subseteq settled
      PROVE  /\ AllRecords' = others \cup Range(kept) \cup gone \cup {Merged(r, m)}
             /\ PrintedApart'
  <2>1. Merged(r, m) \in Record /\ UNCHANGED printed
    BY <1>1, <1>4
  <2>2. /\ AllRecords' = others \cup Range(kept) \cup gone \cup {Merged(r, m)}
        /\ Range(completed') \subseteq Range(kept) \cup {Merged(r, m)}
    BY <2>1, <1>5, TrackRecords
  <2>3. Range(completed') \cap gone = {}
    BY <2>2, <1>2, <1>4, <1>5
  <2>4. \A i \in DOMAIN printed : IsTerminal(printed[i])
    BY DEF PrintedApart
  <2>5. PrintedApart'
    BY <2>1, <2>3, <2>4 DEF PrintedApart, Range
  <2> QED
    BY <2>2, <2>5
<1>6. AllRecords = others \cup settled \cup gone \cup
                     (IF key \in DOMAIN orders THEN {orders[key]} ELSE {})
  BY DEF AllRecords, OpenBut, Range
<1> HIDE DEF others, settled, gone
<1>7. CASE /\ key \in DOMAIN orders
           /\ Track(m, key, orders[key], completed, terminal_orders)
  <2> DEFINE r == orders[key]
  <2>1. r \in Record /\ r.key = key /\ ~IsTerminal(r)
    BY <1>7 DEF IInv, TypeOK, KeptOnce
  <2>2. r \in AllRecords /\ r \notin others \cup settled \cup gone
    BY <2>1, <1>2, <1>6, <1>7
  <2>3. Range(completed) = settled
    BY DEF settled
  <2>4. AllRecords' = others \cup settled \cup gone \cup {Merged(r, m)} /\ PrintedApart'
    BY <2>1, <2>3, <1>1, <1>5, <1>7
  <2>5. AllRecords \ {r} = others \cup settled \cup gone
    BY <2>2, <1>6, <1>7
  <2> QED
    BY <2>1, <2>2, <2>4, <2>5, <1>0 DEF Taken
<1>8. CASE key \notin DOMAIN orders /\ Reopen(m, key)
  <2>1. PICK i \in CompletedAt(key) : \E terminals :
          Track(m, key, completed[i], RemoveAt(completed, i), terminals)
    BY <1>8 DEF Reopen
  <2> DEFINE r == completed[i]
             kept == RemoveAt(completed, i)
  <2>2. i \in DOMAIN completed /\ r.key = key /\ r \in settled /\ r \in AllRecords
    BY <1>3 DEF CompletedAt, settled, Range
  <2>3. /\ kept \in Seq(Record)
        /\ \A j \in DOMAIN kept :
              \E k \in DOMAIN completed : k # i /\ kept[j] = completed[k]
        /\ \A k \in DOMAIN completed :
              k # i => \E j \in DOMAIN kept : kept[j] = completed[k]
    BY <2>2, TakenOut DEF IInv
  <2>4. \A k \in DOMAIN completed : k # i => completed[k].key # key
    BY <2>2 DEF IInv, KeptOnce
  <2> HIDE DEF kept
  <2>5. Range(kept) = settled \ {r}
    BY <2>2, <2>3, <2>4 DEF settled, Range
  <2>6. r \in Record
    BY <2>2, <1>3
  <2>7. Range(kept) \subseteq settled
    BY <2>5
  <2>8. PICK terminals : Track(m, key, r, kept, terminals)
    BY <2>1 DEF kept
  <2>9. AllRecords' = others \cup (settled \ {r}) \cup gone \cup {Merged(r, m)} /\ PrintedApart'
    BY <2>3, <2>5, <2>6, <2>7, <2>8, <1>5
  <2>10. AllRecords \ {r} = others \cup (settled \ {r}) \cup gone
    BY <2>2, <1>2, <1>6, <1>8
  <2> QED
    BY <2>2, <2>6, <2>9, <2>10, <1>0 DEF Taken
<1>9. CASE /\ key \notin DOMAIN orders
           /\ Track(m, key, NewRecord(key), completed, terminal_orders)
  <2>1. NewRecord(key) \in Record /\ NewRecord(key).key = key
    BY <1>1, NewRecordTyped
  <2>2. Range(completed) = settled
    BY DEF settled
  <2>3. /\ AllRecords' = others \cup settled \cup gone \cup {Merged(NewRecord(key), m)}
        /\ PrintedApart'
    BY <2>1, <2>2, <1>1, <1>5, <1>9
  <2>4. AllRecords = others \cup settled \cup gone
    BY <1>6, <1>9
  <2>5. Taken(m, key, NewRecord(key), {})
    BY <2>1, <2>3, <2>4 DEF Taken
  <2> QED
    BY <2>5, <1>0
<1> QED
  BY <1>0, <1>7, <1>8, <1>9 DEF RecordMessage

-----------------------------------------------------------------------------
(* The log as it grows by one message.                                     *)
LEMMA InputGrows ==
  ASSUME IInv, EventsAreInput, NEW m \in Messages, RecordMessage(m)
  PROVE  /\ next_sequence \in Nat /\ next_sequence = Len(input)
         /\ next_sequence' = next_sequence + 1 /\ Len(input') = Len(input) + 1
         /\ \A i \in 1 .. Len(input) : input'[i] = input[i]
         /\ input'[Len(input) + 1] = m
<1>1. input \in Seq(Messages) /\ next_sequence \in Nat /\ next_sequence = Len(input)
  BY DEF IInv, TypeOK, EventsAreInput
<1>2. input' = Append(input, m) /\ next_sequence' = next_sequence + 1
  BY DEF RecordMessage
<1> QED
  BY <1>1, <1>2, AppendProperties

(* The record that takes a message, and no other, gets it as an event.     *)
LEMMA MergedEvents ==
  ASSUME IInv, NEW m \in Messages, NEW r \in Record
  PROVE  /\ Merged(r, m).events = r.events \cup {EventOf(m, next_sequence)}
         /\ Merged(r, m).key = r.key
         /\ EventOf(m, next_sequence).sequence = next_sequence
         /\ EventOf(m, next_sequence).fields = m
  BY MergedTyped DEF Merged, EventOf, Record, IInv

(* What a record holds stays with its key.                                 *)
LEMMA TakenStay ==
  ASSUME IInv, NEW m \in Messages, NEW key, NEW r, NEW old, Taken(m, key, r, old),
         NEW q \in AllRecords
  PROVE  \E p \in AllRecords' : p.key = q.key /\ q.events \subseteq p.events
<1>1. CASE q \in old
  <2>1. q = r /\ Merged(r, m) \in AllRecords' /\ r \in Record
    BY <1>1 DEF Taken
  <2>2. Merged(r, m).key = q.key /\ q.events \subseteq Merged(r, m).events
    BY <2>1, MergedEvents
  <2> QED
    BY <2>1, <2>2
<1>2. CASE q \notin old
  BY <1>2 DEF Taken
<1> QED
  BY <1>1, <1>2

(* Where what a record holds after the step was before.                    *)
LEMMA TakenFrom ==
  ASSUME IInv, NEW m \in Messages, NEW key, NEW r, NEW old, Taken(m, key, r, old),
         NEW p \in AllRecords', NEW e \in p.events
  PROVE  \/ p = Merged(r, m) /\ e = EventOf(m, next_sequence)
         \/ \E q \in AllRecords :
               /\ p.key = q.key /\ e \in q.events
               /\ \/ p = q /\ q \notin old
                  \/ p = Merged(r, m) /\ q = r /\ old = {r}
<1>1. CASE p = Merged(r, m)
  <2>1. r \in Record /\ ((r \in AllRecords /\ old = {r}) \/ r = NewRecord(key))
    BY DEF Taken
  <2>2. p.events = r.events \cup {EventOf(m, next_sequence)} /\ p.key = r.key
    BY <1>1, <2>1, MergedEvents
  <2>3. r = NewRecord(key) => r.events = {}
    BY DEF NewRecord
  <2> QED
    BY <1>1, <2>1, <2>2, <2>3
<1>2. CASE p # Merged(r, m)
  <2>1. p \in AllRecords /\ p \notin old
    BY <1>2 DEF Taken
  <2> QED
    BY <2>1
<1> QED
  BY <1>1, <1>2

LEMMA EventsStep ==
  ASSUME IInv, EventsAreInput, NEW m \in Messages, RecordMessage(m),
         NEW key, NEW r, NEW old, Taken(m, key, r, old)
  PROVE  EventsAreInput'
<1>1. /\ next_sequence \in Nat /\ next_sequence = Len(input)
      /\ next_sequence' = next_sequence + 1 /\ Len(input') = Len(input) + 1
      /\ \A i \in 1 .. Len(input) : input'[i] = input[i]
      /\ input'[Len(input) + 1] = m
  BY InputGrows
<1>2. ASSUME NEW p \in AllRecords', NEW e \in p.events
      PROVE  e.sequence < next_sequence' /\ e.fields = input'[e.sequence + 1]
  <2>1. CASE e = EventOf(m, next_sequence)
    BY <2>1, <1>1 DEF EventOf
  <2>2. ASSUME NEW q \in AllRecords, e \in q.events
        PROVE  e.sequence < next_sequence' /\ e.fields = input'[e.sequence + 1]
    <3>1. e.sequence < next_sequence /\ e.fields = input[e.sequence + 1]
      BY <2>2 DEF EventsAreInput
    <3>2. e.sequence \in Nat
      BY <2>2, AllRecordsTyped DEF Record, Event, IInv
    <3>3. e.sequence + 1 \in 1 .. Len(input)
      BY <3>1, <3>2, <1>1
    <3> QED
      BY <3>1, <3>2, <3>3, <1>1
  <2> QED
    BY <2>1, <2>2, TakenFrom
<1> QED
  BY <1>1, <1>2 DEF EventsAreInput

LEMMA HeldOnceStep ==
  ASSUME IInv, EventsAreInput, HeldOnce, NEW m \in Messages, RecordMessage(m),
         NEW key, NEW r, NEW old, Taken(m, key, r, old)
  PROVE  HeldOnce'
<1> SUFFICES ASSUME NEW p1 \in AllRecords', NEW p2 \in AllRecords', NEW n \in Nat,
                    NEW e1 \in p1.events, NEW e2 \in p2.events,
                    e1.sequence = n, e2.sequence = n
             PROVE  p1 = p2
  BY DEF HeldOnce, Holds
<1>1. \A q \in AllRecords : \A e \in q.events : e.sequence < next_sequence
  BY DEF EventsAreInput
<1>2. EventOf(m, next_sequence).sequence = next_sequence /\ next_sequence \in Nat
  BY DEF EventOf, IInv, TypeOK
<1>3. CASE n = next_sequence
  <2>1. ASSUME NEW p \in AllRecords', NEW e \in p.events, e.sequence = n PROVE p = Merged(r, m)
    BY <2>1, <1>1, <1>2, <1>3, TakenFrom
  <2> QED
    BY <2>1
<1>4. CASE n # next_sequence
  <2>1. PICK q1 \in AllRecords :
           /\ e1 \in q1.events
           /\ \/ p1 = q1 /\ q1 \notin old
              \/ p1 = Merged(r, m) /\ q1 = r /\ old = {r}
    BY <1>2, <1>4, TakenFrom
  <2>2. PICK q2 \in AllRecords :
           /\ e2 \in q2.events
           /\ \/ p2 = q2 /\ q2 \notin old
              \/ p2 = Merged(r, m) /\ q2 = r /\ old = {r}
    BY <1>2, <1>4, TakenFrom
  <2>3. q1 = q2
    BY <2>1, <2>2 DEF HeldOnce, Holds
  <2> QED
    BY <2>1, <2>2, <2>3
<1> QED
  BY <1>3, <1>4

(* A message that counts goes to the record of an identifier it shares, or *)
(* it names the key of a record that nothing has been heard of.            *)
LEMMA KeyFound ==
  ASSUME IInv, NEW m \in Messages, ~Ignored(m)
  PROVE  \/ \E id \in IdsOf(m) : id \in DOMAIN aliases /\ ResolveKey(m) = aliases[id]
         \/ ResolveKey(m) \in IdsOf(m) \ DOMAIN aliases
<1> DEFINE new == OrElse(m.order_id, OrElse(m.cl_ord_id, UnknownKey(unknown_counter + 1)))
           lookup(id, otherwise) == IF id \in DOMAIN aliases THEN aliases[id] ELSE otherwise
<1>1. DOMAIN aliases \subseteq Ids /\ None \notin Ids
  BY DEF IInv, TypeOK
<1>2. \A id \in {m.order_id, m.cl_ord_id, m.orig} : id \in DOMAIN aliases => id \in IdsOf(m)
  BY <1>1 DEF IdsOf
<1>3. ResolveKey(m) = lookup(m.order_id, lookup(m.cl_ord_id, lookup(m.orig, new)))
  BY DEF ResolveKey
<1>4. CASE \E id \in {m.order_id, m.cl_ord_id, m.orig} : id \in DOMAIN aliases
  <2> HIDE DEF new
  <2> QED
    BY <1>2, <1>3, <1>4
<1>5. CASE \A id \in {m.order_id, m.cl_ord_id, m.orig} : id \notin DOMAIN aliases
  <2>1. ResolveKey(m) = new
    <3> HIDE DEF new
    <3> QED
      BY <1>3, <1>5
  <2>2. m.order_id # None \/ m.cl_ord_id # None
    BY <1>5 DEF Ignored
  <2>3. new \in {m.order_id, m.cl_ord_id} /\ new # None
    BY <2>2 DEF OrElse
  <2> HIDE DEF new
  <2> QED
    BY <2>1, <2>3, <1>5 DEF IdsOf
<1> QED
  BY <1>4, <1>5

(* The identifiers that are noted are those of the messages that count.    *)
LEMMA NotedAreHeld ==
  ASSUME IInv, EventsAreInput, IdsNoted, NEW id
  PROVE  id \in DOMAIN aliases <=> \E i \in 1 .. Len(input) : Held(i) /\ id \in IdsOf(input[i])
<1>1. input \in Seq(Messages) /\ Len(input) \in Nat /\ next_sequence = Len(input)
  BY LenProperties DEF IInv, TypeOK, EventsAreInput
<1>2. \A r \in AllRecords : \A e \in r.events :
        e.sequence \in Nat /\ e.sequence < next_sequence /\ e.fields = input[e.sequence + 1]
  BY AllRecordsTyped DEF EventsAreInput, Record, Event, IInv
<1>3. ASSUME id \in DOMAIN aliases
      PROVE  \E i \in 1 .. Len(input) : Held(i) /\ id \in IdsOf(input[i])
  <2>1. PICK r \in AllRecords : \E e \in r.events : id \in IdsOf(e.fields)
    BY <1>3 DEF IdsNoted
  <2>2. PICK e \in r.events : id \in IdsOf(e.fields)
    BY <2>1
  <2>3. /\ e.sequence + 1 \in 1 .. Len(input) /\ (e.sequence + 1) - 1 = e.sequence
        /\ e.fields = input[e.sequence + 1]
    BY <1>1, <1>2
  <2>4. Held(e.sequence + 1)
    BY <2>3 DEF Held, Holds
  <2> QED
    BY <2>2, <2>3, <2>4
<1>4. ASSUME NEW i \in 1 .. Len(input), Held(i), id \in IdsOf(input[i])
      PROVE  id \in DOMAIN aliases
  <2>1. PICK r \in AllRecords : \E e \in r.events : e.sequence = i - 1
    BY <1>4 DEF Held, Holds
  <2>2. PICK e \in r.events : e.sequence = i - 1
    BY <2>1
  <2>3. e.fields = input[i]
    BY <2>2, <1>2
  <2> QED
    BY <2>3, <1>4 DEF IdsNoted
<1> QED
  BY <1>3, <1>4

(* What a message is that belongs to no order flow.                        *)
LEMMA IgnoredMeans ==
  ASSUME IInv, EventsAreInput, IdsNoted, NEW m \in Messages
  PROVE  ~Ignored(m) <=> /\ ~m.admin
                         /\ \/ m.order_id # None \/ m.cl_ord_id # None
                            \/ /\ m.orig # None
                               /\ \E i \in 1 .. Len(input) : Held(i) /\ m.orig \in IdsOf(input[i])
<1>1. m.orig \in DOMAIN aliases <=>
         \E i \in 1 .. Len(input) : Held(i) /\ m.orig \in IdsOf(input[i])
  BY NotedAreHeld
<1>2. DOMAIN aliases \subseteq Ids /\ None \notin Ids
  BY DEF IInv, TypeOK
<1> QED
  BY <1>1, <1>2 DEF Ignored

(* FlowHeld goes on when the new message is held if and only if it counts  *)
(* and the others are held as before.                                      *)
LEMMA FlowHeldStep ==
  ASSUME IInv, EventsAreInput, IdsNoted, FlowHeld, NEW m \in Messages, RecordMessage(m),
         \A i \in 1 .. Len(input) : Held(i)' <=> Held(i),
         \A i : i = Len(input) + 1 => (Held(i)' <=> ~Ignored(m))
  PROVE  FlowHeld'
<1> DEFINE n == Len(input)
<1>1. /\ n \in Nat /\ Len(input') = n + 1
      /\ \A i \in 1 .. n : input'[i] = input[i]
      /\ input'[n + 1] = m
  BY InputGrows
<1> SUFFICES ASSUME NEW k \in 1 .. Len(input')
             PROVE  Held(k)' <=>
                      /\ ~input'[k].admin
                      /\ \/ input'[k].order_id # None \/ input'[k].cl_ord_id # None
                         \/ /\ input'[k].orig # None
                            /\ \E i \in 1 .. k - 1 : /\ Held(i)'
                                                     /\ input'[k].orig \in IdsOf(input'[i])
  BY DEF FlowHeld
<1>2. CASE k \in 1 .. n
  <2>1. \A i \in 1 .. k - 1 : i \in 1 .. n
    BY <1>1, <1>2
  <2>2. \A i \in 1 .. k - 1 : (Held(i)' <=> Held(i)) /\ input'[i] = input[i]
    BY <2>1, <1>1
  <2>3. input'[k] = input[k] /\ (Held(k)' <=> Held(k))
    BY <1>1, <1>2
  <2>4. Held(k) <=> /\ ~input[k].admin
                    /\ \/ input[k].order_id # None \/ input[k].cl_ord_id # None
                       \/ /\ input[k].orig # None
                          /\ \E i \in 1 .. k - 1 : Held(i) /\ input[k].orig \in IdsOf(input[i])
    BY <1>2 DEF FlowHeld
  <2> QED
    BY <2>2, <2>3, <2>4
<1>3. CASE k = n + 1
  <2>1. \A i \in 1 .. k - 1 : (Held(i)' <=> Held(i)) /\ input'[i] = input[i]
    BY <1>1, <1>3
  <2>2. k - 1 = n /\ input'[k] = m /\ (Held(k)' <=> ~Ignored(m))
    BY <1>1, <1>3
  <2> QED
    BY <2>1, <2>2, IgnoredMeans
<1> QED
  BY <1>1, <1>2, <1>3

LEMMA IdsNotedStep ==
  ASSUME IInv, IdsNoted, NEW m \in Messages, RecordMessage(m), ~Ignored(m),
         NEW key, key = ResolveKey(m), NEW r, NEW old, Taken(m, key, r, old)
  PROVE  IdsNoted'
<1>1. /\ DOMAIN aliases' = DOMAIN aliases \cup IdsOf(m)
      /\ \A id \in DOMAIN aliases : aliases'[id] = aliases[id]
      /\ \A id \in IdsOf(m) \ DOMAIN aliases : aliases'[id] = key
  BY DEF RecordMessage, NoteAliases
<1>2. /\ Merged(r, m) \in AllRecords' /\ Merged(r, m).key = key
      /\ EventOf(m, next_sequence) \in Merged(r, m).events
      /\ EventOf(m, next_sequence).fields = m
  BY MergedEvents DEF Taken
<1>3. ASSUME NEW id \in DOMAIN aliases'
      PROVE  \E p \in AllRecords' :
                p.key = aliases'[id] /\ \E e \in p.events : id \in IdsOf(e.fields)
  <2>1. CASE id \in DOMAIN aliases
    <3>1. PICK q \in AllRecords : q.key = aliases[id] /\ \E e \in q.events : id \in IdsOf(e.fields)
      BY <2>1 DEF IdsNoted
    <3>2. PICK p \in AllRecords' : p.key = q.key /\ q.events \subseteq p.events
      BY TakenStay
    <3> QED
      BY <3>1, <3>2, <2>1, <1>1
  <2>2. CASE id \notin DOMAIN aliases
    BY <2>2, <1>1, <1>2
  <2> QED
    BY <2>1, <2>2
<1>4. key \in DOMAIN aliases' /\ aliases'[key] = key
  <2>1. CASE \E id \in IdsOf(m) : id \in DOMAIN aliases /\ key = aliases[id]
    <3>1. PICK q \in AllRecords : q.key = key
      BY <2>1 DEF IdsNoted
    <3>2. key \in DOMAIN aliases /\ aliases[key] = key
      BY <3>1 DEF IdsNoted
    <3> QED
      BY <3>2, <1>1
  <2>2. CASE key \in IdsOf(m) \ DOMAIN aliases
    BY <2>2, <1>1
  <2> QED
    BY <2>1, <2>2, KeyFound
<1>5. ASSUME NEW p \in AllRecords'
      PROVE  p.key \in DOMAIN aliases' /\ aliases'[p.key] = p.key
  <2>1. CASE p = Merged(r, m)
    BY <2>1, <1>2, <1>4
  <2>2. CASE p \in AllRecords
    <3>1. p.key \in DOMAIN aliases /\ aliases[p.key] = p.key
      BY <2>2 DEF IdsNoted
    <3> QED
      BY <3>1, <1>1
  <2> QED
    BY <2>1, <2>2 DEF Taken
<1>6. ASSUME NEW p \in AllRecords', NEW e \in p.events
      PROVE  IdsOf(e.fields) \subseteq DOMAIN aliases'
  <2>1. CASE e = EventOf(m, next_sequence)
    BY <2>1, <1>1, <1>2
  <2>2. ASSUME NEW q \in AllRecords, e \in q.events
        PROVE  IdsOf(e.fields) \subseteq DOMAIN aliases'
    BY <2>2, <1>1 DEF IdsNoted
  <2> QED
    BY <2>1, <2>2, TakenFrom
<1> QED
  BY <1>3, <1>5, <1>6 DEF IdsNoted

LEMMA SharesStep ==
  ASSUME IInv, EventsAreInput, IdsNoted, SharesAnId,
         NEW m \in Messages, RecordMessage(m), ~Ignored(m),
         NEW key, key = ResolveKey(m), NEW r, NEW old, Taken(m, key, r, old)
  PROVE  SharesAnId'
<1>1. /\ next_sequence \in Nat /\ next_sequence = Len(input)
      /\ \A i \in 1 .. Len(input) : input'[i] = input[i]
      /\ input'[Len(input) + 1] = m
  BY InputGrows
<1>2. \A q \in AllRecords : \A e \in q.events :
        /\ e.sequence \in Nat /\ e.sequence < next_sequence
        /\ e.fields = input[e.sequence + 1] /\ input'[e.sequence + 1] = input[e.sequence + 1]
  <2> TAKE q \in AllRecords
  <2> TAKE e \in q.events
  <2>1. e.sequence \in Nat /\ e.sequence < next_sequence /\ e.fields = input[e.sequence + 1]
    BY AllRecordsTyped DEF EventsAreInput, Record, Event, IInv
  <2>2. e.sequence + 1 \in 1 .. Len(input)
    BY <2>1, <1>1
  <2> QED
    BY <2>1, <2>2, <1>1
<1>3. EventOf(m, next_sequence).sequence = next_sequence /\ r \in Record
  BY DEF EventOf, Taken
<1> DEFINE Joined(p, e) ==
             \/ \A f \in p.events : e.sequence <= f.sequence
             \/ \E q \in AllRecords' : q.key = p.key /\ \E f \in q.events :
                   /\ f.sequence < e.sequence
                   /\ IdsOf(input'[e.sequence + 1]) \cap IdsOf(input'[f.sequence + 1]) # {}
<1> SUFFICES ASSUME NEW p \in AllRecords', NEW e \in p.events PROVE Joined(p, e)
  BY DEF SharesAnId
<1>4. CASE p = Merged(r, m) /\ e = EventOf(m, next_sequence)
  <2>1. p.key = key /\ input'[e.sequence + 1] = m /\ e.sequence = next_sequence
    BY <1>1, <1>3, <1>4, MergedEvents DEF Taken
  <2>2. CASE \E id \in IdsOf(m) : id \in DOMAIN aliases /\ key = aliases[id]
    <3>1. PICK id \in IdsOf(m) : id \in DOMAIN aliases /\ key = aliases[id]
      BY <2>2
    <3>2. PICK q0 \in AllRecords : q0.key = key /\ \E f \in q0.events : id \in IdsOf(f.fields)
      BY <3>1 DEF IdsNoted
    <3>3. PICK f \in q0.events : id \in IdsOf(f.fields)
      BY <3>2
    <3>4. f.sequence < next_sequence /\ id \in IdsOf(input'[f.sequence + 1])
      BY <3>3, <1>2
    <3>5. PICK q \in AllRecords' : q.key = key /\ f \in q.events
      BY <3>2, <3>3, TakenStay
    <3> QED
      BY <3>1, <3>4, <3>5, <2>1
  <2>3. CASE key \in IdsOf(m) \ DOMAIN aliases
    <3>1. r.key = key /\ r \notin AllRecords
      BY <2>3 DEF IdsNoted, Taken
    <3>2. r.events = {}
      BY <3>1 DEF Taken, NewRecord
    <3>3. p.events = {e}
      BY <3>2, <1>3, <1>4, MergedEvents
    <3> QED
      BY <3>3, <2>1, <1>1
  <2> QED
    BY <2>2, <2>3, KeyFound
<1>5. ASSUME NEW q0 \in AllRecords, p.key = q0.key, e \in q0.events,
             p = q0 \/ (p = Merged(r, m) /\ q0 = r)
      PROVE  Joined(p, e)
  <2>1. CASE \A f \in q0.events : e.sequence <= f.sequence
    <3>1. p.events \subseteq q0.events \cup {EventOf(m, next_sequence)}
      BY <1>3, <1>5, MergedEvents
    <3>2. e.sequence <= next_sequence
      BY <1>1, <1>2, <1>5
    <3> QED
      BY <3>1, <3>2, <2>1, <1>3
  <2>2. CASE \E q \in AllRecords : q.key = q0.key /\ \E f \in q.events :
               /\ f.sequence < e.sequence
               /\ IdsOf(input[e.sequence + 1]) \cap IdsOf(input[f.sequence + 1]) # {}
    <3>1. PICK q \in AllRecords : q.key = q0.key /\ \E f \in q.events :
               /\ f.sequence < e.sequence
               /\ IdsOf(input[e.sequence + 1]) \cap IdsOf(input[f.sequence + 1]) # {}
      BY <2>2
    <3>2. PICK f \in q.events :
               /\ f.sequence < e.sequence
               /\ IdsOf(input[e.sequence + 1]) \cap IdsOf(input[f.sequence + 1]) # {}
      BY <3>1
    <3>3. IdsOf(input'[e.sequence + 1]) \cap IdsOf(input'[f.sequence + 1]) # {}
      BY <3>2, <1>2, <1>5
    <3>4. PICK q1 \in AllRecords' : q1.key = q.key /\ q.events \subseteq q1.events
      BY TakenStay
    <3> QED
      BY <3>1, <3>2, <3>3, <3>4, <1>5
  <2> QED
    BY <2>1, <2>2, <1>5 DEF SharesAnId
<1> HIDE DEF Joined
<1> QED
  BY <1>4, <1>5, TakenFrom

(* A message that counts is in one record from then on.                    *)
LEMMA CountedStep ==
  ASSUME FlowInv, NEW m \in Messages, RecordMessage(m), ~Ignored(m)
  PROVE  FlowInv'
<1>1. IInv' /\ IInv
  BY RecordStep DEF FlowInv
<1>2. PICK key : key = ResolveKey(m)
  OBVIOUS
<1>3. PICK r, old : Taken(m, key, r, old)
  BY <1>2, TakenBy DEF FlowInv
<1>4. /\ EventsAreInput' /\ HeldOnce' /\ IdsNoted' /\ SharesAnId' /\ PrintedApart'
  <2>1. EventsAreInput'
    BY <1>1, <1>3, EventsStep DEF FlowInv
  <2>2. HeldOnce'
    BY <1>1, <1>3, HeldOnceStep DEF FlowInv
  <2>3. IdsNoted'
    BY <1>1, <1>2, <1>3, IdsNotedStep DEF FlowInv
  <2>4. SharesAnId'
    BY <1>1, <1>2, <1>3, SharesStep DEF FlowInv
  <2>5. PrintedApart'
    BY <1>3 DEF Taken
  <2> QED
    BY <2>1, <2>2, <2>3, <2>4, <2>5
<1>5. next_sequence \in Nat /\ next_sequence = Len(input)
  BY <1>1, InputGrows DEF FlowInv
<1>6. ASSUME NEW i \in 1 .. Len(input) PROVE Held(i)' <=> Held(i)
  <2>1. ASSUME NEW p \in AllRecords', NEW e \in p.events, e.sequence = i - 1
        PROVE  Held(i)
    <3>1. e # EventOf(m, next_sequence)
      BY <2>1, <1>5 DEF EventOf
    <3>2. \E q \in AllRecords : e \in q.events
      BY <3>1, <1>1, <1>3, TakenFrom
    <3> QED
      BY <3>2, <2>1 DEF Held, Holds
  <2>2. ASSUME NEW q \in AllRecords, NEW e \in q.events, e.sequence = i - 1
        PROVE  \E p \in AllRecords' : \E f \in p.events : f.sequence = i - 1
    <3>1. \E p \in AllRecords' : p.key = q.key /\ q.events \subseteq p.events
      BY <1>1, <1>3, TakenStay
    <3> QED
      BY <3>1, <2>2
  <2> QED
    BY <2>1, <2>2 DEF Held, Holds
<1>7. ASSUME NEW i, i = Len(input) + 1 PROVE Held(i)'
  <2>1. /\ Merged(r, m) \in AllRecords' /\ EventOf(m, next_sequence) \in Merged(r, m).events
        /\ EventOf(m, next_sequence).sequence = i - 1
    BY <1>1, <1>3, <1>5, <1>7, MergedEvents DEF Taken
  <2> QED
    BY <2>1 DEF Held, Holds
<1>8. FlowHeld'
  BY <1>1, <1>6, <1>7, FlowHeldStep DEF FlowInv
<1> QED
  BY <1>1, <1>4, <1>8 DEF FlowInv

(* A message that does not count is in none.                               *)
LEMMA IgnoredStep ==
  ASSUME FlowInv, NEW m \in Messages, RecordMessage(m), Ignored(m)
  PROVE  FlowInv'
<1>1. IInv' /\ IInv
  BY RecordStep DEF FlowInv
<1>2. UNCHANGED <<orders, completed, printed, aliases>>
  BY DEF RecordMessage
<1>3. AllRecords' = AllRecords /\ PrintedApart'
  BY <1>2 DEF AllRecords, FlowInv, PrintedApart
<1>4. /\ next_sequence \in Nat /\ next_sequence = Len(input)
      /\ next_sequence' = next_sequence + 1 /\ Len(input') = Len(input) + 1
      /\ \A i \in 1 .. Len(input) : input'[i] = input[i]
  BY <1>1, InputGrows DEF FlowInv
<1>5. \A q \in AllRecords : \A e \in q.events :
        /\ e.sequence \in Nat /\ e.sequence < next_sequence
        /\ e.fields = input[e.sequence + 1] /\ input'[e.sequence + 1] = input[e.sequence + 1]
  <2> TAKE q \in AllRecords
  <2> TAKE e \in q.events
  <2>1. e.sequence \in Nat /\ e.sequence < next_sequence /\ e.fields = input[e.sequence + 1]
    BY <1>1, AllRecordsTyped DEF FlowInv, EventsAreInput, Record, Event, IInv
  <2>2. e.sequence + 1 \in 1 .. Len(input)
    BY <2>1, <1>4
  <2> QED
    BY <2>1, <2>2, <1>4
<1>6. EventsAreInput'
  BY <1>3, <1>4, <1>5 DEF EventsAreInput
<1>7. IdsNoted' /\ HeldOnce'
  BY <1>2, <1>3 DEF FlowInv, IdsNoted, HeldOnce
<1>8. SharesAnId'
  <2> SUFFICES ASSUME NEW p \in AllRecords, NEW e \in p.events
               PROVE  \/ \A f \in p.events : e.sequence <= f.sequence
                      \/ \E q \in AllRecords : q.key = p.key /\ \E f \in q.events :
                            /\ f.sequence < e.sequence
                            /\ IdsOf(input'[e.sequence + 1]) \cap IdsOf(input'[f.sequence + 1]) # {}
    BY <1>3 DEF SharesAnId
  <2>1. input'[e.sequence + 1] = input[e.sequence + 1]
    BY <1>5
  <2>2. \/ \A f \in p.events : e.sequence <= f.sequence
        \/ \E q \in AllRecords : q.key = p.key /\ \E f \in q.events :
              /\ f.sequence < e.sequence
              /\ IdsOf(input[e.sequence + 1]) \cap IdsOf(input[f.sequence + 1]) # {}
    BY DEF FlowInv, SharesAnId
  <2> QED
    BY <2>1, <2>2, <1>5
<1>9. \A i : Held(i)' <=> Held(i)
  BY <1>3 DEF Held
<1>10. ASSUME NEW i, i = Len(input) + 1 PROVE ~Held(i)
  BY <1>4, <1>5, <1>10 DEF Held, Holds
<1>11. FlowHeld'
  BY <1>1, <1>9, <1>10, FlowHeldStep DEF FlowInv
<1> QED
  BY <1>1, <1>3, <1>6, <1>7, <1>8, <1>11 DEF FlowInv

(* The end of a line moves records from the completed to the printed ones. *)
LEMMA LineRecords ==
  ASSUME FlowInv, EndLine
  PROVE  AllRecords' = AllRecords /\ PrintedApart'
<1>1. UNCHANGED orders
  BY DEF EndLine
<1>2. CASE follow
  <2>1. printed' = printed \o completed /\ completed' = <<>>
    BY <1>2 DEF EndLine
  <2>2. /\ printed \in Seq(Record) /\ completed \in Seq(Record)
        /\ Len(printed) \in Nat /\ Len(completed) \in Nat
        /\ DOMAIN printed = 1 .. Len(printed) /\ DOMAIN completed = 1 .. Len(completed)
    BY LenProperties DEF FlowInv, IInv, TypeOK
  <2>3. /\ DOMAIN printed' = 1 .. Len(printed) + Len(completed)
        /\ \A i \in DOMAIN printed' :
              printed'[i] = IF i <= Len(printed) THEN printed[i] ELSE completed[i - Len(printed)]
    BY <2>1, <2>2, ConcatProperties, LenProperties
  <2>4. Range(printed') = Range(printed) \cup Range(completed)
    <3>1. ASSUME NEW i \in DOMAIN printed
          PROVE  i \in DOMAIN printed' /\ printed'[i] = printed[i]
      BY <2>2, <2>3
    <3>2. ASSUME NEW i \in DOMAIN completed
          PROVE  /\ i + Len(printed) \in DOMAIN printed'
                 /\ printed'[i + Len(printed)] = completed[i]
      BY <2>2, <2>3
    <3>3. ASSUME NEW i \in DOMAIN printed'
          PROVE  printed'[i] \in Range(printed) \cup Range(completed)
      <4>1. CASE i <= Len(printed)
        BY <4>1, <2>2, <2>3 DEF Range
      <4>2. CASE ~(i <= Len(printed))
        <5>1. i - Len(printed) \in DOMAIN completed
          BY <4>2, <2>2, <2>3
        <5> QED
          BY <5>1, <4>2, <2>3 DEF Range
      <4> QED
        BY <4>1, <4>2
    <3> QED
      BY <3>1, <3>2, <3>3 DEF Range
  <2>5. Range(completed') = {}
    BY <2>1 DEF Range
  <2>6. \A q \in Range(printed) \cup Range(completed) : IsTerminal(q)
    BY DEF FlowInv, PrintedApart, IInv, KeptOnce, Range
  <2>7. PrintedApart'
    BY <2>1, <2>4, <2>6 DEF PrintedApart, Range
  <2> QED
    BY <2>4, <2>5, <2>7, <1>1 DEF AllRecords, Range
<1>3. CASE ~follow
  BY <1>1, <1>3 DEF EndLine, AllRecords, FlowInv, PrintedApart
<1> QED
  BY <1>2, <1>3

LEMMA LineStep ==
  ASSUME FlowInv, EndLine
  PROVE  FlowInv'
<1>1. IInv' /\ IInv
  BY EndLineStep DEF FlowInv
<1>2. UNCHANGED <<orders, aliases, input, next_sequence>>
  BY DEF EndLine
<1>3. AllRecords' = AllRecords /\ PrintedApart'
  BY LineRecords
<1>4. EventsAreInput' /\ IdsNoted' /\ HeldOnce' /\ SharesAnId'
  <2>1. EventsAreInput' /\ HeldOnce'
    BY <1>2, <1>3 DEF FlowInv, EventsAreInput, HeldOnce
  <2>2. IdsNoted'
    BY <1>2, <1>3 DEF FlowInv, IdsNoted
  <2>3. SharesAnId'
    BY <1>2, <1>3 DEF FlowInv, SharesAnId
  <2> QED
    BY <2>1, <2>2, <2>3
<1>5. \A i : Held(i)' <=> Held(i)
  BY <1>3 DEF Held
<1>6. FlowHeld'
  BY <1>2, <1>5 DEF FlowInv, FlowHeld
<1> QED
  BY <1>1, <1>3, <1>4, <1>6 DEF FlowInv

LEMMA FlowInvStep == FlowInv /\ [Next]_vars => FlowInv'
<1> SUFFICES ASSUME FlowInv, [Next]_vars PROVE FlowInv'
  OBVIOUS
<1>1. CASE UNCHANGED vars
  <2>1. AllRecords' = AllRecords /\ UNCHANGED <<aliases, input, next_sequence, completed, printed>>
    BY <1>1 DEF vars, AllRecords
  <2>2. \A i : Held(i)' <=> Held(i)
    BY <2>1 DEF Held
  <2>3. IInv'
    BY InvStep DEF FlowInv
  <2>4. EventsAreInput' /\ IdsNoted' /\ HeldOnce' /\ SharesAnId'
    BY <2>1 DEF FlowInv, EventsAreInput, IdsNoted, HeldOnce, SharesAnId
  <2>5. FlowHeld'
    BY <2>1, <2>2 DEF FlowInv, FlowHeld
  <2>6. PrintedApart'
    BY <2>1 DEF FlowInv, PrintedApart
  <2> QED
    BY <2>3, <2>4, <2>5, <2>6 DEF FlowInv
<1>2. ASSUME NEW m \in Messages, RecordMessage(m) PROVE FlowInv'
  BY <1>2, CountedStep, IgnoredStep
<1>3. CASE EndLine
  BY <1>3, LineStep
<1> QED
  BY <1>1, <1>2, <1>3 DEF Next

LEMMA FlowInvInit == Init => FlowInv
<1> SUFFICES ASSUME Init PROVE FlowInv
  OBVIOUS
<1>1. AllRecords = {}
  BY DEF Init, AllRecords
<1>2. /\ next_sequence = Len(input) /\ 1 .. Len(input) = {}
      /\ DOMAIN printed = {} /\ DOMAIN aliases = {}
  BY DEF Init
<1>3. EventsAreInput /\ IdsNoted /\ HeldOnce /\ SharesAnId
  BY <1>1, <1>2 DEF EventsAreInput, IdsNoted, HeldOnce, SharesAnId
<1>4. FlowHeld /\ PrintedApart
  BY <1>2 DEF FlowHeld, PrintedApart
<1> QED
  BY <1>3, <1>4, InitInv DEF FlowInv

(* Two orders are never mixed: a message that joins a record shares an     *)
(* identifier with one that came before it, for any log.                   *)
THEOREM OrdersNeverMix == Spec => []SharesAnId
<1>1. FlowInv => SharesAnId
  BY DEF FlowInv
<1> QED
  BY <1>1, FlowInvInit, FlowInvStep, PTL DEF Spec

-----------------------------------------------------------------------------
(* OrderFlow, defined by recursion over the log, is the set of the messages*)
(* that are held: both follow the same rule, message by message.           *)
WithNext(n, flow) ==
    LET m == input[n]
    IN  IF /\ ~m.admin
           /\ \/ m.order_id # None \/ m.cl_ord_id # None
              \/ m.orig # None /\ \E i \in flow : m.orig \in IdsOf(input[i])
        THEN flow \cup {n} ELSE flow
FlowRule(f) == [n \in 0 .. Len(input) |-> IF n = 0 THEN {} ELSE WithNext(n, f[n - 1])]
HeldUpTo(n) == {i \in 1 .. n : Held(i)}

LEMMA FlowIsHeld ==
  ASSUME IInv, FlowHeld
  PROVE  OrderFlow[Len(input)] = HeldUpTo(Len(input))
<1> DEFINE N == Len(input)
           held == [n \in 0 .. N |-> HeldUpTo(n)]
<1>1. N \in Nat
  BY LenProperties DEF IInv, TypeOK
<1>2. ASSUME NEW n \in 1 .. N
      PROVE  HeldUpTo(n) = WithNext(n, HeldUpTo(n - 1))
  <2>1. Held(n) <=> /\ ~input[n].admin
                    /\ \/ input[n].order_id # None \/ input[n].cl_ord_id # None
                       \/ /\ input[n].orig # None
                          /\ \E i \in HeldUpTo(n - 1) : input[n].orig \in IdsOf(input[i])
    BY DEF FlowHeld, HeldUpTo
  <2>2. 1 .. n = (1 .. n - 1) \cup {n}
    BY <1>1
  <2>3. HeldUpTo(n) = IF Held(n) THEN HeldUpTo(n - 1) \cup {n} ELSE HeldUpTo(n - 1)
    BY <2>2 DEF HeldUpTo
  <2> QED
    BY <2>1, <2>3 DEF WithNext
<1>3. HeldUpTo(0) = {}
  BY DEF HeldUpTo
<1>4. held = FlowRule(held)
  <2>1. ASSUME NEW n \in 0 .. N PROVE held[n] = FlowRule(held)[n]
    <3>1. CASE n = 0
      BY <3>1, <1>1, <1>3 DEF FlowRule
    <3>2. CASE n # 0
      <4>1. n \in 1 .. N /\ n - 1 \in 0 .. N
        BY <3>2, <1>1
      <4>2. held[n] = HeldUpTo(n) /\ held[n - 1] = HeldUpTo(n - 1)
        BY <4>1
      <4> HIDE DEF held
      <4> QED
        BY <3>2, <4>1, <4>2, <1>2 DEF FlowRule
    <3> QED
      BY <3>1, <3>2
  <2> QED
    BY <2>1 DEF FlowRule
<1>5. OrderFlow = CHOOSE f : f = FlowRule(f)
  BY DEF OrderFlow, FlowRule, WithNext
<1> HIDE DEF held
<1>6. OrderFlow = FlowRule(OrderFlow)
  BY <1>4, <1>5
<1>7. ASSUME NEW n \in 0 .. N
      PROVE  OrderFlow[n] = IF n = 0 THEN {} ELSE WithNext(n, OrderFlow[n - 1])
  <2>1. OrderFlow[n] = FlowRule(OrderFlow)[n]
    BY <1>6
  <2> QED
    BY <2>1 DEF FlowRule
<1> DEFINE Same == {n \in Nat : n <= N => OrderFlow[n] = HeldUpTo(n)}
<1>8. 0 \in Same
  <2>1. 0 \in 0 .. N
    BY <1>1
  <2>2. OrderFlow[0] = {}
    BY <2>1, <1>7
  <2> QED
    BY <2>2, <1>3
<1>9. ASSUME NEW n \in Nat, n \in Same PROVE n + 1 \in Same
  <2> SUFFICES ASSUME n + 1 <= N PROVE OrderFlow[n + 1] = HeldUpTo(n + 1)
    OBVIOUS
  <2>1. n + 1 \in 1 .. N /\ n + 1 \in 0 .. N /\ n + 1 # 0 /\ (n + 1) - 1 = n
    BY <1>1
  <2>2. OrderFlow[n] = HeldUpTo(n)
    BY <2>1, <1>1, <1>9
  <2> QED
    BY <2>1, <2>2, <1>2, <1>7
<1> HIDE DEF Same
<1>10. \A n \in Nat : n \in Same
  BY <1>8, <1>9, UpwardInduction
<1> QED
  BY <1>1, <1>10 DEF Same

LEMMA HeldMeansOnce == FlowInv => EveryMessageOnce
<1> SUFFICES ASSUME FlowInv, NEW n \in 1 .. Len(input)
             PROVE  Cardinality({r \in AllRecords : Holds(r, n - 1)}) =
                      IF n \in OrderFlow[Len(input)] THEN 1 ELSE 0
  BY DEF EveryMessageOnce
<1>1. OrderFlow[Len(input)] = HeldUpTo(Len(input))
  BY FlowIsHeld DEF FlowInv
<1>2. CASE Held(n)
  <2>1. PICK r \in AllRecords : Holds(r, n - 1)
    BY <1>2 DEF Held
  <2>2. n - 1 \in Nat
    OBVIOUS
  <2>3. {q \in AllRecords : Holds(q, n - 1)} = {r}
    BY <2>1, <2>2 DEF FlowInv, HeldOnce
  <2> QED
    BY <2>3, <1>1, <1>2, FS_Singleton DEF HeldUpTo
<1>3. CASE ~Held(n)
  <2>1. {q \in AllRecords : Holds(q, n - 1)} = {}
    BY <1>3 DEF Held
  <2> QED
    BY <2>1, <1>1, <1>3, FS_EmptySet DEF HeldUpTo
<1> QED
  BY <1>2, <1>3

(* Every message of an order flow is in the timeline of exactly one record,*)
(* and no other message is in any, for any log, whatever ends an order and *)
(* whenever lines end.                                                     *)
THEOREM MessagesCountOnce == Spec => []EveryMessageOnce
  BY HeldMeansOnce, FlowInvInit, FlowInvStep, PTL DEF Spec

-----------------------------------------------------------------------------
(* A log that is not followed is never printed from, so that nothing is    *)
(* left of it once the pager has taken over.                               *)
PagerInv == FlowInv /\ (~follow => printed = <<>>)

LEMMA PagerInitInv == PagerInit => PagerInv
  BY FlowInvInit DEF PagerInit, PagerInv, Init

LEMMA OpenStep ==
  ASSUME PagerInv, OpenPager
  PROVE  PagerInv'
<1>1. /\ DOMAIN orders' = {} /\ DOMAIN aliases' = {}
      /\ completed' = <<>> /\ message_log' = <<>> /\ input' = <<>> /\ printed' = <<>>
      /\ total_orders' = 0 /\ terminal_orders' = 0 /\ next_sequence' = 0
      /\ follow' = follow /\ unknown_counter' = unknown_counter /\ in_line' = in_line
  BY DEF OpenPager, PagerInv
<1>2. TypeOK'
  BY <1>1, EmptySeq DEF PagerInv, FlowInv, IInv, TypeOK
<1>3. IsFiniteSet(DOMAIN orders') /\ Cardinality(DOMAIN orders') = 0
  BY <1>1, FS_EmptySet
<1>4. StatusAddsUp'
  <2>1. Len(completed') = 0 /\ Len(printed') = 0
    BY <1>1, EmptySeq
  <2> QED
    BY <2>1, <1>1, <1>3 DEF StatusAddsUp
<1>5. KeptOnce'
  BY <1>1 DEF KeptOnce, CompletedAt
<1>6. AllRecords' = {} /\ next_sequence' = Len(input') /\ 1 .. Len(input') = {}
  BY <1>1, EmptySeq DEF AllRecords
<1>7. EventsAreInput' /\ IdsNoted' /\ HeldOnce' /\ SharesAnId'
  BY <1>1, <1>6 DEF EventsAreInput, IdsNoted, HeldOnce, SharesAnId
<1>8. FlowHeld' /\ PrintedApart'
  BY <1>1, <1>6 DEF FlowHeld, PrintedApart
<1> QED
  BY <1>1, <1>2, <1>3, <1>4, <1>5, <1>7, <1>8 DEF PagerInv, FlowInv, IInv

LEMMA PagerStep == PagerInv /\ [PagerNext]_allVars => PagerInv'
<1> SUFFICES ASSUME PagerInv, [PagerNext]_allVars PROVE PagerInv'
  OBVIOUS
<1>1. CASE UNCHANGED vars
  <2>1. FlowInv'
    BY <1>1, FlowInvStep DEF PagerInv
  <2> QED
    BY <1>1, <2>1 DEF PagerInv, vars
<1>2. CASE Tracking
  <2>1. FlowInv'
    BY <1>2, FlowInvStep DEF PagerInv, Tracking
  <2>2. ~follow' => printed' = <<>>
    <3>1. follow' = follow
      BY <1>2 DEF Tracking, Next, RecordMessage, EndLine
    <3>2. ~follow => printed' = printed
      BY <1>2 DEF Tracking, Next, RecordMessage, EndLine
    <3> QED
      BY <3>1, <3>2 DEF PagerInv
  <2> QED
    BY <2>1, <2>2 DEF PagerInv
<1>3. CASE OpenPager
  BY <1>3, OpenStep
<1>4. CASE Render \/ HandleKey \/ OtherEvent \/ ResizeTerminal
  <2>1. UNCHANGED vars
    BY <1>4 DEF Render, HandleKey, OtherEvent, ResizeTerminal, Up, Down, Left, Right, PageUp,
                PageDown, Home, End, Quit, Scroll
  <2> QED
    BY <2>1, <1>1
<1> QED
  BY <1>1, <1>2, <1>3, <1>4 DEF PagerNext, allVars

(* An order is kept once, every message of an order flow is in one record, *)
(* no two orders mix, and the footer's numbers add up, from the first      *)
(* message of any log to the pager's end.                                  *)
THEOREM SummaryIsSound ==
  PagerSpec => [](TypeOK /\ KeptOnce /\ StatusAddsUp /\ EveryMessageOnce /\ SharesAnId)
<1>1. PagerInv => TypeOK /\ KeptOnce /\ StatusAddsUp /\ EveryMessageOnce /\ SharesAnId
  BY HeldMeansOnce DEF PagerInv, FlowInv, IInv
<1> QED
  BY <1>1, PagerInitInv, PagerStep, PTL DEF PagerSpec

-----------------------------------------------------------------------------
(* FoldLeft folds from the first element on, that is, it takes out the     *)
(* element of the greatest index last; the library states it as a function *)
(* on the sets of indices that follows a rule.  This is what such a        *)
(* function makes of a sum, however it writes the addition.                *)
AddsLast(g, f, n) ==
    /\ g[{}] = 0
    /\ \A T \in SUBSET (1 .. n) :
          T # {} /\ g[T \ {Max(T)}] \in Nat => g[T] = g[T \ {Max(T)}] + f[Max(T)]

LEMMA MaxOfPart ==
  ASSUME NEW n \in Nat, NEW T \in SUBSET (1 .. n), T # {}
  PROVE  Max(T) \in T /\ \A x \in T : x <= Max(T)
<1>1. T \subseteq 0 .. n
  OBVIOUS
<1> QED
  BY <1>1, MaxIs

LEMMA AddsLastIsSum ==
  ASSUME NEW n \in Nat, NEW f, \A x \in 1 .. n : f[x] \in Nat, NEW g, AddsLast(g, f, n)
  PROVE  g[1 .. n] = SumFunctionOnSet(f, 1 .. n)
<1> DEFINE D == 1 .. n
           C == {T \in SUBSET D : g[T] = SumFunctionOnSet(f, T)}
<1>1. IsFiniteSet(D)
  BY FS_Interval
<1>2. \A T \in SUBSET D : IsFiniteSet(T)
  BY <1>1, FS_Subset
<1>3. {} \in C
  BY <1>2, SumOverSet DEF AddsLast
<1>4. ASSUME NEW T \in SUBSET D, T # {}, \A x \in T : T \ {x} \in C PROVE T \in C
  <2>1. PICK x \in T : x = Max(T)
    BY <1>4, MaxOfPart
  <2>2. g[T \ {x}] = SumFunctionOnSet(f, T \ {x})
    BY <1>4
  <2>3. SumFunctionOnSet(f, T \ {x}) \in Nat
    BY <1>2, SumOverSet
  <2>4. SumFunctionOnSet(f, T) = f[x] + SumFunctionOnSet(f, T \ {x})
    BY <1>2, SumOverSet
  <2>5. g[T] = g[T \ {x}] + f[x]
    BY <1>4, <2>1, <2>2, <2>3 DEF AddsLast
  <2>6. f[x] \in Nat
    OBVIOUS
  <2> QED
    BY <2>2, <2>3, <2>4, <2>5, <2>6
<1> HIDE DEF C, D
<1>5. \A T \in SUBSET D : T \in C
  BY <1>1, <1>3, <1>4, FiniteInduction
<1> QED
  BY <1>5 DEF C, D

(* There is one.                                                           *)
LEMMA AddsLastExists ==
  ASSUME NEW n \in Nat, NEW f, \A x \in 1 .. n : f[x] \in Nat
  PROVE  \E g \in [SUBSET (1 .. n) -> Nat] :
            \A T \in SUBSET (1 .. n) :
               g[T] = IF T = {} THEN 0 ELSE g[T \ {Max(T)}] + f[Max(T)]
<1> DEFINE D == 1 .. n
<1>1. IsFiniteSet(D)
  BY FS_Interval
<1>2. PICK g : Sums(f, D, g)
  BY <1>1, SumExists
<1>3. g \in [SUBSET D -> Nat] /\ g[{}] = 0
  BY <1>2 DEF Sums, SumRule
<1>4. ASSUME NEW T \in SUBSET D, T # {} PROVE g[T] = g[T \ {Max(T)}] + f[Max(T)]
  <2>1. PICK x \in T : x = Max(T)
    BY <1>4, MaxOfPart
  <2>2. g[T] = f[x] + g[T \ {x}]
    <3>1. TakesOut(f, D, g)
      BY <1>1, <1>2, SumTakesOut
    <3> QED
      BY <3>1 DEF TakesOut
  <2>3. f[x] \in Nat /\ g[T \ {x}] \in Nat
    BY <1>3
  <2> QED
    BY <2>1, <2>2, <2>3
<1> QED
  BY <1>3, <1>4

LineRule(s, g) == [T \in SUBSET DOMAIN s |->
                     IF T = {} THEN 0 ELSE LET x == Max(T) IN g[T \ {x}] + s[x].lines + 1]

LEMMA LinesFold ==
  ASSUME NEW n \in Nat, NEW s, DOMAIN s = 1 .. n, \A x \in 1 .. n : s[x].lines \in Nat,
         NEW f, \A x \in 1 .. n : f[x] = s[x].lines + 1
  PROVE  FoldLeft(LAMBDA k, l : k + l.lines + 1, 0, s) = SumFunctionOnSet(f, 1 .. n)
<1>1. FoldLeft(LAMBDA k, l : k + l.lines + 1, 0, s) = (CHOOSE g : g = LineRule(s, g))[1 .. n]
  BY DEF FoldLeft, MapThenFoldSet, LineRule
<1>2. \A x \in 1 .. n : f[x] \in Nat
  OBVIOUS
<1>3. PICK h \in [SUBSET (1 .. n) -> Nat] :
            \A T \in SUBSET (1 .. n) :
               h[T] = IF T = {} THEN 0 ELSE h[T \ {Max(T)}] + f[Max(T)]
  BY <1>2, AddsLastExists
<1>4. h = LineRule(s, h)
  <2>1. ASSUME NEW T \in SUBSET (1 .. n), T # {}
        PROVE  h[T] = h[T \ {Max(T)}] + s[Max(T)].lines + 1
    <3>1. PICK x \in T : x = Max(T)
      BY <2>1, MaxOfPart
    <3>2. h[T \ {x}] \in Nat /\ s[x].lines \in Nat /\ f[x] = s[x].lines + 1
      OBVIOUS
    <3>3. h[T] = h[T \ {x}] + f[x]
      BY <1>3, <2>1, <3>1
    <3>4. h[T] = h[T \ {x}] + s[x].lines + 1
      BY <3>2, <3>3
    <3> QED
      BY <3>1, <3>4
  <2>2. h[{}] = 0
    BY <1>3
  <2> QED
    BY <2>1, <2>2 DEF LineRule
<1>5. PICK g : /\ g = LineRule(s, g)
               /\ FoldLeft(LAMBDA k, l : k + l.lines + 1, 0, s) = g[1 .. n]
  BY <1>1, <1>4
<1>6. AddsLast(g, f, n)
  <2>1. \A T \in SUBSET (1 .. n) :
           g[T] = IF T = {} THEN 0 ELSE g[T \ {Max(T)}] + s[Max(T)].lines + 1
    BY <1>5 DEF LineRule
  <2>2. ASSUME NEW T \in SUBSET (1 .. n), T # {}, g[T \ {Max(T)}] \in Nat
        PROVE  g[T] = g[T \ {Max(T)}] + f[Max(T)]
    <3>1. PICK x \in T : x = Max(T)
      BY <2>2, MaxOfPart
    <3>2. s[x].lines \in Nat /\ f[x] = s[x].lines + 1
      OBVIOUS
    <3>3. g[T] = g[T \ {x}] + s[x].lines + 1 /\ g[T \ {x}] \in Nat
      BY <2>1, <2>2, <3>1
    <3>4. g[T] = g[T \ {x}] + f[x]
      BY <3>2, <3>3
    <3> QED
      BY <3>1, <3>4
  <2> QED
    BY <2>1, <2>2 DEF AddsLast
<1> QED
  BY <1>2, <1>5, <1>6, AddsLastIsSum

SumLeftRule(s, g) == [T \in SUBSET DOMAIN s |->
                        IF T = {} THEN 0 ELSE LET x == Max(T) IN g[T \ {x}] + s[x]]

LEMMA PlusFold ==
  ASSUME NEW n \in Nat, NEW s, DOMAIN s = 1 .. n, \A x \in 1 .. n : s[x] \in Nat
  PROVE  FoldLeft(Plus, 0, s) = SumFunctionOnSet(s, 1 .. n)
<1>1. FoldLeft(Plus, 0, s) = (CHOOSE g : g = SumLeftRule(s, g))[1 .. n]
  BY DEF FoldLeft, MapThenFoldSet, SumLeftRule, Plus
<1>2. PICK h \in [SUBSET (1 .. n) -> Nat] :
            \A T \in SUBSET (1 .. n) :
               h[T] = IF T = {} THEN 0 ELSE h[T \ {Max(T)}] + s[Max(T)]
  BY AddsLastExists
<1>3. h = SumLeftRule(s, h)
  BY <1>2 DEF SumLeftRule
<1>4. PICK g : g = SumLeftRule(s, g) /\ FoldLeft(Plus, 0, s) = g[1 .. n]
  BY <1>1, <1>3
<1>5. AddsLast(g, s, n)
  BY <1>4 DEF SumLeftRule, AddsLast
<1> QED
  BY <1>4, <1>5, AddsLastIsSum

-----------------------------------------------------------------------------
(* Where the sections begin.                                               *)
SectionsTyped == sections \in Seq([lines : Nat \ {0}, terminal : BOOLEAN, counted : Nat])
LinesWithBlank == [i \in DOMAIN sections |-> sections[i].lines + 1]

LEMMA SectionsAre ==
  ASSUME SectionsTyped
  PROVE  /\ Len(sections) \in Nat /\ DOMAIN sections = 1 .. Len(sections)
         /\ \A i \in 1 .. Len(sections) : sections[i].lines \in Nat \ {0}
         /\ sections = <<>> <=> Len(sections) = 0
         /\ Last(sections) = sections[Len(sections)]
<1>1. /\ Len(sections) \in Nat /\ DOMAIN sections = 1 .. Len(sections)
      /\ \A i \in 1 .. Len(sections) :
            sections[i] \in [lines : Nat \ {0}, terminal : BOOLEAN, counted : Nat]
  BY LenProperties, ElementOfSeq DEF SectionsTyped
<1>2. sections = <<>> <=> Len(sections) = 0
  BY EmptySeq DEF SectionsTyped
<1> QED
  BY <1>1, <1>2 DEF Last

LEMMA StartIsSum ==
  ASSUME SectionsTyped, NEW i \in 1 .. Len(sections)
  PROVE  /\ DetailStart(i) = SumFunctionOnSet(LinesWithBlank, 1 .. i - 1)
         /\ FoldLeft(Plus, 0, [j \in 1 .. i - 1 |-> sections[j].lines + 1]) =
               SumFunctionOnSet(LinesWithBlank, 1 .. i - 1)
         /\ FoldLeft(Plus, 0, [j \in 1 .. i |-> sections[j].lines + 1]) =
               SumFunctionOnSet(LinesWithBlank, 1 .. i)
<1> DEFINE S == [lines : Nat \ {0}, terminal : BOOLEAN, counted : Nat]
           s == SubSeq(sections, 1, i - 1)
<1>1. /\ Len(sections) \in Nat /\ DOMAIN sections = 1 .. Len(sections)
      /\ \A j \in 1 .. Len(sections) : sections[j].lines \in Nat \ {0}
      /\ \A j \in 1 .. Len(sections) : LinesWithBlank[j] = sections[j].lines + 1
  BY SectionsAre DEF LinesWithBlank
<1>2. /\ s \in Seq(S) /\ Len(s) = i - 1 /\ DOMAIN s = 1 .. i - 1
      /\ \A j \in 1 .. i - 1 : s[j] = sections[j]
  <2>1. sections \in Seq(S) /\ \A j \in 1 .. i - 1 : sections[j] \in S
    <3>1. sections \in Seq(S)
      BY DEF SectionsTyped
    <3> HIDE DEF S
    <3>2. \A j \in 1 .. Len(sections) : sections[j] \in S
      BY <3>1, ElementOfSeq
    <3>3. 1 .. i - 1 \subseteq 1 .. Len(sections)
      BY <1>1
    <3> QED
      BY <3>1, <3>2, <3>3
  <2>2. 1 \in Int /\ i - 1 \in Int
    BY <1>1
  <2> HIDE DEF s, S
  <2>3. /\ s \in Seq(S)
        /\ Len(s) = IF 1 <= i - 1 THEN (i - 1) - 1 + 1 ELSE 0
        /\ \A j \in 1 .. (i - 1) - 1 + 1 : s[j] = sections[1 + j - 1]
    BY <2>1, <2>2, SubSeqProperties DEF s
  <2>4. Len(s) = i - 1
    BY <2>3, <1>1
  <2>5. DOMAIN s = 1 .. i - 1
    BY <2>3, <2>4, LenProperties
  <2>6. \A j \in 1 .. i - 1 : s[j] = sections[j]
    BY <2>3, <1>1
  <2> QED
    BY <2>3, <2>4, <2>5, <2>6
<1> HIDE DEF s, S
<1>3. DetailStart(i) = SumFunctionOnSet(LinesWithBlank, 1 .. i - 1)
  <2>1. PICK n \in Nat : n = i - 1
    BY <1>1
  <2>2. DOMAIN s = 1 .. n
    BY <2>1, <1>2
  <2>3. \A x \in 1 .. n : s[x].lines \in Nat /\ LinesWithBlank[x] = s[x].lines + 1
    BY <2>1, <1>1, <1>2
  <2>4. FoldLeft(LAMBDA k, l : k + l.lines + 1, 0, s) =
           SumFunctionOnSet(LinesWithBlank, 1 .. n)
    BY <2>2, <2>3, LinesFold
  <2> QED
    BY <2>1, <2>4 DEF DetailStart, s
<1>4. ASSUME NEW n \in 0 .. Len(sections)
      PROVE  FoldLeft(Plus, 0, [j \in 1 .. n |-> sections[j].lines + 1]) =
               SumFunctionOnSet(LinesWithBlank, 1 .. n)
  <2>1. PICK f : f = [j \in 1 .. n |-> sections[j].lines + 1]
    OBVIOUS
  <2>2. n \in Nat /\ 1 .. n \subseteq 1 .. Len(sections)
    BY <1>1
  <2>3. DOMAIN f = 1 .. n /\ \A j \in 1 .. n : f[j] \in Nat /\ f[j] = LinesWithBlank[j]
    BY <2>1, <2>2, <1>1
  <2>4. FoldLeft(Plus, 0, f) = SumFunctionOnSet(f, 1 .. n)
    BY <2>2, <2>3, PlusFold
  <2>5. SumFunctionOnSet(f, 1 .. n) = SumFunctionOnSet(LinesWithBlank, 1 .. n)
    <3>1. IsFiniteSet(1 .. n)
      BY <2>2, FS_Interval
    <3> QED
      BY <2>3, <3>1, SumOfAgreeing
  <2> QED
    BY <2>1, <2>4, <2>5
<1>5. i \in 0 .. Len(sections) /\ i - 1 \in 0 .. Len(sections)
  BY <1>1
<1> QED
  BY <1>3, <1>4, <1>5

LEMMA StartsAre ==
  ASSUME SectionsTyped, NEW i \in 1 .. Len(sections)
  PROVE  /\ DetailStart(i) \in Nat /\ DetailStart(1) = 0
         /\ i + 1 <= Len(sections) => DetailStart(i + 1) = DetailStart(i) + sections[i].lines + 1
         /\ FoldLeft(Plus, 0, [j \in 1 .. i - 1 |-> sections[j].lines + 1]) = DetailStart(i)
         /\ FoldLeft(Plus, 0, [j \in 1 .. i |-> sections[j].lines + 1]) =
               DetailStart(i) + sections[i].lines + 1
<1> DEFINE B(n) == SumFunctionOnSet(LinesWithBlank, 1 .. n)
<1>1. /\ Len(sections) \in Nat /\ DOMAIN sections = 1 .. Len(sections)
      /\ \A j \in 1 .. Len(sections) : sections[j].lines \in Nat \ {0}
      /\ \A j \in 1 .. Len(sections) : LinesWithBlank[j] = sections[j].lines + 1
  BY SectionsAre DEF LinesWithBlank
<1>2. ASSUME NEW n \in 0 .. Len(sections)
      PROVE  B(n) \in Nat /\ (n = 0 => B(n) = 0) /\ (n > 0 => B(n) = LinesWithBlank[n] + B(n - 1))
  <2>1. IsFiniteSet(1 .. n) /\ \A x \in 1 .. n : LinesWithBlank[x] \in Nat
    <3>1. n \in Int /\ 1 .. n \subseteq 1 .. Len(sections)
      BY <1>1
    <3>2. IsFiniteSet(1 .. n)
      BY <3>1, FS_Interval
    <3> QED
      BY <3>1, <3>2, <1>1
  <2>2. /\ B(n) \in Nat /\ (1 .. n = {} => B(n) = 0)
        /\ \A x \in 1 .. n :
              B(n) = LinesWithBlank[x] + SumFunctionOnSet(LinesWithBlank, (1 .. n) \ {x})
    BY <2>1, SumOverSet
  <2>3. n = 0 => 1 .. n = {}
    OBVIOUS
  <2>4. n > 0 => n \in 1 .. n /\ (1 .. n) \ {n} = 1 .. n - 1
    OBVIOUS
  <2> QED
    BY <2>2, <2>3, <2>4
<1>3. \A j \in 1 .. Len(sections) : DetailStart(j) = B(j - 1)
  BY StartIsSum
<1>4. FoldLeft(Plus, 0, [j \in 1 .. i - 1 |-> sections[j].lines + 1]) = DetailStart(i)
  BY StartIsSum
<1>5. FoldLeft(Plus, 0, [j \in 1 .. i |-> sections[j].lines + 1]) = B(i)
  BY StartIsSum
<1> HIDE DEF B
<1>6. i \in 0 .. Len(sections) /\ i - 1 \in 0 .. Len(sections) /\ 1 \in 1 .. Len(sections)
  BY <1>1
<1>7. B(i) = B(i - 1) + sections[i].lines + 1 /\ B(i - 1) \in Nat /\ B(0) = 0
  BY <1>1, <1>2, <1>6
<1>8. i + 1 <= Len(sections) => i + 1 \in 1 .. Len(sections) /\ (i + 1) - 1 = i
  BY <1>1
<1>9. DetailStart(i) \in Nat /\ DetailStart(1) = 0
  BY <1>3, <1>6, <1>7
<1>10. i + 1 <= Len(sections) => DetailStart(i + 1) = DetailStart(i) + sections[i].lines + 1
  BY <1>3, <1>7, <1>8
<1> QED
  BY <1>3, <1>4, <1>5, <1>7, <1>9, <1>10

(* The last section that begins at or above a line.                        *)
BeginBy(line, T) == {i \in T : DetailStart(i) <= line}
IndexRule(line, s, g) ==
    [T \in SUBSET DOMAIN s |->
       IF T = {} THEN 1
       ELSE LET x == Max(T) IN IF DetailStart(s[x]) <= line THEN s[x] ELSE g[T \ {x}]]

LEMMA IndexIs ==
  ASSUME SectionsTyped, NEW line
  PROVE  SectionIndexForLine(line) = IF BeginBy(line, DOMAIN sections) = {} THEN 1
                                     ELSE Max(BeginBy(line, DOMAIN sections))
<1> DEFINE N == Len(sections)
           s == [i \in DOMAIN sections |-> i]
           last(T) == IF BeginBy(line, T) = {} THEN 1 ELSE Max(BeginBy(line, T))
<1>1. N \in Nat /\ DOMAIN sections = 1 .. N /\ DOMAIN s = 1 .. N /\ \A x \in 1 .. N : s[x] = x
  BY SectionsAre
<1>2. SectionIndexForLine(line) = (CHOOSE g : g = IndexRule(line, s, g))[1 .. N]
  <2>1. SectionIndexForLine(line) = (CHOOSE g : g = IndexRule(line, s, g))[DOMAIN s]
    BY DEF SectionIndexForLine, FoldLeft, MapThenFoldSet, IndexRule
  <2> QED
    BY <2>1, <1>1
<1> HIDE DEF N, s, last
<1>3. last({}) = 1
  BY DEF last, BeginBy
<1>4. ASSUME NEW T \in SUBSET (1 .. N), T # {}
      PROVE  last(T) = IF DetailStart(Max(T)) <= line THEN Max(T) ELSE last(T \ {Max(T)})
  <2>1. PICK x \in T : x = Max(T) /\ \A y \in T : y <= x
    BY <1>1, <1>4, MaxOfPart
  <2>2. CASE DetailStart(x) <= line
    <3>1. x \in BeginBy(line, T) /\ BeginBy(line, T) \in SUBSET (1 .. N)
      BY <2>2 DEF BeginBy
    <3>2. /\ Max(BeginBy(line, T)) \in BeginBy(line, T)
          /\ \A y \in BeginBy(line, T) : y <= Max(BeginBy(line, T))
      BY <3>1, <1>1, MaxOfPart
    <3>3. Max(BeginBy(line, T)) \in T
      BY <3>2 DEF BeginBy
    <3>4. Max(BeginBy(line, T)) = x
      BY <3>1, <3>2, <3>3, <2>1, <1>1
    <3> QED
      BY <3>1, <3>4, <2>1, <2>2 DEF last
  <2>3. CASE ~(DetailStart(x) <= line)
    <3>1. BeginBy(line, T) = BeginBy(line, T \ {x})
      BY <2>3 DEF BeginBy
    <3> QED
      BY <3>1, <2>1, <2>3 DEF last
  <2> QED
    BY <2>2, <2>3
<1>5. \E h : h = IndexRule(line, s, h)
  <2> DEFINE h == [T \in SUBSET (1 .. N) |-> last(T)]
  <2>1. ASSUME NEW T \in SUBSET (1 .. N), T # {}
        PROVE  h[T] = IF DetailStart(s[Max(T)]) <= line THEN s[Max(T)] ELSE h[T \ {Max(T)}]
    <3>1. Max(T) \in 1 .. N
      BY <1>1, <2>1, MaxOfPart
    <3>2. s[Max(T)] = Max(T)
      BY <3>1, <1>1
    <3> QED
      BY <3>2, <2>1, <1>4
  <2>2. h[{}] = 1
    BY <1>3
  <2> HIDE DEF h
  <2>3. h = [T \in SUBSET (1 .. N) |-> h[T]]
    BY DEF h
  <2>4. h = IndexRule(line, s, h)
    BY <2>1, <2>2, <2>3, <1>1 DEF IndexRule
  <2> QED
    BY <2>4
<1>6. PICK g : g = IndexRule(line, s, g) /\ SectionIndexForLine(line) = g[1 .. N]
  BY <1>2, <1>5
<1>7. \A T \in SUBSET (1 .. N) :
         g[T] = IF T = {} THEN 1
                ELSE IF DetailStart(s[Max(T)]) <= line THEN s[Max(T)] ELSE g[T \ {Max(T)}]
  BY <1>6, <1>1 DEF IndexRule
<1> DEFINE C == {T \in SUBSET (1 .. N) : g[T] = last(T)}
<1>8. {} \in C
  BY <1>3, <1>7
<1>9. ASSUME NEW T \in SUBSET (1 .. N), T # {}, \A x \in T : T \ {x} \in C PROVE T \in C
  <2>1. PICK x \in T : x = Max(T)
    BY <1>1, <1>9, MaxOfPart
  <2>2. g[T \ {x}] = last(T \ {x}) /\ s[x] = x
    BY <1>1, <1>9
  <2> QED
    BY <2>1, <2>2, <1>4, <1>7, <1>9
<1> HIDE DEF C
<1>10. IsFiniteSet(1 .. N)
  BY <1>1, FS_Interval
<1>11. 1 .. N \in C
  <2>1. PICK D : D = 1 .. N
    OBVIOUS
  <2>2. \A T \in SUBSET D : T # {} /\ (\A x \in T : T \ {x} \in C) => T \in C
    BY <2>1, <1>9
  <2>3. IsFiniteSet(D)
    BY <2>1, <1>10
  <2>4. \A T \in SUBSET D : T \in C
    BY <2>2, <2>3, <1>8, FiniteInduction
  <2> QED
    BY <2>1, <2>4
<1> QED
  BY <1>1, <1>6, <1>11 DEF C, last

LEMMA StartsAscend ==
  ASSUME SectionsTyped
  PROVE  \A i, j \in 1 .. Len(sections) :
            i < j => DetailStart(i) + sections[i].lines + 1 <= DetailStart(j)
<1> DEFINE N == Len(sections)
           S == {n \in Nat : \A i, j \in 1 .. N : j = i + 1 + n =>
                                DetailStart(i) + sections[i].lines + 1 <= DetailStart(j)}
<1>1. N \in Nat /\ \A i \in 1 .. N : sections[i].lines \in Nat \ {0}
  BY SectionsAre
<1>2. \A i \in 1 .. N :
         /\ DetailStart(i) \in Nat
         /\ i + 1 <= N => DetailStart(i + 1) = DetailStart(i) + sections[i].lines + 1
  BY StartsAre
<1> HIDE DEF N
<1>3. 0 \in S
  BY <1>1, <1>2
<1>4. ASSUME NEW n \in Nat, n \in S PROVE n + 1 \in S
  <2> SUFFICES ASSUME NEW i \in 1 .. N, NEW j \in 1 .. N, j = i + 1 + (n + 1)
               PROVE  DetailStart(i) + sections[i].lines + 1 <= DetailStart(j)
    OBVIOUS
  <2>1. PICK k \in 1 .. N : k = i + 1 + n /\ j = k + 1
    BY <1>1
  <2>2. DetailStart(i) + sections[i].lines + 1 <= DetailStart(k)
    BY <2>1, <1>4
  <2>3. DetailStart(j) = DetailStart(k) + sections[k].lines + 1
    BY <2>1, <1>1, <1>2
  <2> QED
    BY <2>2, <2>3, <1>1, <1>2
<1> HIDE DEF S
<1>5. \A n \in Nat : n \in S
  BY <1>3, <1>4, UpwardInduction
<1>6. ASSUME NEW i \in 1 .. N, NEW j \in 1 .. N, i < j
      PROVE  DetailStart(i) + sections[i].lines + 1 <= DetailStart(j)
  <2>1. j - i - 1 \in Nat /\ j = i + 1 + (j - i - 1)
    BY <1>6, <1>1
  <2>2. j - i - 1 \in S
    BY <2>1, <1>5
  <2> QED
    BY <2>1, <2>2 DEF S
<1> QED
  BY <1>6 DEF N

(* The section the pager takes a line for is the one that owns it.         *)
LEMMA IndexIsOwner ==
  ASSUME SectionsTyped, sections # <<>>, NEW line \in Nat, line < RightLines
  PROVE  /\ SectionIndexForLine(line) \in 1 .. Len(sections)
         /\ SectionIndexForLine(line) = OwnerOf(line)
<1> DEFINE N == Len(sections)
           B == BeginBy(line, DOMAIN sections)
           m == Max(B)
<1>1. /\ N \in Nat \ {0} /\ DOMAIN sections = 1 .. N
      /\ \A i \in 1 .. N : sections[i].lines \in Nat \ {0}
      /\ RightLines = DetailStart(N) + sections[N].lines
  BY SectionsAre DEF RightLines
<1>2. \A i \in 1 .. N :
         /\ DetailStart(i) \in Nat /\ DetailStart(1) = 0
         /\ i + 1 <= N => DetailStart(i + 1) = DetailStart(i) + sections[i].lines + 1
  BY StartsAre
<1>3. \A i, j \in 1 .. N : i < j => DetailStart(i) + sections[i].lines + 1 <= DetailStart(j)
  BY StartsAscend
<1> HIDE DEF N
<1>4. 1 \in B /\ B \in SUBSET (1 .. N)
  <2>1. 1 \in 1 .. N
    BY <1>1
  <2>2. DetailStart(1) = 0
    BY <2>1, <1>2
  <2> QED
    BY <2>1, <2>2, <1>1 DEF BeginBy
<1>5. m \in B /\ \A i \in B : i <= m
  BY <1>1, <1>4, MaxOfPart
<1>6. SectionIndexForLine(line) = m
  BY <1>4, IndexIs
<1> HIDE DEF m
<1>7. m \in 1 .. N /\ DetailStart(m) <= line
  BY <1>1, <1>5 DEF BeginBy
<1>8. line < DetailStart(m) + sections[m].lines + 1
  <2>1. CASE m = N
    BY <2>1, <1>1, <1>2, <1>7
  <2>2. CASE m # N
    <3>1. m + 1 \in 1 .. N /\ m + 1 <= N
      BY <2>2, <1>7, <1>1
    <3>2. ~(DetailStart(m + 1) <= line)
      <4>1. m + 1 \notin B
        BY <3>1, <1>5, <1>7, <1>1
      <4> QED
        BY <4>1, <3>1, <1>1 DEF BeginBy
    <3>3. DetailStart(m + 1) = DetailStart(m) + sections[m].lines + 1
      BY <3>1, <1>2, <1>7
    <3>4. DetailStart(m + 1) \in Nat
      BY <3>1, <1>2
    <3> QED
      BY <3>2, <3>3, <3>4
  <2> QED
    BY <2>1, <2>2
<1> DEFINE Owns(i) ==
             /\ line >= FoldLeft(Plus, 0, [j \in 1 .. i - 1 |-> sections[j].lines + 1])
             /\ line <  FoldLeft(Plus, 0, [j \in 1 .. i |-> sections[j].lines + 1])
<1>9. ASSUME NEW i \in 1 .. N
      PROVE  Owns(i) <=> DetailStart(i) <= line /\ line < DetailStart(i) + sections[i].lines + 1
  <2>1. /\ FoldLeft(Plus, 0, [j \in 1 .. i - 1 |-> sections[j].lines + 1]) = DetailStart(i)
        /\ FoldLeft(Plus, 0, [j \in 1 .. i |-> sections[j].lines + 1]) =
              DetailStart(i) + sections[i].lines + 1
    BY StartsAre DEF N
  <2>2. DetailStart(i) \in Nat
    BY <1>2
  <2> QED
    BY <2>1, <2>2
<1>10. OwnerOf(line) = CHOOSE i \in DOMAIN sections : Owns(i)
  BY DEF OwnerOf
<1> HIDE DEF Owns
<1>11. ASSUME NEW i \in 1 .. N, Owns(i) PROVE i = m
  <2>1. DetailStart(i) <= line /\ line < DetailStart(i) + sections[i].lines + 1
    BY <1>11, <1>9
  <2>2. DetailStart(i) \in Nat /\ DetailStart(m) \in Nat
    BY <1>2, <1>7
  <2>3. sections[i].lines \in Nat /\ sections[m].lines \in Nat
    BY <1>1, <1>7
  <2>4. ~(i < m)
    <3>1. i < m => DetailStart(i) + sections[i].lines + 1 <= DetailStart(m)
      BY <1>3, <1>7
    <3> QED
      BY <2>1, <2>2, <2>3, <3>1, <1>7
  <2>5. ~(m < i)
    <3>1. m < i => DetailStart(m) + sections[m].lines + 1 <= DetailStart(i)
      BY <1>3, <1>7
    <3> QED
      BY <2>1, <2>2, <2>3, <3>1, <1>8
  <2> QED
    BY <2>4, <2>5, <1>7, <1>1
<1>12. Owns(m)
  BY <1>7, <1>8, <1>9
<1>13. OwnerOf(line) = m
  BY <1>1, <1>7, <1>10, <1>11, <1>12
<1> QED
  BY <1>6, <1>7, <1>13 DEF N

-----------------------------------------------------------------------------
(* What is on the screen, and how far the reader has come.                 *)
LEMMA RightLinesAre ==
  ASSUME SectionsTyped
  PROVE  RightLines \in Nat \ {0}
<1>1. CASE sections = <<>>
  BY <1>1 DEF RightLines
<1>2. CASE sections # <<>>
  <2>1. /\ Len(sections) \in 1 .. Len(sections) /\ sections[Len(sections)].lines \in Nat \ {0}
        /\ RightLines = DetailStart(Len(sections)) + sections[Len(sections)].lines
    BY <1>2, SectionsAre DEF RightLines
  <2>2. DetailStart(Len(sections)) \in Nat
    BY <2>1, StartsAre
  <2> QED
    BY <2>1, <2>2
<1> QED
  BY <1>1, <1>2

(* The same as functions of the sections.                                  *)
StartIn(list, i) == FoldLeft(LAMBDA n, s : n + s.lines + 1, 0, SubSeq(list, 1, i - 1))
LinesIn(list) == IF list = <<>> THEN 1 ELSE StartIn(list, Len(list)) + Last(list).lines
IndexIn(list, line) ==
    FoldLeft(LAMBDA current, i : IF StartIn(list, i) <= line THEN i ELSE current,
             1, [i \in DOMAIN list |-> i])

LEMMA SameSections ==
  ASSUME SectionsTyped, UNCHANGED sections
  PROVE  /\ SectionsTyped' /\ RightLines' = RightLines
         /\ \A line : SectionIndexForLine(line)' = SectionIndexForLine(line)
<1>1. SectionsTyped'
  BY DEF SectionsTyped
<1>2. /\ \A i : DetailStart(i) = StartIn(sections, i)
      /\ \A i : DetailStart(i)' = StartIn(sections', i)
  BY DEF DetailStart, StartIn, FoldLeft, MapThenFoldSet
<1>3. RightLines = LinesIn(sections) /\ RightLines' = LinesIn(sections')
  BY <1>2 DEF RightLines, LinesIn
<1>4. ASSUME NEW line
      PROVE  /\ SectionIndexForLine(line) = IndexIn(sections, line)
             /\ SectionIndexForLine(line)' = IndexIn(sections', line)
  BY DEF SectionIndexForLine, DetailStart, IndexIn, StartIn, FoldLeft, MapThenFoldSet
<1> QED
  BY <1>1, <1>3, <1>4

(* The last drawing shows what there was at its position and for its size, *)
(* and all of it counts as reached unless lines were left out.             *)
DrawingIs ==
    /\ drawn.top \in Nat /\ drawn.top = scroll_y /\ drawn.size.height \in Nat \ {0}
    /\ drawn.top = 0 \/ drawn.top + drawn.size.height <= RightLines
    /\ drawn.current = SectionIndexForLine(drawn.top)
    /\ drawn.visible = SectionIndexForLine(Least(drawn.top + Less(drawn.size.height, 1),
                                                 Less(RightLines, 1)))
    /\ ~jumped => Least(drawn.top + drawn.size.height, RightLines) <= reached

(* Who has left no line out stands no further than the lines go that were  *)
(* drawn without a gap.                                                    *)
ScreenInv ==
    /\ SectionsTyped
    /\ size \in [width : Nat, height : Nat]
    /\ scroll_y \in Nat /\ reached \in Nat
    /\ ~jumped => scroll_y <= reached
    /\ OnScreen => DrawingIs

LEMMA DrawnIs ==
  ASSUME SectionsTyped, DrawingIs
  PROVE  LET end == Least(drawn.top + drawn.size.height, RightLines)
         IN  /\ DrawnLines = drawn.top .. end - 1 /\ end \in Nat /\ drawn.top < end
             /\ Bottom = end - 1
             /\ end - 1 = Least(drawn.top + Less(drawn.size.height, 1), Less(RightLines, 1))
<1> DEFINE end == Least(drawn.top + drawn.size.height, RightLines)
<1>1. RightLines \in Nat \ {0} /\ drawn.top \in Nat /\ drawn.size.height \in Nat \ {0}
  BY RightLinesAre DEF DrawingIs
<1>2. end \in Nat /\ drawn.top < end
  BY <1>1 DEF DrawingIs, Least
<1>3. end - 1 = Least(drawn.top + Less(drawn.size.height, 1), Less(RightLines, 1))
  BY <1>1 DEF Least, Less
<1>4. DrawnLines = drawn.top .. end - 1
  BY DEF DrawnLines
<1> HIDE DEF end
<1>5. /\ end - 1 \in DrawnLines /\ \A other \in DrawnLines : other <= end - 1
      /\ \A line \in DrawnLines : line \in Int
  BY <1>1, <1>2, <1>4
<1>6. ASSUME NEW line \in DrawnLines, \A other \in DrawnLines : other <= line
      PROVE  line = end - 1
  <2>1. end - 1 <= line /\ line <= end - 1 /\ line \in Int
    BY <1>5, <1>6
  <2> QED
    BY <2>1, <1>2
<1>7. Bottom = end - 1
  BY <1>5, <1>6 DEF Bottom
<1> QED
  BY <1>2, <1>3, <1>4, <1>7 DEF end

LEMMA ScreenInit == PagerInit => ScreenInv
<1> SUFFICES ASSUME PagerInit PROVE ScreenInv
  OBVIOUS
<1>1. sections = <<>> /\ pager = "off" /\ scroll_y = 0 /\ reached = 0 /\ size = NotDrawn.size
  BY DEF PagerInit
<1>2. SectionsTyped
  BY <1>1, EmptySeq DEF SectionsTyped
<1> QED
  BY <1>1, <1>2 DEF ScreenInv, OnScreen, NotDrawn

LEMMA ScreenRender == ScreenInv /\ Render => ScreenInv'
<1> SUFFICES ASSUME ScreenInv, Render PROVE ScreenInv'
  OBVIOUS
<1> USE DEF ScreenInv
<1>1. UNCHANGED <<sections, size, jumped>>
  BY DEF Render
<1>2. /\ SectionsTyped' /\ RightLines' = RightLines
      /\ \A line : SectionIndexForLine(line)' = SectionIndexForLine(line)
  BY <1>1, SameSections
<1>3. RightLines \in Nat \ {0} /\ size.height \in Nat
  BY RightLinesAre
<1>4. CASE TooSmall
  <2>1. drawn' = [NotDrawn EXCEPT !.size = size] /\ UNCHANGED <<scroll_y, reached>>
    BY <1>4 DEF Render
  <2>2. drawn'.small
    BY <2>1 DEF NotDrawn
  <2> QED
    BY <1>1, <1>2, <2>1, <2>2 DEF OnScreen
<1>5. CASE ~TooSmall
  <2> DEFINE top == Least(scroll_y, MaxVerticalScroll)
             end == Least(top + size.height, RightLines)
  <2>1. /\ scroll_y' = top
        /\ drawn' = [small |-> FALSE, size |-> size, top |-> top,
                     current |-> SectionIndexForLine(top), visible |-> VisibleSectionIndex(top)]
        /\ reached' = IF top <= reached /\ ~jumped THEN Most(reached, end) ELSE reached
    BY <1>5 DEF Render
  <2>2. size.height \in Nat \ {0}
    BY <1>5, <1>3 DEF TooSmall
  <2>3. /\ top \in Nat /\ top <= scroll_y /\ end \in Nat
        /\ top = 0 \/ top + size.height <= RightLines
        /\ top <= end
    BY <1>3, <2>2 DEF MaxVerticalScroll, Least, Less
  <2>4. VisibleSectionIndex(top) =
           SectionIndexForLine(Least(top + Less(size.height, 1), Less(RightLines, 1)))
    BY DEF VisibleSectionIndex
  <2> HIDE DEF top, end
  <2>5. reached' \in Nat /\ reached <= reached'
    BY <2>1, <2>3 DEF Most
  <2>6. ~jumped => top <= reached' /\ end <= reached'
    BY <2>1, <2>3 DEF Most
  <2>7. DrawingIs'
    BY <1>1, <1>2, <2>1, <2>2, <2>3, <2>4, <2>6 DEF DrawingIs, end
  <2> QED
    BY <1>1, <1>2, <2>1, <2>3, <2>5, <2>6, <2>7
<1> QED
  BY <1>4, <1>5

(* The keys: a step forward leads at most to the line after the last one   *)
(* drawn.                                                                  *)
LEMMA ScreenKey == ScreenInv /\ HandleKey => ScreenInv'
<1> SUFFICES ASSUME ScreenInv, HandleKey PROVE ScreenInv'
  OBVIOUS
<1> USE DEF ScreenInv
<1>1. UNCHANGED <<sections, size>> /\ pager' # "wait"
  BY DEF HandleKey, Up, Down, Left, Right, PageUp, PageDown, Home, End, Quit, Scroll
<1>2. SectionsTyped' /\ ~OnScreen'
  BY <1>1, SameSections DEF OnScreen
<1>3. RightLines \in Nat \ {0} /\ size.height \in Nat /\ pager = "wait"
  BY RightLinesAre DEF HandleKey, Up, Down, Left, Right, PageUp, PageDown, Home, End, Quit
<1>4. CASE Up \/ Left \/ Right \/ PageUp \/ Home
  <2>1. UNCHANGED <<jumped, reached>> /\ scroll_y' \in Nat /\ scroll_y' <= scroll_y
    BY <1>3, <1>4 DEF Up, Left, Right, PageUp, Home, Scroll, Backward, Less, PageStep
  <2> QED
    BY <1>1, <1>2, <2>1
<1>5. CASE Down \/ PageDown
  <2>1. PICK n \in Nat : /\ scroll_y' = Least(scroll_y + n, MaxVerticalScroll)
                         /\ n = 1 \/ n = Less(size.height, 1)
    BY <1>3, <1>5 DEF Down, PageDown, Scroll, PageStep, Less
  <2>2. Forward
    BY <1>5 DEF Down, PageDown
  <2>3. scroll_y' \in Nat
    BY <2>1, <1>3 DEF Least, Less, MaxVerticalScroll
  <2>4. CASE drawn.small \/ drawn.size # size
    <3>1. jumped' /\ reached' = 0
      BY <2>2, <2>4 DEF Forward, Jump
    <3> QED
      BY <1>1, <1>2, <2>3, <3>1
  <2>5. CASE ~(drawn.small \/ drawn.size # size)
    <3>1. UNCHANGED <<jumped, reached>>
      BY <2>2, <2>5 DEF Forward, Backward
    <3>2. DrawingIs /\ drawn.size = size
      BY <2>5, <1>3 DEF OnScreen
    <3>3. ~jumped => scroll_y' <= reached
      BY <2>1, <3>2, <1>3 DEF DrawingIs, Least, Less, MaxVerticalScroll
    <3> QED
      BY <1>1, <1>2, <2>3, <3>1, <3>3
  <2> QED
    BY <2>4, <2>5
<1>6. CASE End
  <2>1. jumped' /\ reached' = 0 /\ scroll_y' \in Nat
    BY <1>3, <1>6 DEF End, Jump, Scroll, MaxVerticalScroll, Less
  <2> QED
    BY <1>1, <1>2, <2>1
<1>7. CASE Quit
  <2>1. scroll_y' = 0 /\ reached' = 0
    BY <1>7 DEF Quit
  <2> QED
    BY <1>1, <1>2, <2>1
<1> QED
  BY <1>4, <1>5, <1>6, <1>7 DEF HandleKey

-----------------------------------------------------------------------------
(* The records in the order of their last messages.                        *)
Ascending(s) == \A i, j \in DOMAIN s : i < j => s[i].last_sequence < s[j].last_sequence

LEMMA SortedExists ==
  ASSUME NEW S, IsFiniteSet(S), \A r \in S : r.last_sequence \in Nat,
         \A r, q \in S : r.last_sequence = q.last_sequence => r = q
  PROVE  \E s \in [1 .. Cardinality(S) -> S] : Ascending(s)
<1> DEFINE Sorts(T) == \E s \in [1 .. Cardinality(T) -> T] : Ascending(s)
           C == {T \in SUBSET S : Sorts(T)}
<1>1. \A T \in SUBSET S : IsFiniteSet(T) /\ Cardinality(T) \in Nat
  BY FS_Subset, FS_CardinalityType
<1>2. {} \in C
  <2>1. 1 .. Cardinality({}) = {}
    BY FS_EmptySet
  <2> DEFINE s == [i \in {} |-> i]
  <2>2. s \in [{} -> {}] /\ Ascending(s)
    BY DEF Ascending
  <2> QED
    BY <2>1, <2>2
<1>3. ASSUME NEW T \in SUBSET S, T # {}, \A x \in T : T \ {x} \in C PROVE T \in C
  <2> DEFINE Lasts == {r.last_sequence : r \in T}
  <2>1. PICK r \in T : \A q \in T : r.last_sequence <= q.last_sequence
    <3>1. Lasts \subseteq Nat /\ Lasts # {}
      BY <1>3
    <3>2. PICK m \in Lasts : \A n \in Lasts : m <= n
      BY <3>1, LeastNumber
    <3> QED
      BY <3>2
  <2>2. PICK s \in [1 .. Cardinality(T \ {r}) -> T \ {r}] : Ascending(s)
    BY <1>3
  <2>3. Cardinality(T \ {r}) = Cardinality(T) - 1 /\ Cardinality(T) \in Nat \ {0}
    BY <1>1, <1>3, FS_RemoveElement, FS_EmptySet
  <2> DEFINE n == Cardinality(T)
             f == [i \in 1 .. n |-> IF i = 1 THEN r ELSE s[i - 1]]
  <2>4. ASSUME NEW i \in 1 .. n, i # 1 PROVE i - 1 \in 1 .. n - 1 /\ s[i - 1] \in T \ {r}
    <3>1. i - 1 \in 1 .. n - 1
      BY <2>3, <2>4
    <3>2. n - 1 = Cardinality(T \ {r})
      BY <2>3
    <3> HIDE DEF n
    <3> QED
      BY <2>2, <3>1, <3>2
  <2>5. f \in [1 .. n -> T]
    BY <2>4
  <2>6. ASSUME NEW i \in 1 .. n, NEW j \in 1 .. n, i < j
        PROVE  f[i].last_sequence < f[j].last_sequence
    <3>0. n \in Nat /\ j # 1
      BY <2>3, <2>6
    <3>1. j # 1 /\ j - 1 \in 1 .. n - 1 /\ f[j] = s[j - 1] /\ s[j - 1] \in T \ {r}
      BY <3>0, <2>4
    <3>2. CASE i = 1
      <4>1. f[i] = r /\ r.last_sequence <= f[j].last_sequence
        BY <2>1, <3>1, <3>2
      <4>2. r.last_sequence # f[j].last_sequence
        BY <3>1
      <4>3. r.last_sequence \in Nat /\ f[j].last_sequence \in Nat
        BY <3>1
      <4> QED
        BY <4>1, <4>2, <4>3
    <3>3. CASE i # 1
      <4>1. i - 1 \in 1 .. n - 1 /\ f[i] = s[i - 1] /\ i - 1 < j - 1
        BY <2>3, <2>4, <2>6, <3>3
      <4>2. DOMAIN s = 1 .. n - 1
        BY <2>2, <2>3
      <4> QED
        BY <2>2, <3>1, <4>1, <4>2 DEF Ascending
    <3> QED
      BY <3>2, <3>3
  <2> HIDE DEF f, n
  <2>7. DOMAIN f = 1 .. n
    BY <2>5
  <2>8. Ascending(f)
    BY <2>6, <2>7 DEF Ascending
  <2> QED
    BY <2>5, <2>8 DEF n
<1> HIDE DEF C
<1>4. \A T \in SUBSET S : T \in C
  BY <1>2, <1>3, FiniteInduction
<1> QED
  BY <1>4 DEF C

(* The message log: what came with a type, in the order it came; the last  *)
(* message of a record is one it holds.                                    *)
LogIsInput ==
    /\ \A i \in 1 .. Len(message_log) :
          /\ message_log[i].sequence \in Nat /\ message_log[i].sequence < Len(input)
          /\ input[message_log[i].sequence + 1].type # None
    /\ \A i, j \in 1 .. Len(message_log) :
          i < j => message_log[i].sequence < message_log[j].sequence
    /\ \A n \in 1 .. Len(input) :
          input[n].type # None =>
             \E i \in 1 .. Len(message_log) : message_log[i].sequence = n - 1
LastIsHeld == \A r \in AllRecords : Holds(r, r.last_sequence)
LogInv == LogIsInput /\ LastIsHeld

LEMMA LogMessage ==
  ASSUME FlowInv, LogIsInput, NEW m \in Messages, RecordMessage(m)
  PROVE  LogIsInput'
<1>1. /\ next_sequence \in Nat /\ next_sequence = Len(input)
      /\ Len(input') = Len(input) + 1
      /\ \A i \in 1 .. Len(input) : input'[i] = input[i]
      /\ input'[Len(input) + 1] = m
  BY InputGrows DEF FlowInv
<1> DEFINE L == Len(message_log)
           entry == [sequence |-> next_sequence, type |-> m.type]
<1>2. message_log \in Seq([sequence : Nat, type : MsgTypes]) /\ L \in Nat
  BY LenProperties DEF FlowInv, IInv, TypeOK
<1>3. ASSUME NEW i \in 1 .. L
      PROVE  /\ message_log[i].sequence \in Nat /\ message_log[i].sequence < Len(input')
             /\ message_log[i].sequence < next_sequence
             /\ input'[message_log[i].sequence + 1].type # None
  <2>1. /\ message_log[i].sequence \in Nat /\ message_log[i].sequence < Len(input)
        /\ input[message_log[i].sequence + 1].type # None
    BY DEF LogIsInput
  <2>2. message_log[i].sequence + 1 \in 1 .. Len(input)
    BY <2>1, <1>1
  <2> QED
    BY <1>1, <2>1, <2>2
<1>4. CASE m.type = None
  <2>1. message_log' = message_log
    BY <1>4 DEF RecordMessage
  <2>2. ASSUME NEW n \in 1 .. Len(input'), input'[n].type # None
        PROVE  \E i \in 1 .. L : message_log[i].sequence = n - 1
    <3>1. n \in 1 .. Len(input) /\ input[n].type # None
      BY <2>2, <1>1, <1>4
    <3> QED
      BY <3>1 DEF LogIsInput
  <2>3. \A i, j \in 1 .. L : i < j => message_log[i].sequence < message_log[j].sequence
    BY DEF LogIsInput
  <2> QED
    BY <2>1, <2>2, <2>3, <1>3 DEF LogIsInput
<1>5. CASE m.type # None
  <2>1. message_log' = Append(message_log, entry)
    BY <1>5 DEF RecordMessage
  <2>2. m.type \in MsgTypes
    BY <1>5, MessageTyped DEF Maybe
  <2>3. entry \in [sequence : Nat, type : MsgTypes]
    BY <2>2, <1>1
  <2> HIDE DEF L
  <2>4. /\ Len(message_log') = L + 1
        /\ \A i \in 1 .. L : message_log'[i] = message_log[i]
        /\ message_log'[L + 1].sequence = next_sequence
    BY <1>2, <2>1, <2>3, AppendProperties DEF L
  <2>5. ASSUME NEW i \in 1 .. L + 1
        PROVE  /\ message_log'[i].sequence \in Nat /\ message_log'[i].sequence < Len(input')
               /\ input'[message_log'[i].sequence + 1].type # None
    <3>1. CASE i = L + 1
      BY <3>1, <2>4, <1>1, <1>5
    <3>2. CASE i # L + 1
      <4>1. i \in 1 .. L
        BY <3>2, <1>2
      <4> QED
        BY <4>1, <2>4, <1>3
    <3> QED
      BY <3>1, <3>2
  <2>6. ASSUME NEW i \in 1 .. L + 1, NEW j \in 1 .. L + 1, i < j
        PROVE  message_log'[i].sequence < message_log'[j].sequence
    <3>1. i \in 1 .. L
      BY <2>6, <1>2
    <3>2. CASE j = L + 1
      BY <3>1, <3>2, <2>4, <1>3
    <3>3. CASE j # L + 1
      <4>1. j \in 1 .. L
        BY <3>3, <1>2
      <4>2. message_log[i].sequence < message_log[j].sequence
        BY <4>1, <3>1, <2>6 DEF LogIsInput, L
      <4> QED
        BY <4>1, <4>2, <3>1, <2>4
    <3> QED
      BY <3>2, <3>3
  <2>7. ASSUME NEW n \in 1 .. Len(input'), input'[n].type # None
        PROVE  \E i \in 1 .. L + 1 : message_log'[i].sequence = n - 1
    <3>1. CASE n = Len(input) + 1
      <4>1. L + 1 \in 1 .. L + 1 /\ message_log'[L + 1].sequence = n - 1
        BY <3>1, <2>4, <1>1, <1>2
      <4> QED
        BY <4>1
    <3>2. CASE n # Len(input) + 1
      <4>1. n \in 1 .. Len(input) /\ input[n].type # None
        BY <3>2, <2>7, <1>1
      <4>2. PICK i \in 1 .. L : message_log[i].sequence = n - 1
        BY <4>1 DEF LogIsInput, L
      <4>3. i \in 1 .. L + 1 /\ message_log'[i].sequence = n - 1
        BY <4>2, <2>4, <1>2
      <4> QED
        BY <4>3
    <3> QED
      BY <3>1, <3>2
  <2> QED
    BY <2>4, <2>5, <2>6, <2>7 DEF LogIsInput
<1> QED
  BY <1>4, <1>5

LEMMA LastStep ==
  ASSUME FlowInv, LastIsHeld, NEW m \in Messages, RecordMessage(m)
  PROVE  LastIsHeld'
<1>1. CASE Ignored(m)
  <2>1. UNCHANGED <<orders, completed, printed>>
    BY <1>1 DEF RecordMessage
  <2>2. AllRecords' = AllRecords
    BY <2>1 DEF AllRecords
  <2> QED
    BY <2>2 DEF LastIsHeld
<1>2. CASE ~Ignored(m)
  <2>1. PICK r, old : Taken(m, ResolveKey(m), r, old)
    BY <1>2, TakenBy DEF FlowInv
  <2>2. r \in Record /\ AllRecords' = (AllRecords \ old) \cup {Merged(r, m)}
    BY <2>1 DEF Taken
  <2>3. /\ Merged(r, m).events = r.events \cup {EventOf(m, next_sequence)}
        /\ EventOf(m, next_sequence).sequence = next_sequence
    BY <2>2, MergedEvents DEF FlowInv
  <2>4. Merged(r, m).last_sequence = next_sequence
    BY <2>2 DEF Merged, Record
  <2>5. Holds(Merged(r, m), Merged(r, m).last_sequence)
    BY <2>3, <2>4 DEF Holds
  <2> QED
    BY <2>2, <2>5 DEF LastIsHeld
<1> QED
  BY <1>1, <1>2

(* How many entries of the log there are up to a message.                  *)
Logged(L, c) ==
    /\ c \in 0 .. Len(message_log)
    /\ \A i \in 1 .. Len(message_log) : i <= c <=> message_log[i].sequence <= L
TypedUpTo(L) == {k \in 0 .. L : input[k + 1].type # None}

LEMMA LoggedExists ==
  ASSUME Len(message_log) \in Nat, LogIsInput, NEW L \in Nat
  PROVE  \E c : Logged(L, c)
<1> DEFINE N == Len(message_log)
           Late == {i \in 1 .. N + 1 : i = N + 1 \/ message_log[i].sequence > L}
<1>1. \A i, j \in 1 .. N : i < j => message_log[i].sequence < message_log[j].sequence
  BY DEF LogIsInput
<1>2. \A i \in 1 .. N : message_log[i].sequence \in Nat
  BY DEF LogIsInput
<1>3. N + 1 \in Late /\ Late \subseteq Nat
  OBVIOUS
<1>4. PICK m \in Late : \A i \in Late : m <= i
  BY <1>3, LeastNumber
<1> HIDE DEF N
<1>5. N \in Nat /\ m \in 1 .. N + 1
  BY DEF N
<1>6. ASSUME NEW i \in 1 .. N PROVE i <= m - 1 <=> message_log[i].sequence <= L
  <2>1. CASE i < m
    <3>1. i \notin Late
      BY <2>1, <1>4, <1>5
    <3>2. ~(message_log[i].sequence > L)
      BY <3>1, <1>5
    <3> QED
      BY <2>1, <3>2, <1>2, <1>5
  <2>2. CASE ~(i < m)
    <3>1. m \in 1 .. N /\ message_log[m].sequence > L
      BY <2>2, <1>4, <1>5
    <3>2. m = i \/ message_log[m].sequence < message_log[i].sequence
      BY <2>2, <3>1, <1>1, <1>5
    <3>3. message_log[i].sequence > L
      BY <3>1, <3>2, <1>2
    <3> QED
      BY <2>2, <3>3, <1>2, <1>5
  <2> QED
    BY <2>1, <2>2
<1>7. m - 1 \in 0 .. N
  BY <1>5
<1> QED
  BY <1>6, <1>7 DEF Logged, N

LEMMA LoggedIsTyped ==
  ASSUME Len(message_log) \in Nat, Len(input) \in Nat, LogIsInput,
         NEW L \in Nat, L < Len(input), NEW c, Logged(L, c)
  PROVE  Cardinality(TypedUpTo(L)) = c
<1> DEFINE f == [i \in 1 .. c |-> message_log[i].sequence]
<1>1. c \in Nat /\ 1 .. c \subseteq 1 .. Len(message_log)
  BY DEF Logged
<1>2. ASSUME NEW i \in 1 .. c PROVE f[i] \in TypedUpTo(L)
  <2>1. /\ message_log[i].sequence \in Nat /\ input[message_log[i].sequence + 1].type # None
        /\ message_log[i].sequence <= L
    BY <1>1 DEF LogIsInput, Logged
  <2> QED
    BY <2>1 DEF TypedUpTo
<1>3. ASSUME NEW i \in 1 .. c, NEW j \in 1 .. c, f[i] = f[j] PROVE i = j
  <2>1. f[i] \in Nat
    BY <1>2 DEF TypedUpTo
  <2>2. /\ i < j => f[i] < f[j]
        /\ j < i => f[j] < f[i]
    BY <1>1 DEF LogIsInput
  <2> HIDE DEF f
  <2> QED
    BY <2>1, <2>2, <1>3, <1>1
<1>4. ASSUME NEW k \in TypedUpTo(L) PROVE \E i \in 1 .. c : f[i] = k
  <2>1. k \in 0 .. L /\ k + 1 \in 1 .. Len(input) /\ input[k + 1].type # None
    BY DEF TypedUpTo
  <2>2. PICK i \in 1 .. Len(message_log) : message_log[i].sequence = (k + 1) - 1
    BY <2>1 DEF LogIsInput
  <2>3. message_log[i].sequence = k /\ k <= L
    BY <2>1, <2>2
  <2>4. i <= c
    BY <2>3 DEF Logged
  <2> QED
    BY <2>3, <2>4, <1>1
<1>5. f \in [1 .. c -> TypedUpTo(L)]
  BY <1>2
<1> HIDE DEF f
<1>6. f \in Bijection(1 .. c, TypedUpTo(L))
  BY <1>3, <1>4, <1>5 DEF Bijection, Injection, Surjection, IsInjective
<1> QED
  BY <1>1, <1>6, FS_CountingElements DEF ExistsBijection

(* The values of a function on a finite set are finitely many.             *)
LEMMA FiniteValues ==
  ASSUME NEW f, IsFiniteSet(DOMAIN f)
  PROVE  IsFiniteSet({f[x] : x \in DOMAIN f})
<1> DEFINE T == {f[x] : x \in DOMAIN f}
           g == [x \in DOMAIN f |-> f[x]]
<1>1. g \in Surjection(DOMAIN f, T)
  BY DEF Surjection
<1> HIDE DEF g, T
<1>2. IsFiniteSet(T)
  BY <1>1, FS_Surjection
<1> QED
  BY <1>2 DEF T

(* The pager's records: all that are open or completed, by their last      *)
(* messages, which are different ones of the log.                          *)
LEMMA RecordsAre ==
  ASSUME FlowInv, LastIsHeld
  PROVE  /\ IsFiniteSet(Records) /\ Records \subseteq Record
         /\ \A r \in Records : /\ r.last_sequence \in Nat /\ r.last_sequence < Len(input)
                               /\ IsFiniteSet(r.events)
         /\ \A r, q \in Records : r.last_sequence = q.last_sequence => r = q
<1>1. Records \subseteq AllRecords /\ AllRecords \subseteq Record
  BY AllRecordsTyped DEF Records, AllRecords, Range, FlowInv, IInv
<1>2. IsFiniteSet(Records)
  <2>1. IsFiniteSet(DOMAIN orders)
    BY DEF FlowInv, IInv
  <2>2. IsFiniteSet({orders[key] : key \in DOMAIN orders})
    BY <2>1, FiniteValues
  <2>3. IsFiniteSet(DOMAIN completed)
    <3>1. DOMAIN completed = 1 .. Len(completed) /\ Len(completed) \in Nat
      BY LenProperties DEF FlowInv, IInv, TypeOK
    <3> QED
      BY <3>1, FS_Interval
  <2>4. IsFiniteSet(Range(completed))
    <3>1. IsFiniteSet({completed[i] : i \in DOMAIN completed})
      BY <2>3, FiniteValues
    <3> QED
      BY <3>1 DEF Range
  <2> QED
    BY <2>2, <2>4, FS_Union DEF Records
<1>3. next_sequence = Len(input) /\ next_sequence \in Nat
  BY DEF FlowInv, EventsAreInput, IInv, TypeOK
<1>4. ASSUME NEW r \in AllRecords, NEW e \in r.events
      PROVE  /\ e.sequence \in 0 .. next_sequence - 1
             /\ e = EventOf(input[e.sequence + 1], e.sequence)
  <2>1. e \in Event
    BY <1>1 DEF Record
  <2>2. e.sequence < next_sequence /\ e.fields = input[e.sequence + 1]
    BY DEF FlowInv, EventsAreInput
  <2>3. e = [sequence |-> e.sequence, fields |-> e.fields] /\ e.sequence \in Nat
    BY <2>1 DEF Event
  <2> QED
    BY <2>2, <2>3, <1>3 DEF EventOf
<1>5. ASSUME NEW r \in AllRecords PROVE IsFiniteSet(r.events)
  <2> DEFINE all == {EventOf(input[k + 1], k) : k \in 0 .. next_sequence - 1}
  <2>1. IsFiniteSet(0 .. next_sequence - 1)
    BY <1>3, FS_Interval
  <2>2. IsFiniteSet(all)
    <3> DEFINE f == [k \in 0 .. next_sequence - 1 |-> EventOf(input[k + 1], k)]
    <3>1. DOMAIN f = 0 .. next_sequence - 1 /\ all = {f[k] : k \in DOMAIN f}
      OBVIOUS
    <3> HIDE DEF f, all
    <3> QED
      BY <2>1, <3>1, FiniteValues
  <2>3. r.events \subseteq all
    BY <1>4
  <2> QED
    BY <2>2, <2>3, FS_Subset
<1>6. ASSUME NEW r \in AllRecords
      PROVE  r.last_sequence \in Nat /\ r.last_sequence < Len(input)
  <2>1. PICK e \in r.events : e.sequence = r.last_sequence
    BY DEF LastIsHeld, Holds
  <2>2. e.sequence \in 0 .. next_sequence - 1
    BY <1>4
  <2> QED
    BY <2>1, <2>2, <1>3
<1>7. \A r, q \in AllRecords : r.last_sequence = q.last_sequence => r = q
  BY <1>6 DEF LastIsHeld, FlowInv, HeldOnce
<1> QED
  BY <1>1, <1>2, <1>5, <1>6, <1>7

LEMMA PagedAre ==
  ASSUME FlowInv, LastIsHeld
  PROVE  /\ PagedRecords \in Seq(Records) /\ Len(PagedRecords) \in Nat
         /\ DOMAIN PagedRecords = 1 .. Len(PagedRecords)
         /\ Ascending(PagedRecords)
<1>1. PICK n \in Nat : n = Cardinality(Records)
  BY RecordsAre, FS_CardinalityType
<1>2. \E s \in [1 .. n -> Records] : Ascending(s)
  BY <1>1, RecordsAre, SortedExists
<1>3. PagedRecords = CHOOSE s \in [1 .. n -> Records] : Ascending(s)
  BY <1>1 DEF PagedRecords, Ascending
<1>4. PagedRecords \in [1 .. n -> Records] /\ Ascending(PagedRecords)
  BY <1>2, <1>3
<1>5. PagedRecords \in Seq(Records)
  BY <1>4, SeqDef
<1> QED
  BY <1>4, <1>5, LenProperties

CountOn(n, r) == CHOOSE k \in n .. Len(message_log) :
                    /\ \A i \in n + 1 .. k : message_log[i].sequence <= r.last_sequence
                    /\ k < Len(message_log) => message_log[k + 1].sequence > r.last_sequence
CountRule(f) == [n \in 0 .. Len(PagedRecords) |->
                   IF n = 0 THEN 0 ELSE CountOn(f[n - 1], PagedRecords[n])]

LEMMA CountOnIs ==
  ASSUME Len(message_log) \in Nat, LogIsInput, NEW r, r.last_sequence \in Nat,
         NEW c, Logged(r.last_sequence, c), NEW n \in Nat, n <= c
  PROVE  CountOn(n, r) = c
<1> DEFINE N == Len(message_log)
           Ends(k) == /\ \A i \in n + 1 .. k : message_log[i].sequence <= r.last_sequence
                      /\ k < N => message_log[k + 1].sequence > r.last_sequence
<1>1. c \in 0 .. N /\ N \in Nat /\ \A i \in 1 .. N : message_log[i].sequence \in Nat
  BY DEF Logged, LogIsInput
<1>2. \A i \in 1 .. N : i <= c <=> message_log[i].sequence <= r.last_sequence
  BY DEF Logged
<1>3. CountOn(n, r) = CHOOSE k \in n .. N : Ends(k)
  BY DEF CountOn
<1> HIDE DEF N
<1>4. c \in n .. N
  BY <1>1
<1>5. Ends(c)
  <2>1. \A i \in n + 1 .. c : message_log[i].sequence <= r.last_sequence
    BY <1>1, <1>2
  <2>2. c < N => message_log[c + 1].sequence > r.last_sequence
    <3> SUFFICES ASSUME c < N PROVE message_log[c + 1].sequence > r.last_sequence
      OBVIOUS
    <3>1. c + 1 \in 1 .. N /\ ~(c + 1 <= c)
      BY <1>1
    <3>2. ~(message_log[c + 1].sequence <= r.last_sequence)
      BY <3>1, <1>2
    <3> QED
      BY <3>1, <3>2, <1>1
  <2> QED
    BY <2>1, <2>2
<1>6. ASSUME NEW k \in n .. N, Ends(k) PROVE k = c
  <2>1. ~(k < c)
    <3> SUFFICES ASSUME k < c PROVE FALSE
      OBVIOUS
    <3>1. k + 1 \in 1 .. N /\ k + 1 <= c /\ k < N
      BY <1>1
    <3>2. message_log[k + 1].sequence <= r.last_sequence
      BY <3>1, <1>2
    <3> QED
      BY <3>1, <3>2, <1>1, <1>6
  <2>2. ~(c < k)
    <3> SUFFICES ASSUME c < k PROVE FALSE
      OBVIOUS
    <3>1. c + 1 \in 1 .. N /\ c + 1 \in n + 1 .. k /\ ~(c + 1 <= c)
      BY <1>1
    <3> QED
      BY <3>1, <1>2, <1>6
  <2> QED
    BY <2>1, <2>2, <1>1
<1> HIDE DEF Ends
<1> QED
  BY <1>3, <1>4, <1>5, <1>6

(* Counting on from record to record comes to the messages of the log up   *)
(* to each.                                                                *)
LEMMA CountedIs ==
  ASSUME FlowInv, LogInv, NEW n \in DOMAIN PagedRecords
  PROVE  MessagesCounted[n] = Cardinality(TypedUpTo(PagedRecords[n].last_sequence))
<1> DEFINE N == Len(PagedRecords)
           latest(i) == PagedRecords[i].last_sequence
<1>1. N \in Nat /\ DOMAIN PagedRecords = 1 .. N /\ Ascending(PagedRecords)
  BY PagedAre DEF LogInv
<1>2. ASSUME NEW i \in 1 .. N PROVE latest(i) \in Nat /\ latest(i) < Len(input)
  <2>1. PagedRecords \in Seq(Records)
    BY PagedAre DEF LogInv
  <2>2. PagedRecords[i] \in Records
    BY <2>1, ElementOfSeq
  <2> QED
    BY <2>2, RecordsAre DEF LogInv
<1>3. Len(message_log) \in Nat /\ Len(input) \in Nat
  BY LenProperties DEF FlowInv, IInv, TypeOK
<1> DEFINE count(i) == IF i = 0 THEN 0 ELSE Cardinality(TypedUpTo(latest(i)))
<1>4. ASSUME NEW i \in 1 .. N PROVE Logged(latest(i), count(i)) /\ count(i) \in Nat
  <2>1. PICK c : Logged(latest(i), c)
    BY <1>2, <1>3, LoggedExists DEF LogInv
  <2>2. Cardinality(TypedUpTo(latest(i))) = c
    BY <2>1, <1>2, <1>3, LoggedIsTyped DEF LogInv
  <2> QED
    BY <2>1, <2>2 DEF Logged
<1> HIDE DEF N
<1>5. ASSUME NEW i \in 1 .. N PROVE count(i - 1) \in Nat /\ count(i - 1) <= count(i)
  <2>1. CASE i = 1
    BY <2>1, <1>4
  <2>2. CASE i # 1
    <3>1. i - 1 \in 1 .. N /\ i - 1 < i
      BY <2>2, <1>1
    <3>2. latest(i - 1) < latest(i)
      BY <3>1, <1>1 DEF Ascending
    <3>3. Logged(latest(i - 1), count(i - 1)) /\ Logged(latest(i), count(i))
      BY <3>1, <1>4
    <3>4. count(i - 1) \in Nat /\ count(i) \in Nat
      BY <3>1, <1>4
    <3>5. latest(i - 1) \in Nat /\ latest(i) \in Nat
      BY <3>1, <1>2
    <3> HIDE DEF count, latest
    <3>6. CASE count(i - 1) = 0
      BY <3>6, <3>4
    <3>7. CASE count(i - 1) # 0
      <4>1. count(i - 1) \in 1 .. Len(message_log)
        BY <3>3, <3>4, <3>7 DEF Logged
      <4>2. message_log[count(i - 1)].sequence <= latest(i - 1)
        BY <3>3, <3>4, <4>1 DEF Logged
      <4>3. message_log[count(i - 1)].sequence \in Nat
        BY <4>1 DEF LogInv, LogIsInput
      <4>4. message_log[count(i - 1)].sequence <= latest(i)
        BY <4>2, <4>3, <3>2, <3>5
      <4> QED
        BY <4>1, <4>4, <3>3, <3>4 DEF Logged
    <3> QED
      BY <3>6, <3>7
  <2> QED
    BY <2>1, <2>2
<1> HIDE DEF count, latest
<1>6. \A i \in 1 .. N : CountOn(count(i - 1), PagedRecords[i]) = count(i)
  <2> TAKE i \in 1 .. N
  <2>1. /\ PagedRecords[i].last_sequence \in Nat
        /\ Logged(PagedRecords[i].last_sequence, count(i))
    BY <1>2, <1>4 DEF latest
  <2> QED
    BY <2>1, <1>3, <1>5, CountOnIs DEF LogInv
<1>7. count(0) = 0
  BY DEF count
<1> DEFINE counts == [i \in 0 .. N |-> count(i)]
<1>8. counts = CountRule(counts)
  <2>1. ASSUME NEW i \in 0 .. N
        PROVE  counts[i] = IF i = 0 THEN 0 ELSE CountOn(counts[i - 1], PagedRecords[i])
    <3>1. CASE i = 0
      BY <3>1, <1>7
    <3>2. CASE i # 0
      <4>1. i \in 1 .. N /\ i - 1 \in 0 .. N
        BY <3>2, <1>1
      <4>2. counts[i] = count(i) /\ counts[i - 1] = count(i - 1)
        BY <4>1
      <4> HIDE DEF counts
      <4> QED
        BY <3>2, <4>1, <4>2, <1>6
    <3> QED
      BY <3>1, <3>2
  <2> QED
    BY <2>1 DEF CountRule, N
<1>9. MessagesCounted = [i \in 1 .. N |-> (CHOOSE f : f = CountRule(f))[i]]
  BY DEF MessagesCounted, CountRule, CountOn, N
<1> HIDE DEF counts
<1>10. PICK f : f = CountRule(f) /\ \A i \in 1 .. N : MessagesCounted[i] = f[i]
  BY <1>8, <1>9
<1>11. \A i \in 0 .. N : f[i] = IF i = 0 THEN 0 ELSE CountOn(f[i - 1], PagedRecords[i])
  BY <1>10 DEF CountRule, N
<1> DEFINE Same == {i \in Nat : i <= N => f[i] = count(i)}
<1>12. 0 \in Same
  BY <1>1, <1>7, <1>11
<1>13. ASSUME NEW i \in Nat, i \in Same PROVE i + 1 \in Same
  <2> SUFFICES ASSUME i + 1 <= N PROVE f[i + 1] = count(i + 1)
    OBVIOUS
  <2>1. i + 1 \in 1 .. N /\ i + 1 \in 0 .. N /\ i + 1 # 0 /\ (i + 1) - 1 = i /\ f[i] = count(i)
    BY <1>1, <1>13
  <2>2. f[i + 1] = CountOn(f[(i + 1) - 1], PagedRecords[i + 1])
    BY <2>1, <1>11
  <2>3. CountOn(count((i + 1) - 1), PagedRecords[i + 1]) = count(i + 1)
    BY <2>1, <1>6
  <2> QED
    BY <2>1, <2>2, <2>3
<1> HIDE DEF Same
<1>14. n \in Nat /\ n \in 1 .. N /\ n \in Same
  BY <1>1, <1>12, <1>13, UpwardInduction
<1> QED
  BY <1>10, <1>14 DEF Same, count, latest

-----------------------------------------------------------------------------
(* The counts beside a section are those of the log when the pager opened. *)
CountsKept == \A n \in DOMAIN sections : sections[n].counted = promised[n]

ViewInv == PagerInv /\ LogInv /\ ScreenInv /\ CountsKept

LEMMA LogStays ==
  ASSUME LogInv, UNCHANGED <<message_log, input>>, AllRecords' = AllRecords
  PROVE  LogInv'
  BY DEF LogInv, LogIsInput, LastIsHeld

LEMMA LogTracking == FlowInv /\ LogInv /\ Next => LogInv'
<1> SUFFICES ASSUME FlowInv, LogInv, Next PROVE LogInv'
  OBVIOUS
<1>1. ASSUME NEW m \in Messages, RecordMessage(m) PROVE LogInv'
  BY <1>1, LogMessage, LastStep DEF LogInv
<1>2. CASE EndLine
  <2>1. UNCHANGED <<message_log, input>>
    BY <1>2 DEF EndLine
  <2> QED
    BY <1>2, <2>1, LineRecords, LogStays
<1> QED
  BY <1>1, <1>2 DEF Next

LEMMA ViewInit == PagerInit => ViewInv
<1> SUFFICES ASSUME PagerInit PROVE ViewInv
  OBVIOUS
<1>1. /\ Len(message_log) = 0 /\ Len(input) = 0 /\ sections = <<>> /\ AllRecords = {}
  BY DEF PagerInit, Init, AllRecords
<1>2. LogInv
  BY <1>1 DEF LogInv, LogIsInput, LastIsHeld
<1>3. CountsKept
  BY <1>1 DEF CountsKept
<1> QED
  BY <1>2, <1>3, PagerInitInv, ScreenInit DEF ViewInv

LEMMA ViewOpens == ViewInv /\ OpenPager => ViewInv'
<1> SUFFICES ASSUME ViewInv, OpenPager PROVE ViewInv'
  OBVIOUS
<1>1. PagerInv'
  BY OpenStep DEF ViewInv
<1>2. LogInv'
  <2>1. /\ DOMAIN orders' = {} /\ completed' = <<>> /\ message_log' = <<>> /\ input' = <<>>
        /\ printed' = <<>>
    BY DEF OpenPager, ViewInv, PagerInv
  <2>2. AllRecords' = {} /\ Len(message_log') = 0 /\ Len(input') = 0
    BY <2>1 DEF AllRecords
  <2> QED
    BY <2>2 DEF LogInv, LogIsInput, LastIsHeld
<1> DEFINE N == Len(PagedRecords)
<1>3. FlowInv /\ LogInv /\ LastIsHeld
  BY DEF ViewInv, PagerInv, LogInv
<1>4. /\ PagedRecords \in Seq(Records) /\ N \in Nat /\ DOMAIN PagedRecords = 1 .. N
      /\ \A n \in 1 .. N : PagedRecords[n] \in Records
  BY <1>3, PagedAre, ElementOfSeq
<1>5. /\ DOMAIN sections' = 1 .. N
      /\ \A n \in 1 .. N : sections'[n] = [lines    |-> DetailLines(PagedRecords[n]),
                                           terminal |-> IsTerminal(PagedRecords[n]),
                                           counted  |-> MessagesCounted[n]]
      /\ sections' = [n \in 1 .. N |-> sections'[n]]
  BY <1>4 DEF OpenPager
<1>6. \A n \in 1 .. N : promised'[n] = Cardinality(TypedUpTo(PagedRecords[n].last_sequence))
  BY <1>4 DEF OpenPager, TypedUpTo
<1> HIDE DEF N
<1>7. ASSUME NEW n \in 1 .. N
      PROVE  MessagesCounted[n] = promised'[n] /\ MessagesCounted[n] \in Nat
  <2> DEFINE L == PagedRecords[n].last_sequence
  <2>1. MessagesCounted[n] = Cardinality(TypedUpTo(L))
    BY <1>3, <1>4, CountedIs
  <2>2. L \in Nat
    BY <1>3, <1>4, RecordsAre
  <2>3. IsFiniteSet(TypedUpTo(L))
    <3> HIDE DEF L
    <3>1. IsFiniteSet(0 .. L)
      BY <2>2, FS_Interval
    <3> QED
      BY <3>1, FS_Subset DEF TypedUpTo
  <2> QED
    BY <2>1, <2>3, <1>6, FS_CardinalityType
<1>8. ASSUME NEW n \in 1 .. N PROVE DetailLines(PagedRecords[n]) \in Nat \ {0}
  <2>1. PICK r \in Records : r = PagedRecords[n]
    BY <1>4
  <2>2. IsFiniteSet(Kept(r.events))
    <3>1. IsFiniteSet(r.events)
      BY <1>3, RecordsAre
    <3> QED
      BY <3>1, FS_Subset DEF Kept
  <2>3. Cardinality(Kept(r.events)) \in Nat
    BY <2>2, FS_CardinalityType
  <2>4. DetailLines(r) \in Nat \ {0}
    BY <2>3, PagerAssumption DEF DetailLines
  <2> QED
    BY <2>1, <2>4
<1>9. SectionsTyped'
  <2> DEFINE S == [lines : Nat \ {0}, terminal : BOOLEAN, counted : Nat]
  <2>1. \A r : IsTerminal(r) \in BOOLEAN
    BY DEF IsTerminal
  <2>2. \A n \in 1 .. N : sections'[n] \in S
    BY <2>1, <1>5, <1>7, <1>8
  <2> HIDE DEF S
  <2>3. sections' \in [1 .. N -> S] /\ N \in Nat
    BY <2>2, <1>4, <1>5 DEF N
  <2>4. sections' \in Seq(S)
    BY <2>3, SeqDef
  <2> QED
    BY <2>4 DEF SectionsTyped, S
<1>10. CountsKept'
  BY <1>5, <1>7 DEF CountsKept
<1>11. ScreenInv'
  <2>1. size' \in [width : Nat, height : Nat]
    BY PagerAssumption DEF OpenPager
  <2>2. UNCHANGED <<scroll_y, reached, jumped>> /\ pager' = "draw"
    BY DEF OpenPager
  <2> QED
    BY <1>9, <2>1, <2>2 DEF ViewInv, ScreenInv, OnScreen
<1> QED
  BY <1>1, <1>2, <1>10, <1>11 DEF ViewInv

LEMMA ScreenStays ==
  ASSUME ScreenInv, UNCHANGED <<sections, scroll_y, drawn, reached, jumped>>,
         size' \in [width : Nat, height : Nat], OnScreen' => OnScreen
  PROVE  ScreenInv'
<1>1. /\ SectionsTyped' /\ RightLines' = RightLines
      /\ \A line : SectionIndexForLine(line)' = SectionIndexForLine(line)
  BY SameSections DEF ScreenInv
<1>2. DrawingIs => DrawingIs'
  BY <1>1 DEF DrawingIs
<1> QED
  BY <1>1, <1>2 DEF ScreenInv

LEMMA ViewStep == ViewInv /\ [PagerNext]_allVars => ViewInv'
<1> SUFFICES ASSUME ViewInv, [PagerNext]_allVars PROVE ViewInv'
  OBVIOUS
<1>1. PagerInv'
  BY PagerStep DEF ViewInv
<1>2. ASSUME UNCHANGED vars PROVE LogInv'
  <2>1. UNCHANGED <<message_log, input, orders, completed, printed>>
    BY <1>2 DEF vars
  <2>2. AllRecords' = AllRecords
    BY <2>1 DEF AllRecords
  <2> QED
    BY <2>1, <2>2, LogStays DEF ViewInv
<1>3. ASSUME UNCHANGED <<sections, promised>> PROVE CountsKept'
  BY <1>3 DEF ViewInv, CountsKept
<1>4. CASE UNCHANGED allVars
  <2>1. UNCHANGED <<vars, pager, sections, promised, size, scroll_y, drawn, reached, jumped>>
    BY <1>4 DEF allVars, pagerVars
  <2>2. ScreenInv'
    BY <2>1, ScreenStays DEF ViewInv, ScreenInv, OnScreen
  <2> QED
    BY <2>1, <2>2, <1>1, <1>2, <1>3 DEF ViewInv
<1>5. CASE Tracking
  <2>1. UNCHANGED <<pager, sections, promised, size, scroll_y, drawn, reached, jumped>> /\ Next
    BY <1>5 DEF Tracking, pagerVars
  <2>2. LogInv'
    BY <2>1, LogTracking DEF ViewInv, PagerInv
  <2>3. ScreenInv'
    BY <2>1, ScreenStays DEF ViewInv, ScreenInv, OnScreen
  <2> QED
    BY <2>1, <2>2, <2>3, <1>1, <1>3 DEF ViewInv
<1>6. CASE OpenPager
  BY <1>6, ViewOpens
<1>7. CASE Render
  <2>1. UNCHANGED <<vars, sections, promised>>
    BY <1>7 DEF Render
  <2> QED
    BY <2>1, <1>1, <1>2, <1>3, <1>7, ScreenRender DEF ViewInv
<1>8. CASE HandleKey
  <2>1. UNCHANGED <<vars, sections, promised>>
    BY <1>8 DEF HandleKey, Up, Down, Left, Right, PageUp, PageDown, Home, End, Quit, Scroll
  <2> QED
    BY <2>1, <1>1, <1>2, <1>3, <1>8, ScreenKey DEF ViewInv
<1>9. CASE OtherEvent \/ ResizeTerminal
  <2>1. UNCHANGED <<vars, sections, promised, scroll_y, drawn, reached, jumped>>
    BY <1>9 DEF OtherEvent, ResizeTerminal
  <2>2. size' \in [width : Nat, height : Nat]
    BY <1>9, PagerAssumption DEF OtherEvent, ResizeTerminal, ViewInv, ScreenInv
  <2>3. OnScreen' => OnScreen
    BY <1>9, <2>1 DEF OtherEvent, ResizeTerminal, OnScreen
  <2>4. ScreenInv'
    BY <2>1, <2>2, <2>3, ScreenStays DEF ViewInv
  <2> QED
    BY <2>1, <2>4, <1>1, <1>2, <1>3 DEF ViewInv
<1> QED
  BY <1>4, <1>5, <1>6, <1>7, <1>8, <1>9 DEF PagerNext

(* Who reads down from the top misses no line, and the right pane is never *)
(* scrolled past its end, for any log, any terminals and any resizing.     *)
THEOREM PagerSkipsNothing == PagerSpec => []NothingSkipped
<1>1. ScreenInv => NothingSkipped
  <2> SUFFICES ASSUME ScreenInv, OnScreen PROVE /\ ~jumped => DrawnLines \subseteq 0 .. reached - 1
                                                /\ drawn.top = 0
                                                   \/ drawn.top + drawn.size.height <= RightLines
    BY DEF NothingSkipped
  <2>1. SectionsTyped /\ DrawingIs /\ reached \in Nat
    BY DEF ScreenInv
  <2>2. PICK end \in Nat : /\ end = Least(drawn.top + drawn.size.height, RightLines)
                           /\ DrawnLines = drawn.top .. end - 1
    BY <2>1, DrawnIs
  <2> QED
    BY <2>1, <2>2 DEF DrawingIs
<1> QED
  BY <1>1, ViewInit, ViewStep, PTL DEF PagerSpec, ViewInv

(* The left pane shows the order at the top line, and beside it all the    *)
(* messages of the log up to the last of the order at the bottom line, for *)
(* any log, any terminal and wherever the reader is.                       *)
THEOREM PagerCountsRight == PagerSpec => []CountsThroughBottom
<1>1. ScreenInv /\ CountsKept => CountsThroughBottom
  <2> SUFFICES ASSUME ScreenInv, CountsKept, OnScreen, sections # <<>>
               PROVE  /\ drawn.current = OwnerOf(drawn.top)
                      /\ drawn.visible = OwnerOf(Bottom)
                      /\ sections[drawn.visible].counted = promised[OwnerOf(Bottom)]
    BY DEF CountsThroughBottom
  <2>1. SectionsTyped /\ DrawingIs
    BY DEF ScreenInv
  <2>2. /\ drawn.top \in Nat /\ RightLines \in Nat
        /\ drawn.current = SectionIndexForLine(drawn.top)
    BY <2>1, RightLinesAre DEF DrawingIs
  <2>3. /\ Bottom \in Nat /\ Bottom < RightLines /\ drawn.top < RightLines
        /\ drawn.visible = SectionIndexForLine(Bottom)
    <3>1. PICK end \in Nat : /\ end = Least(drawn.top + drawn.size.height, RightLines)
                             /\ drawn.top < end /\ Bottom = end - 1
                             /\ end - 1 = Least(drawn.top + Less(drawn.size.height, 1),
                                                Less(RightLines, 1))
      BY <2>1, DrawnIs
    <3>2. end <= RightLines
      BY <3>1, <2>1, <2>2 DEF Least, DrawingIs
    <3>3. drawn.visible = SectionIndexForLine(Bottom)
      BY <3>1, <2>1 DEF DrawingIs
    <3> QED
      BY <3>1, <3>2, <3>3, <2>2
  <2>4. drawn.current = OwnerOf(drawn.top)
    BY <2>1, <2>2, <2>3, IndexIsOwner
  <2>5. drawn.visible = OwnerOf(Bottom) /\ drawn.visible \in 1 .. Len(sections)
    BY <2>1, <2>3, IndexIsOwner
  <2>6. DOMAIN sections = 1 .. Len(sections)
    BY <2>1, SectionsAre
  <2> QED
    BY <2>4, <2>5, <2>6 DEF CountsKept
<1> QED
  BY <1>1, ViewInit, ViewStep, PTL DEF PagerSpec, ViewInv
=============================================================================
