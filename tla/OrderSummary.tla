---------------------------- MODULE OrderSummary ----------------------------
(***************************************************************************)
(* fixdecoder --summary: OrderSummary follows the orders of a log.  Every  *)
(* message of an order flow goes to the record of its order, found by way  *)
(* of any identifier seen before; a record moves between `orders` (open)   *)
(* and `completed` as its state changes; in follow mode completed records  *)
(* are printed and forgotten after each line of the log.                   *)
(*                                                                         *)
(* A message is what the tracker looks at: whether it is administrative,   *)
(* its identifiers (tags 37, 11, 41), its time (60 or 52), and the codes   *)
(* its state is derived from.  Keys of records are identifiers.            *)
(***************************************************************************)
EXTENDS Integers, Sequences, FiniteSets, SequencesExt

CONSTANTS
    Ids,           \* values of tags 37, 11 and 41
    MsgTypes,      \* values of tag 35
    None,          \* Option::None
    Messages,      \* the messages a log may hold
    MaxMessages    \* bound: how many of them it holds

Maybe(S) == S \cup {None}

(* The labels of tags 39 and 150 (label_ord_status_raw, label_exec_type_raw)*)
(* and those of them that end an order.                                    *)
Final == {"Filled", "Canceled", "Rejected", "Done for Day", "Expired", "Stopped",
          "Suspended", "Calculated"}
Labels == Final \cup {"Pending New", "New", "Partially Filled", "Replaced", "Pending Cancel",
                      "Accepted for Bidding", "Pending Replace", "Trade", "Trade Correct",
                      "Trade Cancel", "Order Status"}
AckLabel == [code \in {"0", "1", "2", "3", "4"} |->
               CASE code = "0" -> "Received"  [] code = "1" -> "Accepted"
                 [] code = "2" -> "Dont Know" [] code = "3" -> "Rejected"
                 [] code = "4" -> "Accepted With Errors"]
AckCodes == DOMAIN AckLabel

(* `type` is tag 35; `admin` what the dictionary says of it; a code that   *)
(* has no label counts as None.                                            *)
Message == [type : Maybe(MsgTypes), admin : BOOLEAN,
            order_id : Maybe(Ids), cl_ord_id : Maybe(Ids), orig : Maybe(Ids),
            time : Maybe(Nat), ord_status : Maybe(Labels), exec_type : Maybe(Labels),
            exec_ack : Maybe(AckCodes), leaves_zero : BOOLEAN]

ASSUME SummaryAssumption ==
    /\ Messages \subseteq Message
    /\ None \notin Ids /\ None \notin Nat /\ None \notin Labels /\ None \notin AckCodes
    /\ MaxMessages \in Nat

VARIABLES
    follow,            \* --follow on a terminal: completed orders are printed live
    orders,            \* open records by key
    aliases,           \* identifier -> key
    unknown_counter,
    completed,
    message_log,
    total_orders, terminal_orders,
    next_sequence,
    in_line,           \* messages of the current line tracked so far
    printed,           \* history: the records printed and forgotten
    input              \* history: the messages tracked

vars == <<follow, orders, aliases, unknown_counter, completed, message_log, total_orders,
          terminal_orders, next_sequence, in_line, printed, input>>

Init == /\ follow \in BOOLEAN
        /\ orders = [key \in {} |-> None] /\ aliases = [id \in {} |-> None]
        /\ unknown_counter = 0
        /\ completed = <<>> /\ message_log = <<>>
        /\ total_orders = 0 /\ terminal_orders = 0 /\ next_sequence = 0
        /\ in_line = 0 /\ printed = <<>> /\ input = <<>>

-----------------------------------------------------------------------------
(* OrderEvent::from_fields and derive_state.                               *)
DeriveState(m) ==
    CASE m.ord_status # None -> m.ord_status
      [] m.ord_status = None /\ m.exec_type # None -> m.exec_type
      [] m.ord_status = None /\ m.exec_type = None /\ m.exec_ack # None -> AckLabel[m.exec_ack]
      [] OTHER -> IF m.leaves_zero THEN "Filled" ELSE "Unknown"

EventOf(m, sequence) == [sequence |-> sequence, fields |-> m]

(* compare_event_position: by time, then by arrival; without a time last.  *)
Before(e, f) ==
    LET t == e.fields.time  u == f.fields.time
    IN  \/ t # None /\ u = None
        \/ t = u /\ e.sequence < f.sequence
        \/ t # None /\ u # None /\ t < u

(* What an event shows of its message: all but the OrderID.                *)
Fingerprint(e) == [e.fields EXCEPT !.order_id = None, !.admin = FALSE]

(* ordered_events keeps the first of events that look the same; the state  *)
(* of the last one kept ends state_path.                                   *)
Kept(events) == {e \in events :
                    ~\E f \in events : Before(f, e) /\ Fingerprint(f) = Fingerprint(e)}
LatestState(r) ==
    DeriveState((CHOOSE e \in Kept(r.events) :
                   \A f \in Kept(r.events) \ {e} : Before(f, e)).fields)

(* The acknowledgement that counts is the latest to arrive.                *)
LatestAck(r) ==
    LET acked == {e \in r.events : e.fields.exec_ack # None}
    IN  IF acked = {} THEN None
        ELSE (CHOOSE e \in acked : \A f \in acked : f.sequence <= e.sequence).fields.exec_ack

IsTerminal(r) ==
    \/ LatestState(r) \in Final
    \/ LatestAck(r) \in {"1", "3", "4"}

-----------------------------------------------------------------------------
(* record_message_with_lookup                                              *)

IdsOf(m) == {m.order_id, m.cl_ord_id, m.orig} \ {None}
OrElse(a, b) == IF a # None THEN a ELSE b

IgnoredIfAdmin(m) == m.admin \/ IdsOf(m) = {}
(* should_ignore_summary_message                                           *)
Ignored(m) ==
    \/ m.admin
    \/ /\ m.order_id = None /\ m.cl_ord_id = None
       /\ m.orig = None \/ m.orig \notin DOMAIN aliases

UnknownKey(n) == <<"UNKNOWN", n>>
NeedsName(m) == /\ m.order_id = None /\ m.cl_ord_id = None
                /\ m.orig = None \/ m.orig \notin DOMAIN aliases

FirstIdOnly(m) == IF m.order_id \in DOMAIN aliases THEN aliases[m.order_id] ELSE m.order_id
(* resolve_key: the record of the first identifier that has one.  A new    *)
(* key is the OrderID, or else the ClOrdID, or made up.                    *)
ResolveKey(m) ==
    LET lookup(id, otherwise) == IF id \in DOMAIN aliases THEN aliases[id] ELSE otherwise
        new == OrElse(m.order_id, OrElse(m.cl_ord_id, UnknownKey(unknown_counter + 1)))
    IN  lookup(m.order_id, lookup(m.cl_ord_id, lookup(m.orig, new)))

Overwritten(key, ids) == [id \in DOMAIN aliases \cup ids |->
                            IF id \in ids THEN key ELSE aliases[id]]
(* note_aliases: an identifier keeps the key it was first seen with.       *)
NoteAliases(key, ids) == [id \in DOMAIN aliases \cup ids |->
                            IF id \in DOMAIN aliases THEN aliases[id] ELSE key]

NewRecord(key) == [key |-> key, order_id |-> None, cl_ord_id |-> None, orig |-> None,
                   last_sequence |-> 0, events |-> {}]

AnyCompleted(key) == DOMAIN completed
CompletedAt(key) == {i \in DOMAIN completed : completed[i].key = key}

(* merge_ids, absorb_fields and the new event.                             *)
Merged(r, m) ==
    [r EXCEPT !.order_id = OrElse(@, m.order_id), !.cl_ord_id = OrElse(@, m.cl_ord_id),
              !.orig = OrElse(@, m.orig), !.last_sequence = next_sequence,
              !.events = @ \cup {EventOf(m, next_sequence)}]

(* The record of `key`, open, completed before or new, takes message m:    *)
(* `kept` are the completed records left when it has been taken out.       *)
Track(m, key, r, kept, terminals) ==
    LET record == Merged(r, m)
    IN  IF IsTerminal(record)
        THEN /\ completed' = Append(kept, record)
             /\ orders' = Restrict(orders, DOMAIN orders \ {key})
             /\ terminal_orders' = terminals + 1
        ELSE /\ completed' = kept
             /\ orders' = [k \in DOMAIN orders \cup {key} |->
                             IF k = key THEN record ELSE orders[k]]
             /\ terminal_orders' = terminals

ReopenUncounted(m, key) ==
    \E i \in CompletedAt(key) :
        /\ Track(m, key, completed[i], RemoveAt(completed, i), terminal_orders)
        /\ UNCHANGED total_orders
ReopenCopy(m, key) ==
    /\ CompletedAt(key) # {}
    /\ \E i \in CompletedAt(key) : Track(m, key, completed[i], completed, terminal_orders - 1)
    /\ UNCHANGED total_orders
(* A completed record that is not printed yet is open again.               *)
Reopen(m, key) ==
    \E i \in CompletedAt(key) :
        /\ Track(m, key, completed[i], RemoveAt(completed, i),
                 terminal_orders - (IF IsTerminal(completed[i]) /\ terminal_orders > 0
                                    THEN 1 ELSE 0))
        /\ UNCHANGED total_orders

RecordMessage(m) ==
    LET key == ResolveKey(m)
    IN  /\ next_sequence < MaxMessages
        /\ next_sequence' = next_sequence + 1
        /\ message_log' = IF m.type = None THEN message_log
                          ELSE Append(message_log, [sequence |-> next_sequence, type |-> m.type])
        /\ IF Ignored(m)
           THEN UNCHANGED <<orders, aliases, unknown_counter, completed, total_orders,
                            terminal_orders>>
           ELSE /\ unknown_counter' = unknown_counter + (IF NeedsName(m) THEN 1 ELSE 0)
                /\ aliases' = NoteAliases(key, IdsOf(m))
                /\ \/ /\ key \in DOMAIN orders
                      /\ Track(m, key, orders[key], completed, terminal_orders)
                      /\ UNCHANGED total_orders
                   \/ key \notin DOMAIN orders /\ Reopen(m, key)
                   \/ /\ key \notin DOMAIN orders /\ CompletedAt(key) = {}
                      /\ Track(m, key, NewRecord(key), completed, terminal_orders)
                      /\ total_orders' = total_orders + 1
        /\ in_line' = in_line + 1
        /\ input' = Append(input, m)
        /\ UNCHANGED <<follow, printed>>

(* render_summary_footer after a line that held messages: in follow mode   *)
(* render_completed prints and clears the completed records.               *)
EndLine ==
    /\ in_line > 0
    /\ in_line' = 0
    /\ IF follow
       THEN printed' = printed \o completed /\ completed' = <<>>
       ELSE UNCHANGED <<printed, completed>>
    /\ UNCHANGED <<follow, orders, aliases, unknown_counter, message_log, total_orders,
                   terminal_orders, next_sequence, input>>

(* The summary pager shows the records by the last message of each, and    *)
(* beside each how many messages of the log there were by then:            *)
(* build_paged_sections counts on from where the record before stopped.    *)
Records == {orders[key] : key \in DOMAIN orders} \cup Range(completed)
PagedRecords ==
    CHOOSE s \in [1 .. Cardinality(Records) -> Records] :
        \A i, j \in DOMAIN s : i < j => s[i].last_sequence < s[j].last_sequence
MessagesCounted ==
    LET upTo(n, r) == CHOOSE k \in n .. Len(message_log) :
                        /\ \A i \in n + 1 .. k : message_log[i].sequence <= r.last_sequence
                        /\ k < Len(message_log) => message_log[k + 1].sequence > r.last_sequence
        after[n \in 0 .. Len(PagedRecords)] ==
            IF n = 0 THEN 0 ELSE upTo(after[n - 1], PagedRecords[n])
    IN  [n \in 1 .. Len(PagedRecords) |-> after[n]]

Next == (\E m \in Messages : RecordMessage(m)) \/ EndLine

Spec == Init /\ [][Next]_vars
-----------------------------------------------------------------------------
Keys == Ids \cup {"UNKNOWN"} \X Nat
Event == [sequence : Nat, fields : Messages]
Record == [key : Keys, order_id : Maybe(Ids), cl_ord_id : Maybe(Ids), orig : Maybe(Ids),
           last_sequence : Nat, events : SUBSET Event]

TypeOK ==
    /\ follow \in BOOLEAN
    /\ DOMAIN orders \subseteq Keys /\ \A key \in DOMAIN orders : orders[key] \in Record
    /\ DOMAIN aliases \subseteq Ids /\ \A id \in DOMAIN aliases : aliases[id] \in Keys
    /\ completed \in Seq(Record) /\ printed \in Seq(Record)
    /\ unknown_counter \in Nat /\ next_sequence \in Nat /\ in_line \in Nat
    /\ total_orders \in Nat /\ terminal_orders \in Nat
    /\ input \in Seq(Messages)
    /\ message_log \in Seq([sequence : Nat, type : MsgTypes])

(* An order is kept once: a key has an open record, or one completed       *)
(* record, or none; open records are open and completed ones terminal.     *)
KeptOnce ==
    /\ \A key \in DOMAIN orders :
          orders[key].key = key /\ ~IsTerminal(orders[key]) /\ CompletedAt(key) = {}
    /\ \A i \in DOMAIN completed : IsTerminal(completed[i])
    /\ \A i, j \in DOMAIN completed : completed[i].key = completed[j].key => i = j

(* "Status: open=.. filled=.. total=..": the three numbers of the footer   *)
(* add up, though completed orders reopen and are printed and forgotten;   *)
(* every record there ever was is open, completed or printed.              *)
StatusAddsUp ==
    /\ total_orders = Cardinality(DOMAIN orders) + terminal_orders
    /\ terminal_orders = Len(completed) + Len(printed)

(* An identifier never moves from one order to another.                    *)
IdsStay ==
    [][Next => \A id \in DOMAIN aliases :
                  id \in DOMAIN aliases' /\ aliases'[id] = aliases[id]]_vars

AllRecords == {orders[key] : key \in DOMAIN orders}
                  \cup {completed[i] : i \in DOMAIN completed}
                  \cup {printed[i] : i \in DOMAIN printed}
Holds(r, n) == \E e \in r.events : e.sequence = n

(* README, "each application message that can be tied to an order flow is  *)
(* consumed" and "application messages without a resolvable order          *)
(* identifier are skipped": a message is in the flow of an order if it has *)
(* an OrderID or ClOrdID, or an OrigClOrdID that was seen in an order flow.*)
(* The positions of these messages among the first n of the log:           *)
OrderFlow[n \in 0 .. Len(input)] ==
    IF n = 0 THEN {}
    ELSE LET m == input[n]  flow == OrderFlow[n - 1]
         IN  IF /\ ~m.admin
                /\ \/ m.order_id # None \/ m.cl_ord_id # None
                   \/ m.orig # None /\ \E i \in flow : m.orig \in IdsOf(input[i])
             THEN flow \cup {n} ELSE flow

(* Every message of an order flow is in the timeline of exactly one record,*)
(* and no other message is in any.                                         *)
EveryMessageOnce ==
    \A n \in 1 .. Len(input) :
        Cardinality({r \in AllRecords : Holds(r, n - 1)}) =
            IF n \in OrderFlow[Len(input)] THEN 1 ELSE 0

(* The messages of a record belong together: each but the first shares an  *)
(* identifier with an earlier message of the record, so two orders are     *)
(* never mixed unless a message names identifiers of both; only a record   *)
(* that was printed and forgotten may hold the earlier message instead.    *)
SharesAnId ==
    \A r \in AllRecords : \A e \in r.events :
        LET m == input[e.sequence + 1]
        IN  \/ \A f \in r.events : e.sequence <= f.sequence
            \/ \E q \in AllRecords : q.key = r.key /\ \E f \in q.events :
                  f.sequence < e.sequence /\ IdsOf(m) \cap IdsOf(input[f.sequence + 1]) # {}

(* README, "the decoder builds one record per order (keyed by              *)
(* OrderID/ClOrdID/OrigClOrdID)": messages that share an identifier are in *)
(* the same record.                                                        *)
OneRecordPerOrder ==
    \A r, q \in AllRecords : \A e \in r.events, f \in q.events :
        IdsOf(input[e.sequence + 1]) \cap IdsOf(input[f.sequence + 1]) # {} => r.key = q.key
=============================================================================
