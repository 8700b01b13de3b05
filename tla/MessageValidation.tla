-------------------------- MODULE MessageValidation -------------------------
(***************************************************************************)
(* The report on a message (validator.rs).  A message is a sequence of     *)
(* fields with tag and value; a value is a number, a negative number or a  *)
(* text that is no number.  A report is the set of its errors; most belong *)
(* to a tag, at which the rendering shows them, and some to none.          *)
(***************************************************************************)
EXTENDS MessageDefs, FiniteSets

Negative == -1
NoNumber == -2

NoTag == 0
BodyLength == 9
CheckSum == 10
MsgType == 35

IsCount(value) == value >= 0
CountOf(value) == IF IsCount(value) THEN value ELSE 0

Error(what, tag) == [what |-> what, tag |-> tag]
Tags(msg) == {msg[i].tag : i \in DOMAIN msg}
LastOf(msg, tag) == Max({i \in DOMAIN msg : msg[i].tag = tag})
LastValue(msg, tag) == msg[LastOf(msg, tag)].value

(* What was read from a field on: where the reading goes on, and errors.   *)
UpTo(i) == [next |-> i, errors |-> {}, left |-> 0]
Then(errors, result) == [result EXCEPT !.errors = @ \cup errors]
-----------------------------------------------------------------------------
(* The definition of the message, if it has one.                           *)
HasMessageDef(msg, chain) ==
    MsgType \in Tags(msg) /\ HasDef(chain, LastValue(msg, MsgType))
TypeErrors(msg, chain) ==
    IF MsgType \notin Tags(msg) THEN {Error("missing", MsgType)}
    ELSE IF HasMessageDef(msg, chain) THEN {} ELSE {Error("unknown type", MsgType)}
-----------------------------------------------------------------------------
(* A tag occurs once: in the message outside of groups, and in each entry. *)
Duplicate(tag, seen) == IF tag \in seen THEN {Error("duplicate", tag)} ELSE {}

RECURSIVE EntriesDuplicates(_, _, _, _), EntryDuplicates(_, _, _, _, _)
EntriesDuplicates(msg, i, left, spec) ==
    IF i > Len(msg) \/ left = 0 THEN UpTo(i)
    ELSE IF msg[i].tag \notin {spec.delim} \cup DOMAIN spec.pos THEN UpTo(i)
    ELSE LET entry == EntryDuplicates(msg, i, i, {}, spec)
         IN  Then(entry.errors,
                  EntriesDuplicates(msg, Max({entry.next, i + 1}), left - 1, spec))
EntryDuplicates(msg, start, i, seen, spec) ==
    IF \/ i > Len(msg)
       \/ msg[i].tag = spec.delim /\ i # start
       \/ msg[i].tag \notin DOMAIN spec.pos
    THEN UpTo(i)
    ELSE LET tag   == msg[i].tag
             inner == IF tag \in DOMAIN spec.nested
                      THEN EntriesDuplicates(msg, i + 1, CountOf(msg[i].value), spec.nested[tag])
                      ELSE UpTo(i + 1)
         IN  Then(inner.errors \cup Duplicate(tag, seen),
                  EntryDuplicates(msg, start, inner.next, seen \cup {tag}, spec))

RECURSIVE DuplicatesFrom(_, _, _, _)
DuplicatesFrom(msg, i, seen, def) ==
    IF i > Len(msg) THEN {}
    ELSE LET tag   == msg[i].tag
             group == IF tag \in DOMAIN def.groups
                      THEN EntriesDuplicates(msg, i + 1, CountOf(msg[i].value), def.groups[tag])
                      ELSE UpTo(i + 1)
         IN  Duplicate(tag, seen) \cup group.errors
                 \cup DuplicatesFrom(msg, group.next, seen \cup {tag}, def)

DuplicatesWithoutDef(msg, chain) ==
    {Error("duplicate", msg[i].tag) : i \in
        {j \in DOMAIN msg : /\ \E k \in 1 .. j - 1 : msg[k].tag = msg[j].tag
                            /\ ~IsRepeatable(chain, msg[j].tag)}}
-----------------------------------------------------------------------------
(* A field is known; one of an override is known to what it overrides; its *)
(* value is one of those, and of the type, that the dictionaries name.     *)
FitsType(value, type) == type = "number" => value # NoNumber
FieldErrors(field, chain, overridden) ==
    IF ~Knows(chain, field.tag) THEN {Error("unknown tag", field.tag)}
    ELSE LET values == ValuesFor(chain, field.tag)
         IN  {Error(what, field.tag) : what \in
                 {w \in {"not in detected", "value", "type"} :
                     CASE w = "not in detected" -> overridden /\ ~Knows(Tail(chain), field.tag)
                       [] w = "value" -> values # {} /\ field.value \notin values
                       [] w = "type" -> ~FitsType(field.value, TypeFor(chain, field.tag))}}

RequiredErrors(required, seen) == {Error("missing", tag) : tag \in required \ seen}

(* Fields are in the order of the definition, each after the one before    *)
(* it, but for those that are not in it.                                   *)
OrderErrors(msg, def) ==
    LET ordered == SelectSeq(msg, LAMBDA f : f.tag \in DOMAIN def.pos)
        before(i) == def.pos[ordered[i].tag] < def.pos[ordered[i - 1].tag]
    IN  {Error("order", ordered[i].tag) : i \in {j \in 2 .. Len(ordered) : before(j)}}
-----------------------------------------------------------------------------
(* A group has the entries its count announces, each beginning with its    *)
(* first field; its fields are in their order, the required ones there.    *)
Owns(def, spec, tag) == tag \in DOMAIN def.membership /\ def.membership[tag] = spec.count

RECURSIVE GroupInstance(_, _, _, _), GroupEntries(_, _, _, _, _), GroupEntry(_, _, _, _, _, _, _)
GroupInstance(msg, i, spec, def) ==
    LET count  == CountOf(msg[i].value)
        result == GroupEntries(msg, i + 1, count, spec, def)
    IN  Then({Error(what, spec.count) : what \in
                 {w \in {"count", "entries"} :
                     CASE w = "count" -> ~IsCount(msg[i].value)
                       [] w = "entries" -> result.left > 0}}, result)
GroupEntries(msg, i, left, spec, def) ==
    IF i > Len(msg) \/ left = 0 THEN [UpTo(i) EXCEPT !.left = left]
    ELSE IF msg[i].tag = spec.delim
    THEN LET entry == GroupEntry(msg, i, i, 0, {}, spec, def)
         IN  Then(entry.errors, GroupEntries(msg, entry.next, left - 1, spec, def))
    ELSE IF Owns(def, spec, msg[i].tag)
    THEN Then({Error("delimiter", msg[i].tag)}, GroupEntries(msg, i + 1, left, spec, def))
    ELSE [UpTo(i) EXCEPT !.left = left]
GroupEntry(msg, start, i, last, seen, spec, def) ==
    IF \/ i > Len(msg)
       \/ msg[i].tag = spec.delim /\ i # start
       \/ msg[i].tag \notin DOMAIN spec.pos
    THEN Then(RequiredErrors(spec.required, seen), UpTo(i))
    ELSE LET tag   == msg[i].tag
             inner == IF tag \in DOMAIN spec.nested
                      THEN GroupInstance(msg, i, spec.nested[tag], def) ELSE UpTo(i + 1)
         IN  Then(inner.errors \cup (IF spec.pos[tag] < last THEN {Error("order", tag)} ELSE {}),
                  GroupEntry(msg, start, inner.next, spec.pos[tag], seen \cup {tag}, spec, def))

RECURSIVE GroupErrorsFrom(_, _, _)
GroupErrorsFrom(msg, i, def) ==
    IF i > Len(msg) THEN {}
    ELSE LET tag   == msg[i].tag
             group == IF tag \in DOMAIN def.groups
                      THEN GroupInstance(msg, i, def.groups[tag], def) ELSE UpTo(i + 1)
             stray == IF tag \in DOMAIN def.membership \ DOMAIN def.groups
                      THEN {Error("outside", tag)} ELSE {}
         IN  stray \cup group.errors \cup GroupErrorsFrom(msg, group.next, def)
-----------------------------------------------------------------------------
(* BodyLength counts what is between it and the CheckSum.  It is looked    *)
(* for in the text: a tag that ends in its digit is taken for it.          *)
LooksLikeLength(tag) == tag % 10 = BodyLength
ActualLength(msg) ==
    LET after  == Min({i \in DOMAIN msg : LooksLikeLength(msg[i].tag)})
        before == LastOf(msg, CheckSum)
    IN  IF CheckSum \in Tags(msg) /\ after + 1 < before THEN before - after - 1 ELSE NoNumber
LengthErrors(msg) ==
    IF BodyLength \notin Tags(msg) THEN {Error("no length", NoTag)}
    ELSE LET declared == LastValue(msg, BodyLength)
         IN  IF ~IsCount(declared) THEN {Error("invalid length", NoTag)}
             ELSE IF ActualLength(msg) = NoNumber THEN {Error("unable to compute", NoTag)}
             ELSE IF declared # ActualLength(msg) THEN {Error("length", BodyLength)} ELSE {}

SumOf(fields) == FoldLeft(LAMBDA sum, f : (sum + f.tag) % 256, 0, fields)
CheckSumErrors(msg) ==
    IF CheckSum \notin Tags(msg) THEN {Error("no checksum", NoTag)}
    ELSE IF SumOf(SubSeq(msg, 1, LastOf(msg, CheckSum) - 1)) # LastValue(msg, CheckSum)
    THEN {Error("checksum", CheckSum)} ELSE {}
-----------------------------------------------------------------------------
Report(msg, chain, overridden) ==
    TypeErrors(msg, chain) \cup LengthErrors(msg) \cup CheckSumErrors(msg)
    \cup UNION {FieldErrors(msg[i], chain, overridden) : i \in DOMAIN msg}
    \cup IF ~HasMessageDef(msg, chain) THEN DuplicatesWithoutDef(msg, chain)
         ELSE LET def == DefOf(chain, LastValue(msg, MsgType))
              IN  DuplicatesFrom(msg, 1, {}, def)
                  \cup RequiredErrors(def.required, Tags(msg))
                  \cup OrderErrors(msg, def)
                  \cup GroupErrorsFrom(msg, 1, def)
TagErrors(report) == {e.tag : e \in report} \ {NoTag}
=============================================================================
