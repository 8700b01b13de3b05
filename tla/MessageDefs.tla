----------------------------- MODULE MessageDefs ----------------------------
(***************************************************************************)
(* What is known of a message from the XML of a FIX version                *)
(* (tag_lookup.rs): the order of its fields, those it requires, its        *)
(* repeating groups with the groups inside them, and which group owns a    *)
(* tag.  A dictionary has the fields, messages and components of the XML,  *)
(* "Header" and "Trailer" among the components; a lookup is what is built  *)
(* from it, and a chain is a lookup with those it falls back to.           *)
(***************************************************************************)
EXTENDS Integers, SequencesExt

Undeclared == -1   \* the tag of a name that is none of the dictionary's fields

(* The entries of a message, component or group, in the order of the XML.  *)
Field(tag, required) == [kind |-> "field", tag |-> tag, required |-> required]
Group(tag, required, entries) ==
    [kind |-> "group", tag |-> tag, required |-> required, entries |-> entries]
Component(name) == [kind |-> "component", name |-> name]

IsGroup(entry) == entry.kind = "group"
IsComponent(entry) == entry.kind = "component"

(* The fields and groups of entries, components replaced by what is in     *)
(* them: not by one that is unknown, or that it is within.  Each comes     *)
(* with the components it is within.                                       *)
RECURSIVE Expanded(_, _, _)
Expanded(dict, entries, within) ==
    FlattenSeq([i \in DOMAIN entries |->
        LET e == entries[i]
        IN  IF IsComponent(e)
            THEN IF e.name \in within \/ e.name \notin DOMAIN dict.components THEN << >>
                 ELSE Expanded(dict, dict.components[e.name], within \cup {e.name})
            ELSE IF e.tag = Undeclared THEN << >> ELSE <<[entry |-> e, within |-> within]>>])

TagsOf(items) == {items[i].entry.tag : i \in DOMAIN items}
Positions(items) ==
    [t \in TagsOf(items) |-> Min({i \in DOMAIN items : items[i].entry.tag = t})]
Required(items) ==
    {items[i].entry.tag : i \in {j \in DOMAIN items : items[j].entry.required}}

(* A group begins each of its entries with its first field.  The group     *)
(* inside it is the last one with its count tag.                           *)
FirstFieldTag(dict, group) ==   \* mutant: of its own fields only
    LET own == SelectSeq(group.entries, LAMBDA e : ~IsComponent(e))
    IN  IF own = << >> THEN group.tag ELSE own[1].tag
FirstEntryTag(dict, group) ==
    LET items == Expanded(dict, group.entries, {})
    IN  IF items = << >> THEN group.tag ELSE items[1].entry.tag

RECURSIVE GroupSpec(_, _, _)
GroupSpec(dict, group, within) ==
    LET items  == Expanded(dict, group.entries, within)
        groups == {i \in DOMAIN items : IsGroup(items[i].entry)}
        lastOf(t) == items[Max({i \in groups : items[i].entry.tag = t})]
    IN  [count |-> group.tag, delim |-> FirstEntryTag(dict, group),
         pos |-> Positions(items), required |-> Required(items),
         nested |-> [t \in {items[i].entry.tag : i \in groups} |->
                        GroupSpec(dict, lastOf(t).entry, lastOf(t).within)]]

(* The groups of entries and of the components in them, inside out.        *)
RECURSIVE GroupsIn(_, _, _)
GroupsIn(dict, entries, within) ==
    SelectSeq(entries, IsGroup) \o
    FlattenSeq([i \in DOMAIN entries |->
        IF \/ ~IsComponent(entries[i]) \/ entries[i].name \in within
           \/ entries[i].name \notin DOMAIN dict.components
        THEN << >>
        ELSE GroupsIn(dict, dict.components[entries[i].name], within \cup {entries[i].name})])

Wrapped(entries) == <<Component("Header")>> \o entries \o <<Component("Trailer")>>
OwnGroups(dict, entries) == SelectSeq(entries, IsGroup)   \* mutant: none of components
MessageGroups(dict, entries) ==
    SelectSeq(entries, IsGroup) \o
    GroupsIn(dict, Wrapped(SelectSeq(entries, IsComponent)), {})

(* The group that owns a tag.  The count of an inner group is its own.     *)
RECURSIVE Owners(_)
Owners(spec) ==
    LET inner(t) == {n \in DOMAIN spec.nested : t \in DOMAIN Owners(spec.nested[n])}
        tags     == DOMAIN spec.pos \cup
                    UNION {DOMAIN Owners(spec.nested[n]) : n \in DOMAIN spec.nested}
    IN  [t \in tags |-> IF inner(t) # {}
                        THEN Owners(spec.nested[CHOOSE n \in inner(t) : TRUE])[t]
                        ELSE IF t \in DOMAIN spec.nested THEN t ELSE spec.count]

MessageDef(dict, entries) ==
    LET items  == Expanded(dict, Wrapped(entries), {})
        groups == SelectSeq(MessageGroups(dict, entries), LAMBDA g : g.tag # Undeclared)
        specs  == [i \in DOMAIN groups |-> GroupSpec(dict, groups[i], {})]
        of(t)  == {i \in DOMAIN specs : specs[i].count = t}
        owning(t) == {i \in DOMAIN specs : t \in DOMAIN Owners(specs[i])}
    IN  [pos |-> Positions(items), required |-> Required(items),
         groups |-> [t \in {specs[i].count : i \in DOMAIN specs} |-> specs[Min(of(t))]],
         membership |-> [t \in UNION {DOMAIN Owners(specs[i]) : i \in DOMAIN specs} |->
                            Owners(specs[Max(owning(t))])[t]]]

(* Counts and entries may occur more than once, in one message or another. *)
Repeatable(def) == DOMAIN def.groups \cup DOMAIN def.membership

FromDictionary(dict) ==
    LET defs == [type \in DOMAIN dict.messages |-> MessageDef(dict, dict.messages[type])]
    IN  [fields |-> dict.fields, messages |-> defs,
         repeatable |-> UNION {Repeatable(defs[type]) : type \in DOMAIN defs}]
-----------------------------------------------------------------------------
(* Looking something up: the first of the chain that has it.               *)
FirstWith(chain, Has(_)) ==
    LET with == {i \in DOMAIN chain : Has(chain[i])}
    IN  IF with = {} THEN 0 ELSE Min(with)

Knows(chain, tag) == \E i \in DOMAIN chain : tag \in DOMAIN chain[i].fields
IsRepeatable(chain, tag) == \E i \in DOMAIN chain : tag \in chain[i].repeatable

HasDef(chain, type) == \E i \in DOMAIN chain : type \in DOMAIN chain[i].messages
DefOf(chain, type) == chain[FirstWith(chain, LAMBDA l : type \in DOMAIN l.messages)].messages[type]

(* The values and the type of a field, if there is anything to know.       *)
ValuesFor(chain, tag) ==
    LET i == FirstWith(chain, LAMBDA l : tag \in DOMAIN l.fields /\ l.fields[tag].values # {})
    IN  IF i = 0 THEN {} ELSE chain[i].fields[tag].values
TypeFor(chain, tag) ==
    LET i == FirstWith(chain, LAMBDA l : tag \in DOMAIN l.fields)
    IN  IF i = 0 THEN "any" ELSE chain[i].fields[tag].type
=============================================================================
