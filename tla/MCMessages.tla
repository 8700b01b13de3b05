----------------------------- MODULE MCMessages -----------------------------
(***************************************************************************)
(* Three ways to read a message: FIX 4.4 in small, with nested groups      *)
(* whose fields come from components; FIX 5.0, an application dictionary   *)
(* without header that falls back to the session's; and the first as an    *)
(* override of a dictionary that lacks a field.                            *)
(***************************************************************************)
EXTENDS Messages

Text(values) == [type |-> "text", values |-> values]
Number == [type |-> "number", values |-> {}]

(* Tags: 8 9 35 49 the header with 627 hops of 628 629; 11 an order, 54 of *)
(* two values, 453 parties of 448 447, in them 802 of 523 803; 555 legs of *)
(* 600 566; 58 a field of no message; 10 the CheckSum.                     *)
AllFields == [t \in {8, 9, 35, 49, 627, 628, 629, 11, 54, 453, 448, 447, 802, 523, 803,
                     555, 600, 566, 58, 10} |->
                 IF t \in {9, 627, 453, 802, 555} THEN Number
                 ELSE IF t = 54 THEN Text({1, 2}) ELSE Text({})]
Hops == Group(627, FALSE, <<Field(628, FALSE), Field(629, FALSE)>>)
Header == <<Field(8, TRUE), Field(9, TRUE), Field(35, TRUE), Field(49, TRUE), Hops>>
Trailer == <<Field(10, TRUE)>>
Parties == <<Group(453, FALSE, <<Field(448, TRUE), Field(447, FALSE), Component("Subs")>>)>>
Subs == <<Group(802, FALSE, <<Component("Sub"), Field(803, FALSE)>>)>>
Legs == Group(555, TRUE, <<Component("Leg"), Field(566, TRUE)>>)

Components(header, trailer) ==
    [c \in {"Header", "Trailer", "Parties", "Subs", "Sub", "Leg"} |->
        CASE c = "Header" -> header [] c = "Trailer" -> trailer
          [] c = "Parties" -> Parties [] c = "Subs" -> Subs
          [] c = "Sub" -> <<Field(523, TRUE)>>
          [] c = "Leg" -> <<Component("Leg"), Field(600, TRUE), Component("Unknown")>>]
Order == <<Field(11, TRUE), Component("Parties"), Field(54, FALSE), Field(Undeclared, TRUE)>>
LegOrder == <<Legs, Component("Parties"), Field(54, TRUE)>>

Fix44 == [fields |-> AllFields, messages |-> [t \in {1, 2} |-> IF t = 1 THEN Order ELSE LegOrder],
          components |-> Components(Header, Trailer)]
App50 == [fields |-> [t \in DOMAIN AllFields \ {58} |-> AllFields[t]],
          messages |-> [t \in {1} |-> Order], components |-> Components(<< >>, << >>)]
Session11 == [fields |-> [t \in {8, 9, 35, 49, 627, 628, 629, 58, 10} |-> AllFields[t]],
              messages |-> [t \in {0} |-> <<Field(58, FALSE)>>],
              components |-> Components(Header, Trailer)]
Older == [fields |-> [t \in DOMAIN AllFields \ {447} |-> AllFields[t]],
          messages |-> [t \in {1, 2, 3} |-> Order], components |-> Components(Header, Trailer)]

(* Small dictionaries, to compare what is shown of them with what is       *)
(* checked: components in groups, within each other, and within themselves.*)
Sketch(parties, sub, order) ==
    [fields |-> AllFields, messages |-> [t \in {1} |-> order],
     components |-> [Components(Header, Trailer) EXCEPT !["Parties"] = parties, !["Sub"] = sub]]
SketchesOfParties == <<
    <<Component("Sub"), Field(448, TRUE)>>,
    <<Group(453, TRUE, <<Component("Sub"), Field(448, FALSE)>>)>>,
    <<Group(453, FALSE, <<Field(448, TRUE), Component("Parties")>>), Component("Sub")>> >>
SketchesOfSub == <<
    << >>, <<Field(Undeclared, FALSE), Field(523, TRUE)>>,
    <<Field(523, FALSE), Component("Parties")>>,
    <<Group(802, TRUE, <<Group(555, TRUE, <<Field(600, TRUE)>>), Field(523, FALSE)>>)>> >>
SketchesOfOrder == <<
    <<Field(11, TRUE), Component("Parties")>>, <<Component("Sub"), Field(54, FALSE)>>,
    <<Component("Unknown"), Group(555, TRUE, <<Component("Leg"), Component("Parties")>>)>> >>
Sketches == [i \in 0 .. 35 |-> Sketch(SketchesOfParties[1 + (i % 3)], SketchesOfSub[1 + ((i \div 3) % 4)],
                                      SketchesOfOrder[1 + (i \div 12)])]

MCComponentNames == <<"Header", "Leg", "Parties", "Sub", "Subs", "Trailer">>
Fix == 1
Fix50 == 2
FixOverOlder == 3
MCVersions == 1 .. 39
MCDictionaries == <<<<Fix44>>, <<App50, Session11>>, <<Fix44, Older>>>>
                  \o [i \in 1 .. 36 |-> <<Sketches[i - 1]>>]
MCOverrides == {FixOverOlder}
MCSessionUsers == {Fix50}
MCMaxMistakes == [v \in MCVersions |-> IF v \in {Fix, Fix50, FixOverOlder} THEN 2 ELSE 0]

F(tag, value) == [tag |-> tag, value |-> value]
Head44(type) == <<F(8, 1), F(9, 0), F(35, type), F(49, 1)>>
End44 == <<F(10, 0)>>
Party(subs) == <<F(448, 1), F(447, 1), F(802, subs)>>
TwoParties == <<F(453, 2), F(448, 1), F(802, 1), F(523, 1), F(448, 1), F(447, 1)>>
MCSamples == [v \in MCVersions |->
    CASE v = Fix -> {
            Head44(1) \o <<F(11, 1)>> \o TwoParties \o <<F(54, 1)>> \o End44,
            Head44(1) \o <<F(627, 2), F(628, 1), F(628, 1), F(629, 1), F(11, 1), F(453, 0), F(58, 1)>> \o End44,
            Head44(2) \o <<F(555, 2), F(600, 1), F(566, 1), F(600, 1), F(566, 1), F(453, 1)>>
                      \o Party(0) \o <<F(54, 2)>> \o End44}
      [] v = Fix50 -> {
            Head44(1) \o <<F(11, 1)>> \o TwoParties \o End44,
            Head44(1) \o <<F(627, 1), F(628, 1), F(629, 1), F(11, 1)>> \o End44,
            Head44(0) \o <<F(58, 1)>> \o End44}
      [] v = FixOverOlder -> {
            Head44(1) \o <<F(11, 1), F(453, 1), F(448, 1), F(54, 1)>> \o End44,
            Head44(3) \o <<F(11, 1), F(453, 1), F(448, 1)>> \o End44}
      [] OTHER -> {Head44(1) \o End44}]
MCValues == {0, 1, 2, 3, Negative, NoNumber}
=============================================================================
