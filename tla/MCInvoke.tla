----------------------------- MODULE MCInvoke -----------------------------
(***************************************************************************)
(* Arguments: up to three, with texts of length 0, 3, 4 and 8 (with their  *)
(* NUL: short of a word, one word, one more, two more), one a number and   *)
(* one a number too large; buffers with room for two or three attributes.  *)
(* Operations: each way to find a set and each to find none; replies with  *)
(* every kind of value, nested twice and three times, with and without     *)
(* NLA_F_NESTED, and an attribute called like an unrelated set.            *)
(***************************************************************************)
EXTENDS InvokeText

MCKey == {"ifname", "ifindex", "name", "unknown"}

MCGetId == [k \in MCKey |-> CASE k = "ifname" -> 2 [] k = "ifindex" -> 1 [] OTHER -> NoId]
MCGenericId == [k \in MCKey |-> CASE k = "ifindex" -> 4 [] k = "name" -> 3 [] OTHER -> NoId]
MCId == [get |-> MCGetId, generic |-> MCGenericId]

MCText(n) == [len |-> n, digits |-> FALSE, number |-> 0]
MCNumber(n, v) == [len |-> n, digits |-> TRUE, number |-> v]
MCValue == {MCText(0), MCText(3), MCText(4), MCNumber(1, 7), MCNumber(8, 99)}

MCArg == [key : MCKey, value : MCValue]

MCArgLists == {<< >>} \cup {<<a>> : a \in MCArg} \cup {<<a, b>> : a, b \in MCArg}
              \cup {<<a, b, c>> : a, b, c \in [key : {"name"}, value : MCValue]}

-----------------------------------------------------------------------------
MCAttr(id, name) == [id |-> id, name |-> name]
MCSet(name, attrs) == [name |-> name, attrs |-> attrs]

MCEthtool ==
  [NoOverlay EXCEPT !.sets = <<
     MCSet(Header, <<MCAttr(1, <<"DEV", "INDEX">>), MCAttr(2, <<"DEV", "NAME">>)>>),
     MCSet(<<"FEATURES">>, <<MCAttr(1, Header), MCAttr(2, <<"HW">>)>>),
     MCSet(<<"PAUSE">>, <<MCAttr(1, Header), MCAttr(4, <<"STATS">>)>>),
     MCSet(<<"STATS">>, <<MCAttr(1, <<"PAD">>), MCAttr(2, <<"GROUPS">>)>>),
     MCSet(<<"STRSET">>, <<MCAttr(2, <<"STRINGSETS">>)>>),
     MCSet(Bitset, <<MCAttr(2, <<"SIZE">>), MCAttr(3, <<"BITS">>)>>),
     MCSet(BitsetBits, <<MCAttr(1, <<"BIT">>)>>),
     MCSet(BitsetBit, <<MCAttr(1, <<"INDEX">>), MCAttr(2, <<"NAME">>), MCAttr(3, <<"VALUE">>)>>)>>]

MCArgAttrs == <<MCAttr(3, <<"name">>), MCAttr(4, <<"ifindex">>)>>

MCFlat == [NoOverlay EXCEPT !.sets = <<MCSet(Attrs, MCArgAttrs)>>]
MCPerOp == [NoOverlay EXCEPT !.sets = <<MCSet(<<"DEV">>, MCArgAttrs \o <<MCAttr(5, <<"PAD">>)>>)>>]

-----------------------------------------------------------------------------
MCScalar(id, bytes) ==
  [id |-> id, flag |-> FALSE, bytes |-> bytes, inner |-> << >>, schema |-> NoName]
MCNest(id, flag, schema, inner) ==
  [id |-> id, flag |-> flag, bytes |-> << >>, inner |-> inner, schema |-> schema]

MCReply(attrs) == [head |-> << >>, attrs |-> attrs]

MCBytes(n) == [i \in 1 .. n |-> i]

MCBit(index, name, more) ==
  MCNest(1, TRUE, BitsetBit,
         <<MCScalar(1, <<index, 0, 0, 0>>), MCScalar(2, name \o <<0>>)>> \o more)

MCHeader(index) ==
  MCNest(1, TRUE, Header, <<MCScalar(1, <<index, 0, 0, 0>>), MCScalar(2, <<101, 48, 0>>)>>)

\* The bits of a set, flagged or not, one on and one off.
MCFeatures(flag) ==
  MCReply(<<MCHeader(7),
            MCNest(2, flag, Bitset,
                   <<MCScalar(2, <<2, 0, 0, 0>>),
                     MCNest(3, flag, BitsetBits,
                            <<MCBit(0, <<97>>, <<MCScalar(3, << >>)>>), MCBit(1, <<98>>, << >>)>>)>>)>>)

\* PAUSE.STATS has a set of its own that the overlay does not declare.
MCPause == MCReply(<<MCHeader(7),
                     MCNest(4, TRUE, <<"PAUSE", "STAT">>, <<MCScalar(2, MCBytes(8))>>)>>)

\* Every kind of value, an unknown attribute, an undeclared schema.
MCValues ==
  MCReply(<<MCScalar(3, <<100, 48, 0>>), MCScalar(4, <<5, 0, 0, 0>>), MCScalar(4, <<5, 0>>),
            MCScalar(4, <<0>>), MCScalar(4, << >>), MCScalar(4, MCBytes(8)),
            MCScalar(3, <<100, 111, 99, 107, 101, 114, 48, 0>>),
            MCScalar(3, <<9, 32, 0>>), MCScalar(3, <<127, 32, 0>>),
            MCScalar(4, MCBytes(6)), MCScalar(4, MCBytes(33)),
            MCScalar(9, <<1>>),
            MCNest(3, TRUE, <<"INNER">>, <<MCScalar(1, <<1>>)>>),
            MCNest(9, TRUE, <<"INNER">>, << >>)>>)

MCTable ==
  <<[id |-> 1, name |-> <<"ADDRESS">>, kind |-> "binary"], [id |-> 2, name |-> <<"DST">>, kind |-> "binary"],
    [id |-> 3, name |-> <<"IFNAME">>, kind |-> "string"], [id |-> 4, name |-> <<"MTU">>, kind |-> "u32"],
    [id |-> 5, name |-> <<"OPERSTATE">>, kind |-> "u8"], [id |-> 6, name |-> <<"LINKINFO">>, kind |-> "nest"]>>

MCLink ==
  [head |-> <<1, 2>>,
   attrs |-> <<MCScalar(1, MCBytes(6)), MCScalar(1, MCBytes(4)), MCScalar(2, MCBytes(4)),
               MCScalar(2, MCBytes(16)), MCScalar(2, MCBytes(17)), MCScalar(3, <<108, 111, 0>>),
               MCScalar(4, <<5, 0, 0, 0>>), MCScalar(5, <<6>>), MCScalar(6, MCBytes(20)),
               MCScalar(9, MCBytes(4)), MCScalar(9, << >>)>>]

MCOperation(style, name, overlay, schema, answers) ==
  [style |-> style, name |-> name, overlay |-> overlay, table |-> << >>, schema |-> schema,
   replies |-> answers]

MCOperations ==
  [features |-> MCOperation("ethtool", <<"FEATURES", "GET">>, MCEthtool, <<"FEATURES">>,
                            {MCFeatures(TRUE), MCFeatures(FALSE)}),
   pause |-> MCOperation("ethtool", <<"PAUSE", "GET">>, MCEthtool, <<"PAUSE">>, {MCPause}),
   \* no HEADER in the set, no set, no metadata, not a get
   strset |-> MCOperation("ethtool", <<"STRSET", "GET">>, MCEthtool, <<"STRSET">>, {}),
   phy |-> MCOperation("ethtool", <<"PHY", "GET">>, MCEthtool, <<"PHY">>, {}),
   blind |-> MCOperation("ethtool", NoName, NoOverlay, NoName, {MCPause}),
   flash |-> MCOperation("ethtool", <<"FLASH", "ACT">>, MCEthtool, NoName, {}),
   flat |-> MCOperation("genl", <<"GET", "WIPHY">>, MCFlat, Attrs, {MCValues, MCReply(<< >>)}),
   suffix |-> MCOperation("genl", <<"DEV", "GET">>, MCPerOp, <<"DEV">>,
                          {MCReply(<<MCScalar(5, MCBytes(4))>>)}),
   prefix |-> MCOperation("genl", <<"GET", "DEV">>, MCPerOp, <<"DEV">>,
                          {MCReply(<<MCScalar(3, MCBytes(4))>>)}),
   link |-> [MCOperation("rtnl", <<"GETLINK">>, NoOverlay, NoName, {MCLink}) EXCEPT !.table = MCTable]]

\* The attributes of a set's replies, with those in them.
RECURSIVE MCReach(_, _, _)
MCReach(o, set, attrs) ==
  UNION {{<<set, attrs[i]>>} \cup
         (IF IsWalked(o, set, attrs[i]) THEN MCReach(o, SetWithin(o, set, attrs[i]), attrs[i].inner)
          ELSE {}) : i \in DOMAIN attrs}

MCSent ==
  [o \in DOMAIN MCOperations |->
     IF MCOperations[o].style = "rtnl" \/ ReplySet(o) = << >> THEN {}
     ELSE UNION {MCReach(o, MCOperations[o].schema, r.attrs) : r \in MCOperations[o].replies}]
=============================================================================
