--------------------------- MODULE MCFamilyBuild ---------------------------
(***************************************************************************)
(* Messages with operations before and after groups, a group named twice,  *)
(* one without a name and one with an empty one, an operation without an   *)
(* id, a name or an id missing.  Overlays with a flat set, with sets for   *)
(* operations by suffix and by prefix, and with none that fits.            *)
(***************************************************************************)
EXTENDS FamilyBuild

MCText(type, ok) == [type |-> type, ok |-> ok]
MCOps(ids) == [type |-> "ops", ids |-> ids]
MCGroups(list) == [type |-> "groups", list |-> list]
MCGroup(id, names) == [id |-> id, names |-> names]

MCHead == <<MCText("name", TRUE), MCText("id", TRUE), [type |-> "other"]>>
MCMessage(ethtool, attrs) == [ethtool |-> ethtool, attrs |-> attrs]

MCMessages ==
  {MCMessage(FALSE, MCHead \o <<MCOps(<<1, 2>>), MCGroups(<<MCGroup(5, << <<"a">>, <<"b">> >>)>>)>>),
   MCMessage(FALSE, MCHead \o <<MCGroups(<<MCGroup(5, << <<"a">> >>), MCGroup(6, << >>)>>),
                                MCOps(<<2>>)>>),
   MCMessage(FALSE, <<MCText("id", TRUE), MCText("name", FALSE),
                      MCOps(<<0>>), MCGroups(<<MCGroup(5, << EmptyText >>)>>)>>),
   MCMessage(FALSE, MCHead \o <<MCOps(<<0>>), MCGroups(<<MCGroup(5, << EmptyText >>)>>)>>),
   MCMessage(TRUE, <<MCText("id", FALSE)>> \o MCHead \o <<MCOps(<<3, 4>>), MCGroups(<< >>)>>)}

MCAttr(id, name, docs) == [id |-> id, name |-> name, docs |-> docs]
MCSet(name, attrs) == [name |-> name, attrs |-> attrs]
MCOp(id, name, docs) == [id |-> id, name |-> name, docs |-> docs]

MCSets ==
  <<MCSet(<<"LINK">>, <<MCAttr(1, <<"HEADER">>, 0), MCAttr(2, <<"SPEED">>, 1)>>),
    MCSet(<<"STATION">>, <<MCAttr(7, NoName, 0), MCAttr(8, <<"MAC">>, 1)>>),
    MCSet(<<"HEADER">>, <<MCAttr(1, <<"DEV", "INDEX">>, 0)>>)>>

MCOverlays ==
  {[sets |-> MCSets,
    ops |-> <<MCOp(2, <<"GET", "STATION">>, 1), MCOp(1, <<"LINK", "GET">>, 2)>>,
    mcast |-> <<[name |-> <<"b">>, docs |-> 2]>>],
   [sets |-> <<MCSet(<<"ATTRS">>, <<MCAttr(3, <<"NAME">>, 0)>>)>> \o MCSets,
    ops |-> <<MCOp(2, <<"LINK", "GET">>, 0)>>, mcast |-> << >>],
   [sets |-> MCSets,
    ops |-> <<MCOp(4, <<"LINK", "GET", "CFG">>, 0), MCOp(3, <<"PLCA", "SET", "CFG">>, 0)>>,
    mcast |-> << >>]}

MCBlock == 1 .. 32
=============================================================================
