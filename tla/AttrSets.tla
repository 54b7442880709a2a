------------------------------ MODULE AttrSets ------------------------------
(***************************************************************************)
(* How ykern finds its way in a family's metadata: the look-ups of         *)
(* genl-overlay.c, and the two functions of genl-operation.c that derive   *)
(* the attribute set of an operation from the operation's name, one for    *)
(* listing the attributes, one for sending them.                           *)
(*                                                                         *)
(* A name is the sequence of its words, <<"LINKINFO", "GET">> for          *)
(* LINKINFO_GET; the NULL pointer is << >>.  An overlay is a record of     *)
(*   sets   attribute sets, each a name and its attributes [id, name, ...] *)
(*   ops    operations [id, name, docs]                                    *)
(*   mcast  multicast groups [name, docs]                                  *)
(* where docs counts the descriptions that are there.                      *)
(***************************************************************************)
EXTENDS Naturals, Sequences, SequencesExt

NoName == << >>

\* A look-up answers with one entry or none: the first one counts.
First(entries) == IF entries = << >> THEN << >> ELSE <<Head(entries)>>

FirstWhere(entries, Matches(_)) ==
  LET hits == {i \in DOMAIN entries : Matches(entries[i])}
  IN  IF hits = {} THEN << >> ELSE <<entries[Min(hits)]>>

NoOverlay == [sets |-> << >>, ops |-> << >>, mcast |-> << >>]

FindSet(overlay, name) ==
  IF name = NoName THEN << >>
  ELSE FirstWhere(overlay.sets, LAMBDA s : s.name = name)

\* Mutant: the overlay is indexed by the id.
FindOpAt(overlay, id) == IF id \in DOMAIN overlay.ops THEN <<overlay.ops[id]>> ELSE << >>

FindOp(overlay, id) == FirstWhere(overlay.ops, LAMBDA o : o.id = id)

FindMcast(overlay, name) ==
  IF name = NoName THEN << >>
  ELSE FirstWhere(overlay.mcast, LAMBDA g : g.name = name)

\* attr_set_lookup_id and attr_set_lookup_name in the result of a FindSet.
LookupName(found, name) ==
  IF found = << >> THEN << >>
  ELSE FirstWhere(found[1].attrs, LAMBDA a : a.name = name)

\* The first entry of the id counts, which is none if it has no name.
LookupId(found, id) ==
  IF found = << >> THEN << >>
  ELSE LET hit == FirstWhere(found[1].attrs, LAMBDA a : a.id = id)
       IN  SelectSeq(hit, LAMBDA a : a.name # NoName)

-----------------------------------------------------------------------------
(* From the name of an operation to the name of a set.                     *)

OpSuffixes == {<<"GET", "STATUS">>, <<"GET", "CFG">>, <<"GET", "ID">>, <<"GET">>, <<"SET">>,
             <<"NEW">>, <<"DEL">>, <<"ADD">>, <<"NTF">>, <<"ACT">>}

OpPrefixes == {"GET", "SET", "NEW", "DEL"}

\* strip_op_suffix; no two suffixes of the table end the same name.
StripSuffix(name) ==
  LET Ending == {s \in OpSuffixes : Len(s) < Len(name) /\ IsSuffix(s, name)}
  IN  IF Ending = {} THEN NoName
      ELSE SubSeq(name, 1, Len(name) - Len(CHOOSE s \in Ending : TRUE))

\* strip_op_prefix_get
StripPrefix(name) ==
  IF Len(name) > 1 /\ name[1] \in OpPrefixes THEN Tail(name) ELSE NoName

Attrs == <<"ATTRS">>
Header == <<"HEADER">>

\* find_op_attr_set, what populate_children lists: the flat set, else the one
\* called like the operation without its suffix, else without its prefix, else
\* for ethtool the request header.
OpAttrSet(overlay, op, isEthtool) ==
  LET candidates == <<Attrs, StripSuffix(op), StripPrefix(op)>>
                    \o (IF isEthtool THEN <<Header>> ELSE << >>)
  IN  First(FlattenSeq([i \in DOMAIN candidates |-> FindSet(overlay, candidates[i])]))

\* Mutant: the name without its prefix is not tried.
InvokeSetBySuffix(overlay, op) ==
  First(FindSet(overlay, Attrs) \o FindSet(overlay, StripSuffix(op)))

\* The search invoke_generic_genl does for itself: what --arg accepts.
InvokeSet(overlay, op) ==
  First(FindSet(overlay, Attrs) \o FindSet(overlay, StripSuffix(op))
        \o FindSet(overlay, StripPrefix(op)))

\* op_name_ends_in_get
EndsInGet(name) ==
  \E s \in {<<"GET">>, <<"GET", "CFG">>, <<"GET", "STATUS">>} :
    IsSuffix(s, name) /\ Len(s) < Len(name)
=============================================================================
