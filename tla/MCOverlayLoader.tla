--------------------------- MODULE MCOverlayLoader ---------------------------
(***************************************************************************)
(* Small instances of OverlayLoader: every generated file of up to two     *)
(* operations, with one cmd id or two, and files with attribute sets; with *)
(* each of them every curated file of up to three entries: for a generated *)
(* name or one nobody generated, with a cmd id of its own, for a multicast *)
(* group, or malformed. Curated files have no attribute sets               *)
(* (docs/metadata-schema.md).                                              *)
(***************************************************************************)
EXTENDS OverlayLoader

Entries(sec, ids, names, descs) == [sec : {sec}, id : ids, name : names, desc : descs]

UpTo(n, S) == UNION {[1..k -> S] : k \in 0..n}

Op(id, name) == [sec |-> "op", id |-> id, name |-> name, desc |-> NoText]
Set(name) == [sec |-> "set", id |-> 0, name |-> name, desc |-> NoText]
Attr(id) == [sec |-> "attr", id |-> id, name |-> "attr", desc |-> "u32"]
Bad == [sec |-> "bad", id |-> 0, name |-> NoText, desc |-> NoText]

\* Files with attribute sets, one of them cut off in the middle of a set.
WithSets == {<<Set("HEADER"), Attr(1), Attr(2), Attr(3), Set("LINKINFO"), Attr(1)>>,
             <<Set("HEADER"), Attr(1), Bad>>,
             <<Op(1, "GET"), Set("HEADER"), Attr(1)>>}

MCGenerated == {Missing} \cup WithSets \cup
  {f \in UpTo(2, Entries("op", {1, 2}, {"GET", "SET"}, {NoText})) :
     \A k, m \in DOMAIN f : k # m => f[k].name # f[m].name}

MCCurated == {Missing} \cup
  UpTo(3, Entries("op", {0}, {"GET", "SET"}, {"d1", "d2"}) \cup
          Entries("op", {0, 3}, {"NEW"}, {"d1"}) \cup
          Entries("mcast", {0}, {"monitor"}, {NoText}) \cup {Bad})

\* macsec: the first command of the enum is 0.
MCFromZero == {<<Op(0, "GET_TXSC"), Op(1, "ADD_RXSC")>>}

MCMissing == {Missing}
=============================================================================
