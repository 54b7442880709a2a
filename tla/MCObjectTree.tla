---------------------------- MODULE MCObjectTree ----------------------------
(***************************************************************************)
(* Small instances of ObjectTree: two transports, one of which lists two   *)
(* namespaces, one with a family.  An array starts with room for one child *)
(* and doubles, so both transports and both namespaces meet a growing one. *)
(***************************************************************************)
EXTENDS TreeRefinement, TLC

MCNode == {"root", "netlink", "sys", "genl", "rtnl", "family"}

MCTransports == <<"netlink", "sys">>

MCListing == [n \in MCNode |-> CASE n = "netlink" -> <<"genl", "rtnl">>
                                [] n = "genl" -> <<"family">>
                                [] OTHER -> << >>]

\* Cells are interchangeable: only equality of addresses matters.
CellSymmetry == Permutations(Addr)
=============================================================================
