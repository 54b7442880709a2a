----------------------------- MODULE FamilyProofs -----------------------------
(***************************************************************************)
(* Machine-checked proofs about FamilyBuild, for any messages, overlays    *)
(* and failing allocations: HeapOwned is part of an inductive invariant,   *)
(* FamilyAsSent and AcceptedAsListed follow from a stronger one.           *)
(***************************************************************************)
EXTENDS FamilyBuild, SequenceTheorems, WellFoundedInduction, TLAPS

-----------------------------------------------------------------------------
(* Owning blocks.                                                          *)

\* A new block goes to a new pointer.
LEMMA OwnOneMore ==
  ASSUME NEW P, NEW L, OwnedBy(P, L), NEW p, p.block \notin L
  PROVE  OwnedBy(P \cup {p}, L \cup {p.block})
<1>1. /\ {q.block : q \in P} = L /\ \A q, r \in P : q.block = r.block => q.at = r.at
  BY DEF OwnedBy
<1>2. {q.block : q \in P \cup {p}} = L \cup {p.block}
  BY <1>1
<1>3. ASSUME NEW q \in P \cup {p}, NEW r \in P \cup {p}, q.block = r.block PROVE q.at = r.at
  BY <1>1, <1>3
<1>4. QED
  BY <1>2, <1>3 DEF OwnedBy

\* What is freed leaves its pointers.
LEMMA OwnLess ==
  ASSUME NEW P, NEW L, OwnedBy(P, L), NEW Q, Q \subseteq P,
         \A p \in P \ Q : \A q \in Q : p.at # q.at
  PROVE  OwnedBy(Q, L \ {p.block : p \in P \ Q})
<1>1. /\ {q.block : q \in P} = L /\ \A q, r \in P : q.block = r.block => q.at = r.at
  BY DEF OwnedBy
<1>2. {q.block : q \in Q} = L \ {p.block : p \in P \ Q}
  BY <1>1
<1>3. QED
  BY <1>1, <1>2 DEF OwnedBy

\* Pointers move, with their blocks, to other places.
LEMMA OwnElsewhere ==
  ASSUME NEW P, NEW L, OwnedBy(P, L), NEW to,
         \A p \in P : to[p].block = p.block,
         \A p, q \in P : p.at = q.at => to[p].at = to[q].at
  PROVE  OwnedBy({to[p] : p \in P}, L)
<1>1. /\ {q.block : q \in P} = L /\ \A q, r \in P : q.block = r.block => q.at = r.at
  BY DEF OwnedBy
<1>2. {q.block : q \in {to[p] : p \in P}} = L
  BY <1>1
<1>3. ASSUME NEW p \in P, NEW s \in P, to[p].block = to[s].block PROVE to[p].at = to[s].at
  BY <1>1, <1>3
<1>4. QED
  BY <1>2, <1>3 DEF OwnedBy

-----------------------------------------------------------------------------
(* Who points where.                                                       *)

\* The blocks an operation array, a group array or an object points to are
\* those freed with it.
LEMMA OpsPointTo ==
  ASSUME NEW tag, NEW o
  PROVE  {p.block : p \in Held(OpsPointers(tag, o))} = OpsBlocks(o)
<1>1. ASSUME o.block # NoBlock PROVE Pointer(tag, 0, 0, 0, o.block) \in Held(OpsPointers(tag, o))
  BY <1>1 DEF Held, OpsPointers, Pointer
<1>2. Pointer(tag, 0, 0, 0, o.block).block = o.block
  BY DEF Pointer
<1>3. \A p \in Held(OpsPointers(tag, o)) : p.block = o.block /\ p.block # NoBlock
  BY DEF Held, OpsPointers, Pointer
<1>4. QED
  BY <1>1, <1>2, <1>3 DEF OpsBlocks

\* The pointers of the array of groups are to its blocks.
LEMMA GroupsPointTo ==
  ASSUME NEW tag, NEW g
  PROVE  {p.block : p \in Held(GroupsPointers(tag, g))} = GroupsBlocks(g)
<1>1. ASSUME NEW b
      PROVE  (\E p \in Held(GroupsPointers(tag, g)) : p.block = b) <=> b \in GroupsBlocks(g)
  <2>1. CASE b = NoBlock
    BY <2>1 DEF Held, GroupsBlocks, NameBlocks
  <2>2. CASE b # NoBlock
    <3>1. ASSUME NEW i \in DOMAIN g.list, g.list[i].block = b
          PROVE  \E p \in Held(GroupsPointers(tag, g)) : p.block = b
      <4>1. Pointer(tag, i, 0, 0, b) \in GroupsPointers(tag, g)
        BY <3>1 DEF GroupsPointers
      <4>2. Pointer(tag, i, 0, 0, b).block = b
        BY DEF Pointer
      <4>3. QED
        BY <2>2, <4>1, <4>2 DEF Held
    <3>2. ASSUME g.block = b
          PROVE  \E p \in Held(GroupsPointers(tag, g)) : p.block = b
      <4>1. Pointer(tag, 0, 0, 0, b) \in GroupsPointers(tag, g)
        BY <3>2 DEF GroupsPointers
      <4>2. Pointer(tag, 0, 0, 0, b).block = b
        BY DEF Pointer
      <4>3. QED
        BY <2>2, <4>1, <4>2 DEF Held
    <3>3. ASSUME NEW p \in Held(GroupsPointers(tag, g)), p.block = b
          PROVE  g.block = b \/ \E i \in DOMAIN g.list : g.list[i].block = b
      BY <3>3 DEF Held, GroupsPointers, Pointer
    <3>4. QED
      BY <2>2, <3>1, <3>2, <3>3 DEF GroupsBlocks, NameBlocks
  <2>3. QED
    BY <2>1, <2>2
<1>2. QED
  BY <1>1

\* The pointers of an object are to its blocks.
LEMMA ObjectPointsTo ==
  ASSUME NEW tag, NEW i, NEW j, NEW blocks
  PROVE  {p.block : p \in ObjectPointers(tag, i, j, blocks)} = ToSet(blocks)
<1>1. ASSUME NEW k \in DOMAIN blocks
      PROVE  Pointer(tag, i, j, k, blocks[k]) \in ObjectPointers(tag, i, j, blocks)
  BY DEF ObjectPointers
<1>2. \A k : Pointer(tag, i, j, k, blocks[k]).block = blocks[k]
  BY DEF Pointer
<1>3. \A p \in ObjectPointers(tag, i, j, blocks) : \E k \in DOMAIN blocks : p.block = blocks[k]
  BY DEF ObjectPointers, Pointer
<1>4. QED
  BY <1>1, <1>2, <1>3 DEF ToSet

\* The pointers of a child are to its blocks and those of its children.
LEMMA KidPointsTo ==
  ASSUME NEW i, NEW kid
  PROVE  {p.block : p \in KidPointers(i, kid)} = NodeBlocks(kid)
<1>1. {p.block : p \in ObjectPointers("kid", i, 0, kid.blocks)} = ToSet(kid.blocks)
  BY ObjectPointsTo
<1>2. \A j : {p.block : p \in ObjectPointers("kid", i, j, kid.kids[j].blocks)}
               = ToSet(kid.kids[j].blocks)
  BY ObjectPointsTo
<1>3. ASSUME NEW b PROVE (\E p \in KidPointers(i, kid) : p.block = b) <=> b \in NodeBlocks(kid)
  <2>1. (\E p \in KidPointers(i, kid) : p.block = b) <=>
        \/ \E p \in ObjectPointers("kid", i, 0, kid.blocks) : p.block = b
        \/ \E j \in DOMAIN kid.kids :
             \E p \in ObjectPointers("kid", i, j, kid.kids[j].blocks) : p.block = b
    BY DEF KidPointers
  <2>2. (\E p \in ObjectPointers("kid", i, 0, kid.blocks) : p.block = b) <=> b \in ToSet(kid.blocks)
    BY <1>1
  <2>3. ASSUME NEW j
        PROVE  (\E p \in ObjectPointers("kid", i, j, kid.kids[j].blocks) : p.block = b)
               <=> b \in ToSet(kid.kids[j].blocks)
    <3>1. {p.block : p \in ObjectPointers("kid", i, j, kid.kids[j].blocks)}
            = ToSet(kid.kids[j].blocks)
      BY <1>2
    <3>2. QED
      BY <3>1
  <2>4. b \in NodeBlocks(kid) <=>
          b \in ToSet(kid.blocks) \/ \E j \in DOMAIN kid.kids : b \in ToSet(kid.kids[j].blocks)
    BY DEF NodeBlocks
  <2>5. QED
    BY <2>1, <2>2, <2>3, <2>4
<1>4. QED
  BY <1>3

\* An object is never at address 0.
LEMMA ObjectsHeld ==
  ASSUME NEW tag, NEW i, NEW j, NEW blocks \in Seq(Block)
  PROVE  \A p \in ObjectPointers(tag, i, j, blocks) : p.block \in Block
<1>1. \A k \in DOMAIN blocks : blocks[k] \in Block
  OBVIOUS
<1>2. QED
  BY <1>1 DEF ObjectPointers, Pointer

\* What a child of the family points to is a block.
LEMMA KidsHeld ==
  ASSUME FamilyShape, NEW i \in DOMAIN family.kids
  PROVE  \A p \in KidPointers(i, family.kids[i]) : p.block \in Block
<1>1. ObjectShape(family.kids[i])
  BY DEF FamilyShape, ToSet
<1>2. \A j \in DOMAIN family.kids[i].kids : ObjectShape(family.kids[i].kids[j])
  BY DEF FamilyShape, ToSet
<1>3. \A p \in ObjectPointers("kid", i, 0, family.kids[i].blocks) : p.block \in Block
  BY <1>1, ObjectsHeld DEF ObjectShape
<1>4. ASSUME NEW j \in DOMAIN family.kids[i].kids
      PROVE  \A p \in ObjectPointers("kid", i, j, family.kids[i].kids[j].blocks) : p.block \in Block
  BY <1>2, ObjectsHeld DEF ObjectShape
<1>5. QED
  BY <1>3, <1>4 DEF KidPointers

\* The blocks a family points to are those fam_destroy_impl frees.
LEMMA FamilyPointsTo ==
  ASSUME FamilyShape
  PROVE  {p.block : p \in Held(FamilyPointers(family))} = FamilyBlocks(family)
<1>1. NoBlock \notin Block
  BY BlockAssumption
<1>2. ASSUME NEW b, b # NoBlock
      PROVE  (\E p \in Held(FamilyPointers(family)) : p.block = b) <=> b \in FamilyBlocks(family)
  <2>1. (\E p \in Held(FamilyPointers(family)) : p.block = b) <=>
        \/ \E p \in ObjectPointers("family", 0, 0, family.blocks) : p.block = b
        \/ \E p \in Held(OpsPointers("family ops", family.ops)) : p.block = b
        \/ \E p \in Held(GroupsPointers("family groups", family.groups)) : p.block = b
        \/ \E p \in {Pointer("overlay", 0, 0, 0, family.overlayBlock)} : p.block = b
        \/ \E i \in DOMAIN family.kids : \E p \in KidPointers(i, family.kids[i]) : p.block = b
    <3>1. \A S : (\E p \in Held(S) : p.block = b) <=> (\E p \in S : p.block = b)
      BY <1>2 DEF Held
    <3>2. \A p : p \in FamilyPointers(family) <=>
            \/ p \in ObjectPointers("family", 0, 0, family.blocks)
            \/ p \in OpsPointers("family ops", family.ops)
            \/ p \in GroupsPointers("family groups", family.groups)
            \/ p \in {Pointer("overlay", 0, 0, 0, family.overlayBlock)}
            \/ \E i \in DOMAIN family.kids : p \in KidPointers(i, family.kids[i])
      BY DEF FamilyPointers
    <3>3. (\E p \in FamilyPointers(family) : p.block = b) <=>
            \/ \E p \in ObjectPointers("family", 0, 0, family.blocks) : p.block = b
            \/ \E p \in OpsPointers("family ops", family.ops) : p.block = b
            \/ \E p \in GroupsPointers("family groups", family.groups) : p.block = b
            \/ \E p \in {Pointer("overlay", 0, 0, 0, family.overlayBlock)} : p.block = b
            \/ \E i \in DOMAIN family.kids : \E p \in KidPointers(i, family.kids[i]) : p.block = b
      BY <3>2, Zenon
    <3>4. QED
      BY <3>1, <3>3
  <2>2. (\E p \in ObjectPointers("family", 0, 0, family.blocks) : p.block = b)
        <=> b \in ToSet(family.blocks)
    <3>1. {p.block : p \in ObjectPointers("family", 0, 0, family.blocks)} = ToSet(family.blocks)
      BY ObjectPointsTo
    <3>2. QED
      BY <3>1
  <2>3. (\E p \in Held(OpsPointers("family ops", family.ops)) : p.block = b)
        <=> b \in OpsBlocks(family.ops)
    <3>1. {p.block : p \in Held(OpsPointers("family ops", family.ops))} = OpsBlocks(family.ops)
      BY OpsPointTo
    <3>2. QED
      BY <3>1
  <2>4. (\E p \in Held(GroupsPointers("family groups", family.groups)) : p.block = b)
        <=> b \in GroupsBlocks(family.groups)
    <3>1. {p.block : p \in Held(GroupsPointers("family groups", family.groups))}
            = GroupsBlocks(family.groups)
      BY GroupsPointTo
    <3>2. QED
      BY <3>1
  <2>5. (\E p \in {Pointer("overlay", 0, 0, 0, family.overlayBlock)} : p.block = b)
        <=> b \in {family.overlayBlock} \ {NoBlock}
    BY <1>2 DEF Pointer
  <2>6. (\E i \in DOMAIN family.kids : \E p \in KidPointers(i, family.kids[i]) : p.block = b)
        <=> b \in KidsBlocks(family)
    <3>1. \A i : {p.block : p \in KidPointers(i, family.kids[i])} = NodeBlocks(family.kids[i])
      BY KidPointsTo
    <3>2. ASSUME NEW i
          PROVE  (\E p \in KidPointers(i, family.kids[i]) : p.block = b)
                 <=> b \in NodeBlocks(family.kids[i])
      <4>1. {p.block : p \in KidPointers(i, family.kids[i])} = NodeBlocks(family.kids[i])
        BY <3>1
      <4>2. QED
        BY <4>1
    <3>3. b \in KidsBlocks(family) <=> \E i \in DOMAIN family.kids : b \in NodeBlocks(family.kids[i])
      BY DEF KidsBlocks
    <3>4. QED
      BY <3>2, <3>3
  <2>7. QED
    BY <2>1, <2>2, <2>3, <2>4, <2>5, <2>6 DEF FamilyBlocks
<1>3. NoBlock \notin FamilyBlocks(family)
  <2>1. \A i \in DOMAIN family.kids : \A p \in KidPointers(i, family.kids[i]) : p.block # NoBlock
    BY <1>1, KidsHeld
  <2>2. \A i : {p.block : p \in KidPointers(i, family.kids[i])} = NodeBlocks(family.kids[i])
    BY KidPointsTo
  <2>3. ASSUME NEW i \in DOMAIN family.kids PROVE NoBlock \notin NodeBlocks(family.kids[i])
    <3>1. {p.block : p \in KidPointers(i, family.kids[i])} = NodeBlocks(family.kids[i])
      BY <2>2
    <3>2. QED
      BY <2>1, <3>1
  <2>4. NoBlock \notin KidsBlocks(family)
    BY <2>3 DEF KidsBlocks
  <2>5. NoBlock \notin ToSet(family.blocks)
    BY <1>1 DEF FamilyShape, ToSet
  <2>6. QED
    BY <2>4, <2>5 DEF FamilyBlocks, OpsBlocks, GroupsBlocks, NameBlocks
<1>4. QED
  BY <1>2, <1>3 DEF Held

\* All the memory there is.
LEMMA LiveIs ==
  ASSUME FamilyInv
  PROVE  live = OpsBlocks(ops) \cup GroupsBlocks(groups) \cup ToSet(built) \cup FamilyBlocks(family)
<1>1. {p.block : p \in Pointers} = live
  BY DEF FamilyInv, HeapOwned, OwnedBy
<1>2. {p.block : p \in Held(OpsPointers("ops", ops))} = OpsBlocks(ops)
  BY OpsPointTo
<1>3. {p.block : p \in Held(GroupsPointers("groups", groups))} = GroupsBlocks(groups)
  BY GroupsPointTo
<1>4. {p.block : p \in ObjectPointers("built", 0, 0, built)} = ToSet(built)
  BY ObjectPointsTo
<1>5. {p.block : p \in Held(FamilyPointers(family))} = FamilyBlocks(family)
  BY FamilyPointsTo DEF FamilyInv
<1>6. QED
  BY <1>1, <1>2, <1>3, <1>4, <1>5 DEF Pointers, PointersOf

-----------------------------------------------------------------------------
(* What a step does to the pointers.                                       *)

\* Nothing is allocated, nothing is pointed to.
LEMMA NothingHeld == PointersOf(NoOps, NoGroups, << >>, NoFamily) = {}
<1>1. \A tag : Held(OpsPointers(tag, NoOps)) = {}
  BY DEF Held, OpsPointers, Pointer, NoOps
<1>2. \A tag : Held(GroupsPointers(tag, NoGroups)) = {}
  BY DEF Held, GroupsPointers, Pointer, NoGroups
<1>3. \A tag : ObjectPointers(tag, 0, 0, << >>) = {}
  BY DEF ObjectPointers
<1>4. Held(FamilyPointers(NoFamily)) = {}
  <2>1. FamilyPointers(NoFamily) =
          ObjectPointers("family", 0, 0, << >>) \cup
          OpsPointers("family ops", NoOps) \cup GroupsPointers("family groups", NoGroups) \cup
          {Pointer("overlay", 0, 0, 0, NoBlock)} \cup {}
    BY DEF FamilyPointers, NoFamily
  <2>2. Held({Pointer("overlay", 0, 0, 0, NoBlock)}) = {}
    BY DEF Held, Pointer
  <2>3. QED
    BY <1>1, <1>2, <1>3, <2>1, <2>2 DEF Held
<1>5. QED
  BY <1>1, <1>2, <1>3, <1>4 DEF PointersOf

\* parse_ops_attr's array.
LEMMA OpsPointer ==
  ASSUME NEW b, NEW ids, NEW g, NEW made, NEW f, b # NoBlock
  PROVE  PointersOf([block |-> b, ids |-> ids], g, made, f)
           = PointersOf(NoOps, g, made, f) \cup {Pointer("ops", 0, 0, 0, b)}
<1>1. Held(OpsPointers("ops", [block |-> b, ids |-> ids])) = {Pointer("ops", 0, 0, 0, b)}
  BY DEF Held, OpsPointers, Pointer
<1>2. Held(OpsPointers("ops", NoOps)) = {}
  BY DEF Held, OpsPointers, Pointer, NoOps
<1>3. QED
  BY <1>1, <1>2 DEF PointersOf

\* parse_mcast_attr's array, no name in it yet.
LEMMA GroupsPointer ==
  ASSUME NEW b, NEW list, NEW o, NEW made, NEW f, b # NoBlock,
         \A i \in DOMAIN list : list[i].block = NoBlock
  PROVE  PointersOf(o, [block |-> b, list |-> list], made, f)
           = PointersOf(o, NoGroups, made, f) \cup {Pointer("groups", 0, 0, 0, b)}
<1>1. Held(GroupsPointers("groups", [block |-> b, list |-> list])) = {Pointer("groups", 0, 0, 0, b)}
  BY DEF Held, GroupsPointers, Pointer
<1>2. Held(GroupsPointers("groups", NoGroups)) = {}
  BY DEF Held, GroupsPointers, Pointer, NoGroups
<1>3. QED
  BY <1>1, <1>2 DEF PointersOf

\* One block more of the object under construction.
LEMMA BuiltPointer ==
  ASSUME NEW o, NEW g, NEW made \in Seq(Block), NEW f, NEW b \in Block
  PROVE  PointersOf(o, g, Append(made, b), f)
           = PointersOf(o, g, made, f) \cup {Pointer("built", 0, 0, Len(made) + 1, b)}
<1>1. ASSUME NEW p
      PROVE  p \in ObjectPointers("built", 0, 0, Append(made, b)) <=>
               p \in ObjectPointers("built", 0, 0, made) \cup {Pointer("built", 0, 0, Len(made) + 1, b)}
  <2>1. DOMAIN Append(made, b) = DOMAIN made \cup {Len(made) + 1}
    OBVIOUS
  <2>2. \A k \in DOMAIN made : Append(made, b)[k] = made[k]
    OBVIOUS
  <2>3. Append(made, b)[Len(made) + 1] = b
    OBVIOUS
  <2>4. QED
    BY <2>1, <2>2, <2>3 DEF ObjectPointers
<1>2. QED
  BY <1>1 DEF PointersOf

\* The family's overlay.
LEMMA OverlayPointer ==
  ASSUME NEW f, DOMAIN f = DOMAIN NoFamily, f.overlayBlock = NoBlock, NEW o, NEW b, b # NoBlock
  PROVE  Held(FamilyPointers([f EXCEPT !.overlay = o, !.overlayBlock = b]))
           = Held(FamilyPointers(f)) \cup {Pointer("overlay", 0, 0, 0, b)}
<1> DEFINE g == [f EXCEPT !.overlay = o, !.overlayBlock = b]
<1>1. g.blocks = f.blocks /\ g.ops = f.ops /\ g.groups = f.groups /\ g.kids = f.kids
      /\ g.overlayBlock = b
  BY DEF NoFamily
<1> DEFINE rest == ObjectPointers("family", 0, 0, f.blocks) \cup
                   OpsPointers("family ops", f.ops) \cup GroupsPointers("family groups", f.groups) \cup
                   UNION {KidPointers(i, f.kids[i]) : i \in DOMAIN f.kids}
<1>2. FamilyPointers(f) = rest \cup {Pointer("overlay", 0, 0, 0, NoBlock)}
  BY DEF FamilyPointers
<1>3. FamilyPointers(g) = rest \cup {Pointer("overlay", 0, 0, 0, b)}
  BY <1>1 DEF FamilyPointers
<1>4. Pointer("overlay", 0, 0, 0, NoBlock).block = NoBlock /\ Pointer("overlay", 0, 0, 0, b).block = b
  BY DEF Pointer
<1> HIDE DEF rest, g
<1>5. QED
  BY <1>2, <1>3, <1>4 DEF Held, g

\* A new child of the family.
LEMMA ChildPointers ==
  ASSUME NEW f, DOMAIN f = DOMAIN NoFamily, IsSequence(f.kids), NEW node, node.kids = << >>
  PROVE  FamilyPointers([f EXCEPT !.kids = Append(@, node)])
           = FamilyPointers(f) \cup ObjectPointers("kid", Len(f.kids) + 1, 0, node.blocks)
<1> DEFINE g == [f EXCEPT !.kids = Append(@, node)]
           n == Len(f.kids)
<1>1. g.blocks = f.blocks /\ g.ops = f.ops /\ g.groups = f.groups
      /\ g.overlayBlock = f.overlayBlock /\ g.kids = Append(f.kids, node)
  BY DEF NoFamily
<1>2. /\ DOMAIN g.kids = DOMAIN f.kids \cup {n + 1}
      /\ \A i \in DOMAIN f.kids : g.kids[i] = f.kids[i]
      /\ g.kids[n + 1] = node
  BY <1>1 DEF IsSequence
<1>3. KidPointers(n + 1, node) = ObjectPointers("kid", n + 1, 0, node.blocks)
  BY DEF KidPointers
<1> HIDE DEF g, n
<1>4. UNION {KidPointers(i, g.kids[i]) : i \in DOMAIN g.kids}
        = (UNION {KidPointers(i, f.kids[i]) : i \in DOMAIN f.kids})
            \cup ObjectPointers("kid", n + 1, 0, node.blocks)
  <2>1. ASSUME NEW p
        PROVE  (\E i \in DOMAIN g.kids : p \in KidPointers(i, g.kids[i])) <=>
               (\E i \in DOMAIN f.kids : p \in KidPointers(i, f.kids[i]))
               \/ p \in ObjectPointers("kid", n + 1, 0, node.blocks)
    BY <1>2, <1>3
  <2>2. QED
    BY <2>1
<1>5. QED
  BY <1>1, <1>4 DEF FamilyPointers, g, n

\* A new child of a child.
LEMMA GrandchildPointers ==
  ASSUME NEW f, DOMAIN f = DOMAIN NoFamily, IsSequence(f.kids), NEW c \in DOMAIN f.kids,
         DOMAIN f.kids[c] = {"kind", "id", "name", "set", "blocks", "kids", "populated"},
         IsSequence(f.kids[c].kids), NEW node
  PROVE  FamilyPointers([f EXCEPT !.kids[c].kids = Append(@, node)])
           = FamilyPointers(f)
               \cup ObjectPointers("kid", c, Len(f.kids[c].kids) + 1, node.blocks)
<1> DEFINE g == [f EXCEPT !.kids[c].kids = Append(@, node)]
           n == Len(f.kids[c].kids)
           more == ObjectPointers("kid", c, n + 1, node.blocks)
<1>1. g.blocks = f.blocks /\ g.ops = f.ops /\ g.groups = f.groups
      /\ g.overlayBlock = f.overlayBlock
      /\ g.kids = [f.kids EXCEPT ![c].kids = Append(@, node)]
  BY DEF NoFamily
<1>2. /\ DOMAIN g.kids = DOMAIN f.kids
      /\ \A i \in DOMAIN f.kids : i # c => g.kids[i] = f.kids[i]
      /\ g.kids[c] = [f.kids[c] EXCEPT !.kids = Append(@, node)]
  BY <1>1
<1>3. g.kids[c].blocks = f.kids[c].blocks /\ g.kids[c].kids = Append(f.kids[c].kids, node)
  BY <1>2
<1>4. /\ DOMAIN g.kids[c].kids = DOMAIN f.kids[c].kids \cup {n + 1}
      /\ \A j \in DOMAIN f.kids[c].kids : g.kids[c].kids[j] = f.kids[c].kids[j]
      /\ g.kids[c].kids[n + 1] = node
  BY <1>3 DEF IsSequence
<1> HIDE DEF g, n
<1>5. \A p : p \in KidPointers(c, g.kids[c]) <=> p \in KidPointers(c, f.kids[c]) \/ p \in more
  BY <1>3, <1>4 DEF KidPointers
<1> HIDE DEF more
<1>6. UNION {KidPointers(i, g.kids[i]) : i \in DOMAIN g.kids}
        = (UNION {KidPointers(i, f.kids[i]) : i \in DOMAIN f.kids}) \cup more
  <2>1. ASSUME NEW p
        PROVE  (\E i \in DOMAIN g.kids : p \in KidPointers(i, g.kids[i])) <=>
               (\E i \in DOMAIN f.kids : p \in KidPointers(i, f.kids[i])) \/ p \in more
    BY <1>2, <1>5
  <2>2. QED
    BY <2>1
<1>7. QED
  BY <1>1, <1>6 DEF FamilyPointers, g, n, more

\* The object under construction finds its place.
LEMMA Placed ==
  ASSUME NEW P, NEW L, NEW made, OwnedBy(P \cup ObjectPointers("built", 0, 0, made), L),
         \A p \in P : p.at[1] # "built", NEW i, NEW j
  PROVE  OwnedBy(P \cup ObjectPointers("kid", i, j, made), L)
<1> DEFINE Q == P \cup ObjectPointers("built", 0, 0, made)
           to == [p \in Q |-> IF p.at[1] = "built" THEN Pointer("kid", i, j, p.at[4], p.block) ELSE p]
<1>1. \A p \in Q : to[p] = IF p.at[1] = "built" THEN Pointer("kid", i, j, p.at[4], p.block) ELSE p
  OBVIOUS
<1> HIDE DEF to
<1>2. ASSUME NEW k \in DOMAIN made
      PROVE  /\ Pointer("built", 0, 0, k, made[k]) \in Q
             /\ to[Pointer("built", 0, 0, k, made[k])] = Pointer("kid", i, j, k, made[k])
  <2>1. Pointer("built", 0, 0, k, made[k]) \in Q
    BY DEF ObjectPointers
  <2>2. /\ Pointer("built", 0, 0, k, made[k]).at[1] = "built"
        /\ Pointer("built", 0, 0, k, made[k]).at[4] = k
        /\ Pointer("built", 0, 0, k, made[k]).block = made[k]
    BY DEF Pointer
  <2>3. QED
    BY <1>1, <2>1, <2>2
<1>3. \A p \in P : p \in Q /\ to[p] = p
  BY <1>1
<1>4. {to[p] : p \in Q} = P \cup ObjectPointers("kid", i, j, made)
  <2>1. ASSUME NEW p \in Q PROVE to[p] \in P \cup ObjectPointers("kid", i, j, made)
    <3>1. CASE p \in P
      BY <1>3, <3>1
    <3>2. CASE p \in ObjectPointers("built", 0, 0, made)
      <4>1. PICK k \in DOMAIN made : p = Pointer("built", 0, 0, k, made[k])
        BY <3>2 DEF ObjectPointers
      <4>2. QED
        BY <1>2, <4>1 DEF ObjectPointers
    <3>3. QED
      BY <3>1, <3>2
  <2>2. ASSUME NEW p \in P \cup ObjectPointers("kid", i, j, made) PROVE \E q \in Q : to[q] = p
    <3>1. CASE p \in P
      BY <1>3, <3>1
    <3>2. CASE p \in ObjectPointers("kid", i, j, made)
      <4>1. PICK k \in DOMAIN made : p = Pointer("kid", i, j, k, made[k])
        BY <3>2 DEF ObjectPointers
      <4>2. QED
        BY <1>2, <4>1
    <3>3. QED
      BY <3>1, <3>2
  <2>3. QED
    BY <2>1, <2>2
<1> HIDE DEF Q
<1>5. ASSUME NEW p \in Q PROVE to[p].block = p.block
  <2>1. Pointer("kid", i, j, p.at[4], p.block).block = p.block
    BY DEF Pointer
  <2>2. QED
    BY <1>1, <2>1
<1>6. ASSUME NEW p \in Q, NEW q \in Q, p.at = q.at PROVE to[p].at = to[q].at
  <2>1. Pointer("kid", i, j, p.at[4], p.block).at = Pointer("kid", i, j, q.at[4], q.block).at
    BY <1>6 DEF Pointer
  <2>2. QED
    BY <1>1, <1>6, <2>1
<1>7. OwnedBy({to[p] : p \in Q}, L)
  BY <1>5, <1>6, OwnElsewhere DEF Q
<1>8. QED
  BY <1>4, <1>7

\* Whose pointers they are shows in where they are.
LEMMA Places ==
  ASSUME NEW o, NEW g, NEW f
  PROVE  /\ \A p \in Held(OpsPointers("ops", o)) : p.at[1] = "ops"
         /\ \A p \in Held(GroupsPointers("groups", g)) : p.at[1] = "groups"
         /\ \A made : \A p \in ObjectPointers("built", 0, 0, made) : p.at[1] = "built"
         /\ \A p \in Held(FamilyPointers(f)) :
              p.at[1] \in {"family", "family ops", "family groups", "overlay", "kid"}
<1>1. \A tag, i, j, k, b : Pointer(tag, i, j, k, b).at[1] = tag
  BY DEF Pointer
<1>2. \A tag, i, j, blocks : \A p \in ObjectPointers(tag, i, j, blocks) : p.at[1] = tag
  BY <1>1 DEF ObjectPointers
<1>3. \A tag, x : \A p \in OpsPointers(tag, x) : p.at[1] = tag
  BY <1>1 DEF OpsPointers
<1>4. \A tag, x : \A p \in GroupsPointers(tag, x) : p.at[1] = tag
  BY <1>1 DEF GroupsPointers
<1>5. \A i, kid : \A p \in KidPointers(i, kid) : p.at[1] = "kid"
  BY <1>2 DEF KidPointers
<1>6. \A p \in FamilyPointers(f) :
        p.at[1] \in {"family", "family ops", "family groups", "overlay", "kid"}
  <2> SUFFICES ASSUME NEW p \in FamilyPointers(f)
               PROVE  p.at[1] \in {"family", "family ops", "family groups", "overlay", "kid"}
    OBVIOUS
  <2>1. CASE p \in ObjectPointers("family", 0, 0, f.blocks)
    BY <1>2, <2>1
  <2>2. CASE p \in OpsPointers("family ops", f.ops)
    BY <1>3, <2>2
  <2>3. CASE p \in GroupsPointers("family groups", f.groups)
    BY <1>4, <2>3
  <2>4. CASE p = Pointer("overlay", 0, 0, 0, f.overlayBlock)
    <3>1. Pointer("overlay", 0, 0, 0, f.overlayBlock).at[1] = "overlay"
      BY <1>1
    <3>2. QED
      BY <2>4, <3>1
  <2>5. CASE \E i \in DOMAIN f.kids : p \in KidPointers(i, f.kids[i])
    BY <1>5, <2>5
  <2>6. QED
    BY <2>1, <2>2, <2>3, <2>4, <2>5 DEF FamilyPointers
<1>7. QED
  BY <1>2, <1>3, <1>4, <1>6 DEF Held

-----------------------------------------------------------------------------
(* HeapOwned, action by action.                                            *)

\* The inductive invariant but for HeapOwned.
Typed == TypeOK /\ OpsShape(ops) /\ GroupsShape(groups) /\ FamilyShape /\ PhaseOK

\* As long as a block is free, the next allocation returns one of those.
LEMMA FreshIsNew == Block \ live # {} => Fresh \in Block /\ Fresh \notin live /\ Fresh # NoBlock
  BY BlockAssumption DEF Fresh

\* No block, no owner.
LEMMA NoBlocks ==
  /\ OpsBlocks(NoOps) = {} /\ GroupsBlocks(NoGroups) = {} /\ FamilyBlocks(NoFamily) = {}
  /\ ToSet(<< >>) = {}
<1>1. OpsBlocks(NoOps) = {} /\ GroupsBlocks(NoGroups) = {}
  BY DEF OpsBlocks, GroupsBlocks, NameBlocks, NoOps, NoGroups
<1>2. ToSet(<< >>) = {}
  BY DEF ToSet
<1>3. /\ NoFamily.blocks = << >> /\ NoFamily.ops = NoOps /\ NoFamily.groups = NoGroups
      /\ NoFamily.overlayBlock = NoBlock /\ NoFamily.kids = << >>
  BY DEF NoFamily
<1>4. KidsBlocks(NoFamily) = {}
  BY <1>3 DEF KidsBlocks
<1>5. FamilyBlocks(NoFamily) = {}
  BY <1>1, <1>2, <1>3, <1>4 DEF FamilyBlocks
<1>6. QED
  BY <1>1, <1>2, <1>5

\* The message sends its operations once, and its groups once.
LEMMA ReadOnce ==
  ASSUME PhaseOK, phase = "parse"
  PROVE  /\ next \in Sent(msg, "ops") => ops = NoOps
         /\ next \in Sent(msg, "groups") => groups = NoGroups
<1>1. msg \in Messages
  BY DEF PhaseOK
<1>2. ASSUME NEW type \in {"ops", "groups"}, next \in Sent(msg, type)
      PROVE  ~\E k \in Sent(msg, type) : k < next
  <2>1. \A k \in Sent(msg, type) : k = next
    BY <1>1, <1>2, ListAssumption
  <2>2. next \in Nat
    BY <1>1, <1>2, MessageAssumption DEF Sent, IsSequence
  <2>3. QED
    BY <2>1, <2>2
<1>3. QED
  BY <1>2 DEF PhaseOK

\* A call that gives everything up leaves no block behind.
LEMMA GaveUp ==
  ASSUME live' = {}, ops' = NoOps, groups' = NoGroups, built' = << >>, family' = NoFamily
  PROVE  HeapOwned'
<1>1. Pointers' = {}
  BY NothingHeld DEF Pointers
<1>2. QED
  BY <1>1 DEF HeapOwned, OwnedBy

\* Steps that move no pointer.
LEMMA PlainSteps ==
  ASSUME FamilyInv,
         \/ Receive \/ ReadPlain \/ NextGroup \/ GroupsDone \/ BeginFamily
         \/ WithoutOverlay \/ Attach \/ (\E i \in 0 .. Len(family.kids) : List(i))
         \/ UNCHANGED vars
  PROVE  HeapOwned'
<1>1. UNCHANGED <<live, ops, groups, family>>
  BY DEF Receive, ReadPlain, NextGroup, GroupsDone, BeginFamily, WithoutOverlay, Attach, List,
         vars, parser
<1>2. UNCHANGED built
  BY DEF Receive, ReadPlain, NextGroup, GroupsDone, BeginFamily, WithoutOverlay, Attach, List,
         vars, maker, AllRead, FamilyInv, PhaseOK
<1>3. QED
  BY <1>1, <1>2 DEF FamilyInv, HeapOwned, Pointers

\* parse_ops_attr
LEMMA ReadOpsOwned == FamilyInv /\ ReadOps => HeapOwned'
<1> SUFFICES ASSUME FamilyInv, ReadOps PROVE HeapOwned'
  OBVIOUS
<1>1. CASE Attr.ids = << >>
  BY <1>1 DEF ReadOps, maker, FamilyInv, HeapOwned, Pointers
<1>2. CASE Attr.ids # << >>
  <2>1. ops = NoOps
    BY ReadOnce DEF ReadOps, AtAttr, Attr, FamilyInv, Sent, TypeOK
  <2>2. /\ live' = live \cup {Fresh} /\ ops' = [block |-> Fresh, ids |-> Attr.ids]
        /\ UNCHANGED <<groups, built, family>>
        /\ Fresh \notin live /\ Fresh # NoBlock
    BY <1>2, FreshIsNew DEF ReadOps, Allocate, maker
  <2>3. Pointers' = Pointers \cup {Pointer("ops", 0, 0, 0, Fresh)}
    BY <2>1, <2>2, OpsPointer DEF Pointers
  <2>4. Pointer("ops", 0, 0, 0, Fresh).block = Fresh
    BY DEF Pointer
  <2>5. OwnedBy(Pointers, live)
    BY DEF FamilyInv, HeapOwned
  <2>6. OwnedBy(Pointers \cup {Pointer("ops", 0, 0, 0, Fresh)}, live \cup {Fresh})
    BY <2>2, <2>4, <2>5, OwnOneMore
  <2>7. QED
    BY <2>2, <2>3, <2>6 DEF HeapOwned
<1>3. QED
  BY <1>1, <1>2

\* parse_mcast_attr's array
LEMMA ReadGroupsOwned == FamilyInv /\ ReadGroups => HeapOwned'
<1> SUFFICES ASSUME FamilyInv, ReadGroups PROVE HeapOwned'
  OBVIOUS
<1>1. CASE Attr.list = << >>
  BY <1>1 DEF ReadGroups, maker, FamilyInv, HeapOwned, Pointers
<1>2. CASE Attr.list # << >>
  <2> DEFINE list == [i \in DOMAIN Attr.list |->
                        [id |-> Attr.list[i].id, name |-> NoName, block |-> NoBlock]]
  <2>1. groups = NoGroups
    BY ReadOnce DEF ReadGroups, AtAttr, Attr, FamilyInv, Sent, TypeOK
  <2>2. /\ live' = live \cup {Fresh} /\ groups' = [block |-> Fresh, list |-> list]
        /\ UNCHANGED <<ops, built, family>>
        /\ Fresh \notin live /\ Fresh # NoBlock
    BY <1>2, FreshIsNew DEF ReadGroups, Allocate, maker
  <2>3. \A i \in DOMAIN list : list[i].block = NoBlock
    OBVIOUS
  <2> HIDE DEF list
  <2>4. Pointers' = Pointers \cup {Pointer("groups", 0, 0, 0, Fresh)}
    BY <2>1, <2>2, <2>3, GroupsPointer DEF Pointers
  <2>5. Pointer("groups", 0, 0, 0, Fresh).block = Fresh
    BY DEF Pointer
  <2>6. OwnedBy(Pointers, live)
    BY DEF FamilyInv, HeapOwned
  <2>7. OwnedBy(Pointers \cup {Pointer("groups", 0, 0, 0, Fresh)}, live \cup {Fresh})
    BY <2>2, <2>5, <2>6, OwnOneMore
  <2>8. QED
    BY <2>2, <2>4, <2>7 DEF HeapOwned
<1>3. QED
  BY <1>1, <1>2

\* A constructor's next block
LEMMA ConstructOwned == FamilyInv /\ Construct => HeapOwned'
<1> SUFFICES ASSUME FamilyInv, Construct PROVE HeapOwned'
  OBVIOUS
<1> DEFINE p == Pointer("built", 0, 0, Len(built) + 1, Fresh)
<1>1. /\ live' = live \cup {Fresh} /\ built' = Append(built, Fresh)
      /\ UNCHANGED <<ops, groups, family>>
      /\ Fresh \notin live /\ Fresh \in Block
  BY FreshIsNew DEF Construct, Allocate, parser
<1>2. Pointers' = Pointers \cup {p}
  BY <1>1, BuiltPointer DEF Pointers, FamilyInv, TypeOK
<1>3. p.block = Fresh
  BY DEF Pointer
<1>4. OwnedBy(Pointers, live)
  BY DEF FamilyInv, HeapOwned
<1> HIDE DEF p
<1>5. OwnedBy(Pointers \cup {p}, live \cup {Fresh})
  BY <1>1, <1>3, <1>4, OwnOneMore
<1>6. QED
  BY <1>1, <1>2, <1>5 DEF HeapOwned

\* The family's overlay
LEMMA LoadOverlayOwned == FamilyInv /\ LoadOverlay => HeapOwned'
<1> SUFFICES ASSUME FamilyInv, LoadOverlay PROVE HeapOwned'
  OBVIOUS
<1> DEFINE p == Pointer("overlay", 0, 0, 0, Fresh)
<1>1. /\ live' = live \cup {Fresh}
      /\ UNCHANGED <<ops, groups, built>>
      /\ Fresh \notin live /\ Fresh # NoBlock
      /\ \E o \in Overlays : family' = [family EXCEPT !.overlay = o, !.overlayBlock = Fresh]
  BY FreshIsNew DEF LoadOverlay, Allocate, parser, maker
<1>2. DOMAIN family = DOMAIN NoFamily /\ family.overlayBlock = NoBlock
  <2>1. FamilyShape /\ PhaseOK /\ phase = "overlay"
    BY DEF FamilyInv, LoadOverlay
  <2>2. DOMAIN family = DOMAIN NoFamily
    BY <2>1 DEF FamilyShape
  <2>3. family.overlayBlock = NoBlock
    BY <2>1 DEF PhaseOK
  <2>4. QED
    BY <2>2, <2>3
<1>3. Held(FamilyPointers(family')) = Held(FamilyPointers(family)) \cup {p}
  <2>1. PICK o \in Overlays : family' = [family EXCEPT !.overlay = o, !.overlayBlock = Fresh]
    BY <1>1
  <2>2. PICK f : f = family
    OBVIOUS
  <2>3. DOMAIN f = DOMAIN NoFamily /\ f.overlayBlock = NoBlock /\ Fresh # NoBlock
    BY <1>1, <1>2, <2>2
  <2>4. Held(FamilyPointers([f EXCEPT !.overlay = o, !.overlayBlock = Fresh]))
          = Held(FamilyPointers(f)) \cup {Pointer("overlay", 0, 0, 0, Fresh)}
    BY <2>3, OverlayPointer
  <2>5. QED
    BY <2>1, <2>2, <2>4
<1>4. Pointers' = Pointers \cup {p}
  BY <1>1, <1>3 DEF Pointers, PointersOf
<1>5. p.block = Fresh
  BY DEF Pointer
<1>6. OwnedBy(Pointers, live)
  BY DEF FamilyInv, HeapOwned
<1> HIDE DEF p
<1>7. OwnedBy(Pointers \cup {p}, live \cup {Fresh})
  BY <1>1, <1>5, <1>6, OwnOneMore
<1>8. QED
  BY <1>1, <1>4, <1>7 DEF HeapOwned

At(P, place) == {p \in P : p.at = place}
NotAt(P, place) == {p \in P : p.at # place}
BlocksOf(P) == {p.block : p \in P}

\* An entry's name is replaced.
LEMMA NamePointer ==
  ASSUME NEW g, NEW h, NEW c \in DOMAIN g.list, c # 0, NEW b, b # NoBlock,
         h.block = g.block, DOMAIN h.list = DOMAIN g.list, h.list[c].block = b,
         \A i \in DOMAIN g.list : i # c => h.list[i].block = g.list[i].block
  PROVE  /\ Held(GroupsPointers("groups", h))
              = NotAt(Held(GroupsPointers("groups", g)), <<"groups", c, 0, 0>>)
                  \cup {Pointer("groups", c, 0, 0, b)}
         /\ BlocksOf(At(Held(GroupsPointers("groups", g)), <<"groups", c, 0, 0>>))
              = {g.list[c].block} \ {NoBlock}
<1> DEFINE place == <<"groups", c, 0, 0>>
<1>1. \A i, x : /\ Pointer("groups", i, 0, 0, x).block = x
                /\ Pointer("groups", i, 0, 0, x).at = place <=> i = c
  BY DEF Pointer
<1>2. \A x, p : p \in Held(GroupsPointers("groups", x)) <=>
        \/ p = Pointer("groups", 0, 0, 0, x.block) /\ x.block # NoBlock
        \/ \E i \in DOMAIN x.list :
             p = Pointer("groups", i, 0, 0, x.list[i].block) /\ x.list[i].block # NoBlock
  BY <1>1 DEF Held, GroupsPointers
<1> HIDE DEF place
<1>3. ASSUME NEW p
      PROVE  p \in Held(GroupsPointers("groups", h)) <=>
               \/ p \in Held(GroupsPointers("groups", g)) /\ p.at # place
               \/ p = Pointer("groups", c, 0, 0, b)
  <2>1. CASE p = Pointer("groups", c, 0, 0, b)
    BY <1>2, <2>1
  <2>2. CASE p # Pointer("groups", c, 0, 0, b)
    <3>1. ASSUME p \in Held(GroupsPointers("groups", h))
          PROVE  p \in Held(GroupsPointers("groups", g)) /\ p.at # place
      <4>1. CASE p = Pointer("groups", 0, 0, 0, h.block) /\ h.block # NoBlock
        BY <1>1, <1>2, <4>1
      <4>2. CASE \E i \in DOMAIN h.list :
                   p = Pointer("groups", i, 0, 0, h.list[i].block) /\ h.list[i].block # NoBlock
        <5>1. PICK i \in DOMAIN g.list :
                p = Pointer("groups", i, 0, 0, h.list[i].block) /\ h.list[i].block # NoBlock
          BY <4>2
        <5>2. i # c
          BY <2>2, <5>1
        <5>3. QED
          BY <1>1, <1>2, <5>1, <5>2
      <4>3. QED
        BY <1>2, <3>1, <4>1, <4>2
    <3>2. ASSUME p \in Held(GroupsPointers("groups", g)), p.at # place
          PROVE  p \in Held(GroupsPointers("groups", h))
      <4>1. CASE p = Pointer("groups", 0, 0, 0, g.block) /\ g.block # NoBlock
        BY <1>2, <4>1
      <4>2. CASE \E i \in DOMAIN g.list :
                   p = Pointer("groups", i, 0, 0, g.list[i].block) /\ g.list[i].block # NoBlock
        <5>1. PICK i \in DOMAIN g.list :
                p = Pointer("groups", i, 0, 0, g.list[i].block) /\ g.list[i].block # NoBlock
          BY <4>2
        <5>2. i # c
          BY <1>1, <3>2, <5>1
        <5>3. QED
          BY <1>2, <5>1, <5>2
      <4>3. QED
        BY <1>2, <3>2, <4>1, <4>2
    <3>3. QED
      BY <2>2, <3>1, <3>2
  <2>3. QED
    BY <2>1, <2>2
<1>4. ASSUME NEW x
      PROVE  (\E p \in Held(GroupsPointers("groups", g)) : p.at = place /\ p.block = x) <=>
               x = g.list[c].block /\ x # NoBlock
  BY <1>1, <1>2
<1>5. Held(GroupsPointers("groups", h))
        = NotAt(Held(GroupsPointers("groups", g)), place) \cup {Pointer("groups", c, 0, 0, b)}
  BY <1>3 DEF NotAt
<1>6. BlocksOf(At(Held(GroupsPointers("groups", g)), place)) = {g.list[c].block} \ {NoBlock}
  <2>1. ASSUME NEW x
        PROVE  x \in BlocksOf(At(Held(GroupsPointers("groups", g)), place))
                 <=> (x = g.list[c].block /\ x # NoBlock)
    BY <1>4 DEF BlocksOf, At
  <2>2. QED
    BY <2>1
<1>7. QED
  BY <1>5, <1>6 DEF place

\* parse_mcast_attr: a name replaces the one before.
LEMMA ReadGroupNameOwned == FamilyInv /\ ReadGroupName => HeapOwned'
<1> SUFFICES ASSUME FamilyInv, ReadGroupName PROVE HeapOwned'
  OBVIOUS
<1> DEFINE c == Current
           place == <<"groups", c, 0, 0>>
           old == groups.list[c].block
           Q == NotAt(Pointers, place)
           new == Pointer("groups", c, 0, 0, Fresh)
<1>1. /\ live' = (live \cup {Fresh}) \ {old}
      /\ UNCHANGED <<ops, built, family>>
      /\ Fresh \notin live /\ Fresh # NoBlock /\ Fresh \in Block
      /\ groups' = [groups EXCEPT !.list[c].name = Attr.list[Current].names[entry[2]],
                                  !.list[c].block = Fresh]
  BY FreshIsNew DEF ReadGroupName, maker
<1>2. /\ c \in DOMAIN groups.list /\ c \in Nat \ {0}
      /\ DOMAIN groups = {"block", "list"}
      /\ DOMAIN groups.list[c] = {"id", "name", "block"}
  <2>1. phase = "groups" /\ c <= Len(Attr.list) /\ c \in Nat \ {0}
        /\ DOMAIN groups.list = DOMAIN Attr.list /\ next \in Sent(msg, "groups") /\ msg \in Messages
    BY DEF ReadGroupName, InGroups, Current, FamilyInv, PhaseOK
  <2>2. IsSequence(Attr.list)
    BY <2>1, MessageAssumption DEF Sent, Attr, IsSequence, ToSet
  <2>3. c \in DOMAIN groups.list
    BY <2>1, <2>2 DEF IsSequence
  <2>4. QED
    BY <2>1, <2>3 DEF FamilyInv, GroupsShape, ToSet
<1>3. /\ groups'.block = groups.block
      /\ DOMAIN groups'.list = DOMAIN groups.list
      /\ groups'.list[c].block = Fresh
      /\ \A i \in DOMAIN groups.list : i # c => groups'.list[i].block = groups.list[i].block
  BY <1>1, <1>2 DEF old
<1> HIDE DEF c, place, new, old
<1>4. /\ Held(GroupsPointers("groups", groups'))
           = NotAt(Held(GroupsPointers("groups", groups)), place) \cup {new}
      /\ BlocksOf(At(Held(GroupsPointers("groups", groups)), place)) = {old} \ {NoBlock}
  <2>1. PICK h : h = groups'
    OBVIOUS
  <2>2. /\ h.block = groups.block
        /\ DOMAIN h.list = DOMAIN groups.list
        /\ h.list[c].block = Fresh
        /\ \A i \in DOMAIN groups.list : i # c => h.list[i].block = groups.list[i].block
    BY <1>3, <2>1
  <2>3. PICK d : d = c
    OBVIOUS
  <2>4. PICK g : g = groups
    OBVIOUS
  <2>5. PICK b : b = Fresh
    OBVIOUS
  <2>6. /\ d \in DOMAIN g.list /\ d # 0 /\ b # NoBlock
        /\ h.block = g.block
        /\ DOMAIN h.list = DOMAIN g.list
        /\ h.list[d].block = b
        /\ \A i \in DOMAIN g.list : i # d => h.list[i].block = g.list[i].block
    BY <1>1, <1>2, <2>2, <2>3, <2>4, <2>5
  <2>7. /\ Held(GroupsPointers("groups", h))
             = NotAt(Held(GroupsPointers("groups", g)), <<"groups", d, 0, 0>>)
                 \cup {Pointer("groups", d, 0, 0, b)}
        /\ BlocksOf(At(Held(GroupsPointers("groups", g)), <<"groups", d, 0, 0>>))
             = {g.list[d].block} \ {NoBlock}
    BY <2>6, NamePointer
  <2>8. QED
    BY <2>1, <2>3, <2>4, <2>5, <2>7 DEF place, new, old
<1>5. /\ \A p \in Held(OpsPointers("ops", ops)) : p.at # place
      /\ \A p \in ObjectPointers("built", 0, 0, built) : p.at # place
      /\ \A p \in Held(FamilyPointers(family)) : p.at # place
  <2>1. place[1] = "groups"
    BY DEF place
  <2>2. QED
    BY <2>1, Places
<1>6. Pointers' = Q \cup {new}
  BY <1>1, <1>4, <1>5 DEF Pointers, PointersOf, NotAt
<1>7. {p.block : p \in Pointers \ Q} = {old} \ {NoBlock}
  <2>1. Pointers \ Q = At(Held(GroupsPointers("groups", groups)), place)
    BY <1>5 DEF Pointers, PointersOf, At, NotAt
  <2>2. QED
    BY <1>4, <2>1 DEF BlocksOf
<1>8. OwnedBy(Pointers, live)
  BY DEF FamilyInv, HeapOwned
<1>9. OwnedBy(Q, live \ {p.block : p \in Pointers \ Q})
  <2>1. \A p \in Pointers \ Q : \A q \in Q : p.at # q.at
    BY DEF NotAt
  <2>2. QED
    BY <1>8, <2>1, OwnLess DEF NotAt
<1>10. new.block = Fresh
  BY DEF Pointer, new
<1> HIDE DEF Q
<1>11. OwnedBy(Q \cup {new}, (live \ {p.block : p \in Pointers \ Q}) \cup {Fresh})
  BY <1>1, <1>9, <1>10, OwnOneMore
<1>12. NoBlock \notin live
  BY BlockAssumption DEF FamilyInv, TypeOK
<1>13. old # Fresh
  <2>1. old \in live \/ old = NoBlock
    BY <1>4, <1>7, <1>8 DEF OwnedBy
  <2>2. QED
    BY <1>1, <2>1
<1>14. live' = (live \ {p.block : p \in Pointers \ Q}) \cup {Fresh}
  BY <1>1, <1>7, <1>12, <1>13
<1>15. QED
  BY <1>6, <1>11, <1>14 DEF HeapOwned

\* Steps that give up all there is.
LEMMA FreeAllOwned ==
  ASSUME FamilyInv,
         \/ OpsFail \/ GroupsFail \/ SkipFamily \/ AttachFails \/ Destroy
         \/ ConstructFails /\ phase = "create"
  PROVE  HeapOwned'
<1>1. /\ ops' = NoOps /\ groups' = NoGroups /\ built' = << >>
  BY DEF OpsFail, GroupsFail, SkipFamily, AttachFails, Destroy, ConstructFails, Return
<1>2. CASE OpsFail \/ GroupsFail \/ SkipFamily \/ (ConstructFails /\ phase = "create")
  <2>1. family = NoFamily /\ family' = NoFamily
    BY <1>2 DEF OpsFail, GroupsFail, SkipFamily, ConstructFails, AtAttr, InGroups, AllRead,
                FamilyInv, PhaseOK
  <2>2. live = OpsBlocks(ops) \cup GroupsBlocks(groups) \cup ToSet(built)
    BY <2>1, LiveIs, NoBlocks
  <2>3. CASE ConstructFails /\ phase = "create"
    BY <1>1, <2>1, <2>2, <2>3, GaveUp DEF ConstructFails, Free
  <2>4. CASE OpsFail
    <3>1. ops = NoOps /\ built = << >>
      BY <2>4, ReadOnce DEF OpsFail, AtAttr, Attr, FamilyInv, Sent, TypeOK, PhaseOK
    <3>2. live' = {}
      BY <2>2, <2>4, <3>1, NoBlocks DEF OpsFail, Free
    <3>3. QED
      BY <1>1, <2>1, <3>2, GaveUp
  <2>5. CASE GroupsFail \/ SkipFamily
    <3>1. built = << >>
      BY <2>5 DEF GroupsFail, SkipFamily, AtAttr, InGroups, AllRead, FamilyInv, PhaseOK
    <3>2. live' = {}
      BY <2>2, <2>5, <3>1, NoBlocks DEF GroupsFail, SkipFamily, Free
    <3>3. QED
      BY <1>1, <2>1, <3>2, GaveUp
  <2>6. QED
    BY <1>2, <2>3, <2>4, <2>5
<1>3. CASE AttachFails \/ Destroy
  <2>1. family' = NoFamily /\ ops = NoOps /\ groups = NoGroups /\ built = << >>
    BY <1>3 DEF AttachFails, Destroy, FamilyInv, PhaseOK
  <2>2. live = FamilyBlocks(family)
    BY <2>1, LiveIs, NoBlocks
  <2>3. live' = {}
    BY <1>3, <2>2 DEF AttachFails, Destroy, Free
  <2>4. QED
    BY <1>1, <2>1, <2>3, GaveUp
<1>4. QED
  BY <1>2, <1>3

\* The object under construction is given up.
LEMMA FreeBuiltOwned ==
  ASSUME FamilyInv, AppendFails \/ (ConstructFails /\ phase # "create")
  PROVE  HeapOwned'
<1> DEFINE Q == PointersOf(ops, groups, << >>, family)
<1>1. /\ live' = live \ ToSet(built) /\ built' = << >>
      /\ UNCHANGED <<ops, groups, family>>
  BY DEF AppendFails, ConstructFails, Free, parser
<1>2. Pointers' = Q
  BY <1>1 DEF Pointers
<1>3. ObjectPointers("built", 0, 0, << >>) = {}
  BY DEF ObjectPointers
<1>4. /\ Q = Held(OpsPointers("ops", ops)) \cup Held(GroupsPointers("groups", groups))
               \cup Held(FamilyPointers(family))
      /\ Pointers = Q \cup ObjectPointers("built", 0, 0, built)
  BY <1>3 DEF Pointers, PointersOf
<1>5. \A p \in Q : p.at[1] # "built"
  BY <1>4, Places
<1>6. \A p \in ObjectPointers("built", 0, 0, built) : p.at[1] = "built"
  BY Places
<1> HIDE DEF Q
<1>7. Pointers \ Q = ObjectPointers("built", 0, 0, built)
  BY <1>4, <1>5, <1>6
<1>8. {p.block : p \in Pointers \ Q} = ToSet(built)
  BY <1>7, ObjectPointsTo
<1>9. OwnedBy(Q, live \ {p.block : p \in Pointers \ Q})
  <2>1. OwnedBy(Pointers, live)
    BY DEF FamilyInv, HeapOwned
  <2>2. \A p \in Pointers \ Q : \A q \in Q : p.at # q.at
    BY <1>5, <1>6, <1>7
  <2>3. QED
    BY <1>4, <2>1, <2>2, OwnLess
<1>10. QED
  BY <1>1, <1>2, <1>8, <1>9 DEF HeapOwned

\* set_ops and set_mcast_groups: the parser's pointers become the family's.
LEMMA HandOverOwned == FamilyInv /\ HandOver => HeapOwned'
<1> SUFFICES ASSUME FamilyInv, HandOver PROVE HeapOwned'
  OBVIOUS
<1> DEFINE tag == [t \in {"ops", "groups", "built"} |->
                      IF t = "ops" THEN "family ops" ELSE IF t = "groups" THEN "family groups"
                      ELSE "family"]
           to == [p \in Pointers |-> Pointer(tag[p.at[1]], p.at[2], p.at[3], p.at[4], p.block)]
<1>1. /\ live' = live /\ built' = << >> /\ ops' = NoOps /\ groups' = NoGroups
      /\ family' = [NoFamily EXCEPT !.blocks = built, !.ops = ops, !.groups = groups]
      /\ family = NoFamily
  BY DEF HandOver, FamilyInv, PhaseOK
<1>2. Pointers = Held(OpsPointers("ops", ops)) \cup Held(GroupsPointers("groups", groups))
                   \cup ObjectPointers("built", 0, 0, built)
  <2>1. Held(FamilyPointers(NoFamily)) = {}
    BY NothingHeld DEF PointersOf
  <2>2. QED
    BY <1>1, <2>1 DEF Pointers, PointersOf
<1>3. Pointers' = ObjectPointers("family", 0, 0, built) \cup Held(OpsPointers("family ops", ops))
                    \cup Held(GroupsPointers("family groups", groups))
  <2>1. Pointers' = Held(FamilyPointers(family'))
    <3>1. Held(OpsPointers("ops", NoOps)) = {} /\ Held(GroupsPointers("groups", NoGroups)) = {}
          /\ ObjectPointers("built", 0, 0, << >>) = {}
      BY NothingHeld DEF PointersOf
    <3>2. QED
      BY <1>1, <3>1 DEF Pointers, PointersOf
  <2>2. /\ family'.blocks = built /\ family'.ops = ops /\ family'.groups = groups
        /\ family'.overlayBlock = NoBlock /\ family'.kids = << >>
    BY <1>1 DEF NoFamily
  <2>3. FamilyPointers(family') =
          ObjectPointers("family", 0, 0, built) \cup
          OpsPointers("family ops", ops) \cup GroupsPointers("family groups", groups) \cup
          {Pointer("overlay", 0, 0, 0, NoBlock)} \cup {}
    BY <2>2 DEF FamilyPointers
  <2>4. Held({Pointer("overlay", 0, 0, 0, NoBlock)}) = {}
    BY DEF Held, Pointer
  <2>5. \A p \in ObjectPointers("family", 0, 0, built) : p.block # NoBlock
    BY ObjectsHeld, BlockAssumption DEF FamilyInv, TypeOK
  <2>6. QED
    BY <2>1, <2>3, <2>4, <2>5 DEF Held
<1>4. \A p \in Pointers : to[p] = Pointer(tag[p.at[1]], p.at[2], p.at[3], p.at[4], p.block)
  OBVIOUS
<1>5. tag["ops"] = "family ops" /\ tag["groups"] = "family groups" /\ tag["built"] = "family"
  OBVIOUS
<1> HIDE DEF to, tag
<1>6. /\ \A b : Pointer("ops", 0, 0, 0, b) \in Pointers =>
                  to[Pointer("ops", 0, 0, 0, b)] = Pointer("family ops", 0, 0, 0, b)
      /\ \A i, b : Pointer("groups", i, 0, 0, b) \in Pointers =>
                     to[Pointer("groups", i, 0, 0, b)] = Pointer("family groups", i, 0, 0, b)
      /\ \A k, b : Pointer("built", 0, 0, k, b) \in Pointers =>
                     to[Pointer("built", 0, 0, k, b)] = Pointer("family", 0, 0, k, b)
  <2>1. ASSUME NEW t, NEW i, NEW k, NEW b, Pointer(t, i, 0, k, b) \in Pointers
        PROVE  to[Pointer(t, i, 0, k, b)] = Pointer(tag[t], i, 0, k, b)
    <3>1. PICK q : q = Pointer(t, i, 0, k, b)
      OBVIOUS
    <3>2. q.at[1] = t /\ q.at[2] = i /\ q.at[3] = 0 /\ q.at[4] = k /\ q.block = b
      BY <3>1 DEF Pointer
    <3>3. to[q] = Pointer(tag[q.at[1]], q.at[2], q.at[3], q.at[4], q.block)
      BY <1>4, <2>1, <3>1
    <3>4. QED
      BY <3>1, <3>2, <3>3
  <2>2. ASSUME NEW b, Pointer("ops", 0, 0, 0, b) \in Pointers
        PROVE  to[Pointer("ops", 0, 0, 0, b)] = Pointer("family ops", 0, 0, 0, b)
    <3>1. to[Pointer("ops", 0, 0, 0, b)] = Pointer(tag["ops"], 0, 0, 0, b)
      BY <2>2, <2>1
    <3>2. QED
      BY <1>5, <3>1, Zenon
  <2>3. ASSUME NEW i, NEW b, Pointer("groups", i, 0, 0, b) \in Pointers
        PROVE  to[Pointer("groups", i, 0, 0, b)] = Pointer("family groups", i, 0, 0, b)
    <3>1. to[Pointer("groups", i, 0, 0, b)] = Pointer(tag["groups"], i, 0, 0, b)
      BY <2>3, <2>1
    <3>2. QED
      BY <1>5, <3>1, Zenon
  <2>4. ASSUME NEW k, NEW b, Pointer("built", 0, 0, k, b) \in Pointers
        PROVE  to[Pointer("built", 0, 0, k, b)] = Pointer("family", 0, 0, k, b)
    <3>1. to[Pointer("built", 0, 0, k, b)] = Pointer(tag["built"], 0, 0, k, b)
      BY <2>4, <2>1
    <3>2. QED
      BY <1>5, <3>1, Zenon
  <2>5. QED
    BY <2>2, <2>3, <2>4
<1>7. \A t, i, j, k, b : Pointer(t, i, j, k, b).block = b
  BY DEF Pointer
<1>8. {to[p] : p \in Pointers} = Pointers'
  <2>1. \A t, x, q : q \in Held(OpsPointers(t, x)) <=>
                       q = Pointer(t, 0, 0, 0, x.block) /\ x.block # NoBlock
    BY <1>7 DEF Held, OpsPointers
  <2>2. \A t, x, q : q \in Held(GroupsPointers(t, x)) <=>
          \/ q = Pointer(t, 0, 0, 0, x.block) /\ x.block # NoBlock
          \/ \E i \in DOMAIN x.list :
               q = Pointer(t, i, 0, 0, x.list[i].block) /\ x.list[i].block # NoBlock
    BY <1>7 DEF Held, GroupsPointers
  <2>3. \A t, x, q : q \in ObjectPointers(t, 0, 0, x) <=>
                       \E k \in DOMAIN x : q = Pointer(t, 0, 0, k, x[k])
    BY DEF ObjectPointers
  <2>4. ASSUME NEW p \in Pointers PROVE to[p] \in Pointers'
    <3>1. CASE p \in Held(OpsPointers("ops", ops))
      <4>1. p = Pointer("ops", 0, 0, 0, ops.block) /\ ops.block # NoBlock
        BY <2>1, <3>1
      <4>2. to[p] = Pointer("family ops", 0, 0, 0, ops.block)
        BY <1>6, <4>1
      <4>3. to[p] \in Held(OpsPointers("family ops", ops))
        BY <2>1, <4>1, <4>2
      <4>4. QED
        BY <1>3, <4>3
    <3>2. CASE p \in Held(GroupsPointers("groups", groups))
      <4>1. CASE p = Pointer("groups", 0, 0, 0, groups.block) /\ groups.block # NoBlock
        <5>1. to[p] = Pointer("family groups", 0, 0, 0, groups.block)
          BY <1>6, <4>1
        <5>2. to[p] \in Held(GroupsPointers("family groups", groups))
          BY <2>2, <4>1, <5>1
        <5>3. QED
          BY <1>3, <5>2
      <4>2. ASSUME NEW i \in DOMAIN groups.list,
                   p = Pointer("groups", i, 0, 0, groups.list[i].block),
                   groups.list[i].block # NoBlock
            PROVE  to[p] \in Pointers'
        <5>1. to[p] = Pointer("family groups", i, 0, 0, groups.list[i].block)
          BY <1>6, <4>2
        <5>2. to[p] \in Held(GroupsPointers("family groups", groups))
          BY <2>2, <4>2, <5>1
        <5>3. QED
          BY <1>3, <5>2
      <4>3. QED
        BY <2>2, <3>2, <4>1, <4>2, Zenon
    <3>3. CASE p \in ObjectPointers("built", 0, 0, built)
      <4>1. PICK k \in DOMAIN built : p = Pointer("built", 0, 0, k, built[k])
        BY <2>3, <3>3
      <4>2. to[p] = Pointer("family", 0, 0, k, built[k])
        BY <1>6, <4>1
      <4>3. to[p] \in ObjectPointers("family", 0, 0, built)
        BY <2>3, <4>2
      <4>4. QED
        BY <1>3, <4>3
    <3>4. QED
      BY <1>2, <3>1, <3>2, <3>3
  <2>5. ASSUME NEW q \in Pointers' PROVE \E p \in Pointers : to[p] = q
    <3>1. CASE q \in Held(OpsPointers("family ops", ops))
      <4>1. q = Pointer("family ops", 0, 0, 0, ops.block) /\ ops.block # NoBlock
        BY <2>1, <3>1
      <4>2. Pointer("ops", 0, 0, 0, ops.block) \in Pointers
        BY <1>2, <2>1, <4>1
      <4>3. QED
        BY <1>6, <4>1, <4>2
    <3>2. CASE q \in Held(GroupsPointers("family groups", groups))
      <4>1. CASE q = Pointer("family groups", 0, 0, 0, groups.block) /\ groups.block # NoBlock
        <5>1. Pointer("groups", 0, 0, 0, groups.block) \in Pointers
          BY <1>2, <2>2, <4>1
        <5>2. QED
          BY <1>6, <4>1, <5>1
      <4>2. ASSUME NEW i \in DOMAIN groups.list,
                   q = Pointer("family groups", i, 0, 0, groups.list[i].block),
                   groups.list[i].block # NoBlock
            PROVE  \E p \in Pointers : to[p] = q
        <5>1. Pointer("groups", i, 0, 0, groups.list[i].block) \in Pointers
          BY <1>2, <2>2, <4>2
        <5>2. to[Pointer("groups", i, 0, 0, groups.list[i].block)] = q
          BY <1>6, <4>2, <5>1
        <5>3. QED
          BY <5>1, <5>2
      <4>3. QED
        BY <2>2, <3>2, <4>1, <4>2, Zenon
    <3>3. CASE q \in ObjectPointers("family", 0, 0, built)
      <4>1. PICK k \in DOMAIN built : q = Pointer("family", 0, 0, k, built[k])
        BY <2>3, <3>3
      <4>2. Pointer("built", 0, 0, k, built[k]) \in Pointers
        BY <1>2, <2>3
      <4>3. QED
        BY <1>6, <4>1, <4>2
    <3>4. QED
      BY <1>3, <3>1, <3>2, <3>3
  <2>6. QED
    BY <2>4, <2>5
<1>9. \A p \in Pointers : to[p].block = p.block
  BY <1>4, <1>7
<1>10. ASSUME NEW p \in Pointers, NEW q \in Pointers, p.at = q.at PROVE to[p].at = to[q].at
  <2>1. \A t, i, j, k, b, c : Pointer(t, i, j, k, b).at = Pointer(t, i, j, k, c).at
    BY DEF Pointer
  <2>2. QED
    BY <1>4, <1>10, <2>1
<1>11. OwnedBy(Pointers, live)
  BY DEF FamilyInv, HeapOwned
<1>12. OwnedBy({to[p] : p \in Pointers}, live)
  BY <1>9, <1>10, <1>11, OwnElsewhere
<1>13. QED
  BY <1>1, <1>8, <1>12 DEF HeapOwned

\* object_append_child: the new node becomes a child.
LEMMA AppendNodeOwned == FamilyInv /\ AppendNode => HeapOwned'
<1> SUFFICES ASSUME FamilyInv, AppendNode PROVE HeapOwned'
  OBVIOUS
<1> DEFINE P == Held(OpsPointers("ops", ops)) \cup Held(GroupsPointers("groups", groups))
                  \cup Held(FamilyPointers(family))
           nodes(i, j) == ObjectPointers("kid", i, j, built)
<1>1. /\ UNCHANGED <<live, ops, groups>> /\ built' = << >>
      /\ family' = IF onto = 0 THEN [family EXCEPT !.kids = Append(@, MadeNode)]
                   ELSE [family EXCEPT !.kids[onto].kids = Append(@, MadeNode)]
  BY DEF AppendNode, parser
<1>2. MadeNode.kids = << >> /\ MadeNode.blocks = built
  BY DEF MadeNode
<1>3. DOMAIN family = DOMAIN NoFamily /\ IsSequence(family.kids)
  BY DEF FamilyInv, FamilyShape
<1>4. \E i, j : FamilyPointers(family') = FamilyPointers(family) \cup nodes(i, j)
  <2>1. CASE onto = 0
    BY <1>1, <1>2, <1>3, <2>1, ChildPointers
  <2>2. CASE onto # 0
    <3>1. onto \in DOMAIN family.kids
      BY <1>3, <2>2 DEF FamilyInv, TypeOK, IsSequence
    <3>2. ObjectShape(family.kids[onto])
      BY <3>1 DEF FamilyInv, FamilyShape, ToSet
    <3>3. /\ DOMAIN family.kids[onto] = {"kind", "id", "name", "set", "blocks", "kids", "populated"}
          /\ IsSequence(family.kids[onto].kids)
      BY <3>2 DEF ObjectShape
    <3>4. PICK node : node = MadeNode
      OBVIOUS
    <3>5. FamilyPointers([family EXCEPT !.kids[onto].kids = Append(@, node)])
            = FamilyPointers(family)
                \cup ObjectPointers("kid", onto, Len(family.kids[onto].kids) + 1, node.blocks)
      BY <1>3, <3>1, <3>3, GrandchildPointers
    <3>6. QED
      BY <1>1, <1>2, <2>2, <3>4, <3>5
  <2>3. QED
    BY <2>1, <2>2
<1>5. PICK i, j : FamilyPointers(family') = FamilyPointers(family) \cup nodes(i, j)
  BY <1>4
<1>6. \A p \in nodes(i, j) : p.block # NoBlock
  BY ObjectsHeld, BlockAssumption DEF FamilyInv, TypeOK
<1> HIDE DEF nodes
<1>7. Held(FamilyPointers(family')) = Held(FamilyPointers(family)) \cup nodes(i, j)
  BY <1>5, <1>6 DEF Held
<1>8. Pointers = P \cup ObjectPointers("built", 0, 0, built)
  BY DEF Pointers, PointersOf
<1>9. Pointers' = P \cup nodes(i, j)
  <2>1. ObjectPointers("built", 0, 0, << >>) = {}
    BY DEF ObjectPointers
  <2>2. QED
    BY <1>1, <1>7, <2>1 DEF Pointers, PointersOf
<1>10. \A p \in P : p.at[1] # "built"
  BY Places
<1> HIDE DEF P
<1>11. OwnedBy(P \cup nodes(i, j), live)
  BY <1>8, <1>10, Placed DEF FamilyInv, HeapOwned, nodes
<1>12. QED
  BY <1>1, <1>9, <1>11 DEF HeapOwned

\* `populated' says nothing about memory.
LEMMA ListedOwned == FamilyInv /\ Listed => HeapOwned'
<1> SUFFICES ASSUME FamilyInv, Listed PROVE HeapOwned'
  OBVIOUS
<1>1. /\ UNCHANGED <<live, ops, groups, built>>
      /\ family' = IF onto = 0 THEN [family EXCEPT !.populated = TRUE]
                   ELSE [family EXCEPT !.kids[onto].populated = TRUE]
  BY DEF Listed, parser
<1>2. DOMAIN family = DOMAIN NoFamily /\ IsSequence(family.kids)
  BY DEF FamilyInv, FamilyShape
<1>3. /\ family'.blocks = family.blocks /\ family'.ops = family.ops
      /\ family'.groups = family.groups /\ family'.overlayBlock = family.overlayBlock
      /\ DOMAIN family'.kids = DOMAIN family.kids
      /\ \A i \in DOMAIN family.kids : /\ family'.kids[i].blocks = family.kids[i].blocks
                                       /\ family'.kids[i].kids = family.kids[i].kids
  <2>1. CASE onto = 0
    BY <1>1, <1>2, <2>1 DEF NoFamily
  <2>2. CASE onto # 0
    <3>1. onto \in DOMAIN family.kids
      BY <1>2, <2>2 DEF FamilyInv, TypeOK, IsSequence
    <3>2. ObjectShape(family.kids[onto])
      BY <3>1 DEF FamilyInv, FamilyShape, ToSet
    <3>3. /\ family'.blocks = family.blocks /\ family'.ops = family.ops
          /\ family'.groups = family.groups /\ family'.overlayBlock = family.overlayBlock
          /\ family'.kids = [family.kids EXCEPT ![onto].populated = TRUE]
      BY <1>1, <1>2, <2>2 DEF NoFamily
    <3>4. QED
      BY <3>1, <3>2, <3>3 DEF ObjectShape
  <2>3. QED
    BY <2>1, <2>2
<1>4. \A i \in DOMAIN family.kids : KidPointers(i, family'.kids[i]) = KidPointers(i, family.kids[i])
  BY <1>3 DEF KidPointers
<1>5. FamilyPointers(family') = FamilyPointers(family)
  BY <1>3, <1>4 DEF FamilyPointers
<1>6. QED
  BY <1>1, <1>5 DEF FamilyInv, HeapOwned, Pointers, PointersOf

\* Every step keeps one owner for every block.
LEMMA OwnershipKept == FamilyInv /\ [Next]_vars => HeapOwned'
  BY PlainSteps, ReadOpsOwned, ReadGroupsOwned, ReadGroupNameOwned, ConstructOwned,
     LoadOverlayOwned, FreeAllOwned, FreeBuiltOwned, HandOverOwned, AppendNodeOwned, ListedOwned
     DEF Next, Parse, Make

-----------------------------------------------------------------------------
(* Types and phases, action by action.                                     *)

\* Nothing has happened.
LEMMA Empty ==
  /\ DOMAIN NoOps = {"block", "ids"} /\ NoOps.block = NoBlock
  /\ DOMAIN NoGroups = {"block", "list"} /\ NoGroups.block = NoBlock /\ NoGroups.list = << >>
  /\ NoFamily.blocks = << >> /\ NoFamily.ops = NoOps /\ NoFamily.groups = NoGroups
  /\ NoFamily.overlay = NoOverlay /\ NoFamily.overlayBlock = NoBlock /\ NoFamily.kids = << >>
  /\ NoFamily.populated = FALSE
  /\ NoMessage.attrs = << >>
  /\ IsSequence(<< >>) /\ ToSet(<< >>) = {}
  /\ DOMAIN << >> = {} /\ Len(<< >>) = 0 /\ << >> \in Seq(Block)
  BY DEF NoOps, NoGroups, NoFamily, NoMessage, IsSequence, ToSet

\* The parser has returned, without a family.
LEMMA ReturnTyped ==
  ASSUME Return, live' \subseteq Block, family' = NoFamily, lists' \in 0 .. MaxLists
  PROVE  Typed'
<1>1. TypeOK'
  <2>1. /\ phase' \in Phase
        /\ msg' = NoMessage /\ next' \in 1 .. Len(msg'.attrs) + 1
        /\ seen' \subseteq {"name", "id"}
    BY Empty DEF Return, Phase
  <2>2. ops' = NoOps /\ groups' = NoGroups /\ built' \in Seq(Block)
    BY Empty DEF Return
  <2>3. onto' \in 0 .. Len(family'.kids)
    BY Empty DEF Return
  <2>4. QED
    BY <2>1, <2>2, <2>3, Empty DEF TypeOK
<1>2. OpsShape(ops)' /\ GroupsShape(groups)'
  BY Empty DEF OpsShape, GroupsShape, Return, BlockOrNone
<1>3. FamilyShape'
  BY Empty DEF FamilyShape, OpsShape, GroupsShape, BlockOrNone
<1>4. PhaseOK'
  BY DEF PhaseOK, Return
<1>5. QED
  BY <1>1, <1>2, <1>3, <1>4 DEF Typed

\* At the start.
LEMMA InitTyped == Init => Typed
<1> SUFFICES ASSUME Init PROVE Typed
  OBVIOUS
<1>1. TypeOK
  <2>1. /\ live \subseteq Block /\ phase \in Phase
        /\ msg = NoMessage /\ next \in 1 .. Len(msg.attrs) + 1
        /\ seen \subseteq {"name", "id"}
    BY Empty DEF Init, Phase
  <2>2. ops = NoOps /\ groups = NoGroups /\ built \in Seq(Block) /\ family = NoFamily
    BY Empty DEF Init
  <2>3. onto \in 0 .. Len(family.kids) /\ lists \in 0 .. MaxLists
    BY Empty, LimitAssumption DEF Init
  <2>4. QED
    BY <2>1, <2>2, <2>3, Empty DEF TypeOK
<1>2. OpsShape(ops) /\ GroupsShape(groups)
  BY Empty DEF OpsShape, GroupsShape, Init, BlockOrNone
<1>3. FamilyShape
  BY Empty DEF FamilyShape, OpsShape, GroupsShape, BlockOrNone, Init
<1>4. PhaseOK
  BY DEF PhaseOK, Init
<1>5. QED
  BY <1>1, <1>2, <1>3, <1>4 DEF Typed

\* Steps that give up all there is.
LEMMA ReturnSteps ==
  ASSUME Typed,
         \/ OpsFail \/ GroupsFail \/ SkipFamily \/ AttachFails \/ Destroy
         \/ ConstructFails /\ phase = "create"
  PROVE  Typed'
<1>1. Return
  BY DEF OpsFail, GroupsFail, SkipFamily, AttachFails, Destroy, ConstructFails
<1>2. live' \subseteq Block
  BY DEF OpsFail, GroupsFail, SkipFamily, AttachFails, Destroy, ConstructFails, Free, Typed, TypeOK
<1>3. family' = NoFamily
  BY DEF OpsFail, GroupsFail, SkipFamily, AttachFails, Destroy, ConstructFails, AtAttr, InGroups,
         AllRead, Typed, PhaseOK
<1>4. lists' \in 0 .. MaxLists
  BY LimitAssumption DEF OpsFail, GroupsFail, SkipFamily, AttachFails, Destroy, ConstructFails,
                         Typed, TypeOK
<1>5. QED
  BY <1>1, <1>2, <1>3, <1>4, ReturnTyped

\* A message has the shape MessageAssumption gives it.
LEMMA TheAttr ==
  ASSUME Typed, phase \in {"parse", "groups"}, next <= Len(msg.attrs)
  PROVE  /\ msg \in Messages /\ next \in DOMAIN msg.attrs /\ Len(msg.attrs) \in Nat
         /\ next + 1 \in 1 .. Len(msg.attrs) + 1
         /\ Attr.type = "ops" => Attr.ids \in Seq(Nat)
         /\ Attr.type = "groups" => IsSequence(Attr.list)
<1>1. msg \in Messages
  BY DEF Typed, PhaseOK
<1>2. /\ IsSequence(msg.attrs)
      /\ \A a \in ToSet(msg.attrs) : /\ a.type = "ops" => a.ids \in Seq(Nat)
                                     /\ a.type = "groups" => IsSequence(a.list)
  BY <1>1, MessageAssumption
<1>3. next \in DOMAIN msg.attrs /\ Len(msg.attrs) \in Nat /\ next + 1 \in 1 .. Len(msg.attrs) + 1
  BY <1>2 DEF IsSequence, Typed, TypeOK
<1>4. Attr \in ToSet(msg.attrs)
  BY <1>3 DEF Attr, ToSet
<1>5. QED
  BY <1>1, <1>2, <1>3, <1>4

\* The parser's steps.
LEMMA ParseTyped ==
  ASSUME Typed,
         Receive \/ ReadPlain \/ ReadOps \/ NextGroup \/ GroupsDone \/ BeginFamily
  PROVE  Typed'
<1>1. UNCHANGED <<groups, family, lists>> /\ FamilyShape' /\ GroupsShape(groups)'
  <2>1. UNCHANGED <<groups, family, lists>>
    BY DEF Receive, ReadPlain, ReadOps, NextGroup, GroupsDone, BeginFamily, parser
  <2>2. QED
    BY <2>1 DEF Typed, FamilyShape
<1>2. CASE Receive
  <2>1. MessageAssumption
    BY MessageAssumption
  <2>2. msg' \in Messages /\ Len(msg'.attrs) \in Nat
    BY <1>2, MessageAssumption DEF Receive, IsSequence
  <2>3. UNCHANGED <<live, next, seen, ops, groups, entry, todo, built, onto, family, lists>>
        /\ phase = "start" /\ phase' = "parse"
    BY <1>2 DEF Receive, maker
  <2>4. TypeOK'
    BY <2>2, <2>3 DEF Typed, TypeOK, PhaseOK, Phase
  <2>5. PhaseOK'
    BY <2>2, <2>3 DEF Typed, PhaseOK
  <2>6. QED
    BY <1>1, <2>3, <2>4, <2>5 DEF Typed
<1>3. CASE ReadPlain
  <2>1. UNCHANGED <<live, phase, msg, ops, groups, entry, todo, built, onto, family, lists>>
        /\ phase = "parse" /\ next <= Len(msg.attrs) /\ next' = next + 1
        /\ seen' \subseteq seen \cup {Attr.type}
    BY <1>3 DEF ReadPlain, AtAttr, maker
  <2>2. next' \in 1 .. Len(msg.attrs) + 1 /\ next \in Nat
    BY <2>1, TheAttr DEF Typed, TypeOK
  <2>3. seen' \subseteq {"name", "id"}
    BY <1>3 DEF ReadPlain, AtAttr, Typed, TypeOK
  <2>4. TypeOK'
    BY <2>1, <2>2, <2>3 DEF Typed, TypeOK
  <2>5. PhaseOK'
    BY <2>1, <2>2 DEF Typed, PhaseOK, Sent
  <2>6. QED
    BY <1>1, <2>1, <2>4, <2>5 DEF Typed
<1>4. CASE ReadOps
  <2>1. UNCHANGED <<phase, msg, seen, groups, entry, todo, built, onto, family, lists>>
        /\ phase = "parse" /\ next <= Len(msg.attrs) /\ next' = next + 1 /\ Attr.type = "ops"
    BY <1>4 DEF ReadOps, AtAttr, maker
  <2>2. next' \in 1 .. Len(msg.attrs) + 1 /\ next \in DOMAIN msg.attrs /\ next \in Nat
    BY <2>1, TheAttr DEF Typed, TypeOK
  <2>3. live' \subseteq Block /\ OpsShape(ops)' /\ ops'.block \in Block \cup {NoBlock}
    BY <1>4, FreshIsNew DEF ReadOps, Allocate, Typed, TypeOK, OpsShape, BlockOrNone
  <2>4. TypeOK'
    BY <2>1, <2>2, <2>3 DEF Typed, TypeOK
  <2>5. next \in Sent(msg, "ops") /\ next < next'
    BY <2>1, <2>2 DEF Sent, Attr
  <2>6. PhaseOK'
    BY <2>1, <2>2, <2>5 DEF Typed, PhaseOK, Sent
  <2>7. QED
    BY <1>1, <2>3, <2>4, <2>6 DEF Typed
<1>5. CASE NextGroup
  <2>1. UNCHANGED <<live, phase, msg, next, seen, ops, groups, todo, built, onto, family, lists>>
        /\ entry' = <<entry[1] + 1, 1>> /\ phase = "groups"
    BY <1>5 DEF NextGroup, InGroups, Current, maker
  <2>2. entry'[1] \in Nat \ {0} /\ entry'[2] \in Nat \ {0}
    BY <2>1 DEF Typed, PhaseOK
  <2>3. QED
    BY <1>1, <2>1, <2>2 DEF Typed, TypeOK, PhaseOK, Sent, OpsShape, Attr
<1>6. CASE GroupsDone
  <2>1. UNCHANGED <<live, msg, seen, ops, groups, entry, todo, built, onto, family, lists>>
        /\ phase = "groups" /\ phase' = "parse" /\ next' = next + 1
    BY <1>6 DEF GroupsDone, maker
  <2>2. next \in Sent(msg, "groups") /\ msg \in Messages
    BY <2>1 DEF Typed, PhaseOK
  <2>3. next <= Len(msg.attrs)
    BY <2>2, MessageAssumption DEF Sent, IsSequence
  <2>4. next' \in 1 .. Len(msg.attrs) + 1 /\ next \in Nat
    BY <2>1, <2>3, TheAttr DEF Typed, TypeOK
  <2>5. TypeOK'
    BY <2>1, <2>4 DEF Typed, TypeOK, Phase
  <2>6. PhaseOK'
    <3>1. /\ family' = NoFamily /\ onto' = 0 /\ todo' = << >> /\ built' = << >> /\ msg' \in Messages
      BY <1>1, <2>1, <2>2 DEF Typed, PhaseOK
    <3>2. ops' # NoOps => \E k \in Sent(msg, "ops") : k < next'
      <4>1. ASSUME ops # NoOps PROVE \E k \in Sent(msg, "ops") : k < next
        BY <2>1, <4>1 DEF Typed, PhaseOK
      <4>2. \A k \in Sent(msg, "ops") : k < next => k < next'
        BY <2>1, <2>2, <2>4, MessageAssumption DEF Sent, IsSequence
      <4>3. QED
        BY <2>1, <4>1, <4>2
    <3>3. \E k \in Sent(msg, "groups") : k < next'
      BY <2>1, <2>2, <2>4
    <3>4. QED
      BY <2>1, <3>1, <3>2, <3>3 DEF PhaseOK, Sent
  <2>7. QED
    BY <1>1, <2>1, <2>5, <2>6 DEF Typed
<1>7. CASE BeginFamily
  <2>1. UNCHANGED <<live, msg, next, seen, ops, groups, entry, family, lists>>
        /\ phase = "parse" /\ phase' = "create" /\ onto' = 0 /\ built' = << >>
    BY <1>7 DEF BeginFamily, AllRead, parser
  <2>2. family = NoFamily
    BY <2>1 DEF Typed, PhaseOK
  <2>3. TypeOK'
    BY <2>1, <2>2, Empty DEF Typed, TypeOK, Phase
  <2>4. PhaseOK'
    BY <2>1, <2>2 DEF Typed, PhaseOK
  <2>5. QED
    BY <1>1, <2>1, <2>3, <2>4 DEF Typed
<1>8. QED
  BY <1>2, <1>3, <1>4, <1>5, <1>6, <1>7

\* parse_mcast_attr's array and names.
LEMMA GroupsTyped ==
  ASSUME Typed, ReadGroups \/ ReadGroupName
  PROVE  Typed'
<1>1. CASE ReadGroups
  <2>1. UNCHANGED <<msg, seen, ops, todo, built, onto, family, lists>>
        /\ phase = "parse" /\ next <= Len(msg.attrs) /\ Attr.type = "groups" /\ entry' = <<1, 1>>
    BY <1>1 DEF ReadGroups, AtAttr, maker
  <2>2. /\ next \in DOMAIN msg.attrs /\ next \in Nat /\ next + 1 \in 1 .. Len(msg.attrs) + 1
        /\ IsSequence(Attr.list) /\ next \in Sent(msg, "groups")
    BY <2>1, TheAttr DEF Typed, TypeOK, Sent, Attr
  <2>3. FamilyShape' /\ OpsShape(ops)'
    BY <2>1 DEF Typed, FamilyShape
  <2>4. CASE Attr.list = << >>
    <3>1. UNCHANGED <<live, phase, groups>> /\ next' = next + 1
      BY <1>1, <2>4 DEF ReadGroups
    <3>2. TypeOK'
      BY <2>1, <2>2, <3>1 DEF Typed, TypeOK
    <3>3. PhaseOK'
      <4>1. \A k : k < next => (k \in Sent(msg, "ops") \cup Sent(msg, "groups") => k < next')
        BY <2>2, <3>1, TheAttr, <2>1, MessageAssumption DEF Sent, IsSequence
      <4>2. QED
        BY <2>1, <3>1, <4>1 DEF Typed, PhaseOK, Sent
    <3>4. QED
      BY <2>1, <2>3, <3>1, <3>2, <3>3 DEF Typed
  <2>5. CASE Attr.list # << >>
    <3> DEFINE none(i) == [id |-> Attr.list[i].id, name |-> NoName, block |-> NoBlock]
               list == [i \in DOMAIN Attr.list |-> none(i)]
    <3>1. /\ live' = live \cup {Fresh} /\ Fresh \in Block /\ phase' = "groups" /\ next' = next
          /\ groups' = [block |-> Fresh, list |-> list]
      BY <1>1, <2>5, FreshIsNew DEF ReadGroups, Allocate
    <3>2. /\ DOMAIN list = DOMAIN Attr.list
          /\ \A i \in DOMAIN list : /\ DOMAIN list[i] = {"id", "name", "block"}
                                    /\ list[i].block = NoBlock
      OBVIOUS
    <3>3. IsSequence(list)
      <4>1. list \in [1 .. Len(Attr.list) -> ToSet(list)] /\ Len(Attr.list) \in Nat
        BY <2>2 DEF IsSequence, ToSet
      <4> HIDE DEF list
      <4>2. list \in Seq(ToSet(list))
        BY <4>1
      <4>3. QED
        BY <4>2 DEF IsSequence
    <3> HIDE DEF list
    <3>4. GroupsShape(groups)'
      BY <3>1, <3>2, <3>3 DEF GroupsShape, BlockOrNone, ToSet
    <3>5. TypeOK'
      BY <2>1, <2>2, <3>1, <3>2 DEF Typed, TypeOK, Phase
    <3>6. PhaseOK'
      <4>1. entry'[1] \in Nat \ {0} /\ entry'[2] \in Nat \ {0}
        BY <2>1
      <4>2. DOMAIN groups'.list = DOMAIN Attr' .list
        BY <2>1, <3>1, <3>2 DEF Attr
      <4>3. QED
        BY <2>1, <2>2, <3>1, <4>1, <4>2 DEF Typed, PhaseOK, Sent
    <3>7. QED
      BY <2>1, <2>3, <3>4, <3>5, <3>6 DEF Typed
  <2>6. QED
    BY <2>4, <2>5
<1>2. CASE ReadGroupName
  <2> DEFINE c == Current
  <2>1. /\ UNCHANGED <<phase, msg, next, seen, ops, todo, built, onto, family, lists>>
        /\ phase = "groups" /\ c <= Len(Attr.list) /\ entry' = <<c, entry[2] + 1>>
        /\ live' \subseteq live \cup {Fresh} /\ Fresh \in Block
        /\ groups' = [groups EXCEPT !.list[c].name = Attr.list[c].names[entry[2]],
                                    !.list[c].block = Fresh]
    BY <1>2, FreshIsNew DEF ReadGroupName, InGroups, maker
  <2>2. /\ c \in Nat \ {0} /\ entry[2] \in Nat \ {0}
        /\ DOMAIN groups.list = DOMAIN Attr.list
        /\ next \in Sent(msg, "groups") /\ msg \in Messages
    BY <2>1 DEF Current, Typed, PhaseOK
  <2>3. GroupsShape(groups)
    BY DEF Typed
  <2>4. IsSequence(Attr.list)
    BY <2>2, MessageAssumption DEF Sent, Attr, IsSequence, ToSet
  <2>5. c \in DOMAIN groups.list
    BY <2>1, <2>2, <2>4 DEF IsSequence
  <2> HIDE DEF c
  <2>6. /\ DOMAIN groups' = {"block", "list"} /\ groups'.block = groups.block
        /\ DOMAIN groups'.list = DOMAIN groups.list
        /\ \A i \in DOMAIN groups.list : i # c => groups'.list[i] = groups.list[i]
        /\ DOMAIN groups'.list[c] = {"id", "name", "block"} /\ groups'.list[c].block = Fresh
    BY <2>1, <2>3, <2>5 DEF GroupsShape, ToSet
  <2>7. IsSequence(groups'.list)
    <3>1. groups'.list = [groups.list EXCEPT ![c] = groups'.list[c]]
      BY <2>1, <2>3, <2>5 DEF GroupsShape, ToSet
    <3>2. PICK list : list = groups'.list
      OBVIOUS
    <3>3. DOMAIN list = 1 .. Len(groups.list) /\ Len(groups.list) \in Nat
      BY <2>3, <2>6, <3>2 DEF GroupsShape, IsSequence
    <3>4. list = [i \in 1 .. Len(groups.list) |-> list[i]]
      BY <3>1, <3>2, <3>3
    <3>5. list \in Seq(ToSet(list))
      BY <3>3, <3>4 DEF ToSet
    <3>6. QED
      BY <3>2, <3>5 DEF IsSequence
  <2>8. GroupsShape(groups)'
    <3>1. \A i \in DOMAIN groups.list :
             DOMAIN groups.list[i] = {"id", "name", "block"} /\ groups.list[i].block \in BlockOrNone
      BY <2>3 DEF GroupsShape, ToSet
    <3>2. Fresh \in BlockOrNone
      BY <2>1 DEF BlockOrNone
    <3>3. \A i \in DOMAIN groups.list :
             DOMAIN groups'.list[i] = {"id", "name", "block"} /\ groups'.list[i].block \in BlockOrNone
      BY <2>6, <3>1, <3>2
    <3>4. \A e \in ToSet(groups'.list) :
             DOMAIN e = {"id", "name", "block"} /\ e.block \in BlockOrNone
      BY <2>6, <3>3 DEF ToSet
    <3>5. groups'.block \in BlockOrNone
      BY <2>3, <2>6 DEF GroupsShape
    <3>6. QED
      BY <2>6, <2>7, <3>4, <3>5 DEF GroupsShape, BlockOrNone
  <2>9. FamilyShape' /\ OpsShape(ops)'
    BY <2>1 DEF Typed, FamilyShape
  <2>10. TypeOK'
    <3>1. \A i \in DOMAIN groups.list : groups.list[i].block \in Block \cup {NoBlock}
      BY DEF Typed, TypeOK
    <3>2. ASSUME NEW i \in DOMAIN groups'.list
          PROVE  groups'.list[i].block \in Block \cup {NoBlock}
      <4>1. i \in DOMAIN groups.list
        BY <2>6
      <4>2. groups'.list[i].block \in {groups.list[i].block, Fresh}
        BY <2>6, <4>1
      <4>3. Fresh \in Block
        BY <2>1
      <4>4. QED
        BY <3>1, <4>1, <4>2, <4>3
    <3>3. live' \subseteq Block
      BY <2>1 DEF Typed, TypeOK
    <3>4. groups'.block \in Block \cup {NoBlock}
      BY <2>6 DEF Typed, TypeOK
    <3>5. QED
      BY <2>1, <3>2, <3>3, <3>4 DEF Typed, TypeOK
  <2>11. PhaseOK'
    <3>1. entry'[1] \in Nat \ {0} /\ entry'[2] \in Nat \ {0}
      BY <2>1, <2>2
    <3>2. DOMAIN groups'.list = DOMAIN Attr' .list
      BY <2>1, <2>2, <2>6 DEF Attr
    <3>3. QED
      BY <2>1, <2>2, <3>1, <3>2 DEF Typed, PhaseOK, Sent
  <2>12. QED
    BY <2>8, <2>9, <2>10, <2>11 DEF Typed
<1>3. QED
  BY <1>1, <1>2

\* A sequence and one more.
LEMMA OneMore ==
  ASSUME NEW s, IsSequence(s), NEW e
  PROVE  IsSequence(Append(s, e)) /\ ToSet(Append(s, e)) = ToSet(s) \cup {e}
<1>1. PICK T : T = ToSet(s) \cup {e}
  OBVIOUS
<1>2. s \in Seq(T) /\ e \in T
  BY <1>1 DEF IsSequence, ToSet
<1>3. /\ DOMAIN Append(s, e) = DOMAIN s \cup {Len(s) + 1}
      /\ \A k \in DOMAIN s : Append(s, e)[k] = s[k]
      /\ Append(s, e)[Len(s) + 1] = e
      /\ Append(s, e) \in Seq(T)
  BY <1>2
<1>4. ToSet(Append(s, e)) = T
  BY <1>1, <1>3 DEF ToSet
<1>5. QED
  BY <1>1, <1>3, <1>4 DEF IsSequence

\* One element of a sequence changes.
LEMMA OneChanged ==
  ASSUME NEW s, IsSequence(s), NEW c \in DOMAIN s, NEW e
  PROVE  /\ IsSequence([s EXCEPT ![c] = e])
         /\ ToSet([s EXCEPT ![c] = e]) \subseteq ToSet(s) \cup {e}
         /\ Len([s EXCEPT ![c] = e]) = Len(s)
<1>1. PICK t : t = [s EXCEPT ![c] = e]
  OBVIOUS
<1>2. DOMAIN s = 1 .. Len(s) /\ Len(s) \in Nat
  BY DEF IsSequence
<1>3. DOMAIN t = 1 .. Len(s) /\ t = [i \in 1 .. Len(s) |-> t[i]]
  BY <1>1, <1>2
<1>4. ToSet(t) \subseteq ToSet(s) \cup {e}
  BY <1>1, <1>2, <1>3 DEF ToSet
<1>5. t \in Seq(ToSet(t))
  BY <1>2, <1>3 DEF ToSet
<1>6. Len(t) = Len(s)
  BY <1>2, <1>3, <1>5
<1>7. QED
  BY <1>1, <1>4, <1>5, <1>6 DEF IsSequence

\* The steps after the message.
LEMMA MakeTyped ==
  ASSUME Typed,
         \/ Construct \/ (ConstructFails /\ phase # "create") \/ AppendFails
         \/ WithoutOverlay \/ Attach \/ (\E i \in 0 .. Len(family.kids) : List(i))
         \/ UNCHANGED vars
  PROVE  Typed'
<1>1. UNCHANGED <<msg, next, seen, ops, groups, entry, family>>
  BY DEF Construct, ConstructFails, AppendFails, WithoutOverlay, Attach, List, vars, parser
<1>2. OpsShape(ops)' /\ GroupsShape(groups)' /\ FamilyShape'
  BY <1>1 DEF Typed, FamilyShape
<1>3. CASE Construct
  <2>1. /\ UNCHANGED <<phase, todo, onto, lists>> /\ todo # << >> /\ phase \in {"create", "list"}
        /\ live' = live \cup {Fresh} /\ Fresh \in Block /\ built' = Append(built, Fresh)
    BY <1>3, FreshIsNew DEF Construct, Making, Allocate
  <2>2. TypeOK'
    BY <1>1, <2>1 DEF Typed, TypeOK
  <2>3. PhaseOK'
    BY <1>1, <2>1 DEF Typed, PhaseOK, Sent, Attr
  <2>4. QED
    BY <1>2, <2>2, <2>3 DEF Typed
<1>4. CASE (ConstructFails /\ phase # "create") \/ AppendFails
  <2>1. /\ phase = "list" /\ phase' = "idle" /\ todo' = << >> /\ built' = << >> /\ onto' = 0
        /\ live' \subseteq live /\ UNCHANGED lists
    BY <1>4 DEF ConstructFails, AppendFails, Making, Free
  <2>2. TypeOK'
    BY <1>1, <2>1, Empty DEF Typed, TypeOK, Phase
  <2>3. PhaseOK'
    BY <1>1, <2>1 DEF Typed, PhaseOK
  <2>4. QED
    BY <1>2, <2>2, <2>3 DEF Typed
<1>5. CASE WithoutOverlay \/ Attach
  <2>1. /\ UNCHANGED <<live, todo, built, onto, lists>>
        /\ phase \in {"overlay", "attach"} /\ phase' \in {"attach", "idle"}
    BY <1>5 DEF WithoutOverlay, Attach, maker
  <2>2. TypeOK'
    BY <1>1, <2>1 DEF Typed, TypeOK, Phase
  <2>3. PhaseOK'
    BY <1>1, <2>1 DEF Typed, PhaseOK
  <2>4. QED
    BY <1>2, <2>2, <2>3 DEF Typed
<1>6. CASE \E i \in 0 .. Len(family.kids) : List(i)
  <2>1. PICK i \in 0 .. Len(family.kids) : List(i)
    BY <1>6
  <2>2. /\ UNCHANGED <<live, built>> /\ phase = "idle" /\ phase' = "list" /\ onto' = i
        /\ lists < MaxLists /\ lists' = lists + 1 /\ todo = << >>
    BY <2>1 DEF List, Typed, PhaseOK
  <2>3. TypeOK'
    BY <1>1, <2>2, LimitAssumption DEF Typed, TypeOK, Phase
  <2>4. PhaseOK'
    BY <1>1, <2>2 DEF Typed, PhaseOK
  <2>5. QED
    BY <1>2, <2>3, <2>4 DEF Typed
<1>7. CASE UNCHANGED vars
  <2>1. UNCHANGED <<live, phase, todo, built, onto, lists>>
    BY <1>7 DEF vars, maker
  <2>2. TypeOK' /\ PhaseOK'
    BY <1>1, <2>1 DEF Typed, TypeOK, PhaseOK, Sent, Attr
  <2>3. QED
    BY <1>2, <2>2 DEF Typed
<1>8. QED
  BY <1>3, <1>4, <1>5, <1>6, <1>7

\* The family gets what the parser has.
LEMMA HandOverTyped == Typed /\ HandOver => Typed'
<1> SUFFICES ASSUME Typed, HandOver PROVE Typed'
  OBVIOUS
<1>1. /\ UNCHANGED <<live, msg, next, seen, entry, onto, lists>>
      /\ phase = "create" /\ phase' = "overlay" /\ family = NoFamily /\ onto = 0
      /\ ops' = NoOps /\ groups' = NoGroups /\ todo' = << >> /\ built' = << >>
      /\ family' = [NoFamily EXCEPT !.blocks = built, !.ops = ops, !.groups = groups]
  BY DEF HandOver, Typed, PhaseOK
<1>2. /\ DOMAIN family' = DOMAIN NoFamily
      /\ family'.blocks = built /\ family'.ops = ops /\ family'.groups = groups
      /\ family'.overlay = NoOverlay /\ family'.overlayBlock = NoBlock /\ family'.kids = << >>
      /\ family'.populated = FALSE
  BY <1>1 DEF NoFamily
<1>3. FamilyShape'
  BY <1>2, Empty DEF Typed, TypeOK, FamilyShape, BlockOrNone
<1>4. OpsShape(ops)' /\ GroupsShape(groups)'
  BY <1>1, Empty DEF OpsShape, GroupsShape, BlockOrNone
<1>5. TypeOK'
  BY <1>1, <1>2, Empty DEF Typed, TypeOK, Phase
<1>6. PhaseOK'
  BY <1>1, <1>2 DEF Typed, PhaseOK
<1>7. QED
  BY <1>3, <1>4, <1>5, <1>6 DEF Typed

\* Loading the metadata keeps the types and shapes.
LEMMA LoadOverlayTyped == Typed /\ LoadOverlay => Typed'
<1> SUFFICES ASSUME Typed, LoadOverlay PROVE Typed'
  OBVIOUS
<1>1. /\ UNCHANGED <<msg, next, seen, ops, groups, entry, todo, built, onto, lists>>
      /\ phase = "overlay" /\ phase' = "attach" /\ live' = live \cup {Fresh} /\ Fresh \in Block
  BY FreshIsNew DEF LoadOverlay, Allocate, parser, maker
<1>2. PICK o \in Overlays : family' = [family EXCEPT !.overlay = o, !.overlayBlock = Fresh]
  BY DEF LoadOverlay
<1>3. /\ DOMAIN family' = DOMAIN family
      /\ family'.blocks = family.blocks /\ family'.ops = family.ops
      /\ family'.groups = family.groups /\ family'.kids = family.kids
      /\ family'.populated = family.populated
      /\ family'.overlay = o /\ family'.overlayBlock = Fresh
  BY <1>2 DEF Typed, FamilyShape, NoFamily
<1>4. FamilyShape'
  BY <1>1, <1>3 DEF Typed, FamilyShape, BlockOrNone
<1>5. OpsShape(ops)' /\ GroupsShape(groups)'
  BY <1>1 DEF Typed
<1>6. TypeOK'
  BY <1>1, <1>3 DEF Typed, TypeOK, Phase
<1>7. PhaseOK'
  BY <1>1 DEF Typed, PhaseOK
<1>8. QED
  BY <1>4, <1>5, <1>6, <1>7 DEF Typed

\* A node without children of its own.
LEMMA MadeNodeShape == Typed => ObjectShape(MadeNode) /\ MadeNode.kids = << >>
  BY Empty DEF Typed, TypeOK, ObjectShape, MadeNode

\* append_child keeps the types and shapes.
LEMMA AppendNodeTyped == Typed /\ AppendNode => Typed'
<1> SUFFICES ASSUME Typed, AppendNode PROVE Typed'
  OBVIOUS
<1>1. /\ UNCHANGED <<live, phase, msg, next, seen, ops, groups, entry, onto, lists>>
      /\ phase = "list" /\ built' = << >> /\ onto \in 0 .. Len(family.kids)
      /\ family' = IF onto = 0 THEN [family EXCEPT !.kids = Append(@, MadeNode)]
                   ELSE [family EXCEPT !.kids[onto].kids = Append(@, MadeNode)]
  BY DEF AppendNode, parser, Typed, TypeOK
<1>2. PICK node : node = MadeNode
  OBVIOUS
<1>3. ObjectShape(node) /\ node.kids = << >>
  BY <1>2, MadeNodeShape
<1>4. FamilyShape /\ Len(family.kids) \in Nat
  BY DEF Typed, FamilyShape, IsSequence
<1>5. /\ DOMAIN family' = DOMAIN family
      /\ family'.blocks = family.blocks /\ family'.ops = family.ops
      /\ family'.groups = family.groups /\ family'.overlayBlock = family.overlayBlock
      /\ family'.overlay = family.overlay /\ family'.populated = family.populated
  BY <1>1, <1>4 DEF FamilyShape, NoFamily
<1>6. /\ IsSequence(family'.kids)
      /\ \A kid \in ToSet(family'.kids) :
           ObjectShape(kid) /\ \A sub \in ToSet(kid.kids) : ObjectShape(sub)
      /\ Len(family'.kids) \in Nat /\ Len(family'.kids) >= Len(family.kids)
  <2>1. CASE onto = 0
    <3>1. family'.kids = Append(family.kids, node)
      BY <1>1, <1>2, <1>4, <2>1 DEF FamilyShape, NoFamily
    <3>2. IsSequence(family'.kids) /\ ToSet(family'.kids) = ToSet(family.kids) \cup {node}
      BY <1>4, <3>1, OneMore DEF FamilyShape
    <3>3. Len(family'.kids) = Len(family.kids) + 1
      BY <1>4, <3>1 DEF FamilyShape, IsSequence
    <3>4. QED
      BY <1>3, <1>4, <3>2, <3>3, Empty DEF FamilyShape
  <2>2. CASE onto # 0
    <3>1. onto \in DOMAIN family.kids
      BY <1>1, <1>4, <2>2 DEF FamilyShape, IsSequence
    <3>2. PICK old : old = family.kids[onto]
      OBVIOUS
    <3>3. ObjectShape(old) /\ \A sub \in ToSet(old.kids) : ObjectShape(sub)
      BY <1>4, <3>1, <3>2 DEF FamilyShape, ToSet
    <3>4. PICK new : new = [old EXCEPT !.kids = Append(@, node)]
      OBVIOUS
    <3>5. family'.kids = [family.kids EXCEPT ![onto] = new]
      BY <1>1, <1>2, <1>4, <2>2, <3>1, <3>2, <3>4 DEF FamilyShape, NoFamily
    <3>6. /\ DOMAIN new = DOMAIN old /\ new.blocks = old.blocks
          /\ new.populated = old.populated /\ new.kids = Append(old.kids, node)
      BY <3>3, <3>4 DEF ObjectShape
    <3>7. IsSequence(new.kids) /\ ToSet(new.kids) = ToSet(old.kids) \cup {node}
      BY <3>3, <3>6, OneMore DEF ObjectShape
    <3>8. ObjectShape(new)
      BY <3>3, <3>6, <3>7 DEF ObjectShape
    <3>9. /\ IsSequence(family'.kids) /\ ToSet(family'.kids) \subseteq ToSet(family.kids) \cup {new}
          /\ Len(family'.kids) = Len(family.kids)
      BY <1>4, <3>1, <3>5, OneChanged DEF FamilyShape
    <3>10. QED
      BY <1>3, <1>4, <3>3, <3>7, <3>8, <3>9 DEF FamilyShape
  <2>3. QED
    BY <2>1, <2>2
<1>7. FamilyShape'
  BY <1>4, <1>5, <1>6 DEF FamilyShape
<1>8. OpsShape(ops)' /\ GroupsShape(groups)'
  BY <1>1 DEF Typed
<1>9. TypeOK'
  BY <1>1, <1>4, <1>5, <1>6, Empty DEF Typed, TypeOK
<1>10. PhaseOK'
  BY <1>1, <1>5 DEF Typed, PhaseOK
<1>11. QED
  BY <1>7, <1>8, <1>9, <1>10 DEF Typed

\* The end of a listing keeps the types and shapes.
LEMMA ListedTyped == Typed /\ Listed => Typed'
<1> SUFFICES ASSUME Typed, Listed PROVE Typed'
  OBVIOUS
<1>1. /\ UNCHANGED <<live, msg, next, seen, ops, groups, entry, todo, built, lists>>
      /\ phase = "list" /\ phase' = "idle" /\ onto' = 0 /\ todo = << >>
      /\ onto \in 0 .. Len(family.kids)
      /\ family' = IF onto = 0 THEN [family EXCEPT !.populated = TRUE]
                   ELSE [family EXCEPT !.kids[onto].populated = TRUE]
  BY DEF Listed, parser, Typed, TypeOK
<1>2. FamilyShape /\ Len(family.kids) \in Nat
  BY DEF Typed, FamilyShape, IsSequence
<1>3. /\ DOMAIN family' = DOMAIN family
      /\ family'.blocks = family.blocks /\ family'.ops = family.ops
      /\ family'.groups = family.groups /\ family'.overlayBlock = family.overlayBlock
      /\ family'.overlay = family.overlay /\ family'.populated \in BOOLEAN
  BY <1>1, <1>2 DEF FamilyShape, NoFamily, Typed, TypeOK
<1>4. /\ IsSequence(family'.kids)
      /\ \A kid \in ToSet(family'.kids) :
           ObjectShape(kid) /\ \A sub \in ToSet(kid.kids) : ObjectShape(sub)
      /\ Len(family'.kids) = Len(family.kids)
  <2>1. CASE onto = 0
    <3>1. family'.kids = family.kids
      BY <1>1, <1>2, <2>1 DEF FamilyShape, NoFamily
    <3>2. QED
      BY <1>2, <3>1 DEF FamilyShape
  <2>2. CASE onto # 0
    <3>1. onto \in DOMAIN family.kids
      BY <1>1, <1>2, <2>2 DEF FamilyShape, IsSequence
    <3>2. PICK old : old = family.kids[onto]
      OBVIOUS
    <3>3. ObjectShape(old) /\ \A sub \in ToSet(old.kids) : ObjectShape(sub)
      BY <1>2, <3>1, <3>2 DEF FamilyShape, ToSet
    <3>4. PICK new : new = [old EXCEPT !.populated = TRUE]
      OBVIOUS
    <3>5. family'.kids = [family.kids EXCEPT ![onto] = new]
      BY <1>1, <1>2, <2>2, <3>1, <3>2, <3>4 DEF FamilyShape, NoFamily
    <3>6. /\ DOMAIN new = DOMAIN old /\ new.blocks = old.blocks
          /\ new.populated = TRUE /\ new.kids = old.kids
      BY <3>3, <3>4 DEF ObjectShape
    <3>7. ObjectShape(new)
      BY <3>3, <3>6 DEF ObjectShape
    <3>8. /\ IsSequence(family'.kids) /\ ToSet(family'.kids) \subseteq ToSet(family.kids) \cup {new}
          /\ Len(family'.kids) = Len(family.kids)
      BY <1>2, <3>1, <3>5, OneChanged DEF FamilyShape
    <3>9. QED
      BY <1>2, <3>3, <3>6, <3>7, <3>8 DEF FamilyShape
  <2>3. QED
    BY <2>1, <2>2
<1>5. FamilyShape'
  BY <1>2, <1>3, <1>4 DEF FamilyShape
<1>6. OpsShape(ops)' /\ GroupsShape(groups)'
  BY <1>1 DEF Typed
<1>7. TypeOK'
  <2>1. onto' \in 0 .. Len(family'.kids)
    BY <1>1, <1>2, <1>4
  <2>2. phase' \in Phase
    BY <1>1 DEF Phase
  <2>3. family'.overlay \in Overlays \cup {NoOverlay} /\ family'.populated \in BOOLEAN
    BY <1>3 DEF Typed, TypeOK
  <2>4. QED
    BY <1>1, <2>1, <2>2, <2>3 DEF Typed, TypeOK
<1>8. PhaseOK'
  BY <1>1 DEF Typed, PhaseOK
<1>9. QED
  BY <1>5, <1>6, <1>7, <1>8 DEF Typed

-----------------------------------------------------------------------------
(* The inductive invariant, and HeapOwned.                                 *)

\* Every step keeps the types and shapes.
LEMMA TypesKept == Typed /\ [Next]_vars => Typed'
  BY ReturnSteps, ParseTyped, GroupsTyped, MakeTyped, HandOverTyped, LoadOverlayTyped,
     AppendNodeTyped, ListedTyped
     DEF Next, Parse, Make

\* The inductive invariant.
THEOREM FamilyInductive == Spec => []FamilyInv
<1>1. Init => FamilyInv
  <2>1. Init => HeapOwned
    BY NothingHeld DEF Init, HeapOwned, OwnedBy, Pointers
  <2>2. QED
    BY <2>1, InitTyped DEF Typed, FamilyInv
<1>2. FamilyInv /\ [Next]_vars => FamilyInv'
  BY TypesKept, OwnershipKept DEF FamilyInv, Typed
<1>3. QED
  BY <1>1, <1>2, PTL DEF Spec

\* Every variable keeps its type.
THEOREM TypeCorrect == Spec => []TypeOK
<1>1. FamilyInv => TypeOK
  BY DEF FamilyInv
<1>2. QED
  BY <1>1, FamilyInductive, PTL

\* Whatever the kernel sends and whichever allocation fails, every block of
\* process_family_msg, of the constructors and of populate_children has exactly
\* one owner at every step: no leak and no double free.
THEOREM NothingLeaks == Spec => []HeapOwned
<1>1. FamilyInv => HeapOwned
  BY DEF FamilyInv
<1>2. QED
  BY <1>1, FamilyInductive, PTL

-----------------------------------------------------------------------------
(* What has been read of the message, action by action.                    *)

\* A step that leaves the parser and the arrays of the family alone, from a
\* phase to one where as much of the message has been read.
LEMMA MessageStays ==
  ASSUME MessageRead, UNCHANGED parser,
         phase' = phase \/ phase \in {"overlay", "attach", "idle", "list"},
         phase' = phase \/ phase' \in {"overlay", "attach", "idle", "list"},
         family'.ops = family.ops, family'.groups = family.groups
  PROVE  MessageRead'
<1>1. UNCHANGED <<msg, next, seen, ops, groups, entry>>
  BY DEF parser
<1>2. OpsRead(ops)' = OpsRead(ops) /\ GroupsRead(groups)' = GroupsRead(groups)
  BY <1>1 DEF OpsRead, GroupsRead, Sent, Takes
<1>3. OpsRead(family.ops)' = OpsRead(family.ops) /\ GroupsRead(family.groups)' = GroupsRead(family.groups)
  BY <1>1 DEF OpsRead, GroupsRead, Sent, Takes
<1>4. Complete' = Complete
  BY <1>1 DEF Complete
<1>5. phase = "groups" => phase' = "groups"
  OBVIOUS
<1>6. phase' = "groups" =>
       /\ Current <= Len(Attr.list) => entry[2] <= Len(Attr.list[Current].names) + 1
       /\ \A i \in DOMAIN groups.list : Takes(groups.list[i], Attr.list[i], NamesRead(i))
  BY DEF MessageRead
<1>7. phase' = "groups" =>
       (/\ Current <= Len(Attr.list) => entry[2] <= Len(Attr.list[Current].names) + 1
        /\ \A i \in DOMAIN groups.list : Takes(groups.list[i], Attr.list[i], NamesRead(i)))'
  BY <1>1, <1>6 DEF Takes, NamesRead, Attr, Current
<1>8. QED
  BY <1>1, <1>2, <1>3, <1>4, <1>7 DEF MessageRead, Sent

\* The parser has returned.
LEMMA MessageOver ==
  ASSUME Return
  PROVE  MessageRead'
  BY DEF Return, MessageRead

\* The list read at one place is the only one of its kind.
LEMMA OnlyOne ==
  ASSUME Typed, phase # "start", NEW type \in {"ops", "groups"}, NEW i \in Sent(msg, type)
  PROVE  /\ Sent(msg, type) = {i} /\ i \in Nat /\ i \in 1 .. Len(msg.attrs)
<1>1. msg \in Messages
  BY DEF Typed, PhaseOK
<1>2. \A j \in Sent(msg, type) : j = i
  BY <1>1, ListAssumption
<1>3. i \in DOMAIN msg.attrs /\ IsSequence(msg.attrs)
  BY <1>1, MessageAssumption DEF Sent
<1>4. QED
  BY <1>2, <1>3 DEF IsSequence

\* A message arrives: nothing of it has been read.
LEMMA ReceiveRead == Typed /\ MessageRead /\ Receive => MessageRead'
<1>1. SUFFICES ASSUME Typed, MessageRead, Receive PROVE MessageRead'
  OBVIOUS
<1>2. /\ phase' = "parse" /\ msg' \in Messages /\ next' = 1 /\ seen' = {}
      /\ ops' = NoOps /\ groups' = NoGroups
  BY <1>1 DEF Receive, Typed, PhaseOK
<1>3. \A type \in {"ops", "groups"} : \A k \in Sent(msg', type) : ~(k < 1)
  BY <1>2, MessageAssumption DEF Sent, IsSequence
<1>4. ops'.ids = << >> /\ groups'.list = << >>
  BY <1>2 DEF NoOps, NoGroups
<1>5. OpsRead(ops)'
  BY <1>2, <1>3, <1>4 DEF OpsRead, Sent
<1>6. GroupsRead(groups)'
  BY <1>2, <1>3, <1>4 DEF GroupsRead, Sent
<1>7. QED
  BY <1>2, <1>5, <1>6 DEF MessageRead

\* Of a plain attribute only the name and the id are kept.
LEMMA ReadPlainRead == Typed /\ MessageRead /\ ReadPlain => MessageRead'
<1>1. SUFFICES ASSUME Typed, MessageRead, ReadPlain PROVE MessageRead'
  OBVIOUS
<1>2. /\ UNCHANGED <<phase, msg, ops, groups>> /\ phase = "parse" /\ next' = next + 1
      /\ next <= Len(msg.attrs) /\ Attr.type \in {"name", "id", "other"}
      /\ seen' = IF Attr.type # "other" /\ Attr.ok THEN seen \cup {Attr.type} ELSE seen
  BY <1>1 DEF ReadPlain, AtAttr
<1>3. next \in DOMAIN msg.attrs /\ next \in Nat /\ IsSequence(msg.attrs)
  BY <1>1, <1>2, TheAttr, MessageAssumption DEF Typed, TypeOK
<1>4. \A type \in {"ops", "groups"} : \A k \in Sent(msg, type) : k \in Nat /\ (k < next <=> k < next')
  BY <1>2, <1>3 DEF Sent, Attr, IsSequence
<1>5. OpsRead(ops)'
  BY <1>1, <1>2, <1>4 DEF MessageRead, OpsRead, Sent
<1>6. GroupsRead(groups)'
  BY <1>1, <1>2, <1>4 DEF MessageRead, GroupsRead, Sent, Takes
<1>7. \A type \in seen' : \E i \in Sent(msg, type) : i < next' /\ msg.attrs[i].ok
  <2>1. ASSUME NEW type \in seen PROVE \E i \in Sent(msg, type) : i < next' /\ msg.attrs[i].ok
    <3>1. PICK i \in Sent(msg, type) : i < next /\ msg.attrs[i].ok
      BY <1>1, <2>1 DEF MessageRead
    <3>2. i \in Nat
      BY <1>3 DEF Sent, IsSequence
    <3>3. QED
      BY <1>2, <1>3, <3>1, <3>2
  <2>2. ASSUME NEW type \in seen', type \notin seen
        PROVE  \E i \in Sent(msg, type) : i < next' /\ msg.attrs[i].ok
    <3>1. type = Attr.type /\ Attr.ok
      BY <1>2, <2>2
    <3>2. next \in Sent(msg, type) /\ next < next' /\ msg.attrs[next].ok
      BY <1>2, <1>3, <3>1 DEF Sent, Attr
    <3>3. QED
      BY <3>2
  <2>3. QED
    BY <2>1, <2>2
<1>8. QED
  BY <1>2, <1>5, <1>6, <1>7 DEF MessageRead, Sent

\* The name and the id read before a list stay read.
LEMMA SeenStays ==
  ASSUME Typed, MessageRead, phase # "start", UNCHANGED <<msg, seen>>, next' \in {next, next + 1}
  PROVE  \A type \in seen' : \E i \in Sent(msg', type) : i < next' /\ msg'.attrs[i].ok
<1>1. SUFFICES ASSUME NEW type \in seen
               PROVE  \E i \in Sent(msg, type) : i < next' /\ msg.attrs[i].ok
  BY DEF Sent
<1>2. PICK i \in Sent(msg, type) : i < next /\ msg.attrs[i].ok
  BY DEF MessageRead
<1>3. i \in Nat /\ next \in Nat
  BY MessageAssumption DEF Sent, IsSequence, Typed, TypeOK, PhaseOK
<1>4. QED
  BY <1>2, <1>3

\* The operations of the message are taken over whole.
LEMMA ReadOpsRead == Typed /\ MessageRead /\ ReadOps => MessageRead'
<1>1. SUFFICES ASSUME Typed, MessageRead, ReadOps PROVE MessageRead'
  OBVIOUS
<1>2. /\ UNCHANGED <<phase, msg, seen, groups>> /\ phase = "parse" /\ next' = next + 1
      /\ next <= Len(msg.attrs) /\ Attr.type = "ops"
      /\ IF Attr.ids = << >> THEN ops' = ops ELSE ops' = [block |-> Fresh, ids |-> Attr.ids]
  BY <1>1 DEF ReadOps, AtAttr
<1>3. next \in Sent(msg, "ops") /\ next \in Nat
  BY <1>1, <1>2, TheAttr DEF Sent, Attr, Typed, TypeOK
<1>4. Sent(msg, "ops") = {next}
  BY <1>1, <1>2, <1>3, OnlyOne
<1>5. OpsRead(ops)'
  <2>1. ops.ids = << >>
    BY <1>1, <1>2, <1>3 DEF MessageRead, OpsRead
  <2>2. ops'.ids = msg.attrs[next].ids
    BY <1>2, <2>1 DEF Attr
  <2>3. Sent(msg', "ops") = {next}
    BY <1>2, <1>4
  <2>4. QED
    BY <1>2, <1>3, <2>2, <2>3 DEF OpsRead
<1>6. GroupsRead(groups)'
  <2>1. \A k \in Sent(msg, "groups") : k \in Nat /\ k # next
    BY <1>1, <1>2, OnlyOne DEF Sent, Attr
  <2>2. next' = next + 1
    BY <1>2
  <2>3. \A k \in Sent(msg, "groups") : k < next <=> k < next'
    BY <1>3, <2>1, <2>2
  <2>4. QED
    BY <1>1, <1>2, <2>3 DEF MessageRead, GroupsRead, Sent, Takes
<1>7. QED
  BY <1>1, <1>2, <1>5, <1>6, SeenStays DEF MessageRead

\* The groups start without names, those of an empty list are all there.
LEMMA ReadGroupsRead == Typed /\ MessageRead /\ ReadGroups => MessageRead'
<1>1. SUFFICES ASSUME Typed, MessageRead, ReadGroups PROVE MessageRead'
  OBVIOUS
<1>2. /\ UNCHANGED <<msg, seen, ops>> /\ phase = "parse" /\ entry' = <<1, 1>>
      /\ next <= Len(msg.attrs) /\ Attr.type = "groups"
  BY <1>1 DEF ReadGroups, AtAttr
<1>3. next \in Sent(msg, "groups") /\ next \in Nat /\ IsSequence(Attr.list)
  BY <1>1, <1>2, TheAttr DEF Sent, Attr, Typed, TypeOK
<1>4. Sent(msg, "groups") = {next}
  BY <1>1, <1>2, <1>3, OnlyOne
<1>5. groups.list = << >>
  BY <1>1, <1>2, <1>3 DEF MessageRead, GroupsRead
<1>6. OpsRead(ops)' /\ next' \in {next, next + 1}
  <2>1. \A k \in Sent(msg, "ops") : k \in Nat /\ k # next
    BY <1>1, <1>2, OnlyOne DEF Sent, Attr
  <2>2. next' \in {next, next + 1}
    BY <1>1 DEF ReadGroups
  <2>3. \A k \in Sent(msg, "ops") : k < next <=> k < next'
    BY <1>3, <2>1, <2>2
  <2>4. QED
    BY <1>1, <1>2, <2>2, <2>3 DEF MessageRead, OpsRead, Sent
<1>7. CASE Attr.list = << >>
  <2>1. UNCHANGED <<phase, groups>> /\ next' = next + 1
    BY <1>1, <1>7 DEF ReadGroups
  <2>2. Sent(msg', "groups") = {next} /\ next < next' /\ groups'.list = msg.attrs[next].list
        /\ DOMAIN groups'.list = {}
    BY <1>2, <1>3, <1>4, <1>5, <1>7, <2>1 DEF Attr
  <2>3. GroupsRead(groups)'
    BY <1>2, <2>2 DEF GroupsRead
  <2>4. QED
    BY <1>1, <1>2, <1>6, <2>1, <2>3, SeenStays DEF MessageRead
<1>8. CASE Attr.list # << >>
  <2>1. /\ phase' = "groups" /\ next' = next /\ Attr' = Attr /\ entry'[1] = 1 /\ entry'[2] = 1
        /\ groups'.list = [i \in DOMAIN Attr.list |->
                                    [id |-> Attr.list[i].id, name |-> NoName, block |-> NoBlock]]
    BY <1>1, <1>2, <1>8 DEF ReadGroups, Attr
  <2>2. \A i \in DOMAIN groups'.list : i \in Nat /\ ~(i < 1)
    BY <1>3, <2>1 DEF IsSequence
  <2>3. \A i \in DOMAIN groups'.list : (NamesRead(i))' = 0
    BY <2>1, <2>2 DEF NamesRead, Current
  <2>4. \A i \in DOMAIN groups'.list : Takes(groups'.list[i], Attr.list[i], 0)
    BY <2>1 DEF Takes
  <2>5. (\A i \in DOMAIN groups.list : Takes(groups.list[i], Attr.list[i], NamesRead(i)))'
    BY <2>1, <2>3, <2>4
  <2>6. (Current <= Len(Attr.list) => entry[2] <= Len(Attr.list[Current].names) + 1)'
    <3>1. \A i \in DOMAIN Attr.list : Len(Attr.list[i].names) \in Nat
      <4>1. \A g \in ToSet(Attr.list) : IsSequence(g.names)
        <5>1. msg \in Messages /\ Attr \in ToSet(msg.attrs)
          BY <1>1, <1>2, TheAttr DEF Attr, ToSet
        <5>2. QED
          BY <1>2, <5>1, MessageAssumption
      <4>2. QED
        BY <4>1 DEF ToSet, IsSequence
    <3>2. Current' = 1 /\ 1 \in DOMAIN Attr.list
      BY <1>3, <1>8, <2>1 DEF IsSequence, Current
    <3>3. Len(Attr.list[1].names) \in Nat
      BY <3>1, <3>2
    <3>4. QED
      BY <2>1, <3>2, <3>3
  <2>7. QED
    BY <1>1, <1>2, <1>6, <2>1, <2>5, <2>6, SeenStays DEF MessageRead
<1>9. QED
  BY <1>7, <1>8

\* In the parser of the groups, its array has an entry for each group sent.
LEMMA InTheGroups ==
  ASSUME Typed, phase = "groups"
  PROVE  /\ next \in Sent(msg, "groups") /\ Sent(msg, "groups") = {next} /\ next \in Nat
         /\ IsSequence(Attr.list) /\ Len(Attr.list) \in Nat
         /\ DOMAIN groups.list = 1 .. Len(Attr.list)
         /\ entry[1] \in Nat \ {0} /\ entry[2] \in Nat \ {0}
         /\ \A i \in 1 .. Len(Attr.list) : Len(Attr.list[i].names) \in Nat
<1>1. /\ next \in Sent(msg, "groups") /\ msg \in Messages /\ DOMAIN groups.list = DOMAIN Attr.list
      /\ entry[1] \in Nat \ {0} /\ entry[2] \in Nat \ {0}
  BY DEF Typed, PhaseOK
<1>2. Sent(msg, "groups") = {next} /\ next \in Nat
  BY <1>1, OnlyOne
<1>3. Attr.type = "groups" /\ Attr \in ToSet(msg.attrs)
  BY <1>1 DEF Sent, Attr, ToSet
<1>4. IsSequence(Attr.list) /\ \A g \in ToSet(Attr.list) : IsSequence(g.names)
  BY <1>1, <1>3, MessageAssumption
<1>5. QED
  BY <1>1, <1>2, <1>4 DEF IsSequence, ToSet

\* One more name of the current group replaces the one before.
LEMMA ReadGroupNameRead == Typed /\ MessageRead /\ ReadGroupName => MessageRead'
<1>1. SUFFICES ASSUME Typed, MessageRead, ReadGroupName PROVE MessageRead'
  OBVIOUS
<1>2. /\ UNCHANGED <<phase, msg, next, seen, ops>> /\ phase = "groups"
      /\ Current <= Len(Attr.list) /\ entry[2] <= Len(Attr.list[Current].names)
      /\ groups' = [groups EXCEPT !.list[Current].name = Attr.list[Current].names[entry[2]],
                                  !.list[Current].block = Fresh]
      /\ entry' = <<Current, entry[2] + 1>>
  BY <1>1 DEF ReadGroupName, InGroups, NameLeft
<1>3. /\ DOMAIN groups.list = 1 .. Len(Attr.list) /\ Current \in 1 .. Len(Attr.list)
      /\ entry[2] \in Nat \ {0} /\ Len(Attr.list) \in Nat
      /\ \A i \in 1 .. Len(Attr.list) : Len(Attr.list[i].names) \in Nat
  BY <1>1, <1>2, InTheGroups DEF Current
<1>4. PICK c \in 1 .. Len(Attr.list), n \in Nat \ {0} : c = Current /\ n = entry[2]
  BY <1>3
<1>5. Current' = c /\ entry'[1] = c /\ entry'[2] = n + 1 /\ Attr' = Attr
  BY <1>2, <1>4 DEF Current, Attr
<1>6. /\ DOMAIN groups'.list = DOMAIN groups.list
      /\ \A i \in DOMAIN groups.list : i # c => groups'.list[i] = groups.list[i]
      /\ groups'.list[c].id = groups.list[c].id
      /\ groups'.list[c].name = Attr.list[c].names[n]
  <2>1. PICK l : l = groups.list
    OBVIOUS
  <2>2. c \in DOMAIN l /\ DOMAIN l[c] = {"id", "name", "block"} /\ DOMAIN groups = {"block", "list"}
    BY <1>1, <1>3, <2>1 DEF Typed, GroupsShape, ToSet
  <2>3. PICK m : m = [l EXCEPT ![c].name = Attr.list[c].names[n], ![c].block = Fresh]
    OBVIOUS
  <2>4. groups' = [groups EXCEPT !.list = m]
    BY <1>2, <1>4, <2>1, <2>2, <2>3
  <2>5. groups'.list = m
    BY <2>2, <2>4
  <2>6. /\ DOMAIN m = DOMAIN l /\ \A i \in DOMAIN l : i # c => m[i] = l[i]
        /\ m[c].id = l[c].id /\ m[c].name = Attr.list[c].names[n]
    BY <2>2, <2>3
  <2>7. QED
    BY <2>1, <2>5, <2>6
<1>7. /\ NamesRead(c) = n - 1 /\ NamesRead(c)' = n
      /\ \A i \in 1 .. Len(Attr.list) : i # c => NamesRead(i)' = NamesRead(i)
  BY <1>3, <1>4, <1>5 DEF NamesRead, Current
<1>8. \A i \in DOMAIN groups.list : Takes(groups.list[i], Attr.list[i], NamesRead(i))
  BY <1>1, <1>2 DEF MessageRead
<1>9. Takes(groups'.list[c], Attr.list[c], n)
  BY <1>3, <1>4, <1>6, <1>8 DEF Takes
<1>10. (\A i \in DOMAIN groups.list : Takes(groups.list[i], Attr.list[i], NamesRead(i)))'
  <2>1. SUFFICES ASSUME NEW i \in DOMAIN groups.list
                 PROVE  Takes(groups'.list[i], Attr.list[i], NamesRead(i)')
    BY <1>5, <1>6
  <2>2. CASE i = c
    BY <1>7, <1>9, <2>2
  <2>3. CASE i # c
    BY <1>3, <1>6, <1>7, <1>8, <2>3
  <2>4. QED
    BY <2>2, <2>3
<1>11. (entry[2] <= Len(Attr.list[Current].names) + 1)'
  BY <1>2, <1>3, <1>4, <1>5
<1>12. OpsRead(ops)'
  BY <1>1, <1>2 DEF MessageRead, OpsRead, Sent
<1>13. QED
  BY <1>1, <1>2, <1>10, <1>11, <1>12, SeenStays DEF MessageRead

\* A group is complete when its names are read.
LEMMA NextGroupRead == Typed /\ MessageRead /\ NextGroup => MessageRead'
<1>1. SUFFICES ASSUME Typed, MessageRead, NextGroup PROVE MessageRead'
  OBVIOUS
<1>2. /\ UNCHANGED <<phase, msg, next, seen, ops, groups>> /\ phase = "groups"
      /\ Current <= Len(Attr.list) /\ ~(entry[2] <= Len(Attr.list[Current].names))
      /\ entry' = <<Current + 1, 1>>
  BY <1>1 DEF NextGroup, InGroups, NameLeft
<1>3. /\ DOMAIN groups.list = 1 .. Len(Attr.list) /\ Current \in 1 .. Len(Attr.list)
      /\ entry[2] \in Nat \ {0} /\ Len(Attr.list) \in Nat
      /\ \A i \in 1 .. Len(Attr.list) : Len(Attr.list[i].names) \in Nat
  BY <1>1, <1>2, InTheGroups DEF Current
<1>4. PICK c \in 1 .. Len(Attr.list), n \in Nat \ {0} : c = Current /\ n = entry[2]
  BY <1>3
<1>5. Current' = c + 1 /\ entry'[1] = c + 1 /\ entry'[2] = 1 /\ Attr' = Attr
  BY <1>2, <1>4 DEF Current, Attr
<1>6. n = Len(Attr.list[c].names) + 1
  <2>1. n <= Len(Attr.list[c].names) + 1 /\ ~(n <= Len(Attr.list[c].names))
    BY <1>1, <1>2, <1>4 DEF MessageRead
  <2>2. PICK l \in Nat : l = Len(Attr.list[c].names)
    BY <1>3
  <2>3. n <= l + 1 /\ ~(n <= l)
    BY <2>1, <2>2
  <2>4. n = l + 1
    BY <2>3
  <2>5. QED
    BY <2>2, <2>4
<1>7. \A i \in 1 .. Len(Attr.list) : NamesRead(i)' = NamesRead(i)
  BY <1>3, <1>4, <1>5, <1>6 DEF NamesRead, Current
<1>8. (\A i \in DOMAIN groups.list : Takes(groups.list[i], Attr.list[i], NamesRead(i)))'
  <2>1. \A i \in DOMAIN groups.list : Takes(groups.list[i], Attr.list[i], NamesRead(i))
    BY <1>1, <1>2 DEF MessageRead
  <2>2. QED
    BY <1>2, <1>3, <1>5, <1>7, <2>1
<1>9. (Current <= Len(Attr.list) => entry[2] <= Len(Attr.list[Current].names) + 1)'
  <2>1. ASSUME c + 1 <= Len(Attr.list) PROVE 1 <= Len(Attr.list[c + 1].names) + 1
    <3>1. c + 1 \in 1 .. Len(Attr.list)
      BY <1>3, <2>1
    <3>2. QED
      BY <1>3, <3>1
  <2>2. QED
    BY <1>5, <2>1
<1>10. OpsRead(ops)'
  BY <1>1, <1>2 DEF MessageRead, OpsRead, Sent
<1>11. QED
  BY <1>1, <1>2, <1>8, <1>9, <1>10, SeenStays DEF MessageRead

\* Every group has had all its names.
LEMMA GroupsDoneRead == Typed /\ MessageRead /\ GroupsDone => MessageRead'
<1>1. SUFFICES ASSUME Typed, MessageRead, GroupsDone PROVE MessageRead'
  OBVIOUS
<1>2. /\ UNCHANGED <<msg, seen, ops, groups>> /\ phase = "groups" /\ phase' = "parse"
      /\ next' = next + 1 /\ Current > Len(Attr.list)
  BY <1>1 DEF GroupsDone
<1>3. /\ Sent(msg, "groups") = {next} /\ next \in Nat /\ Len(Attr.list) \in Nat
      /\ DOMAIN groups.list = 1 .. Len(Attr.list) /\ Current \in Nat
      /\ IsSequence(Attr.list)
  BY <1>1, <1>2, InTheGroups DEF Current
<1>4. \A i \in 1 .. Len(Attr.list) : NamesRead(i) = Len(Attr.list[i].names)
  BY <1>2, <1>3 DEF NamesRead
<1>5. \A i \in DOMAIN groups.list :
        Takes(groups.list[i], Attr.list[i], Len(Attr.list[i].names))
  BY <1>1, <1>2, <1>3, <1>4 DEF MessageRead
<1>6. GroupsRead(groups)'
  <2>1. DOMAIN groups.list = DOMAIN msg.attrs[next].list
    BY <1>3 DEF IsSequence, Attr
  <2>2. Sent(msg', "groups") = {next} /\ next < next' /\ groups' = groups /\ msg' = msg
    BY <1>2, <1>3
  <2>3. QED
    BY <1>5, <2>1, <2>2 DEF GroupsRead, Attr
<1>7. OpsRead(ops)'
  <2>1. \A k \in Sent(msg, "ops") : k \in Nat /\ k # next
    BY <1>1, <1>2, <1>3, OnlyOne DEF Sent
  <2>2. next' = next + 1
    BY <1>2
  <2>3. \A k \in Sent(msg, "ops") : k < next <=> k < next'
    BY <1>3, <2>1, <2>2
  <2>4. QED
    BY <1>1, <1>2, <2>3 DEF MessageRead, OpsRead, Sent
<1>8. QED
  BY <1>1, <1>2, <1>6, <1>7, SeenStays DEF MessageRead

\* What has been read is what the family is made of, and owns.
LEMMA BeginFamilyRead == Typed /\ MessageRead /\ BeginFamily => MessageRead'
<1>1. SUFFICES ASSUME Typed, MessageRead, BeginFamily PROVE MessageRead'
  OBVIOUS
<1>2. /\ UNCHANGED <<msg, next, seen, ops, groups>> /\ phase = "parse" /\ phase' = "create"
      /\ next > Len(msg.attrs) /\ Complete
  BY <1>1 DEF BeginFamily, AllRead, parser
<1>3. next = Len(msg.attrs) + 1
  <2>1. next \in 1 .. Len(msg.attrs) + 1 /\ Len(msg.attrs) \in Nat
    BY <1>1, <1>2, MessageAssumption DEF Typed, TypeOK, PhaseOK, IsSequence
  <2>2. QED
    BY <1>2, <2>1
<1>4. OpsRead(ops)' /\ GroupsRead(groups)'
  BY <1>1, <1>2 DEF MessageRead, OpsRead, GroupsRead, Sent, Takes
<1>5. QED
  BY <1>1, <1>2, <1>3, <1>4, SeenStays DEF MessageRead, Complete

\* The arrays of the parser become those of the family.
LEMMA HandOverRead == Typed /\ MessageRead /\ HandOver => MessageRead'
<1>1. SUFFICES ASSUME Typed, MessageRead, HandOver PROVE MessageRead'
  OBVIOUS
<1>2. /\ UNCHANGED <<msg, next, seen>> /\ phase = "create" /\ phase' = "overlay"
      /\ family' = [NoFamily EXCEPT !.blocks = built, !.ops = ops, !.groups = groups]
  BY <1>1 DEF HandOver
<1>3. family'.ops = ops /\ family'.groups = groups
  BY <1>2 DEF NoFamily
<1>4. OpsRead(family.ops)' /\ GroupsRead(family.groups)'
  BY <1>1, <1>2, <1>3 DEF MessageRead, OpsRead, GroupsRead, Sent, Takes
<1>5. QED
  BY <1>1, <1>2, <1>4, SeenStays DEF MessageRead, Complete

\* Every step keeps what the message said.
LEMMA MessageKept == Typed /\ MessageRead /\ [Next]_vars => MessageRead'
<1>1. SUFFICES ASSUME Typed, MessageRead, [Next]_vars PROVE MessageRead'
  OBVIOUS
<1>2. CASE \/ OpsFail \/ GroupsFail \/ SkipFamily \/ AttachFails \/ Destroy
           \/ ConstructFails /\ phase = "create"
  BY <1>2, MessageOver DEF OpsFail, GroupsFail, SkipFamily, AttachFails, Destroy, ConstructFails
<1>3. CASE \/ WithoutOverlay \/ Attach \/ AppendFails \/ Construct \/ UNCHANGED vars
           \/ ConstructFails /\ phase # "create"
           \/ \E i \in 0 .. Len(family.kids) : List(i)
  <2>1. UNCHANGED <<parser, family>> /\ (phase' = phase \/ phase \in {"overlay", "attach", "idle", "list"})
        /\ (phase' = phase \/ phase' \in {"overlay", "attach", "idle", "list"})
    BY <1>3 DEF WithoutOverlay, Attach, AppendFails, Construct, ConstructFails, Making, List, vars
  <2>2. QED
    BY <1>1, <2>1, MessageStays
<1>4. CASE LoadOverlay \/ AppendNode \/ Listed
  <2>1. UNCHANGED parser /\ phase \in {"overlay", "list"} /\ phase' \in {"attach", "list", "idle"}
    BY <1>4 DEF LoadOverlay, AppendNode, Listed
  <2>2. family'.ops = family.ops /\ family'.groups = family.groups
    <3>1. DOMAIN family = DOMAIN NoFamily
      BY <1>1 DEF Typed, FamilyShape
    <3>2. QED
      BY <1>4, <3>1 DEF LoadOverlay, AppendNode, Listed, NoFamily
  <2>3. QED
    BY <1>1, <2>1, <2>2, MessageStays
<1>5. QED
  BY <1>1, <1>2, <1>3, <1>4, ReceiveRead, ReadPlainRead, ReadOpsRead, ReadGroupsRead,
     ReadGroupNameRead, NextGroupRead, GroupsDoneRead, BeginFamilyRead, HandOverRead
     DEF Next, Parse, Make

-----------------------------------------------------------------------------
(* What is to be listed.                                                   *)

\* Some natural numbers have a least one.
LEMMA LeastNatural ==
  ASSUME NEW S \in SUBSET Nat, S # {}
  PROVE  \E x \in S : \A y \in S : x <= y
<1>1. \A a, b \in Nat : a < b => <<a, b>> \in OpToRel(<, Nat)
  BY DEF OpToRel
<1>2. PICK R : (\A a, b \in Nat : a < b => <<a, b>> \in R) /\ IsWellFoundedOn(R, Nat)
  BY <1>1, NatLessThanWellFounded
<1>6. IsWellFoundedOn(R, Nat)
  BY <1>2
<1>3. PICK x \in S : \A y \in S : ~(<<y, x>> \in R)
  BY <1>6, WFMin
<1>4. \A y \in S : x \in Nat /\ y \in Nat /\ ~(y < x)
  BY <1>2, <1>3
<1>5. QED
  BY <1>4

\* What FlattenSeq makes of the first n parts, one after the other.
Flattens(parts, n, F) ==
  F = [i \in 1 .. n |-> IF i = 1 THEN parts[i] ELSE F[i - 1] \o parts[i]]

\* A function is one if it is one everywhere.
LEMMA FlattensAt ==
  ASSUME NEW parts, NEW n \in Nat, NEW F
  PROVE  Flattens(parts, n, F) <=>
           /\ F = [i \in 1 .. n |-> F[i]]
           /\ \A i \in 1 .. n : F[i] = IF i = 1 THEN parts[i] ELSE F[i - 1] \o parts[i]
<1>1. PICK H : H = [i \in 1 .. n |-> IF i = 1 THEN parts[i] ELSE F[i - 1] \o parts[i]]
  OBVIOUS
<1>2. Flattens(parts, n, F) <=> F = H
  BY <1>1 DEF Flattens
<1>3. DOMAIN H = 1 .. n /\ H = [i \in 1 .. n |-> H[i]]
  BY <1>1
<1>4. \A i \in 1 .. n : H[i] = IF i = 1 THEN parts[i] ELSE F[i - 1] \o parts[i]
  BY <1>1
<1>5. ASSUME F = H
      PROVE  /\ F = [i \in 1 .. n |-> F[i]]
             /\ \A i \in 1 .. n : F[i] = IF i = 1 THEN parts[i] ELSE F[i - 1] \o parts[i]
  BY <1>3, <1>4, <1>5
<1>6. ASSUME F = [i \in 1 .. n |-> F[i]],
             \A i \in 1 .. n : F[i] = IF i = 1 THEN parts[i] ELSE F[i - 1] \o parts[i]
      PROVE  F = H
  <2>1. \A i \in 1 .. n : F[i] = H[i]
    BY <1>4, <1>6
  <2>2. QED
    BY <1>3, <1>6, <2>1
<1>7. QED
  BY <1>2, <1>5, <1>6

\* There is one for every number of parts: the one for the parts before can be
\* continued.
LEMMA FlattenExists ==
  ASSUME NEW parts, NEW n \in Nat
  PROVE  \E F : Flattens(parts, n, F)
<1>1. PICK Missing \in SUBSET Nat : Missing = {m \in Nat : ~ \E F : Flattens(parts, m, F)}
  OBVIOUS
<1>2. CASE Missing = {}
  BY <1>1, <1>2
<1>3. CASE Missing # {}
  <2>1. PICK m \in Missing : \A k \in Missing : m <= k
    BY <1>3, LeastNatural
  <2>2. m \in Nat /\ ~ \E F : Flattens(parts, m, F)
    BY <1>1
  <2>3. CASE m = 0
    <3>1. PICK F : F = [i \in 1 .. 0 |-> << >>]
      OBVIOUS
    <3>2. F = [i \in 1 .. 0 |-> F[i]] /\ \A i \in 1 .. 0 : FALSE
      BY <3>1
    <3>3. Flattens(parts, 0, F)
      BY <3>2, FlattensAt
    <3>4. QED
      BY <2>2, <2>3, <3>3
  <2>4. CASE m # 0
    <3>1. m - 1 \in Nat /\ ~(m <= m - 1)
      BY <2>2, <2>4
    <3>2. m - 1 \notin Missing
      BY <2>1, <3>1
    <3>3. PICK F : Flattens(parts, m - 1, F)
      BY <1>1, <3>1, <3>2
    <3>4. PICK x : x = IF m = 1 THEN parts[m] ELSE F[m - 1] \o parts[m]
      OBVIOUS
    <3>5. PICK G : G = [i \in 1 .. m |-> IF i = m THEN x ELSE F[i]]
      OBVIOUS
    <3>6. \A i \in 1 .. m - 1 : F[i] = IF i = 1 THEN parts[i] ELSE F[i - 1] \o parts[i]
      BY <3>1, <3>3, FlattensAt
    <3>7. G = [i \in 1 .. m |-> G[i]]
      BY <3>5
    <3>8. G[m] = x /\ \A i \in 1 .. m : i # m => G[i] = F[i]
      BY <2>2, <2>4, <3>5
    <3>9. ASSUME NEW i \in 1 .. m
          PROVE  G[i] = IF i = 1 THEN parts[i] ELSE G[i - 1] \o parts[i]
      <4>1. i # 1 => i - 1 \in 1 .. m /\ i - 1 # m
        BY <2>2
      <4>2. i # 1 => G[i - 1] = F[i - 1]
        BY <3>8, <4>1
      <4>3. CASE i = m
        BY <3>4, <3>8, <4>2, <4>3
      <4>4. CASE i # m
        <5>1. i \in 1 .. m - 1
          BY <2>2, <4>4
        <5>2. QED
          BY <3>6, <3>8, <4>2, <4>4, <5>1
      <4>5. QED
        BY <4>3, <4>4
    <3>10. Flattens(parts, m, G)
      BY <2>2, <3>7, <3>9, FlattensAt
    <3>11. QED
      BY <2>2, <3>10
  <2>5. QED
    BY <2>3, <2>4
<1>4. QED
  BY <1>2, <1>3

\* What FlattenSeq returns is the last value of such a function.
LEMMA FlattenIs ==
  ASSUME NEW parts, Len(parts) \in Nat \ {0}
  PROVE  \E F : /\ FlattenSeq(parts) = F[Len(parts)]
                /\ \A i \in 1 .. Len(parts) :
                     F[i] = IF i = 1 THEN parts[i] ELSE F[i - 1] \o parts[i]
<1>1. FlattenSeq(parts) = (CHOOSE F : Flattens(parts, Len(parts), F))[Len(parts)]
  BY DEF FlattenSeq, Flattens
<1>2. PICK F : F = (CHOOSE G : Flattens(parts, Len(parts), G))
  OBVIOUS
<1>3. Flattens(parts, Len(parts), F)
  BY <1>2, FlattenExists
<1>4. \A i \in 1 .. Len(parts) : F[i] = IF i = 1 THEN parts[i] ELSE F[i - 1] \o parts[i]
  <2>1. PICK n \in Nat : n = Len(parts)
    OBVIOUS
  <2>2. Flattens(parts, n, F)
    BY <1>3, <2>1
  <2>3. \A i \in 1 .. n : F[i] = IF i = 1 THEN parts[i] ELSE F[i - 1] \o parts[i]
    BY <2>2, FlattensAt
  <2>4. QED
    BY <2>1, <2>3
<1>5. FlattenSeq(parts) = F[Len(parts)]
  BY <1>1, <1>2
<1>6. QED
  BY <1>4, <1>5, Zenon

\* Parts that are sequences over a set give one.
LEMMA FlattenTyped ==
  ASSUME NEW T, NEW parts, Len(parts) \in Nat, Len(parts) = 0 => parts = << >>,
         \A i \in 1 .. Len(parts) : parts[i] \in Seq(T)
  PROVE  FlattenSeq(parts) \in Seq(T)
<1>1. CASE Len(parts) = 0
  BY <1>1 DEF FlattenSeq
<1>2. CASE Len(parts) # 0
  <2>1. PICK F : /\ FlattenSeq(parts) = F[Len(parts)]
                 /\ \A i \in 1 .. Len(parts) :
                      F[i] = IF i = 1 THEN parts[i] ELSE F[i - 1] \o parts[i]
    BY <1>2, FlattenIs
  <2>2. PICK n \in Nat : n = Len(parts) /\ n # 0
    BY <1>2
  <2>3. PICK Bad \in SUBSET Nat : Bad = {i \in Nat : i \in 1 .. n /\ F[i] \notin Seq(T)}
    OBVIOUS
  <2>4. CASE Bad = {}
    BY <2>1, <2>2, <2>3, <2>4
  <2>5. CASE Bad # {}
    <3>1. PICK m \in Bad : \A k \in Bad : m <= k
      BY <2>5, LeastNatural
    <3>2. m \in 1 .. n /\ F[m] \notin Seq(T) /\ parts[m] \in Seq(T)
      BY <2>2, <2>3
    <3>3. F[m] = IF m = 1 THEN parts[m] ELSE F[m - 1] \o parts[m]
      BY <2>1, <2>2, <3>2
    <3>4. m # 1
      BY <3>2, <3>3
    <3>5. m - 1 \in 1 .. n /\ ~(m <= m - 1)
      BY <3>2, <3>4
    <3>6. m - 1 \notin Bad
      BY <3>1, <3>5
    <3>7. F[m - 1] \in Seq(T)
      BY <2>3, <3>5, <3>6
    <3>8. QED
      BY <3>2, <3>3, <3>4, <3>7
  <2>6. QED
    BY <2>4, <2>5
<1>3. QED
  BY <1>1, <1>2

\* If all parts but one are empty it is that one.
LEMMA FlattenOne ==
  ASSUME NEW T, NEW parts, Len(parts) \in Nat, NEW k \in 1 .. Len(parts), parts[k] \in Seq(T),
         \A i \in 1 .. Len(parts) : i # k => parts[i] = << >>
  PROVE  FlattenSeq(parts) = parts[k]
<1>1. PICK n \in Nat \ {0} : n = Len(parts)
  OBVIOUS
<1>2. PICK F : /\ FlattenSeq(parts) = F[n]
               /\ \A i \in 1 .. n : F[i] = IF i = 1 THEN parts[i] ELSE F[i - 1] \o parts[i]
  BY <1>1, FlattenIs
<1>3. PICK x \in Seq(T) : x = parts[k]
  OBVIOUS
<1>4. x \o << >> = x /\ << >> \o x = x
  BY <1>3
<1>5. PICK Bad \in SUBSET Nat :
        Bad = {i \in Nat : i \in 1 .. n /\ F[i] # IF k <= i THEN x ELSE << >>}
  OBVIOUS
<1>6. CASE Bad = {}
  <2>1. n \in 1 .. n /\ n \notin Bad /\ k <= n
    BY <1>1, <1>6
  <2>2. QED
    BY <1>2, <1>3, <1>5, <2>1
<1>7. CASE Bad # {}
  <2>1. PICK m \in Bad : \A i \in Bad : m <= i
    BY <1>7, LeastNatural
  <2>2. m \in 1 .. n /\ F[m] # IF k <= m THEN x ELSE << >>
    BY <1>5
  <2>3. F[m] = IF m = 1 THEN parts[m] ELSE F[m - 1] \o parts[m]
    BY <1>2, <2>2
  <2>4. parts[m] = IF m = k THEN x ELSE << >>
    BY <1>1, <1>3, <2>2
  <2>5. m # 1
    BY <1>1, <2>2, <2>3, <2>4
  <2>6. m - 1 \in 1 .. n /\ ~(m <= m - 1)
    BY <2>2, <2>5
  <2>7. m - 1 \notin Bad
    BY <2>1, <2>6
  <2>8. F[m - 1] = IF k <= m - 1 THEN x ELSE << >>
    BY <1>5, <2>6, <2>7
  <2>9. CASE k <= m - 1
    BY <1>1, <1>4, <2>2, <2>3, <2>4, <2>5, <2>8, <2>9
  <2>10. CASE ~(k <= m - 1)
    <3>1. F[m] = << >> \o parts[m] /\ (k <= m <=> m = k)
      BY <1>1, <2>2, <2>3, <2>5, <2>8, <2>10
    <3>2. << >> \o parts[m] = parts[m]
      BY <1>4, <2>4
    <3>3. QED
      BY <2>2, <2>4, <3>1, <3>2
  <2>11. QED
    BY <2>9, <2>10
<1>8. QED
  BY <1>6, <1>7

\* If all are empty there is nothing.
LEMMA FlattenNone ==
  ASSUME NEW parts, Len(parts) \in Nat, Len(parts) = 0 => parts = << >>,
         \A i \in 1 .. Len(parts) : parts[i] = << >>
  PROVE  FlattenSeq(parts) = << >>
<1>4. << >> \in Seq({})
  OBVIOUS
<1>1. \A i \in 1 .. Len(parts) : parts[i] \in Seq({})
  BY <1>4, Zenon
<1>2. FlattenSeq(parts) \in Seq({})
  BY <1>1, FlattenTyped
<1>3. QED
  BY <1>2

\* The attributes with a name, of a set that was found, are a sequence.
LEMMA NamedIsSequence ==
  ASSUME NEW set, set = << >> \/ IsSequence(set[1].attrs)
  PROVE  IsSequence(NamedOf(set))
<1>1. CASE set = << >>
  BY <1>1 DEF NamedOf, IsSequence
<1>2. CASE set # << >>
  <2>1. PICK s : s = set[1].attrs
    OBVIOUS
  <2>2. IsSequence(s) /\ Len(s) \in Nat /\ DOMAIN s = 1 .. Len(s)
    BY <1>2, <2>1 DEF IsSequence
  <2>3. PICK parts : parts = [i \in DOMAIN s |-> IF s[i].name = NoName THEN << >> ELSE <<s[i]>>]
    OBVIOUS
  <2>4. NamedOf(set) = FlattenSeq(parts)
    BY <1>2, <2>1, <2>3 DEF NamedOf
  <2>5. /\ Len(parts) = Len(s) /\ (Len(parts) = 0 => parts = << >>)
        /\ DOMAIN parts = 1 .. Len(parts)
    BY <2>2, <2>3
  <2>8. \A i \in DOMAIN s : s[i] \in ToSet(s)
    BY DEF ToSet
  <2>9. \A i \in DOMAIN s : parts[i] \in Seq(ToSet(s))
    <3>1. SUFFICES ASSUME NEW i \in DOMAIN s PROVE parts[i] \in Seq(ToSet(s))
      OBVIOUS
    <3>2. parts[i] = << >> \/ parts[i] = <<s[i]>>
      BY <2>3
    <3>3. PICK x \in ToSet(s) : x = s[i]
      BY <2>8
    <3>4. << >> \in Seq(ToSet(s)) /\ <<x>> \in Seq(ToSet(s))
      OBVIOUS
    <3>5. QED
      BY <3>2, <3>3, <3>4
  <2>6. NamedOf(set) \in Seq(ToSet(s))
    BY <2>2, <2>4, <2>5, <2>9, FlattenTyped
  <2>7. QED
    BY <2>6 DEF IsSequence, ToSet
<1>3. QED
  BY <1>1, <1>2

\* A look-up finds one of the entries, if one matches.
LEMMA FindSetFinds ==
  ASSUME NEW overlay, IsSequence(overlay.sets), NEW name
  PROVE  FindSet(overlay, name) = << >>
         \/ \E s \in ToSet(overlay.sets) : FindSet(overlay, name) = <<s>>
<1>1. PICK sets : sets = overlay.sets
  OBVIOUS
<1>2. PICK hits : hits = {i \in DOMAIN sets : sets[i].name = name}
  OBVIOUS
<1>3. \/ FindSet(overlay, name) = << >>
      \/ hits # {} /\ FindSet(overlay, name) = <<sets[Min(hits)]>>
  BY <1>1, <1>2 DEF FindSet, FirstWhere
<1>4. hits # {} => Min(hits) \in hits
  <2>1. hits \in SUBSET Nat
    BY <1>1, <1>2 DEF IsSequence
  <2>2. QED
    BY <2>1, LeastNatural DEF Min
<1>5. QED
  BY <1>1, <1>2, <1>3, <1>4 DEF ToSet

\* A look-up answers with an operation of the id exactly if there is one.
LEMMA FindOpFinds ==
  ASSUME NEW overlay, IsSequence(overlay.ops), NEW id
  PROVE  IF \E o \in ToSet(overlay.ops) : o.id = id
         THEN \E o \in ToSet(overlay.ops) : o.id = id /\ FindOp(overlay, id) = <<o>>
         ELSE FindOp(overlay, id) = << >>
<1>1. PICK entries : entries = overlay.ops
  OBVIOUS
<1>2. PICK hits : hits = {i \in DOMAIN entries : entries[i].id = id}
  OBVIOUS
<1>3. FindOp(overlay, id) = IF hits = {} THEN << >> ELSE <<entries[Min(hits)]>>
  BY <1>1, <1>2 DEF FindOp, FirstWhere
<1>4. hits # {} => Min(hits) \in hits
  <2>1. hits \in SUBSET Nat
    BY <1>1, <1>2 DEF IsSequence
  <2>2. QED
    BY <2>1, LeastNatural DEF Min
<1>5. (\E o \in ToSet(entries) : o.id = id) <=> hits # {}
  BY <1>2 DEF ToSet
<1>6. hits # {} => entries[Min(hits)] \in ToSet(entries) /\ entries[Min(hits)].id = id
  BY <1>2, <1>4 DEF ToSet
<1>7. QED
  BY <1>1, <1>3, <1>5, <1>6

\* First takes the head of what the searches have found.
LEMMA FirstTyped ==
  ASSUME NEW T, NEW found \in Seq(T)
  PROVE  First(found) = << >> \/ \E s \in T : First(found) = <<s>>
<1>1. found # << >> => Head(found) \in T
  OBVIOUS
<1>2. QED
  BY <1>1 DEF First

\* The set whose attributes an operation lists is one of the overlay's.
LEMMA OpAttrSetFinds ==
  ASSUME NEW overlay, IsSequence(overlay.sets), NEW op, NEW isEthtool
  PROVE  OpAttrSet(overlay, op, isEthtool) = << >>
         \/ \E s \in ToSet(overlay.sets) : OpAttrSet(overlay, op, isEthtool) = <<s>>
<1>1. PICK T : T = ToSet(overlay.sets)
  OBVIOUS
<1>2. \A name : FindSet(overlay, name) \in Seq(T)
  <2>1. << >> \in Seq(T) /\ \A s \in T : <<s>> \in Seq(T)
    OBVIOUS
  <2>2. QED
    BY <1>1, <2>1, FindSetFinds
<1>3. PICK names : names = <<Attrs, StripSuffix(op), StripPrefix(op)>>
                           \o (IF isEthtool THEN <<Header>> ELSE << >>)
  OBVIOUS
<1>4. PICK parts : parts = [i \in DOMAIN names |-> FindSet(overlay, names[i])]
  OBVIOUS
<1>5. OpAttrSet(overlay, op, isEthtool) = First(FlattenSeq(parts))
  BY <1>3, <1>4 DEF OpAttrSet
<1>6. Len(names) \in Nat \ {0} /\ DOMAIN names = 1 .. Len(names)
  BY <1>3
<1>7. Len(parts) \in Nat \ {0} /\ DOMAIN parts = 1 .. Len(parts) /\ Len(parts) = Len(names)
  BY <1>4, <1>6
<1>8. \A i \in 1 .. Len(parts) : parts[i] \in Seq(T)
  BY <1>2, <1>4, <1>6, <1>7
<1>9. FlattenSeq(parts) \in Seq(T)
  BY <1>7, <1>8, FlattenTyped
<1>10. QED
  BY <1>1, <1>5, <1>9, FirstTyped

\* For a family other than ethtool it is the set invoke searches for itself:
\* the two functions try the same names in the same order.
LEMMA SameSearch ==
  ASSUME NEW overlay, NEW op, NEW isEthtool, ~isEthtool
  PROVE  OpAttrSet(overlay, op, isEthtool) = InvokeSet(overlay, op)
<1>1. PICK a, b, c : /\ a = FindSet(overlay, Attrs) /\ b = FindSet(overlay, StripSuffix(op))
                     /\ c = FindSet(overlay, StripPrefix(op))
  OBVIOUS
<1>2. PICK names : names = <<Attrs, StripSuffix(op), StripPrefix(op)>>
  OBVIOUS
<1>3. names \o << >> = names
  BY <1>2
<1>4. PICK parts : parts = [i \in DOMAIN names |-> FindSet(overlay, names[i])]
  OBVIOUS
<1>5. OpAttrSet(overlay, op, isEthtool) = First(FlattenSeq(parts))
  BY <1>2, <1>3, <1>4 DEF OpAttrSet
<1>6. Len(parts) = 3 /\ parts[1] = a /\ parts[2] = b /\ parts[3] = c
  BY <1>1, <1>2, <1>4
<1>11. Len(parts) \in Nat \ {0}
  BY <1>6
<1>12. PICK F : /\ FlattenSeq(parts) = F[Len(parts)]
                /\ \A i \in 1 .. Len(parts) :
                     F[i] = IF i = 1 THEN parts[i] ELSE F[i - 1] \o parts[i]
  BY <1>11, FlattenIs
<1>7. /\ FlattenSeq(parts) = F[3]
      /\ \A i \in {1, 2, 3} : F[i] = IF i = 1 THEN parts[i] ELSE F[i - 1] \o parts[i]
  BY <1>6, <1>12
<1>8. F[1] = a /\ F[2] = F[1] \o b /\ F[3] = F[2] \o c
  <2>1. 2 # 1 /\ 3 # 1 /\ 2 - 1 = 1 /\ 3 - 1 = 2
    OBVIOUS
  <2>2. F[1] = parts[1]
    BY <1>7
  <2>3. F[2] = F[2 - 1] \o parts[2]
    BY <1>7, <2>1
  <2>4. F[3] = F[3 - 1] \o parts[3]
    BY <1>7, <2>1
  <2>5. QED
    BY <1>6, <2>1, <2>2, <2>3, <2>4
<1>9. InvokeSet(overlay, op) = First(a \o b \o c)
  BY <1>1 DEF InvokeSet
<1>10. QED
  BY <1>5, <1>7, <1>8, <1>9

-----------------------------------------------------------------------------
(* The listings.                                                           *)

\* Behind a family there is a message that has been walked over to its end.
LEMMA AllOfIt ==
  ASSUME Typed, MessageRead, phase \in {"overlay", "attach", "idle", "list"}
  PROVE  /\ msg \in Messages /\ IsSequence(msg.attrs)
         /\ \A i \in DOMAIN msg.attrs : i < next
         /\ OpsRead(family.ops) /\ GroupsRead(family.groups)
<1>1. msg \in Messages /\ IsSequence(msg.attrs)
  BY MessageAssumption DEF Typed, PhaseOK
<1>2. next = Len(msg.attrs) + 1
  BY DEF MessageRead
<1>3. QED
  BY <1>1, <1>2 DEF MessageRead, IsSequence

\* What is given at every place up to a length is a sequence.
LEMMA GivenIsSequence ==
  ASSUME NEW s, NEW n \in Nat, DOMAIN s = 1 .. n, s = [i \in 1 .. n |-> s[i]]
  PROVE  IsSequence(s) /\ Len(s) = n
<1>1. \A i \in 1 .. n : s[i] \in ToSet(s)
  BY DEF ToSet
<1>2. s \in [1 .. n -> ToSet(s)]
  BY <1>1
<1>3. QED
  BY <1>2 DEF IsSequence

\* Two sequences, one behind the other.
LEMMA Joined ==
  ASSUME NEW p, NEW q, IsSequence(p), IsSequence(q)
  PROVE  /\ IsSequence(p \o q) /\ Len(p \o q) = Len(p) + Len(q)
         /\ Len(p) \in Nat /\ Len(q) \in Nat
         /\ \A i \in 1 .. Len(p) : (p \o q)[i] = p[i]
         /\ \A i \in 1 .. Len(q) : (p \o q)[Len(p) + i] = q[i]
<1>1. PICK S : S = ToSet(p) \cup ToSet(q)
  OBVIOUS
<1>2. p \in Seq(S) /\ q \in Seq(S)
  <2>1. p \in Seq(ToSet(p)) /\ ToSet(p) \subseteq S /\ q \in Seq(ToSet(q)) /\ ToSet(q) \subseteq S
    BY <1>1 DEF IsSequence
  <2>2. QED
    BY <2>1
<1>3. p \o q \in Seq(S)
  BY <1>2
<1>4. IsSequence(p \o q)
  <2>1. PICK s \in Seq(S) : s = p \o q
    BY <1>3
  <2>2. PICK n \in Nat : n = Len(s)
    BY <2>1
  <2>3. s \in [1 .. n -> S]
    BY <2>2, LenProperties
  <2>4. DOMAIN s = 1 .. n /\ s = [i \in 1 .. n |-> s[i]]
    BY <2>3
  <2>5. QED
    BY <2>1, <2>2, <2>4, GivenIsSequence
<1>5. QED
  BY <1>2, <1>4

\* A listing is a sequence.
LEMMA PlansTyped ==
  ASSUME Typed, MessageRead, NEW i \in 0 .. Len(family.kids)
  PROVE  IsSequence(Plans(i)) /\ Len(Plans(i)) \in Nat /\ DOMAIN Plans(i) = 1 .. Len(Plans(i))
<1>1. IsSequence(family.kids) /\ IsSequence(family.groups.list)
  BY DEF Typed, FamilyShape, GroupsShape
<1>2. IsSequence(family.overlay.sets)
  <2>1. family.overlay \in Overlays \cup {NoOverlay}
    BY DEF Typed, TypeOK
  <2>2. IsSequence(NoOverlay.sets)
    BY Empty DEF NoOverlay
  <2>3. QED
    BY <2>1, <2>2, OverlayAssumption
<1>3. CASE i = 0
  <2>1. family.ops.ids \in Seq(Nat)
    <3>1. CASE phase \in {"overlay", "attach", "idle", "list"}
      <4>1. /\ msg \in Messages /\ IsSequence(msg.attrs) /\ OpsRead(family.ops)
            /\ \A j \in DOMAIN msg.attrs : j < next
        BY <3>1, AllOfIt
      <4>2. \A j \in Sent(msg, "ops") : msg.attrs[j].ids \in Seq(Nat)
        BY <4>1, MessageAssumption DEF Sent, ToSet
      <4>3. \A j \in Sent(msg, "ops") : family.ops.ids = msg.attrs[j].ids
        BY <4>1 DEF OpsRead, Sent
      <4>4. Sent(msg, "ops") = {} => family.ops.ids = << >>
        BY <4>1 DEF OpsRead
      <4>5. << >> \in Seq(Nat)
        OBVIOUS
      <4>6. QED
        BY <4>2, <4>3, <4>4, <4>5
    <3>2. CASE phase \notin {"overlay", "attach", "idle", "list"}
      <4>1. family = NoFamily
        BY <3>2 DEF Typed, TypeOK, PhaseOK, Phase
      <4>2. QED
        BY <4>1, Empty DEF NoOps
    <3>3. QED
      BY <3>1, <3>2
  <2>2. PICK p, q : /\ p = [j \in DOMAIN family.ops.ids |-> OperationPlan(family.ops.ids[j])]
                    /\ q = [j \in DOMAIN family.groups.list |-> GroupPlan(family.groups.list[j])]
    OBVIOUS
  <2>3. Plans(i) = p \o q
    BY <1>3, <2>2 DEF Plans, FamilyPlans
  <2>4. IsSequence(p)
    <3>1. PICK n \in Nat : n = Len(family.ops.ids) /\ DOMAIN family.ops.ids = 1 .. n
      BY <2>1
    <3>2. QED
      BY <2>2, <3>1, GivenIsSequence
  <2>5. IsSequence(q)
    <3>1. PICK n \in Nat : n = Len(family.groups.list) /\ DOMAIN family.groups.list = 1 .. n
      BY <1>1 DEF IsSequence
    <3>2. QED
      BY <2>2, <3>1, GivenIsSequence
  <2>6. IsSequence(p \o q)
    BY <2>4, <2>5, Joined
  <2>7. QED
    BY <2>3, <2>6 DEF IsSequence
<1>4. CASE i # 0
  <2>1. CASE family.kids[i].kind = "operation"
    <3>1. PICK set : set = OpAttrSet(family.overlay, family.kids[i].name, msg.ethtool)
      OBVIOUS
    <3>2. set = << >> \/ IsSequence(set[1].attrs)
      <4>1. \A s \in ToSet(family.overlay.sets) : IsSequence(s.attrs)
        <5>1. family.overlay \in Overlays \cup {NoOverlay}
          BY DEF Typed, TypeOK
        <5>2. QED
          BY <5>1, OverlayAssumption DEF NoOverlay, ToSet
      <4>2. QED
        BY <1>2, <3>1, <4>1, OpAttrSetFinds
    <3>3. PICK named : named = NamedOf(set)
      OBVIOUS
    <3>4. IsSequence(named)
      BY <3>2, <3>3, NamedIsSequence
    <3>5. Plans(i) = [j \in DOMAIN named |-> Plan("attribute", named[j].id, named[j].name,
                                                set[1].name, named[j].docs)]
      BY <1>4, <2>1, <3>1, <3>3 DEF Plans, AttributePlans
    <3>6. DOMAIN named = 1 .. Len(named) /\ Len(named) \in Nat
      BY <3>4 DEF IsSequence
    <3>7. QED
      BY <3>5, <3>6 DEF IsSequence, ToSet
  <2>2. CASE family.kids[i].kind # "operation"
    <3>1. Plans(i) = << >>
      BY <1>4, <2>2 DEF Plans
    <3>2. QED
      BY <3>1 DEF IsSequence
  <2>3. QED
    BY <2>1, <2>2
<1>5. QED
  BY <1>3, <1>4

\* What is to be listed under an object is a matter of the message and the
\* overlay, of the kind and the name of the object.
LEMMA PlansStay ==
  ASSUME msg' = msg, family'.overlay = family.overlay, family'.ops = family.ops,
         family'.groups = family.groups, NEW i,
         i # 0 => /\ family'.kids[i].kind = family.kids[i].kind
                  /\ family'.kids[i].name = family.kids[i].name
  PROVE  Plans(i)' = Plans(i)
<1>1. CASE i = 0
  BY <1>1 DEF Plans, FamilyPlans, OperationPlan, GroupPlan
<1>2. CASE i # 0
  BY <1>2 DEF Plans, AttributePlans
<1>3. QED
  BY <1>1, <1>2

\* One more object is made, of the next plan.
LEMMA OneMoreMade ==
  ASSUME NEW kids, IsSequence(kids), NEW plans, NEW n \in Nat, LastMade(kids, plans, n),
         NEW node, MadeOf(node, plans[n + 1])
  PROVE  LastMade(Append(kids, node), plans, n + 1)
<1>1. Len(kids) \in Nat /\ kids \in Seq(ToSet(kids))
  BY DEF IsSequence
<1>2. PICK l \in Nat : l = Len(kids)
  BY <1>1
<1>3. PICK more : more = Append(kids, node)
  OBVIOUS
<1>4. Len(more) = l + 1 /\ more[l + 1] = node /\ \A i \in 1 .. l : more[i] = kids[i]
  BY <1>1, <1>2, <1>3
<1>5. n <= l /\ \A j \in 1 .. n : MadeOf(kids[l - n + j], plans[j])
  BY <1>2 DEF LastMade
<1>6. ASSUME NEW j \in 1 .. n + 1 PROVE MadeOf(more[l + 1 - (n + 1) + j], plans[j])
  <2>1. CASE j = n + 1
    <3>1. l + 1 - (n + 1) + j = l + 1
      BY <1>5, <2>1
    <3>2. QED
      BY <1>4, <2>1, <3>1
  <2>2. CASE j # n + 1
    <3>1. j \in 1 .. n /\ l + 1 - (n + 1) + j = l - n + j /\ l - n + j \in 1 .. l
      BY <1>5, <2>2
    <3>2. more[l - n + j] = kids[l - n + j]
      BY <1>4, <3>1
    <3>3. QED
      BY <1>5, <3>1, <3>2
  <2>3. QED
    BY <2>1, <2>2
<1>7. n + 1 <= l + 1
  BY <1>5
<1>8. n + 1 <= Len(more) /\ \A j \in 1 .. n + 1 : MadeOf(more[Len(more) - (n + 1) + j], plans[j])
  BY <1>4, <1>6, <1>7
<1>9. QED
  BY <1>3, <1>8 DEF LastMade

\* Objects that differ in nothing but their own children are made of the same.
LEMMA SameMade ==
  ASSUME NEW kids, NEW others, Len(others) = Len(kids), Len(kids) \in Nat,
         \A i \in 1 .. Len(kids) : /\ others[i].kind = kids[i].kind /\ others[i].id = kids[i].id
                                   /\ others[i].name = kids[i].name /\ others[i].set = kids[i].set,
         NEW plans, NEW n \in Nat, LastMade(kids, plans, n)
  PROVE  LastMade(others, plans, n)
<1>1. n <= Len(kids) /\ \A j \in 1 .. n : MadeOf(kids[Len(kids) - n + j], plans[j])
  BY DEF LastMade
<1>2. ASSUME NEW j \in 1 .. n PROVE MadeOf(others[Len(others) - n + j], plans[j])
  <2>1. PICK l \in Nat : l = Len(kids) /\ l = Len(others)
    OBVIOUS
  <2>2. PICK i : i = l - n + j
    OBVIOUS
  <2>3. n <= l
    BY <1>1, <2>1
  <2>4. i \in 1 .. l
    BY <2>2, <2>3
  <2>5. MadeOf(kids[i], plans[j])
    BY <1>1, <2>1, <2>2
  <2>6. QED
    BY <2>1, <2>2, <2>4, <2>5 DEF MadeOf
<1>3. QED
  BY <1>1, <1>2 DEF LastMade

\* A family without children has listed nothing.
LEMMA NothingListed ==
  ASSUME family'.kids = << >>, family'.populated = FALSE, phase' # "list"
  PROVE  ListingOK'
<1>1. \A i \in 0 .. Len(family'.kids) : i = 0
  BY Empty
<1>2. Kids(0)' = << >> /\ Populated(0)' = FALSE
  BY DEF Kids, Populated
<1>3. QED
  BY <1>1, <1>2 DEF ListingOK

\* Of the listing in progress it only counts what has been appended.
LEMMA ListingStays ==
  ASSUME Typed, ListingOK, UNCHANGED <<msg, family>>,
         \/ UNCHANGED <<phase, todo, onto>>
         \/ phase' \notin {"overlay", "attach", "list"}
         \/ phase = "overlay" /\ phase' = "attach"
  PROVE  ListingOK'
<1>1. \A i : Plans(i)' = Plans(i) /\ Kids(i)' = Kids(i) /\ Populated(i)' = Populated(i)
  BY PlansStay DEF Kids, Populated
<1>2. \A i \in 0 .. Len(family'.kids) :
        /\ Populated(i)' => LastMade(Kids(i)', Plans(i)', Len(Plans(i)'))
        /\ Plans(i)' = << >> => Kids(i)' = << >>
  BY <1>1 DEF ListingOK
<1>3. phase' \in {"overlay", "attach"} => family'.kids = << >> /\ ~family'.populated
  BY DEF ListingOK
<1>4. CASE UNCHANGED <<phase, todo, onto>>
  BY <1>1, <1>2, <1>3, <1>4 DEF ListingOK
<1>5. CASE phase' # "list"
  BY <1>2, <1>3, <1>5 DEF ListingOK
<1>6. QED
  BY <1>4, <1>5

\* The children of an object are a sequence, too.
LEMMA KidsTyped ==
  ASSUME Typed, NEW i \in 0 .. Len(family.kids)
  PROVE  IsSequence(Kids(i))
<1>1. IsSequence(family.kids) /\ \A kid \in ToSet(family.kids) : ObjectShape(kid)
  BY DEF Typed, FamilyShape
<1>2. CASE i = 0
  BY <1>1, <1>2 DEF Kids
<1>3. CASE i # 0
  <2>1. i \in DOMAIN family.kids
    BY <1>1, <1>3 DEF IsSequence
  <2>2. ObjectShape(family.kids[i])
    BY <1>1, <2>1 DEF ToSet
  <2>3. QED
    BY <1>3, <2>2 DEF ObjectShape, Kids
<1>4. QED
  BY <1>2, <1>3

\* A listing begins with all of it to be done.
LEMMA ListListed ==
  ASSUME Typed, MessageRead, ListingOK, NEW i \in 0 .. Len(family.kids), List(i)
  PROVE  ListingOK'
<1>1. /\ UNCHANGED <<msg, family>> /\ phase' = "list" /\ ~Populated(i)
      /\ todo' = Plans(i) /\ onto' = i
  BY DEF List, parser
<1>2. \A k : Plans(k)' = Plans(k) /\ Kids(k)' = Kids(k) /\ Populated(k)' = Populated(k)
  BY <1>1, PlansStay DEF Kids, Populated
<1>3. \A k \in 0 .. Len(family'.kids) :
        /\ Populated(k)' => LastMade(Kids(k)', Plans(k)', Len(Plans(k)'))
        /\ Plans(k)' = << >> => Kids(k)' = << >>
  BY <1>1, <1>2 DEF ListingOK
<1>4. IsSequence(Plans(i)) /\ Len(Plans(i)) \in Nat
  BY PlansTyped
<1>5. PICK plans : plans = Plans(i) /\ IsSequence(plans) /\ Len(plans) \in Nat
  BY <1>4
<1>6. plans = SubSeq(plans, 0 + 1, Len(plans)) /\ 0 \in 0 .. Len(plans)
  BY <1>5 DEF IsSequence
<1>7. PICK kids : kids = Kids(i) /\ Len(kids) \in Nat
  <2>1. IsSequence(Kids(i))
    BY KidsTyped
  <2>2. QED
    BY <2>1 DEF IsSequence
<1>8. LastMade(kids, plans, 0)
  BY <1>7 DEF LastMade
<1>9. Plans(i)' = plans /\ Kids(i)' = kids /\ ~Populated(i)'
  BY <1>1, <1>2, <1>5, <1>7
<1>10. (/\ ~Populated(onto)
        /\ \E n \in 0 .. Len(Plans(onto)) :
             /\ todo = SubSeq(Plans(onto), n + 1, Len(Plans(onto)))
             /\ LastMade(Kids(onto), Plans(onto), n))'
  <2>1. Plans(onto)' = plans /\ Kids(onto)' = kids /\ ~Populated(onto)' /\ todo' = plans
    BY <1>1, <1>5, <1>9 DEF Plans, Kids, Populated
  <2>2. QED
    BY <1>6, <1>8, <2>1
<1>11. QED
  BY <1>1, <1>3, <1>10 DEF ListingOK

\* Where a listing in progress is.
LEMMA InTheListing ==
  ASSUME Typed, MessageRead, ListingOK, phase = "list"
  PROVE  /\ onto \in 0 .. Len(family.kids) /\ ~Populated(onto)
         /\ IsSequence(Kids(onto)) /\ Len(family.kids) \in Nat /\ IsSequence(family.kids)
         /\ \E n \in Nat : /\ n <= Len(Plans(onto)) /\ LastMade(Kids(onto), Plans(onto), n)
                           /\ (todo = << >> <=> n = Len(Plans(onto)))
                           /\ todo # << >> =>
                                /\ Head(todo) = Plans(onto)[n + 1] /\ n + 1 <= Len(Plans(onto))
                                /\ Tail(todo) = SubSeq(Plans(onto), n + 2, Len(Plans(onto)))
<1>1. onto \in 0 .. Len(family.kids) /\ IsSequence(family.kids) /\ Len(family.kids) \in Nat
  BY DEF Typed, TypeOK, FamilyShape, IsSequence
<1>2. IsSequence(Plans(onto)) /\ Len(Plans(onto)) \in Nat
  BY <1>1, PlansTyped
<1>9. PICK S : Plans(onto) \in Seq(S)
  BY <1>2 DEF IsSequence
<1>3. PICK plans \in Seq(S) : plans = Plans(onto)
  BY <1>9
<1>4. PICK n \in 0 .. Len(plans) : /\ todo = SubSeq(plans, n + 1, Len(plans))
                                  /\ LastMade(Kids(onto), plans, n)
  BY <1>3 DEF ListingOK
<1>5. todo = << >> <=> n = Len(plans)
  <2>1. Len(plans) \in Nat /\ n \in Nat /\ n <= Len(plans)
    BY <1>3, <1>4
  <2>2. CASE n = Len(plans)
    <3>1. SubSeq(plans, Len(plans) + 1, Len(plans)) = << >>
      BY <1>3, <2>1
    <3>2. QED
      BY <1>4, <2>2, <3>1
  <2>3. CASE n # Len(plans)
    <3>1. n + 1 \in Int /\ Len(plans) \in Int /\ n + 1 <= Len(plans) /\ 1 <= n + 1
      BY <2>1, <2>3
    <3>2. \A i \in n + 1 .. Len(plans) : plans[i] \in S
      BY <1>3, <3>1, <2>1
    <3>3. Len(SubSeq(plans, n + 1, Len(plans))) = Len(plans) - (n + 1) + 1
      BY <3>1, <3>2, SubSeqProperties
    <3>4. Len(SubSeq(plans, n + 1, Len(plans))) # 0
      <4>1. \A a, b \in Nat : a + 1 <= b => b - (a + 1) + 1 # 0
        OBVIOUS
      <4>2. Len(plans) - (n + 1) + 1 # 0
        BY <2>1, <3>1, <4>1
      <4>3. QED
        BY ONLY <3>3, <4>2
    <3>5. SubSeq(plans, n + 1, Len(plans)) # << >>
      BY <3>4, Empty
    <3>6. QED
      BY <1>4, <2>3, <3>5
  <2>4. QED
    BY <2>2, <2>3
<1>6. ASSUME n # Len(plans)
      PROVE  Head(todo) = plans[n + 1] /\ Tail(todo) = SubSeq(plans, n + 2, Len(plans))
  <2>1. Len(plans) \in Nat /\ n + 1 \in 1 .. Len(plans) /\ Len(plans) \in n + 1 .. Len(plans)
        /\ n + 1 + 1 = n + 2
    BY <1>3, <1>4, <1>6
  <2>2. /\ Head(SubSeq(plans, n + 1, Len(plans))) = plans[n + 1]
        /\ Tail(SubSeq(plans, n + 1, Len(plans))) = SubSeq(plans, n + 1 + 1, Len(plans))
    BY <1>3, <2>1, HeadTailOfSubSeq
  <2>3. QED
    BY <1>4, <2>1, <2>2
<1>7. IsSequence(Kids(onto)) /\ ~Populated(onto)
  BY <1>1, KidsTyped DEF ListingOK
<1>8. n \in Nat /\ n <= Len(plans) /\ (n # Len(plans) => n + 1 <= Len(plans))
  BY <1>3, <1>4
<1>10. /\ n <= Len(Plans(onto)) /\ LastMade(Kids(onto), Plans(onto), n)
       /\ (todo = << >> <=> n = Len(Plans(onto)))
       /\ todo # << >> => /\ Head(todo) = Plans(onto)[n + 1] /\ n + 1 <= Len(Plans(onto))
                          /\ Tail(todo) = SubSeq(Plans(onto), n + 2, Len(Plans(onto)))
  BY <1>3, <1>4, <1>5, <1>6, <1>8
<1>11. QED
  BY <1>1, <1>7, <1>8, <1>10

\* append_child to the family: one more of its children is made.
LEMMA FamilyGrows ==
  ASSUME Typed, MessageRead, ListingOK, AppendNode, onto = 0
  PROVE  ListingOK'
<1>1. /\ UNCHANGED <<phase, msg, onto>> /\ phase = "list" /\ todo # << >> /\ todo' = Tail(todo)
      /\ family' = [family EXCEPT !.kids = Append(@, MadeNode)]
  BY DEF AppendNode, Making, parser
<1>2. PICK node : node = MadeNode
  OBVIOUS
<1>3. /\ IsSequence(family.kids) /\ Len(family.kids) \in Nat /\ ~family.populated
      /\ \E n \in Nat : /\ n + 1 <= Len(Plans(0)) /\ LastMade(family.kids, Plans(0), n)
                        /\ Head(todo) = Plans(0)[n + 1]
                        /\ Tail(todo) = SubSeq(Plans(0), n + 2, Len(Plans(0)))
  <2>1. Populated(0) = family.populated /\ Kids(0) = family.kids
    BY DEF Populated, Kids
  <2>2. Len(Plans(0)) \in Nat
    BY InTheListing, PlansTyped, <1>1
  <2>3. QED
    BY <1>1, <2>1, <2>2, InTheListing
<1>4. PICK n \in Nat : /\ n + 1 <= Len(Plans(0)) /\ LastMade(family.kids, Plans(0), n)
                      /\ Head(todo) = Plans(0)[n + 1]
                      /\ Tail(todo) = SubSeq(Plans(0), n + 2, Len(Plans(0)))
  BY <1>3
<1>5. PICK l \in Nat : l = Len(family.kids)
  BY <1>3
<1>6. /\ family'.kids = Append(family.kids, node) /\ family'.populated = family.populated
      /\ family'.overlay = family.overlay /\ family'.ops = family.ops
      /\ family'.groups = family.groups
  BY <1>1, <1>2 DEF Typed, FamilyShape, NoFamily
<1>7. /\ Len(family'.kids) = l + 1 /\ family'.kids[l + 1] = node
      /\ \A i \in 1 .. l : family'.kids[i] = family.kids[i]
  BY <1>3, <1>5, <1>6 DEF IsSequence
<1>8. node.kids = << >> /\ node.populated = FALSE /\ MadeOf(node, Head(todo))
  BY <1>2 DEF MadeNode, MadeOf
<1>9. LastMade(family'.kids, Plans(0), n + 1)
  BY <1>3, <1>4, <1>6, <1>8, OneMoreMade
<1>10. Plans(0)' = Plans(0) /\ Kids(0)' = family'.kids /\ ~Populated(0)'
  <2>1. Plans(0)' = Plans(0)
    BY <1>1, <1>6, PlansStay
  <2>2. QED
    BY <1>3, <1>6, <2>1 DEF Kids, Populated
<1>11. ASSUME NEW i \in 1 .. l
       PROVE  /\ Populated(i)' => LastMade(Kids(i)', Plans(i)', Len(Plans(i)'))
              /\ Plans(i)' = << >> => Kids(i)' = << >>
  <2>1. i # 0 /\ i \in 0 .. Len(family.kids) /\ family'.kids[i] = family.kids[i]
    BY <1>5, <1>7, <1>11
  <2>2. Plans(i)' = Plans(i)
    BY <1>1, <1>6, <2>1, PlansStay
  <2>3. Kids(i)' = Kids(i) /\ Populated(i)' = Populated(i)
    BY <2>1 DEF Kids, Populated
  <2>4. QED
    BY <2>1, <2>2, <2>3 DEF ListingOK
<1>12. Kids(l + 1)' = << >> /\ ~Populated(l + 1)'
  BY <1>7, <1>8 DEF Kids, Populated
<1>13. Plans(0) # << >>
  BY <1>4, Empty
<1>14. \A i \in 0 .. Len(family'.kids) :
         /\ Populated(i)' => LastMade(Kids(i)', Plans(i)', Len(Plans(i)'))
         /\ Plans(i)' = << >> => Kids(i)' = << >>
  <2>1. \A i \in 0 .. Len(family'.kids) : i = 0 \/ i \in 1 .. l \/ i = l + 1
    BY <1>7
  <2>2. QED
    BY <1>10, <1>11, <1>12, <1>13, <2>1
<1>15. (/\ ~Populated(onto)
        /\ \E k \in 0 .. Len(Plans(onto)) :
             /\ todo = SubSeq(Plans(onto), k + 1, Len(Plans(onto)))
             /\ LastMade(Kids(onto), Plans(onto), k))'
  <2>1. Plans(onto)' = Plans(0) /\ Kids(onto)' = family'.kids /\ ~Populated(onto)'
    BY <1>1, <1>10 DEF Plans, Kids, Populated
  <2>2. Len(Plans(0)) \in Nat
    BY InTheListing, PlansTyped, <1>1
  <2>3. n + 1 \in 0 .. Len(Plans(0)) /\ (n + 1) + 1 = n + 2
    BY <1>4, <2>2
  <2>4. todo' = SubSeq(Plans(0), (n + 1) + 1, Len(Plans(0)))
    BY <1>1, <1>4, <2>3
  <2>5. QED
    BY <1>9, <2>1, <2>3, <2>4
<1>16. QED
  BY <1>1, <1>14, <1>15 DEF ListingOK

\* A child of the family that gets children, or has all of them, is still the
\* same child for the family and nothing to the other children.
LEMMA KidChanges ==
  ASSUME Typed, MessageRead, ListingOK, msg' = msg, NEW c \in DOMAIN family.kids, NEW new,
         new.kind = family.kids[c].kind, new.id = family.kids[c].id,
         new.name = family.kids[c].name, new.set = family.kids[c].set,
         family'.kids = [family.kids EXCEPT ![c] = new], family'.populated = family.populated,
         family'.overlay = family.overlay, family'.ops = family.ops,
         family'.groups = family.groups
  PROVE  /\ Len(family'.kids) = Len(family.kids) /\ family'.kids[c] = new /\ c # 0
         /\ \A i \in 0 .. Len(family'.kids) : Plans(i)' = Plans(i)
         /\ \A i \in 0 .. Len(family'.kids) :
              i # c => /\ Populated(i)' => LastMade(Kids(i)', Plans(i)', Len(Plans(i)'))
                       /\ Plans(i)' = << >> => Kids(i)' = << >>
<1>1. PICK l \in Nat : l = Len(family.kids) /\ DOMAIN family.kids = 1 .. l
  BY DEF Typed, FamilyShape, IsSequence
<1>2. Len(family'.kids) = l /\ l = Len(family.kids)
  <2>1. IsSequence(family.kids)
    BY DEF Typed, FamilyShape
  <2>2. QED
    BY <1>1, <2>1, OneChanged
<1>3. c \in 1 .. l /\ family'.kids[c] = new
      /\ \A i \in 1 .. l : i # c => family'.kids[i] = family.kids[i]
  BY <1>1
<1>4. \A i \in 1 .. l : /\ family'.kids[i].kind = family.kids[i].kind
                        /\ family'.kids[i].id = family.kids[i].id
                        /\ family'.kids[i].name = family.kids[i].name
                        /\ family'.kids[i].set = family.kids[i].set
  BY <1>3
<1>5. \A i \in 0 .. l : Plans(i)' = Plans(i)
  <2>1. ASSUME NEW i \in 0 .. l PROVE Plans(i)' = Plans(i)
    <3>1. i # 0 => /\ family'.kids[i].kind = family.kids[i].kind
                   /\ family'.kids[i].name = family.kids[i].name
      BY <1>4
    <3>2. QED
      BY <3>1, PlansStay
  <2>2. QED
    BY <2>1
<1>6. /\ Populated(0)' => LastMade(Kids(0)', Plans(0)', Len(Plans(0)'))
      /\ Plans(0)' = << >> => Kids(0)' = << >>
  <2>1. /\ Populated(0)' = Populated(0) /\ Kids(0) = family.kids /\ Kids(0)' = family'.kids
        /\ 0 \in 0 .. Len(family.kids)
    BY <1>1 DEF Populated, Kids
  <2>2. PICK plans : plans = Plans(0)
    OBVIOUS
  <2>3. plans # << >> /\ Plans(0)' = plans
    <3>1. Plans(0) = << >> => family.kids = << >>
      BY <2>1 DEF ListingOK
    <3>2. family.kids # << >>
      BY Empty
    <3>3. QED
      BY <1>5, <2>2, <3>1, <3>2
  <2>4. ASSUME Populated(0) PROVE LastMade(family'.kids, plans, Len(plans))
    <3>1. LastMade(family.kids, plans, Len(plans))
      BY <2>1, <2>2, <2>4 DEF ListingOK
    <3>2. Len(plans) \in Nat
      BY <2>1, <2>2, PlansTyped
    <3>3. QED
      BY <1>1, <1>2, <1>4, <3>1, <3>2, SameMade
  <2>5. QED
    BY <2>1, <2>3, <2>4
<1>7. ASSUME NEW i \in 1 .. l, i # c
      PROVE  /\ Populated(i)' => LastMade(Kids(i)', Plans(i)', Len(Plans(i)'))
             /\ Plans(i)' = << >> => Kids(i)' = << >>
  <2>1. i # 0 /\ i \in 0 .. Len(family.kids) /\ family'.kids[i] = family.kids[i]
    BY <1>1, <1>3, <1>7
  <2>2. Plans(i)' = Plans(i)
    BY <1>5, <1>1, <2>1
  <2>3. Kids(i)' = Kids(i) /\ Populated(i)' = Populated(i)
    BY <2>1 DEF Kids, Populated
  <2>4. QED
    BY <2>1, <2>2, <2>3 DEF ListingOK
<1>8. QED
  <2>1. \A i \in 0 .. l : i = 0 \/ i \in 1 .. l
    OBVIOUS
  <2>2. \A i \in 0 .. Len(family'.kids) :
          i # c => /\ Populated(i)' => LastMade(Kids(i)', Plans(i)', Len(Plans(i)'))
                   /\ Plans(i)' = << >> => Kids(i)' = << >>
    BY <1>2, <1>6, <1>7, <2>1
  <2>3. QED
    BY <1>2, <1>3, <1>5, <2>2

\* append_child to an operation: one more of its attributes is made.
LEMMA OperationGrows ==
  ASSUME Typed, MessageRead, ListingOK, AppendNode, onto # 0
  PROVE  ListingOK'
<1>1. /\ UNCHANGED <<phase, msg, onto>> /\ phase = "list" /\ todo # << >> /\ todo' = Tail(todo)
      /\ family' = [family EXCEPT !.kids[onto].kids = Append(@, MadeNode)]
  BY DEF AppendNode, Making, parser
<1>2. PICK node : node = MadeNode
  OBVIOUS
<1>3. PICK c : c = onto
  OBVIOUS
<1>4. c # 0 /\ c \in DOMAIN family.kids
  BY <1>1, <1>3, InTheListing DEF IsSequence
<1>5. PICK old : old = family.kids[c]
  OBVIOUS
<1>6. PICK new : new = [old EXCEPT !.kids = Append(@, node)]
  OBVIOUS
<1>7. ObjectShape(old)
  BY <1>4, <1>5 DEF Typed, FamilyShape, ToSet
<1>8. /\ new.kids = Append(old.kids, node) /\ new.populated = old.populated
      /\ new.kind = old.kind /\ new.id = old.id /\ new.name = old.name /\ new.set = old.set
  BY <1>6, <1>7 DEF ObjectShape
<1>9. /\ family'.kids = [family.kids EXCEPT ![c] = new] /\ family'.populated = family.populated
      /\ family'.overlay = family.overlay /\ family'.ops = family.ops
      /\ family'.groups = family.groups
  BY <1>1, <1>2, <1>3, <1>4, <1>5, <1>6 DEF Typed, FamilyShape, NoFamily
<1>10. /\ Len(family'.kids) = Len(family.kids) /\ family'.kids[c] = new
       /\ \A i \in 0 .. Len(family'.kids) : Plans(i)' = Plans(i)
       /\ \A i \in 0 .. Len(family'.kids) :
            i # c => /\ Populated(i)' => LastMade(Kids(i)', Plans(i)', Len(Plans(i)'))
                     /\ Plans(i)' = << >> => Kids(i)' = << >>
  <2>1. /\ msg' = msg /\ c \in DOMAIN family.kids
        /\ new.kind = family.kids[c].kind /\ new.id = family.kids[c].id
        /\ new.name = family.kids[c].name /\ new.set = family.kids[c].set
    BY <1>1, <1>4, <1>5, <1>8
  <2>2. QED
    BY <2>1, <1>9, KidChanges
<1>11. /\ c \in 0 .. Len(family.kids) /\ ~Populated(c) /\ Kids(c) = old.kids
       /\ Populated(c) = old.populated /\ IsSequence(old.kids)
  BY <1>1, <1>3, <1>4, <1>5, <1>7, InTheListing DEF Kids, Populated, ObjectShape
<1>12. PICK plans : plans = Plans(c)
  OBVIOUS
<1>13. PICK n \in Nat : /\ n + 1 <= Len(plans) /\ LastMade(old.kids, plans, n)
                       /\ Head(todo) = plans[n + 1]
                       /\ Tail(todo) = SubSeq(plans, n + 2, Len(plans))
  <2>1. Len(plans) \in Nat
    BY <1>11, <1>12, PlansTyped
  <2>2. QED
    BY <1>1, <1>3, <1>11, <1>12, <2>1, InTheListing
<1>14. LastMade(new.kids, plans, n + 1)
  <2>1. MadeOf(node, Head(todo))
    BY <1>2 DEF MadeNode, MadeOf
  <2>2. QED
    BY <1>8, <1>11, <1>13, <2>1, OneMoreMade
<1>15. Plans(c)' = plans /\ Kids(c)' = new.kids /\ ~Populated(c)' /\ plans # << >>
  <2>1. Plans(c)' = plans
    BY <1>10, <1>11, <1>12
  <2>2. plans # << >>
    BY <1>13, Empty
  <2>3. Kids(c)' = new.kids /\ ~Populated(c)'
    BY <1>4, <1>8, <1>10, <1>11 DEF Kids, Populated
  <2>4. QED
    BY <2>1, <2>2, <2>3
<1>16. \A i \in 0 .. Len(family'.kids) :
         /\ Populated(i)' => LastMade(Kids(i)', Plans(i)', Len(Plans(i)'))
         /\ Plans(i)' = << >> => Kids(i)' = << >>
  BY <1>10, <1>15
<1>17. (/\ ~Populated(onto)
        /\ \E k \in 0 .. Len(Plans(onto)) :
             /\ todo = SubSeq(Plans(onto), k + 1, Len(Plans(onto)))
             /\ LastMade(Kids(onto), Plans(onto), k))'
  <2>1. Plans(onto)' = plans /\ Kids(onto)' = new.kids /\ ~Populated(onto)'
    BY <1>1, <1>3, <1>15 DEF Plans, Kids, Populated
  <2>2. Len(plans) \in Nat
    BY <1>11, <1>12, PlansTyped
  <2>3. n + 1 \in 0 .. Len(plans) /\ (n + 1) + 1 = n + 2
    BY <1>13, <2>2
  <2>4. todo' = SubSeq(plans, (n + 1) + 1, Len(plans))
    BY <1>1, <1>13, <2>3
  <2>5. QED
    BY <1>14, <2>1, <2>3, <2>4
<1>18. QED
  BY <1>1, <1>16, <1>17 DEF ListingOK

\* A listing with nothing left to do has appended everything.
LEMMA ListedListed ==
  ASSUME Typed, MessageRead, ListingOK, Listed
  PROVE  ListingOK'
<1>1. /\ msg' = msg /\ phase = "list" /\ phase' = "idle" /\ todo = << >>
      /\ family' = IF onto = 0 THEN [family EXCEPT !.populated = TRUE]
                   ELSE [family EXCEPT !.kids[onto].populated = TRUE]
  BY DEF Listed, parser
<1>2. PICK c : c = onto
  OBVIOUS
<1>3. /\ c \in 0 .. Len(family.kids) /\ IsSequence(family.kids) /\ Len(family.kids) \in Nat
      /\ LastMade(Kids(c), Plans(c), Len(Plans(c)))
  BY <1>1, <1>2, InTheListing
<1>4. CASE c = 0
  <2>1. /\ family'.kids = family.kids /\ family'.overlay = family.overlay
        /\ family'.ops = family.ops /\ family'.groups = family.groups
    BY <1>1, <1>2, <1>4 DEF Typed, FamilyShape, NoFamily
  <2>2. \A i : Plans(i)' = Plans(i) /\ Kids(i)' = Kids(i)
    BY <1>1, <2>1, PlansStay DEF Kids
  <2>3. \A i : i # 0 => Populated(i)' = Populated(i)
    BY <2>1 DEF Populated
  <2>4. \A i \in 0 .. Len(family'.kids) :
          /\ Populated(i)' => LastMade(Kids(i)', Plans(i)', Len(Plans(i)'))
          /\ Plans(i)' = << >> => Kids(i)' = << >>
    BY <1>3, <1>4, <2>1, <2>2, <2>3 DEF ListingOK
  <2>5. QED
    BY <1>1, <2>4 DEF ListingOK
<1>5. CASE c # 0
  <2>1. c \in DOMAIN family.kids
    BY <1>3, <1>5 DEF IsSequence
  <2>2. PICK old : old = family.kids[c]
    OBVIOUS
  <2>3. PICK new : new = [old EXCEPT !.populated = TRUE]
    OBVIOUS
  <2>4. ObjectShape(old)
    BY <2>1, <2>2 DEF Typed, FamilyShape, ToSet
  <2>5. /\ new.kids = old.kids /\ new.kind = old.kind /\ new.id = old.id
        /\ new.name = old.name /\ new.set = old.set
    BY <2>3, <2>4 DEF ObjectShape
  <2>6. /\ family'.kids = [family.kids EXCEPT ![c] = new]
        /\ family'.populated = family.populated
        /\ family'.overlay = family.overlay /\ family'.ops = family.ops
        /\ family'.groups = family.groups
    BY <1>1, <1>2, <1>5, <2>1, <2>2, <2>3 DEF Typed, FamilyShape, NoFamily
  <2>7. /\ Len(family'.kids) = Len(family.kids) /\ family'.kids[c] = new
        /\ \A i \in 0 .. Len(family'.kids) : Plans(i)' = Plans(i)
        /\ \A i \in 0 .. Len(family'.kids) :
             i # c => /\ Populated(i)' => LastMade(Kids(i)', Plans(i)', Len(Plans(i)'))
                      /\ Plans(i)' = << >> => Kids(i)' = << >>
    <3>1. /\ msg' = msg /\ c \in DOMAIN family.kids
          /\ new.kind = family.kids[c].kind /\ new.id = family.kids[c].id
          /\ new.name = family.kids[c].name /\ new.set = family.kids[c].set
      BY <1>1, <2>1, <2>2, <2>5
    <3>2. QED
      BY <3>1, <2>6, KidChanges
  <2>8. Kids(c)' = Kids(c)
    BY <1>5, <2>2, <2>5, <2>7 DEF Kids
  <2>9. Plans(c)' = Plans(c) /\ (Plans(c) = << >> => Kids(c) = << >>)
    BY <1>3, <2>7 DEF ListingOK
  <2>10. \A i \in 0 .. Len(family'.kids) :
          /\ Populated(i)' => LastMade(Kids(i)', Plans(i)', Len(Plans(i)'))
          /\ Plans(i)' = << >> => Kids(i)' = << >>
    BY <1>3, <2>7, <2>8, <2>9
  <2>11. QED
    BY <1>1, <2>10 DEF ListingOK
<1>6. QED
  BY <1>4, <1>5

\* Until a family is attached there is none, or none with children.
LEMMA NoneListed ==
  ASSUME Typed, ListingOK, phase' # "list",
         \/ family' = NoFamily \/ HandOver \/ LoadOverlay
         \/ phase \in {"start", "parse", "groups", "create"} /\ family' = family
  PROVE  ListingOK'
<1>1. family'.kids = << >> /\ family'.populated = FALSE
  <2>1. CASE family' = NoFamily
    BY <2>1, Empty
  <2>2. CASE HandOver
    <3>1. family' = [NoFamily EXCEPT !.blocks = built, !.ops = ops, !.groups = groups]
      BY <2>2 DEF HandOver
    <3>2. QED
      BY <3>1 DEF NoFamily
  <2>3. CASE LoadOverlay
    <3>1. phase = "overlay"
          /\ \E o : family' = [family EXCEPT !.overlay = o, !.overlayBlock = Fresh]
      BY <2>3 DEF LoadOverlay
    <3>2. family'.kids = family.kids /\ family'.populated = family.populated
      BY <3>1 DEF Typed, FamilyShape, NoFamily
    <3>3. family.kids = << >> /\ family.populated = FALSE
      BY <3>1 DEF ListingOK, Typed, TypeOK
    <3>4. QED
      BY <3>2, <3>3
  <2>4. CASE phase \in {"start", "parse", "groups", "create"} /\ family' = family
    BY <2>4, Empty DEF Typed, PhaseOK
  <2>5. QED
    BY <2>1, <2>2, <2>3, <2>4
<1>2. QED
  BY <1>1, NothingListed

\* No step loses track of a listing.
LEMMA ListingKept == Typed /\ MessageRead /\ ListingOK /\ [Next]_vars => ListingOK'
<1> SUFFICES ASSUME Typed, MessageRead, ListingOK, [Next]_vars PROVE ListingOK'
  OBVIOUS
<1>1. CASE Receive \/ Parse \/ AttachFails \/ Destroy \/ HandOver \/ LoadOverlay
  <2>1. phase' # "list"
    BY <1>1 DEF Receive, Parse, ReadPlain, ReadOps, OpsFail, ReadGroups, ReadGroupName, NextGroup,
                GroupsDone, GroupsFail, SkipFamily, BeginFamily, AttachFails, Destroy, HandOver,
                LoadOverlay, Return, AtAttr, InGroups, AllRead
  <2>2. \/ family' = NoFamily \/ HandOver \/ LoadOverlay
        \/ phase \in {"start", "parse", "groups", "create"} /\ family' = family
    BY <1>1 DEF Receive, Parse, ReadPlain, ReadOps, OpsFail, ReadGroups, ReadGroupName, NextGroup,
                GroupsDone, GroupsFail, SkipFamily, BeginFamily, AttachFails, Destroy, AtAttr,
                InGroups, AllRead
  <2>3. QED
    BY <2>1, <2>2, NoneListed
<1>2. CASE ConstructFails /\ phase = "create"
  <2>1. phase' # "list" /\ family' = family
    BY <1>2 DEF ConstructFails, Return
  <2>2. QED
    BY <1>2, <2>1, NoneListed
<1>3. CASE \/ Construct \/ WithoutOverlay \/ Attach \/ AppendFails \/ UNCHANGED vars
           \/ ConstructFails /\ phase # "create"
  <2>1. UNCHANGED <<msg, family>>
    BY <1>3 DEF Construct, WithoutOverlay, Attach, AppendFails, ConstructFails, vars, parser
  <2>2. \/ UNCHANGED <<phase, todo, onto>>
        \/ phase' \notin {"overlay", "attach", "list"}
        \/ phase = "overlay" /\ phase' = "attach"
    BY <1>3 DEF Construct, WithoutOverlay, Attach, AppendFails, ConstructFails, vars, maker
  <2>3. QED
    BY <2>1, <2>2, ListingStays
<1>4. CASE AppendNode
  BY <1>4, FamilyGrows, OperationGrows
<1>5. CASE Listed
  BY <1>5, ListedListed
<1>6. CASE \E i \in 0 .. Len(family.kids) : List(i)
  BY <1>6, ListListed
<1>7. QED
  BY <1>1, <1>2, <1>3, <1>4, <1>5, <1>6 DEF Next, Make

\* At the start nothing has been read or listed.
LEMMA InitSent == Init => MessageRead /\ ListingOK
<1> SUFFICES ASSUME Init PROVE MessageRead /\ ListingOK
  OBVIOUS
<1>1. phase = "start" /\ seen = {} /\ family = NoFamily
  BY DEF Init
<1>2. MessageRead
  BY <1>1 DEF MessageRead
<1>3. \A i \in 0 .. Len(family.kids) : i = 0
  BY <1>1, Empty
<1>4. Kids(0) = << >> /\ Populated(0) = FALSE
  BY <1>1, Empty DEF Kids, Populated
<1>5. ListingOK
  BY <1>1, <1>3, <1>4 DEF ListingOK
<1>6. QED
  BY <1>2, <1>5

\* The inductive invariant behind FamilyAsSent and AcceptedAsListed: what has
\* been read of a message is what it says, and a listing in progress has
\* appended what it no longer has to do.
THEOREM SentInductive == Spec => []SentInv
<1>1. Init => MessageRead /\ ListingOK
  BY InitSent
<1>2. FamilyInv /\ MessageRead /\ ListingOK /\ [Next]_vars => (MessageRead /\ ListingOK)'
  BY MessageKept, ListingKept DEF FamilyInv, Typed
<1>3. FamilyInv /\ MessageRead /\ ListingOK => SentInv
  BY DEF SentInv
<1>4. QED
  BY <1>1, <1>2, <1>3, FamilyInductive, PTL DEF Spec

-----------------------------------------------------------------------------
(* What a listing shows.                                                   *)

\* The end of a sequence, place by place.
LEMMA EndingAt ==
  ASSUME NEW s, IsSequence(s), NEW n \in Nat, n <= Len(s), NEW j \in 1 .. n
  PROVE  Ending(s, n)[j] = s[Len(s) - n + j]
<1>1. PICK l \in Nat : l = Len(s) /\ s \in Seq(ToSet(s))
  BY DEF IsSequence
<1>2. l - n + 1 \in Int /\ l \in Int /\ n <= l
  BY <1>1
<1>3. \A i \in l - n + 1 .. l : s[i] \in ToSet(s)
  BY <1>1, <1>2
<1>4. \A i \in 1 .. l - (l - n + 1) + 1 :
        SubSeq(s, l - n + 1, l)[i] = s[(l - n + 1) + i - 1]
  BY <1>2, <1>3, SubSeqProperties
<1>5. l - (l - n + 1) + 1 = n /\ (l - n + 1) + j - 1 = l - n + j
  BY <1>1
<1>6. SubSeq(s, l - n + 1, l)[j] = s[l - n + j]
  BY <1>4, <1>5
<1>7. QED
  BY <1>1, <1>6 DEF Ending

\* The operations the family holds are those the message sends.
LEMMA OpsAsSent ==
  ASSUME Typed, MessageRead, phase \in {"overlay", "attach", "idle", "list"}
  PROVE  family.ops.ids = SentIds /\ SentIds \in Seq(Nat)
<1>1. /\ msg \in Messages /\ IsSequence(msg.attrs) /\ \A i \in DOMAIN msg.attrs : i < next
      /\ OpsRead(family.ops)
  BY AllOfIt
<1>2. PICK parts : parts = [i \in DOMAIN msg.attrs |->
                              IF msg.attrs[i].type = "ops" THEN msg.attrs[i].ids ELSE << >>]
  OBVIOUS
<1>3. SentIds = FlattenSeq(parts)
  BY <1>2 DEF SentIds
<1>4. PICK n \in Nat : n = Len(msg.attrs) /\ DOMAIN msg.attrs = 1 .. n
  BY <1>1 DEF IsSequence
<1>5. Len(parts) = n /\ DOMAIN parts = 1 .. n /\ (n = 0 => parts = << >>)
  BY <1>2, <1>4
<1>6. CASE Sent(msg, "ops") = {}
  <2>1. \A i \in 1 .. n : parts[i] = << >>
    BY <1>2, <1>4, <1>6 DEF Sent
  <2>2. SentIds = << >>
    BY <1>3, <1>4, <1>5, <2>1, FlattenNone
  <2>3. QED
    BY <1>1, <1>6, <2>2 DEF OpsRead
<1>7. ASSUME NEW k \in Sent(msg, "ops") PROVE family.ops.ids = SentIds /\ SentIds \in Seq(Nat)
  <2>1. Sent(msg, "ops") = {k} /\ k \in 1 .. n
    BY <1>4, <1>7, OnlyOne DEF Sent
  <2>2. msg.attrs[k].type = "ops" /\ msg.attrs[k].ids \in Seq(Nat)
    BY <1>1, <1>4, <2>1, MessageAssumption DEF Sent, ToSet
  <2>3. parts[k] = msg.attrs[k].ids /\ \A i \in 1 .. n : i # k => parts[i] = << >>
    BY <1>2, <1>4, <2>1, <2>2 DEF Sent
  <2>4. SentIds = msg.attrs[k].ids
    BY <1>3, <1>4, <1>5, <2>1, <2>2, <2>3, FlattenOne
  <2>5. family.ops.ids = msg.attrs[k].ids
    BY <1>1, <1>4, <1>7, <2>1 DEF OpsRead
  <2>6. QED
    BY <2>2, <2>4, <2>5
<1>8. QED
  BY <1>6, <1>7

\* The groups, too, and each has the last of its names.
LEMMA GroupsAsSent ==
  ASSUME Typed, MessageRead, phase \in {"overlay", "attach", "idle", "list"}
  PROVE  /\ IsSequence(SentGroups) /\ DOMAIN family.groups.list = DOMAIN SentGroups
         /\ \A i \in DOMAIN SentGroups :
              /\ IsSequence(SentGroups[i].names)
              /\ Takes(family.groups.list[i], SentGroups[i], Len(SentGroups[i].names))
<1>1. /\ msg \in Messages /\ IsSequence(msg.attrs) /\ \A i \in DOMAIN msg.attrs : i < next
      /\ GroupsRead(family.groups)
  BY AllOfIt
<1>2. PICK parts : parts = [i \in DOMAIN msg.attrs |->
                              IF msg.attrs[i].type = "groups" THEN msg.attrs[i].list ELSE << >>]
  OBVIOUS
<1>3. SentGroups = FlattenSeq(parts)
  BY <1>2 DEF SentGroups
<1>4. PICK n \in Nat : n = Len(msg.attrs) /\ DOMAIN msg.attrs = 1 .. n
  BY <1>1 DEF IsSequence
<1>5. Len(parts) = n /\ DOMAIN parts = 1 .. n /\ (n = 0 => parts = << >>)
  BY <1>2, <1>4
<1>6. CASE Sent(msg, "groups") = {}
  <2>1. \A i \in 1 .. n : parts[i] = << >>
    BY <1>2, <1>4, <1>6 DEF Sent
  <2>2. SentGroups = << >>
    BY <1>3, <1>4, <1>5, <2>1, FlattenNone
  <2>3. family.groups.list = << >>
    BY <1>1, <1>6 DEF GroupsRead
  <2>4. QED
    BY <2>2, <2>3, Empty
<1>7. ASSUME NEW k \in Sent(msg, "groups")
      PROVE  /\ IsSequence(SentGroups) /\ DOMAIN family.groups.list = DOMAIN SentGroups
             /\ \A i \in DOMAIN SentGroups :
                  /\ IsSequence(SentGroups[i].names)
                  /\ Takes(family.groups.list[i], SentGroups[i], Len(SentGroups[i].names))
  <2>1. Sent(msg, "groups") = {k} /\ k \in 1 .. n
    BY <1>4, <1>7, OnlyOne DEF Sent
  <2>2. PICK list : list = msg.attrs[k].list
    OBVIOUS
  <2>3. /\ msg.attrs[k].type = "groups" /\ IsSequence(list)
        /\ \A i \in DOMAIN list : IsSequence(list[i].names)
    <3>1. msg.attrs[k] \in ToSet(msg.attrs) /\ msg.attrs[k].type = "groups"
      BY <1>4, <2>1 DEF Sent, ToSet
    <3>2. IsSequence(list) /\ \A g \in ToSet(list) : IsSequence(g.names)
      BY <1>1, <2>2, <3>1, MessageAssumption
    <3>3. QED
      BY <3>1, <3>2 DEF ToSet
  <2>4. parts[k] = list /\ \A i \in 1 .. n : i # k => parts[i] = << >>
    BY <1>2, <1>4, <2>1, <2>2, <2>3 DEF Sent
  <2>5. list \in Seq(ToSet(list))
    BY <2>3 DEF IsSequence
  <2>6. SentGroups = list
    <3>1. Len(parts) \in Nat /\ k \in 1 .. Len(parts) /\ parts[k] \in Seq(ToSet(list))
          /\ \A i \in 1 .. Len(parts) : i # k => parts[i] = << >>
      BY <1>4, <1>5, <2>1, <2>4, <2>5
    <3>2. FlattenSeq(parts) = parts[k]
      BY <3>1, FlattenOne
    <3>3. QED
      BY <1>3, <2>4, <3>2
  <2>7. /\ DOMAIN family.groups.list = DOMAIN list
        /\ \A i \in DOMAIN family.groups.list :
             Takes(family.groups.list[i], list[i], Len(list[i].names))
    BY <1>1, <1>4, <1>7, <2>1, <2>2 DEF GroupsRead
  <2>8. QED
    BY <2>3, <2>6, <2>7
<1>8. QED
  BY <1>6, <1>7

\* The plans of a family are its operations and then its groups, as sent.
LEMMA PlansAsSent ==
  ASSUME Typed, MessageRead, phase \in {"overlay", "attach", "idle", "list"}
  PROVE  /\ Len(SentIds) \in Nat /\ DOMAIN SentIds = 1 .. Len(SentIds)
         /\ Len(SentGroups) \in Nat /\ DOMAIN SentGroups = 1 .. Len(SentGroups)
         /\ Len(Plans(0)) = Len(SentIds) + Len(SentGroups)
         /\ \A i \in 1 .. Len(SentIds) : Plans(0)[i] = OperationPlan(SentIds[i])
         /\ \A i \in 1 .. Len(SentGroups) :
              Plans(0)[Len(SentIds) + i] = GroupPlan(family.groups.list[i])
<1>1. PICK a, b : a = SentIds /\ b = SentGroups
  OBVIOUS
<1>2. PICK m \in Nat : m = Len(a) /\ DOMAIN a = 1 .. m
  BY <1>1, OpsAsSent
<1>3. PICK n \in Nat : n = Len(b) /\ DOMAIN b = 1 .. n
  BY <1>1, GroupsAsSent DEF IsSequence
<1>4. PICK p, q : /\ p = [i \in 1 .. m |-> OperationPlan(a[i])]
                  /\ q = [i \in 1 .. n |-> GroupPlan(family.groups.list[i])]
  OBVIOUS
<1>5. Plans(0) = p \o q
  <2>1. family.ops.ids = a /\ DOMAIN family.groups.list = DOMAIN b
    BY <1>1, OpsAsSent, GroupsAsSent
  <2>2. FamilyPlans = p \o q
    BY <1>2, <1>3, <1>4, <2>1 DEF FamilyPlans
  <2>3. QED
    BY <2>2 DEF Plans
<1>6. IsSequence(p) /\ Len(p) = m /\ IsSequence(q) /\ Len(q) = n
  BY <1>4, GivenIsSequence
<1>7. /\ Len(p \o q) = m + n
      /\ \A i \in 1 .. m : (p \o q)[i] = OperationPlan(a[i])
      /\ \A i \in 1 .. n : (p \o q)[m + i] = GroupPlan(family.groups.list[i])
  BY <1>4, <1>6, Joined
<1>8. QED
  BY <1>1, <1>2, <1>3, <1>5, <1>7

\* An object made of the plan of an operation is called as the overlay calls it.
LEMMA CalledAsPlanned ==
  ASSUME Typed, NEW op, NEW id, MadeOf(op, OperationPlan(id))
  PROVE  Called(op, id)
<1>1. IsSequence(family.overlay.ops)
  <2>1. family.overlay \in Overlays \cup {NoOverlay}
    BY DEF Typed, TypeOK
  <2>2. IsSequence(NoOverlay.ops)
    BY Empty DEF NoOverlay
  <2>3. QED
    BY <2>1, <2>2, OverlayAssumption
<1>2. PICK found : found = FindOp(family.overlay, id)
  OBVIOUS
<1>3. op.kind = "operation" /\ op.id = id /\ op.name = Name(found)
  BY <1>2 DEF MadeOf, OperationPlan, Plan
<1>4. PICK entries : entries = {o \in ToSet(family.overlay.ops) : o.id = id}
  OBVIOUS
<1>5. IF entries = {} THEN found = << >> ELSE \E o \in entries : found = <<o>>
  BY <1>1, <1>2, <1>4, FindOpFinds
<1>6. IF entries = {} THEN op.name = NoName ELSE \E o \in entries : o.name = op.name
  BY <1>3, <1>5 DEF Name
<1>7. QED
  BY <1>3, <1>4, <1>6 DEF Called

\* An object made of the plan of a group has the last name the group was sent.
LEMMA NamedAsPlanned ==
  ASSUME NEW group, NEW g, NEW sent, IsSequence(sent.names), MadeOf(group, GroupPlan(g)),
         Takes(g, sent, Len(sent.names))
  PROVE  Named(group, sent)
<1>1. /\ group.kind = "group" /\ group.id = g.id
      /\ group.name = IF g.name = EmptyText THEN NoName ELSE g.name
  BY DEF MadeOf, GroupPlan, Plan
<1>2. g.id = sent.id /\ g.name = IF Len(sent.names) = 0 THEN NoName ELSE Last(sent.names)
  BY DEF Takes, Last
<1>3. Len(sent.names) = 0 <=> sent.names = << >>
  BY DEF IsSequence
<1>4. QED
  BY <1>1, <1>2, <1>3 DEF Named

\* A complete listing of the family shows the message.
LEMMA ListedAsSent ==
  ASSUME Typed, MessageRead, ListingOK, phase = "idle", family.populated
  PROVE  LET n == Len(SentIds) + Len(SentGroups)
             kids == Ending(family.kids, n)
         IN  /\ Len(family.kids) >= n
             /\ \A i \in DOMAIN SentIds : Called(kids[i], SentIds[i])
             /\ \A i \in DOMAIN SentGroups : Named(kids[Len(SentIds) + i], SentGroups[i])
<1>1. PICK a, b : a = SentIds /\ b = SentGroups
  OBVIOUS
<1>2. PICK m \in Nat, n \in Nat : m = Len(a) /\ n = Len(b) /\ DOMAIN a = 1 .. m /\ DOMAIN b = 1 .. n
  BY <1>1, PlansAsSent
<1>3. PICK plans : plans = Plans(0)
  OBVIOUS
<1>4. /\ Len(plans) = m + n
      /\ \A i \in 1 .. m : plans[i] = OperationPlan(a[i])
      /\ \A i \in 1 .. n : plans[m + i] = GroupPlan(family.groups.list[i])
  BY <1>1, <1>2, <1>3, PlansAsSent
<1>5. PICK l \in Nat : l = Len(family.kids) /\ IsSequence(family.kids)
  BY DEF Typed, FamilyShape, IsSequence
<1>6. m + n <= l /\ \A j \in 1 .. m + n : MadeOf(family.kids[l - (m + n) + j], plans[j])
  <2>1. LastMade(family.kids, plans, m + n)
    BY <1>3, <1>4, <1>5 DEF ListingOK, Populated, Kids
  <2>2. QED
    BY <1>5, <2>1 DEF LastMade
<1>7. PICK kids : kids = Ending(family.kids, m + n)
  OBVIOUS
<1>8. \A j \in 1 .. m + n : MadeOf(kids[j], plans[j])
  <2>1. m + n \in Nat /\ m + n <= Len(family.kids)
    BY <1>5, <1>6
  <2>2. \A j \in 1 .. m + n : kids[j] = family.kids[l - (m + n) + j]
    BY <1>5, <1>7, <2>1, EndingAt
  <2>3. QED
    BY <1>6, <2>2
<1>9. ASSUME NEW i \in 1 .. m PROVE Called(kids[i], a[i])
  <2>1. i \in 1 .. m + n
    OBVIOUS
  <2>2. MadeOf(kids[i], OperationPlan(a[i]))
    BY <1>4, <1>8, <2>1
  <2>3. QED
    BY <2>2, CalledAsPlanned
<1>10. ASSUME NEW i \in 1 .. n PROVE Named(kids[m + i], b[i])
  <2>1. m + i \in 1 .. m + n
    OBVIOUS
  <2>2. MadeOf(kids[m + i], GroupPlan(family.groups.list[i]))
    BY <1>4, <1>8, <2>1
  <2>3. IsSequence(b[i].names) /\ Takes(family.groups.list[i], b[i], Len(b[i].names))
    BY <1>1, <1>2, GroupsAsSent
  <2>4. QED
    BY <2>2, <2>3, NamedAsPlanned
<1>11. QED
  BY <1>1, <1>2, <1>5, <1>6, <1>7, <1>9, <1>10

\* A complete listing of an operation shows what its invoke packs.
LEMMA ListedAsAccepted ==
  ASSUME Typed, MessageRead, ListingOK
  PROVE  AcceptedAsListed
<1> SUFFICES ASSUME NEW c \in DOMAIN family.kids, family.kids[c].kind = "operation",
                    family.kids[c].populated, ~msg.ethtool
             PROVE  LET op == family.kids[c]
                        accepted == InvokeSet(family.overlay, op.name)
                        packed == NamedOf(accepted)
                        kids == Ending(op.kids, Len(packed))
                    IN  /\ Len(op.kids) >= Len(packed) /\ (packed = << >> => op.kids = << >>)
                        /\ \A j \in DOMAIN packed : /\ kids[j].name = packed[j].name
                                                    /\ kids[j].id = packed[j].id
                                                    /\ kids[j].set = accepted[1].name
  BY DEF AcceptedAsListed
<1>1. c # 0 /\ c \in 0 .. Len(family.kids)
  BY DEF Typed, FamilyShape, IsSequence
<1>2. PICK op : op = family.kids[c]
  OBVIOUS
<1>3. PICK accepted : accepted = InvokeSet(family.overlay, op.name)
  OBVIOUS
<1>4. PICK packed : packed = NamedOf(accepted)
  OBVIOUS
<1>5. accepted = OpAttrSet(family.overlay, op.name, msg.ethtool)
  BY <1>3, SameSearch
<1>6. PICK plans : plans = Plans(c)
  OBVIOUS
<1>7. plans = [j \in DOMAIN packed |-> Plan("attribute", packed[j].id, packed[j].name,
                                           accepted[1].name, packed[j].docs)]
  BY <1>1, <1>2, <1>4, <1>5, <1>6 DEF Plans, AttributePlans
<1>8. PICK n \in Nat : DOMAIN packed = 1 .. n /\ Len(packed) = n
  <2>1. accepted = << >> \/ IsSequence(accepted[1].attrs)
    <3>1. family.overlay \in Overlays \cup {NoOverlay}
      BY DEF Typed, TypeOK
    <3>2. /\ IsSequence(family.overlay.sets)
          /\ \A s \in ToSet(family.overlay.sets) : IsSequence(s.attrs)
      BY <3>1, Empty, OverlayAssumption DEF NoOverlay
    <3>3. QED
      BY <1>5, <3>2, OpAttrSetFinds
  <2>2. IsSequence(packed)
    BY <1>4, <2>1, NamedIsSequence
  <2>3. QED
    BY <2>2 DEF IsSequence
<1>9. Len(plans) = n /\ (n = 0 => plans = << >>)
  BY <1>7, <1>8
<1>10. IsSequence(op.kids) /\ LastMade(op.kids, plans, n) /\ (plans = << >> => op.kids = << >>)
  <2>1. Kids(c) = op.kids /\ Populated(c)
    BY <1>1, <1>2 DEF Kids, Populated
  <2>2. QED
    BY <1>1, <1>6, <1>9, <2>1, KidsTyped DEF ListingOK
<1>11. PICK kids : kids = Ending(op.kids, n)
  OBVIOUS
<1>12. n <= Len(op.kids) /\ Len(op.kids) >= n
  BY <1>10 DEF LastMade, IsSequence
<1>13. ASSUME NEW j \in 1 .. n
       PROVE  /\ kids[j].name = packed[j].name /\ kids[j].id = packed[j].id
              /\ kids[j].set = accepted[1].name
  <2>1. kids[j] = op.kids[Len(op.kids) - n + j]
    BY <1>10, <1>11, <1>12, EndingAt
  <2>2. MadeOf(kids[j], plans[j])
    BY <1>10, <2>1 DEF LastMade
  <2>3. plans[j] = Plan("attribute", packed[j].id, packed[j].name, accepted[1].name, packed[j].docs)
    BY <1>7, <1>8
  <2>4. QED
    BY <2>2, <2>3 DEF MadeOf, Plan
<1>14. packed = << >> => op.kids = << >>
  BY <1>8, <1>9, <1>10, Empty
<1>15. QED
  BY <1>2, <1>3, <1>4, <1>8, <1>11, <1>12, <1>13, <1>14

\* Only a message with a name and an id becomes a family, and the children of
\* a listed family end with the operations and groups of the message, complete
\* and in its order, each under its own name (parse_ops_attr, parse_mcast_attr,
\* fam_populate_children), whichever listing failed before.
THEOREM ListsWhatWasSent == Spec => []FamilyAsSent
<1>1. SentInv => FamilyAsSent
  <2> SUFFICES ASSUME Typed, MessageRead, ListingOK, phase = "idle"
               PROVE  /\ \A type \in {"name", "id"} : \E i \in Sent(msg, type) : msg.attrs[i].ok
                      /\ family.populated =>
                           LET n == Len(SentIds) + Len(SentGroups)
                               kids == Ending(family.kids, n)
                           IN  /\ Len(family.kids) >= n
                               /\ \A i \in DOMAIN SentIds : Called(kids[i], SentIds[i])
                               /\ \A i \in DOMAIN SentGroups :
                                    Named(kids[Len(SentIds) + i], SentGroups[i])
    BY DEF SentInv, FamilyInv, Typed, FamilyAsSent
  <2>1. \A type \in {"name", "id"} : \E i \in Sent(msg, type) : msg.attrs[i].ok
    BY DEF MessageRead, Complete
  <2>2. QED
    BY <2>1, ListedAsSent
<1>2. QED
  BY <1>1, SentInductive, PTL

\* For any metadata, what browsing an operation of a family other than ethtool
\* lists and what its invoke packs are the same attributes under the same ids: the
\* set op_populate_children finds is the one invoke_generic_genl finds for itself.
THEOREM ListsWhatIsAccepted == Spec => []AcceptedAsListed
<1>1. SentInv => AcceptedAsListed
  BY ListedAsAccepted DEF SentInv, FamilyInv, Typed
<1>2. QED
  BY <1>1, SentInductive, PTL
=============================================================================
