---------------------------- MODULE FamilyBuild ----------------------------
(***************************************************************************)
(* A family message of the CTRL_CMD_GETFAMILY dump becomes a family object *)
(* (genl-namespace.c: process_family_msg), and the family, when asked for  *)
(* its children, operations and multicast groups, the operations their     *)
(* attributes (genl-family.c, genl-operation.c, genl-attribute.c,          *)
(* genl-mcast-group.c).                                                    *)
(*                                                                         *)
(* What is kept is who owns which block of memory at every step between an *)
(* allocation and the hand-over to its last owner, with every allocation   *)
(* able to fail.  A constructor allocates its object, then a copy of each  *)
(* text it is given; children arrays belong to the object tree and are no  *)
(* blocks here.  An overlay is one block.                                  *)
(*                                                                         *)
(* A message is [ethtool, attrs], attrs a sequence of                      *)
(*   [type |-> "name" or "id", ok]  ok: its length is acceptable           *)
(*   [type |-> "ops", ids]          0 for an entry without an id           *)
(*   [type |-> "groups", list]      of [id, names]: a name may be repeated *)
(*   [type |-> "other"]                                                    *)
(***************************************************************************)
EXTENDS AttrSets, FiniteSets, FiniteSetsExt

CONSTANTS Block,     \* addresses malloc hands out
          Messages,  \* family messages the kernel may send
          Overlays,  \* metadata the family's file may hold
          MaxLists,  \* bound on the get_children calls on one family's objects
          MayFail    \* whether allocations can fail

NoBlock == 0
EmptyText == <<"">>

Sent(m, type) == {i \in DOMAIN m.attrs : m.attrs[i].type = type}

IsSequence(s) == s \in Seq(ToSet(s))

ASSUME BlockAssumption == IsFiniteSet(Block) /\ Block \subseteq Nat \ {NoBlock}
ASSUME MessageAssumption ==
  \A m \in Messages :
    /\ IsSequence(m.attrs)
    /\ \A a \in ToSet(m.attrs) :
         /\ a.type \in {"name", "id", "ops", "groups", "other"}
         /\ a.type = "ops" => a.ids \in Seq(Nat)
         /\ a.type = "groups" =>
              IsSequence(a.list) /\ \A g \in ToSet(a.list) : g.id \in Nat /\ IsSequence(g.names)
\* The kernel sends each nested list at most once.
ASSUME ListAssumption ==
  \A m \in Messages : \A type \in {"ops", "groups"} : \A i, j \in Sent(m, type) : i = j
\* Names in an overlay come from C enumerators: no two of a set are the same.
ASSUME OverlayAssumption ==
  \A o \in Overlays :
    /\ IsSequence(o.ops) /\ IsSequence(o.sets)
    /\ \A s \in ToSet(o.sets) :
         /\ s.name # NoName /\ IsSequence(s.attrs)
         /\ \A i, j \in DOMAIN s.attrs : s.attrs[i].name = s.attrs[j].name => i = j
ASSUME LimitAssumption == MaxLists \in Nat /\ MayFail \in BOOLEAN

VARIABLES live,     \* blocks allocated and not freed
          phase,    \* where the call in progress is
          msg,      \* the message being processed, or the family was made from
          next,     \* its attribute to look at next
          seen,     \* have_name, have_id
          ops,      \* local ops: its block and the ids in it
          groups,   \* local grps, also while parse_mcast_attr fills it
          entry,    \* entry of the groups being parsed, and its next name
          todo,     \* objects still to be constructed, the current one first
          built,    \* blocks of the object under construction
          onto,     \* parent of what is constructed: 0 the family, i its child i
          family,   \* the family object
          lists     \* get_children calls so far

parser == <<msg, next, seen, ops, groups, entry>>
maker == <<todo, built, onto>>
vars == <<live, phase, parser, maker, family, lists>>

NoOps == [block |-> NoBlock, ids |-> << >>]
NoGroups == [block |-> NoBlock, list |-> << >>]
NoFamily == [blocks |-> << >>, ops |-> NoOps, groups |-> NoGroups, overlay |-> NoOverlay,
             overlayBlock |-> NoBlock, kids |-> << >>, populated |-> FALSE]
NoMessage == [ethtool |-> FALSE, attrs |-> << >>]

Init == /\ live = {} /\ phase = "start"
        /\ msg = NoMessage /\ next = 1 /\ seen = {}
        /\ ops = NoOps /\ groups = NoGroups /\ entry = <<1, 1>>
        /\ todo = << >> /\ built = << >> /\ onto = 0
        /\ family = NoFamily /\ lists = 0

-----------------------------------------------------------------------------
(* Memory.                                                                 *)

Fresh == CHOOSE b \in Block : b \notin live
Allocate == Block \ live # {} /\ live' = live \cup {Fresh}
Free(blocks) == live' = live \ blocks

\* free(NULL) does nothing.
OpsBlocks(o) == {o.block} \ {NoBlock}
NameBlocks(g) == {g.list[i].block : i \in DOMAIN g.list} \ {NoBlock}
GroupsBlocks(g) == ({g.block} \ {NoBlock}) \cup NameBlocks(g)

\* An object's own blocks and those of its children.
NodeBlocks(n) == ToSet(n.blocks) \cup UNION {ToSet(n.kids[j].blocks) : j \in DOMAIN n.kids}
KidsBlocks(f) == UNION {NodeBlocks(f.kids[i]) : i \in DOMAIN f.kids}

\* What destroying a family frees: fam_destroy_impl and its children's.
FamilyBlocks(f) ==
  ToSet(f.blocks) \cup OpsBlocks(f.ops) \cup GroupsBlocks(f.groups)
    \cup ({f.overlayBlock} \ {NoBlock}) \cup KidsBlocks(f)

-----------------------------------------------------------------------------
(* process_family_msg: the attributes of the message.                      *)

Return == /\ phase' = "start"
          /\ msg' = NoMessage /\ next' = 1 /\ seen' = {}
          /\ ops' = NoOps /\ groups' = NoGroups /\ entry' = <<1, 1>>
          /\ todo' = << >> /\ built' = << >> /\ onto' = 0

Receive == /\ phase = "start"
           /\ msg' \in Messages
           /\ phase' = "parse"
           /\ UNCHANGED <<live, next, seen, ops, groups, entry, maker, family, lists>>

Attr == msg.attrs[next]
AtAttr(types) == phase = "parse" /\ next <= Len(msg.attrs) /\ Attr.type \in types

\* A name or an id of the wrong length is passed over like an unknown attribute.
ReadPlain ==
  /\ AtAttr({"name", "id", "other"})
  /\ seen' = IF Attr.type # "other" /\ Attr.ok THEN seen \cup {Attr.type} ELSE seen
  /\ next' = next + 1
  /\ UNCHANGED <<live, phase, msg, ops, groups, entry, maker, family, lists>>

\* parse_ops_attr allocates one array, none for an empty list.
ReadOps ==
  /\ AtAttr({"ops"})
  /\ IF Attr.ids = << >> THEN UNCHANGED <<live, ops>>
     ELSE Allocate /\ ops' = [block |-> Fresh, ids |-> Attr.ids]
  /\ next' = next + 1
  /\ UNCHANGED <<phase, msg, seen, groups, entry, maker, family, lists>>

\* Mutant: the groups read before are not freed.
OpsFailKeepsGroups ==
  /\ AtAttr({"ops"}) /\ Attr.ids # << >> /\ MayFail
  /\ Return
  /\ UNCHANGED <<live, family, lists>>

OpsFail ==
  /\ AtAttr({"ops"}) /\ Attr.ids # << >> /\ MayFail
  /\ Free(GroupsBlocks(groups))
  /\ Return
  /\ UNCHANGED <<family, lists>>

\* parse_mcast_attr: the array first, all names NULL.
ReadGroups ==
  /\ AtAttr({"groups"})
  /\ IF Attr.list = << >>
     THEN next' = next + 1 /\ UNCHANGED <<live, phase, groups>>
     ELSE /\ Allocate
          /\ groups' = [block |-> Fresh,
                        list |-> [i \in DOMAIN Attr.list |->
                                    [id |-> Attr.list[i].id, name |-> NoName, block |-> NoBlock]]]
          /\ phase' = "groups" /\ UNCHANGED next
  /\ entry' = <<1, 1>>
  /\ UNCHANGED <<msg, seen, ops, maker, family, lists>>

Current == entry[1]
InGroups == phase = "groups" /\ Current <= Len(Attr.list)
NameLeft == entry[2] <= Len(Attr.list[Current].names)

\* A copy of the name replaces the one this entry may have already.
ReadGroupName ==
  /\ InGroups /\ NameLeft
  /\ Block \ live # {}
  /\ live' = (live \cup {Fresh}) \ {groups.list[Current].block}
  /\ groups' = [groups EXCEPT !.list[Current].name = Attr.list[Current].names[entry[2]],
                              !.list[Current].block = Fresh]
  /\ entry' = <<Current, entry[2] + 1>>
  /\ UNCHANGED <<phase, msg, next, seen, ops, maker, family, lists>>

NextGroup ==
  /\ InGroups /\ ~NameLeft
  /\ entry' = <<Current + 1, 1>>
  /\ UNCHANGED <<live, phase, msg, next, seen, ops, groups, maker, family, lists>>

\* Mutant: the walk advances twice, in the parser and after it.
GroupsDoneTwice ==
  /\ phase = "groups" /\ Current > Len(Attr.list)
  /\ phase' = "parse"
  /\ next' = next + 2
  /\ UNCHANGED <<live, msg, seen, ops, groups, entry, maker, family, lists>>

GroupsDone ==
  /\ phase = "groups" /\ Current > Len(Attr.list)
  /\ phase' = "parse"
  /\ next' = next + 1
  /\ UNCHANGED <<live, msg, seen, ops, groups, entry, maker, family, lists>>

\* The array or a name: what parse_mcast_attr has built is freed there, the
\* operations by its caller.
GroupsFail ==
  /\ \/ AtAttr({"groups"}) /\ Attr.list # << >>
     \/ InGroups /\ NameLeft
  /\ MayFail
  /\ Free(GroupsBlocks(groups) \cup OpsBlocks(ops))
  /\ Return
  /\ UNCHANGED <<family, lists>>

AllRead == phase = "parse" /\ next > Len(msg.attrs)
Complete == seen = {"name", "id"}

\* Without a name or an id the message is passed over.
SkipFamily ==
  /\ AllRead /\ ~Complete
  /\ Free(OpsBlocks(ops) \cup GroupsBlocks(groups))
  /\ Return
  /\ UNCHANGED <<family, lists>>

-----------------------------------------------------------------------------
(* Constructors: an object is [kind, id, name, set, docs] before it is     *)
(* made; docs counts the other texts it copies.                            *)

Plan(kind, id, name, set, docs) ==
  [kind |-> kind, id |-> id, name |-> name, set |-> set, docs |-> docs]

Texts(plan) == (IF plan.name = NoName THEN 0 ELSE 1) + (IF plan.set = NoName THEN 0 ELSE 1)
               + plan.docs

BeginFamily ==
  /\ AllRead /\ Complete
  /\ todo' = <<Plan("family", 0, <<"family">>, NoName, 0)>>
  /\ onto' = 0 /\ built' = << >>
  /\ phase' = "create"
  /\ UNCHANGED <<live, parser, family, lists>>

Making == phase \in {"create", "list"} /\ todo # << >>
Made == Len(built) = 1 + Texts(Head(todo))

\* The calloc of the object, then one strdup for each text that is not NULL.
Construct ==
  /\ Making /\ ~Made
  /\ Allocate
  /\ built' = Append(built, Fresh)
  /\ UNCHANGED <<phase, parser, todo, onto, family, lists>>

\* The constructor frees what it has; process_family_msg its two arrays, a
\* populate_children stops, and the children appended before stay.
ConstructFails ==
  /\ Making /\ ~Made /\ MayFail
  /\ IF phase = "create"
     THEN Free(ToSet(built) \cup OpsBlocks(ops) \cup GroupsBlocks(groups)) /\ Return
     ELSE /\ Free(ToSet(built))
          /\ phase' = "idle" /\ todo' = << >> /\ built' = << >> /\ onto' = 0
          /\ UNCHANGED parser
  /\ UNCHANGED <<family, lists>>

\* set_ops and set_mcast_groups: the arrays are the family's from now on.
HandOver ==
  /\ phase = "create" /\ Made
  /\ family' = [NoFamily EXCEPT !.blocks = built, !.ops = ops, !.groups = groups]
  /\ ops' = NoOps /\ groups' = NoGroups
  /\ todo' = << >> /\ built' = << >>
  /\ phase' = "overlay"
  /\ UNCHANGED <<live, msg, next, seen, entry, onto, lists>>

LoadOverlay ==
  /\ phase = "overlay"
  /\ Allocate
  /\ \E o \in Overlays : family' = [family EXCEPT !.overlay = o, !.overlayBlock = Fresh]
  /\ phase' = "attach"
  /\ UNCHANGED <<parser, maker, lists>>

\* There is no overlay, or it cannot be loaded: the family does without.
WithoutOverlay ==
  /\ phase = "overlay"
  /\ phase' = "attach"
  /\ UNCHANGED <<live, parser, maker, family, lists>>

Attach ==
  /\ phase = "attach"
  /\ phase' = "idle"
  /\ UNCHANGED <<live, parser, maker, family, lists>>

AttachFails ==
  /\ phase = "attach" /\ MayFail
  /\ Free(FamilyBlocks(family))
  /\ family' = NoFamily
  /\ Return
  /\ UNCHANGED lists

-----------------------------------------------------------------------------
(* populate_children of the family and of its operations.                  *)

Name(found) == IF found = << >> THEN NoName ELSE found[1].name
Docs(found) == IF found = << >> THEN 0 ELSE found[1].docs

OperationPlan(id) ==
  LET found == FindOp(family.overlay, id)
  IN  Plan("operation", id, Name(found), NoName, Docs(found))

\* The overlay names no group; an empty name is as good as none.
GroupPlan(g) ==
  Plan("group", g.id, IF g.name = EmptyText THEN NoName ELSE g.name, NoName,
       Docs(FindMcast(family.overlay, g.name)))

\* fam_populate_children
FamilyPlans == [i \in DOMAIN family.ops.ids |-> OperationPlan(family.ops.ids[i])]
               \o [i \in DOMAIN family.groups.list |-> GroupPlan(family.groups.list[i])]

\* op_populate_children passes over entries without a name.
NamedOf(set) ==
  IF set = << >> THEN << >>
  ELSE FlattenSeq([i \in DOMAIN set[1].attrs |->
                     IF set[1].attrs[i].name = NoName THEN << >> ELSE <<set[1].attrs[i]>>])

AttributePlans(op) ==
  LET set == OpAttrSet(family.overlay, op.name, msg.ethtool)
      named == NamedOf(set)
  IN  [i \in DOMAIN named |-> Plan("attribute", named[i].id, named[i].name, set[1].name,
                                   named[i].docs)]

\* A group has no children.
Plans(i) == IF i = 0 THEN FamilyPlans
            ELSE IF family.kids[i].kind = "operation" THEN AttributePlans(family.kids[i])
            ELSE << >>

Populated(i) == IF i = 0 THEN family.populated ELSE family.kids[i].populated

List(i) ==
  /\ phase = "idle" /\ ~Populated(i)
  /\ lists < MaxLists
  /\ todo' = Plans(i)
  /\ onto' = i
  /\ phase' = "list"
  /\ lists' = lists + 1
  /\ UNCHANGED <<live, parser, built, family>>

MadeNode ==
  LET plan == Head(todo)
  IN  [kind |-> plan.kind, id |-> plan.id, name |-> plan.name, set |-> plan.set,
       blocks |-> built, kids |-> << >>, populated |-> FALSE]

AppendNode ==
  /\ phase = "list" /\ Making /\ Made
  /\ family' = IF onto = 0 THEN [family EXCEPT !.kids = Append(@, MadeNode)]
               ELSE [family EXCEPT !.kids[onto].kids = Append(@, MadeNode)]
  /\ todo' = Tail(todo) /\ built' = << >>
  /\ UNCHANGED <<live, phase, parser, onto, lists>>

\* append_child fails: the new object is destroyed.
AppendFails ==
  /\ phase = "list" /\ Making /\ Made /\ MayFail
  /\ Free(ToSet(built))
  /\ phase' = "idle" /\ todo' = << >> /\ built' = << >> /\ onto' = 0
  /\ UNCHANGED <<parser, family, lists>>

Listed ==
  /\ phase = "list" /\ todo = << >>
  /\ family' = IF onto = 0 THEN [family EXCEPT !.populated = TRUE]
               ELSE [family EXCEPT !.kids[onto].populated = TRUE]
  /\ phase' = "idle" /\ onto' = 0
  /\ UNCHANGED <<live, parser, todo, built, lists>>

\* The namespace is refreshed or destroyed.
Destroy ==
  /\ phase = "idle"
  /\ Free(FamilyBlocks(family))
  /\ family' = NoFamily /\ lists' = 0
  /\ Return

-----------------------------------------------------------------------------
Parse == \/ ReadPlain \/ ReadOps \/ OpsFail
         \/ ReadGroups \/ ReadGroupName \/ NextGroup \/ GroupsDone \/ GroupsFail
         \/ SkipFamily \/ BeginFamily

Make == \/ Construct \/ ConstructFails
        \/ HandOver \/ LoadOverlay \/ WithoutOverlay \/ Attach \/ AttachFails
        \/ AppendNode \/ AppendFails \/ Listed

Next == Receive \/ Parse \/ Make \/ Destroy \/ \E i \in 0 .. Len(family.kids) : List(i)

Spec == Init /\ [][Next]_vars

-----------------------------------------------------------------------------
(* Properties.                                                             *)

Phase == {"start", "parse", "groups", "create", "overlay", "attach", "idle", "list"}

\* Every variable keeps its type.
TypeOK ==
  /\ live \subseteq Block
  /\ phase \in Phase
  /\ msg \in Messages \cup {NoMessage} /\ next \in 1 .. Len(msg.attrs) + 1
  /\ seen \subseteq {"name", "id"}
  /\ ops.block \in Block \cup {NoBlock} /\ groups.block \in Block \cup {NoBlock}
  /\ \A i \in DOMAIN groups.list : groups.list[i].block \in Block \cup {NoBlock}
  /\ built \in Seq(Block)
  /\ onto \in 0 .. Len(family.kids) /\ lists \in 0 .. MaxLists
  /\ family.overlay \in Overlays \cup {NoOverlay}
  /\ family.populated \in BOOLEAN

\* The pointers of each owner, as [at, block]: the parser's locals, the object
\* under construction, the family, its arrays, its overlay and its children.
Pointer(tag, i, j, k, block) == [at |-> <<tag, i, j, k>>, block |-> block]

ObjectPointers(tag, i, j, blocks) == {Pointer(tag, i, j, k, blocks[k]) : k \in DOMAIN blocks}
OpsPointers(tag, o) == {Pointer(tag, 0, 0, 0, o.block)}
GroupsPointers(tag, g) ==
  {Pointer(tag, 0, 0, 0, g.block)} \cup {Pointer(tag, i, 0, 0, g.list[i].block) : i \in DOMAIN g.list}
KidPointers(i, kid) ==
  ObjectPointers("kid", i, 0, kid.blocks) \cup
  UNION {ObjectPointers("kid", i, j, kid.kids[j].blocks) : j \in DOMAIN kid.kids}
FamilyPointers(f) ==
  ObjectPointers("family", 0, 0, f.blocks) \cup
  OpsPointers("family ops", f.ops) \cup GroupsPointers("family groups", f.groups) \cup
  {Pointer("overlay", 0, 0, 0, f.overlayBlock)} \cup
  UNION {KidPointers(i, f.kids[i]) : i \in DOMAIN f.kids}

Held(pointers) == {p \in pointers : p.block # NoBlock}

PointersOf(o, g, b, f) ==
  Held(OpsPointers("ops", o)) \cup Held(GroupsPointers("groups", g)) \cup
  ObjectPointers("built", 0, 0, b) \cup Held(FamilyPointers(f))
Pointers == PointersOf(ops, groups, built, family)

OwnedBy(P, blocks) == /\ {p.block : p \in P} = blocks
                      /\ \A p, q \in P : p.block = q.block => p.at = q.at

\* Whatever allocation fails, every block has exactly one owner: nothing leaks
\* and nothing is freed twice, from the arrays of the message to the texts of
\* the last attribute.
HeapOwned == OwnedBy(Pointers, live)

Ending(s, n) == SubSeq(s, Len(s) - n + 1, Len(s))

\* What the message lists, read off the message itself.
SentIds == FlattenSeq([i \in DOMAIN msg.attrs |->
                         IF msg.attrs[i].type = "ops" THEN msg.attrs[i].ids ELSE << >>])
SentGroups == FlattenSeq([i \in DOMAIN msg.attrs |->
                            IF msg.attrs[i].type = "groups" THEN msg.attrs[i].list ELSE << >>])

\* An operation is called as the overlay calls its id, or not at all.
Called(op, id) ==
  LET entries == {o \in ToSet(family.overlay.ops) : o.id = id}
  IN  op.kind = "operation" /\ op.id = id /\
      IF entries = {} THEN op.name = NoName ELSE \E o \in entries : op.name = o.name

\* A group has the last name the message gives it.
Named(group, sent) ==
  /\ group.kind = "group" /\ group.id = sent.id
  /\ group.name = IF sent.names = << >> \/ Last(sent.names) = EmptyText THEN NoName
                  ELSE Last(sent.names)

\* Only a message with a name and an id becomes a family, and the children of
\* a listed family end with its operations and then its groups, complete, in
\* the kernel's order, each under its own name, whatever failed before.
FamilyAsSent ==
  phase = "idle" =>
    /\ \A type \in {"name", "id"} : \E i \in Sent(msg, type) : msg.attrs[i].ok
    /\ family.populated =>
         LET n == Len(SentIds) + Len(SentGroups)
             kids == Ending(family.kids, n)
         IN  /\ Len(family.kids) >= n
             /\ \A i \in DOMAIN SentIds : Called(kids[i], SentIds[i])
             /\ \A i \in DOMAIN SentGroups : Named(kids[Len(SentIds) + i], SentGroups[i])

\* genl-operation.c:335: browsing an operation "reveals the names callers can
\* pass to --arg".  The attributes listed under an operation of a family that
\* is not ethtool are those its invoke packs, under the same ids, no more and
\* no less: two functions search for the set, and they find the same one.
AcceptedAsListed ==
  \A i \in DOMAIN family.kids :
    LET op == family.kids[i]
        accepted == InvokeSet(family.overlay, op.name)
        packed == NamedOf(accepted)
        kids == Ending(op.kids, Len(packed))
    IN  (op.kind = "operation" /\ op.populated /\ ~msg.ethtool) =>
          /\ Len(op.kids) >= Len(packed) /\ (packed = << >> => op.kids = << >>)
          /\ \A j \in DOMAIN packed : /\ kids[j].name = packed[j].name
                                      /\ kids[j].id = packed[j].id
                                      /\ kids[j].set = accepted[1].name

-----------------------------------------------------------------------------
(* The inductive invariant behind HeapOwned.                               *)

BlockOrNone == Block \cup {NoBlock}

OpsShape(o) == DOMAIN o = {"block", "ids"} /\ o.block \in BlockOrNone

GroupsShape(g) ==
  /\ DOMAIN g = {"block", "list"} /\ g.block \in BlockOrNone /\ IsSequence(g.list)
  /\ \A e \in ToSet(g.list) : DOMAIN e = {"id", "name", "block"} /\ e.block \in BlockOrNone

ObjectShape(n) ==
  /\ DOMAIN n = {"kind", "id", "name", "set", "blocks", "kids", "populated"}
  /\ n.blocks \in Seq(Block) /\ IsSequence(n.kids) /\ n.populated \in BOOLEAN

FamilyShape ==
  /\ DOMAIN family = DOMAIN NoFamily
  /\ family.blocks \in Seq(Block) /\ family.overlayBlock \in BlockOrNone
  /\ OpsShape(family.ops) /\ GroupsShape(family.groups) /\ IsSequence(family.kids)
  /\ \A kid \in ToSet(family.kids) :
       ObjectShape(kid) /\ \A sub \in ToSet(kid.kids) : ObjectShape(sub)

\* Who owns what in which phase: the parser's arrays are its own until they
\* are handed over, and each list is read once.
PhaseOK ==
  /\ phase \in {"start", "parse", "groups", "create"} => family = NoFamily /\ onto = 0
  /\ phase \notin {"parse", "groups", "create"} => ops = NoOps /\ groups = NoGroups
  /\ phase \notin {"create", "list"} => todo = << >>
  /\ todo = << >> => built = << >>
  /\ phase = "start" => msg = NoMessage /\ next = 1 /\ seen = {} /\ entry = <<1, 1>>
  /\ phase # "start" => msg \in Messages
  /\ phase \in {"parse", "groups"} =>
       /\ ops # NoOps => \E k \in Sent(msg, "ops") : k < next
       /\ phase = "parse" /\ groups # NoGroups => \E k \in Sent(msg, "groups") : k < next
  /\ phase = "groups" => /\ next \in Sent(msg, "groups") /\ DOMAIN groups.list = DOMAIN Attr.list
                         /\ entry[1] \in Nat \ {0} /\ entry[2] \in Nat \ {0}
  /\ phase = "overlay" => family.overlayBlock = NoBlock

FamilyInv == TypeOK /\ OpsShape(ops) /\ GroupsShape(groups) /\ FamilyShape /\ PhaseOK /\ HeapOwned

-----------------------------------------------------------------------------
(* The one behind FamilyAsSent and AcceptedAsListed.                       *)

\* The operations read so far are those of the message, the groups too.
OpsRead(o) ==
  /\ Sent(msg, "ops") = {} => o.ids = << >>
  /\ \A k \in Sent(msg, "ops") : o.ids = IF k < next THEN msg.attrs[k].ids ELSE << >>

\* An entry of which n names have been read keeps the last of them.
Takes(e, sent, n) == e.id = sent.id /\ e.name = IF n = 0 THEN NoName ELSE sent.names[n]

GroupsRead(g) ==
  /\ Sent(msg, "groups") = {} => g.list = << >>
  /\ \A k \in Sent(msg, "groups") :
       IF k < next
       THEN /\ DOMAIN g.list = DOMAIN msg.attrs[k].list
            /\ \A i \in DOMAIN g.list :
                 Takes(g.list[i], msg.attrs[k].list[i], Len(msg.attrs[k].list[i].names))
       ELSE g.list = << >>

NamesRead(i) == IF i < Current THEN Len(Attr.list[i].names)
                ELSE IF i = Current THEN entry[2] - 1 ELSE 0

\* What has become of the part of the message that has been walked over.
MessageRead ==
  /\ \A type \in seen : \E i \in Sent(msg, type) : i < next /\ msg.attrs[i].ok
  /\ phase \in {"parse", "groups", "create"} => OpsRead(ops)
  /\ phase \in {"parse", "create"} => GroupsRead(groups)
  /\ phase = "groups" =>
       /\ Current <= Len(Attr.list) => entry[2] <= Len(Attr.list[Current].names) + 1
       /\ \A i \in DOMAIN groups.list : Takes(groups.list[i], Attr.list[i], NamesRead(i))
  /\ phase \in {"create", "overlay", "attach", "idle", "list"} =>
       Complete /\ next = Len(msg.attrs) + 1
  /\ phase \in {"overlay", "attach", "idle", "list"} =>
       OpsRead(family.ops) /\ GroupsRead(family.groups)

Kids(i) == IF i = 0 THEN family.kids ELSE family.kids[i].kids

MadeOf(node, plan) == /\ node.kind = plan.kind /\ node.id = plan.id
                      /\ node.name = plan.name /\ node.set = plan.set

\* The last n of the objects are made of the first n plans.
LastMade(kids, plans, n) ==
  n <= Len(kids) /\ \A j \in 1 .. n : MadeOf(kids[Len(kids) - n + j], plans[j])

\* A listing in progress has appended what it no longer has to do; one that
\* is complete has appended everything.
ListingOK ==
  /\ phase \in {"overlay", "attach"} => family.kids = << >> /\ ~family.populated
  /\ \A i \in 0 .. Len(family.kids) :
       /\ Populated(i) => LastMade(Kids(i), Plans(i), Len(Plans(i)))
       /\ Plans(i) = << >> => Kids(i) = << >>
  /\ phase = "list" =>
       /\ ~Populated(onto)
       /\ \E n \in 0 .. Len(Plans(onto)) :
            /\ todo = SubSeq(Plans(onto), n + 1, Len(Plans(onto)))
            /\ LastMade(Kids(onto), Plans(onto), n)

SentInv == FamilyInv /\ MessageRead /\ ListingOK
=============================================================================
