------------------------------ MODULE ObjectTree ------------------------------
(***************************************************************************)
(* The lazily populated object tree of ycore (object.c, root.c) as the     *)
(* heap cells its objects occupy.                                          *)
(*                                                                         *)
(* One client thread calls the public API: it creates the transports and   *)
(* the root, asks objects for their children, refreshes them and destroys  *)
(* the root.  A call runs to its end before the next one starts, but takes *)
(* one step for each child it creates and each object it destroys, so the  *)
(* states between those steps, where a failing allocation leaves the tree, *)
(* are states of the model.                                                *)
(*                                                                         *)
(* An object's vtable is abstracted to Listing: the entities its           *)
(* populate_children creates one by one, unless it stops with an error.    *)
(* A free cell holds zeroes, which is what the calloc of every constructor *)
(* hands out.                                                              *)
(***************************************************************************)
EXTENDS Integers, Sequences

CONSTANTS Addr,        \* heap cells an object can occupy
          NoAddr,      \* the NULL pointer
          Node,        \* the kernel entities objects stand for
          RootNode,    \* what the synthetic root stands for
          Transports,  \* the transports the client hands to root_create
          Listing,     \* Listing[n]: the children populate_children makes of n
          FirstCap,    \* first capacity of a children array (8 in the code)
          MayFail      \* whether allocations and kernel calls can fail

ASSUME AddrAssumption == NoAddr \notin Addr
ASSUME NodeAssumption == /\ RootNode \in Node
                         /\ Transports \in Seq(Node)
                         /\ Listing \in [Node -> Seq(Node)]
ASSUME LimitAssumption == FirstCap \in Nat \ {0} /\ MayFail \in BOOLEAN

VARIABLES live,        \* cells holding an object
          node,        \* node[a]: the entity the object at a stands for
          parent,      \* object.parent
          children,    \* object.children, children_count entries of it
          capacity,    \* object.children_capacity
          populated,   \* object.children_populated
          cursor,      \* drop_children's loop index: children already destroyed
          held,        \* objects still owned by the client
          root,        \* the root object, once created
          pending,     \* root.pending
          taken,       \* loop index over pending: entries moved or destroyed
          call,        \* the API call in progress
          target,      \* its argument
          made,        \* children the populate in progress has appended
          stack        \* objects whose destruction is in progress, innermost first

object == <<live, node, parent, children, capacity, populated, cursor>>
rootVars == <<root, pending, taken>>
callVars == <<call, target, made, stack>>
vars == <<object, held, rootVars, callVars>>

Call == {"idle", "populate", "surrender", "refresh", "destroy"}

Init == /\ live = {}
        /\ node = [a \in Addr |-> RootNode]
        /\ parent = [a \in Addr |-> NoAddr]
        /\ children = [a \in Addr |-> << >>]
        /\ capacity = [a \in Addr |-> 0]
        /\ populated = [a \in Addr |-> FALSE]
        /\ cursor = [a \in Addr |-> 0]
        /\ held = << >> /\ pending = << >> /\ stack = << >>
        /\ root = NoAddr /\ target = NoAddr
        /\ taken = 0 /\ made = 0
        /\ call = "idle"

Idle == call = "idle"

-----------------------------------------------------------------------------
(* Setting up: the client creates transports, then hands them to the root. *)

\* calloc of an object for entity n, in a cell of the allocator's choice.
Allocate(a, n) == /\ a \notin live
                  /\ live' = live \cup {a}
                  /\ node' = [node EXCEPT ![a] = n]

CreateTransport(a) ==
  /\ Idle /\ root = NoAddr
  /\ Len(held) < Len(Transports)
  /\ Allocate(a, Transports[Len(held) + 1])
  /\ held' = Append(held, a)
  /\ UNCHANGED <<parent, children, capacity, populated, cursor, rootVars, callVars>>

\* Ownership of the transports moves to the root.  When root_create fails it
\* changes nothing, and the client goes on to ReleaseTransport.
RootCreate(a) ==
  /\ Idle /\ root = NoAddr
  /\ Len(held) = Len(Transports)
  /\ Allocate(a, RootNode)
  /\ root' = a
  /\ pending' = held
  /\ held' = << >>
  /\ UNCHANGED <<parent, children, capacity, populated, cursor, taken, callVars>>

\* The client gives up and destroys a transport it still owns.
ReleaseTransport ==
  /\ Idle /\ root = NoAddr
  /\ held # << >>
  /\ call' = "destroy"
  /\ stack' = <<held[Len(held)]>>
  /\ held' = SubSeq(held, 1, Len(held) - 1)
  /\ UNCHANGED <<object, rootVars, target, made>>

-----------------------------------------------------------------------------
(* get_children.                                                           *)

\* Mutant: the cache flag is not consulted.
GetChildrenUncached(o) ==
  /\ Idle
  /\ o \in live
  /\ call' = "populate"
  /\ target' = o
  /\ UNCHANGED <<object, held, rootVars, made, stack>>

\* Only an unpopulated object calls its vtable; a populated one just returns
\* its array and changes nothing.
GetChildren(o) ==
  /\ Idle
  /\ o \in live
  /\ ~populated[o]
  /\ call' = "populate"
  /\ target' = o
  /\ UNCHANGED <<object, held, rootVars, made, stack>>

Grown(cap) == IF cap = 0 THEN FirstCap ELSE 2 * cap

Full(p) == Len(children[p]) = capacity[p]

\* append_child(p, c); its only failure is the realloc of a full array.
AppendChild(p, c) ==
  /\ children' = [children EXCEPT ![p] = Append(@, c)]
  /\ capacity' = [capacity EXCEPT ![p] = IF Full(p) THEN Grown(@) ELSE @]
  /\ parent' = [parent EXCEPT ![c] = p]

Populating == call = "populate" /\ target # root

EndCall == /\ call' = "idle"
           /\ target' = NoAddr
           /\ made' = 0

\* The impl's loop creates the next child and appends it.
PopulateNext(a) ==
  /\ Populating
  /\ made < Len(Listing[node[target]])
  /\ Allocate(a, Listing[node[target]][made + 1])
  /\ AppendChild(target, a)
  /\ made' = made + 1
  /\ UNCHANGED <<populated, cursor, held, rootVars, call, target, stack>>

\* Mutant: children_populated is set before the result is looked at.
PopulateErrorCached ==
  /\ Populating
  /\ MayFail
  /\ populated' = [populated EXCEPT ![target] = TRUE]
  /\ EndCall
  /\ UNCHANGED <<live, node, parent, children, capacity, cursor, held, rootVars, stack>>

\* The impl stops with an error: its kernel source failed, a child could not
\* be created, or it was created, not appended, and freed again.  The
\* children appended before stay; populated stays FALSE.
PopulateError ==
  /\ Populating
  /\ MayFail
  /\ EndCall
  /\ UNCHANGED <<object, held, rootVars, stack>>

PopulateDone ==
  /\ Populating
  /\ made = Len(Listing[node[target]])
  /\ populated' = [populated EXCEPT ![target] = TRUE]
  /\ EndCall
  /\ UNCHANGED <<live, node, parent, children, capacity, cursor, held, rootVars, stack>>

PopulatingRoot == call = "populate" /\ target = root

\* root_populate_children moves the pending transports into the children.
RootPopulateNext ==
  /\ PopulatingRoot
  /\ taken < Len(pending)
  /\ AppendChild(root, pending[taken + 1])
  /\ taken' = taken + 1
  /\ UNCHANGED <<live, node, populated, cursor, held, root, pending, callVars>>

\* Mutant: the transports not moved yet are forgotten.
RootPopulateErrorLeaks ==
  /\ PopulatingRoot
  /\ taken < Len(pending)
  /\ Full(root) /\ MayFail
  /\ pending' = << >> /\ taken' = 0
  /\ EndCall
  /\ UNCHANGED <<object, held, root, stack>>

\* Mutant: all of pending is surrendered, the transports already moved too.
RootPopulateErrorFromStart ==
  /\ PopulatingRoot
  /\ taken < Len(pending)
  /\ Full(root) /\ MayFail
  /\ call' = "surrender" /\ taken' = 0
  /\ UNCHANGED <<object, held, root, pending, target, made, stack>>

\* Mutant: the transports not moved yet stay pending.
RootPopulateErrorKeepsRest ==
  /\ PopulatingRoot
  /\ taken < Len(pending)
  /\ Full(root) /\ MayFail
  /\ pending' = SubSeq(pending, taken + 1, Len(pending)) /\ taken' = 0
  /\ EndCall
  /\ UNCHANGED <<object, held, root, stack>>

RootPopulateError ==
  /\ PopulatingRoot
  /\ taken < Len(pending)
  /\ Full(root) /\ MayFail
  /\ call' = "surrender"
  /\ UNCHANGED <<object, held, rootVars, target, made, stack>>

RootPopulateDone ==
  /\ PopulatingRoot
  /\ taken = Len(pending)
  /\ pending' = << >> /\ taken' = 0
  /\ populated' = [populated EXCEPT ![root] = TRUE]
  /\ EndCall
  /\ UNCHANGED <<live, node, parent, children, capacity, cursor, held, root, stack>>

\* After a failed append the rest of pending goes to the destroy path.
Surrender ==
  /\ call = "surrender" /\ stack = << >>
  /\ taken < Len(pending)
  /\ stack' = <<pending[taken + 1]>>
  /\ taken' = taken + 1
  /\ UNCHANGED <<object, held, root, pending, call, target, made>>

SurrenderDone ==
  /\ call = "surrender" /\ stack = << >>
  /\ taken = Len(pending)
  /\ pending' = << >> /\ taken' = 0
  /\ EndCall
  /\ UNCHANGED <<object, held, root, stack>>

-----------------------------------------------------------------------------
(* refresh, destroy, drop_children.                                        *)

Refresh(o) ==
  /\ Idle
  /\ o \in live
  /\ call' = "refresh"
  /\ target' = o
  /\ stack' = <<o>>
  /\ UNCHANGED <<object, held, rootVars, made>>

\* Mutant: the NULL check is missing.
DestroyRootUnchecked ==
  /\ Idle
  /\ call' = "destroy"
  /\ stack' = <<root>>
  /\ UNCHANGED <<object, held, rootVars, target, made>>

\* ykern_object_destroy does nothing with a NULL pointer.
DestroyRoot ==
  /\ Idle
  /\ root # NoAddr
  /\ call' = "destroy"
  /\ stack' = <<root>>
  /\ UNCHANGED <<object, held, rootVars, target, made>>

Top == Head(stack)

ChildrenLeft(p) == cursor[p] < Len(children[p])

\* Mutant: the loop index is not advanced.
DropNextAgain ==
  /\ stack # << >>
  /\ ChildrenLeft(Top)
  /\ stack' = <<children[Top][cursor[Top] + 1]>> \o stack
  /\ UNCHANGED <<object, held, rootVars, call, target, made>>

\* drop_children's loop destroys the next child.
DropNext ==
  /\ stack # << >>
  /\ ChildrenLeft(Top)
  /\ stack' = <<children[Top][cursor[Top] + 1]>> \o stack
  /\ cursor' = [cursor EXCEPT ![Top] = @ + 1]
  /\ UNCHANGED <<live, node, parent, children, capacity, populated, held, rootVars,
                 call, target, made>>

\* The object is only refreshed: drop_children ends, the object survives.
OnlyDropped == call = "refresh" /\ stack = <<target>>

\* root_destroy_impl destroys the transports populate never moved.
DestroyPending ==
  /\ stack # << >> /\ Top = root
  /\ ~ChildrenLeft(root) /\ ~OnlyDropped
  /\ taken < Len(pending)
  /\ stack' = <<pending[taken + 1]>> \o stack
  /\ taken' = taken + 1
  /\ UNCHANGED <<object, held, root, pending, call, target, made>>

\* Children and impl are gone: free the array and the object itself.
Free ==
  /\ stack # << >>
  /\ ~ChildrenLeft(Top) /\ ~OnlyDropped
  /\ Top = root => taken = Len(pending)
  /\ live' = live \ {Top}
  /\ node' = [node EXCEPT ![Top] = RootNode]
  /\ parent' = [parent EXCEPT ![Top] = NoAddr]
  /\ children' = [children EXCEPT ![Top] = << >>]
  /\ capacity' = [capacity EXCEPT ![Top] = 0]
  /\ populated' = [populated EXCEPT ![Top] = FALSE]
  /\ cursor' = [cursor EXCEPT ![Top] = 0]
  /\ IF Top = root
     THEN root' = NoAddr /\ pending' = << >> /\ taken' = 0
     ELSE UNCHANGED rootVars
  /\ stack' = Tail(stack)
  /\ call' = IF call = "destroy" /\ Len(stack) = 1 THEN "idle" ELSE call
  /\ UNCHANGED <<held, target, made>>

\* Mutant: refresh clears the flag and leaves the freed array in place.
RefreshDoneKeepsArray ==
  /\ OnlyDropped
  /\ ~ChildrenLeft(target)
  /\ cursor' = [cursor EXCEPT ![target] = 0]
  /\ populated' = [populated EXCEPT ![target] = FALSE]
  /\ stack' = << >>
  /\ EndCall
  /\ UNCHANGED <<live, node, parent, children, capacity, held, rootVars>>

RefreshDone ==
  /\ OnlyDropped
  /\ ~ChildrenLeft(target)
  /\ children' = [children EXCEPT ![target] = << >>]
  /\ capacity' = [capacity EXCEPT ![target] = 0]
  /\ cursor' = [cursor EXCEPT ![target] = 0]
  /\ populated' = [populated EXCEPT ![target] = FALSE]
  /\ stack' = << >>
  /\ EndCall
  /\ UNCHANGED <<live, node, parent, held, rootVars>>

-----------------------------------------------------------------------------
ClientCall == \/ \E a \in Addr : CreateTransport(a) \/ RootCreate(a)
              \/ ReleaseTransport
              \/ \E o \in Addr : GetChildren(o) \/ Refresh(o)
              \/ DestroyRoot

\* The steps a call in progress takes by itself.
CallStep == \/ \E a \in Addr : PopulateNext(a)
            \/ PopulateError \/ PopulateDone
            \/ RootPopulateNext \/ RootPopulateError \/ RootPopulateDone
            \/ Surrender \/ SurrenderDone
            \/ DropNext \/ DestroyPending \/ Free \/ RefreshDone

Next == ClientCall \/ CallStep

Spec == Init /\ [][Next]_vars

-----------------------------------------------------------------------------
(* Properties.                                                             *)

HeapTypeOK ==
  /\ live \subseteq Addr
  /\ node \in [Addr -> Node]
  /\ parent \in [Addr -> Addr \cup {NoAddr}]
  /\ children \in [Addr -> Seq(Addr)]
  /\ capacity \in [Addr -> Nat]
  /\ populated \in [Addr -> BOOLEAN]
  /\ cursor \in [Addr -> Nat]

CallTypeOK ==
  /\ held \in Seq(Addr)
  /\ pending \in Seq(Addr)
  /\ stack \in Seq(Addr)
  /\ root \in Addr \cup {NoAddr}
  /\ target \in Addr \cup {NoAddr}
  /\ taken \in Nat /\ made \in Nat
  /\ call \in Call
  /\ call \in {"populate", "surrender", "refresh"} => target \in Addr

\* Every variable keeps its type, and a call that has an argument keeps it.
TypeOK == HeapTypeOK /\ CallTypeOK

\* The entries of p's array, and of pending, that still own their object.
OwnedChild(p) == {i \in DOMAIN children[p] : i > cursor[p]}
OwnedPending == {i \in DOMAIN pending : i > taken}

IsHeld(a) == \E i \in DOMAIN held : held[i] = a
IsPending(a) == \E i \in OwnedPending : pending[i] = a
IsChildOf(a, p) == \E i \in OwnedChild(p) : children[p][i] = a

\* The entries of stack whose object is being destroyed; the object a refresh
\* was called on is on the stack too, but survives.
Doomed == {k \in DOMAIN stack : call = "refresh" => k < Len(stack)}
IsDoomed(a) == \E k \in Doomed : stack[k] = a

\* No pointer the code will still follow leads to a freed object: the
\* children and pending transports not yet destroyed, the objects on the
\* destroy path, the client's own.
NoDanglingPointer ==
  /\ \A p \in live : \A i \in OwnedChild(p) : children[p][i] \in live
  /\ \A i \in OwnedPending : pending[i] \in live
  /\ \A i \in DOMAIN held : held[i] \in live
  /\ \A k \in DOMAIN stack : stack[k] \in live
  /\ root # NoAddr => root \in live
  /\ target # NoAddr => target \in live

\* Every implementation follows its parent chain (a family's overlay, the
\* transport's socket), so an object never outlives its parent, not even
\* between the steps of a recursive destroy.
ParentOutlivesChild ==
  \A a \in live : parent[a] # NoAddr => parent[a] \in live

\* Whoever owns an object owns it alone: no child is listed twice or under
\* an object that is not its parent, no transport is at once pending and a
\* child, and what is being destroyed has no owner left.  A second owner is
\* a second free.
SingleOwner ==
  /\ \A p \in live : \A i \in OwnedChild(p) :
        /\ parent[children[p][i]] = p
        /\ \A j \in OwnedChild(p) : children[p][i] = children[p][j] => i = j
  /\ \A i \in OwnedPending :
        /\ parent[pending[i]] = NoAddr
        /\ \A j \in OwnedPending : pending[i] = pending[j] => i = j
  /\ \A a \in live : IsDoomed(a) =>
        /\ ~IsHeld(a) /\ ~IsPending(a)
        /\ \A p \in live : ~IsChildOf(a, p)

\* Every object has an owner that will free it: the client, the root, the
\* pending array, a live parent or the destroy in progress.
NoLeak ==
  \A a \in live : \/ a = root \/ IsHeld(a) \/ IsPending(a)
                  \/ parent[a] \in live /\ IsChildOf(a, parent[a])
                  \/ IsDoomed(a)

\* A view returned by get_children is the object's own array.  It stays as it
\* was for as long as the object counts as populated, so only refresh and
\* destroy can invalidate a view.
ViewStable ==
  [][\A o \in live : populated[o] /\ populated'[o] => children'[o] = children[o]]_vars

Suffix(s, n) == SubSeq(s, Len(s) - n + 1, Len(s))

\* What a successful get_children returns ends with the object's complete
\* listing, in order, whatever attempts failed before it.
CompleteListing ==
  \A o \in live \ {root} : (populated[o] /\ Idle) =>
    LET full == Listing[node[o]]
        names == [i \in DOMAIN children[o] |-> node[children[o][i]]]
    IN  Len(names) >= Len(full) /\ Suffix(names, Len(full)) = full

\* object.h: children are populated "on first call, cached on the object",
\* and "the base layer manages caching, so the impl only needs to know how to
\* produce its children": a listing holds what one populate produced.
ListedOnce ==
  \A o \in live \ {root} : (populated[o] /\ Idle) =>
    Len(children[o]) = Len(Listing[node[o]])

-----------------------------------------------------------------------------
(* The inductive invariant behind the safety properties.                   *)

\* What a free cell looks like, and how far the destroy loops can be.
CellsOK ==
  /\ \A a \in Addr \ live :
       parent[a] = NoAddr /\ children[a] = << >> /\ ~populated[a]
  /\ \A a \in Addr :
       /\ cursor[a] <= Len(children[a])
       /\ cursor[a] # 0 => \E k \in DOMAIN stack : stack[k] = a
  /\ taken <= Len(pending)

\* The client owns transports only as long as there is no root, and a root
\* or a transport that is not a child yet has no parent.
TopLevelOK ==
  /\ root = NoAddr => pending = << >>
  /\ root # NoAddr => held = << >> /\ parent[root] = NoAddr
  /\ \A i \in DOMAIN held :
       /\ parent[held[i]] = NoAddr
       /\ \A j \in DOMAIN held : held[i] = held[j] => i = j
  /\ \A i \in OwnedPending : pending[i] # root

\* Which calls have an argument and a destroy path.
CallOK ==
  /\ call \in {"idle", "populate"} => stack = << >>
  /\ call \in {"idle", "destroy"} => target = NoAddr
  /\ call = "refresh" => stack # << >> /\ stack[Len(stack)] = target
  /\ call = "destroy" => stack # << >>
  /\ call = "surrender" => target = root
  /\ call = "populate" => ~populated[target]

\* The destroy path follows the parent chain; it holds the root only at its
\* outermost end, when the root itself is destroyed.
PathOK ==
  /\ \A k, m \in DOMAIN stack : stack[k] = stack[m] => k = m
  /\ \A k \in Doomed :
       /\ parent[stack[k]] # NoAddr \/ call = "refresh" =>
             k < Len(stack) /\ stack[k + 1] = parent[stack[k]]
       /\ stack[k] = root => call = "destroy" /\ k = Len(stack)

\* No object is its own ancestor: of any objects, one has its parent elsewhere.
Acyclic == \A S \in SUBSET live : S # {} => \E a \in S : parent[a] \notin S

\* The last m of o's children are the first m its populate makes, in order.
Listed(o, m) ==
  LET kids == children[o]
      full == Listing[node[o]]
  IN  /\ m <= Len(full) /\ m <= Len(kids)
      /\ \A i \in 1..m : node[kids[Len(kids) - m + i]] = full[i]

\* A populated array no drop_children is at work on ends with the complete
\* listing; a populate in progress has appended the part it has made.
ListingInv ==
  /\ \A o \in live \ {root} :
        populated[o] /\ cursor[o] = 0 => Listed(o, Len(Listing[node[o]]))
  /\ Populating => Listed(target, made)
  /\ ~Populating => made = 0

OwnershipInv == /\ CellsOK /\ TopLevelOK /\ CallOK /\ PathOK /\ Acyclic
                /\ NoDanglingPointer /\ ParentOutlivesChild /\ SingleOwner /\ NoLeak
=============================================================================
