-------------------------- MODULE ObjectTreeProofs --------------------------
(***************************************************************************)
(* Machine-checked proofs about ObjectTree, for every number of cells,     *)
(* every listing and every pattern of failures: types, then ownership      *)
(* (OwnershipInv is inductive; NoDanglingPointer, SingleOwner and NoLeak   *)
(* are conjuncts of it, ViewStable follows from it), then listings         *)
(* (ListingInv, on top of it).  One lemma per step of the code, one step   *)
(* of its proof per conjunct of the invariant.  Then that ObjectTree       *)
(* implements Forest, and last that every step inside a call leaves less   *)
(* to do (CallShrinks).                                                    *)
(***************************************************************************)
EXTENDS TreeRefinement, SequenceTheorems, FiniteSetTheorems, TLAPS

(***************************************************************************)
(* Type correctness, one lemma for the steps that leave the objects alone  *)
(* and one for each step that changes some.                                *)
(***************************************************************************)

\* The steps that begin, fail or return from a call and change no object keep
\* the types.
LEMMA QuietType ==
  ASSUME TypeOK,
         \/ ReleaseTransport
         \/ \E o \in Addr : GetChildren(o) \/ Refresh(o)
         \/ DestroyRoot \/ PopulateError \/ RootPopulateError
         \/ Surrender \/ SurrenderDone \/ DestroyPending
  PROVE  TypeOK'
<1> USE DEF rootVars, Call, EndCall
<1>1. UNCHANGED object
  BY DEF ReleaseTransport, GetChildren, Refresh, DestroyRoot, PopulateError,
         RootPopulateError, Surrender, SurrenderDone, DestroyPending
<1>2. HeapTypeOK'
  BY <1>1 DEF TypeOK, HeapTypeOK, object
<1>3. CASE ReleaseTransport
  <2>1. held' \in Seq(Addr) /\ stack' \in Seq(Addr)
    BY <1>3 DEF TypeOK, CallTypeOK, ReleaseTransport
  <2>2. QED
    BY <1>2, <1>3, <2>1 DEF TypeOK, CallTypeOK, ReleaseTransport
<1>4. ASSUME NEW o \in Addr, GetChildren(o) PROVE TypeOK'
  BY <1>2, <1>4 DEF TypeOK, CallTypeOK, GetChildren
<1>5. ASSUME NEW o \in Addr, Refresh(o) PROVE TypeOK'
  BY <1>2, <1>5 DEF TypeOK, CallTypeOK, Refresh
<1>6. CASE DestroyRoot
  BY <1>2, <1>6 DEF TypeOK, CallTypeOK, DestroyRoot
<1>7. CASE PopulateError
  BY <1>2, <1>7 DEF TypeOK, CallTypeOK, PopulateError
<1>8. CASE RootPopulateError
  BY <1>2, <1>8, Zenon DEF TypeOK, CallTypeOK, RootPopulateError, PopulatingRoot
<1>9. CASE Surrender
  <2>1. stack' \in Seq(Addr)
    BY <1>9 DEF TypeOK, CallTypeOK, Surrender
  <2>2. QED
    BY <1>2, <1>9, <2>1 DEF TypeOK, CallTypeOK, Surrender
<1>10. CASE SurrenderDone
  BY <1>2, <1>10 DEF TypeOK, CallTypeOK, SurrenderDone
<1>11. CASE DestroyPending
  <2>1. pending[taken + 1] \in Addr
    BY <1>11 DEF TypeOK, CallTypeOK, DestroyPending
  <2>2. stack' \in Seq(Addr)
    BY <1>11, <2>1 DEF TypeOK, CallTypeOK, DestroyPending
  <2>3. QED
    BY <1>2, <1>11, <2>2 DEF TypeOK, CallTypeOK, DestroyPending
<1>12. QED
  BY <1>3, <1>4, <1>5, <1>6, <1>7, <1>8, <1>9, <1>10, <1>11

\* Creating a transport or the root keeps the types.
LEMMA CreateType ==
  ASSUME TypeOK, NEW a \in Addr, CreateTransport(a) \/ RootCreate(a)
  PROVE  TypeOK'
<1> USE DEF rootVars, callVars
<1>1. UNCHANGED <<parent, children, capacity, populated, cursor>>
  BY DEF CreateTransport, RootCreate
<1>2. CASE CreateTransport(a)
  <2>1. Transports[Len(held) + 1] \in Node
    BY <1>2, NodeAssumption DEF CreateTransport, TypeOK, CallTypeOK
  <2>2. node' \in [Addr -> Node] /\ live' \subseteq Addr
    BY <1>2, <2>1 DEF CreateTransport, Allocate, TypeOK, HeapTypeOK
  <2>3. held' \in Seq(Addr)
    BY <1>2 DEF CreateTransport, TypeOK, CallTypeOK
  <2>4. HeapTypeOK'
    BY <1>1, <2>2 DEF TypeOK, HeapTypeOK
  <2>5. QED
    BY <1>2, <2>3, <2>4 DEF CreateTransport, TypeOK, CallTypeOK
<1>3. CASE RootCreate(a)
  <2>1. node' \in [Addr -> Node] /\ live' \subseteq Addr
    BY <1>3, NodeAssumption DEF RootCreate, Allocate, TypeOK, HeapTypeOK
  <2>2. HeapTypeOK'
    BY <1>1, <2>1 DEF TypeOK, HeapTypeOK
  <2>3. QED
    BY <1>3, <2>2 DEF RootCreate, TypeOK, CallTypeOK
<1>4. QED
  BY <1>2, <1>3

\* append_child keeps the types of the three arrays it writes.
LEMMA AppendChildType ==
  ASSUME TypeOK, NEW p \in Addr, NEW c \in Addr, AppendChild(p, c)
  PROVE  /\ children' \in [Addr -> Seq(Addr)]
         /\ capacity' \in [Addr -> Nat]
         /\ parent' \in [Addr -> Addr \cup {NoAddr}]
<1>1. children \in [Addr -> Seq(Addr)]
  BY DEF TypeOK, HeapTypeOK
<1>2. capacity \in [Addr -> Nat]
  BY DEF TypeOK, HeapTypeOK
<1>3. parent \in [Addr -> Addr \cup {NoAddr}]
  BY DEF TypeOK, HeapTypeOK
<1>4. children' \in [Addr -> Seq(Addr)]
  BY <1>1 DEF AppendChild
<1>5. capacity' \in [Addr -> Nat]
  BY <1>2, LimitAssumption DEF AppendChild, Grown
<1>6. parent' \in [Addr -> Addr \cup {NoAddr}]
  BY <1>3 DEF AppendChild
<1>7. QED
  BY <1>4, <1>5, <1>6

\* The steps of get_children that create, move or count children keep the types.
LEMMA PopulateType ==
  ASSUME TypeOK,
         \/ \E a \in Addr : PopulateNext(a)
         \/ PopulateDone \/ RootPopulateNext \/ RootPopulateDone
  PROVE  TypeOK'
<1> USE DEF rootVars, callVars, EndCall
<1>1. ASSUME NEW a \in Addr, PopulateNext(a) PROVE TypeOK'
  <2>1. target \in Addr
    BY <1>1 DEF PopulateNext, Populating, TypeOK, CallTypeOK
  <2>2. Listing[node[target]][made + 1] \in Node
    <3>1. Listing[node[target]] \in Seq(Node)
      BY <2>1, NodeAssumption DEF TypeOK, HeapTypeOK
    <3>2. made \in Nat /\ made < Len(Listing[node[target]])
      BY <1>1 DEF PopulateNext, TypeOK, CallTypeOK
    <3>3. QED
      BY <3>1, <3>2
  <2>3. node' \in [Addr -> Node] /\ live' \subseteq Addr
    BY <1>1, <2>2 DEF PopulateNext, Allocate, TypeOK, HeapTypeOK
  <2>4. /\ children' \in [Addr -> Seq(Addr)]
        /\ capacity' \in [Addr -> Nat]
        /\ parent' \in [Addr -> Addr \cup {NoAddr}]
    BY <1>1, <2>1, AppendChildType DEF PopulateNext
  <2>5. /\ UNCHANGED <<populated, cursor, held, root, pending, taken, call, target, stack>>
        /\ made' = made + 1
    BY <1>1 DEF PopulateNext
  <2>6. HeapTypeOK'
    BY <2>3, <2>4, <2>5, Zenon DEF TypeOK, HeapTypeOK
  <2>7. QED
    BY <2>5, <2>6 DEF TypeOK, CallTypeOK
<1>2. CASE PopulateDone
  <2>1. populated' \in [Addr -> BOOLEAN]
    BY <1>2 DEF PopulateDone, TypeOK, HeapTypeOK
  <2>2. HeapTypeOK'
    BY <1>2, <2>1 DEF PopulateDone, TypeOK, HeapTypeOK
  <2>3. QED
    BY <1>2, <2>2 DEF PopulateDone, TypeOK, CallTypeOK, Call
<1>3. CASE RootPopulateNext
  <2>1. root \in Addr /\ pending[taken + 1] \in Addr
    BY <1>3 DEF RootPopulateNext, PopulatingRoot, TypeOK, CallTypeOK
  <2>2. /\ children' \in [Addr -> Seq(Addr)]
        /\ capacity' \in [Addr -> Nat]
        /\ parent' \in [Addr -> Addr \cup {NoAddr}]
    BY <1>3, <2>1, AppendChildType DEF RootPopulateNext
  <2>3. /\ UNCHANGED <<live, node, populated, cursor, held, root, pending, call, target, made, stack>>
        /\ taken' = taken + 1
    BY <1>3 DEF RootPopulateNext
  <2>4. HeapTypeOK'
    BY <2>2, <2>3, Zenon DEF TypeOK, HeapTypeOK
  <2>5. QED
    BY <2>3, <2>4 DEF TypeOK, CallTypeOK
<1>4. CASE RootPopulateDone
  <2>1. populated' \in [Addr -> BOOLEAN]
    BY <1>4 DEF RootPopulateDone, TypeOK, HeapTypeOK
  <2>2. HeapTypeOK'
    BY <1>4, <2>1 DEF RootPopulateDone, TypeOK, HeapTypeOK
  <2>3. QED
    BY <1>4, <2>2 DEF RootPopulateDone, TypeOK, CallTypeOK, Call
<1>5. QED
  BY <1>1, <1>2, <1>3, <1>4

\* The steps of drop_children, destroy and refresh keep the types.
LEMMA DropType ==
  ASSUME TypeOK, DropNext \/ Free \/ RefreshDone
  PROVE  TypeOK'
<1> USE DEF object, rootVars, EndCall
<1>1. CASE DropNext
  <2>1. Top \in Addr
    BY <1>1 DEF DropNext, TypeOK, CallTypeOK, Top
  <2>2. cursor' \in [Addr -> Nat]
    <3>1. cursor \in [Addr -> Nat]
      BY DEF TypeOK, HeapTypeOK
    <3>2. QED
      BY <1>1, <2>1, <3>1 DEF DropNext
  <2>3. UNCHANGED <<live, node, parent, children, capacity, populated>>
    BY <1>1 DEF DropNext
  <2>4. HeapTypeOK'
    BY <2>2, <2>3 DEF TypeOK, HeapTypeOK
  <2>5. children[Top][cursor[Top] + 1] \in Addr
    <3>1. children[Top] \in Seq(Addr) /\ cursor[Top] \in Nat
      BY <2>1 DEF TypeOK, HeapTypeOK
    <3>2. QED
      BY <1>1, <3>1 DEF DropNext, ChildrenLeft
  <2>6. stack' \in Seq(Addr)
    BY <1>1, <2>5 DEF DropNext, TypeOK, CallTypeOK
  <2>7. QED
    BY <1>1, <2>4, <2>6 DEF DropNext, TypeOK, CallTypeOK
<1>2. CASE Free
  <2>1. Top \in Addr /\ stack' \in Seq(Addr)
    BY <1>2 DEF Free, TypeOK, CallTypeOK, Top
  <2>2. children' \in [Addr -> Seq(Addr)]
    <3>1. children \in [Addr -> Seq(Addr)] /\ << >> \in Seq(Addr)
      BY DEF TypeOK, HeapTypeOK
    <3>2. children' = [children EXCEPT ![Top] = << >>]
      BY <1>2 DEF Free
    <3>3. QED
      BY <3>1, <3>2
  <2>3. /\ live' \subseteq Addr
        /\ node' \in [Addr -> Node]
        /\ parent' \in [Addr -> Addr \cup {NoAddr}]
    BY <1>2, NodeAssumption DEF Free, TypeOK, HeapTypeOK
  <2>4. /\ capacity' \in [Addr -> Nat]
        /\ populated' \in [Addr -> BOOLEAN]
        /\ cursor' \in [Addr -> Nat]
    BY <1>2 DEF Free, TypeOK, HeapTypeOK
  <2>5. HeapTypeOK'
    BY <2>2, <2>3, <2>4 DEF HeapTypeOK
  <2>6. pending' \in Seq(Addr)
    <3>1. CASE Top = root
      BY <1>2, <3>1 DEF Free
    <3>2. CASE Top # root
      BY <1>2, <3>2 DEF Free, TypeOK, CallTypeOK
    <3>3. QED
      BY <3>1, <3>2
  <2>7. /\ root' \in Addr \cup {NoAddr} /\ taken' \in Nat
        /\ UNCHANGED <<held, target, made>>
        /\ call' \in {"idle", call}
    BY <1>2 DEF Free, TypeOK, CallTypeOK
  <2>8. QED
    BY <2>1, <2>5, <2>6, <2>7 DEF TypeOK, CallTypeOK, Call
<1>3. CASE RefreshDone
  <2>1. children' \in [Addr -> Seq(Addr)]
    <3>1. children \in [Addr -> Seq(Addr)] /\ << >> \in Seq(Addr)
      BY DEF TypeOK, HeapTypeOK
    <3>2. children' = [children EXCEPT ![target] = << >>]
      BY <1>3 DEF RefreshDone
    <3>3. QED
      BY <3>1, <3>2
  <2>2. /\ capacity' \in [Addr -> Nat]
        /\ populated' \in [Addr -> BOOLEAN]
        /\ cursor' \in [Addr -> Nat]
        /\ UNCHANGED <<live, node, parent>>
    BY <1>3 DEF RefreshDone, TypeOK, HeapTypeOK
  <2>3. HeapTypeOK'
    BY <2>1, <2>2 DEF TypeOK, HeapTypeOK
  <2>4. QED
    BY <1>3, <2>3 DEF RefreshDone, TypeOK, CallTypeOK, Call
<1>4. QED
  BY <1>1, <1>2, <1>3

\* Every variable keeps its type and every call its argument: the arrays of
\* object.c hold pointers and counts throughout, for any tree and any failure.
THEOREM TypeCorrect == Spec => []TypeOK
<1>1. Init => TypeOK
  BY NodeAssumption DEF Init, TypeOK, HeapTypeOK, CallTypeOK, Call
<1>2. TypeOK /\ [Next]_vars => TypeOK'
  <2> SUFFICES ASSUME TypeOK, [Next]_vars PROVE TypeOK'
    OBVIOUS
  <2>1. CASE Next
    BY <2>1, QuietType, CreateType, PopulateType, DropType
       DEF Next, ClientCall, CallStep
  <2>2. CASE UNCHANGED vars
    BY <2>2 DEF vars, object, rootVars, callVars, TypeOK, HeapTypeOK, CallTypeOK
  <2>3. QED
    BY <2>1, <2>2
<1>3. QED
  BY <1>1, <1>2, PTL DEF Spec

-----------------------------------------------------------------------------
(* Ownership.                                                              *)

\* Between calls, and while get_children runs, nothing is being destroyed:
\* no loop of drop_children is under way.
LEMMA EmptyPath ==
  ASSUME TypeOK, OwnershipInv, call \in {"idle", "populate"}
  PROVE /\ stack = << >> /\ Doomed = {} /\ DOMAIN stack = {}
        /\ \A a \in Addr : cursor[a] = 0
        /\ \A a : ~IsDoomed(a)
<1>1. stack = << >>
  BY DEF OwnershipInv, CallOK
<1>2. DOMAIN stack = {}
  BY <1>1
<1>3. Doomed = {}
  BY <1>2 DEF Doomed
<1>4. \A a : ~IsDoomed(a)
  BY <1>3 DEF IsDoomed
<1>5. \A a \in Addr : cursor[a] = 0
  BY <1>2 DEF OwnershipInv, CellsOK
<1>6. QED
  BY <1>1, <1>2, <1>3, <1>4, <1>5

\* ykern_object_refresh starts: the object goes on the destroy path, but
\* is not doomed itself.
LEMMA RefreshOwns ==
  ASSUME TypeOK, OwnershipInv, NEW o \in Addr, Refresh(o)
  PROVE  OwnershipInv'
<1>1. /\ UNCHANGED <<live, node, parent, children, capacity, populated, cursor, held, root, pending, taken>>
      /\ o \in live /\ call = "idle" /\ call' = "refresh" /\ target' = o
  BY DEF Refresh, Idle, object, rootVars
<1>2. /\ stack' # << >> /\ Len(stack') = 1 /\ DOMAIN stack' = {1} /\ stack'[1] = o
  BY DEF Refresh
<1>3. /\ stack = << >> /\ Doomed = {} /\ DOMAIN stack = {} 
      /\ \A a \in Addr : cursor[a] = 0
      /\ \A a : ~IsDoomed(a)
  BY <1>1, EmptyPath
<1>4. Doomed' = {} /\ \A a : ~IsDoomed(a)'
  BY <1>1, <1>2 DEF Doomed, IsDoomed
<1>5. /\ \A p : OwnedChild(p)' = OwnedChild(p)
      /\ OwnedPending' = OwnedPending
      /\ \A a : IsHeld(a)' = IsHeld(a) /\ IsPending(a)' = IsPending(a)
      /\ \A a, p : IsChildOf(a, p)' = IsChildOf(a, p)
  BY <1>1 DEF OwnedChild, OwnedPending, IsHeld, IsPending, IsChildOf
<1>6. CellsOK'
  BY <1>1, <1>3 DEF OwnershipInv, CellsOK
<1>7. TopLevelOK'
  BY <1>1, <1>5 DEF OwnershipInv, TopLevelOK
<1>8. CallOK'
  BY <1>1, <1>2 DEF OwnershipInv, CallOK
<1>9. PathOK'
  BY <1>2, <1>4 DEF PathOK
<1>10. NoDanglingPointer'
  BY <1>1, <1>2, <1>5 DEF OwnershipInv, NoDanglingPointer
<1>11. ParentOutlivesChild'
  BY <1>1 DEF OwnershipInv, ParentOutlivesChild
<1>12. SingleOwner'
  BY <1>1, <1>4, <1>5 DEF OwnershipInv, SingleOwner
<1>13. NoLeak'
  BY <1>1, <1>3, <1>5 DEF OwnershipInv, NoLeak
<1>14. Acyclic'
  BY <1>1 DEF OwnershipInv, Acyclic
<1>15. QED
  BY <1>14, <1>6, <1>7, <1>8, <1>9, <1>10, <1>11, <1>12, <1>13 DEF OwnershipInv

\* Steps that touch neither an array nor a loop index leave every owner
\* its children.
LEMMA Frame ==
  ASSUME UNCHANGED <<children, cursor>>
  PROVE  /\ \A p : OwnedChild(p)' = OwnedChild(p)
         /\ \A a, p : IsChildOf(a, p)' = IsChildOf(a, p)
BY DEF OwnedChild, IsChildOf

\* A call that starts, or fails before it destroys anything, moves no object
\* from one owner to another.
LEMMA BeginOwns ==
  ASSUME TypeOK, OwnershipInv,
         (\E o \in Addr : GetChildren(o)) \/ PopulateError \/ RootPopulateError
  PROVE  OwnershipInv'
<1>1. /\ UNCHANGED <<live, parent, children, populated, cursor, held, root, pending, taken, stack>>
      /\ call \in {"idle", "populate"} /\ call' \in {"idle", "populate", "surrender"}
  BY DEF GetChildren, PopulateError, RootPopulateError, PopulatingRoot, Populating, EndCall, Idle, object, rootVars
<1>2. /\ call' = "populate" => target' \in live /\ ~populated[target']
      /\ call' = "surrender" => target' = root /\ root \in live
      /\ call' = "idle" => target' = NoAddr
  <2>1. CASE \E o \in Addr : GetChildren(o)
    BY <2>1 DEF GetChildren
  <2>2. CASE PopulateError
    BY <2>2 DEF PopulateError, EndCall
  <2>3. CASE RootPopulateError
    BY <2>3, AddrAssumption DEF RootPopulateError, PopulatingRoot, TypeOK, CallTypeOK, OwnershipInv, NoDanglingPointer
  <2>4. QED
    BY <2>1, <2>2, <2>3
<1>3. /\ stack = << >> /\ Doomed = {} /\ DOMAIN stack = {}
      /\ \A a : ~IsDoomed(a)
  BY <1>1, EmptyPath
<1>4. Doomed' = {} /\ \A a : ~IsDoomed(a)'
  BY <1>1, <1>3 DEF Doomed, IsDoomed
<1>5. /\ \A p : OwnedChild(p)' = OwnedChild(p)
      /\ \A a, p : IsChildOf(a, p)' = IsChildOf(a, p)
      /\ OwnedPending' = OwnedPending
      /\ \A a : IsHeld(a)' = IsHeld(a) /\ IsPending(a)' = IsPending(a)
  BY <1>1, Frame DEF OwnedPending, IsHeld, IsPending
<1>6. CellsOK'
  BY <1>1 DEF OwnershipInv, CellsOK
<1>7. TopLevelOK'
  BY <1>1, <1>5 DEF OwnershipInv, TopLevelOK
<1>8. CallOK'
  BY <1>1, <1>2, <1>3 DEF CallOK
<1>9. PathOK'
  BY <1>1, <1>3, <1>4 DEF PathOK
<1>10. NoDanglingPointer'
  BY <1>1, <1>2, <1>3, <1>5 DEF OwnershipInv, NoDanglingPointer
<1>11. ParentOutlivesChild'
  BY <1>1 DEF OwnershipInv, ParentOutlivesChild
<1>12. SingleOwner'
  BY <1>1, <1>4, <1>5 DEF OwnershipInv, SingleOwner
<1>13. NoLeak'
  BY <1>1, <1>3, <1>5 DEF OwnershipInv, NoLeak
<1>14. Acyclic'
  BY <1>1 DEF OwnershipInv, Acyclic
<1>15. QED
  BY <1>14, <1>6, <1>7, <1>8, <1>9, <1>10, <1>11, <1>12, <1>13 DEF OwnershipInv

\* The client gives the root up; nobody else owns it.
LEMMA DestroyRootOwns ==
  ASSUME TypeOK, OwnershipInv, DestroyRoot PROVE OwnershipInv'
<1>1. /\ UNCHANGED <<live, parent, children, populated, cursor, held, root, pending, taken, target>>
      /\ call = "idle" /\ call' = "destroy" /\ root # NoAddr
  BY DEF DestroyRoot, Idle, object, rootVars
<1>2. stack' # << >> /\ Len(stack') = 1 /\ DOMAIN stack' = {1} /\ stack'[1] = root
  BY DEF DestroyRoot
<1>3. /\ DOMAIN stack = {} /\ \A a \in Addr : cursor[a] = 0
      /\ \A a : ~IsDoomed(a)
  BY <1>1, EmptyPath
<1>4. Doomed' = {1} /\ \A a : IsDoomed(a)' <=> a = root
  BY <1>1, <1>2 DEF Doomed, IsDoomed
<1>5. /\ \A p : OwnedChild(p)' = OwnedChild(p)
      /\ \A a, p : IsChildOf(a, p)' = IsChildOf(a, p)
      /\ OwnedPending' = OwnedPending
      /\ \A a : IsHeld(a)' = IsHeld(a) /\ IsPending(a)' = IsPending(a)
  BY <1>1, Frame DEF OwnedPending, IsHeld, IsPending
<1>6. /\ root \in live /\ held = << >> /\ parent[root] = NoAddr
      /\ target = NoAddr
  BY <1>1 DEF OwnershipInv, NoDanglingPointer, TopLevelOK, CallOK
<1>7. ~IsHeld(root) /\ ~IsPending(root) /\ \A p \in live : ~IsChildOf(root, p)
  <2>1. ~IsHeld(root)
    BY <1>6 DEF IsHeld
  <2>2. ~IsPending(root)
    BY DEF OwnershipInv, TopLevelOK, IsPending
  <2>3. ASSUME NEW p \in live, IsChildOf(root, p) PROVE FALSE
    BY <1>6, <2>3, AddrAssumption DEF OwnershipInv, SingleOwner, IsChildOf, TypeOK, HeapTypeOK
  <2>4. QED
    BY <2>1, <2>2, <2>3
<1>8. CellsOK'
  BY <1>1, <1>3 DEF OwnershipInv, CellsOK
<1>9. TopLevelOK'
  BY <1>1, <1>5 DEF OwnershipInv, TopLevelOK
<1>10. CallOK'
  BY <1>1, <1>2, <1>6 DEF CallOK
<1>11. PathOK'
  BY <1>1, <1>2, <1>4, <1>6 DEF PathOK
<1>12. NoDanglingPointer'
  BY <1>1, <1>2, <1>5, <1>6 DEF OwnershipInv, NoDanglingPointer
<1>13. ParentOutlivesChild'
  BY <1>1 DEF OwnershipInv, ParentOutlivesChild
<1>14. SingleOwner'
  BY <1>1, <1>4, <1>5, <1>7 DEF OwnershipInv, SingleOwner
<1>15. NoLeak'
  BY <1>1, <1>3, <1>4, <1>5 DEF OwnershipInv, NoLeak
<1>16. Acyclic'
  BY <1>1 DEF OwnershipInv, Acyclic
<1>17. QED
  BY <1>16, <1>8, <1>9, <1>10, <1>11, <1>12, <1>13, <1>14, <1>15 DEF OwnershipInv

\* The client destroys a transport it holds, which then has no owner left.
LEMMA ReleaseOwns ==
  ASSUME TypeOK, OwnershipInv, ReleaseTransport PROVE OwnershipInv'
<1>1. PICK t : t = held[Len(held)]
  OBVIOUS
<1>2. /\ UNCHANGED <<live, parent, children, populated, cursor, root, pending, taken, target>>
      /\ call = "idle" /\ call' = "destroy" /\ root = NoAddr
  BY DEF ReleaseTransport, Idle, object, rootVars
<1>3. stack' # << >> /\ Len(stack') = 1 /\ DOMAIN stack' = {1} /\ stack'[1] = t
  BY <1>1 DEF ReleaseTransport
<1>4. /\ Len(held) \in Nat /\ Len(held) > 0
      /\ DOMAIN held = 1..Len(held) /\ Len(held') = Len(held) - 1
      /\ DOMAIN held' = 1..(Len(held) - 1)
      /\ \A i \in DOMAIN held' : held'[i] = held[i]
  BY DEF ReleaseTransport, TypeOK, CallTypeOK
<1>5. /\ DOMAIN stack = {} /\ \A a \in Addr : cursor[a] = 0
      /\ \A a : ~IsDoomed(a)
  BY <1>2, EmptyPath
<1>6. Doomed' = {1} /\ \A a : IsDoomed(a)' <=> a = t
  BY <1>2, <1>3 DEF Doomed, IsDoomed
<1>7. /\ \A p : OwnedChild(p)' = OwnedChild(p)
      /\ \A a, p : IsChildOf(a, p)' = IsChildOf(a, p)
      /\ OwnedPending' = OwnedPending
      /\ \A a : IsPending(a)' = IsPending(a)
  BY <1>2, Frame DEF OwnedPending, IsPending
<1>8. /\ t \in live /\ parent[t] = NoAddr /\ pending = << >> /\ target = NoAddr
      /\ OwnedPending = {}
  BY <1>1, <1>2, <1>4 DEF OwnershipInv, NoDanglingPointer, TopLevelOK, CallOK, OwnedPending
<1>9. \A a : IsHeld(a) <=> IsHeld(a)' \/ a = t
  BY <1>1, <1>4 DEF IsHeld
<1>10. ~IsHeld(t)' /\ ~IsPending(t)' /\ \A p \in live : ~IsChildOf(t, p)
  <2>1. ~IsHeld(t)'
    <3>1. ASSUME NEW i \in DOMAIN held', held'[i] = t PROVE FALSE
      <4>1. i \in DOMAIN held /\ Len(held) \in DOMAIN held /\ i # Len(held)
        BY <1>4
      <4>2. held[i] = held[Len(held)]
        BY <1>1, <3>1, <1>4
      <4>3. QED
        BY <4>1, <4>2 DEF OwnershipInv, TopLevelOK
    <3>2. QED
      BY <3>1 DEF IsHeld
  <2>2. ~IsPending(t)'
    BY <1>7, <1>8 DEF IsPending
  <2>3. ASSUME NEW p \in live, IsChildOf(t, p) PROVE FALSE
    BY <1>8, <2>3, AddrAssumption DEF OwnershipInv, SingleOwner, IsChildOf, TypeOK, HeapTypeOK
  <2>4. QED
    BY <2>1, <2>2, <2>3
<1>11. CellsOK'
  BY <1>2, <1>5 DEF OwnershipInv, CellsOK
<1>12. TopLevelOK'
  BY <1>2, <1>7, <1>8, <1>4 DEF OwnershipInv, TopLevelOK
<1>13. CallOK'
  BY <1>2, <1>3, <1>8 DEF CallOK
<1>14. PathOK'
  BY <1>2, <1>3, <1>6, <1>8, AddrAssumption DEF PathOK, TypeOK, HeapTypeOK
<1>15. NoDanglingPointer'
  BY <1>2, <1>3, <1>7, <1>8, <1>4 DEF OwnershipInv, NoDanglingPointer
<1>16. ParentOutlivesChild'
  BY <1>2 DEF OwnershipInv, ParentOutlivesChild
<1>17. SingleOwner'
  BY <1>2, <1>6, <1>7, <1>10 DEF OwnershipInv, SingleOwner
<1>18. NoLeak'
  BY <1>2, <1>5, <1>6, <1>7, <1>9 DEF OwnershipInv, NoLeak
<1>19. Acyclic'
  BY <1>2 DEF OwnershipInv, Acyclic
<1>20. QED
  BY <1>19, <1>11, <1>12, <1>13, <1>14, <1>15, <1>16, <1>17, <1>18 DEF OwnershipInv

\* What calloc hands out has no parent and no children.
LEMMA FreeCell ==
  ASSUME TypeOK, OwnershipInv, NEW a \in Addr, a \notin live
  PROVE  /\ parent[a] = NoAddr /\ children[a] = << >> /\ ~populated[a]
         /\ OwnedChild(a) = {} /\ \A b : ~IsChildOf(b, a)
<1>1. parent[a] = NoAddr /\ children[a] = << >> /\ ~populated[a]
  BY DEF OwnershipInv, CellsOK
<1>2. OwnedChild(a) = {}
  BY <1>1 DEF OwnedChild
<1>3. QED
  BY <1>1, <1>2 DEF IsChildOf

\* A new object is nobody's parent yet, so it closes no cycle.
LEMMA AcyclicGrows ==
  ASSUME TypeOK, OwnershipInv, NEW a \in Addr \ live, live' = live \cup {a},
         \A b \in live : parent'[b] = parent[b],
         parent'[a] \in live \cup {NoAddr}
  PROVE  Acyclic'
<1>1. SUFFICES ASSUME NEW S \in SUBSET live', S # {}
               PROVE  \E b \in S : parent'[b] \notin S
  BY DEF Acyclic
<1>2. NoAddr \notin live /\ NoAddr # a
  BY AddrAssumption DEF TypeOK, HeapTypeOK
<1>3. \A b \in live : parent[b] # a
  BY <1>2 DEF OwnershipInv, ParentOutlivesChild
<1>4. CASE S \ {a} # {}
  <2>1. PICK b \in S \ {a} : parent[b] \notin S \ {a}
    BY <1>4 DEF OwnershipInv, Acyclic
  <2>2. QED
    BY <1>3, <2>1
<1>5. CASE S = {a}
  BY <1>2, <1>5
<1>6. QED
  BY <1>1, <1>4, <1>5

\* A transport created by the client is held by the client only.
LEMMA CreateTransportOwns ==
  ASSUME TypeOK, OwnershipInv, NEW a \in Addr, CreateTransport(a)
  PROVE  OwnershipInv'
<1>1. /\ UNCHANGED <<parent, children, populated, cursor, root, pending, taken, call, target, stack>>
      /\ call = "idle" /\ root = NoAddr /\ a \notin live /\ live' = live \cup {a}
  BY DEF CreateTransport, Allocate, Idle, rootVars, callVars
<1>2. /\ Len(held) \in Nat /\ DOMAIN held = 1..Len(held)
      /\ DOMAIN held' = 1..(Len(held) + 1)
      /\ held'[Len(held) + 1] = a
      /\ \A i \in DOMAIN held : held'[i] = held[i] /\ held[i] # a
  <2>1. held \in Seq(Addr) /\ held' = Append(held, a)
    BY DEF CreateTransport, TypeOK, CallTypeOK
  <2>2. \A i \in DOMAIN held : held[i] # a
    BY <1>1 DEF OwnershipInv, NoDanglingPointer
  <2>3. QED
    BY <2>1, <2>2
<1>3. /\ DOMAIN stack = {} /\ stack = << >> /\ \A b \in Addr : cursor[b] = 0
      /\ \A b : ~IsDoomed(b)
  BY <1>1, EmptyPath
<1>4. Doomed' = {} /\ \A b : ~IsDoomed(b)'
  BY <1>1, <1>3 DEF Doomed, IsDoomed
<1>5. /\ \A p : OwnedChild(p)' = OwnedChild(p)
      /\ \A b, p : IsChildOf(b, p)' = IsChildOf(b, p)
      /\ OwnedPending' = OwnedPending
      /\ \A b : IsPending(b)' = IsPending(b)
  BY <1>1, Frame DEF OwnedPending, IsPending
<1>6. /\ parent[a] = NoAddr /\ OwnedChild(a) = {} /\ \A b : ~IsChildOf(b, a)
  BY <1>1, FreeCell
<1>7. \A b : IsHeld(b)' <=> IsHeld(b) \/ b = a
  BY <1>2 DEF IsHeld
<1>8. CellsOK'
  BY <1>1 DEF OwnershipInv, CellsOK
<1>9. TopLevelOK'
  BY <1>1, <1>2, <1>5, <1>6 DEF OwnershipInv, TopLevelOK
<1>10. CallOK'
  BY <1>1 DEF OwnershipInv, CallOK
<1>11. PathOK'
  BY <1>1, <1>3, <1>4 DEF PathOK
<1>12. NoDanglingPointer'
  BY <1>1, <1>2, <1>5, <1>6 DEF OwnershipInv, NoDanglingPointer
<1>13. ParentOutlivesChild'
  BY <1>1, <1>6 DEF OwnershipInv, ParentOutlivesChild
<1>14. SingleOwner'
  BY <1>1, <1>4, <1>5, <1>6 DEF OwnershipInv, SingleOwner
<1>15. NoLeak'
  BY <1>1, <1>3, <1>5, <1>7 DEF OwnershipInv, NoLeak
<1>16. Acyclic'
  BY <1>1, AcyclicGrows, <1>6
<1>17. QED
  BY <1>16, <1>8, <1>9, <1>10, <1>11, <1>12, <1>13, <1>14, <1>15 DEF OwnershipInv

\* ykern_root_create moves every held transport to pending, in one step.
LEMMA RootCreateOwns ==
  ASSUME TypeOK, OwnershipInv, NEW a \in Addr, RootCreate(a)
  PROVE  OwnershipInv'
<1>1. /\ UNCHANGED <<parent, children, populated, cursor, taken, call, target, stack>>
      /\ call = "idle" /\ root = NoAddr /\ a \notin live /\ live' = live \cup {a}
      /\ root' = a /\ pending' = held /\ held' = << >>
  BY DEF RootCreate, Allocate, Idle, callVars
<1>2. /\ taken = 0 /\ OwnedPending = {} /\ OwnedPending' = DOMAIN held
      /\ DOMAIN held' = {} /\ Len(pending') \in Nat
  <2>1. taken = 0 /\ pending = << >>
    BY <1>1 DEF OwnershipInv, CellsOK, TopLevelOK, TypeOK, CallTypeOK
  <2>2. held \in Seq(Addr)
    BY DEF TypeOK, CallTypeOK
  <2>3. DOMAIN held = 1..Len(held) /\ Len(held) \in Nat
    BY <2>2
  <2>4. \A i \in DOMAIN held : i > 0
    BY <2>3
  <2>5. OwnedPending = {}
    BY <2>1 DEF OwnedPending
  <2>6. OwnedPending' = DOMAIN held
    BY <1>1, <2>1, <2>4 DEF OwnedPending
  <2>7. QED
    BY <1>1, <2>1, <2>3, <2>5, <2>6
<1>3. /\ DOMAIN stack = {} /\ stack = << >> /\ \A b \in Addr : cursor[b] = 0
      /\ \A b : ~IsDoomed(b)
  BY <1>1, EmptyPath
<1>4. Doomed' = {} /\ \A b : ~IsDoomed(b)'
  BY <1>1, <1>3 DEF Doomed, IsDoomed
<1>5. /\ \A p : OwnedChild(p)' = OwnedChild(p)
      /\ \A b, p : IsChildOf(b, p)' = IsChildOf(b, p)
  BY <1>1, Frame
<1>6. /\ parent[a] = NoAddr /\ OwnedChild(a) = {} /\ \A b : ~IsChildOf(b, a)
      /\ a # NoAddr
  BY <1>1, FreeCell, AddrAssumption
<1>7. \A b : IsPending(b)' <=> IsHeld(b)
  BY <1>1, <1>2 DEF IsHeld, IsPending
<1>8. \A b : ~IsPending(b)
  BY <1>2 DEF IsPending
<1>9. CellsOK'
  BY <1>1, <1>2 DEF OwnershipInv, CellsOK
<1>10. TopLevelOK'
  <2>1. \A i \in DOMAIN held : held[i] # a
    BY <1>1 DEF OwnershipInv, NoDanglingPointer
  <2>2. QED
    BY <1>1, <1>2, <1>6, <2>1 DEF TopLevelOK
<1>11. CallOK'
  BY <1>1 DEF OwnershipInv, CallOK
<1>12. PathOK'
  BY <1>1, <1>3, <1>4 DEF PathOK
<1>13. NoDanglingPointer'
  BY <1>1, <1>2, <1>3, <1>5, <1>6 DEF OwnershipInv, NoDanglingPointer
<1>14. ParentOutlivesChild'
  BY <1>1, <1>6 DEF OwnershipInv, ParentOutlivesChild
<1>15. SingleOwner'
  BY <1>1, <1>2, <1>4, <1>5, <1>6 DEF OwnershipInv, SingleOwner, TopLevelOK
<1>16. NoLeak'
  <2>1. \A b \in live : b # root
    BY <1>1, AddrAssumption DEF TypeOK, HeapTypeOK
  <2>2. QED
    BY <1>1, <1>3, <1>5, <1>7, <1>8, <2>1 DEF OwnershipInv, NoLeak
<1>17. Acyclic'
  BY <1>1, AcyclicGrows, <1>6
<1>18. QED
  BY <1>17, <1>9, <1>10, <1>11, <1>12, <1>13, <1>14, <1>15, <1>16 DEF OwnershipInv

\* What append_child does to the owners: the parent gains exactly one child,
\* all other arrays stay.
LEMMA AppendOwns ==
  ASSUME TypeOK, NEW p \in Addr, NEW c \in Addr, AppendChild(p, c),
         UNCHANGED cursor, cursor[p] <= Len(children[p])
  PROVE  /\ \A q \in Addr \ {p} : children'[q] = children[q] /\ OwnedChild(q)' = OwnedChild(q)
         /\ OwnedChild(p)' = OwnedChild(p) \cup {Len(children[p]) + 1}
         /\ \A i \in OwnedChild(p) : children'[p][i] = children[p][i]
         /\ children'[p][Len(children[p]) + 1] = c
         /\ \A b \in Addr \ {c} : parent'[b] = parent[b]
         /\ parent'[c] = p
         /\ \A q \in Addr : Len(children[q]) <= Len(children'[q])
         /\ \A b, q \in Addr : IsChildOf(b, q)' <=> IsChildOf(b, q) \/ (b = c /\ q = p)
<1>1. children \in [Addr -> Seq(Addr)] /\ parent \in [Addr -> Addr \cup {NoAddr}]
  BY DEF TypeOK, HeapTypeOK
<1>2. cursor[p] \in Nat
  BY DEF TypeOK, HeapTypeOK
<1>3. /\ \A q \in Addr \ {p} : children'[q] = children[q]
      /\ children'[p] = Append(children[p], c)
      /\ \A b \in Addr \ {c} : parent'[b] = parent[b]
      /\ parent'[c] = p
  BY <1>1 DEF AppendChild
<1>4. /\ DOMAIN children'[p] = DOMAIN children[p] \cup {Len(children[p]) + 1}
      /\ \A i \in DOMAIN children[p] : children'[p][i] = children[p][i]
      /\ children'[p][Len(children[p]) + 1] = c
      /\ Len(children[p]) \in Nat /\ Len(children'[p]) = Len(children[p]) + 1
  BY <1>1, <1>3
<1>5. \A q \in Addr \ {p} : OwnedChild(q)' = OwnedChild(q)
  BY <1>3 DEF OwnedChild
<1>6. OwnedChild(p)' = OwnedChild(p) \cup {Len(children[p]) + 1}
  BY <1>2, <1>4 DEF OwnedChild
<1>7. \A i \in OwnedChild(p) : children'[p][i] = children[p][i]
  BY <1>4 DEF OwnedChild
<1>8. \A q \in Addr : Len(children[q]) <= Len(children'[q])
  <2>1. \A q \in Addr : Len(children[q]) \in Nat
    BY <1>1
  <2>2. QED
    BY <1>3, <1>4, <2>1
<1>9. ASSUME NEW b \in Addr, NEW q \in Addr
      PROVE  IsChildOf(b, q)' <=> IsChildOf(b, q) \/ (b = c /\ q = p)
  <2>1. CASE q = p
    BY <2>1, <1>4, <1>6, <1>7 DEF IsChildOf
  <2>2. CASE q # p
    BY <2>2, <1>3, <1>5 DEF IsChildOf
  <2>3. QED
    BY <2>1, <2>2
<1>10. QED
  BY <1>3, <1>4, <1>5, <1>6, <1>7, <1>8, <1>9

\* A child created by populate is owned by the array it is appended to.
LEMMA PopulateNextOwns ==
  ASSUME TypeOK, OwnershipInv, NEW a \in Addr, PopulateNext(a)
  PROVE  OwnershipInv'
<1>1. PICK p : p = target
  OBVIOUS
<1>2. /\ UNCHANGED <<populated, cursor, held, root, pending, taken, call, target, stack>>
      /\ call = "populate" /\ a \notin live /\ live' = live \cup {a}
      /\ AppendChild(p, a)
  BY <1>1 DEF PopulateNext, Populating, Allocate, rootVars
<1>3. p \in Addr /\ p \in live /\ p # a /\ ~populated[p] /\ live \subseteq Addr
  <2>1. p \in Addr /\ live \subseteq Addr
    BY <1>1, <1>2 DEF TypeOK, CallTypeOK, HeapTypeOK
  <2>2. p \in live /\ ~populated[p]
    BY <1>1, <1>2, <2>1, AddrAssumption DEF OwnershipInv, NoDanglingPointer, CallOK
  <2>3. QED
    BY <1>2, <2>1, <2>2
<1>4. /\ DOMAIN stack = {} /\ stack = << >> /\ \A b \in Addr : cursor[b] = 0
      /\ \A b : ~IsDoomed(b)
  BY <1>2, EmptyPath
<1>5. Doomed' = {} /\ \A b : ~IsDoomed(b)'
  BY <1>2, <1>4 DEF Doomed, IsDoomed
<1>6. cursor[p] <= Len(children[p]) /\ \A b \in Addr : cursor[b] <= Len(children[b])
  BY <1>3 DEF OwnershipInv, CellsOK
<1>7. PICK n : n = Len(children[p]) + 1
  OBVIOUS
<1>8. /\ \A q \in Addr \ {p} : children'[q] = children[q] /\ OwnedChild(q)' = OwnedChild(q)
      /\ OwnedChild(p)' = OwnedChild(p) \cup {n}
      /\ \A i \in OwnedChild(p) : children'[p][i] = children[p][i]
      /\ children'[p][n] = a
      /\ \A b \in Addr \ {a} : parent'[b] = parent[b]
      /\ parent'[a] = p
      /\ \A b, q \in Addr : IsChildOf(b, q)' <=> IsChildOf(b, q) \/ (b = a /\ q = p)
  BY <1>2, <1>3, <1>6, <1>7, AppendOwns, Zenon
<1>9. \A q \in Addr : cursor'[q] <= Len(children'[q])
  <2>1. children' \in [Addr -> Seq(Addr)]
    BY <1>2, <1>3, AppendChildType
  <2>2. QED
    BY <1>2, <1>4, <2>1
<1>10. /\ OwnedPending' = OwnedPending
       /\ \A b : IsPending(b)' = IsPending(b) /\ IsHeld(b)' = IsHeld(b)
  BY <1>2 DEF OwnedPending, IsPending, IsHeld
<1>11. /\ OwnedChild(a) = {} /\ \A b : ~IsChildOf(b, a)
  BY <1>2, FreeCell
<1>12. NoDanglingPointer /\ SingleOwner /\ TopLevelOK /\ NoLeak /\ ParentOutlivesChild
  BY DEF OwnershipInv
<1>13. CellsOK'
  <2>1. /\ \A b \in Addr \ live' : parent'[b] = NoAddr /\ children'[b] = << >> /\ ~populated'[b]
    BY <1>2, <1>3, <1>8 DEF OwnershipInv, CellsOK
  <2>2. QED
    BY <1>2, <1>4, <1>9, <2>1 DEF OwnershipInv, CellsOK
<1>14. TopLevelOK'
  BY <1>2, <1>3, <1>8, <1>10, <1>12 DEF TopLevelOK, NoDanglingPointer
<1>15. CallOK'
  BY <1>2 DEF OwnershipInv, CallOK
<1>16. PathOK'
  BY <1>2, <1>4, <1>5 DEF PathOK
<1>17. NoDanglingPointer'
  <2>1. ASSUME NEW q \in live', NEW i \in OwnedChild(q)' PROVE children'[q][i] \in live'
    BY <1>2, <1>3, <1>8, <1>11, <1>12 DEF NoDanglingPointer
  <2>2. QED
    BY <1>2, <1>4, <1>10, <1>12, <2>1 DEF NoDanglingPointer
<1>18. ParentOutlivesChild'
  BY <1>2, <1>3, <1>8, <1>12 DEF ParentOutlivesChild
<1>19. SingleOwner'
  <2>1. ASSUME NEW q \in live', NEW i \in OwnedChild(q)'
        PROVE  /\ parent'[children'[q][i]] = q
               /\ \A j \in OwnedChild(q)' : children'[q][i] = children'[q][j] => i = j
    <3>1. CASE q = p
      BY <1>2, <1>3, <1>8, <1>12, <3>1 DEF NoDanglingPointer, SingleOwner
    <3>2. CASE q # p
      BY <1>2, <1>3, <1>8, <1>11, <1>12, <3>2 DEF NoDanglingPointer, SingleOwner
    <3>3. QED
      BY <3>1, <3>2
  <2>2. ASSUME NEW i \in OwnedPending'
        PROVE  /\ parent'[pending'[i]] = NoAddr
               /\ \A j \in OwnedPending' : pending'[i] = pending'[j] => i = j
    BY <1>2, <1>3, <1>8, <1>10, <1>12 DEF NoDanglingPointer, SingleOwner
  <2>3. QED
    BY <1>5, <2>1, <2>2 DEF SingleOwner
<1>20. NoLeak'
  <2>1. ASSUME NEW b \in live
        PROVE  \/ b = root \/ IsHeld(b) \/ IsPending(b)
               \/ \E q \in live' : parent'[b] = q /\ IsChildOf(b, q)'
    <3>1. b \in Addr /\ b # a
      BY <1>2, <1>3
    <3>2. CASE parent[b] \in live /\ IsChildOf(b, parent[b])
      <4>1. PICK q \in live : q = parent[b]
        BY <3>2
      <4>2. q \in Addr /\ q \in live' /\ IsChildOf(b, q) /\ parent'[b] = q
        BY <1>2, <1>3, <1>8, <3>1, <3>2, <4>1
      <4>3. IsChildOf(b, q)'
        BY <1>8, <3>1, <4>2
      <4>4. QED
        BY <4>2, <4>3
    <3>3. QED
      BY <1>4, <1>12, <3>2 DEF NoLeak
  <2>2. IsChildOf(a, p)' /\ parent'[a] = p /\ p \in live'
    BY <1>2, <1>3, <1>8
  <2>3. ASSUME NEW b \in live'
        PROVE  \/ b = root \/ IsHeld(b) \/ IsPending(b)
               \/ \E q \in live' : parent'[b] = q /\ IsChildOf(b, q)'
    BY <1>2, <2>1, <2>2
  <2>4. QED
    BY <1>2, <1>10, <2>3 DEF NoLeak
<1>21. Acyclic'
  BY <1>2, <1>3, <1>8, AcyclicGrows
<1>22. QED
  BY <1>21, <1>13, <1>14, <1>15, <1>16, <1>17, <1>18, <1>19, <1>20 DEF OwnershipInv

\* Setting children_populated moves no ownership.
LEMMA PopulateDoneOwns ==
  ASSUME TypeOK, OwnershipInv, PopulateDone
  PROVE  OwnershipInv'
<1>1. /\ UNCHANGED <<live, parent, children, cursor, held, root, pending, taken, stack>>
      /\ call = "populate" /\ call' = "idle" /\ target' = NoAddr
      /\ target \in live /\ populated' = [populated EXCEPT ![target] = TRUE]
  BY AddrAssumption
     DEF PopulateDone, Populating, EndCall, rootVars, TypeOK, CallTypeOK, OwnershipInv, NoDanglingPointer
<1>2. \A b \in Addr \ live : populated'[b] = populated[b]
  BY <1>1 DEF TypeOK, HeapTypeOK
<1>3. /\ DOMAIN stack = {} /\ stack = << >> /\ \A b \in Addr : cursor[b] = 0
      /\ \A b : ~IsDoomed(b)
  BY <1>1, EmptyPath
<1>4. Doomed' = {} /\ \A b : ~IsDoomed(b)'
  BY <1>1, <1>3 DEF Doomed, IsDoomed
<1>5. /\ \A p : OwnedChild(p)' = OwnedChild(p)
      /\ \A b, p : IsChildOf(b, p)' = IsChildOf(b, p)
      /\ OwnedPending' = OwnedPending
      /\ \A b : IsPending(b)' = IsPending(b) /\ IsHeld(b)' = IsHeld(b)
  BY <1>1, Frame DEF OwnedPending, IsPending, IsHeld
<1>6. CellsOK'
  BY <1>1, <1>2 DEF OwnershipInv, CellsOK
<1>7. TopLevelOK'
  BY <1>1, <1>5 DEF OwnershipInv, TopLevelOK
<1>8. CallOK'
  BY <1>1, <1>3 DEF CallOK
<1>9. PathOK'
  BY <1>1, <1>3, <1>4 DEF PathOK
<1>10. NoDanglingPointer'
  BY <1>1, <1>3, <1>5 DEF OwnershipInv, NoDanglingPointer
<1>11. ParentOutlivesChild'
  BY <1>1 DEF OwnershipInv, ParentOutlivesChild
<1>12. SingleOwner'
  BY <1>1, <1>4, <1>5 DEF OwnershipInv, SingleOwner
<1>13. NoLeak'
  BY <1>1, <1>3, <1>5 DEF OwnershipInv, NoLeak
<1>14. Acyclic'
  BY <1>1 DEF OwnershipInv, Acyclic
<1>15. QED
  BY <1>14, <1>6, <1>7, <1>8, <1>9, <1>10, <1>11, <1>12, <1>13 DEF OwnershipInv

\* root_populate_children moves a transport from pending to the children:
\* one owner before, one after.
LEMMA RootPopulateNextOwns ==
  ASSUME TypeOK, OwnershipInv, RootPopulateNext
  PROVE  OwnershipInv'
<1>1. PICK c, m : m = taken + 1 /\ c = pending[m]
  OBVIOUS
<1>2. /\ UNCHANGED <<live, node, populated, cursor, held, root, pending, call, target, made, stack>>
      /\ call = "populate" /\ target = root /\ taken < Len(pending) /\ taken' = m
      /\ AppendChild(root, c)
  BY <1>1 DEF RootPopulateNext, PopulatingRoot, callVars
<1>3. /\ root \in Addr /\ root \in live /\ ~populated[root] /\ live \subseteq Addr
      /\ NoAddr \notin Addr /\ held = << >> /\ parent[root] = NoAddr
  <2>1. root \in Addr /\ live \subseteq Addr
    BY <1>2 DEF TypeOK, CallTypeOK, HeapTypeOK
  <2>2. root \in live /\ ~populated[root]
    BY <1>2, <2>1, AddrAssumption DEF OwnershipInv, NoDanglingPointer, CallOK
  <2>3. held = << >> /\ parent[root] = NoAddr
    BY <2>1, AddrAssumption DEF OwnershipInv, TopLevelOK
  <2>4. QED
    BY <2>1, <2>2, <2>3, AddrAssumption
<1>4. NoDanglingPointer /\ SingleOwner /\ TopLevelOK /\ NoLeak /\ ParentOutlivesChild
  BY DEF OwnershipInv
<1>5. m \in OwnedPending /\ OwnedPending' = OwnedPending \ {m} /\ m \in Nat /\ m <= Len(pending)
  BY <1>1, <1>2 DEF OwnedPending, TypeOK, CallTypeOK
<1>6. /\ c \in live /\ c \in Addr /\ c # root /\ parent[c] = NoAddr
      /\ \A i \in OwnedPending \ {m} : pending[i] # c
  BY <1>1, <1>3, <1>4, <1>5 DEF NoDanglingPointer, SingleOwner, TopLevelOK
<1>7. \A q \in live : ~IsChildOf(c, q)
  BY <1>3, <1>4, <1>6 DEF SingleOwner, IsChildOf
<1>8. /\ DOMAIN stack = {} /\ stack = << >> /\ \A b \in Addr : cursor[b] = 0
      /\ \A b : ~IsDoomed(b)
  BY <1>2, EmptyPath
<1>9. Doomed' = {} /\ \A b : ~IsDoomed(b)'
  BY <1>2, <1>8 DEF Doomed, IsDoomed
<1>10. cursor[root] <= Len(children[root]) /\ \A b \in Addr : cursor[b] <= Len(children[b])
  BY <1>3 DEF OwnershipInv, CellsOK
<1>11. PICK n : n = Len(children[root]) + 1
  OBVIOUS
<1>12. /\ \A q \in Addr \ {root} : children'[q] = children[q] /\ OwnedChild(q)' = OwnedChild(q)
       /\ OwnedChild(root)' = OwnedChild(root) \cup {n}
       /\ \A i \in OwnedChild(root) : children'[root][i] = children[root][i]
       /\ children'[root][n] = c
       /\ \A b \in Addr \ {c} : parent'[b] = parent[b]
       /\ parent'[c] = root
       /\ \A b, q \in Addr : IsChildOf(b, q)' <=> IsChildOf(b, q) \/ (b = c /\ q = root)
  <2>1. UNCHANGED cursor
    BY <1>2
  <2>2. PICK r \in Addr : r = root
    BY <1>3
  <2>3. c \in Addr /\ AppendChild(r, c) /\ cursor[r] <= Len(children[r])
    BY <1>2, <1>6, <1>10, <2>2
  <2>4. /\ \A q \in Addr \ {r} : children'[q] = children[q] /\ OwnedChild(q)' = OwnedChild(q)
        /\ OwnedChild(r)' = OwnedChild(r) \cup {Len(children[r]) + 1}
        /\ \A i \in OwnedChild(r) : children'[r][i] = children[r][i]
        /\ children'[r][Len(children[r]) + 1] = c
        /\ \A b \in Addr \ {c} : parent'[b] = parent[b]
        /\ parent'[c] = r
        /\ \A b, q \in Addr : IsChildOf(b, q)' <=> IsChildOf(b, q) \/ (b = c /\ q = r)
    BY <2>1, <2>3, AppendOwns
  <2>5. root' = root /\ n = Len(children[r]) + 1
    BY <1>2, <1>11, <2>2
  <2>6. OwnedChild(root)' = OwnedChild(r)'
    BY <2>2, <2>5 DEF OwnedChild
  <2>7. QED
    BY <2>2, <2>4, <2>5, <2>6, Zenon
<1>13. \A q \in Addr : cursor'[q] <= Len(children'[q])
  <2>1. children' \in [Addr -> Seq(Addr)]
    BY <1>2, <1>3, <1>6, AppendChildType
  <2>2. QED
    BY <1>2, <1>8, <2>1
<1>14. /\ \A b : IsHeld(b)' = IsHeld(b)
       /\ \A b : IsPending(b) <=> IsPending(b)' \/ b = c
  <2>1. \A b : IsHeld(b)' = IsHeld(b)
    BY <1>2 DEF IsHeld
  <2>2. \A b : IsPending(b)' <=> \E i \in OwnedPending \ {m} : pending[i] = b
    BY <1>2, <1>5 DEF IsPending
  <2>3. QED
    BY <1>1, <1>5, <2>1, <2>2 DEF IsPending
<1>15. CellsOK'
  <2>1. /\ \A b \in Addr \ live' : parent'[b] = NoAddr /\ children'[b] = << >> /\ ~populated'[b]
    BY <1>2, <1>3, <1>12, <1>6 DEF OwnershipInv, CellsOK
  <2>2. taken' <= Len(pending')
    BY <1>2, <1>5
  <2>3. QED
    BY <1>2, <1>8, <1>13, <2>1, <2>2 DEF CellsOK
<1>16. TopLevelOK'
  BY <1>2, <1>3, <1>12, <1>6, <1>5, <1>4 DEF TopLevelOK
<1>17. CallOK'
  BY <1>2 DEF OwnershipInv, CallOK
<1>18. PathOK'
  BY <1>2, <1>8, <1>9 DEF PathOK
<1>19. NoDanglingPointer'
  <2>1. ASSUME NEW q \in live', NEW i \in OwnedChild(q)' PROVE children'[q][i] \in live'
    BY <1>2, <1>3, <1>12, <1>6, <1>4 DEF NoDanglingPointer
  <2>2. QED
    BY <1>2, <1>8, <1>5, <1>4, <2>1 DEF NoDanglingPointer
<1>20. ParentOutlivesChild'
  BY <1>2, <1>3, <1>12, <1>4 DEF ParentOutlivesChild
<1>21. SingleOwner'
  <2>1. ASSUME NEW q \in live', NEW i \in OwnedChild(q)'
        PROVE  /\ parent'[children'[q][i]] = q
               /\ \A j \in OwnedChild(q)' : children'[q][i] = children'[q][j] => i = j
    <3>1. \A j \in OwnedChild(q) : children[q][j] # c /\ children[q][j] \in Addr
      BY <1>2, <1>3, <1>7, <1>4 DEF IsChildOf, NoDanglingPointer
    <3>2. CASE q = root
      BY <1>2, <1>3, <1>12, <1>4, <3>1, <3>2 DEF SingleOwner
    <3>3. CASE q # root
      BY <1>2, <1>3, <1>12, <1>4, <3>1, <3>3 DEF SingleOwner
    <3>4. QED
      BY <3>2, <3>3
  <2>2. ASSUME NEW i \in OwnedPending'
        PROVE  /\ parent'[pending'[i]] = NoAddr
               /\ \A j \in OwnedPending' : pending'[i] = pending'[j] => i = j
    BY <1>2, <1>3, <1>12, <1>5, <1>6, <1>4 DEF NoDanglingPointer, SingleOwner
  <2>3. QED
    BY <1>9, <2>1, <2>2 DEF SingleOwner
<1>22. NoLeak'
  <2>1. ASSUME NEW b \in live
        PROVE  \/ b = root \/ IsHeld(b) \/ IsPending(b)'
               \/ \E q \in live' : parent'[b] = q /\ IsChildOf(b, q)'
    <3>1. CASE b = c
      BY <1>2, <1>3, <1>12, <1>6, <3>1
    <3>2. CASE b # c /\ parent[b] \in live /\ IsChildOf(b, parent[b])
      <4>1. PICK q \in live : q = parent[b]
        BY <3>2
      <4>2. q \in Addr /\ q \in live' /\ IsChildOf(b, q) /\ parent'[b] = q
        BY <1>2, <1>3, <1>12, <3>2, <4>1
      <4>3. IsChildOf(b, q)'
        BY <1>3, <1>12, <4>2
      <4>4. QED
        BY <4>2, <4>3
    <3>3. QED
      BY <1>8, <1>14, <1>4, <3>1, <3>2 DEF NoLeak
  <2>2. QED
    BY <1>2, <1>14, <2>1 DEF NoLeak
<1>23. Acyclic'
  <2>1. SUFFICES ASSUME NEW S \in SUBSET live', S # {}
                 PROVE  \E b \in S : parent'[b] \notin S
    BY DEF Acyclic
  <2>2. S \subseteq Addr /\ S \in SUBSET live
    BY <1>2, <1>3
  <2>3. CASE root \in S
    BY <1>3, <1>12, <1>6, <2>2, <2>3
  <2>4. CASE root \notin S
    <3>1. PICK b \in S : parent[b] \notin S
      BY <2>1, <2>2 DEF OwnershipInv, Acyclic
    <3>2. QED
      BY <1>12, <2>2, <2>4, <3>1
  <2>5. QED
    BY <2>3, <2>4
<1>24. QED
  BY <1>15, <1>16, <1>17, <1>18, <1>19, <1>20, <1>21, <1>22, <1>23 DEF OwnershipInv

\* pending is emptied only when each of its entries was moved or destroyed.
LEMMA PendingDoneOwns ==
  ASSUME TypeOK, OwnershipInv, RootPopulateDone \/ SurrenderDone
  PROVE  OwnershipInv'
<1>1. /\ UNCHANGED <<live, parent, children, cursor, held, root, stack>>
      /\ call \in {"populate", "surrender"} /\ call' = "idle" /\ target' = NoAddr
      /\ taken = Len(pending) /\ pending' = << >> /\ taken' = 0
      /\ stack = << >>
  <2>1. CASE RootPopulateDone
    <3>1. call = "populate"
      BY <2>1 DEF RootPopulateDone, PopulatingRoot
    <3>2. stack = << >>
      BY <3>1 DEF OwnershipInv, CallOK
    <3>3. QED
      BY <2>1, <3>1, <3>2 DEF RootPopulateDone, EndCall
  <2>2. CASE SurrenderDone
    BY <2>2 DEF SurrenderDone, EndCall, object
  <2>3. QED
    BY <2>1, <2>2
<1>2. \A b \in Addr \ live : populated'[b] = populated[b]
  <2>1. CASE RootPopulateDone
    <3>1. root \in live
      BY <2>1, AddrAssumption
         DEF RootPopulateDone, PopulatingRoot, OwnershipInv, NoDanglingPointer, TypeOK, CallTypeOK
    <3>2. QED
      BY <2>1, <3>1 DEF RootPopulateDone, TypeOK, HeapTypeOK
  <2>2. CASE SurrenderDone
    BY <2>2 DEF SurrenderDone, object
  <2>3. QED
    BY <2>1, <2>2
<1>3. DOMAIN stack = {} /\ Doomed = {} /\ Doomed' = {}
  BY <1>1 DEF Doomed
<1>4. \A b : ~IsDoomed(b) /\ ~IsDoomed(b)'
  BY <1>3 DEF IsDoomed
<1>5. OwnedPending = {} /\ OwnedPending' = {} /\ Len(pending') = 0
  BY <1>1 DEF OwnedPending, TypeOK, CallTypeOK
<1>6. /\ \A p : OwnedChild(p)' = OwnedChild(p)
      /\ \A b, p : IsChildOf(b, p)' = IsChildOf(b, p)
      /\ \A b : ~IsPending(b) /\ ~IsPending(b)' /\ IsHeld(b)' = IsHeld(b)
  BY <1>1, <1>5, Frame DEF IsPending, IsHeld
<1>7. CellsOK'
  BY <1>1, <1>2, <1>5 DEF OwnershipInv, CellsOK
<1>8. TopLevelOK'
  BY <1>1, <1>5 DEF OwnershipInv, TopLevelOK
<1>9. CallOK'
  BY <1>1 DEF CallOK
<1>10. PathOK'
  BY <1>1, <1>3 DEF PathOK
<1>11. NoDanglingPointer'
  BY <1>1, <1>3, <1>5, <1>6 DEF OwnershipInv, NoDanglingPointer
<1>12. ParentOutlivesChild'
  BY <1>1 DEF OwnershipInv, ParentOutlivesChild
<1>13. SingleOwner'
  BY <1>1, <1>4, <1>5, <1>6 DEF OwnershipInv, SingleOwner
<1>14. NoLeak'
  BY <1>1, <1>4, <1>6 DEF OwnershipInv, NoLeak
<1>15. Acyclic'
  BY <1>1 DEF OwnershipInv, Acyclic
<1>16. QED
  BY <1>7, <1>8, <1>9, <1>10, <1>11, <1>12, <1>13, <1>14, <1>15 DEF OwnershipInv

\* The object on top of the destroy path will be freed unless it is the one
\* refresh was called on; the root gets there only in its own destruction.
LEMMA TopDoomed ==
  ASSUME TypeOK, OwnershipInv, stack # << >>, ~OnlyDropped
  PROVE  /\ 1 \in Doomed /\ Top = stack[1] /\ Top \in live /\ IsDoomed(Top)
         /\ Top = root => call = "destroy" /\ Len(stack) = 1
<1>1. stack \in Seq(Addr) /\ call \in Call
  BY DEF TypeOK, CallTypeOK
<1>2. /\ Len(stack) \in Nat /\ Len(stack) >= 1 /\ 1 \in DOMAIN stack
      /\ DOMAIN stack = 1..Len(stack) /\ Top = stack[1]
  BY <1>1 DEF Top
<1>3. 1 \in Doomed
  <2>1. CASE call = "refresh" /\ Len(stack) = 1
    <3>1. stack[1] = target
      BY <2>1 DEF OwnershipInv, CallOK
    <3>2. stack = <<target>>
      BY <1>1, <2>1, <3>1
    <3>3. QED
      BY <2>1, <3>2 DEF OnlyDropped
  <2>2. CASE ~(call = "refresh" /\ Len(stack) = 1)
    BY <1>2, <2>2 DEF Doomed
  <2>3. QED
    BY <2>1, <2>2
<1>4. stack[1] \in live
  BY <1>2 DEF OwnershipInv, NoDanglingPointer
<1>5. IsDoomed(stack[1])
  BY <1>3 DEF IsDoomed
<1>6. stack[1] = root => call = "destroy" /\ Len(stack) = 1
  BY <1>3 DEF OwnershipInv, PathOK
<1>7. QED
  BY <1>2, <1>3, <1>4, <1>5, <1>6

\* Putting an object on the destroy path dooms that object and no other, and
\* keeps the path a chain of parents.
LEMMA Push ==
  ASSUME TypeOK, OwnershipInv, NEW x \in Addr, stack' = <<x>> \o stack,
         UNCHANGED <<call, target, parent, root, populated>>,
         call \notin {"idle", "populate"},
         x # root, \A k \in DOMAIN stack : stack[k] # x,
         parent[x] # NoAddr \/ call = "refresh" => stack # << >> /\ stack[1] = parent[x]
  PROVE  /\ CallOK' /\ PathOK'
         /\ \A b : (\E k \in DOMAIN stack' : stack'[k] = b) <=>
                     b = x \/ \E k \in DOMAIN stack : stack[k] = b
         /\ \A b : IsDoomed(b)' <=> IsDoomed(b) \/ b = x
<1>1. stack \in Seq(Addr)
  BY DEF TypeOK, CallTypeOK
<1>2. PICK n \in Nat : n = Len(stack)
  BY <1>1
<1>3. /\ DOMAIN stack = 1..n /\ DOMAIN stack' = 1..(n + 1) /\ Len(stack') = n + 1
      /\ stack'[1] = x
      /\ \A k \in 1..n : stack'[k + 1] = stack[k]
      /\ stack' # << >>
  BY <1>1, <1>2
<1>4. call = "refresh" => n > 0 /\ stack[n] = target
  BY <1>1, <1>2 DEF OwnershipInv, CallOK
<1>5. /\ Doomed = {k \in 1..n : call = "refresh" => k < n}
      /\ Doomed' = {k \in 1..(n + 1) : call = "refresh" => k < n + 1}
  BY <1>2, <1>3 DEF Doomed
<1>6. /\ 1 \in Doomed' /\ \A k \in Doomed : k + 1 \in Doomed'
      /\ \A k \in Doomed' : k # 1 => k - 1 \in Doomed
  BY <1>2, <1>4, <1>5
<1>7. \A k \in 1..(n + 1) : k # 1 => k - 1 \in 1..n /\ stack'[k] = stack[k - 1]
  <2>1. ASSUME NEW k \in 1..(n + 1), k # 1
        PROVE  k - 1 \in 1..n /\ stack'[k] = stack[k - 1]
    <3>1. PICK j : j = k - 1
      OBVIOUS
    <3>2. j \in 1..n /\ j + 1 = k
      BY <2>1, <3>1, <1>2
    <3>3. QED
      BY <1>3, <3>1, <3>2
  <2>2. QED
    BY <2>1
<1>8. \A b : (\E k \in DOMAIN stack' : stack'[k] = b) <=>
                     b = x \/ \E k \in DOMAIN stack : stack[k] = b
  <2>1. ASSUME NEW b, NEW k \in DOMAIN stack', stack'[k] = b
        PROVE  b = x \/ \E j \in DOMAIN stack : stack[j] = b
    BY <2>1, <1>3, <1>7
  <2>2. ASSUME NEW b, NEW k \in DOMAIN stack, stack[k] = b
        PROVE  \E j \in DOMAIN stack' : stack'[j] = b
    <3>1. k + 1 \in 1..(n + 1)
      BY <1>2, <1>3
    <3>2. QED
      BY <2>2, <1>3, <3>1
  <2>3. 1 \in DOMAIN stack'
    BY <1>2, <1>3
  <2>4. QED
    BY <1>3, <2>1, <2>2, <2>3
<1>9. \A b : IsDoomed(b)' <=> IsDoomed(b) \/ b = x
  <2>1. ASSUME NEW b, NEW k \in Doomed', stack'[k] = b
        PROVE  b = x \/ \E j \in Doomed : stack[j] = b
    <3>1. k \in 1..(n + 1)
      BY <1>5
    <3>2. QED
      BY <2>1, <1>3, <1>6, <1>7, <3>1
  <2>2. ASSUME NEW b, NEW k \in Doomed, stack[k] = b
        PROVE  \E j \in Doomed' : stack'[j] = b
    <3>1. k + 1 \in Doomed' /\ k \in 1..n
      BY <1>5, <1>6
    <3>2. QED
      BY <2>2, <1>3, <3>1
  <2>3. QED
    BY <1>3, <1>6, <2>1, <2>2 DEF IsDoomed
<1>10. CallOK'
  BY <1>2, <1>3, <1>4 DEF OwnershipInv, CallOK
<1>11. PathOK'
  <2>1. ASSUME NEW k \in 1..(n + 1), NEW m \in 1..(n + 1), stack'[k] = stack'[m]
        PROVE  k = m
    <3>0. ASSUME NEW j \in 1..(n + 1), j # 1
          PROVE  stack'[j] # x
      <4>1. j - 1 \in 1..n /\ stack'[j] = stack[j - 1]
        BY <1>7, <3>0
      <4>2. j - 1 \in DOMAIN stack
        BY <1>3, <4>1
      <4>3. QED
        BY <4>1, <4>2
    <3>1. CASE k = 1 \/ m = 1
      BY <1>3, <2>1, <3>0, <3>1
    <3>2. CASE k # 1 /\ m # 1
      <4>1. PICK i, j : i = k - 1 /\ j = m - 1
        OBVIOUS
      <4>2. i \in 1..n /\ j \in 1..n /\ stack[i] = stack[j]
        BY <1>7, <2>1, <3>2, <4>1
      <4>3. i = j
        BY <1>3, <4>2 DEF OwnershipInv, PathOK
      <4>4. QED
        BY <4>1, <4>3
    <3>3. QED
      BY <3>1, <3>2
  <2>2. ASSUME NEW k \in Doomed'
        PROVE  /\ parent[stack'[k]] # NoAddr \/ call = "refresh" =>
                     k < n + 1 /\ stack'[k + 1] = parent[stack'[k]]
               /\ stack'[k] = root => call = "destroy" /\ k = n + 1
    <3>1. CASE k = 1
      <4>1. stack # << >> => n > 0 /\ 1 \in 1..n /\ stack'[2] = stack[1]
        BY <1>1, <1>2, <1>3
      <4>2. QED
        BY <1>2, <1>3, <3>1, <4>1
    <3>2. CASE k # 1
      <4>1. PICK j : j = k - 1
        OBVIOUS
      <4>2. j \in Doomed /\ k \in 1..(n + 1)
        BY <1>5, <1>6, <3>2, <4>1
      <4>3. j \in 1..n /\ stack'[k] = stack[j] /\ k = j + 1
        BY <1>2, <1>7, <3>2, <4>1, <4>2
      <4>4. /\ parent[stack[j]] # NoAddr \/ call = "refresh" =>
                     j < n /\ stack[j + 1] = parent[stack[j]]
            /\ stack[j] = root => call = "destroy" /\ j = n
        BY <1>2, <4>2 DEF OwnershipInv, PathOK
      <4>5. j < n => stack'[k + 1] = stack[j + 1]
        <5>1. j < n => k \in 1..n
          BY <1>2, <4>3
        <5>2. QED
          BY <1>3, <4>3, <5>1
      <4>6. QED
        BY <1>2, <4>3, <4>4, <4>5
    <3>3. QED
      BY <3>1, <3>2
  <2>3. \A k, m \in DOMAIN stack' : stack'[k] = stack'[m] => k = m
    BY <1>3, <2>1
  <2>4. \A k \in Doomed' :
           /\ parent'[stack'[k]] # NoAddr \/ call' = "refresh" =>
                 k < Len(stack') /\ stack'[k + 1] = parent'[stack'[k]]
           /\ stack'[k] = root' => call' = "destroy" /\ k = Len(stack')
    BY <1>3, <2>2
  <2>5. QED
    BY <2>3, <2>4 DEF PathOK
<1>12. QED
  BY <1>8, <1>9, <1>10, <1>11

\* A transport left in pending goes to the destroy path, after a failed append
\* as well as when the root is destroyed.
LEMMA ToDestroyOwns ==
  ASSUME TypeOK, OwnershipInv, Surrender \/ DestroyPending
  PROVE  OwnershipInv'
<1>1. PICK x, m : m = taken + 1 /\ x = pending[m]
  OBVIOUS
<1>2. /\ UNCHANGED <<live, parent, children, populated, cursor, held, root, pending, call, target>>
      /\ taken < Len(pending) /\ taken' = m /\ stack' = <<x>> \o stack
      /\ call \notin {"idle", "populate", "refresh"} /\ root # NoAddr
      /\ \A k \in DOMAIN stack : stack[k] = root
  <2>1. CASE Surrender
    <3>1. root # NoAddr
      BY <2>1, AddrAssumption DEF Surrender, OwnershipInv, CallOK, TypeOK, CallTypeOK
    <3>2. stack = << >> /\ stack' = <<x>>
      BY <1>1, <2>1 DEF Surrender
    <3>3. stack' = <<x>> \o stack /\ DOMAIN stack = {}
      BY <3>2
    <3>4. QED
      BY <1>1, <2>1, <3>1, <3>3 DEF Surrender, object
  <2>2. CASE DestroyPending
    <3>1. call = "destroy" /\ Len(stack) = 1 /\ Top = root
      BY <2>2, TopDoomed DEF DestroyPending
    <3>2. \A k \in DOMAIN stack : stack[k] = root
      BY <3>1 DEF Top, TypeOK, CallTypeOK
    <3>3. root # NoAddr
      BY <2>2, <3>1, TopDoomed, AddrAssumption DEF DestroyPending, TypeOK, HeapTypeOK
    <3>4. QED
      BY <1>1, <2>2, <3>1, <3>2, <3>3 DEF DestroyPending, object
  <2>3. QED
    BY <2>1, <2>2
<1>3. NoDanglingPointer /\ SingleOwner /\ TopLevelOK /\ NoLeak
  BY DEF OwnershipInv
<1>4. m \in OwnedPending /\ OwnedPending' = OwnedPending \ {m} /\ m \in Nat /\ m <= Len(pending)
  BY <1>1, <1>2 DEF OwnedPending, TypeOK, CallTypeOK
<1>5. /\ x \in live /\ x \in Addr /\ x # root /\ parent[x] = NoAddr /\ held = << >>
      /\ NoAddr \notin live
      /\ \A i \in OwnedPending \ {m} : pending[i] # x
  BY <1>1, <1>2, <1>3, <1>4, AddrAssumption
     DEF NoDanglingPointer, SingleOwner, TopLevelOK, TypeOK, HeapTypeOK
<1>6. /\ CallOK' /\ PathOK'
      /\ \A b : (\E k \in DOMAIN stack' : stack'[k] = b) <=>
                     b = x \/ \E k \in DOMAIN stack : stack[k] = b
      /\ \A b : IsDoomed(b)' <=> IsDoomed(b) \/ b = x
  <2>1. \A k \in DOMAIN stack : stack[k] # x
    BY <1>2, <1>5
  <2>2. /\ call \notin {"idle", "populate"} /\ ~(parent[x] # NoAddr \/ call = "refresh")
        /\ UNCHANGED <<call, target, parent, root, populated>>
    BY <1>2, <1>5
  <2>3. QED
    BY <1>2, <1>5, <2>1, <2>2, Push
<1>7. /\ \A p : OwnedChild(p)' = OwnedChild(p)
      /\ \A b, p : IsChildOf(b, p)' = IsChildOf(b, p)
      /\ \A b : IsHeld(b)' = IsHeld(b)
  BY <1>2, Frame DEF IsHeld
<1>8. /\ \A b : IsPending(b)' <=> \E i \in OwnedPending \ {m} : pending[i] = b
      /\ \A b : IsPending(b) <=> IsPending(b)' \/ b = x
  <2>1. \A b : IsPending(b)' <=> \E i \in OwnedPending \ {m} : pending[i] = b
    BY <1>2, <1>4 DEF IsPending
  <2>2. QED
    BY <1>1, <1>4, <2>1 DEF IsPending
<1>9. ~IsHeld(x) /\ ~IsPending(x)' /\ \A q \in live : ~IsChildOf(x, q)
  <2>1. ~IsHeld(x) /\ ~IsPending(x)'
    BY <1>5, <1>8 DEF IsHeld
  <2>2. ASSUME NEW q \in live, IsChildOf(x, q) PROVE FALSE
    BY <1>3, <1>5, <2>2 DEF SingleOwner, IsChildOf
  <2>3. QED
    BY <2>1, <2>2
<1>10. CellsOK'
  <2>1. taken' <= Len(pending')
    BY <1>2, <1>4
  <2>2. QED
    BY <1>2, <1>6, <2>1 DEF OwnershipInv, CellsOK
<1>11. TopLevelOK'
  BY <1>2, <1>3, <1>4 DEF TopLevelOK
<1>12. NoDanglingPointer'
  <2>1. \A k \in DOMAIN stack' : stack'[k] \in live
    BY <1>3, <1>5, <1>6 DEF NoDanglingPointer
  <2>2. QED
    BY <1>2, <1>3, <1>4, <1>7, <2>1 DEF NoDanglingPointer
<1>13. ParentOutlivesChild'
  BY <1>2 DEF OwnershipInv, ParentOutlivesChild
<1>14. SingleOwner'
  <2>1. ASSUME NEW b \in live, IsDoomed(b)'
        PROVE  ~IsHeld(b)' /\ ~IsPending(b)' /\ \A p \in live : ~IsChildOf(b, p)'
    BY <1>3, <1>6, <1>7, <1>8, <1>9, <2>1 DEF SingleOwner
  <2>2. QED
    BY <1>2, <1>3, <1>4, <1>7, <2>1 DEF SingleOwner
<1>15. NoLeak'
  BY <1>2, <1>3, <1>6, <1>7, <1>8 DEF NoLeak
<1>16. Acyclic'
  BY <1>2 DEF OwnershipInv, Acyclic
<1>17. QED
  BY <1>6, <1>10, <1>11, <1>12, <1>13, <1>14, <1>15, <1>16 DEF OwnershipInv

\* drop_children takes the next child out of its array's ownership as it
\* destroys it.  The child is not on the path already: it had an owner, and no
\* object is its own ancestor.
LEMMA DropNextOwns ==
  ASSUME TypeOK, OwnershipInv, DropNext
  PROVE  OwnershipInv'
<1>1. PICK p, m, x : p = Top /\ m = cursor[p] + 1 /\ x = children[p][m]
  OBVIOUS
<1>2. /\ UNCHANGED <<live, parent, children, populated, held, root, pending, taken, call, target>>
      /\ stack # << >> /\ stack' = <<x>> \o stack
      /\ cursor[p] < Len(children[p])
      /\ cursor' = [cursor EXCEPT ![p] = m]
  BY <1>1 DEF DropNext, rootVars, ChildrenLeft
<1>3. /\ p \in live /\ p \in Addr /\ p = stack[1] /\ 1 \in DOMAIN stack
      /\ call \notin {"idle", "populate"} /\ NoAddr \notin live /\ live \subseteq Addr
  <2>1. p = stack[1] /\ 1 \in DOMAIN stack
    BY <1>1, <1>2 DEF Top, TypeOK, CallTypeOK
  <2>2. p \in live /\ call \notin {"idle", "populate"}
    BY <1>2, <2>1 DEF OwnershipInv, NoDanglingPointer, CallOK
  <2>3. QED
    BY <2>1, <2>2, AddrAssumption DEF TypeOK, HeapTypeOK
<1>4. NoDanglingPointer /\ SingleOwner /\ TopLevelOK /\ NoLeak
  BY DEF OwnershipInv
<1>5. /\ \A q \in Addr \ {p} : cursor'[q] = cursor[q] /\ OwnedChild(q)' = OwnedChild(q)
      /\ OwnedChild(p)' = OwnedChild(p) \ {m} /\ m \in OwnedChild(p)
      /\ cursor'[p] = m /\ m \in Nat /\ m <= Len(children[p])
  <2>1. cursor \in [Addr -> Nat] /\ children[p] \in Seq(Addr)
    BY <1>3 DEF TypeOK, HeapTypeOK
  <2>2. \A q \in Addr \ {p} : cursor'[q] = cursor[q]
    BY <1>2, <2>1
  <2>3. cursor'[p] = m
    BY <1>2, <1>3, <2>1
  <2>4. \A q \in Addr \ {p} : OwnedChild(q)' = OwnedChild(q)
    BY <1>2, <2>2 DEF OwnedChild
  <2>5. m \in OwnedChild(p) /\ OwnedChild(p)' = OwnedChild(p) \ {m} /\ m \in Nat /\ m <= Len(children[p])
    BY <1>1, <1>2, <1>3, <2>1, <2>3 DEF OwnedChild
  <2>6. QED
    BY <2>2, <2>3, <2>4, <2>5
<1>6. /\ x \in live /\ parent[x] = p /\ x # root /\ IsChildOf(x, p)
      /\ \A i \in OwnedChild(p) \ {m} : children[p][i] # x
  <2>1. x \in live /\ parent[x] = p /\ \A i \in OwnedChild(p) \ {m} : children[p][i] # x
    BY <1>1, <1>3, <1>4, <1>5 DEF NoDanglingPointer, SingleOwner
  <2>2. x # root
    BY <1>3, <1>4, <2>1 DEF TopLevelOK
  <2>3. IsChildOf(x, p)
    BY <1>1, <1>5 DEF IsChildOf
  <2>4. QED
    BY <2>1, <2>2, <2>3
<1>7. \A k \in DOMAIN stack : stack[k] # x
  <2>1. SUFFICES ASSUME NEW k \in DOMAIN stack, stack[k] = x PROVE FALSE
    OBVIOUS
  <2>2. k \notin Doomed
    BY <1>3, <1>4, <1>6, <2>1 DEF SingleOwner, IsDoomed
  <2>3. PICK n \in Nat : n = Len(stack) /\ DOMAIN stack = 1..n
    BY DEF TypeOK, CallTypeOK
  <2>4. call = "refresh" /\ k = n /\ Doomed = 1..(n - 1)
    BY <2>1, <2>2, <2>3 DEF Doomed
  <2>5. PICK S : S = {stack[j] : j \in DOMAIN stack}
    OBVIOUS
  <2>6. S \in SUBSET live /\ S # {}
    BY <1>3, <1>4, <2>5 DEF NoDanglingPointer
  <2>7. PICK b \in S : parent[b] \notin S
    BY <2>6 DEF OwnershipInv, Acyclic
  <2>8. PICK j \in DOMAIN stack : b = stack[j]
    BY <2>5
  <2>9. CASE j = n
    BY <1>3, <1>6, <2>1, <2>4, <2>5, <2>7, <2>8, <2>9
  <2>10. CASE j # n
    <3>1. j \in Doomed
      BY <2>3, <2>4, <2>10
    <3>2. j < n /\ stack[j + 1] = parent[stack[j]]
      BY <2>3, <2>4, <3>1 DEF OwnershipInv, PathOK
    <3>3. j + 1 \in DOMAIN stack
      BY <2>3, <3>2
    <3>4. QED
      BY <2>5, <2>7, <2>8, <3>2, <3>3
  <2>11. QED
    BY <2>9, <2>10
<1>8. /\ CallOK' /\ PathOK'
      /\ \A b : (\E k \in DOMAIN stack' : stack'[k] = b) <=>
                     b = x \/ \E k \in DOMAIN stack : stack[k] = b
      /\ \A b : IsDoomed(b)' <=> IsDoomed(b) \/ b = x
  <2>1. UNCHANGED <<call, target, parent, root, populated>>
    BY <1>2
  <2>2. stack # << >> /\ stack[1] = parent[x] /\ x \in Addr
    BY <1>2, <1>3, <1>6
  <2>3. QED
    BY <1>2, <1>3, <1>6, <1>7, <2>1, <2>2, Push, Zenon
<1>9. /\ OwnedPending' = OwnedPending
      /\ \A b : IsPending(b)' = IsPending(b) /\ IsHeld(b)' = IsHeld(b)
  BY <1>2 DEF OwnedPending, IsPending, IsHeld
<1>10. /\ \A b : \A q \in Addr \ {p} : IsChildOf(b, q)' = IsChildOf(b, q)
       /\ \A b : IsChildOf(b, p) <=> IsChildOf(b, p)' \/ b = x
       /\ ~IsChildOf(x, p)'
  <2>1. \A b : \A q \in Addr \ {p} : IsChildOf(b, q)' = IsChildOf(b, q)
    BY <1>2, <1>5 DEF IsChildOf
  <2>2. \A b : IsChildOf(b, p)' <=> \E i \in OwnedChild(p) \ {m} : children[p][i] = b
    BY <1>2, <1>5 DEF IsChildOf
  <2>3. \A b : IsChildOf(b, p) <=> (\E i \in OwnedChild(p) \ {m} : children[p][i] = b) \/ b = x
    BY <1>1, <1>5 DEF IsChildOf
  <2>4. ~IsChildOf(x, p)'
    BY <1>6, <2>2
  <2>5. QED
    BY <2>1, <2>2, <2>3, <2>4
<1>11. ~IsHeld(x) /\ ~IsPending(x) /\ \A q \in live : ~IsChildOf(x, q)'
  <2>1. ~IsHeld(x)
    BY <1>3, <1>4, <1>6 DEF IsHeld, TopLevelOK
  <2>2. ~IsPending(x)
    BY <1>3, <1>4, <1>6 DEF IsPending, SingleOwner
  <2>3. \A q \in live \ {p} : ~IsChildOf(x, q)
    BY <1>3, <1>4, <1>6 DEF IsChildOf, SingleOwner
  <2>4. QED
    BY <1>3, <1>10, <2>1, <2>2, <2>3
<1>12. CellsOK'
  <2>1. \A b \in Addr : cursor[b] <= Len(children[b]) /\ (cursor[b] # 0 => \E k \in DOMAIN stack : stack[k] = b)
    BY DEF OwnershipInv, CellsOK
  <2>2. ASSUME NEW b \in Addr
        PROVE  cursor'[b] <= Len(children[b]) /\ (cursor'[b] # 0 => \E k \in DOMAIN stack' : stack'[k] = b)
    <3>1. CASE b = p
      BY <1>3, <1>5, <1>8, <3>1
    <3>2. CASE b # p
      BY <1>5, <1>8, <2>1, <3>2
    <3>3. QED
      BY <3>1, <3>2
  <2>3. QED
    BY <1>2, <2>2 DEF OwnershipInv, CellsOK
<1>13. TopLevelOK'
  BY <1>2, <1>4, <1>9 DEF TopLevelOK
<1>14. NoDanglingPointer'
  <2>1. \A k \in DOMAIN stack' : stack'[k] \in live
    BY <1>4, <1>6, <1>8 DEF NoDanglingPointer
  <2>2. \A q \in live : \A i \in OwnedChild(q)' : children[q][i] \in live
    BY <1>3, <1>4, <1>5 DEF NoDanglingPointer
  <2>3. QED
    BY <1>2, <1>4, <1>9, <2>1, <2>2 DEF NoDanglingPointer
<1>15. ParentOutlivesChild'
  BY <1>2 DEF OwnershipInv, ParentOutlivesChild
<1>16. SingleOwner'
  <2>1. ASSUME NEW b \in live, IsDoomed(b)'
        PROVE  ~IsHeld(b)' /\ ~IsPending(b)' /\ \A q \in live : ~IsChildOf(b, q)'
    <3>1. CASE b = x
      BY <1>9, <1>11, <3>1
    <3>2. CASE b # x
      BY <1>3, <1>4, <1>8, <1>9, <1>10, <2>1, <3>2 DEF SingleOwner
    <3>3. QED
      BY <3>1, <3>2
  <2>2. \A q \in live : OwnedChild(q)' \subseteq OwnedChild(q)
    BY <1>3, <1>5
  <2>3. QED
    BY <1>2, <1>4, <1>9, <2>1, <2>2 DEF SingleOwner
<1>17. NoLeak'
  <2>1. ASSUME NEW b \in live, parent[b] \in live, IsChildOf(b, parent[b])
        PROVE  b = x \/ \E q \in live : parent[b] = q /\ IsChildOf(b, q)'
    <3>1. PICK q \in live : q = parent[b]
      BY <2>1
    <3>2. QED
      BY <1>3, <1>10, <2>1, <3>1
  <2>2. ASSUME NEW b \in live
        PROVE  \/ b = root \/ IsHeld(b)' \/ IsPending(b)' \/ IsDoomed(b)'
               \/ \E q \in live : parent[b] = q /\ IsChildOf(b, q)'
    BY <1>4, <1>8, <1>9, <2>1 DEF NoLeak
  <2>3. QED
    BY <1>2, <2>2 DEF NoLeak
<1>18. Acyclic'
  BY <1>2 DEF OwnershipInv, Acyclic
<1>19. QED
  BY <1>8, <1>12, <1>13, <1>14, <1>15, <1>16, <1>17, <1>18 DEF OwnershipInv

\* When an object is freed nobody has it as parent any more: its children went
\* before it.
LEMMA NoOrphan ==
  ASSUME TypeOK, OwnershipInv, stack # << >>, ~OnlyDropped, ~ChildrenLeft(Top),
         NEW b \in live
  PROVE  parent[b] # Top
<1>1. PICK p : p = Top
  OBVIOUS
<1>2. 1 \in Doomed /\ p = stack[1] /\ p \in live /\ p # NoAddr /\ p \in Addr
  BY <1>1, TopDoomed, AddrAssumption DEF TypeOK, HeapTypeOK
<1>3. \A c : ~IsChildOf(c, p)
  <2>1. children[p] \in Seq(Addr) /\ cursor[p] \in Nat
    BY <1>2 DEF TypeOK, HeapTypeOK
  <2>2. OwnedChild(p) = {}
    BY <1>1, <2>1 DEF ChildrenLeft, OwnedChild
  <2>3. QED
    BY <2>2 DEF IsChildOf
<1>4. SUFFICES ASSUME parent[b] = p PROVE FALSE
  BY <1>1
<1>5. b # root
  BY <1>2, <1>4, AddrAssumption DEF OwnershipInv, TopLevelOK, TypeOK, HeapTypeOK
<1>6. ~IsHeld(b)
  BY <1>2, <1>4 DEF OwnershipInv, TopLevelOK, IsHeld
<1>7. ~IsPending(b)
  BY <1>2, <1>4 DEF OwnershipInv, SingleOwner, IsPending
<1>8. ~IsDoomed(b)
  <2>1. SUFFICES ASSUME NEW k \in Doomed, stack[k] = b PROVE FALSE
    BY DEF IsDoomed
  <2>2. k < Len(stack) /\ stack[k + 1] = p
    BY <1>2, <1>4, <2>1 DEF OwnershipInv, PathOK
  <2>3. k \in Nat /\ k >= 1 /\ 1 \in DOMAIN stack /\ k + 1 \in DOMAIN stack
    BY <1>2, <2>2 DEF Doomed, TypeOK, CallTypeOK
  <2>4. k + 1 = 1
    BY <1>2, <2>2, <2>3 DEF OwnershipInv, PathOK
  <2>5. QED
    BY <2>3, <2>4
<1>9. QED
  BY <1>3, <1>4, <1>5, <1>6, <1>7, <1>8 DEF OwnershipInv, NoLeak

\* A sequence with elements is not the empty one.
LEMMA NotEmpty ==
  ASSUME NEW s, Len(s) # 0
  PROVE  s # << >>
OBVIOUS

\* Taking the freed object off the destroy path.
LEMMA Pop ==
  ASSUME TypeOK, OwnershipInv, stack # << >>, ~OnlyDropped, stack' = Tail(stack),
         \A b \in Addr \ {Top} : parent'[b] = parent[b],
         UNCHANGED target,
         call' = IF call = "destroy" /\ Len(stack) = 1 THEN "idle" ELSE call,
         root' = IF Top = root THEN NoAddr ELSE root,
         \A b \in Addr \ {Top} : populated'[b] = populated[b]
  PROVE  /\ CallOK' /\ PathOK'
         /\ \A k \in DOMAIN stack' : stack'[k] # Top /\ \E j \in DOMAIN stack : stack[j] = stack'[k]
         /\ \A j \in DOMAIN stack : stack[j] = Top \/ \E k \in DOMAIN stack' : stack'[k] = stack[j]
         /\ \A b : IsDoomed(b) <=> IsDoomed(b)' \/ b = Top
<1>1. PICK p : p = Top
  OBVIOUS
<1>2. stack \in Seq(Addr) /\ call \in Call /\ root \in Addr \cup {NoAddr} /\ NoAddr \notin Addr
  BY AddrAssumption DEF TypeOK, CallTypeOK
<1>3. PICK n \in Nat : n = Len(stack) /\ n >= 1 /\ DOMAIN stack = 1..n
  BY <1>2
<1>4. /\ Len(stack') = n - 1 /\ DOMAIN stack' = 1..(n - 1)
      /\ \A k \in 1..(n - 1) : stack'[k] = stack[k + 1]
      /\ n = 1 => stack' = << >>
      /\ n # 1 => stack' # << >>
  <2>1. Len(stack') = n - 1 /\ DOMAIN stack' = 1..(n - 1) /\ stack' \in Seq(Addr)
    BY <1>2, <1>3
  <2>2. \A k \in 1..(n - 1) : stack'[k] = stack[k + 1]
    BY <1>2, <1>3
  <2>3. n = 1 => stack' = << >>
    BY <2>1
  <2>4. n # 1 => stack' # << >>
    <3>1. n # 1 => Len(stack') # 0
      BY <1>3, <2>1
    <3>2. QED
      BY <3>1, NotEmpty
  <2>5. QED
    BY <2>1, <2>2, <2>3, <2>4
<1>5. /\ 1 \in Doomed /\ p = stack[1]
      /\ p = root => call = "destroy" /\ n = 1
  BY <1>1, <1>3, TopDoomed
<1>6. \A k, m \in 1..n : stack[k] = stack[m] => k = m
  BY <1>3 DEF OwnershipInv, PathOK
<1>7. Doomed = {k \in 1..n : call = "refresh" => k < n}
  BY <1>3 DEF Doomed
<1>8. Doomed' = {k \in 1..(n - 1) : call = "refresh" => k < n - 1}
  <2>1. n # 1 => call' = call
    BY <1>3
  <2>2. n = 1 => Doomed' = {}
    BY <1>4 DEF Doomed
  <2>3. QED
    BY <1>3, <1>4, <2>1, <2>2 DEF Doomed
<1>9. \A k \in 1..(n - 1) : k + 1 \in 1..n /\ k + 1 # 1 /\ (k \in Doomed' <=> k + 1 \in Doomed)
  BY <1>3, <1>7, <1>8
<1>10. \A k \in 1..(n - 1) : stack'[k] # p /\ stack'[k] \in Addr
  <2>1. ASSUME NEW k \in 1..(n - 1) PROVE stack'[k] # p /\ stack'[k] \in Addr
    <3>1. PICK j : j = k + 1
      OBVIOUS
    <3>2. j \in 1..n /\ j # 1 /\ stack'[k] = stack[j] /\ 1 \in 1..n
      BY <1>3, <1>4, <1>9, <3>1
    <3>3. stack[j] # stack[1]
      BY <1>6, <3>2
    <3>4. stack[j] \in Addr
      BY <1>2, <1>3, <3>2
    <3>5. QED
      BY <1>5, <3>2, <3>3, <3>4
  <2>2. QED
    BY <2>1
<1>11. \A j \in 1..n : j # 1 => \E k \in 1..(n - 1) : k + 1 = j /\ stack'[k] = stack[j]
  <2>1. ASSUME NEW j \in 1..n, j # 1 PROVE \E k \in 1..(n - 1) : k + 1 = j /\ stack'[k] = stack[j]
    <3>1. PICK k : k = j - 1
      OBVIOUS
    <3>2. k \in 1..(n - 1) /\ k + 1 = j
      BY <1>3, <2>1, <3>1
    <3>3. QED
      BY <1>4, <3>2
  <2>2. QED
    BY <2>1
<1>12. \A k \in DOMAIN stack' : stack'[k] # Top /\ \E j \in DOMAIN stack : stack[j] = stack'[k]
  BY <1>1, <1>3, <1>4, <1>9, <1>10
<1>13. \A j \in DOMAIN stack : stack[j] = Top \/ \E k \in DOMAIN stack' : stack'[k] = stack[j]
  BY <1>1, <1>3, <1>4, <1>5, <1>11
<1>14. \A b : IsDoomed(b) <=> IsDoomed(b)' \/ b = Top
  <2>1. ASSUME NEW b, NEW k \in Doomed, stack[k] = b
        PROVE  b = p \/ \E j \in Doomed' : stack'[j] = b
    <3>1. k \in 1..n
      BY <1>7
    <3>2. CASE k # 1
      <4>1. PICK j \in 1..(n - 1) : j + 1 = k /\ stack'[j] = stack[k]
        BY <1>11, <3>1, <3>2
      <4>2. j \in Doomed'
        BY <1>9, <4>1
      <4>3. QED
        BY <2>1, <4>1, <4>2
    <3>3. QED
      BY <1>5, <2>1, <3>2
  <2>2. ASSUME NEW b, NEW k \in Doomed', stack'[k] = b
        PROVE  \E j \in Doomed : stack[j] = b
    <3>1. k \in 1..(n - 1)
      BY <1>8
    <3>2. QED
      BY <1>4, <1>9, <2>2, <3>1
  <2>3. /\ \A b : IsDoomed(b) <=> \E k \in Doomed : stack[k] = b
        /\ \A b : IsDoomed(b)' <=> \E k \in Doomed' : stack'[k] = b
    BY DEF IsDoomed
  <2>4. IsDoomed(p)
    BY <1>5, <2>3
  <2>5. QED
    BY <1>1, <2>1, <2>2, <2>3, <2>4
<1>15. CallOK'
  <2>1. CallOK
    BY DEF OwnershipInv
  <2>2. CASE n = 1
    <3>1. call \in {"destroy", "surrender"}
      <4>1. call # "refresh"
        BY <1>5, <1>7, <2>2
      <4>2. QED
        BY <1>2, <2>1, <4>1 DEF CallOK, Call
    <3>2. call = "surrender" => call' = "surrender" /\ root' = root /\ target = root
      BY <1>1, <1>5, <2>1 DEF CallOK
    <3>3. call = "destroy" => call' = "idle" /\ target = NoAddr
      BY <1>3, <2>1, <2>2 DEF CallOK
    <3>4. QED
      BY <1>4, <2>2, <3>1, <3>2, <3>3 DEF CallOK
  <2>3. CASE n # 1
    <3>1. call' = call /\ call \notin {"idle", "populate"} /\ root' = root
      BY <1>1, <1>3, <1>5, <2>1, <2>3 DEF CallOK
    <3>2. n - 1 \in 1..(n - 1) /\ stack'[n - 1] = stack[n]
      BY <1>3, <1>4, <2>3
    <3>3. QED
      BY <1>3, <1>4, <2>1, <2>3, <3>1, <3>2 DEF CallOK
  <2>4. QED
    BY <2>2, <2>3
<1>16. PathOK'
  <2>1. ASSUME NEW k \in 1..(n - 1), NEW m \in 1..(n - 1), stack'[k] = stack'[m]
        PROVE  k = m
    <3>1. k + 1 = m + 1
      BY <1>4, <1>6, <1>9, <2>1
    <3>2. QED
      BY <1>3, <3>1
  <2>2. ASSUME NEW k \in Doomed'
        PROVE  /\ parent'[stack'[k]] # NoAddr \/ call = "refresh" =>
                     k < n - 1 /\ stack'[k + 1] = parent'[stack'[k]]
               /\ stack'[k] = root => call = "destroy" /\ k = n - 1
    <3>1. PICK j : j = k + 1
      OBVIOUS
    <3>2. k \in 1..(n - 1) /\ j \in Doomed /\ j \in 1..n /\ stack'[k] = stack[j]
      BY <1>4, <1>8, <1>9, <3>1
    <3>3. /\ parent[stack[j]] # NoAddr \/ call = "refresh" =>
                j < n /\ stack[j + 1] = parent[stack[j]]
          /\ stack[j] = root => call = "destroy" /\ j = n
      BY <1>3, <3>2 DEF OwnershipInv, PathOK
    <3>4. parent'[stack'[k]] = parent[stack[j]]
      BY <1>1, <1>10, <3>2
    <3>5. j < n => j \in 1..(n - 1) /\ stack'[j] = stack[j + 1]
      BY <1>3, <1>4, <3>2
    <3>6. QED
      BY <1>3, <3>1, <3>2, <3>3, <3>4, <3>5
  <2>3. \A k \in 1..(n - 1) : stack'[k] # NoAddr /\ call' = call
    BY <1>2, <1>3, <1>10
  <2>4. Doomed' \subseteq 1..(n - 1)
    BY <1>8
  <2>5. QED
    BY <1>1, <1>4, <2>1, <2>2, <2>3, <2>4 DEF PathOK
<1>17. QED
  BY <1>12, <1>13, <1>14, <1>15, <1>16

\* Freeing the object on top of the path leaves no pointer to it and no object
\* without an owner.
LEMMA FreeOwns ==
  ASSUME TypeOK, OwnershipInv, Free
  PROVE  OwnershipInv'
<1>1. PICK p : p = Top
  OBVIOUS
<1>2. /\ stack # << >> /\ ~ChildrenLeft(p) /\ ~OnlyDropped
      /\ live' = live \ {p} /\ stack' = Tail(stack)
      /\ UNCHANGED <<held, target, made>>
      /\ call' = IF call = "destroy" /\ Len(stack) = 1 THEN "idle" ELSE call
  BY <1>1 DEF Free
<1>3. /\ p = root => root' = NoAddr /\ pending' = << >> /\ taken' = 0 /\ taken = Len(pending)
      /\ p # root => UNCHANGED <<root, pending, taken>>
  BY <1>1 DEF Free, rootVars
<1>4. /\ p \in live /\ p \in Addr /\ live \subseteq Addr /\ NoAddr \notin live
      /\ IsDoomed(p) /\ (p = root => call = "destroy" /\ Len(stack) = 1)
  BY <1>1, <1>2, TopDoomed, AddrAssumption DEF TypeOK, HeapTypeOK
<1>5. /\ \A q \in Addr \ {p} : /\ parent'[q] = parent[q] /\ children'[q] = children[q]
                               /\ cursor'[q] = cursor[q] /\ populated'[q] = populated[q]
      /\ parent'[p] = NoAddr /\ children'[p] = << >> /\ cursor'[p] = 0 /\ ~populated'[p]
  <2>1. children' = [children EXCEPT ![p] = << >>] /\ children \in [Addr -> Seq(Addr)]
    BY <1>1 DEF Free, TypeOK, HeapTypeOK
  <2>2. /\ parent' = [parent EXCEPT ![p] = NoAddr] /\ DOMAIN parent = Addr
        /\ cursor' = [cursor EXCEPT ![p] = 0] /\ DOMAIN cursor = Addr
        /\ populated' = [populated EXCEPT ![p] = FALSE] /\ DOMAIN populated = Addr
    BY <1>1 DEF Free, TypeOK, HeapTypeOK
  <2>3. \A q \in Addr \ {p} : children'[q] = children[q]
    BY <2>1
  <2>4. children'[p] = << >>
    BY <1>4, <2>1
  <2>5. /\ \A q \in Addr \ {p} : parent'[q] = parent[q] /\ cursor'[q] = cursor[q] /\ populated'[q] = populated[q]
        /\ parent'[p] = NoAddr /\ cursor'[p] = 0 /\ ~populated'[p]
    BY <1>4, <2>2
  <2>6. QED
    BY <2>3, <2>4, <2>5
<1>6. /\ CallOK' /\ PathOK'
      /\ \A k \in DOMAIN stack' : stack'[k] # p /\ \E j \in DOMAIN stack : stack[j] = stack'[k]
      /\ \A j \in DOMAIN stack : stack[j] = p \/ \E k \in DOMAIN stack' : stack'[k] = stack[j]
      /\ \A b : IsDoomed(b) <=> IsDoomed(b)' \/ b = p
  <2>1. root' = IF Top = root THEN NoAddr ELSE root
    BY <1>1, <1>3
  <2>2. \A b \in Addr \ {Top} : parent'[b] = parent[b] /\ populated'[b] = populated[b]
    BY <1>1, <1>5
  <2>3. UNCHANGED target
    BY <1>2
  <2>4. QED
    BY <1>1, <1>2, <2>1, <2>2, <2>3, Pop
<1>7. \A b \in live : parent[b] # p
  BY <1>1, <1>2, NoOrphan
<1>8. NoDanglingPointer /\ SingleOwner /\ TopLevelOK /\ NoLeak /\ CellsOK
  BY DEF OwnershipInv
<1>9. ~IsHeld(p) /\ ~IsPending(p) /\ \A q \in live : ~IsChildOf(p, q)
  BY <1>4, <1>8 DEF SingleOwner
<1>10. /\ \A q \in live' : OwnedChild(q)' = OwnedChild(q)
       /\ \A b : \A q \in live' : IsChildOf(b, q)' = IsChildOf(b, q)
       /\ \A b : IsHeld(b)' = IsHeld(b)
  <2>1. \A q \in live' : q \in Addr \ {p}
    BY <1>2, <1>4
  <2>2. \A q \in live' : OwnedChild(q)' = OwnedChild(q)
    BY <1>5, <2>1 DEF OwnedChild
  <2>3. \A b : \A q \in live' : IsChildOf(b, q)' = IsChildOf(b, q)
    BY <1>5, <2>1, <2>2 DEF IsChildOf
  <2>4. QED
    BY <1>2, <2>2, <2>3 DEF IsHeld
<1>11. /\ OwnedPending' = OwnedPending /\ \A i \in OwnedPending : pending'[i] = pending[i]
       /\ \A b : IsPending(b)' = IsPending(b)
  <2>1. CASE p = root
    <3>1. OwnedPending = {} /\ OwnedPending' = {}
      BY <1>3, <2>1 DEF OwnedPending, TypeOK, CallTypeOK
    <3>2. QED
      BY <3>1 DEF IsPending
  <2>2. CASE p # root
    BY <1>3, <2>2 DEF OwnedPending, IsPending
  <2>3. QED
    BY <2>1, <2>2
<1>12. CellsOK'
  <2>1. \A b \in Addr \ live' : parent'[b] = NoAddr /\ children'[b] = << >> /\ ~populated'[b]
    BY <1>2, <1>5, <1>8 DEF CellsOK
  <2>2. ASSUME NEW b \in Addr
        PROVE  cursor'[b] <= Len(children'[b]) /\ (cursor'[b] # 0 => \E k \in DOMAIN stack' : stack'[k] = b)
    <3>1. CASE b = p
      BY <1>5, <3>1
    <3>2. CASE b # p
      <4>1. cursor[b] <= Len(children[b]) /\ (cursor[b] # 0 => \E k \in DOMAIN stack : stack[k] = b)
        BY <1>8 DEF CellsOK
      <4>2. QED
        BY <1>5, <1>6, <3>2, <4>1
    <3>3. QED
      BY <3>1, <3>2
  <2>3. taken' <= Len(pending')
    <3>1. taken <= Len(pending)
      BY <1>8 DEF CellsOK
    <3>2. QED
      BY <1>3, <3>1
  <2>4. QED
    BY <2>1, <2>2, <2>3 DEF CellsOK
<1>13. TopLevelOK'
  <2>1. \A i \in DOMAIN held : held[i] \in live /\ held[i] # p
    BY <1>8, <1>9 DEF NoDanglingPointer, IsHeld
  <2>2. \A i \in DOMAIN held' : /\ parent'[held'[i]] = NoAddr
                                /\ \A j \in DOMAIN held' : held'[i] = held'[j] => i = j
    BY <1>2, <1>4, <1>5, <1>8, <2>1 DEF TopLevelOK
  <2>3. CASE p = root
    BY <1>3, <1>11, <2>2, <2>3 DEF TopLevelOK, OwnedPending
  <2>4. CASE p # root
    <3>1. root' # NoAddr => held' = << >> /\ parent'[root'] = NoAddr
      BY <1>2, <1>3, <1>4, <1>5, <1>8, <2>4 DEF TopLevelOK, NoDanglingPointer
    <3>2. QED
      BY <1>3, <1>8, <1>11, <2>2, <2>4, <3>1 DEF TopLevelOK
  <2>5. QED
    BY <2>3, <2>4
<1>14. NoDanglingPointer'
  <2>1. \A q \in live' : \A i \in OwnedChild(q)' : children'[q][i] \in live'
    <3>1. ASSUME NEW q \in live', NEW i \in OwnedChild(q)' PROVE children'[q][i] \in live'
      <4>1. q \in live /\ q # p /\ q \in Addr /\ i \in OwnedChild(q)
        BY <1>2, <1>4, <1>10
      <4>2. children[q][i] \in live /\ children[q][i] # p
        BY <1>8, <1>9, <4>1 DEF NoDanglingPointer, IsChildOf
      <4>3. QED
        BY <1>2, <1>5, <4>1, <4>2
    <3>2. QED
      BY <3>1
  <2>2. \A i \in OwnedPending' : pending'[i] \in live'
    BY <1>2, <1>8, <1>9, <1>11 DEF NoDanglingPointer, IsPending
  <2>3. \A i \in DOMAIN held' : held'[i] \in live'
    BY <1>2, <1>8, <1>9 DEF NoDanglingPointer, IsHeld
  <2>4. \A k \in DOMAIN stack' : stack'[k] \in live'
    BY <1>2, <1>6, <1>8 DEF NoDanglingPointer
  <2>5. root' # NoAddr => root' \in live'
    BY <1>2, <1>3, <1>8 DEF NoDanglingPointer
  <2>6. target # NoAddr => target \in live /\ target # p
    <3>1. target # NoAddr => target \in live
      BY <1>8 DEF NoDanglingPointer
    <3>2. ASSUME target = p PROVE FALSE
      <4>1. call \notin {"idle", "destroy", "populate"} /\ (call = "surrender" => target = root)
        BY <1>2, <1>4, <3>2 DEF OwnershipInv, CallOK
      <4>2. call = "refresh"
        BY <1>4, <3>2, <4>1 DEF TypeOK, CallTypeOK, Call
      <4>3. stack[Len(stack)] = p /\ Len(stack) \in DOMAIN stack
        BY <1>2, <3>2, <4>2 DEF OwnershipInv, CallOK, TypeOK, CallTypeOK
      <4>4. PICK k \in Doomed : stack[k] = p
        BY <1>4 DEF IsDoomed
      <4>5. k \in DOMAIN stack /\ k < Len(stack)
        BY <4>2, <4>4 DEF Doomed
      <4>6. k = Len(stack)
        BY <4>3, <4>4, <4>5 DEF OwnershipInv, PathOK
      <4>7. QED
        BY <4>5, <4>6 DEF TypeOK, CallTypeOK
    <3>3. QED
      BY <3>1, <3>2
  <2>7. QED
    BY <1>2, <2>1, <2>2, <2>3, <2>4, <2>5, <2>6 DEF NoDanglingPointer
<1>15. ParentOutlivesChild'
  <2>1. \A b \in live' : b \in live /\ b \in Addr \ {p}
    BY <1>2, <1>4
  <2>2. QED
    BY <1>2, <1>5, <1>7, <2>1 DEF OwnershipInv, ParentOutlivesChild
<1>16. SingleOwner'
  <2>1. ASSUME NEW q \in live', NEW i \in OwnedChild(q)'
        PROVE  /\ parent'[children'[q][i]] = q
               /\ \A j \in OwnedChild(q)' : children'[q][i] = children'[q][j] => i = j
    <3>1. q \in live /\ q # p /\ q \in Addr /\ i \in OwnedChild(q) /\ OwnedChild(q)' = OwnedChild(q)
          /\ children'[q] = children[q]
      BY <1>2, <1>4, <1>5, <1>10
    <3>2. children[q][i] \in live /\ children[q][i] # p
      BY <1>8, <1>9, <3>1 DEF NoDanglingPointer, IsChildOf
    <3>3. parent'[children[q][i]] = parent[children[q][i]]
      BY <1>4, <1>5, <3>2
    <3>4. QED
      BY <1>8, <3>1, <3>3 DEF SingleOwner
  <2>2. ASSUME NEW i \in OwnedPending'
        PROVE  /\ parent'[pending'[i]] = NoAddr
               /\ \A j \in OwnedPending' : pending'[i] = pending'[j] => i = j
    <3>1. pending[i] \in live /\ pending[i] # p
      BY <1>8, <1>9, <1>11 DEF NoDanglingPointer, IsPending
    <3>2. QED
      BY <1>4, <1>5, <1>8, <1>11, <3>1 DEF SingleOwner
  <2>3. ASSUME NEW b \in live', IsDoomed(b)'
        PROVE  ~IsHeld(b)' /\ ~IsPending(b)' /\ \A q \in live' : ~IsChildOf(b, q)'
    BY <1>2, <1>6, <1>8, <1>10, <1>11, <2>3 DEF SingleOwner
  <2>4. QED
    BY <2>1, <2>2, <2>3 DEF SingleOwner
<1>17. NoLeak'
  <2>1. ASSUME NEW b \in live'
        PROVE  \/ b = root' \/ IsHeld(b)' \/ IsPending(b)' \/ IsDoomed(b)'
               \/ \E q \in live' : parent'[b] = q /\ IsChildOf(b, q)'
    <3>1. b \in live /\ b # p /\ b \in Addr /\ parent[b] # p /\ parent'[b] = parent[b]
      BY <1>2, <1>4, <1>5, <1>7
    <3>2. b = root => b = root'
      BY <1>3, <3>1
    <3>3. ASSUME parent[b] \in live, IsChildOf(b, parent[b])
          PROVE  \E q \in live' : parent'[b] = q /\ IsChildOf(b, q)'
      <4>1. PICK q \in live : q = parent[b]
        BY <3>3
      <4>2. q \in live' /\ IsChildOf(b, q)
        BY <1>2, <3>1, <3>3, <4>1
      <4>3. QED
        BY <1>10, <3>1, <4>1, <4>2
    <3>4. QED
      BY <1>6, <1>8, <1>10, <1>11, <3>1, <3>2, <3>3 DEF NoLeak
  <2>2. QED
    BY <2>1 DEF NoLeak
<1>18. Acyclic'
  <2>1. SUFFICES ASSUME NEW S \in SUBSET live', S # {}
                 PROVE  \E b \in S : parent'[b] \notin S
    BY DEF Acyclic
  <2>2. S \in SUBSET live /\ \A b \in S : b \in Addr \ {p}
    BY <1>2, <1>4
  <2>3. PICK b \in S : parent[b] \notin S
    BY <2>1, <2>2 DEF OwnershipInv, Acyclic
  <2>4. QED
    BY <1>5, <2>2, <2>3
<1>19. QED
  BY <1>6, <1>12, <1>13, <1>14, <1>15, <1>16, <1>17, <1>18 DEF OwnershipInv

\* refresh ends: all children are gone, the object itself keeps its owner.
LEMMA RefreshDoneOwns ==
  ASSUME TypeOK, OwnershipInv, RefreshDone
  PROVE  OwnershipInv'
<1>1. PICK o : o = target
  OBVIOUS
<1>2. /\ UNCHANGED <<live, parent, held, root, pending, taken>>
      /\ call = "refresh" /\ stack = <<o>> /\ ~ChildrenLeft(o)
      /\ call' = "idle" /\ target' = NoAddr /\ stack' = << >>
  BY <1>1 DEF RefreshDone, OnlyDropped, EndCall, rootVars
<1>3. o \in Addr /\ o \in live /\ NoAddr \notin live /\ live \subseteq Addr
  BY <1>1, <1>2, AddrAssumption DEF OwnershipInv, NoDanglingPointer, TypeOK, HeapTypeOK, CallTypeOK
<1>4. DOMAIN stack = {1} /\ stack[1] = o /\ Len(stack) = 1 /\ DOMAIN stack' = {}
  BY <1>2
<1>5. Doomed = {} /\ Doomed' = {}
  BY <1>2, <1>4 DEF Doomed
<1>6. \A b : ~IsDoomed(b) /\ ~IsDoomed(b)'
  BY <1>5 DEF IsDoomed
<1>7. /\ \A q \in Addr \ {o} : /\ children'[q] = children[q]
                               /\ cursor'[q] = cursor[q] /\ populated'[q] = populated[q]
      /\ children'[o] = << >> /\ cursor'[o] = 0 /\ ~populated'[o]
  <2>1. children' = [children EXCEPT ![o] = << >>] /\ children \in [Addr -> Seq(Addr)]
    BY <1>1 DEF RefreshDone, TypeOK, HeapTypeOK
  <2>2. /\ cursor' = [cursor EXCEPT ![o] = 0] /\ DOMAIN cursor = Addr
        /\ populated' = [populated EXCEPT ![o] = FALSE] /\ DOMAIN populated = Addr
    BY <1>1 DEF RefreshDone, TypeOK, HeapTypeOK
  <2>3. \A q \in Addr \ {o} : children'[q] = children[q]
    BY <2>1
  <2>4. children'[o] = << >>
    BY <1>3, <2>1
  <2>5. QED
    BY <1>3, <2>2, <2>3, <2>4
<1>8. \A q \in Addr : OwnedChild(q)' = OwnedChild(q) /\ \A b : IsChildOf(b, q)' = IsChildOf(b, q)
  <2>1. OwnedChild(o) = {}
    <3>1. children[o] \in Seq(Addr) /\ cursor[o] \in Nat
      BY <1>3 DEF TypeOK, HeapTypeOK
    <3>2. QED
      BY <1>2, <3>1 DEF ChildrenLeft, OwnedChild
  <2>2. OwnedChild(o)' = {}
    BY <1>7 DEF OwnedChild
  <2>3. \A q \in Addr \ {o} : OwnedChild(q)' = OwnedChild(q)
    BY <1>7 DEF OwnedChild
  <2>4. QED
    BY <1>7, <2>1, <2>2, <2>3 DEF IsChildOf
<1>9. /\ OwnedPending' = OwnedPending
      /\ \A b : IsPending(b)' = IsPending(b) /\ IsHeld(b)' = IsHeld(b)
  BY <1>2 DEF OwnedPending, IsPending, IsHeld
<1>10. CellsOK'
  <2>1. \A b \in Addr : cursor'[b] = 0 /\ cursor'[b] <= Len(children'[b])
    <3>1. \A b \in Addr \ {o} : cursor[b] = 0 /\ cursor[b] <= Len(children[b])
      BY <1>4 DEF OwnershipInv, CellsOK
    <3>2. QED
      BY <1>7, <3>1
  <2>2. \A b \in Addr \ live : parent[b] = NoAddr /\ children'[b] = << >> /\ ~populated'[b]
    BY <1>3, <1>7 DEF OwnershipInv, CellsOK
  <2>3. QED
    BY <1>2, <2>1, <2>2 DEF OwnershipInv, CellsOK
<1>11. TopLevelOK'
  BY <1>2, <1>9 DEF OwnershipInv, TopLevelOK
<1>12. CallOK'
  BY <1>2 DEF CallOK
<1>13. PathOK'
  BY <1>4, <1>5 DEF PathOK
<1>14. NoDanglingPointer'
  <2>1. \A q \in live : \A i \in OwnedChild(q)' : children'[q][i] \in live
    <3>1. ASSUME NEW q \in live, NEW i \in OwnedChild(q)' PROVE children'[q][i] \in live
      <4>1. CASE q = o
        BY <1>7, <4>1 DEF OwnedChild
      <4>2. CASE q # o
        BY <1>3, <1>7, <1>8, <4>2 DEF OwnershipInv, NoDanglingPointer
      <4>3. QED
        BY <4>1, <4>2
    <3>2. QED
      BY <3>1
  <2>2. QED
    BY <1>2, <1>4, <1>9, <2>1 DEF OwnershipInv, NoDanglingPointer
<1>15. ParentOutlivesChild'
  BY <1>2 DEF OwnershipInv, ParentOutlivesChild
<1>16. SingleOwner'
  <2>1. ASSUME NEW q \in live, NEW i \in OwnedChild(q)'
        PROVE  /\ parent[children'[q][i]] = q
               /\ \A j \in OwnedChild(q)' : children'[q][i] = children'[q][j] => i = j
    <3>1. CASE q = o
      BY <1>7, <3>1 DEF OwnedChild
    <3>2. CASE q # o
      BY <1>3, <1>7, <1>8, <3>2 DEF OwnershipInv, SingleOwner
    <3>3. QED
      BY <3>1, <3>2
  <2>2. QED
    BY <1>2, <1>6, <1>9, <2>1 DEF OwnershipInv, SingleOwner
<1>17. NoLeak'
  <2>1. ASSUME NEW b \in live, parent[b] \in live, IsChildOf(b, parent[b])
        PROVE  \E q \in live : parent[b] = q /\ IsChildOf(b, q)'
    <3>1. PICK q \in live : q = parent[b]
      BY <2>1
    <3>2. QED
      BY <1>3, <1>8, <2>1, <3>1
  <2>2. ASSUME NEW b \in live
        PROVE  \/ b = root \/ IsHeld(b)' \/ IsPending(b)'
               \/ \E q \in live : parent[b] = q /\ IsChildOf(b, q)'
    BY <1>6, <1>9, <2>1 DEF OwnershipInv, NoLeak
  <2>3. QED
    BY <1>2, <2>2 DEF NoLeak
<1>18. Acyclic'
  BY <1>2 DEF OwnershipInv, Acyclic
<1>19. QED
  BY <1>10, <1>11, <1>12, <1>13, <1>14, <1>15, <1>16, <1>17, <1>18 DEF OwnershipInv

\* The invariant holds initially and every step keeps it.
LEMMA StepOwns ==
  ASSUME TypeOK, OwnershipInv, Next
  PROVE  OwnershipInv'
<1>1. CASE ClientCall
  BY <1>1, CreateTransportOwns, RootCreateOwns, ReleaseOwns, BeginOwns, RefreshOwns, DestroyRootOwns
     DEF ClientCall
<1>2. CASE CallStep
  <2>1. CASE Surrender \/ SurrenderDone \/ DropNext \/ DestroyPending \/ Free \/ RefreshDone
    BY <2>1, ToDestroyOwns, PendingDoneOwns, DropNextOwns, FreeOwns, RefreshDoneOwns
  <2>2. CASE \E a \in Addr : PopulateNext(a)
    BY <2>2, PopulateNextOwns
  <2>3. CASE \/ PopulateError \/ PopulateDone
             \/ RootPopulateNext \/ RootPopulateError \/ RootPopulateDone
    BY <2>3, BeginOwns, PopulateDoneOwns, RootPopulateNextOwns, PendingDoneOwns
  <2>4. QED
    BY <1>2, <2>1, <2>2, <2>3 DEF CallStep
<1>3. QED
  BY <1>1, <1>2 DEF Next

\* Ownership of objects is exact in every reachable state: the arrays of
\* object.c and root.c, the client and the destroy in progress divide the
\* live objects among them.
THEOREM Ownership == Spec => []OwnershipInv
<1>1. Init => OwnershipInv
  <2>1. SUFFICES ASSUME Init PROVE OwnershipInv
    OBVIOUS
  <2>2. CellsOK /\ TopLevelOK /\ CallOK /\ PathOK
    BY <2>1 DEF Init, CellsOK, TopLevelOK, CallOK, PathOK, Doomed, OwnedPending
  <2>3. NoDanglingPointer /\ ParentOutlivesChild /\ SingleOwner /\ NoLeak /\ Acyclic
    BY <2>1 DEF Init, NoDanglingPointer, ParentOutlivesChild, SingleOwner, NoLeak,
                Acyclic, OwnedPending
  <2>4. QED
    BY <2>2, <2>3 DEF OwnershipInv
<1>2. TypeOK /\ OwnershipInv /\ [Next]_vars => OwnershipInv'
  <2>1. SUFFICES ASSUME TypeOK, OwnershipInv, [Next]_vars PROVE OwnershipInv'
    OBVIOUS
  <2>2. CASE Next
    BY <2>1, <2>2, StepOwns
  <2>3. CASE UNCHANGED vars
    <3>1. /\ UNCHANGED <<live, parent, children, populated, cursor>>
          /\ UNCHANGED <<held, root, pending, taken, call, target, stack>>
      BY <2>3 DEF vars, object, rootVars, callVars
    <3>2. Doomed' = Doomed /\ OwnedPending' = OwnedPending
      BY <3>1 DEF Doomed, OwnedPending
    <3>3. /\ \A p : OwnedChild(p)' = OwnedChild(p)
          /\ \A b, p : IsChildOf(b, p)' = IsChildOf(b, p)
          /\ \A b : /\ IsHeld(b)' = IsHeld(b) /\ IsPending(b)' = IsPending(b)
                   /\ IsDoomed(b)' = IsDoomed(b)
      BY <3>1, <3>2, Frame DEF IsHeld, IsPending, IsDoomed
    <3>4. CellsOK' /\ TopLevelOK' /\ CallOK' /\ PathOK'
      BY <2>1, <3>1, <3>2 DEF OwnershipInv, CellsOK, TopLevelOK, CallOK, PathOK
    <3>5. NoDanglingPointer' /\ ParentOutlivesChild' /\ Acyclic'
      BY <2>1, <3>1, <3>2, <3>3 DEF OwnershipInv, NoDanglingPointer, ParentOutlivesChild, Acyclic
    <3>6. SingleOwner' /\ NoLeak'
      BY <2>1, <3>1, <3>2, <3>3 DEF OwnershipInv, SingleOwner, NoLeak
    <3>7. QED
      BY <3>4, <3>5, <3>6 DEF OwnershipInv
  <2>4. QED
    BY <2>1, <2>2, <2>3
<1>3. QED
  BY <1>1, <1>2, TypeCorrect, PTL DEF Spec

\* No use after free: no pointer object.c or root.c will still follow leads to
\* a freed object, whatever the tree and wherever allocations fail.
THEOREM PointersLive == Spec => []NoDanglingPointer
<1>1. OwnershipInv => NoDanglingPointer
  BY DEF OwnershipInv
<1>2. QED
  BY <1>1, Ownership, PTL

\* No double free: each object has one owner, and one under destruction none.
THEOREM OneOwner == Spec => []SingleOwner
<1>1. OwnershipInv => SingleOwner
  BY DEF OwnershipInv
<1>2. QED
  BY <1>1, Ownership, PTL

\* No leak: each object is owned by somebody who will free it.
THEOREM NothingLeaks == Spec => []NoLeak
<1>1. OwnershipInv => NoLeak
  BY DEF OwnershipInv
<1>2. QED
  BY <1>1, Ownership, PTL

\* A view get_children returned stays as it was until its object is refreshed
\* or destroyed: only an unpopulated object's array is written to.
THEOREM ViewsStay == Spec => ViewStable
<1> DEFINE Stays == \A o \in live : populated[o] /\ populated'[o] => children'[o] = children[o]
<1>1. TypeOK /\ OwnershipInv /\ [Next]_vars => Stays
  <2>1. SUFFICES ASSUME TypeOK, OwnershipInv, [Next]_vars,
                        NEW o \in live, populated[o], populated'[o]
                 PROVE  children'[o] = children[o]
    OBVIOUS
  <2>2. o \in Addr /\ children \in [Addr -> Seq(Addr)] /\ populated \in [Addr -> BOOLEAN]
    BY <2>1 DEF TypeOK, HeapTypeOK
  <2>3. call = "populate" => target # o
    BY <2>1 DEF OwnershipInv, CallOK
  <2>4. CASE ClientCall
    BY <2>4 DEF ClientCall, CreateTransport, RootCreate, ReleaseTransport, GetChildren,
                Refresh, DestroyRoot, object
  <2>5. ASSUME NEW a \in Addr, PopulateNext(a) PROVE children'[o] = children[o]
    BY <2>2, <2>3, <2>5 DEF PopulateNext, Populating, AppendChild
  <2>6. CASE RootPopulateNext
    BY <2>2, <2>3, <2>6 DEF RootPopulateNext, PopulatingRoot, AppendChild
  <2>7. CASE Free
    BY <2>1, <2>2, <2>7 DEF Free
  <2>8. CASE RefreshDone
    BY <2>1, <2>2, <2>8 DEF RefreshDone
  <2>9. CASE \/ PopulateError \/ PopulateDone \/ RootPopulateError \/ RootPopulateDone
            \/ Surrender \/ SurrenderDone \/ DropNext \/ DestroyPending
    BY <2>9 DEF PopulateError, PopulateDone, RootPopulateError, RootPopulateDone, Surrender,
                SurrenderDone, DropNext, DestroyPending, object
  <2>10. CASE UNCHANGED vars
    BY <2>10 DEF vars, object
  <2>11. QED
    BY <2>1, <2>4, <2>5, <2>6, <2>7, <2>8, <2>9, <2>10 DEF Next, CallStep
<1>2. TypeOK /\ OwnershipInv /\ [Next]_vars => [Stays]_vars
  BY <1>1
<1>3. QED
  BY <1>2, TypeCorrect, Ownership, PTL DEF Spec, ViewStable

-----------------------------------------------------------------------------
(* What a listing returns.  A populate appends its children at the end of   *)
(* the array, behind what failed attempts left there; from then on, only a  *)
(* drop_children that has begun on the array can free one of them.          *)

\* A listing depends on the object's array and on the entities of the object
\* and of its children, and on nothing else.
LEMMA ListedFrame ==
  ASSUME TypeOK, NEW o \in Addr, NEW m \in Nat, Listed(o, m),
         children'[o] = children[o], node'[o] = node[o],
         \A i \in DOMAIN children[o] : node'[children[o][i]] = node[children[o][i]]
  PROVE  Listed(o, m)'
<1>1. children[o] \in Seq(Addr) /\ Len(children[o]) \in Nat
  BY DEF TypeOK, HeapTypeOK
<1>2. \A i \in 1..m : Len(children[o]) - m + i \in DOMAIN children[o]
  BY <1>1 DEF Listed
<1>3. QED
  BY <1>1, <1>2 DEF Listed

\* The children of an object whose destruction has not begun are live, and
\* none of them is being destroyed.
LEMMA ChildrenSafe ==
  ASSUME TypeOK, OwnershipInv, NEW o \in live, cursor[o] = 0,
         NEW i \in DOMAIN children[o]
  PROVE  children[o][i] \in live /\ ~IsDoomed(children[o][i])
<1>1. o \in Addr /\ children[o] \in Seq(Addr)
  BY DEF TypeOK, HeapTypeOK
<1>2. i \in OwnedChild(o)
  BY <1>1 DEF OwnedChild
<1>3. children[o][i] \in live
  BY <1>2 DEF OwnershipInv, NoDanglingPointer
<1>4. IsChildOf(children[o][i], o)
  BY <1>2 DEF IsChildOf
<1>5. QED
  BY <1>3, <1>4 DEF OwnershipInv, SingleOwner

\* A step that populates no object, writes to no array of a populated one and
\* frees only what is doomed leaves every complete listing complete.
LEMMA ListingsKept ==
  ASSUME TypeOK, OwnershipInv, ListingInv,
         \A o \in live' \ {root'} : populated'[o] /\ cursor'[o] = 0 =>
            /\ o \in live \ {root} /\ populated[o] /\ cursor[o] = 0
            /\ children'[o] = children[o] /\ node'[o] = node[o],
         \A a \in live : ~IsDoomed(a) => node'[a] = node[a]
  PROVE  \A o \in live' \ {root'} :
            populated'[o] /\ cursor'[o] = 0 => Listed(o, Len(Listing[node[o]]))'
<1>1. SUFFICES ASSUME NEW o \in live' \ {root'}, populated'[o], cursor'[o] = 0
               PROVE  Listed(o, Len(Listing[node[o]]))'
  OBVIOUS
<1>2. /\ o \in live \ {root} /\ populated[o] /\ cursor[o] = 0
      /\ children'[o] = children[o] /\ node'[o] = node[o]
  BY <1>1
<1>3. o \in Addr /\ Listing[node[o]] \in Seq(Node) /\ Len(Listing[node[o]]) \in Nat
  BY <1>2, NodeAssumption DEF TypeOK, HeapTypeOK
<1>4. \A i \in DOMAIN children[o] : node'[children[o][i]] = node[children[o][i]]
  BY <1>2, ChildrenSafe
<1>5. PICK m \in Nat : m = Len(Listing[node[o]])
  BY <1>3
<1>6. Listed(o, m)
  BY <1>2, <1>5 DEF ListingInv
<1>7. Listed(o, m)'
  BY <1>2, <1>3, <1>4, <1>6, ListedFrame
<1>8. Len(Listing[node[o]])' = m
  BY <1>2, <1>5
<1>9. QED
  BY <1>7, <1>8

\* A new object is in a free cell: no listing changes, and it has none itself.
LEMMA AllocateListings ==
  ASSUME TypeOK, OwnershipInv, NEW a \in Addr, NEW n \in Node, Allocate(a, n)
  PROVE  /\ a \notin live /\ live' = live \cup {a} /\ node'[a] = n
         /\ \A b \in live : node'[b] = node[b]
         /\ ~populated[a]
BY FreeCell DEF Allocate, TypeOK, HeapTypeOK

\* populate_children makes its next child: the array ends with one more entry
\* of the object's listing.
LEMMA PopulateNextLists ==
  ASSUME TypeOK, OwnershipInv, ListingInv, NEW a \in Addr, PopulateNext(a)
  PROVE  ListingInv'
<1>1. PICK p : p = target
  OBVIOUS
<1>2. PICK full : full = Listing[node[p]]
  OBVIOUS
<1>3. /\ call = "populate" /\ p # root /\ made < Len(full)
      /\ Allocate(a, full[made + 1]) /\ AppendChild(p, a) /\ made' = made + 1
      /\ UNCHANGED <<populated, cursor, root, call, target>>
  BY <1>1, <1>2 DEF PopulateNext, Populating, rootVars
<1>4. p \in Addr /\ p \in live /\ ~populated[p] /\ cursor[p] = 0
  BY <1>1, <1>3, AddrAssumption, EmptyPath
     DEF TypeOK, CallTypeOK, OwnershipInv, NoDanglingPointer, CallOK
<1>5. full \in Seq(Node) /\ made \in Nat /\ made + 1 \in 1..Len(full) /\ full[made + 1] \in Node
  <2>1. node[p] \in Node /\ made \in Nat
    BY <1>4 DEF TypeOK, HeapTypeOK, CallTypeOK
  <2>2. full \in Seq(Node)
    BY <1>2, <2>1, NodeAssumption
  <2>3. QED
    BY <1>3, <2>1, <2>2
<1>6. /\ a \notin live /\ live' = live \cup {a} /\ node'[a] = full[made + 1]
      /\ \A b \in live : node'[b] = node[b]
      /\ ~populated[a]
  BY <1>3, <1>5, AllocateListings
<1>7. /\ \A q \in Addr \ {p} : children'[q] = children[q]
      /\ children'[p] = Append(children[p], a)
  BY <1>3, <1>4 DEF AppendChild, TypeOK, HeapTypeOK
<1>8. \A o \in live' \ {root'} :
         populated'[o] /\ cursor'[o] = 0 => Listed(o, Len(Listing[node[o]]))'
  <2>1. live \subseteq Addr /\ a # p
    BY <1>4, <1>6 DEF TypeOK, HeapTypeOK
  <2>2. \A o \in live' \ {root'} : populated'[o] /\ cursor'[o] = 0 =>
            /\ o \in live \ {root} /\ populated[o] /\ cursor[o] = 0
            /\ children'[o] = children[o] /\ node'[o] = node[o]
    BY <1>3, <1>4, <1>6, <1>7, <2>1
  <2>3. QED
    BY <1>6, <2>2, ListingsKept
<1>9. Listed(p, made)'
  <2>1. Listed(p, made)
    BY <1>1, <1>3 DEF ListingInv, Populating
  <2>2. children[p] \in Seq(Addr) /\ Len(children[p]) \in Nat
    BY <1>4 DEF TypeOK, HeapTypeOK
  <2>3. \A i \in DOMAIN children[p] : children[p][i] \in live
    BY <1>4, ChildrenSafe
  <2>4. /\ Len(children'[p]) = Len(children[p]) + 1
        /\ children'[p][Len(children[p]) + 1] = a
        /\ \A i \in DOMAIN children[p] : children'[p][i] = children[p][i]
    BY <1>7, <2>2
  <2>5. Listing[node'[p]] = full
    BY <1>2, <1>4, <1>6
  <2>6. made' <= Len(full) /\ made' <= Len(children'[p])
    BY <1>2, <1>3, <1>5, <2>1, <2>2, <2>4 DEF Listed
  <2>7. ASSUME NEW i \in 1..made'
        PROVE  node'[children'[p][Len(children'[p]) - made' + i]] = full[i]
    <3>1. CASE i = made'
      <4>1. made' = made + 1 /\ made \in Nat /\ i = made + 1
        BY <1>3, <1>5, <3>1
      <4>2. PICK l \in Nat : l = Len(children[p]) /\ Len(children'[p]) = l + 1
        BY <2>2, <2>4
      <4>3. Len(children'[p]) - made' + i = Len(children[p]) + 1
        <5>1. (l + 1) - (made + 1) + (made + 1) = l + 1
          BY <4>1
        <5>2. QED
          BY <4>1, <4>2, <5>1
      <4>4. QED
        BY <1>6, <2>4, <4>1, <4>3
    <3>2. CASE i # made'
      <4>1. i \in 1..made /\ Len(children'[p]) - made' + i = Len(children[p]) - made + i
        BY <1>3, <1>5, <2>2, <2>4, <3>2
      <4>2. Len(children[p]) - made + i \in DOMAIN children[p]
        BY <1>5, <2>1, <2>2, <4>1 DEF Listed
      <4>3. node[children[p][Len(children[p]) - made + i]] = full[i]
        BY <1>2, <2>1, <4>1 DEF Listed
      <4>4. QED
        BY <1>6, <2>3, <2>4, <4>1, <4>2, <4>3
    <3>3. QED
      BY <3>1, <3>2
  <2>8. QED
    BY <2>5, <2>6, <2>7 DEF Listed
<1>10. QED
  BY <1>1, <1>3, <1>8, <1>9 DEF ListingInv, Populating

\* children_populated is set when, and only when, the whole listing is made.
LEMMA PopulateDoneLists ==
  ASSUME TypeOK, OwnershipInv, ListingInv, PopulateDone
  PROVE  ListingInv'
<1>1. PICK p : p = target
  OBVIOUS
<1>2. /\ call = "populate" /\ p # root /\ made = Len(Listing[node[p]])
      /\ UNCHANGED <<live, node, children, cursor, root>>
      /\ call' = "idle" /\ made' = 0
      /\ \A q \in Addr \ {p} : populated'[q] = populated[q]
  BY <1>1 DEF PopulateDone, Populating, EndCall, rootVars, TypeOK, HeapTypeOK
<1>3. Listed(p, Len(Listing[node[p]]))
  BY <1>1, <1>2 DEF ListingInv, Populating
<1>4. ASSUME NEW o \in live' \ {root'}, populated'[o], cursor'[o] = 0
      PROVE  Listed(o, Len(Listing[node[o]]))
  BY <1>2, <1>3, <1>4 DEF ListingInv, TypeOK, HeapTypeOK
<1>5. \A o \in live' \ {root'} :
         populated'[o] /\ cursor'[o] = 0 => Listed(o, Len(Listing[node[o]]))'
  <2>1. \A o, m : Listed(o, m)' <=> Listed(o, m)
    BY <1>2 DEF Listed
  <2>2. \A o : Listed(o, Len(Listing[node[o]]))' <=> Listed(o, Len(Listing[node[o]]))
    BY <1>2, <2>1
  <2>3. QED
    BY <1>4, <2>2
<1>6. QED
  BY <1>2, <1>5 DEF ListingInv, Populating

\* Free frees what is doomed, and nobody lists it any more.
LEMMA FreeLists ==
  ASSUME TypeOK, OwnershipInv, ListingInv, Free
  PROVE  ListingInv'
<1>1. PICK p : p = Top
  OBVIOUS
<1>2. p \in live /\ IsDoomed(p) /\ p \in Addr /\ live \subseteq Addr
  BY <1>1, TopDoomed DEF Free, TypeOK, HeapTypeOK
<1>3. /\ live' = live \ {p} /\ (p # root => root' = root)
      /\ \A q \in Addr \ {p} : /\ node'[q] = node[q] /\ children'[q] = children[q]
                               /\ populated'[q] = populated[q] /\ cursor'[q] = cursor[q]
  BY <1>1 DEF Free, rootVars, TypeOK, HeapTypeOK
<1>4. \A o \in live' \ {root'} : populated'[o] /\ cursor'[o] = 0 =>
            /\ o \in live \ {root} /\ populated[o] /\ cursor[o] = 0
            /\ children'[o] = children[o] /\ node'[o] = node[o]
  BY <1>2, <1>3
<1>5. \A a \in live : ~IsDoomed(a) => node'[a] = node[a]
  BY <1>2, <1>3
<1>6. \A o \in live' \ {root'} :
         populated'[o] /\ cursor'[o] = 0 => Listed(o, Len(Listing[node[o]]))'
  BY <1>4, <1>5, ListingsKept
<1>7. call # "populate" /\ call' # "populate" /\ made' = made
  BY EmptyPath DEF Free
<1>8. QED
  BY <1>6, <1>7 DEF ListingInv, Populating

\* Every other step that works on a call neither creates nor frees an object;
\* it writes only to arrays that are not populated, or no longer so.
LEMMA OtherStepsList ==
  ASSUME TypeOK, OwnershipInv, ListingInv,
         \/ PopulateError \/ RootPopulateNext \/ RootPopulateError \/ RootPopulateDone
         \/ Surrender \/ SurrenderDone \/ DropNext \/ DestroyPending \/ RefreshDone
         \/ ReleaseTransport \/ (\E o \in Addr : GetChildren(o) \/ Refresh(o)) \/ DestroyRoot
         \/ UNCHANGED vars
  PROVE  ListingInv'
<1>1. UNCHANGED <<live, node, root>>
  BY DEF PopulateError, RootPopulateNext, RootPopulateError, RootPopulateDone, Surrender,
         SurrenderDone, DropNext, DestroyPending, RefreshDone, ReleaseTransport, GetChildren,
         Refresh, DestroyRoot, object, rootVars, vars
<1>2. live \subseteq Addr
  BY DEF TypeOK, HeapTypeOK
<1>3. \A o \in live \ {root} : populated'[o] /\ cursor'[o] = 0 =>
         populated[o] /\ cursor[o] = 0 /\ children'[o] = children[o]
  <2>1. CASE RootPopulateNext
    BY <1>2, <2>1 DEF RootPopulateNext, PopulatingRoot, AppendChild, TypeOK, HeapTypeOK
  <2>2. CASE RootPopulateDone
    BY <1>2, <2>2 DEF RootPopulateDone, PopulatingRoot, TypeOK, HeapTypeOK
  <2>3. CASE DropNext
    BY <1>2, <2>3 DEF DropNext, TypeOK, HeapTypeOK
  <2>4. CASE RefreshDone
    BY <1>2, <2>4 DEF RefreshDone, TypeOK, HeapTypeOK, CallTypeOK
  <2>5. CASE \/ PopulateError \/ RootPopulateError \/ Surrender \/ SurrenderDone
             \/ DestroyPending \/ ReleaseTransport
             \/ (\E o \in Addr : GetChildren(o) \/ Refresh(o)) \/ DestroyRoot
             \/ UNCHANGED vars
    BY <2>5 DEF PopulateError, RootPopulateError, Surrender, SurrenderDone, DestroyPending,
                ReleaseTransport, GetChildren, Refresh, DestroyRoot, object, vars
  <2>6. QED
    BY <2>1, <2>2, <2>3, <2>4, <2>5
<1>4. \A o \in live' \ {root'} :
         populated'[o] /\ cursor'[o] = 0 => Listed(o, Len(Listing[node[o]]))'
  <2>1. \A o \in live' \ {root'} : populated'[o] /\ cursor'[o] = 0 =>
            /\ o \in live \ {root} /\ populated[o] /\ cursor[o] = 0
            /\ children'[o] = children[o] /\ node'[o] = node[o]
    BY <1>1, <1>3
  <2>2. \A a \in live : ~IsDoomed(a) => node'[a] = node[a]
    BY <1>1
  <2>3. QED
    BY <2>1, <2>2, ListingsKept
<1>5. (Populating => Listed(target, made))' /\ (~Populating => made = 0)'
  <2>1. CASE \E o \in Addr : GetChildren(o)
    <3>1. PICK o \in Addr : GetChildren(o)
      BY <2>1
    <3>2. /\ UNCHANGED <<live, node, children, root>> /\ made' = 0 /\ target' = o
      BY <3>1 DEF GetChildren, Idle, ListingInv, Populating, object, rootVars
    <3>3. children[o] \in Seq(Addr) /\ Listing[node[o]] \in Seq(Node)
      BY NodeAssumption DEF TypeOK, HeapTypeOK
    <3>4. Listed(target, made)'
      BY <3>2, <3>3 DEF Listed
    <3>5. QED
      BY <3>2, <3>4
  <2>2. CASE \/ PopulateError \/ RootPopulateDone \/ SurrenderDone \/ RefreshDone
    BY <2>2 DEF PopulateError, RootPopulateDone, SurrenderDone, RefreshDone, EndCall, Populating
  <2>3. CASE \/ RootPopulateNext \/ RootPopulateError \/ Surrender \/ DropNext \/ DestroyPending
             \/ ReleaseTransport \/ (\E o \in Addr : Refresh(o)) \/ DestroyRoot
    <3>1. ~Populating /\ ~Populating' /\ made' = made
      BY <2>3, EmptyPath
         DEF RootPopulateNext, RootPopulateError, PopulatingRoot, Surrender, DropNext,
             DestroyPending, ReleaseTransport, Refresh, DestroyRoot, Idle, Populating,
             callVars, rootVars
    <3>2. QED
      BY <3>1 DEF ListingInv
  <2>4. CASE UNCHANGED vars
    BY <2>4 DEF vars, object, rootVars, callVars, ListingInv, Populating, Listed
  <2>5. QED
    BY <2>1, <2>2, <2>3, <2>4
<1>6. QED
  BY <1>4, <1>5 DEF ListingInv

\* The client's new transports and the root start without children.
LEMMA CreateLists ==
  ASSUME TypeOK, OwnershipInv, ListingInv, NEW a \in Addr,
         CreateTransport(a) \/ RootCreate(a)
  PROVE  ListingInv'
<1>1. PICK n \in Node : Allocate(a, n)
  <2>1. CASE CreateTransport(a)
    <3>1. Len(held) + 1 \in DOMAIN Transports
      BY <2>1, NodeAssumption DEF CreateTransport, TypeOK, CallTypeOK
    <3>2. QED
      BY <2>1, <3>1, NodeAssumption DEF CreateTransport
  <2>2. CASE RootCreate(a)
    BY <2>2, NodeAssumption DEF RootCreate
  <2>3. QED
    BY <2>1, <2>2
<1>2. /\ a \notin live /\ live' = live \cup {a} /\ ~populated[a]
      /\ \A b \in live : node'[b] = node[b]
  BY <1>1, AllocateListings
<1>3. /\ UNCHANGED <<children, populated, cursor, call, target, made>>
      /\ call = "idle" /\ root = NoAddr /\ NoAddr \notin live
  BY AddrAssumption DEF CreateTransport, RootCreate, Idle, callVars, TypeOK, HeapTypeOK
<1>4. \A o \in live' \ {root'} :
         populated'[o] /\ cursor'[o] = 0 => Listed(o, Len(Listing[node[o]]))'
  BY <1>2, <1>3, ListingsKept
<1>5. QED
  BY <1>3, <1>4 DEF ListingInv, Populating

\* A listing that is complete element by element is so as a sequence.
LEMMA SuffixIsListing ==
  ASSUME NEW S, NEW s \in Seq(S), NEW t \in Seq(S), Len(t) <= Len(s),
         \A i \in 1..Len(t) : s[Len(s) - Len(t) + i] = t[i]
  PROVE  Suffix(s, Len(t)) = t
<1>1. Len(s) \in Nat /\ Len(t) \in Nat
  OBVIOUS
<1>2. Suffix(s, Len(t)) \in Seq(S) /\ Len(Suffix(s, Len(t))) = Len(t)
  BY <1>1 DEF Suffix
<1>3. \A i \in 1..Len(t) : Suffix(s, Len(t))[i] = s[Len(s) - Len(t) + i]
  BY <1>1 DEF Suffix
<1>4. QED
  BY <1>1, <1>2, <1>3

\* Populated arrays end with their listings, whoever is being destroyed elsewhere.
LEMMA Listings == Spec => []ListingInv
<1>1. Init => ListingInv
  BY DEF Init, ListingInv, Populating
<1>2. TypeOK /\ OwnershipInv /\ ListingInv /\ [Next]_vars => ListingInv'
  <2>1. SUFFICES ASSUME TypeOK, OwnershipInv, ListingInv, [Next]_vars PROVE ListingInv'
    OBVIOUS
  <2>2. CASE \E a \in Addr : CreateTransport(a) \/ RootCreate(a)
    BY <2>1, <2>2, CreateLists
  <2>3. CASE \E a \in Addr : PopulateNext(a)
    BY <2>1, <2>3, PopulateNextLists
  <2>4. CASE PopulateDone
    BY <2>1, <2>4, PopulateDoneLists
  <2>5. CASE Free
    BY <2>1, <2>5, FreeLists
  <2>6. CASE \/ PopulateError \/ RootPopulateNext \/ RootPopulateError \/ RootPopulateDone
             \/ Surrender \/ SurrenderDone \/ DropNext \/ DestroyPending \/ RefreshDone
             \/ ReleaseTransport \/ (\E o \in Addr : GetChildren(o) \/ Refresh(o)) \/ DestroyRoot
             \/ UNCHANGED vars
    BY <2>1, <2>6, OtherStepsList
  <2>7. QED
    BY <2>1, <2>2, <2>3, <2>4, <2>5, <2>6 DEF Next, ClientCall, CallStep
<1>3. QED
  BY <1>1, <1>2, TypeCorrect, Ownership, PTL DEF Spec

\* What a successful get_children returns ends with the object's complete
\* listing, whatever attempts failed before it and whatever has been freed
\* elsewhere since.
THEOREM ListingsComplete == Spec => []CompleteListing
<1>1. TypeOK /\ OwnershipInv /\ ListingInv => CompleteListing
  <2>1. SUFFICES ASSUME TypeOK, OwnershipInv, ListingInv,
                        NEW o \in live \ {root}, populated[o], Idle
                 PROVE  LET full == Listing[node[o]]
                            names == [i \in DOMAIN children[o] |-> node[children[o][i]]]
                        IN  Len(names) >= Len(full) /\ Suffix(names, Len(full)) = full
    BY DEF CompleteListing
  <2> DEFINE full == Listing[node[o]]
             names == [i \in DOMAIN children[o] |-> node[children[o][i]]]
  <2>2. o \in Addr /\ cursor[o] = 0
    BY <2>1, EmptyPath DEF Idle, TypeOK, HeapTypeOK
  <2>3. Listed(o, Len(full))
    BY <2>1, <2>2 DEF ListingInv
  <2>4. children[o] \in Seq(Addr) /\ full \in Seq(Node) /\ Len(full) \in Nat
    <3>1. node[o] \in Node /\ children[o] \in Seq(Addr)
      BY <2>1, <2>2 DEF TypeOK, HeapTypeOK
    <3>2. full \in Seq(Node)
      BY <3>1, NodeAssumption
    <3>3. QED
      BY <3>1, <3>2
  <2>5. names \in Seq(Node) /\ Len(names) = Len(children[o])
    <3>1. \A i \in DOMAIN children[o] : node[children[o][i]] \in Node
      BY <2>1, <2>4 DEF TypeOK, HeapTypeOK
    <3>2. DOMAIN children[o] = 1..Len(children[o]) /\ Len(children[o]) \in Nat
      BY <2>4
    <3>3. QED
      BY <3>1, <3>2
  <2>6. Len(full) <= Len(names) /\ \A i \in 1..Len(full) : names[Len(names) - Len(full) + i] = full[i]
    <3>1. \A i \in 1..Len(full) : Len(children[o]) - Len(full) + i \in DOMAIN children[o]
      <4>1. Len(full) <= Len(children[o]) /\ DOMAIN children[o] = 1..Len(children[o])
            /\ Len(children[o]) \in Nat
        BY <2>3, <2>4 DEF Listed
      <4> HIDE DEF names, full
      <4>2. QED
        BY <2>4, <4>1
    <3>2. \A i \in DOMAIN children[o] : names[i] = node[children[o][i]]
      OBVIOUS
    <3> HIDE DEF names
    <3>3. QED
      BY <2>3, <2>4, <2>5, <3>1, <3>2 DEF Listed
  <2>7. Suffix(names, Len(full)) = full
    <3> HIDE DEF names, full
    <3>1. QED
      BY <2>4, <2>5, <2>6, SuffixIsListing
  <2>8. Len(names) >= Len(full)
    <3> HIDE DEF names, full
    <3>1. QED
      BY <2>4, <2>5, <2>6
  <2>9. QED
    BY <2>7, <2>8
<1>2. QED
  BY <1>1, TypeCorrect, Ownership, Listings, PTL

-----------------------------------------------------------------------------
(* What the call in progress has done so far (InProgress).                 *)

\* What the calls' own bookkeeping says of the first and last steps of a call.
LEMMA EndsProgress ==
  ASSUME TypeOK, OwnershipInv, ListingInv, InProgress,
         \/ \E a \in Addr : CreateTransport(a) \/ RootCreate(a)
         \/ ReleaseTransport \/ (\E o \in Addr : GetChildren(o) \/ Refresh(o)) \/ DestroyRoot
         \/ PopulateError \/ PopulateDone \/ RootPopulateError \/ RootPopulateDone
         \/ Surrender \/ SurrenderDone \/ RefreshDone \/ UNCHANGED vars
  PROVE  InProgress'
<1> USE DEF Idle, EndCall
<1>1. CASE \E a \in Addr : CreateTransport(a) \/ RootCreate(a)
  <2>1. call = "idle" /\ call' = "idle" /\ taken' = taken
    BY <1>1 DEF CreateTransport, RootCreate, callVars, rootVars
  <2>2. QED
    BY <2>1 DEF InProgress, Populating, PopulatingRoot
<1>2. CASE ReleaseTransport
  BY <1>2 DEF ReleaseTransport, InProgress, Populating, PopulatingRoot, rootVars
<1>3. ASSUME NEW o \in Addr, GetChildren(o) PROVE InProgress'
  <2>1. /\ call = "idle" /\ call' = "populate" /\ target' = o
        /\ UNCHANGED <<children, populated, root, taken, pending, made>>
    BY <1>3 DEF GetChildren, object, rootVars
  <2>2. taken = 0 /\ made = 0
    BY <2>1 DEF InProgress, ListingInv, Populating
  <2>3. children[o] \in Seq(Addr)
    BY DEF TypeOK, HeapTypeOK
  <2>4. {j \in DOMAIN children[o] : j > Len(children[o]) - 0} = {}
    BY <2>3
  <2>5. NewChildren' = {}
    BY <2>1, <2>2, <2>4 DEF NewChildren
  <2>6. o = root' => taken' <= Len(children'[o])
    BY <2>1, <2>2, <2>3
  <2>7. PopulatingRoot' => /\ (taken <= Len(children[root]))'
                           /\ (\A i \in 1..taken :
                                 children[root][Len(children[root]) - taken + i] = pending[i])'
    BY <2>1, <2>2, <2>6 DEF PopulatingRoot
  <2>8. QED
    BY <2>1, <2>2, <2>5, <2>7 DEF InProgress, Populating
<1>4. ASSUME NEW o \in Addr, Refresh(o) PROVE InProgress'
  BY <1>4 DEF Refresh, InProgress, Populating, PopulatingRoot, rootVars
<1>5. CASE DestroyRoot
  <2>1. stack' = <<root>> /\ root' = root /\ call' = "destroy"
    BY <1>5 DEF DestroyRoot, rootVars
  <2>2. stack'[Len(stack')] = root'
    BY <2>1
  <2>3. QED
    BY <2>1, <2>2 DEF InProgress, Populating, PopulatingRoot
<1>6. CASE PopulateError \/ PopulateDone
  <2>1. Populating /\ call' = "idle" /\ taken' = taken
    BY <1>6 DEF PopulateError, PopulateDone, rootVars
  <2>2. QED
    BY <2>1 DEF InProgress, Populating, PopulatingRoot
<1>7. CASE RootPopulateError \/ Surrender
  <2>1. call' = "surrender"
    BY <1>7 DEF RootPopulateError, Surrender
  <2>2. QED
    BY <2>1 DEF InProgress, Populating, PopulatingRoot
<1>8. CASE RootPopulateDone \/ SurrenderDone
  <2>1. call' = "idle" /\ taken' = 0
    BY <1>8 DEF RootPopulateDone, SurrenderDone
  <2>2. QED
    BY <2>1 DEF InProgress, Populating, PopulatingRoot
<1>9. CASE RefreshDone
  <2>1. call = "refresh" /\ call' = "idle" /\ taken' = taken
    BY <1>9 DEF RefreshDone, OnlyDropped, rootVars
  <2>2. QED
    BY <2>1 DEF InProgress, Populating, PopulatingRoot
<1>10. CASE UNCHANGED vars
  BY <1>10 DEF vars, object, rootVars, callVars, InProgress, Populating, PopulatingRoot, NewChildren
<1>11. QED
  BY <1>1, <1>2, <1>3, <1>4, <1>5, <1>6, <1>7, <1>8, <1>9, <1>10

\* A child made is bare, and the object it is made for is none of its own children.
LEMMA PopulateNextProgress ==
  ASSUME TypeOK, OwnershipInv, ListingInv, InProgress, NEW a \in Addr, PopulateNext(a)
  PROVE  InProgress'
<1>1. PICK p : p = target
  OBVIOUS
<1>2. /\ call = "populate" /\ call' = "populate" /\ target' = p /\ p # root
      /\ Allocate(a, Listing[node[p]][made + 1]) /\ AppendChild(p, a) /\ made' = made + 1
      /\ UNCHANGED <<populated, held, root, pending, taken>>
  BY <1>1 DEF PopulateNext, Populating, rootVars
<1>3. p \in Addr /\ p \in live /\ made \in Nat /\ children[p] \in Seq(Addr) /\ a \notin live
  BY <1>1, <1>2, AddrAssumption
     DEF TypeOK, CallTypeOK, HeapTypeOK, OwnershipInv, NoDanglingPointer, Allocate
<1>4. /\ \A q \in Addr \ {p} : children'[q] = children[q]
      /\ children'[p] = Append(children[p], a)
  BY <1>2, <1>3 DEF AppendChild, TypeOK, HeapTypeOK
<1>5. PICK l \in Nat : l = Len(children[p])
  BY <1>3
<1>6. Len(children'[p]) = l + 1 /\ children'[p][l + 1] = a
      /\ DOMAIN children'[p] = 1..l + 1 /\ DOMAIN children[p] = 1..l
      /\ \A i \in 1..l : children'[p][i] = children[p][i]
  BY <1>3, <1>4, <1>5
<1>7. children[a] = << >> /\ ~populated[a] /\ a # p
  BY <1>3 DEF OwnershipInv, CellsOK
<1>8. \A c \in NewChildren : c \in Addr /\ c # p /\ children[c] = << >> /\ ~populated[c]
  <2>1. \A c \in NewChildren : children[c] = << >> /\ ~populated[c]
    BY <1>1, <1>2 DEF InProgress, Populating
  <2>2. \A c \in NewChildren : c \in Addr /\ children[p] # << >>
    <3>1. NewChildren \subseteq {children[p][i] : i \in 1..l}
      BY <1>1, <1>6 DEF NewChildren
    <3>2. \A i \in 1..l : children[p][i] \in Addr /\ l # 0
      BY <1>3, <1>5
    <3>3. l # 0 => children[p] # << >>
      BY <1>5
    <3>4. QED
      BY <3>1, <3>2, <3>3
  <2>3. QED
    BY <2>1, <2>2
<1>9. \A c \in NewChildren' : c \in NewChildren \cup {a}
  <2>1. NewChildren' = {children'[p][i] : i \in {j \in DOMAIN children'[p] :
                                                  j > Len(children'[p]) - made'}}
    BY <1>2 DEF NewChildren
  <2>2. ASSUME NEW i \in DOMAIN children'[p], i > Len(children'[p]) - made'
        PROVE  children'[p][i] \in NewChildren \cup {a}
    <3>1. CASE i = l + 1
      BY <1>6, <3>1
    <3>2. CASE i # l + 1
      <4>1. i \in DOMAIN children[p] /\ i > Len(children[p]) - made /\ children'[p][i] = children[p][i]
        BY <1>2, <1>3, <1>5, <1>6, <2>2, <3>2
      <4>2. QED
        BY <1>1, <4>1 DEF NewChildren
    <3>3. QED
      BY <3>1, <3>2
  <2>3. QED
    BY <2>1, <2>2
<1>10. \A c \in NewChildren' : children'[c] = << >> /\ ~populated'[c]
  BY <1>2, <1>4, <1>7, <1>8, <1>9
<1>11. taken' = 0
  BY <1>1, <1>2 DEF InProgress, Populating
<1>12. QED
  BY <1>2, <1>10, <1>11 DEF InProgress, Populating, PopulatingRoot

\* A transport moved is the root's last child.
LEMMA RootPopulateNextProgress ==
  ASSUME TypeOK, OwnershipInv, InProgress, RootPopulateNext
  PROVE  InProgress'
<1>1. PICK x : x = pending[taken + 1]
  OBVIOUS
<1>2. /\ call = "populate" /\ call' = "populate" /\ target = root /\ target' = root
      /\ AppendChild(root, x) /\ taken' = taken + 1 /\ taken < Len(pending)
      /\ UNCHANGED <<root, pending>>
  BY <1>1 DEF RootPopulateNext, PopulatingRoot, callVars
<1>3. root \in Addr /\ taken \in Nat /\ pending \in Seq(Addr)
  BY <1>2, AddrAssumption DEF TypeOK, CallTypeOK
<1>4. children[root] \in Seq(Addr) /\ children'[root] = Append(children[root], x)
  BY <1>2, <1>3 DEF AppendChild, TypeOK, HeapTypeOK
<1>5. PICK l \in Nat : l = Len(children[root]) /\ Len(children'[root]) = l + 1
                       /\ children'[root][l + 1] = x
                       /\ \A i \in 1..l : children'[root][i] = children[root][i]
  BY <1>4
<1>6. taken <= l /\ \A i \in 1..taken : children[root][l - taken + i] = pending[i]
  BY <1>2, <1>5 DEF InProgress, PopulatingRoot
<1>7. ASSUME NEW i \in 1..(taken + 1)
      PROVE  children'[root][l - taken + i] = pending[i]
  <2>1. CASE i = taken + 1
    <3>1. l - taken + i = l + 1
      BY <1>3, <2>1
    <3>2. QED
      BY <1>1, <1>5, <2>1, <3>1
  <2>2. CASE i # taken + 1
    <3>1. i \in 1..taken
      BY <1>3, <2>2
    <3>2. PICK j : j = l - taken + i
      OBVIOUS
    <3>3. j \in 1..l
      BY <1>3, <1>6, <3>1, <3>2
    <3>4. QED
      BY <1>5, <1>6, <3>1, <3>2, <3>3
  <2>3. QED
    BY <2>1, <2>2
<1>8. Len(children'[root]) - taken' = l - taken /\ taken' <= Len(children'[root])
  BY <1>2, <1>3, <1>5, <1>6
<1>9. \A i \in 1..taken' : children'[root'][Len(children'[root']) - taken' + i] = pending'[i]
  BY <1>2, <1>7, <1>8
<1>10. QED
  BY <1>2, <1>8, <1>9 DEF InProgress, Populating, PopulatingRoot

\* The root stays last on the destroy path, and what is freed last leaves no
\* transport waiting.
LEMMA DestroyProgress ==
  ASSUME TypeOK, OwnershipInv, InProgress, DropNext \/ DestroyPending \/ Free
  PROVE  InProgress'
<1>1. stack \in Seq(Addr) /\ stack # << >> /\ call \in {"refresh", "surrender", "destroy"}
  BY DEF DropNext, DestroyPending, Free, TypeOK, CallTypeOK, OwnershipInv, CallOK, Call
<1>2. PICK n \in Nat : n = Len(stack) /\ n >= 1
  BY <1>1
<1>3. call # "surrender" => (call = "refresh" /\ taken = 0) \/ (call = "destroy" /\ (root = NoAddr \/ stack[n] = root))
  BY <1>1, <1>2 DEF InProgress
<1>4. ASSUME NEW x, stack' = <<x>> \o stack, call' = call, root' = root, target' = target,
             call = "refresh" => taken' = taken
      PROVE  InProgress'
  <2>1. Len(stack') = n + 1 /\ stack'[n + 1] = stack[n]
    BY <1>1, <1>2, <1>4
  <2>2. QED
    BY <1>1, <1>3, <1>4, <2>1 DEF InProgress, Populating, PopulatingRoot
<1>5. CASE DropNext
  BY <1>4, <1>5 DEF DropNext, rootVars
<1>6. CASE DestroyPending
  <2>1. call = "destroy"
    BY <1>1, <1>6, TopDoomed DEF DestroyPending
  <2>2. QED
    BY <1>4, <1>6, <2>1 DEF DestroyPending
<1>7. CASE Free
  <2>1. /\ ~OnlyDropped /\ stack' = Tail(stack)
        /\ call' = IF call = "destroy" /\ n = 1 THEN "idle" ELSE call
        /\ Top = root => root' = NoAddr /\ taken' = 0
        /\ Top # root => root' = root /\ taken' = taken
    BY <1>2, <1>7 DEF Free, rootVars
  <2>2. Top = stack[1] /\ (Top = root => call = "destroy")
    BY <1>1, <2>1, TopDoomed
  <2>3. call' = "idle" => taken' = 0
    <3>1. SUFFICES ASSUME call' = "idle", Top # root PROVE taken = 0
      BY <2>1
    <3>2. root = NoAddr
      BY <1>1, <1>3, <2>1, <2>2, <3>1
    <3>3. pending = << >> /\ taken <= Len(pending) /\ taken \in Nat
      BY <3>2 DEF OwnershipInv, TopLevelOK, CellsOK, TypeOK, CallTypeOK
    <3>4. Len(pending) = 0
      BY <3>3
    <3>5. QED
      BY <3>3, <3>4
  <2>4. call' = "refresh" => taken' = 0
    BY <1>1, <1>3, <2>1, <2>2
  <2>5. call' = "destroy" => root' = NoAddr \/ stack'[Len(stack')] = root'
    <3>1. SUFFICES ASSUME call' = "destroy" PROVE root' = NoAddr \/ stack'[Len(stack')] = root'
      OBVIOUS
    <3>2. call = "destroy" /\ n > 1
      BY <1>1, <1>2, <2>1, <3>1
    <3>3. Len(stack') = n - 1 /\ stack'[n - 1] = stack[n]
      BY <1>1, <1>2, <2>1, <3>2
    <3>4. QED
      BY <1>3, <2>1, <3>2, <3>3
  <2>6. call' \in {"idle", "refresh", "surrender", "destroy"}
    BY <1>1, <2>1
  <2>7. QED
    BY <2>3, <2>4, <2>5, <2>6 DEF InProgress, Populating, PopulatingRoot
<1>8. QED
  BY <1>5, <1>6, <1>7

\* Every step keeps the account of the call in progress.
LEMMA StepProgress ==
  ASSUME TypeOK, OwnershipInv, ListingInv, InProgress, [Next]_vars
  PROVE  InProgress'
<1>1. CASE \E a \in Addr : PopulateNext(a)
  BY <1>1, PopulateNextProgress
<1>2. CASE RootPopulateNext
  BY <1>2, RootPopulateNextProgress
<1>3. CASE DropNext \/ DestroyPending \/ Free
  BY <1>3, DestroyProgress
<1>4. CASE \/ \E a \in Addr : CreateTransport(a) \/ RootCreate(a)
           \/ ReleaseTransport \/ (\E o \in Addr : GetChildren(o) \/ Refresh(o)) \/ DestroyRoot
           \/ PopulateError \/ PopulateDone \/ RootPopulateError \/ RootPopulateDone
           \/ Surrender \/ SurrenderDone \/ RefreshDone \/ UNCHANGED vars
  BY <1>4, EndsProgress
<1>5. QED
  BY <1>1, <1>2, <1>3, <1>4 DEF Next, ClientCall, CallStep

-----------------------------------------------------------------------------
(* ObjectTree implements Forest.  Largest characterizes what the client    *)
(* sees without the recursion of Visible; so no induction over the tree is *)
(* needed to compare it with Apart, the largest set Forest keeps.  Then    *)
(* one lemma for each step of the code: it is a step of Forest, or the     *)
(* client sees nothing of it.                                              *)

\* An object is below one of S that the client sees leave.
Upward(T) == \A a \in T : parent[a] \in T \cup {NoAddr}

\* What the client sees is the largest set of objects that are not hidden, and
\* whose parents are in it too.
Largest == /\ Visible \in SUBSET (live \ Hidden) /\ Upward(Visible)
           /\ \A T \in SUBSET (live \ Hidden) : Upward(T) => T \subseteq Visible

\* The recursion of Visible up the parent chain is well-founded, as no object is
\* its own ancestor, so it finds this set.
LEMMA VisibleIsLargest == TypeOK /\ OwnershipInv => Largest
<1> SUFFICES ASSUME TypeOK, OwnershipInv PROVE Largest
  OBVIOUS
<1> DEFINE all == {T \in SUBSET (live \ Hidden) : Upward(T)}
           G == UNION all
           Step(f) == [a \in live |-> a \notin Hidden /\ (parent[a] # NoAddr => f[parent[a]])]
<1>1. G \subseteq live \ Hidden /\ Upward(G)
  BY DEF Upward
<1>2. \A a \in live : parent[a] # NoAddr => parent[a] \in live
  BY DEF OwnershipInv, ParentOutlivesChild
<1>3. \A a \in live : a \in G <=> a \notin Hidden /\ (parent[a] # NoAddr => parent[a] \in G)
  <2>1. ASSUME NEW a \in live, a \in G PROVE a \notin Hidden /\ (parent[a] # NoAddr => parent[a] \in G)
    <3> HIDE DEF G
    <3>1. QED
      BY <1>1, <2>1 DEF Upward
  <2>2. ASSUME NEW a \in live, a \notin Hidden, parent[a] # NoAddr => parent[a] \in G PROVE a \in G
    <3>1. G \cup {a} \subseteq live \ Hidden
      <4> HIDE DEF G
      <4>1. QED
        BY <1>1, <2>2
    <3>2. Upward(G \cup {a})
      <4> HIDE DEF G
      <4>1. QED
        BY <1>1, <2>2 DEF Upward
    <3>3. G \cup {a} \in all
      <4> HIDE DEF G
      <4>1. QED
        BY <3>1, <3>2
    <3>4. QED
      BY <3>3
  <2>3. QED
    BY <2>1, <2>2
<1> DEFINE f0 == [a \in live |-> a \in G]
<1>4. f0 = Step(f0)
  <2> HIDE DEF G
  <2>1. ASSUME NEW a \in live
        PROVE  (a \in G) = (a \notin Hidden /\ (parent[a] # NoAddr => f0[parent[a]]))
    <3>1. parent[a] # NoAddr => (f0[parent[a]] <=> parent[a] \in G)
      BY <1>2, <2>1
    <3>2. QED
      BY <1>3, <2>1, <3>1
  <2>2. QED
    BY <2>1
<1>5. PICK f : f = Step(f) /\ Visible = {a \in live : f[a]}
  <2> HIDE DEF f0
  <2>1. \E f : f = Step(f)
    BY <1>4
  <2>2. QED
    BY <2>1 DEF Visible
<1>6. \A a \in live : f[a] <=> a \notin Hidden /\ (parent[a] # NoAddr => f[parent[a]])
  <2>1. ASSUME NEW a \in live PROVE f[a] = Step(f)[a]
    BY <1>5
  <2> QED
    BY <2>1
<1>7. Visible \subseteq G
  <2>1. Visible \in SUBSET (live \ Hidden) /\ Upward(Visible)
    BY <1>2, <1>5, <1>6 DEF Upward
  <2>2. QED
    BY <2>1
<1>8. G \subseteq Visible
  <2> HIDE DEF G
  <2>1. SUFFICES ASSUME G \ Visible # {} PROVE FALSE
    OBVIOUS
  <2>2. PICK a \in G \ Visible : parent[a] \notin G \ Visible
    <3>1. G \ Visible \in SUBSET live
      BY <1>1
    <3>2. QED
      BY <2>1, <3>1 DEF OwnershipInv, Acyclic
  <2>3. a \in live /\ a \notin Hidden /\ (parent[a] # NoAddr => parent[a] \in G)
    BY <1>1, <2>2 DEF Upward
  <2>4. parent[a] # NoAddr => parent[a] \in live /\ f[parent[a]]
    BY <1>2, <1>5, <2>2, <2>3
  <2>5. f[a]
    BY <1>6, <2>3, <2>4
  <2>6. QED
    BY <1>5, <2>2, <2>3, <2>5
<1>9. G = Visible
  <2> HIDE DEF G
  <2> QED BY <1>7, <1>8
<1>10. \A T \in SUBSET (live \ Hidden) : Upward(T) => T \subseteq G
  OBVIOUS
<1>11. QED
  <2> HIDE DEF G
  <2> QED BY <1>1, <1>9, <1>10 DEF Largest

\* The same of the next state.
LEMMA NextIsLargest == (TypeOK /\ OwnershipInv => Largest)'
  BY VisibleIsLargest, PTL

\* With nothing hidden, all can be seen.
LEMMA NothingHidden ==
  ASSUME TypeOK, OwnershipInv, Hidden = {}
  PROVE  Visible = live
<1>1. Upward(live)
  BY DEF Upward, OwnershipInv, ParentOutlivesChild
<1>2. QED
  BY <1>1, VisibleIsLargest DEF Largest

\* A step that moves no object the client sees, before or after, shows it no
\* other objects.
LEMMA SameVisible ==
  ASSUME TypeOK, OwnershipInv, TypeOK', OwnershipInv',
         Visible \subseteq live' \ Hidden', Visible' \subseteq live \ Hidden,
         \A a \in Visible \cup Visible' : parent'[a] = parent[a]
  PROVE  Visible' = Visible
<1>1. Largest /\ Largest'
  BY VisibleIsLargest, NextIsLargest
<1>2. Upward(Visible)' /\ Upward(Visible')
  BY <1>1 DEF Largest, Upward
<1>3. QED
  BY <1>1, <1>2 DEF Largest, Upward

\* The client sees no change if the objects it sees are the same.
LEMMA SameView ==
  ASSUME Visible' = Visible,
         \A a \in Visible : /\ node'[a] = node[a]
                            /\ VisibleChildren(a)' = VisibleChildren(a)
                            /\ populated'[a] = populated[a]
                            /\ (call = "refresh" /\ a = target)' = (call = "refresh" /\ a = target),
         held' = held, TheRoot' = TheRoot, Waiting' = Waiting
  PROVE  UNCHANGED Client!vars
<1>1. Stands' = Stands
  BY DEF Stands, Seen
<1>2. Kids' = Kids
  BY DEF Kids, Seen
<1>3. Complete' = Complete
  BY DEF Complete, Seen
<1>4. QED
  BY <1>1, <1>2, <1>3 DEF Client!vars

\* All that is known of the code between two steps.
TreeInv == TypeOK /\ OwnershipInv /\ ListingInv /\ InProgress

\* What the client sees is there, and not hidden.
LEMMA SeenIsThere ==
  ASSUME TreeInv, TreeInv'
  PROVE  Visible \subseteq live \ Hidden /\ Visible' \subseteq live' \ Hidden'
         /\ live \subseteq Addr /\ live' \subseteq Addr
BY VisibleIsLargest, NextIsLargest DEF Largest, TreeInv, TypeOK, HeapTypeOK

\* Between calls and during a populate, an object is in its parent's array, and
\* in no other.
LEMMA Ties ==
  ASSUME TypeOK, OwnershipInv, call \in {"idle", "populate"}
  PROVE  /\ \A p \in live : \A i \in DOMAIN children[p] :
              children[p][i] \in live /\ parent[children[p][i]] = p
         /\ \A a \in live : parent[a] # NoAddr =>
              parent[a] \in live /\ \E i \in DOMAIN children[parent[a]] : children[parent[a]][i] = a
<1>1. \A p \in live : OwnedChild(p) = DOMAIN children[p]
  <2>1. SUFFICES ASSUME NEW p \in live PROVE OwnedChild(p) = DOMAIN children[p]
    OBVIOUS
  <2>2. cursor[p] = 0 /\ children[p] \in Seq(Addr)
    BY EmptyPath DEF TypeOK, HeapTypeOK
  <2>3. QED
    BY <2>2 DEF OwnedChild
<1>2. \A a \in live : parent[a] # NoAddr => parent[a] \in live /\ IsChildOf(a, parent[a])
  <2>1. SUFFICES ASSUME NEW a \in live, parent[a] # NoAddr
                 PROVE  parent[a] \in live /\ IsChildOf(a, parent[a])
    OBVIOUS
  <2>2. ~IsDoomed(a)
    BY EmptyPath
  <2>3. a # root /\ ~IsHeld(a) /\ ~IsPending(a)
    BY <2>1, AddrAssumption DEF OwnershipInv, TopLevelOK, SingleOwner, IsHeld, IsPending, TypeOK, HeapTypeOK
  <2>4. QED
    BY <2>2, <2>3 DEF OwnershipInv, NoLeak
<1>3. QED
  BY <1>1, <1>2 DEF OwnershipInv, NoDanglingPointer, SingleOwner, IsChildOf

\* All of a sequence.
LEMMA WholeSeq ==
  ASSUME NEW S, NEW s \in Seq(S)
  PROVE  SubSeq(s, 1, Len(s)) = s /\ SubSeq(s, 1, Len(s) - 0) = s
OBVIOUS

\* A get_children that has yet to create something changes nothing.
LEMMA GetChildrenMaps ==
  ASSUME TreeInv, TreeInv', NEW o \in Addr, GetChildren(o)
  PROVE  UNCHANGED Client!vars
<1>1. /\ call = "idle" /\ call' = "populate" /\ target' = o
      /\ UNCHANGED <<live, node, parent, children, populated, held, root, pending, taken, made>>
  BY DEF GetChildren, Idle, object, rootVars
<1>2. taken = 0 /\ made = 0
  BY <1>1 DEF TreeInv, InProgress, ListingInv, Populating
<1>3. Hidden = {} /\ Hidden' = {}
  <2>1. NewChildren' = {}
    <3>1. children[o] \in Seq(Addr)
      BY DEF TreeInv, TypeOK, HeapTypeOK
    <3>2. {j \in DOMAIN children[o] : j > Len(children[o]) - 0} = {}
      BY <3>1
    <3>3. QED
      BY <1>1, <1>2, <3>2 DEF NewChildren
  <2>2. QED
    BY <1>1, <2>1 DEF Hidden
<1>4. Visible' = Visible
  BY <1>1, <1>3, SeenIsThere, SameVisible DEF TreeInv
<1>5. ASSUME NEW a \in Visible PROVE VisibleChildren(a)' = VisibleChildren(a)
  <2>1. children[a] \in Seq(Addr)
    BY SeenIsThere DEF TreeInv, TypeOK, HeapTypeOK
  <2>2. VisibleChildren(a) = children[a]
    BY <1>1 DEF VisibleChildren
  <2>3. VisibleChildren(a)' = children[a]
    <3>1. CASE a = o
      <4>1. VisibleChildren(a)' = SubSeq(children[a], 1, Len(children[a]) - 0)
        BY <1>1, <1>2, <3>1 DEF VisibleChildren
      <4>2. QED
        BY <2>1, <4>1, WholeSeq
    <3>2. CASE a # o
      BY <1>1, <3>2 DEF VisibleChildren
    <3>3. QED
      BY <3>1, <3>2
  <2>4. QED
    BY <2>2, <2>3
<1>6. TheRoot' = TheRoot /\ Waiting' = Waiting
  BY <1>1 DEF TheRoot, Waiting
<1>7. QED
  BY <1>1, <1>4, <1>5, <1>6, SameView

\* A child made by a populate is hidden.
LEMMA PopulateNextMaps ==
  ASSUME TreeInv, TreeInv', NEW a \in Addr, PopulateNext(a)
  PROVE  UNCHANGED Client!vars
<1>1. PICK p : p = target
  OBVIOUS
<1>2. /\ call = "populate" /\ call' = "populate" /\ target' = p /\ p # root
      /\ Allocate(a, Listing[node[p]][made + 1]) /\ AppendChild(p, a) /\ made' = made + 1
      /\ UNCHANGED <<populated, held, root, pending, taken>>
  BY <1>1 DEF PopulateNext, Populating, rootVars
<1>3. p \in Addr /\ p \in live /\ made \in Nat /\ children[p] \in Seq(Addr) /\ a \notin live
  BY <1>1, <1>2, AddrAssumption
     DEF TreeInv, TypeOK, CallTypeOK, HeapTypeOK, OwnershipInv, NoDanglingPointer, Allocate
<1>4. /\ live' = live \cup {a} /\ (\A b \in live : node'[b] = node[b] /\ parent'[b] = parent[b])
      /\ \A q \in Addr \ {p} : children'[q] = children[q]
      /\ children'[p] = Append(children[p], a)
  BY <1>2, <1>3 DEF AppendChild, Allocate, TreeInv, TypeOK, HeapTypeOK
<1>5. PICK l \in Nat : l = Len(children[p])
  BY <1>3
<1>6. Len(children'[p]) = l + 1 /\ children'[p][l + 1] = a
      /\ DOMAIN children'[p] = 1..l + 1 /\ DOMAIN children[p] = 1..l
      /\ \A i \in 1..l : children'[p][i] = children[p][i]
  BY <1>3, <1>4, <1>5
<1>7. Hidden' = Hidden \cup {a}
  <2>1. NewChildren = {children[p][i] : i \in {j \in 1..l : j > l - made}}
    BY <1>1, <1>5, <1>6 DEF NewChildren
  <2>2. NewChildren' = {children'[p][i] : i \in {j \in 1..l + 1 : j > l + 1 - (made + 1)}}
    <3>1. NewChildren' = {children'[p][i] : i \in {j \in DOMAIN children'[p] :
                                                    j > Len(children'[p]) - made'}}
      BY <1>2 DEF NewChildren
    <3>2. DOMAIN children'[p] = 1..l + 1 /\ Len(children'[p]) - made' = l + 1 - (made + 1)
      BY <1>2, <1>3, <1>6
    <3>3. QED
      BY <3>1, <3>2, Zenon
  <2>3. {j \in 1..l + 1 : j > l + 1 - (made + 1)} = {j \in 1..l : j > l - made} \cup {l + 1}
    BY <1>3
  <2>4. NewChildren' = NewChildren \cup {a}
    BY <1>6, <2>1, <2>2, <2>3
  <2>5. Hidden = NewChildren /\ Hidden' = NewChildren'
    BY <1>1, <1>2 DEF Hidden
  <2>6. QED
    BY <2>4, <2>5
<1>8. Visible' = Visible
  BY <1>3, <1>4, <1>7, SeenIsThere, SameVisible DEF TreeInv
<1>9. ASSUME NEW b \in Visible PROVE VisibleChildren(b)' = VisibleChildren(b)
  <2>1. CASE b = p
    <3>1. VisibleChildren(p) = SubSeq(children[p], 1, l - made)
      BY <1>1, <1>2, <1>5 DEF VisibleChildren
    <3>2. VisibleChildren(p)' = SubSeq(children'[p], 1, l + 1 - (made + 1))
      <4>1. VisibleChildren(p)' = SubSeq(children'[p], 1, Len(children'[p]) - made')
        BY <1>2 DEF VisibleChildren
      <4>2. QED
        BY <1>2, <1>6, <4>1
    <3>3. l + 1 - (made + 1) = l - made
      BY <1>3
    <3>4. SubSeq(children'[p], 1, l - made) = SubSeq(children[p], 1, l - made)
      BY <1>3, <1>4, <1>5
    <3>5. QED
      BY <2>1, <3>1, <3>2, <3>3, <3>4
  <2>2. CASE b # p
    BY <1>1, <1>2, <1>4, <2>2, SeenIsThere DEF VisibleChildren
  <2>3. QED
    BY <2>1, <2>2
<1>10. TheRoot' = TheRoot /\ Waiting' = Waiting
  BY <1>2 DEF TheRoot, Waiting
<1>11. \A b \in Visible : node'[b] = node[b] /\ populated'[b] = populated[b]
  BY <1>2, <1>4, SeenIsThere
<1>12. QED
  BY <1>2, <1>8, <1>9, <1>10, <1>11, SameView

\* The root's transports change hands, and the client does not look.
LEMMA RootPopulateNextMaps ==
  ASSUME TreeInv, TreeInv', RootPopulateNext
  PROVE  UNCHANGED Client!vars
<1>1. PICK x : x = pending[taken + 1]
  OBVIOUS
<1>2. /\ call = "populate" /\ call' = "populate" /\ target = root /\ target' = root
      /\ AppendChild(root, x) /\ taken' = taken + 1 /\ taken < Len(pending)
      /\ UNCHANGED <<live, node, populated, held, root, pending, made>>
  BY <1>1 DEF RootPopulateNext, PopulatingRoot, callVars
<1>3. root \in Addr /\ root \in live /\ taken \in Nat /\ children[root] \in Seq(Addr) /\ x \in Addr
  <2>1. root \in Addr /\ taken \in Nat /\ pending \in Seq(Addr)
    BY <1>2, AddrAssumption DEF TreeInv, TypeOK, CallTypeOK
  <2>2. x \in Addr
    BY <1>1, <1>2, <2>1
  <2>3. root \in live
    BY <2>1, AddrAssumption DEF TreeInv, OwnershipInv, NoDanglingPointer
  <2>4. children[root] \in Seq(Addr)
    BY <2>1 DEF TreeInv, TypeOK, HeapTypeOK
  <2>5. QED
    BY <2>1, <2>2, <2>3, <2>4
<1>4. /\ \A q \in Addr \ {root} : children'[q] = children[q]
      /\ children'[root] = Append(children[root], x)
  BY <1>2, <1>3 DEF AppendChild, TreeInv, TypeOK, HeapTypeOK
<1>5. PICK l \in Nat : l = Len(children[root]) /\ Len(children'[root]) = l + 1
  BY <1>3, <1>4
<1>6. Hidden = {} /\ Hidden' = {}
  BY <1>2 DEF Hidden
<1>7. Visible = live /\ Visible' = live
  <2>1. Upward(live) /\ Upward(live)'
    BY DEF Upward, TreeInv, OwnershipInv, ParentOutlivesChild
  <2>2. Largest /\ Largest'
    BY VisibleIsLargest, NextIsLargest DEF TreeInv
  <2>3. live \subseteq Visible
    BY <1>6, <2>1, <2>2 DEF Largest
  <2>4. live \subseteq Visible'
    BY <1>2, <1>6, <2>1, <2>2 DEF Largest, Upward
  <2>5. QED
    BY <1>2, <2>2, <2>3, <2>4 DEF Largest
<1>8. ASSUME NEW b \in Visible PROVE VisibleChildren(b)' = VisibleChildren(b)
  <2>1. CASE b = root
    <3>1. VisibleChildren(b) = SubSeq(children[root], 1, l - taken)
      BY <1>2, <1>5, <2>1 DEF VisibleChildren
    <3>2. VisibleChildren(b)' = SubSeq(children'[root], 1, l + 1 - (taken + 1))
      <4>1. VisibleChildren(b)' = SubSeq(children'[root], 1, Len(children'[root]) - taken')
        BY <1>2, <2>1 DEF VisibleChildren
      <4>2. QED
        BY <1>2, <1>5, <4>1
    <3>3. l + 1 - (taken + 1) = l - taken
      BY <1>3
    <3>4. SubSeq(children'[root], 1, l - taken) = SubSeq(children[root], 1, l - taken)
      BY <1>3, <1>4, <1>5
    <3>5. QED
      BY <2>1, <3>1, <3>2, <3>3, <3>4
  <2>2. CASE b # root
    BY <1>2, <1>4, <2>2, SeenIsThere DEF VisibleChildren
  <2>3. QED
    BY <2>1, <2>2
<1>9. TheRoot' = TheRoot /\ Waiting' = Waiting
  BY <1>2 DEF TheRoot, Waiting
<1>10. QED
  BY <1>2, <1>7, <1>8, <1>9, SameView

\* A transport given up stays hidden, whoever is to destroy it now.
LEMMA SurrenderMaps ==
  ASSUME TreeInv, TreeInv', Surrender \/ SurrenderDone
  PROVE  UNCHANGED Client!vars
<1>1. /\ call = "surrender" /\ stack = << >> /\ UNCHANGED <<object, held, root>>
      /\ pending \in Seq(Addr) /\ taken \in Nat
  BY DEF Surrender, SurrenderDone, TreeInv, TypeOK, CallTypeOK
<1>2. Cells(stack) = {} /\ Hidden = WaitingCells
  BY <1>1 DEF Hidden, Cells
<1>3. Hidden' = Hidden
  <2>1. CASE Surrender
    <3>1. /\ call' = "surrender" /\ stack' = <<pending[taken + 1]>> /\ taken' = taken + 1
          /\ pending' = pending /\ taken < Len(pending)
      BY <2>1 DEF Surrender
    <3>2. Cells(stack') = {pending[taken + 1]}
      <4>1. DOMAIN stack' = {1} /\ stack'[1] = pending[taken + 1]
        BY <3>1
      <4>2. QED
        BY <4>1 DEF Cells
    <3>3. OwnedPending = OwnedPending' \cup {taken + 1}
      BY <1>1, <3>1 DEF OwnedPending
    <3>4. WaitingCells = WaitingCells' \cup {pending[taken + 1]}
      BY <3>1, <3>3 DEF WaitingCells
    <3>5. Hidden' = Cells(stack') \cup WaitingCells'
      BY <3>1 DEF Hidden, Cells
    <3>6. QED
      BY <1>2, <3>2, <3>4, <3>5
  <2>2. CASE SurrenderDone
    <3>1. call' = "idle" /\ taken = Len(pending)
      BY <2>2 DEF SurrenderDone, EndCall
    <3>2. OwnedPending = {}
      BY <1>1, <3>1 DEF OwnedPending
    <3>3. QED
      BY <1>2, <3>1, <3>2 DEF Hidden, WaitingCells
  <2>3. QED
    BY <2>1, <2>2
<1>4. Visible' = Visible
  BY <1>1, <1>3, SeenIsThere, SameVisible DEF TreeInv, object
<1>5. call' \in {"surrender", "idle"} /\ (call' = "idle" => pending' = << >>)
  BY <1>1 DEF Surrender, SurrenderDone, EndCall
<1>6. TheRoot' = TheRoot /\ Waiting' = Waiting
  BY <1>1, <1>5 DEF TheRoot, Waiting
<1>7. QED
  BY <1>1, <1>4, <1>5, <1>6, SameView DEF object, VisibleChildren

\* What drop_children or root_destroy_impl goes on to destroy is hidden already.
LEMMA PushMaps ==
  ASSUME TreeInv, TreeInv', DropNext \/ DestroyPending
  PROVE  UNCHANGED Client!vars
<1>1. /\ call \in {"refresh", "surrender", "destroy"} /\ stack # << >> /\ stack \in Seq(Addr)
      /\ call' = call /\ target' = target /\ root' = root /\ pending' = pending /\ held' = held
      /\ UNCHANGED <<live, node, parent, children, populated>>
  BY DEF DropNext, DestroyPending, TreeInv, TypeOK, CallTypeOK, OwnershipInv, CallOK, Call, object, rootVars
<1>2. Hidden \subseteq Hidden' /\ Visible \cap Hidden' = {}
  <2>1. CASE call = "refresh"
    <3>1. Hidden' = Hidden
      BY <1>1, <2>1 DEF Hidden
    <3>2. QED
      BY <3>1, SeenIsThere
  <2>2. CASE call # "refresh"
    <3>1. Hidden = Cells(stack) \cup WaitingCells /\ Hidden' = Cells(stack') \cup WaitingCells'
      BY <1>1, <2>2 DEF Hidden, Cells
    <3>2. ASSUME NEW x, stack' = <<x>> \o stack
          PROVE  Cells(stack') = {x} \cup Cells(stack)
      <4>1. PICK n \in Nat : n = Len(stack) /\ DOMAIN stack = 1..n
        BY <1>1
      <4>2. /\ DOMAIN stack' = 1..n + 1 /\ stack'[1] = x
            /\ \A k \in 1..n : stack'[k + 1] = stack[k]
        BY <1>1, <3>2, <4>1
      <4>3. Cells(stack') \subseteq {x} \cup Cells(stack)
        <5>1. ASSUME NEW k \in 1..n + 1 PROVE stack'[k] \in {x} \cup Cells(stack)
          <6>1. CASE k = 1
            BY <4>2, <6>1
          <6>2. CASE k # 1
            <7>1. k - 1 \in 1..n /\ (k - 1) + 1 = k
              BY <4>1, <6>2
            <7>2. stack'[k] = stack[k - 1]
              BY <4>2, <7>1
            <7>3. QED
              BY <4>1, <7>1, <7>2 DEF Cells
          <6>3. QED
            BY <6>1, <6>2
        <5>2. QED
          BY <4>2, <5>1 DEF Cells
      <4>4. {x} \cup Cells(stack) \subseteq Cells(stack')
        <5>1. \A k \in 1..n : k + 1 \in 1..n + 1
          BY <4>1
        <5>2. 1 \in 1..n + 1
          BY <4>1
        <5>3. QED
          BY <4>1, <4>2, <5>1, <5>2 DEF Cells
      <4>5. QED
        BY <4>3, <4>4
    <3>3. CASE DropNext
      <4>1. PICK p, k, c : p = Top /\ k = cursor[p] + 1 /\ c = children[p][k]
        OBVIOUS
      <4>2. stack' = <<c>> \o stack /\ cursor[p] < Len(children[p]) /\ UNCHANGED <<pending, taken>>
        BY <3>3, <4>1 DEF DropNext, ChildrenLeft, rootVars
      <4>3. p \in Cells(stack) /\ p \in live /\ p \in Addr
        <5>1. 1 \in DOMAIN stack /\ p = stack[1]
          BY <1>1, <4>1 DEF Top
        <5>2. QED
          BY <1>1, <5>1 DEF Cells, TreeInv, OwnershipInv, NoDanglingPointer
      <4>4. k \in OwnedChild(p)
        <5>1. children[p] \in Seq(Addr) /\ cursor[p] \in Nat
          BY <4>3 DEF TreeInv, TypeOK, HeapTypeOK
        <5>2. QED
          BY <4>1, <4>2, <5>1 DEF OwnedChild
      <4>5. parent[c] = p
        BY <4>1, <4>3, <4>4 DEF TreeInv, OwnershipInv, SingleOwner
      <4>6. c \notin Visible
        <5>1. Largest
          BY VisibleIsLargest DEF TreeInv
        <5>2. p \notin Visible /\ p # NoAddr
          BY <3>1, <4>3, SeenIsThere, AddrAssumption
        <5>3. QED
          BY <4>5, <5>1, <5>2 DEF Largest, Upward
      <4>7. Hidden' = Hidden \cup {c}
        <5>1. Cells(stack') = {c} \cup Cells(stack)
          BY <3>2, <4>2
        <5>2. WaitingCells' = WaitingCells
          BY <4>2 DEF WaitingCells, OwnedPending
        <5>3. QED
          BY <3>1, <5>1, <5>2
      <4>8. QED
        BY <4>6, <4>7, SeenIsThere
    <3>4. CASE DestroyPending
      <4>1. PICK x : x = pending[taken + 1]
        OBVIOUS
      <4>2. stack' = <<x>> \o stack /\ taken' = taken + 1 /\ taken < Len(pending)
            /\ taken \in Nat /\ pending \in Seq(Addr)
        BY <3>4, <4>1 DEF DestroyPending, TreeInv, TypeOK, CallTypeOK
      <4>3. OwnedPending = OwnedPending' \cup {taken + 1}
        BY <1>1, <4>2 DEF OwnedPending
      <4>4. WaitingCells = WaitingCells' \cup {x}
        BY <1>1, <4>1, <4>3 DEF WaitingCells
      <4>5. Cells(stack') = {x} \cup Cells(stack)
        BY <3>2, <4>2
      <4>6. Hidden' = Hidden
        BY <3>1, <4>4, <4>5
      <4>7. QED
        BY <4>6, SeenIsThere
    <3>5. QED
      BY <3>3, <3>4
  <2>3. QED
    BY <2>1, <2>2
<1>3. Visible' = Visible
  <2>1. Visible \subseteq live' \ Hidden' /\ Visible' \subseteq live \ Hidden
    BY <1>1, <1>2, SeenIsThere
  <2>2. QED
    BY <1>1, <2>1, SameVisible DEF TreeInv
<1>4. TheRoot' = TheRoot /\ Waiting' = Waiting
  BY <1>1 DEF TheRoot, Waiting
<1>5. QED
  BY <1>1, <1>3, <1>4, SameView DEF VisibleChildren

\* An object on the destroy path was hidden when the call began.
LEMMA DoomedUnseen ==
  ASSUME TreeInv
  PROVE  \A k \in Doomed : stack[k] \notin Visible
<1>1. Largest /\ stack \in Seq(Addr) /\ DOMAIN stack = 1..Len(stack) /\ Len(stack) \in Nat
  BY VisibleIsLargest DEF TreeInv, TypeOK, CallTypeOK
<1>2. Doomed \subseteq DOMAIN stack /\ DOMAIN stack \subseteq Int
  BY <1>1 DEF Doomed
<1>3. CASE call = "refresh"
  <2> DEFINE T == {a \in Visible : IsDoomed(a)}
  <2>1. SUFFICES ASSUME T # {} PROVE FALSE
    BY <1>2 DEF IsDoomed
  <2>2. PICK a \in T : parent[a] \notin T
    <3>1. T \in SUBSET live
      BY <1>1 DEF Largest
    <3> HIDE DEF T
    <3>2. QED
      BY <2>1, <3>1 DEF TreeInv, OwnershipInv, Acyclic
  <2>3. PICK k \in Doomed : stack[k] = a
    BY DEF IsDoomed
  <2>4. k < Len(stack) /\ stack[k + 1] = parent[a] /\ k + 1 \in DOMAIN stack
    BY <1>1, <1>2, <1>3, <2>3 DEF TreeInv, OwnershipInv, PathOK
  <2>5. parent[a] \in Addr /\ parent[a] # NoAddr
    BY <1>1, <2>4, AddrAssumption
  <2>6. parent[a] \in Visible
    BY <1>1, <2>5 DEF Largest, Upward
  <2>7. k + 1 \notin Doomed
    BY <2>2, <2>4, <2>6 DEF IsDoomed
  <2>8. k + 1 = Len(stack)
    BY <1>1, <1>2, <1>3, <2>4, <2>7 DEF Doomed
  <2>9. parent[a] = target
    BY <1>3, <2>4, <2>8 DEF TreeInv, OwnershipInv, CallOK
  <2>10. a \in Hidden
    BY <1>1, <1>3, <2>9 DEF Hidden, Largest
  <2>11. QED
    BY <1>1, <2>10 DEF Largest
<1>4. CASE call # "refresh"
  <2>1. SUFFICES ASSUME NEW k \in Doomed PROVE stack[k] \notin Visible
    OBVIOUS
  <2>2. stack # << >>
    BY <1>1, <1>2, <2>1
  <2>3. call \in {"surrender", "destroy"}
    BY <1>4, <2>2 DEF TreeInv, OwnershipInv, CallOK, TypeOK, CallTypeOK, Call
  <2>4. stack[k] \in Hidden
    BY <1>2, <2>1, <2>3 DEF Hidden, Cells
  <2>5. QED
    BY <1>1, <2>4 DEF Largest
<1>5. QED
  BY <1>3, <1>4

\* What is freed was out of the client's sight already.
LEMMA FreeMaps ==
  ASSUME TreeInv, TreeInv', Free
  PROVE  UNCHANGED Client!vars
<1>1. PICK t : t = Top
  OBVIOUS
<1>2. /\ stack # << >> /\ ~OnlyDropped /\ live' = live \ {t}
      /\ stack' = Tail(stack) /\ (t = root => taken = Len(pending))
      /\ call' = IF call = "destroy" /\ Len(stack) = 1 THEN "idle" ELSE call
      /\ t = root => root' = NoAddr /\ pending' = << >> /\ taken' = 0
      /\ t # root => root' = root /\ pending' = pending /\ taken' = taken
      /\ held' = held /\ target' = target
  BY <1>1 DEF Free, rootVars
<1>3. \A a \in Addr \ {t} : /\ node'[a] = node[a] /\ parent'[a] = parent[a]
                            /\ children'[a] = children[a] /\ populated'[a] = populated[a]
  <2>1. /\ node' = [node EXCEPT ![t] = RootNode] /\ parent' = [parent EXCEPT ![t] = NoAddr]
        /\ children' = [children EXCEPT ![t] = << >>] /\ populated' = [populated EXCEPT ![t] = FALSE]
    BY <1>1 DEF Free
  <2>2. QED
    BY <2>1 DEF TreeInv, TypeOK, HeapTypeOK
<1>4. /\ stack \in Seq(Addr) /\ call \in {"refresh", "surrender", "destroy"}
      /\ 1 \in Doomed /\ t = stack[1] /\ t \notin Visible /\ t \in Addr
      /\ (t = root => call = "destroy" /\ Len(stack) = 1)
  <2>1. stack \in Seq(Addr) /\ call \in {"refresh", "surrender", "destroy"}
    BY <1>2 DEF TreeInv, TypeOK, CallTypeOK, OwnershipInv, CallOK, Call
  <2>2. 1 \in Doomed /\ t = stack[1] /\ t \in live /\ (t = root => call = "destroy" /\ Len(stack) = 1)
    BY <1>1, <1>2, TopDoomed DEF TreeInv
  <2>3. QED
    BY <2>1, <2>2, DoomedUnseen DEF TreeInv, TypeOK, HeapTypeOK
<1>5. PICK n \in Nat : n = Len(stack) /\ n >= 1 /\ DOMAIN stack = 1..n
  BY <1>2, <1>4
<1>6. call' # "idle" => Hidden \ {t} \subseteq Hidden' /\ Hidden' \subseteq Hidden
  <2>1. CASE call = "refresh"
    <3>1. call' = "refresh" /\ target' = target
      BY <1>2, <2>1
    <3>2. Hidden = {a \in live : parent[a] = target} /\ Hidden' = {a \in live' : parent'[a] = target}
      BY <2>1, <3>1 DEF Hidden
    <3>3. QED
      BY <1>2, <1>3, <3>2, SeenIsThere
  <2>2. CASE call # "refresh" /\ call' # "idle"
    <3>1. Hidden = Cells(stack) \cup WaitingCells /\ Hidden' = Cells(stack') \cup WaitingCells'
      BY <1>2, <1>4, <2>2 DEF Hidden, Cells
    <3>2. t # root /\ WaitingCells' = WaitingCells
      BY <1>2, <1>4, <2>2 DEF WaitingCells, OwnedPending
    <3>3. /\ DOMAIN stack' = 1..n - 1 /\ \A k \in 1..n - 1 : stack'[k] = stack[k + 1]
      BY <1>2, <1>4, <1>5
    <3>4. Cells(stack') \subseteq Cells(stack)
      BY <1>5, <3>3 DEF Cells
    <3>5. Cells(stack) \ {t} \subseteq Cells(stack')
      <4>1. ASSUME NEW k \in 1..n, stack[k] # t PROVE stack[k] \in Cells(stack')
        <5>1. k # 1
          BY <1>4, <4>1
        <5>2. k - 1 \in 1..n - 1 /\ (k - 1) + 1 = k
          BY <1>5, <5>1
        <5>3. stack'[k - 1] = stack[k]
          BY <3>3, <5>2
        <5>4. QED
          BY <3>3, <5>2, <5>3 DEF Cells
      <4>2. QED
        BY <1>5, <4>1 DEF Cells
    <3>6. QED
      BY <3>1, <3>2, <3>4, <3>5
  <2>3. QED
    BY <2>1, <2>2
<1>7. call' = "idle" => /\ Hidden \subseteq {t} /\ Hidden' = {}
                        /\ root' = NoAddr /\ pending' = << >>
  <2>1. SUFFICES ASSUME call' = "idle"
                 PROVE  Hidden \subseteq {t} /\ Hidden' = {} /\ root' = NoAddr /\ pending' = << >>
    OBVIOUS
  <2>2. call = "destroy" /\ n = 1 /\ stack[1] = t /\ Cells(stack) = {t}
    BY <1>2, <1>4, <1>5, <2>1 DEF Cells
  <2>3. OwnedPending = {} /\ root' = NoAddr /\ pending' = << >>
    <3>1. pending \in Seq(Addr)
      BY DEF TreeInv, TypeOK, CallTypeOK
    <3>2. CASE t = root
      BY <1>2, <3>1, <3>2 DEF OwnedPending
    <3>3. CASE t # root
      <4>1. root = NoAddr
        BY <1>5, <2>2, <3>3 DEF TreeInv, InProgress
      <4>2. pending = << >>
        BY <4>1 DEF TreeInv, OwnershipInv, TopLevelOK
      <4>3. QED
        BY <1>2, <3>3, <4>1, <4>2 DEF OwnedPending
    <3>4. QED
      BY <3>2, <3>3
  <2>4. WaitingCells = {}
    BY <2>3 DEF WaitingCells
  <2>5. QED
    BY <2>1, <2>2, <2>3, <2>4 DEF Hidden
<1>8. Visible' = Visible
  <2>1. Visible \subseteq live' \ Hidden' /\ Visible' \subseteq live \ Hidden
    BY <1>2, <1>4, <1>6, <1>7, SeenIsThere
  <2>2. \A a \in Visible \cup Visible' : parent'[a] = parent[a]
    BY <1>2, <1>3, <2>1, SeenIsThere
  <2>3. QED
    BY <2>1, <2>2, SameVisible DEF TreeInv
<1>9. \A a \in Visible : a \in Addr /\ a # t
  BY <1>4, SeenIsThere
<1>10. call' \in {call, "idle"} /\ (call' = "idle" => call = "destroy")
  BY <1>2, <1>4
<1>11. \A a \in Visible : VisibleChildren(a)' = VisibleChildren(a)
  BY <1>2, <1>3, <1>4, <1>9, <1>10 DEF VisibleChildren
<1>12. \A a \in Visible : (call = "refresh" /\ a = target)' = (call = "refresh" /\ a = target)
  BY <1>2, <1>4, <1>10
<1>13. TheRoot' = TheRoot /\ Waiting' = Waiting
  BY <1>2, <1>4, <1>7, <1>10 DEF TheRoot, Waiting
<1>14. QED
  BY <1>2, <1>3, <1>8, <1>9, <1>11, <1>12, <1>13, SameView

\* A refreshed object has looked empty since the call began.
LEMMA RefreshDoneMaps ==
  ASSUME TreeInv, TreeInv', RefreshDone
  PROVE  UNCHANGED Client!vars
<1>1. PICK o : o = target
  OBVIOUS
<1>2. /\ call = "refresh" /\ stack = <<o>> /\ ~ChildrenLeft(o) /\ call' = "idle"
      /\ children' = [children EXCEPT ![o] = << >>] /\ populated' = [populated EXCEPT ![o] = FALSE]
      /\ UNCHANGED <<live, node, parent, held, root, pending>>
  BY <1>1 DEF RefreshDone, OnlyDropped, EndCall, rootVars
<1>3. o \in Addr /\ children[o] \in Seq(Addr) /\ cursor[o] \in Nat
  BY <1>1, <1>2 DEF TreeInv, TypeOK, CallTypeOK, HeapTypeOK
<1>4. Hidden = {} /\ Hidden' = {}
  <2>1. ASSUME NEW a \in live, parent[a] = o PROVE FALSE
    <3>1. a # root /\ ~IsHeld(a) /\ ~IsPending(a)
      BY <1>3, <2>1, AddrAssumption
         DEF TreeInv, OwnershipInv, TopLevelOK, SingleOwner, IsHeld, IsPending, TypeOK, HeapTypeOK
    <3>2. Doomed = {}
      <4>1. Len(stack) = 1 /\ DOMAIN stack = {1}
        BY <1>2
      <4>2. QED
        BY <1>2, <4>1 DEF Doomed
    <3>3. ~IsDoomed(a)
      BY <3>2 DEF IsDoomed
    <3>4. ~IsChildOf(a, o)
      BY <1>2, <1>3 DEF IsChildOf, OwnedChild, ChildrenLeft
    <3>5. QED
      BY <2>1, <3>1, <3>3, <3>4 DEF TreeInv, OwnershipInv, NoLeak
  <2>2. Hidden = {a \in live : parent[a] = o}
    BY <1>1, <1>2 DEF Hidden
  <2>3. QED
    BY <1>2, <2>1, <2>2 DEF Hidden
<1>5. Visible' = Visible
  BY <1>2, <1>4, SeenIsThere, SameVisible DEF TreeInv
<1>6. Stands' = Stands
  BY <1>2, <1>5 DEF Stands, Seen
<1>7. \A a \in Addr : VisibleChildren(a)' = VisibleChildren(a)
  <2>1. SUFFICES ASSUME NEW a \in Addr PROVE VisibleChildren(a)' = VisibleChildren(a)
    OBVIOUS
  <2>2. VisibleChildren(a)' = children'[a]
    BY <1>2 DEF VisibleChildren
  <2>3. VisibleChildren(a) = IF a = o THEN << >> ELSE children[a]
    BY <1>1, <1>2 DEF VisibleChildren
  <2>4. QED
    BY <1>2, <1>3, <2>2, <2>3 DEF TreeInv, TypeOK, HeapTypeOK
<1>8. Kids' = Kids
  BY <1>5, <1>7 DEF Kids, Seen
<1>9. \A a \in Addr : (populated[a] /\ ~(call = "refresh" /\ a = target))'
                        = (populated[a] /\ ~(call = "refresh" /\ a = target))
  <2>1. SUFFICES ASSUME NEW a \in Addr
                 PROVE  populated'[a] = (populated[a] /\ a # o)
    BY <1>1, <1>2, Zenon
  <2>2. populated'[a] = IF a = o THEN FALSE ELSE populated[a]
    BY <1>2 DEF TreeInv, TypeOK, HeapTypeOK
  <2>3. populated[a] \in BOOLEAN
    BY DEF TreeInv, TypeOK, HeapTypeOK
  <2>4. QED
    BY <2>2, <2>3
<1>10. Complete' = Complete
  BY <1>5, <1>9 DEF Complete, Seen
<1>11. TheRoot' = TheRoot /\ Waiting' = Waiting
  BY <1>2 DEF TheRoot, Waiting
<1>12. QED
  BY <1>2, <1>5, <1>6, <1>8, <1>10, <1>11 DEF Client!vars

\* Between calls the client sees the objects as they are.
IdleViewed == /\ Visible = live /\ Hidden = {} /\ TheRoot = root /\ Waiting = pending
              /\ Stands = [a \in Addr |-> IF a \in live THEN node[a] ELSE RootNode]
              /\ Kids = children /\ Complete = populated

\* Nothing is hidden from a client that is not waiting for a call.
LEMMA IdleView == TreeInv /\ Idle => IdleViewed
<1> SUFFICES ASSUME TreeInv, Idle PROVE IdleViewed
  OBVIOUS
<1>1. call = "idle" /\ Hidden = {}
  BY DEF Idle, Hidden
<1>2. Visible = live
  BY <1>1, NothingHidden DEF TreeInv
<1>3. Stands = [a \in Addr |-> IF a \in live THEN node[a] ELSE RootNode]
  BY <1>2 DEF Stands, Seen
<1>4. \A a \in Addr : Kids[a] = children[a]
  <2>1. \A a \in Addr : VisibleChildren(a) = children[a]
    BY <1>1 DEF VisibleChildren
  <2>2. \A a \in Addr \ live : children[a] = << >>
    BY DEF TreeInv, OwnershipInv, CellsOK
  <2>3. QED
    BY <1>2, <2>1, <2>2 DEF Kids, Seen
<1>5. Kids = children
  <2>1. Kids = [a \in Addr |-> Kids[a]] /\ children = [a \in Addr |-> children[a]]
    BY DEF Kids, Seen, TreeInv, TypeOK, HeapTypeOK
  <2>2. QED
    BY <1>4, <2>1
<1>6. \A a \in Addr : Complete[a] = populated[a]
  <2>1. ASSUME NEW a \in Addr PROVE Complete[a] = populated[a]
    <3>1. populated[a] \in BOOLEAN
      BY DEF TreeInv, TypeOK, HeapTypeOK
    <3>2. CASE a \in live
      BY <1>1, <1>2, <3>1, <3>2 DEF Complete, Seen
    <3>3. CASE a \notin live
      <4>1. ~populated[a]
        BY <3>3 DEF TreeInv, OwnershipInv, CellsOK
      <4>2. QED
        BY <1>2, <3>1, <3>3, <4>1 DEF Complete, Seen
    <3>4. QED
      BY <3>2, <3>3
  <2>2. QED
    BY <2>1
<1>7. Complete = populated
  <2>1. Complete = [a \in Addr |-> Complete[a]] /\ populated = [a \in Addr |-> populated[a]]
    BY DEF Complete, Seen, TreeInv, TypeOK, HeapTypeOK
  <2>2. QED
    BY <1>6, <2>1
<1>8. TheRoot = root /\ Waiting = pending
  BY <1>1 DEF TheRoot, Waiting
<1>9. QED
  BY <1>1, <1>2, <1>3, <1>5, <1>7, <1>8 DEF IdleViewed

\* The same of the next state.
LEMMA NextIdleView == (TreeInv /\ Idle => IdleViewed)'
  BY IdleView, PTL

\* At first there is nothing to see.
LEMMA InitMaps == Init => Client!Init
<1> SUFFICES ASSUME Init PROVE Client!Init
  OBVIOUS
<1>1. Visible = {}
  BY DEF Init, Visible
<1>2. QED
  BY <1>1 DEF Init, Client!Init, Stands, Kids, Complete, Seen, TheRoot, Waiting

\* A transport the client creates appears, bare.
LEMMA CreateTransportMaps ==
  ASSUME TreeInv, TreeInv', NEW a \in Addr, CreateTransport(a)
  PROVE  Client!NewTransport(a)
<1>1. /\ Idle /\ Idle' /\ root = NoAddr /\ Len(held) < Len(Transports) /\ held' = Append(held, a)
      /\ a \notin live /\ live' = live \cup {a}
      /\ node' = [node EXCEPT ![a] = Transports[Len(held) + 1]]
      /\ UNCHANGED <<children, populated, root, pending>>
  BY DEF CreateTransport, Allocate, Idle, callVars, rootVars
<1>2. IdleViewed /\ IdleViewed'
  BY <1>1, IdleView, NextIdleView
<1>3. Stands' = [Stands EXCEPT ![a] = Transports[Len(held) + 1]]
  BY <1>1, <1>2 DEF IdleViewed, TreeInv, TypeOK, HeapTypeOK
<1>4. QED
  BY <1>1, <1>2, <1>3 DEF IdleViewed, Client!NewTransport, Client!Add

\* The root appears, and the transports are its own.
LEMMA RootCreateMaps ==
  ASSUME TreeInv, TreeInv', NEW a \in Addr, RootCreate(a)
  PROVE  Client!NewRoot(a)
<1>1. /\ Idle /\ Idle' /\ root = NoAddr /\ Len(held) = Len(Transports) /\ held' = << >>
      /\ a \notin live /\ live' = live \cup {a} /\ node' = [node EXCEPT ![a] = RootNode]
      /\ root' = a /\ pending' = held
      /\ UNCHANGED <<children, populated>>
  BY DEF RootCreate, Allocate, Idle, callVars
<1>2. IdleViewed /\ IdleViewed'
  BY <1>1, IdleView, NextIdleView
<1>3. Stands' = [Stands EXCEPT ![a] = RootNode]
  BY <1>1, <1>2 DEF IdleViewed, TreeInv, TypeOK, HeapTypeOK
<1>4. QED
  BY <1>1, <1>2, <1>3 DEF IdleViewed, Client!NewRoot, Client!Add

\* If every object but the root's new children is in its parent's array, what is
\* left when S and all below it is gone is what is visible with S hidden.
LEMMA ApartIs ==
  ASSUME TreeInv, TreeInv', Visible = live, UNCHANGED <<live, parent>>,
         NEW S, Hidden' = S,
         \A a \in live : parent[a] # NoAddr =>
            /\ parent[a] \in live
            /\ a \in Client!Entries(Kids[parent[a]]) \/ (parent[a] = root /\ root \notin S),
         \A p \in live : \A a \in Client!Entries(Kids[p]) : parent[a] = p
  PROVE  Client!Apart(S) = Visible'
<1> DEFINE below == [h \in live |-> Client!Entries(Kids[h])]
           Left == {K \in SUBSET (live \ S) : \A h \in live \ K : below[h] \cap K = {}}
<1>1. Client!Apart(S) = UNION Left
  <2>1. DOMAIN below = live
    OBVIOUS
  <2>2. QED
    BY <2>1 DEF Client!Apart
<1>2. \A h \in live : below[h] = Client!Entries(Kids[h])
  OBVIOUS
<1>3. /\ Visible' \in SUBSET (live \ S) /\ (\A a \in Visible' : parent[a] \in Visible' \cup {NoAddr})
      /\ \A T \in SUBSET (live \ S) : (\A a \in T : parent[a] \in T \cup {NoAddr}) => T \subseteq Visible'
  <2>1. Largest'
    BY NextIsLargest DEF TreeInv
  <2>2. QED
    BY <2>1 DEF Largest, Upward
<1> HIDE DEF below
<1>4. NoAddr \notin live
  BY AddrAssumption DEF TreeInv, TypeOK, HeapTypeOK
<1>5. Visible' \in Left
  <2>1. ASSUME NEW h \in live \ Visible', NEW a \in below[h], a \in Visible' PROVE FALSE
    BY <1>2, <1>3, <1>4, <2>1
  <2>2. QED
    BY <1>3, <2>1
<1>6. ASSUME NEW K \in Left PROVE K \subseteq Visible'
  <2>1. PICK L : L = K \cup ({root} \cap (live \ S))
    OBVIOUS
  <2>2. root \in live => parent[root] = NoAddr
    BY <1>4 DEF TreeInv, OwnershipInv, TopLevelOK
  <2>3. ASSUME NEW a \in K PROVE parent[a] \in L \cup {NoAddr}
    <3>1. SUFFICES ASSUME parent[a] # NoAddr PROVE parent[a] \in L
      OBVIOUS
    <3>2. a \in live /\ parent[a] \in live
      BY <3>1
    <3>3. CASE a \in Client!Entries(Kids[parent[a]])
      <4>1. parent[a] \in K
        BY <1>2, <3>2, <3>3
      <4>2. QED
        BY <2>1, <4>1
    <3>4. CASE parent[a] = root /\ root \notin S
      BY <2>1, <3>2, <3>4
    <3>5. QED
      BY <3>1, <3>2, <3>3, <3>4
  <2>4. \A a \in L : parent[a] \in L \cup {NoAddr}
    BY <2>1, <2>2, <2>3
  <2>5. L \in SUBSET (live \ S)
    BY <2>1
  <2>6. QED
    BY <1>3, <2>1, <2>4, <2>5
<1>7. QED
  <2> HIDE DEF Left
  <2>1. UNION Left \subseteq Visible'
    BY <1>6
  <2>2. Visible' \subseteq UNION Left
    BY <1>5
  <2>3. QED
    BY <1>1, <2>1, <2>2

\* Before a call from outside, everything is in its parent's array.
LEMMA IdleTies ==
  ASSUME TreeInv, Idle
  PROVE  /\ \A a \in live : parent[a] # NoAddr =>
              parent[a] \in live /\ a \in Client!Entries(Kids[parent[a]])
         /\ \A p \in live : \A a \in Client!Entries(Kids[p]) : a \in live /\ parent[a] = p
<1>1. Kids = children
  BY IdleView DEF IdleViewed
<1>2. call \in {"idle", "populate"}
  BY DEF Idle
<1>3. QED
  BY <1>1, <1>2, Ties DEF TreeInv, Client!Entries

\* What the call leaves alone stays as it was, for those still seen.
LEMMA KeptView ==
  ASSUME TreeInv, TreeInv', Idle, UNCHANGED <<live, node, children, populated>>, Visible' \subseteq live,
         call' \in {"surrender", "destroy"}
  PROVE  /\ Client!Keep(Visible')
         /\ Kids' = Client!Only(Visible', Kids, << >>)
         /\ Complete' = Client!Only(Visible', Complete, FALSE)
<1>1. IdleViewed
  BY IdleView
<1>2. Stands' = Client!Only(Visible', Stands, RootNode)
  BY <1>1, SeenIsThere DEF IdleViewed, Stands, Seen, Client!Only
<1>3. \A a \in Addr : VisibleChildren(a)' = children[a]
  BY DEF VisibleChildren
<1>4. Kids' = Client!Only(Visible', Kids, << >>)
  BY <1>1, <1>3 DEF IdleViewed, Kids, Seen, Client!Only
<1>5. \A a \in Addr : (populated[a] /\ ~(call = "refresh" /\ a = target))' = populated[a]
  BY DEF TreeInv, TypeOK, HeapTypeOK
<1>6. Complete' = Client!Only(Visible', Complete, FALSE)
  BY <1>1, <1>5 DEF IdleViewed, Complete, Seen, Client!Only
<1>7. QED
  BY <1>2, <1>4, <1>6 DEF Client!Keep

\* A transport given up is gone with what was listed below it.
LEMMA ReleaseTransportMaps ==
  ASSUME TreeInv, TreeInv', ReleaseTransport
  PROVE  Client!ReleaseTransport
<1>1. PICK h : h = held[Len(held)]
  OBVIOUS
<1>2. /\ Idle /\ root = NoAddr /\ held # << >> /\ call' = "destroy" /\ stack' = <<h>>
      /\ held' = SubSeq(held, 1, Len(held) - 1)
      /\ UNCHANGED <<live, node, parent, children, populated, root, pending, taken>>
  BY <1>1 DEF ReleaseTransport, object, rootVars
<1>3. pending = << >>
  BY <1>2 DEF TreeInv, OwnershipInv, TopLevelOK
<1>4. Hidden' = {h}
  <2>1. WaitingCells' = {}
    BY <1>2, <1>3 DEF WaitingCells, OwnedPending
  <2>2. Cells(stack') = {h}
    <3>1. DOMAIN stack' = {1} /\ stack'[1] = h
      BY <1>2
    <3>2. QED
      BY <3>1 DEF Cells
  <2>3. QED
    BY <1>2, <2>1, <2>2 DEF Hidden, Cells
<1>5. IdleViewed
  BY <1>2, IdleView
<1>6. Client!Apart({h}) = Visible'
  BY <1>2, <1>4, <1>5, IdleTies, ApartIs DEF IdleViewed
<1>7. /\ Client!Keep(Visible') /\ Kids' = Client!Only(Visible', Kids, << >>)
      /\ Complete' = Client!Only(Visible', Complete, FALSE)
  BY <1>2, KeptView, SeenIsThere
<1>8. TheRoot = NoAddr /\ TheRoot' = NoAddr /\ Waiting = << >> /\ Waiting' = << >>
  BY <1>2, <1>3, <1>5 DEF IdleViewed, TheRoot, Waiting
<1>9. QED
  BY <1>1, <1>2, <1>6, <1>7, <1>8 DEF Client!ReleaseTransport

\* Nothing is left to see when the root is to be destroyed.
LEMMA DestroyRootMaps ==
  ASSUME TreeInv, TreeInv', DestroyRoot
  PROVE  Client!DestroyRoot
<1>1. /\ Idle /\ root # NoAddr /\ call' = "destroy" /\ stack' = <<root>>
      /\ UNCHANGED <<live, node, parent, children, populated, held, root, pending, taken>>
  BY DEF DestroyRoot, object, rootVars
<1>2. IdleViewed
  BY <1>1, IdleView
<1>3. Hidden' = {root} \cup WaitingCells
  <2>1. WaitingCells' = WaitingCells
    BY <1>1 DEF WaitingCells, OwnedPending
  <2>2. Cells(stack') = {root}
    <3>1. DOMAIN stack' = {1} /\ stack'[1] = root
      BY <1>1
    <3>2. QED
      BY <3>1 DEF Cells
  <2>3. QED
    BY <1>1, <2>1, <2>2 DEF Hidden, Cells
<1>4. Visible' = {}
  <2>1. SUFFICES ASSUME Visible' # {} PROVE FALSE
    OBVIOUS
  <2>2. Largest'
    BY NextIsLargest DEF TreeInv
  <2>3. PICK a \in Visible' : parent[a] \notin Visible'
    BY <1>1, <2>1, <2>2 DEF TreeInv, OwnershipInv, Acyclic, Largest
  <2>4. parent[a] = NoAddr /\ a \in live /\ a \notin Hidden'
    BY <1>1, <2>2, <2>3 DEF Largest, Upward
  <2>5. a # root /\ ~IsPending(a)
    BY <1>3, <2>4 DEF IsPending, WaitingCells
  <2>6. ~IsHeld(a)
    BY <1>1 DEF TreeInv, OwnershipInv, TopLevelOK, IsHeld
  <2>7. ~IsDoomed(a)
    BY <1>1, EmptyPath DEF Idle, TreeInv
  <2>8. NoAddr \notin live
    BY AddrAssumption DEF TreeInv, TypeOK, HeapTypeOK
  <2>9. QED
    BY <2>4, <2>5, <2>6, <2>7, <2>8 DEF TreeInv, OwnershipInv, NoLeak
<1>5. /\ Client!Keep({}) /\ Kids' = Client!Only({}, Kids, << >>)
      /\ Complete' = Client!Only({}, Complete, FALSE)
  BY <1>1, <1>4, KeptView
<1>6. TheRoot = root /\ TheRoot' = NoAddr /\ Waiting' = << >>
  BY <1>1, <1>2 DEF IdleViewed, TheRoot, Waiting
<1>7. QED
  BY <1>1, <1>5, <1>6 DEF Client!DestroyRoot

\* A refresh takes the object's children away with all below them.
LEMMA RefreshMaps ==
  ASSUME TreeInv, TreeInv', NEW o \in Addr, Refresh(o)
  PROVE  Client!Refresh(o)
<1>1. /\ Idle /\ o \in live /\ call' = "refresh" /\ target' = o
      /\ UNCHANGED <<live, node, parent, children, populated, held, root, pending>>
  BY DEF Refresh, object, rootVars
<1>2. IdleViewed
  BY <1>1, IdleView
<1>3. PICK S : S = Client!Entries(Kids[o])
  OBVIOUS
<1>4. Hidden' = S
  <2>1. Hidden' = {a \in live : parent[a] = o}
    BY <1>1 DEF Hidden
  <2>2. \A a \in live : parent[a] = o => a \in S
    BY <1>1, <1>3, IdleTies, AddrAssumption
  <2>3. \A a \in S : a \in live /\ parent[a] = o
    BY <1>1, <1>3, IdleTies
  <2>4. QED
    BY <2>1, <2>2, <2>3
<1>5. Client!Apart(S) = Visible'
  BY <1>1, <1>2, <1>4, IdleTies, ApartIs DEF IdleViewed
<1>6. Visible' \subseteq live
  BY <1>1, SeenIsThere
<1>7. Stands' = Client!Only(Visible', Stands, RootNode)
  BY <1>1, <1>2, <1>6 DEF IdleViewed, Stands, Seen, Client!Only
<1>8. Kids' = Client!Only(Visible' \ {o}, Kids, << >>)
  <2>1. \A a \in Addr : VisibleChildren(a)' = IF a = o THEN << >> ELSE children[a]
    BY <1>1 DEF VisibleChildren
  <2>2. QED
    BY <1>2, <2>1 DEF IdleViewed, Kids, Seen, Client!Only
<1>9. Complete' = Client!Only(Visible' \ {o}, Complete, FALSE)
  <2>1. \A a \in Addr : (populated[a] /\ ~(call = "refresh" /\ a = target))'
                          = IF a = o THEN FALSE ELSE populated[a]
    <3>1. \A a \in Addr : populated[a] \in BOOLEAN
      BY DEF TreeInv, TypeOK, HeapTypeOK
    <3>2. QED
      BY <1>1, <3>1
  <2>2. QED
    BY <1>2, <2>1 DEF IdleViewed, Complete, Seen, Client!Only
<1>10. TheRoot' = TheRoot /\ Waiting' = Waiting
  BY <1>1, <1>2 DEF IdleViewed, TheRoot, Waiting
<1>11. QED
  BY <1>1, <1>2, <1>3, <1>5, <1>7, <1>8, <1>9, <1>10
     DEF IdleViewed, Client!Refresh, Client!Keep

\* Two sequences, one behind the other.
LEMMA JoinElements ==
  ASSUME NEW U, NEW b \in Seq(U), NEW t \in Seq(U)
  PROVE  /\ b \o t \in Seq(U) /\ Len(b \o t) = Len(b) + Len(t)
         /\ \A i \in 1..Len(b) : (b \o t)[i] = b[i]
         /\ \A i \in 1..Len(t) : (b \o t)[Len(b) + i] = t[i]
OBVIOUS

\* The beginning of a sequence.
LEMMA FirstElements ==
  ASSUME NEW U, NEW s \in Seq(U), NEW k \in Nat, k <= Len(s)
  PROVE  /\ SubSeq(s, 1, k) \in Seq(U) /\ Len(SubSeq(s, 1, k)) = k
         /\ \A i \in 1..k : SubSeq(s, 1, k)[i] = s[i]
OBVIOUS

\* The first k elements of s, and t behind them.
FirstThen(s, k, t) == SubSeq(s, 1, k) \o t

\* A sequence whose last n elements are another one is that behind the rest.
LEMMA LastOnes ==
  ASSUME NEW U, NEW s \in Seq(U), NEW t \in Seq(U), NEW n \in Nat, NEW k \in Nat,
         n = Len(t), k = Len(s) - n,
         \A i \in 1..n : s[k + i] = t[i]
  PROVE  FirstThen(s, k, t) = s
<1>1. k <= Len(s) /\ Len(s) = k + n
  OBVIOUS
<1> DEFINE b == SubSeq(s, 1, k)
<1>2. b \in Seq(U) /\ Len(b) = k /\ \A i \in 1..k : b[i] = s[i]
  BY <1>1, FirstElements
<1> HIDE DEF b
<1> DEFINE w == b \o t
<1>3. /\ w \in Seq(U) /\ Len(w) = Len(b) + Len(t)
      /\ \A i \in 1..Len(b) : w[i] = b[i]
      /\ \A i \in 1..Len(t) : w[Len(b) + i] = t[i]
  <2>1. b \in Seq(U)
    BY <1>2
  <2>2. QED
    BY <2>1, JoinElements
<1> HIDE DEF w
<1>4. Len(w) = Len(s)
  BY <1>1, <1>2, <1>3
<1>5. ASSUME NEW i \in 1..Len(s) PROVE w[i] = s[i]
  <2>1. CASE i <= k
    <3>1. i \in 1..k
      BY <2>1
    <3>2. QED
      BY <1>2, <1>3, <3>1
  <2>2. CASE i > k
    <3>1. PICK j : j = i - k
      OBVIOUS
    <3>2. j \in 1..n /\ i = k + j
      BY <1>1, <2>2, <3>1
    <3>3. w[i] = t[j]
      BY <1>2, <1>3, <3>2
    <3>4. QED
      BY <3>2, <3>3
  <2>3. QED
    BY <2>1, <2>2
<1>6. w = s
  BY <1>3, <1>4, <1>5, SeqEqual
<1>7. QED
  BY <1>6 DEF FirstThen, w, b

\* The root's children, seen and to be seen.
LEMMA RootChildren ==
  ASSUME TreeInv, PopulatingRoot
  PROVE  /\ root \in live /\ root # NoAddr /\ Visible = live /\ Hidden = {}
         /\ TheRoot = root /\ Waiting = pending /\ taken \in Nat /\ taken <= Len(pending)
         /\ ~populated[root] /\ ~Complete[root]
         /\ Kids[root] \o SubSeq(pending, 1, taken) = children[root]
         /\ \A a \in Addr \ {root} : Kids[a] = children[a]
         /\ Complete = populated
<1>1. call = "populate" /\ target = root /\ root \in Addr /\ root # NoAddr /\ root \in live
      /\ ~populated[root] /\ pending \in Seq(Addr) /\ taken \in Nat /\ taken <= Len(pending)
      /\ children[root] \in Seq(Addr)
  BY AddrAssumption
     DEF PopulatingRoot, TreeInv, TypeOK, CallTypeOK, HeapTypeOK, OwnershipInv, NoDanglingPointer, CallOK, CellsOK
<1>2. Hidden = {} /\ Visible = live
  <2>1. Hidden = {}
    BY <1>1 DEF Hidden
  <2>2. QED
    BY <2>1, NothingHidden DEF TreeInv
<1>3. Kids[root] = SubSeq(children[root], 1, Len(children[root]) - taken)
  BY <1>1, <1>2 DEF Kids, Seen, VisibleChildren
<1>4. Kids[root] \o SubSeq(pending, 1, taken) = children[root]
  <2>1. PICK t \in Seq(Addr) : /\ t = SubSeq(pending, 1, taken) /\ Len(t) = taken
                               /\ \A i \in 1..taken : t[i] = pending[i]
    <3>1. SubSeq(pending, 1, taken) \in Seq(Addr) /\ Len(SubSeq(pending, 1, taken)) = taken
          /\ \A i \in 1..taken : SubSeq(pending, 1, taken)[i] = pending[i]
      BY <1>1
    <3>2. QED
      BY <3>1
  <2>2. PICK s \in Seq(Addr) : s = children[root]
    BY <1>1
  <2>3. taken <= Len(s) /\ \A i \in 1..taken : s[Len(s) - taken + i] = t[i]
    BY <2>1, <2>2 DEF TreeInv, InProgress
  <2>4. PICK n \in Nat, k \in Nat : n = taken /\ k = Len(s) - taken
    <3>1. taken \in Nat /\ Len(s) - taken \in Nat
      BY <1>1, <2>3
    <3>2. QED
      BY <3>1
  <2>5. FirstThen(s, k, t) = s
    <3>1. n = Len(t) /\ k = Len(s) - n /\ \A i \in 1..n : s[k + i] = t[i]
      BY <2>1, <2>3, <2>4
    <3>2. QED
      BY <3>1, LastOnes
  <2>6. QED
    BY <1>3, <2>1, <2>2, <2>4, <2>5 DEF FirstThen
<1>5. \A a \in Addr \ {root} : Kids[a] = children[a]
  <2>1. ASSUME NEW a \in Addr \ {root} PROVE Kids[a] = children[a]
    <3>1. VisibleChildren(a) = children[a]
      BY <1>1 DEF VisibleChildren
    <3>2. a \notin live => children[a] = << >>
      BY DEF TreeInv, OwnershipInv, CellsOK
    <3>3. QED
      BY <1>2, <3>1, <3>2 DEF Kids, Seen
  <2>2. QED
    BY <2>1
<1>6. \A a \in Addr : Complete[a] = populated[a]
  <2>1. ASSUME NEW a \in Addr PROVE Complete[a] = populated[a]
    <3>1. populated[a] \in BOOLEAN
      BY DEF TreeInv, TypeOK, HeapTypeOK
    <3>2. CASE a \in live
      BY <1>1, <1>2, <3>1, <3>2 DEF Complete, Seen
    <3>3. CASE a \notin live
      <4>1. ~populated[a]
        BY <3>3 DEF TreeInv, OwnershipInv, CellsOK
      <4>2. QED
        BY <1>2, <3>1, <3>3, <4>1 DEF Complete, Seen
    <3>4. QED
      BY <3>2, <3>3
  <2>2. QED
    BY <2>1
<1>7. Complete = populated
  <2>1. Complete = [a \in Addr |-> Complete[a]] /\ populated = [a \in Addr |-> populated[a]]
    BY DEF Complete, Seen, TreeInv, TypeOK, HeapTypeOK
  <2>2. QED
    BY <1>6, <2>1
<1>8. TheRoot = root /\ Waiting = pending
  BY <1>1 DEF TheRoot, Waiting
<1>9. QED
  BY <1>1, <1>2, <1>4, <1>5, <1>6, <1>7, <1>8

\* Every object but the root's children in an array not shown yet.
LEMMA RootTies ==
  ASSUME TreeInv, PopulatingRoot
  PROVE  /\ \A a \in live : parent[a] # NoAddr =>
              /\ parent[a] \in live
              /\ a \in Client!Entries(Kids[parent[a]]) \/ parent[a] = root
         /\ \A p \in live : \A a \in Client!Entries(Kids[p]) : parent[a] = p
<1>1. call \in {"idle", "populate"}
  BY DEF PopulatingRoot
<1>2. \A a \in Addr \ {root} : Kids[a] = children[a]
  BY RootChildren
<1>3. /\ \A p \in live : \A i \in DOMAIN children[p] : parent[children[p][i]] = p
      /\ \A a \in live : parent[a] # NoAddr =>
           parent[a] \in live /\ \E i \in DOMAIN children[parent[a]] : children[parent[a]][i] = a
      /\ live \subseteq Addr
  BY <1>1, Ties DEF TreeInv, TypeOK, HeapTypeOK
<1>4. ASSUME NEW a \in live, parent[a] # NoAddr, parent[a] # root
      PROVE  parent[a] \in live /\ a \in Client!Entries(Kids[parent[a]])
  <2>1. parent[a] \in live /\ Kids[parent[a]] = children[parent[a]]
    BY <1>2, <1>3, <1>4
  <2>2. QED
    BY <1>3, <1>4, <2>1 DEF Client!Entries
<1>5. ASSUME NEW p \in live, NEW a \in Client!Entries(Kids[p]) PROVE parent[a] = p
  <2>1. CASE p # root
    <3>1. Kids[p] = children[p]
      BY <1>2, <1>3, <2>1
    <3>2. QED
      BY <1>3, <1>5, <3>1 DEF Client!Entries
  <2>2. CASE p = root
    <3>1. /\ Kids[root] = SubSeq(children[root], 1, Len(children[root]) - taken)
          /\ children[root] \in Seq(Addr) /\ taken \in Nat /\ taken <= Len(children[root])
      <4>1. Visible = live /\ root \in live /\ root \in Addr
        BY <1>3, RootChildren
      <4>2. QED
        BY <4>1 DEF Kids, Seen, VisibleChildren, PopulatingRoot, TreeInv, TypeOK, HeapTypeOK, CallTypeOK, InProgress
    <3>2. \A i \in DOMAIN Kids[root] : i \in DOMAIN children[root] /\ Kids[root][i] = children[root][i]
      BY <3>1
    <3>3. QED
      BY <1>3, <1>5, <2>2, <3>2 DEF Client!Entries
  <2>3. QED
    BY <2>1, <2>2
<1>6. QED
  BY <1>3, <1>4, <1>5

\* The root lists as many transports as there was room for; the others are gone.
LEMMA RootPopulateErrorMaps ==
  ASSUME TreeInv, TreeInv', RootPopulateError
  PROVE  Client!ListRoot(taken)
<1>1. /\ PopulatingRoot /\ taken < Len(pending) /\ call' = "surrender"
      /\ UNCHANGED <<live, node, parent, children, populated, held, root, pending, taken, stack>>
  BY DEF RootPopulateError, object, rootVars
<1>2. PICK S : S = {pending[i] : i \in taken + 1..Len(pending)}
  OBVIOUS
<1>3. Hidden' = S /\ root \notin S
  <2>1. pending \in Seq(Addr) /\ taken \in Nat /\ stack = << >>
    BY <1>1 DEF TreeInv, TypeOK, CallTypeOK, OwnershipInv, CallOK, PopulatingRoot
  <2>2. OwnedPending = taken + 1..Len(pending)
    BY <2>1 DEF OwnedPending
  <2>3. WaitingCells' = S /\ WaitingCells = S
    <3>1. OwnedPending' = OwnedPending
      BY <1>1 DEF OwnedPending
    <3>2. QED
      BY <1>1, <1>2, <2>2, <3>1 DEF WaitingCells
  <2>4. Cells(stack') = {}
    BY <1>1, <2>1 DEF Cells
  <2>5. root \notin S
    BY <2>3 DEF WaitingCells, TreeInv, OwnershipInv, TopLevelOK
  <2>6. QED
    BY <1>1, <2>3, <2>4, <2>5 DEF Hidden, Cells
<1>4. /\ root \in live /\ root # NoAddr /\ Visible = live /\ TheRoot = root /\ Waiting = pending
      /\ taken \in Nat /\ ~populated[root] /\ ~Complete[root] /\ Complete = populated
      /\ Kids[root] \o SubSeq(pending, 1, taken) = children[root]
      /\ \A a \in Addr \ {root} : Kids[a] = children[a]
  BY <1>1, RootChildren
<1>5. Client!Apart(S) = Visible'
  BY <1>1, <1>3, <1>4, RootTies, ApartIs
<1>6. Visible' \subseteq live /\ root \in Visible' /\ live \subseteq Addr
  <2>1. Largest' /\ parent[root] = NoAddr
    BY <1>4, NextIsLargest DEF TreeInv, OwnershipInv, TopLevelOK
  <2>2. {root} \subseteq Visible'
    <3>1. PICK r : r = root
      OBVIOUS
    <3>2. {r} \in SUBSET (live' \ Hidden') /\ \A a \in {r} : parent'[a] = NoAddr
      BY <1>1, <1>3, <1>4, <2>1, <3>1
    <3>3. {r} \subseteq Visible'
      BY <2>1, <3>2 DEF Largest, Upward
    <3>4. QED
      BY <3>1, <3>3
  <2>3. QED
    BY <1>1, <2>2, SeenIsThere
<1>7. Client!Keep(Visible')
  <2>1. Stands' = Client!Only(Visible', Stands, RootNode)
    BY <1>1, <1>4, <1>6 DEF Stands, Seen, Client!Only
  <2>2. QED
    BY <2>1 DEF Client!Keep
<1>8. Kids' = [Client!Only(Visible', Kids, << >>) EXCEPT ![root] = @ \o SubSeq(Waiting, 1, taken)]
  <2>1. \A a \in Addr : VisibleChildren(a)' = children[a]
    BY <1>1 DEF VisibleChildren
  <2>2. Kids' = [a \in Addr |-> IF a \in Visible' THEN children[a] ELSE << >>]
    BY <2>1 DEF Kids, Seen
  <2>3. PICK t : t = SubSeq(pending, 1, taken)
    OBVIOUS
  <2>4. Kids[root] \o t = children[root] /\ Waiting = pending
    BY <1>4, <2>3
  <2>5. Kids' = [Client!Only(Visible', Kids, << >>) EXCEPT ![root] = @ \o t]
    BY <1>4, <1>6, <2>2, <2>4 DEF Client!Only
  <2>6. QED
    BY <2>3, <2>4, <2>5
<1>9. Complete' = [Client!Only(Visible', Complete, FALSE) EXCEPT ![root] = taken = Len(Waiting)]
  <2>1. \A a \in Addr : (populated[a] /\ ~(call = "refresh" /\ a = target))' = populated[a]
    BY <1>1 DEF TreeInv, TypeOK, HeapTypeOK
  <2>2. Complete' = [a \in Addr |-> IF a \in Visible' THEN populated[a] ELSE FALSE]
    BY <2>1 DEF Complete, Seen
  <2>3. (taken = Len(Waiting)) = FALSE
    BY <1>1, <1>4
  <2>4. populated[root] = FALSE
    BY <1>4, <1>6 DEF TreeInv, TypeOK, HeapTypeOK
  <2>5. QED
    BY <1>4, <1>6, <2>2, <2>3, <2>4 DEF Client!Only
<1>10. TheRoot' = TheRoot /\ Waiting' = << >>
  BY <1>1, <1>4 DEF TheRoot, Waiting
<1>11. {Waiting[i] : i \in taken + 1..Len(Waiting)} = S /\ taken <= Len(Waiting)
  <2>1. taken <= Len(Waiting)
    BY <1>4, RootChildren, <1>1
  <2>2. QED
    BY <1>2, <1>4, <2>1
<1>12. QED
  BY <1>1, <1>4, <1>5, <1>7, <1>8, <1>9, <1>10, <1>11 DEF Client!ListRoot

\* With room for all of them, the root lists all its transports.
LEMMA RootPopulateDoneMaps ==
  ASSUME TreeInv, TreeInv', RootPopulateDone
  PROVE  Client!ListRoot(Len(Waiting))
<1>1. /\ PopulatingRoot /\ taken = Len(pending) /\ call' = "idle" /\ pending' = << >>
      /\ populated' = [populated EXCEPT ![root] = TRUE]
      /\ UNCHANGED <<live, node, parent, children, held, root>>
  BY DEF RootPopulateDone, EndCall
<1>2. /\ root \in live /\ root # NoAddr /\ Visible = live /\ TheRoot = root /\ Waiting = pending
      /\ taken \in Nat /\ ~populated[root] /\ ~Complete[root] /\ Complete = populated
      /\ Kids[root] \o SubSeq(pending, 1, taken) = children[root]
      /\ \A a \in Addr \ {root} : Kids[a] = children[a]
  BY <1>1, RootChildren
<1>3. IdleViewed' /\ Visible' = live /\ Hidden' = {}
  <2>1. Idle'
    BY <1>1 DEF Idle
  <2>2. IdleViewed'
    BY <2>1, NextIdleView
  <2>3. QED
    BY <1>1, <2>2 DEF IdleViewed
<1>4. Client!Apart({}) = live
  <2>1. \A a \in live : parent[a] # NoAddr =>
          /\ parent[a] \in live
          /\ a \in Client!Entries(Kids[parent[a]]) \/ (parent[a] = root /\ root \notin {})
    BY <1>1, RootTies
  <2>2. QED
    BY <1>1, <1>2, <1>3, <2>1, RootTies, ApartIs
<1>5. live \subseteq Addr /\ pending \in Seq(Addr)
  BY DEF TreeInv, TypeOK, HeapTypeOK, CallTypeOK
<1>6. Client!Keep(live)
  <2>1. Stands' = Client!Only(live, Stands, RootNode)
    BY <1>1, <1>2, <1>3 DEF Stands, Seen, Client!Only
  <2>2. QED
    BY <1>3, <2>1 DEF Client!Keep
<1>7. Kids' = [Client!Only(live, Kids, << >>) EXCEPT ![root] = @ \o SubSeq(Waiting, 1, Len(Waiting))]
  <2>1. Kids' = children /\ children \in [Addr -> Seq(Addr)]
    BY <1>1, <1>3 DEF IdleViewed, TreeInv, TypeOK, HeapTypeOK
  <2>2. \A a \in Addr \ live : children[a] = << >>
    BY DEF TreeInv, OwnershipInv, CellsOK
  <2>3. PICK t : t = SubSeq(pending, 1, taken)
    OBVIOUS
  <2>4. Kids[root] \o t = children[root] /\ SubSeq(Waiting, 1, Len(Waiting)) = t
    BY <1>1, <1>2, <2>3
  <2>5. \A a \in Addr : children[a] = IF a = root THEN Client!Only(live, Kids, << >>)[a] \o t
                                                  ELSE Client!Only(live, Kids, << >>)[a]
    BY <1>2, <1>5, <2>2, <2>4 DEF Client!Only
  <2>6. Kids' = [Client!Only(live, Kids, << >>) EXCEPT ![root] = @ \o t]
    BY <1>2, <1>5, <2>1, <2>5 DEF Client!Only
  <2>7. QED
    BY <2>4, <2>6
<1>8. Complete' = [Client!Only(live, Complete, FALSE) EXCEPT ![root] = Len(Waiting) = Len(Waiting)]
  <2>1. Complete' = [populated EXCEPT ![root] = TRUE]
    BY <1>1, <1>3 DEF IdleViewed
  <2>2. \A a \in Addr : Client!Only(live, Complete, FALSE)[a] = populated[a]
    <3>1. \A a \in Addr \ live : populated[a] = FALSE
      BY DEF TreeInv, OwnershipInv, CellsOK, TypeOK, HeapTypeOK
    <3>2. QED
      BY <1>2, <3>1 DEF Client!Only
  <2>3. Client!Only(live, Complete, FALSE) = populated
    <3>1. populated = [a \in Addr |-> populated[a]]
      BY DEF TreeInv, TypeOK, HeapTypeOK
    <3>2. Client!Only(live, Complete, FALSE) = [a \in Addr |-> Client!Only(live, Complete, FALSE)[a]]
      BY DEF Client!Only
    <3>3. QED
      BY <2>2, <3>1, <3>2
  <2>4. (Len(Waiting) = Len(Waiting)) = TRUE
    OBVIOUS
  <2>5. QED
    BY <2>1, <2>3, <2>4
<1>9. TheRoot' = TheRoot /\ Waiting' = << >>
  BY <1>1, <1>2, <1>3 DEF IdleViewed
<1>10. {Waiting[i] : i \in Len(Waiting) + 1..Len(Waiting)} = {}
  BY <1>2, <1>5
<1>11. Len(Waiting) <= Len(Waiting)
  BY <1>2, <1>5
<1>12. QED
  BY <1>1, <1>2, <1>3, <1>4, <1>6, <1>7, <1>8, <1>9, <1>10, <1>11 DEF Client!ListRoot

\* A populate shows its children when it returns, in order behind those that
\* were there, complete or not.
LEMMA PopulateEndMaps ==
  ASSUME TreeInv, TreeInv', Populating, PopulateError \/ PopulateDone
  PROVE  Client!List(target, made)
<1>1. PICK p, m : p = target /\ m = made
  OBVIOUS
<1>2. /\ call = "populate" /\ p # root /\ call' = "idle"
      /\ UNCHANGED <<live, node, parent, children, held, root, pending>>
      /\ \/ populated' = populated
         \/ m = Len(Listing[node[p]]) /\ populated' = [populated EXCEPT ![p] = TRUE]
  BY <1>1 DEF PopulateError, PopulateDone, Populating, EndCall, object, rootVars
<1>3. PICK s : s = children[p]
  OBVIOUS
<1>4. /\ p \in Addr /\ p \in live /\ m \in Nat /\ s \in Seq(Addr) /\ live \subseteq Addr
      /\ ~populated[p] /\ m <= Len(s)
      /\ m <= Len(Listing[node[p]]) /\ \A i \in 1..m : node[s[Len(s) - m + i]] = Listing[node[p]][i]
  <2>1. p \in Addr /\ m \in Nat /\ live \subseteq Addr
    BY <1>1, <1>2 DEF TreeInv, TypeOK, CallTypeOK, HeapTypeOK
  <2>2. s \in Seq(Addr)
    BY <1>3, <2>1 DEF TreeInv, TypeOK, HeapTypeOK
  <2>3. p \in live /\ ~populated[p]
    BY <1>1, <1>2, <2>1, AddrAssumption DEF TreeInv, OwnershipInv, NoDanglingPointer, CallOK
  <2>4. Listed(p, m)
    BY <1>1 DEF TreeInv, ListingInv
  <2>5. QED
    BY <1>3, <2>1, <2>2, <2>3, <2>4 DEF Listed
<1>5. PICK l \in Nat : l = Len(s) /\ DOMAIN s = 1..l
  BY <1>4
<1> DEFINE new == [i \in 1..m |-> s[l - m + i]]
<1>6. \A i \in 1..m : l - m + i \in 1..l
  BY <1>4, <1>5
<1>7. /\ \A i \in 1..l : s[i] \in live /\ parent[s[i]] = p
      /\ \A i, j \in 1..l : s[i] = s[j] => i = j
      /\ \A a \in live : parent[a] # NoAddr =>
           parent[a] \in live /\ \E i \in DOMAIN children[parent[a]] : children[parent[a]][i] = a
  <2>1. call \in {"idle", "populate"}
    BY <1>2
  <2>2. cursor[p] = 0
    BY <1>4, <2>1, EmptyPath DEF TreeInv
  <2>3. OwnedChild(p) = 1..l
    BY <1>3, <1>5, <2>2 DEF OwnedChild
  <2>4. QED
    BY <1>3, <1>4, <1>5, <2>1, <2>3, Ties DEF TreeInv, OwnershipInv, SingleOwner
<1>8. NewChildren = {new[i] : i \in 1..m} /\ Hidden = NewChildren
  <2>1. NewChildren = {s[i] : i \in {j \in 1..l : j > l - m}}
    BY <1>1, <1>3, <1>5 DEF NewChildren
  <2>2. ASSUME NEW j \in 1..l, j > l - m PROVE s[j] \in {new[i] : i \in 1..m}
    <3>1. PICK i : i = j - (l - m)
      OBVIOUS
    <3>2. i \in 1..m /\ l - m + i = j
      BY <1>4, <1>5, <2>2, <3>1
    <3>3. new[i] = s[j]
      BY <3>2
    <3> HIDE DEF new
    <3>4. QED
      BY <3>2, <3>3
  <2>3. ASSUME NEW i \in 1..m PROVE new[i] \in {s[j] : j \in {j \in 1..l : j > l - m}}
    <3>1. PICK j : j = l - m + i
      OBVIOUS
    <3>2. j \in 1..l /\ j > l - m /\ new[i] = s[j]
      BY <1>4, <1>5, <1>6, <3>1
    <3> HIDE DEF new
    <3>3. QED
      BY <3>2
  <2>4. Hidden = NewChildren
    BY <1>1, <1>2 DEF Hidden
  <2> HIDE DEF new
  <2>5. QED
    BY <2>1, <2>2, <2>3, <2>4
<1>9. \A c \in NewChildren : c \in live /\ children[c] = << >> /\ ~populated[c] /\ c # p
  <2>1. \A c \in NewChildren : children[c] = << >> /\ ~populated[c]
    BY <1>1, <1>2 DEF TreeInv, InProgress, Populating
  <2>2. \A i \in 1..m : new[i] \in live
    BY <1>6, <1>7
  <2>3. p \notin NewChildren
    <3>1. ASSUME p \in NewChildren PROVE FALSE
      <4>1. s = << >> /\ Len(s) = 0
        BY <1>3, <2>1, <3>1
      <4>2. 1..m = {}
        BY <1>4, <4>1
      <4> HIDE DEF new
      <4>3. QED
        BY <1>8, <3>1, <4>2
    <3>2. QED
      BY <3>1
  <2> HIDE DEF new
  <2>4. QED
    BY <1>8, <2>1, <2>2, <2>3
<1>10. Visible = live \ NewChildren
  <2>1. Largest
    BY VisibleIsLargest DEF TreeInv
  <2>2. Upward(live \ NewChildren)
    <3>1. ASSUME NEW a \in live, parent[a] # NoAddr PROVE parent[a] \in live \ NewChildren
      <4>1. parent[a] \in live /\ \E i \in DOMAIN children[parent[a]] : children[parent[a]][i] = a
        BY <1>7, <3>1
      <4>2. children[parent[a]] # << >>
        BY <4>1
      <4>3. QED
        BY <1>9, <4>1, <4>2
    <3>2. QED
      BY <3>1 DEF Upward
  <2>3. QED
    BY <1>8, <2>1, <2>2 DEF Largest
<1>11. IdleViewed' /\ Visible' = live
  <2>1. Idle'
    BY <1>2 DEF Idle
  <2>2. QED
    BY <1>2, <2>1, NextIdleView DEF IdleViewed
<1>12. /\ new \in [1..m -> Addr \ Visible]
       /\ \A i, j \in 1..m : new[i] = new[j] => i = j
       /\ Client!Entries(new) = NewChildren
  <2>1. \A i \in 1..m : new[i] \in Addr \ Visible
    <3>1. \A i \in 1..m : new[i] \in NewChildren
      <4> HIDE DEF new
      <4>1. QED
        BY <1>8
    <3> HIDE DEF new
    <3>2. QED
      BY <1>4, <1>9, <1>10, <3>1
  <2>2. new \in [1..m -> Addr \ Visible]
    BY <2>1
  <2>3. ASSUME NEW i \in 1..m, NEW j \in 1..m, new[i] = new[j] PROVE i = j
    <3>1. s[l - m + i] = s[l - m + j]
      BY <2>3
    <3>2. l - m + i = l - m + j
      BY <1>6, <1>7, <3>1
    <3>3. QED
      BY <1>4, <1>5, <3>2
  <2>4. DOMAIN new = 1..m
    OBVIOUS
  <2> HIDE DEF new
  <2>5. Client!Entries(new) = NewChildren
    BY <1>8, <2>4 DEF Client!Entries
  <2>6. QED
    BY <2>2, <2>3, <2>5
<1>13. Stands[p] = node[p] /\ ~Complete[p] /\ p \in Visible /\ p # TheRoot
  <2>1. p \in Visible
    BY <1>4, <1>9, <1>10
  <2>2. TheRoot = root
    BY <1>2 DEF TheRoot
  <2>3. QED
    BY <1>2, <1>4, <2>1, <2>2 DEF Stands, Complete, Seen
<1>14. Stands' = [c \in Addr |->
                   IF c \in Client!Entries(new)
                   THEN Listing[Stands[p]][CHOOSE i \in 1..m : new[i] = c]
                   ELSE Stands[c]]
  <2>1. Stands' = [c \in Addr |-> IF c \in live THEN node[c] ELSE RootNode]
    BY <1>2, <1>11 DEF IdleViewed
  <2>2. \A i \in 1..m : node[new[i]] = Listing[node[p]][i]
    BY <1>4, <1>5
  <2>3. ASSUME NEW c \in Addr
        PROVE  (IF c \in live THEN node[c] ELSE RootNode)
                 = IF c \in NewChildren THEN Listing[node[p]][CHOOSE i \in 1..m : new[i] = c]
                                        ELSE Stands[c]
    <3> HIDE DEF new
    <3>1. CASE c \in NewChildren
      <4>1. PICK k : k = CHOOSE i \in 1..m : new[i] = c
        OBVIOUS
      <4>2. k \in 1..m /\ new[k] = c
        BY <1>8, <3>1, <4>1
      <4>3. QED
        BY <1>9, <2>2, <3>1, <4>1, <4>2
    <3>2. CASE c \notin NewChildren
      BY <1>10, <3>2 DEF Stands, Seen
    <3>3. QED
      BY <3>1, <3>2
  <2> HIDE DEF new
  <2>4. QED
    BY <1>12, <1>13, <2>1, <2>3
<1>15. Kids' = [Kids EXCEPT ![p] = @ \o new]
  <2>1. Kids' = children /\ children \in [Addr -> Seq(Addr)]
    BY <1>2, <1>11 DEF IdleViewed, TreeInv, TypeOK, HeapTypeOK
  <2>2. Kids[p] = SubSeq(s, 1, l - m)
    BY <1>1, <1>2, <1>3, <1>4, <1>5, <1>13 DEF Kids, Seen, VisibleChildren
  <2>3. new \in Seq(Addr) /\ Len(new) = m /\ \A i \in 1..m : s[l - m + i] = new[i]
    <3>1. \A i \in 1..m : new[i] \in Addr
      BY <1>4, <1>6, <1>7
    <3>2. new \in Seq(Addr) /\ Len(new) = m
      BY <1>4, <3>1
    <3>3. QED
      BY <3>2
  <2>4. \A c \in Addr \ {p} : Kids[c] = children[c]
    <3>1. ASSUME NEW c \in Addr \ {p} PROVE Kids[c] = children[c]
      <4>1. VisibleChildren(c) = children[c]
        BY <1>1, <1>2, <3>1 DEF VisibleChildren
      <4>2. c \notin live => children[c] = << >>
        BY DEF TreeInv, OwnershipInv, CellsOK
      <4>3. c \notin Visible => children[c] = << >>
        BY <1>9, <1>10, <4>2
      <4>4. QED
        BY <4>1, <4>3 DEF Kids, Seen
    <3>2. QED
      BY <3>1
  <2> HIDE DEF new
  <2>5. SubSeq(s, 1, l - m) \o new = s
    <3>1. PICK k \in Nat : k = l - m
      <4>1. m <= l /\ m \in Nat
        BY <1>4, <1>5
      <4>2. QED
        BY <4>1
    <3>2. k = Len(s) - m /\ \A i \in 1..m : s[k + i] = new[i]
      BY <1>5, <2>3, <3>1
    <3>3. FirstThen(s, k, new) = s
      <4>1. m \in Nat /\ s \in Seq(Addr) /\ new \in Seq(Addr) /\ m = Len(new)
        BY <1>4, <2>3
      <4>2. QED
        BY <3>2, <4>1, LastOnes
    <3>4. QED
      BY <3>1, <3>3 DEF FirstThen
  <2>6. Kids[p] \o new = children[p]
    BY <1>3, <2>2, <2>5
  <2>7. Kids = [a \in Addr |-> Kids[a]]
    BY DEF Kids, Seen
  <2>8. QED
    BY <1>4, <2>1, <2>4, <2>6, <2>7
<1>16. Complete' = populated' /\ Complete = populated
  <2>1. ASSUME NEW c \in Addr PROVE Complete[c] = populated[c]
    <3>1. populated[c] \in BOOLEAN
      BY DEF TreeInv, TypeOK, HeapTypeOK
    <3>2. CASE c \in Visible
      BY <1>2, <3>1, <3>2 DEF Complete, Seen
    <3>3. CASE c \notin Visible
      <4>1. ~populated[c]
        BY <1>9, <1>10, <3>3 DEF TreeInv, OwnershipInv, CellsOK
      <4>2. QED
        BY <3>1, <3>3, <4>1 DEF Complete, Seen
    <3>4. QED
      BY <3>2, <3>3
  <2>2. Complete = [a \in Addr |-> Complete[a]] /\ populated = [a \in Addr |-> populated[a]]
    BY DEF Complete, Seen, TreeInv, TypeOK, HeapTypeOK
  <2>3. Complete = populated
    BY <2>1, <2>2
  <2>4. QED
    BY <1>11, <2>3 DEF IdleViewed
<1>17. TheRoot' = TheRoot /\ Waiting' = Waiting
  <2>1. TheRoot = root /\ Waiting = pending
    BY <1>2 DEF TheRoot, Waiting
  <2>2. QED
    BY <1>2, <1>11, <2>1 DEF IdleViewed
<1>18. Visible' = Visible \cup Client!Entries(new)
  BY <1>9, <1>10, <1>11, <1>12
<1> HIDE DEF new
<1>19. Client!List(p, m)
  <2>1. \E N \in [1..m -> Addr \ Visible] :
          /\ \A i, j \in 1..m : N[i] = N[j] => i = j
          /\ Visible' = Visible \cup Client!Entries(N)
          /\ Stands' = [c \in Addr |-> IF c \in Client!Entries(N)
                                       THEN Listing[Stands[p]][CHOOSE i \in 1..m : N[i] = c]
                                       ELSE Stands[c]]
          /\ Kids' = [Kids EXCEPT ![p] = @ \o N]
    BY <1>12, <1>14, <1>15, <1>18
  <2>2. \/ Complete' = Complete
        \/ m = Len(Listing[Stands[p]]) /\ Complete' = [Complete EXCEPT ![p] = TRUE]
    BY <1>2, <1>13, <1>16
  <2>3. QED
    BY <1>2, <1>4, <1>13, <1>17, <2>1, <2>2 DEF Client!List
<1>20. QED
  BY <1>1, <1>19

\* Every step of the code is a step of the forest, or shows the client nothing.
LEMMA StepMaps ==
  ASSUME TreeInv, TreeInv', [Next]_vars
  PROVE  [Client!Next]_(Client!vars)
<1>1. CASE \E a \in Addr : CreateTransport(a) \/ RootCreate(a)
  BY <1>1, CreateTransportMaps, RootCreateMaps DEF Client!Next
<1>2. CASE \E o \in Addr : GetChildren(o) \/ Refresh(o)
  BY <1>2, GetChildrenMaps, RefreshMaps DEF Client!Next
<1>3. CASE ReleaseTransport \/ DestroyRoot
  BY <1>3, ReleaseTransportMaps, DestroyRootMaps DEF Client!Next
<1>4. CASE (\E a \in Addr : PopulateNext(a)) \/ RootPopulateNext
  BY <1>4, PopulateNextMaps, RootPopulateNextMaps
<1>5. CASE PopulateError \/ PopulateDone
  <2>1. Populating
    BY <1>5 DEF PopulateError, PopulateDone
  <2>2. PICK p, m : p = target /\ m = made /\ Client!List(p, m)
    BY <1>5, <2>1, PopulateEndMaps
  <2>3. p \in Addr /\ m \in Nat
    BY <2>1, <2>2 DEF Populating, TreeInv, TypeOK, CallTypeOK
  <2>4. m <= Len(Listing[Stands[p]])
    BY <2>2 DEF Client!List
  <2>5. Len(Listing[Stands[p]]) \in Nat
    <3>1. Stands[p] \in Node
      BY <2>3, NodeAssumption DEF Stands, Seen, TreeInv, TypeOK, HeapTypeOK
    <3>2. Listing[Stands[p]] \in Seq(Node)
      BY <3>1, NodeAssumption
    <3>3. QED
      BY <3>2
  <2>6. m \in 0..Len(Listing[Stands[p]])
    BY <2>3, <2>4, <2>5
  <2>7. QED
    BY <2>2, <2>3, <2>6 DEF Client!Next
<1>6. CASE RootPopulateError \/ RootPopulateDone
  <2>1. PICK n : Client!ListRoot(n) /\ n \in Nat
    <3>1. taken \in Nat /\ pending \in Seq(Addr) /\ PopulatingRoot
      BY <1>6 DEF RootPopulateError, RootPopulateDone, TreeInv, TypeOK, CallTypeOK
    <3>2. Len(Waiting) \in Nat
      BY <3>1, RootChildren
    <3>3. QED
      BY <1>6, <3>1, <3>2, RootPopulateErrorMaps, RootPopulateDoneMaps
  <2>2. n <= Len(Waiting) /\ Len(Waiting) \in Nat
    <3>1. pending \in Seq(Addr) /\ PopulatingRoot
      BY <1>6 DEF RootPopulateError, RootPopulateDone, TreeInv, TypeOK, CallTypeOK
    <3>2. Waiting = pending
      BY <3>1, RootChildren
    <3>3. QED
      BY <2>1, <3>1, <3>2 DEF Client!ListRoot
  <2>3. n \in 0..Len(Waiting)
    BY <2>1, <2>2
  <2>4. QED
    BY <2>1, <2>3 DEF Client!Next
<1>7. CASE Surrender \/ SurrenderDone \/ DropNext \/ DestroyPending \/ Free \/ RefreshDone
  BY <1>7, SurrenderMaps, PushMaps, FreeMaps, RefreshDoneMaps
<1>8. CASE UNCHANGED vars
  <2>1. UNCHANGED <<live, node, parent, children, populated, held, root, pending, taken, call, target, made, stack>>
    BY <1>8 DEF vars, object, rootVars, callVars
  <2>2. Hidden' = Hidden
    BY <2>1 DEF Hidden, NewChildren, Cells, WaitingCells, OwnedPending
  <2>3. Visible' = Visible
    BY <2>1, <2>2, SeenIsThere, SameVisible DEF TreeInv
  <2>4. TheRoot' = TheRoot /\ Waiting' = Waiting
    BY <2>1 DEF TheRoot, Waiting
  <2>5. QED
    BY <2>1, <2>3, <2>4, SameView DEF VisibleChildren
<1>9. QED
  BY <1>1, <1>2, <1>3, <1>4, <1>5, <1>6, <1>7, <1>8 DEF Next, ClientCall, CallStep

\* Every call of the tree's API is, to a client that looks between its calls, one
\* step of Forest: a populate shows a beginning of its listing or all of it, and
\* a refresh, a destroy or a listing of the root that ran out of memory takes
\* away exactly what is below what it gave up.
THEOREM Implements == Spec => ImplementsForest
<1>1. Init => InProgress
  BY DEF Init, InProgress, Populating, PopulatingRoot
<1>2. TypeOK /\ OwnershipInv /\ ListingInv /\ InProgress /\ [Next]_vars => InProgress'
  BY StepProgress
<1>3. TreeInv /\ TreeInv' /\ [Next]_vars => [Client!Next]_(Client!vars)
  BY StepMaps
<1>4. Spec => []TreeInv
  BY <1>1, <1>2, TypeCorrect, Ownership, Listings, PTL DEF Spec, TreeInv
<1>5. QED
  BY <1>3, <1>4, InitMaps, PTL DEF Spec, ImplementsForest, Client!Spec

(***************************************************************************)
(* Work, the number CallShrinks is about, is a natural number.  Its sum    *)
(* over the cells is a fold, a recursive function: it is shown to exist    *)
(* and to count the pairs of Units, and what the library proves of         *)
(* cardinalities then says how one step changes it.                        *)
(***************************************************************************)

\* What a sum counts: f[a] things for each a of s.
Units(f, s) == {p \in s \X Nat : p[2] \in 1 .. f[p[1]]}

\* A number of things for each of finitely many is a finite number of things.
LEMMA UnitsFinite ==
  ASSUME NEW S, IsFiniteSet(S), NEW f \in [S -> Nat]
  PROVE  IsFiniteSet(Units(f, S))
<1>1. PICK column : column = [a \in S |-> {a} \X (1 .. f[a])]
  OBVIOUS
<1>2. PICK columns : columns = {column[a] : a \in S}
  OBVIOUS
<1>3. IsFiniteSet(columns)
  <2>1. column \in Surjection(S, columns)
    BY <1>1, <1>2 DEF Surjection
  <2>2. QED
    BY <2>1, FS_Surjection
<1>4. ASSUME NEW T \in columns PROVE IsFiniteSet(T)
  <2>1. PICK a \in S : T = {a} \X (1 .. f[a])
    BY <1>1, <1>2
  <2>2. f[a] \in Int /\ 1 \in Int
    OBVIOUS
  <2>3. IsFiniteSet(1 .. f[a]) /\ IsFiniteSet({a})
    BY <2>2, FS_Interval, FS_Singleton
  <2>4. QED
    BY <2>1, <2>3, FS_Product
<1>5. IsFiniteSet(UNION columns)
  BY <1>3, <1>4, FS_UNION
<1>6. Units(f, S) \subseteq UNION columns
  BY <1>1, <1>2 DEF Units
<1>7. QED
  BY <1>5, <1>6, FS_Subset

\* One of them less is its number of things less.
LEMMA UnitsSplit ==
  ASSUME NEW S, IsFiniteSet(S), NEW f \in [S -> Nat], NEW s \in SUBSET S, NEW x \in s
  PROVE  Cardinality(Units(f, s)) = f[x] + Cardinality(Units(f, s \ {x}))
<1>1. IsFiniteSet(Units(f, S))
  BY UnitsFinite
<1>2. PICK A, B : A = Units(f, s \ {x}) /\ B = {x} \X (1 .. f[x])
  OBVIOUS
<1>3. Units(f, s) = A \cup B
  BY <1>2 DEF Units
<1>4. A \cap B = {}
  BY <1>2 DEF Units
<1>5. IsFiniteSet(A)
  <2>1. A \subseteq Units(f, S)
    BY <1>2 DEF Units
  <2>2. QED
    BY <1>1, <2>1, FS_Subset
<1>6. IsFiniteSet(B) /\ Cardinality(B) = f[x]
  <2>1. f[x] \in Nat /\ 1 \in Int /\ f[x] \in Int
    OBVIOUS
  <2>2. IsFiniteSet(1 .. f[x]) /\ Cardinality(1 .. f[x]) = IF 1 > f[x] THEN 0 ELSE f[x] - 1 + 1
    BY <2>1, FS_Interval
  <2>3. Cardinality(1 .. f[x]) = f[x]
    BY <2>1, <2>2
  <2>4. IsFiniteSet({x}) /\ Cardinality({x}) = 1
    BY FS_Singleton
  <2>5. IsFiniteSet(B) /\ Cardinality(B) = 1 * f[x]
    <3>1. /\ IsFiniteSet({x} \X (1 .. f[x]))
          /\ Cardinality({x} \X (1 .. f[x])) = Cardinality({x}) * Cardinality(1 .. f[x])
      BY <2>2, <2>4, FS_Product
    <3>2. QED
      BY ONLY <1>2, <2>3, <2>4, <3>1
  <2>6. QED
    BY <2>1, <2>5
<1>7. Cardinality(A \cup B) = Cardinality(A) + Cardinality(B) - Cardinality(A \cap B)
  BY <1>5, <1>6, FS_Union
<1>8. Cardinality(A \cap B) = 0 /\ Cardinality(A) \in Nat
  BY <1>4, <1>5, FS_EmptySet, FS_CardinalityType
<1>9. QED
  BY <1>2, <1>3, <1>6, <1>7, <1>8

\* The numbers a fold over the subsets of S takes on.
Totals(f, S, T) ==
  T = [s \in SUBSET S |-> IF s = {} THEN 0
                          ELSE f[CHOOSE x \in s : TRUE] + T[s \ {CHOOSE x \in s : TRUE}]]

\* Sum is one of them.
LEMMA SumIs ==
  ASSUME NEW f, NEW S
  PROVE  Sum(f, S) = (CHOOSE T : Totals(f, S, T))[S]
  BY DEF Sum, MapThenSumSet, MapThenFoldSet, Totals

\* There are such numbers, ...
LEMMA TotalsExist ==
  ASSUME NEW S, IsFiniteSet(S), NEW f \in [S -> Nat]
  PROVE  \E T : Totals(f, S, T)
<1>1. PICK T : T = [s \in SUBSET S |-> Cardinality(Units(f, s))]
  OBVIOUS
<1>2. ASSUME NEW s \in SUBSET S
      PROVE  T[s] = IF s = {} THEN 0
                    ELSE f[CHOOSE x \in s : TRUE] + T[s \ {CHOOSE x \in s : TRUE}]
  <2>1. CASE s = {}
    <3>1. Units(f, s) = {}
      BY <2>1 DEF Units
    <3>2. QED
      BY <1>1, <2>1, <3>1, FS_EmptySet
  <2>2. CASE s # {}
    <3>1. PICK x : x = CHOOSE y \in s : TRUE
      OBVIOUS
    <3>2. x \in s /\ s \ {x} \in SUBSET S
      BY <2>2, <3>1
    <3>3. Cardinality(Units(f, s)) = f[x] + Cardinality(Units(f, s \ {x}))
      BY <3>2, UnitsSplit
    <3>4. T[s] = f[x] + T[s \ {x}]
      BY <1>1, <3>2, <3>3
    <3>5. QED
      BY <2>2, <3>1, <3>4
  <2>3. QED
    BY <2>1, <2>2
<1>3. T = [s \in SUBSET S |-> T[s]]
  BY <1>1
<1>4. T = [s \in SUBSET S |-> IF s = {} THEN 0
                             ELSE f[CHOOSE x \in s : TRUE] + T[s \ {CHOOSE x \in s : TRUE}]]
  BY <1>2, <1>3
<1>5. QED
  BY <1>4 DEF Totals

\* There is a least one among any numbers.
LEMMA LeastNumber ==
  ASSUME NEW N \in SUBSET Nat, N # {}
  PROVE  \E n \in N : \A m \in N : n <= m
<1>1. PICK R : R = {ss \in Nat \X Nat : ss[1] < ss[2]}
  OBVIOUS
<1>2. IsWellFoundedOn(R, Nat)
  BY <1>1, NatLessThanWellFounded, Zenon DEF OpToRel
<1>3. \A a, b \in Nat : a < b => <<a, b>> \in R
  BY <1>1
<1>4. PICK n \in N : \A m \in N : ~(<<m, n>> \in R)
  BY <1>2, WFMin
<1>5. \A m \in N : n \in Nat /\ m \in Nat /\ ~(m < n)
  BY <1>3, <1>4
<1>6. QED
  BY <1>5

\* ... and they are the numbers of units: the least set they are not has an
\* element the less.
LEMMA TotalsCount ==
  ASSUME NEW S, IsFiniteSet(S), NEW f \in [S -> Nat], NEW T, Totals(f, S, T),
         NEW U \in SUBSET S
  PROVE  T[U] = Cardinality(Units(f, U))
<1>1. PICK bad : bad = {s \in SUBSET S : T[s] # Cardinality(Units(f, s))}
  OBVIOUS
<1>2. SUFFICES ASSUME bad # {} PROVE FALSE
  BY <1>1
<1>3. \A s \in SUBSET S : IsFiniteSet(s) /\ Cardinality(s) \in Nat
  BY FS_Subset, FS_CardinalityType
<1>4. PICK sizes : sizes = {Cardinality(s) : s \in bad}
  OBVIOUS
<1>5. sizes \in SUBSET Nat /\ sizes # {}
  BY <1>1, <1>2, <1>3, <1>4
<1>6. PICK n \in sizes : \A m \in sizes : n <= m
  BY <1>5, LeastNumber
<1>7. PICK s \in bad : n = Cardinality(s)
  BY <1>4, <1>6
<1>8. s \in SUBSET S /\ T[s] # Cardinality(Units(f, s))
  BY <1>1, <1>7
<1>9. T[s] = IF s = {} THEN 0
             ELSE f[CHOOSE x \in s : TRUE] + T[s \ {CHOOSE x \in s : TRUE}]
  BY <1>8 DEF Totals
<1>10. s # {}
  <2>1. Units(f, {}) = {} /\ Cardinality({}) = 0
    BY FS_EmptySet DEF Units
  <2>2. QED
    BY <1>8, <1>9, <2>1
<1>11. PICK x : x = CHOOSE y \in s : TRUE
  OBVIOUS
<1>12. x \in s /\ s \ {x} \in SUBSET S
  BY <1>8, <1>10, <1>11
<1>13. Cardinality(s \ {x}) = Cardinality(s) - 1
  <2>1. IsFiniteSet(s)
    BY <1>3, <1>8
  <2>2. QED
    BY <1>12, <2>1, FS_RemoveElement
<1>14. s \ {x} \notin bad
  <2>1. ASSUME s \ {x} \in bad PROVE FALSE
    <3>1. n - 1 \in sizes /\ n \in Nat
      BY <1>4, <1>5, <1>7, <1>13, <2>1
    <3>2. n <= n - 1
      BY <1>6, <3>1
    <3>3. QED
      BY <3>1, <3>2
  <2>2. QED
    BY <2>1
<1>15. T[s \ {x}] = Cardinality(Units(f, s \ {x}))
  BY <1>1, <1>12, <1>14
<1>16. T[s] = f[x] + T[s \ {x}]
  BY <1>9, <1>10, <1>11
<1>17. Cardinality(Units(f, s)) = f[x] + Cardinality(Units(f, s \ {x}))
  BY <1>8, <1>12, UnitsSplit
<1>18. QED
  BY <1>8, <1>15, <1>16, <1>17

\* A sum is a number of units.
LEMMA SumCounts ==
  ASSUME NEW S, IsFiniteSet(S), NEW f \in [S -> Nat]
  PROVE  Sum(f, S) = Cardinality(Units(f, S)) /\ Sum(f, S) \in Nat
<1>1. PICK T : T = CHOOSE X : Totals(f, S, X)
  OBVIOUS
<1>2. Totals(f, S, T)
  BY <1>1, TotalsExist
<1>3. Sum(f, S) = T[S]
  BY <1>1, SumIs
<1>4. Sum(f, S) = Cardinality(Units(f, S))
  BY <1>2, <1>3, TotalsCount
<1>5. Cardinality(Units(f, S)) \in Nat
  BY UnitsFinite, FS_CardinalityType
<1>6. QED
  BY <1>4, <1>5

\* When one number of it changes, so does the sum.
LEMMA SumChanges ==
  ASSUME NEW S, IsFiniteSet(S), NEW f \in [S -> Nat], NEW g \in [S -> Nat], NEW c \in S,
         \A a \in S \ {c} : g[a] = f[a]
  PROVE  Sum(f, S) \in Nat /\ Sum(g, S) \in Nat /\ Sum(g, S) = Sum(f, S) - f[c] + g[c]
<1>1. /\ Cardinality(Units(f, S)) = f[c] + Cardinality(Units(f, S \ {c}))
      /\ Cardinality(Units(g, S)) = g[c] + Cardinality(Units(g, S \ {c}))
  BY UnitsSplit
<1>2. Units(f, S \ {c}) = Units(g, S \ {c})
  BY DEF Units
<1>3. /\ Sum(f, S) = Cardinality(Units(f, S)) /\ Sum(f, S) \in Nat
      /\ Sum(g, S) = Cardinality(Units(g, S)) /\ Sum(g, S) \in Nat
  BY SumCounts
<1>4. Cardinality(Units(f, S \ {c})) \in Nat
  <2>1. Units(f, S \ {c}) \subseteq Units(f, S)
    BY DEF Units
  <2>2. QED
    BY <2>1, UnitsFinite, FS_Subset, FS_CardinalityType
<1>5. f[c] \in Nat /\ g[c] \in Nat
  OBVIOUS
<1>6. PICK r \in Nat : Sum(f, S) = f[c] + r /\ Sum(g, S) = g[c] + r
  BY <1>1, <1>2, <1>3, <1>4
<1>7. QED
  BY <1>3, <1>5, <1>6

-----------------------------------------------------------------------------
(* What a call still has to do, part by part.                              *)

ToMake == IF Populating THEN 3 * (Len(Listing[node[target]]) - made) ELSE 0
ToPlace == 3 * (Len(pending) - taken)
ToDrop == [a \in Addr |-> 2 * (Len(children[a]) - cursor[a])]
ToEnd == CASE call = "idle" -> 0 [] call = "populate" -> 2 [] OTHER -> 1

\* None of the parts is below zero.
LEMMA WorkTyped ==
  ASSUME TypeOK, OwnershipInv, ListingInv
  PROVE  /\ ToMake \in Nat /\ ToPlace \in Nat /\ ToDrop \in [Addr -> Nat] /\ ToEnd \in Nat
         /\ Sum(ToDrop, Addr) \in Nat /\ Len(stack) \in Nat
         /\ Work = ToMake + ToPlace + Sum(ToDrop, Addr) + Len(stack) + ToEnd
<1>1. ToMake \in Nat
  <2>1. CASE Populating
    <3>1. Listed(target, made)
      BY <2>1 DEF ListingInv
    <3>2. target \in Addr
      BY <2>1 DEF Populating, TypeOK, CallTypeOK
    <3>3. Len(Listing[node[target]]) \in Nat
      BY <3>2, NodeAssumption DEF TypeOK, HeapTypeOK
    <3>4. made <= Len(Listing[node[target]]) /\ made \in Nat
      BY <3>1 DEF Listed, TypeOK, CallTypeOK
    <3>5. QED
      BY <2>1, <3>3, <3>4 DEF ToMake
  <2>2. CASE ~Populating
    BY <2>2 DEF ToMake
  <2>3. QED
    BY <2>1, <2>2
<1>2. ToPlace \in Nat
  <2>1. taken <= Len(pending) /\ taken \in Nat /\ Len(pending) \in Nat
    BY DEF OwnershipInv, CellsOK, TypeOK, CallTypeOK
  <2>2. QED
    BY <2>1 DEF ToPlace
<1>3. ToDrop \in [Addr -> Nat]
  <2>1. ASSUME NEW a \in Addr PROVE 2 * (Len(children[a]) - cursor[a]) \in Nat
    <3>1. children[a] \in Seq(Addr) /\ cursor[a] \in Nat
      BY DEF TypeOK, HeapTypeOK
    <3>2. cursor[a] <= Len(children[a])
      BY DEF OwnershipInv, CellsOK
    <3>3. PICK l \in Nat, c \in Nat : l = Len(children[a]) /\ c = cursor[a]
      BY <3>1
    <3>4. QED
      BY <3>2, <3>3
  <2>2. QED
    BY <2>1 DEF ToDrop
<1>4. Sum(ToDrop, Addr) \in Nat
  BY <1>3, HeapAssumption, SumCounts
<1>5. ToEnd \in Nat /\ Len(stack) \in Nat
  BY DEF ToEnd, TypeOK, CallTypeOK
<1>6. Work = ToMake + ToPlace + Sum(ToDrop, Addr) + Len(stack) + ToEnd
  BY DEF Work, ToMake, ToPlace, ToDrop, ToEnd
<1>7. QED
  BY <1>1, <1>2, <1>3, <1>4, <1>5, <1>6

\* The same of the next state.
LEMMA NextWorkTyped ==
  (TypeOK /\ OwnershipInv /\ ListingInv =>
     /\ ToMake \in Nat /\ ToPlace \in Nat /\ ToDrop \in [Addr -> Nat] /\ ToEnd \in Nat
     /\ Sum(ToDrop, Addr) \in Nat /\ Len(stack) \in Nat
     /\ Work = ToMake + ToPlace + Sum(ToDrop, Addr) + Len(stack) + ToEnd)'
<1>1. TypeOK /\ OwnershipInv /\ ListingInv =>
        /\ ToMake \in Nat /\ ToPlace \in Nat /\ ToDrop \in [Addr -> Nat] /\ ToEnd \in Nat
        /\ Sum(ToDrop, Addr) \in Nat /\ Len(stack) \in Nat
        /\ Work = ToMake + ToPlace + Sum(ToDrop, Addr) + Len(stack) + ToEnd
  BY WorkTyped
<1>2. QED
  BY <1>1, PTL

\* The arrays still to be dropped, when at most that of c changes.
LEMMA DropChanges ==
  ASSUME ToDrop \in [Addr -> Nat], ToDrop' \in [Addr -> Nat], NEW c \in Addr,
         \A a \in Addr \ {c} : children'[a] = children[a] /\ cursor'[a] = cursor[a]
  PROVE  Sum(ToDrop, Addr)' = Sum(ToDrop, Addr) - 2 * (Len(children[c]) - cursor[c])
                              + 2 * (Len(children'[c]) - cursor'[c])
<1>1. \A a \in Addr \ {c} : ToDrop'[a] = ToDrop[a]
  BY DEF ToDrop
<1>2. Sum(ToDrop', Addr) = Sum(ToDrop, Addr) - ToDrop[c] + ToDrop'[c]
  BY <1>1, HeapAssumption, SumChanges
<1>3. /\ ToDrop[c] = 2 * (Len(children[c]) - cursor[c])
      /\ ToDrop'[c] = 2 * (Len(children'[c]) - cursor'[c])
  BY DEF ToDrop
<1>4. Sum(ToDrop, Addr)' = Sum(ToDrop', Addr)
  BY DEF Sum, MapThenSumSet, MapThenFoldSet
<1>5. QED
  BY <1>2, <1>3, <1>4

\* A step that leaves the arrays and the destroy path alone.
LEMMA DropStays ==
  ASSUME UNCHANGED <<children, cursor>>
  PROVE  Sum(ToDrop, Addr)' = Sum(ToDrop, Addr)
<1>1. ToDrop' = ToDrop
  BY DEF ToDrop
<1>2. QED
  BY <1>1 DEF Sum, MapThenSumSet, MapThenFoldSet

\* One more, counted twice.
LEMMA TwoMore ==
  ASSUME NEW x \in Nat, NEW l \in Nat, NEW c \in Nat
  PROVE  x - 2 * (l - c) + 2 * ((l + 1) - c) = x + 2
OBVIOUS

\* One less, counted twice.
LEMMA TwoLess ==
  ASSUME NEW x \in Nat, NEW l \in Nat, NEW c \in Nat
  PROVE  x - 2 * (l - c) + 2 * (l - (c + 1)) = x - 2
OBVIOUS

\* What the steps take from one part is more than what they add to another.
LEMMA OneLess ==
  ASSUME NEW m \in Nat, NEW p \in Nat, NEW d \in Nat, NEW l \in Nat, NEW e \in Nat
  PROVE  /\ (m - 3) + p + (d + 2) + l + e < m + p + d + l + e
         /\ m + (p - 3) + (d + 2) + l + e < m + p + d + l + e
         /\ m + (p - 3) + d + (l + 1) + e < m + p + d + l + e
         /\ m + p + (d - 2) + (l + 1) + e < m + p + d + l + e
<1>1. PICK w \in Nat : w = m + p + d + l + e
  OBVIOUS
<1>2. /\ (m - 3) + p + (d + 2) + l + e = w - 1
      /\ m + (p - 3) + (d + 2) + l + e = w - 1
  BY <1>1
<1>3. /\ m + (p - 3) + d + (l + 1) + e = w - 2
      /\ m + p + (d - 2) + (l + 1) + e = w - 1
  BY <1>1
<1>4. w - 1 < w /\ w - 2 < w
  OBVIOUS
<1>5. QED
  BY ONLY <1>1, <1>2, <1>3, <1>4

\* No part is more, and the path or the end is less.
LEMMA NoneMore ==
  ASSUME TypeOK, OwnershipInv, ListingInv, (TypeOK /\ OwnershipInv /\ ListingInv)',
         ToMake' <= ToMake, ToPlace' <= ToPlace, Sum(ToDrop, Addr)' = Sum(ToDrop, Addr),
         Len(stack)' <= Len(stack), ToEnd' <= ToEnd,
         Len(stack)' < Len(stack) \/ ToEnd' < ToEnd
  PROVE  Work' < Work
<1>1. PICK m \in Nat, p \in Nat, d \in Nat, l \in Nat, e \in Nat :
        /\ m = ToMake /\ p = ToPlace /\ d = Sum(ToDrop, Addr) /\ l = Len(stack) /\ e = ToEnd
        /\ Work = m + p + d + l + e
  BY WorkTyped
<1>2. PICK m2 \in Nat, p2 \in Nat, l2 \in Nat, e2 \in Nat :
        /\ m2 = ToMake' /\ p2 = ToPlace' /\ l2 = Len(stack)' /\ e2 = ToEnd'
        /\ Work' = m2 + p2 + d + l2 + e2
  <2>1. /\ ToMake' \in Nat /\ ToPlace' \in Nat /\ Len(stack)' \in Nat /\ ToEnd' \in Nat
        /\ Work' = ToMake' + ToPlace' + Sum(ToDrop, Addr)' + Len(stack)' + ToEnd'
    BY NextWorkTyped
  <2>2. QED
    BY <1>1, <2>1
<1>3. m2 <= m /\ p2 <= p /\ l2 <= l /\ e2 <= e /\ (l2 < l \/ e2 < e)
  BY <1>1, <1>2
<1>4. m2 + p2 + d + l2 + e2 < m + p + d + l + e
  BY ONLY <1>3
<1>5. QED
  BY <1>1, <1>2, <1>4

\* A child is made: three steps less to do for it, two more for the array.
LEMMA PopulateNextShrinks ==
  ASSUME TypeOK, OwnershipInv, ListingInv, (TypeOK /\ OwnershipInv /\ ListingInv)',
         NEW a \in Addr, PopulateNext(a)
  PROVE  Work' < Work
<1>1. /\ ToMake \in Nat /\ ToPlace \in Nat /\ ToDrop \in [Addr -> Nat] /\ ToEnd \in Nat
      /\ Sum(ToDrop, Addr) \in Nat /\ Len(stack) \in Nat
      /\ Work = ToMake + ToPlace + Sum(ToDrop, Addr) + Len(stack) + ToEnd
  BY WorkTyped
<1>2. /\ ToDrop' \in [Addr -> Nat] /\ Sum(ToDrop, Addr)' \in Nat
      /\ Work' = ToMake' + ToPlace' + Sum(ToDrop, Addr)' + Len(stack)' + ToEnd'
  BY NextWorkTyped
<1>3. /\ Populating /\ made < Len(Listing[node[target]]) /\ made' = made + 1
      /\ Allocate(a, Listing[node[target]][made + 1]) /\ AppendChild(target, a)
      /\ UNCHANGED <<cursor, root, pending, taken, call, target, stack>>
  BY DEF PopulateNext, rootVars
<1>4. target \in Addr /\ target \in live /\ target # a /\ call = "populate" /\ target # root
  <2>1. call = "populate" /\ target # root /\ target \in Addr
    BY <1>3 DEF Populating, TypeOK, CallTypeOK
  <2>2. target \in live
    BY <2>1, AddrAssumption DEF OwnershipInv, NoDanglingPointer
  <2>3. QED
    BY <1>3, <2>1, <2>2 DEF Allocate
<1>5. ToMake' = ToMake - 3
  <2>1. node'[target] = node[target]
    BY <1>3, <1>4 DEF Allocate, TypeOK, HeapTypeOK
  <2>2. Populating' /\ Listing[node'[target']] = Listing[node[target]]
    BY <1>3, <1>4, <2>1 DEF Populating
  <2>3. PICK l \in Nat, m \in Nat : l = Len(Listing[node[target]]) /\ m = made
    <3>1. node[target] \in Node /\ made \in Nat
      BY <1>4 DEF TypeOK, HeapTypeOK, CallTypeOK
    <3>2. Listing[node[target]] \in Seq(Node)
      BY <3>1, NodeAssumption
    <3>3. Len(Listing[node[target]]) \in Nat
      BY <3>2
    <3>4. QED
      BY <3>1, <3>3
  <2>4. ToMake = 3 * (l - m) /\ ToMake' = 3 * (l - (m + 1))
    BY <1>3, <2>2, <2>3 DEF ToMake
  <2>5. QED
    BY <2>4
<1>6. Sum(ToDrop, Addr)' = Sum(ToDrop, Addr) + 2
  <2>1. children' = [children EXCEPT ![target] = Append(@, a)]
    BY <1>3 DEF AppendChild
  <2>2. \A b \in Addr \ {target} : children'[b] = children[b] /\ cursor'[b] = cursor[b]
    BY <1>3, <2>1 DEF TypeOK, HeapTypeOK
  <2>3. Len(children'[target]) = Len(children[target]) + 1 /\ Len(children[target]) \in Nat
    BY <1>4, <2>1 DEF TypeOK, HeapTypeOK
  <2>4. Sum(ToDrop, Addr)' = Sum(ToDrop, Addr) - 2 * (Len(children[target]) - cursor[target])
                             + 2 * (Len(children'[target]) - cursor'[target])
    BY <1>1, <1>2, <1>4, <2>2, DropChanges
  <2>5. cursor'[target] = cursor[target] /\ cursor[target] \in Nat
    BY <1>3, <1>4 DEF TypeOK, HeapTypeOK
  <2>6. PICK l \in Nat, c \in Nat : l = Len(children[target]) /\ c = cursor[target]
    BY <2>3, <2>5
  <2>7. Sum(ToDrop, Addr)' = Sum(ToDrop, Addr) - 2 * (l - c) + 2 * ((l + 1) - c)
    BY ONLY <2>3, <2>4, <2>5, <2>6
  <2>8. QED
    BY <1>1, <2>7, TwoMore
<1>7. ToPlace' = ToPlace /\ Len(stack)' = Len(stack) /\ ToEnd' = ToEnd
  BY <1>3 DEF ToPlace, ToEnd
<1>8. Work' = (ToMake - 3) + ToPlace + (Sum(ToDrop, Addr) + 2) + Len(stack) + ToEnd
  BY ONLY <1>2, <1>5, <1>6, <1>7
<1>9. QED
  BY <1>1, <1>8, OneLess

\* A transport is placed, in the same way.
LEMMA RootPopulateNextShrinks ==
  ASSUME TypeOK, OwnershipInv, ListingInv, (TypeOK /\ OwnershipInv /\ ListingInv)',
         RootPopulateNext
  PROVE  Work' < Work
<1>1. /\ ToMake \in Nat /\ ToPlace \in Nat /\ ToDrop \in [Addr -> Nat] /\ ToEnd \in Nat
      /\ Sum(ToDrop, Addr) \in Nat /\ Len(stack) \in Nat
      /\ Work = ToMake + ToPlace + Sum(ToDrop, Addr) + Len(stack) + ToEnd
  BY WorkTyped
<1>2. /\ ToDrop' \in [Addr -> Nat] /\ Sum(ToDrop, Addr)' \in Nat
      /\ Work' = ToMake' + ToPlace' + Sum(ToDrop, Addr)' + Len(stack)' + ToEnd'
  BY NextWorkTyped
<1>3. /\ call = "populate" /\ target = root /\ taken < Len(pending) /\ taken' = taken + 1
      /\ children' = [children EXCEPT ![root] = Append(@, pending[taken + 1])]
      /\ UNCHANGED <<node, cursor, root, pending, call, target, made, stack>>
  BY DEF RootPopulateNext, PopulatingRoot, AppendChild, callVars
<1>4. root \in Addr
  BY <1>3 DEF TypeOK, CallTypeOK
<1>5. ToPlace' = ToPlace - 3
  <2>1. PICK l \in Nat, m \in Nat : l = Len(pending) /\ m = taken
    BY DEF TypeOK, CallTypeOK
  <2>2. ToPlace = 3 * (l - m) /\ ToPlace' = 3 * (l - (m + 1))
    BY <1>3, <2>1 DEF ToPlace
  <2>3. QED
    BY <2>2
<1>6. Sum(ToDrop, Addr)' = Sum(ToDrop, Addr) + 2
  <2>1. \A b \in Addr \ {root} : children'[b] = children[b] /\ cursor'[b] = cursor[b]
    BY <1>3 DEF TypeOK, HeapTypeOK
  <2>2. pending[taken + 1] \in Addr
    BY <1>3 DEF TypeOK, CallTypeOK
  <2>3. Len(children'[root]) = Len(children[root]) + 1 /\ Len(children[root]) \in Nat
    BY <1>3, <1>4, <2>2 DEF TypeOK, HeapTypeOK
  <2>4. Sum(ToDrop, Addr)' = Sum(ToDrop, Addr) - 2 * (Len(children[root]) - cursor[root])
                             + 2 * (Len(children'[root]) - cursor'[root])
    BY <1>1, <1>2, <1>4, <2>1, DropChanges
  <2>5. cursor'[root] = cursor[root] /\ cursor[root] \in Nat
    BY <1>3, <1>4 DEF TypeOK, HeapTypeOK
  <2>6. PICK l \in Nat, c \in Nat : l = Len(children[root]) /\ c = cursor[root]
    BY <2>3, <2>5
  <2>7. Sum(ToDrop, Addr)' = Sum(ToDrop, Addr) - 2 * (l - c) + 2 * ((l + 1) - c)
    BY ONLY <2>3, <2>4, <2>5, <2>6
  <2>8. QED
    BY <1>1, <2>7, TwoMore
<1>7. ToMake' = ToMake /\ Len(stack)' = Len(stack) /\ ToEnd' = ToEnd
  BY <1>3 DEF ToMake, ToEnd, Populating
<1>8. Work' = ToMake + (ToPlace - 3) + (Sum(ToDrop, Addr) + 2) + Len(stack) + ToEnd
  BY ONLY <1>2, <1>5, <1>6, <1>7
<1>9. QED
  BY <1>1, <1>8, OneLess

\* The ends of populate and surrender, and a transport that is given up: the
\* arrays stay, something else gets less.
LEMMA EndsShrink ==
  ASSUME TypeOK, OwnershipInv, ListingInv, (TypeOK /\ OwnershipInv /\ ListingInv)',
         \/ PopulateError \/ PopulateDone \/ RootPopulateError \/ RootPopulateDone
         \/ Surrender \/ SurrenderDone \/ DestroyPending
  PROVE  Work' < Work
<1>1. /\ ToMake \in Nat /\ ToPlace \in Nat /\ ToDrop \in [Addr -> Nat] /\ ToEnd \in Nat
      /\ Sum(ToDrop, Addr) \in Nat /\ Len(stack) \in Nat
      /\ Work = ToMake + ToPlace + Sum(ToDrop, Addr) + Len(stack) + ToEnd
  BY WorkTyped
<1>2. /\ ToMake' \in Nat /\ ToPlace' \in Nat /\ Len(stack)' \in Nat /\ ToEnd' \in Nat
      /\ Work' = ToMake' + ToPlace' + Sum(ToDrop, Addr)' + Len(stack)' + ToEnd'
  BY NextWorkTyped
<1>3. UNCHANGED <<children, cursor>>
  BY DEF PopulateError, PopulateDone, RootPopulateError, RootPopulateDone, Surrender,
         SurrenderDone, DestroyPending, object
<1>4. Sum(ToDrop, Addr)' = Sum(ToDrop, Addr)
  BY <1>3, DropStays
<1>5. PICK l \in Nat, m \in Nat : l = Len(pending) /\ m = taken /\ ToPlace = 3 * (l - m)
  BY DEF TypeOK, CallTypeOK, ToPlace
<1>6. CASE PopulateError \/ PopulateDone
  <2>1. /\ call = "populate" /\ call' = "idle" /\ UNCHANGED <<pending, taken, stack>>
    BY <1>6 DEF PopulateError, PopulateDone, Populating, EndCall, rootVars
  <2>2. ToMake' = 0 /\ ToPlace' = ToPlace /\ Len(stack)' = Len(stack)
    BY <2>1 DEF ToMake, ToPlace, Populating
  <2>3. ToEnd = 2 /\ ToEnd' = 0
    BY <2>1 DEF ToEnd
  <2>4. /\ ToMake' <= ToMake /\ ToPlace' <= ToPlace
        /\ Len(stack)' <= Len(stack) /\ ToEnd' < ToEnd /\ ToEnd' <= ToEnd
    BY <1>1, <2>2, <2>3
  <2>5. QED
    BY <1>4, <2>4, NoneMore
<1>7. CASE RootPopulateError
  <2>1. call = "populate" /\ call' = "surrender" /\ UNCHANGED <<pending, taken, stack>>
    BY <1>7 DEF RootPopulateError, PopulatingRoot, rootVars
  <2>2. ToMake' = 0 /\ ToPlace' = ToPlace /\ Len(stack)' = Len(stack)
    BY <2>1 DEF ToMake, ToPlace, Populating
  <2>3. ToEnd = 2 /\ ToEnd' = 1
    BY <2>1 DEF ToEnd
  <2>4. /\ ToMake' <= ToMake /\ ToPlace' <= ToPlace
        /\ Len(stack)' <= Len(stack) /\ ToEnd' < ToEnd /\ ToEnd' <= ToEnd
    BY <1>1, <2>2, <2>3
  <2>5. QED
    BY <1>4, <2>4, NoneMore
<1>8. CASE RootPopulateDone \/ SurrenderDone
  <2>1. /\ call # "idle" /\ call' = "idle" /\ pending' = << >> /\ taken' = 0 /\ stack' = stack
    BY <1>8 DEF RootPopulateDone, SurrenderDone, PopulatingRoot, EndCall
  <2>2. ToMake' = 0 /\ ToPlace' = 0 /\ Len(stack)' = Len(stack)
    BY <2>1 DEF ToMake, ToPlace, Populating
  <2>3. ToEnd > 0 /\ ToEnd' = 0
    BY <2>1 DEF ToEnd
  <2>4. /\ ToMake' <= ToMake /\ ToPlace' <= ToPlace
        /\ Len(stack)' <= Len(stack) /\ ToEnd' < ToEnd /\ ToEnd' <= ToEnd
    BY <1>1, <2>2, <2>3
  <2>5. QED
    BY <1>4, <2>4, NoneMore
<1>9. CASE Surrender \/ DestroyPending
  <2>1. PICK s : /\ UNCHANGED <<call, target, root, pending, made, node>> /\ taken' = taken + 1
                 /\ stack' = <<s>> \o stack /\ s \in Addr
    <3>1. CASE Surrender
      <4>1. stack = << >> /\ stack' = <<pending[taken + 1]>> /\ taken' = taken + 1
            /\ UNCHANGED <<call, target, root, pending, made, node>> /\ taken < Len(pending)
        BY <3>1 DEF Surrender, object
      <4>2. pending[taken + 1] \in Addr
        BY <4>1 DEF TypeOK, CallTypeOK
      <4>3. stack' = <<pending[taken + 1]>> \o stack
        BY <4>1
      <4>4. QED
        BY <4>1, <4>2, <4>3
    <3>2. CASE DestroyPending
      <4>1. stack' = <<pending[taken + 1]>> \o stack /\ taken' = taken + 1
            /\ UNCHANGED <<call, target, root, pending, made, node>> /\ taken < Len(pending)
        BY <3>2 DEF DestroyPending, object
      <4>2. pending[taken + 1] \in Addr
        BY <4>1 DEF TypeOK, CallTypeOK
      <4>3. QED
        BY <4>1, <4>2
    <3>3. QED
      BY <1>9, <3>1, <3>2
  <2>2. Len(stack)' = Len(stack) + 1
    <3>1. stack \in Seq(Addr) /\ <<s>> \in Seq(Addr) /\ Len(<<s>>) = 1
      BY <2>1 DEF TypeOK, CallTypeOK
    <3>2. QED
      BY <2>1, <3>1
  <2>3. ToPlace' = ToPlace - 3
    <3>1. ToPlace' = 3 * (l - (m + 1))
      BY <1>5, <2>1 DEF ToPlace
    <3>2. QED
      BY ONLY <1>5, <3>1
  <2>4. ToMake' = ToMake /\ ToEnd' = ToEnd
    BY <2>1 DEF ToMake, ToEnd, Populating
  <2>5. Work' = ToMake + (ToPlace - 3) + Sum(ToDrop, Addr) + (Len(stack) + 1) + ToEnd
    BY ONLY <1>2, <1>4, <2>2, <2>3, <2>4
  <2>6. QED
    BY <1>1, <2>5, OneLess
<1>10. QED
  BY <1>6, <1>7, <1>8, <1>9

\* drop_children's loop: one object more on the path, one entry less.
LEMMA DropNextShrinks ==
  ASSUME TypeOK, OwnershipInv, ListingInv, (TypeOK /\ OwnershipInv /\ ListingInv)', DropNext
  PROVE  Work' < Work
<1>1. /\ ToMake \in Nat /\ ToPlace \in Nat /\ ToDrop \in [Addr -> Nat] /\ ToEnd \in Nat
      /\ Sum(ToDrop, Addr) \in Nat /\ Len(stack) \in Nat
      /\ Work = ToMake + ToPlace + Sum(ToDrop, Addr) + Len(stack) + ToEnd
  BY WorkTyped
<1>2. /\ ToDrop' \in [Addr -> Nat] /\ Sum(ToDrop, Addr)' \in Nat
      /\ Work' = ToMake' + ToPlace' + Sum(ToDrop, Addr)' + Len(stack)' + ToEnd'
  BY NextWorkTyped
<1>3. PICK p : p = Top
  OBVIOUS
<1>4. /\ stack # << >> /\ cursor[p] < Len(children[p])
      /\ stack' = <<children[p][cursor[p] + 1]>> \o stack
      /\ cursor' = [cursor EXCEPT ![p] = @ + 1]
      /\ UNCHANGED <<node, children, root, pending, taken, call, target, made>>
  BY <1>3 DEF DropNext, ChildrenLeft, rootVars
<1>5. p \in Addr
  BY <1>3, <1>4 DEF Top, TypeOK, CallTypeOK
<1>6. PICK l \in Nat, c \in Nat : l = Len(children[p]) /\ c = cursor[p]
  BY <1>5 DEF TypeOK, HeapTypeOK
<1>7. cursor'[p] = c + 1 /\ children'[p] = children[p]
  BY <1>4, <1>5, <1>6 DEF TypeOK, HeapTypeOK
<1>8. Sum(ToDrop, Addr)' = Sum(ToDrop, Addr) - 2 * (l - c) + 2 * (l - (c + 1))
  <2>1. \A b \in Addr \ {p} : children'[b] = children[b] /\ cursor'[b] = cursor[b]
    BY <1>4 DEF TypeOK, HeapTypeOK
  <2>2. Sum(ToDrop, Addr)' = Sum(ToDrop, Addr) - 2 * (Len(children[p]) - cursor[p])
                             + 2 * (Len(children'[p]) - cursor'[p])
    BY <1>1, <1>2, <1>5, <2>1, DropChanges
  <2>3. QED
    BY ONLY <1>6, <1>7, <2>2
<1>9. Sum(ToDrop, Addr)' = Sum(ToDrop, Addr) - 2
  BY <1>1, <1>8, TwoLess
<1>10. Len(stack)' = Len(stack) + 1
  <2>1. children[p] \in Seq(Addr) /\ stack \in Seq(Addr)
    BY <1>5 DEF TypeOK, HeapTypeOK, CallTypeOK
  <2>2. children[p][c + 1] \in Addr
    BY <1>4, <1>6, <2>1
  <2>3. PICK s \in Addr : stack' = <<s>> \o stack
    BY <1>4, <1>6, <2>2
  <2>4. QED
    BY <2>1, <2>3
<1>11. ToMake' = ToMake /\ ToPlace' = ToPlace /\ ToEnd' = ToEnd
  BY <1>4 DEF ToMake, ToPlace, ToEnd, Populating
<1>12. Work' = ToMake + ToPlace + (Sum(ToDrop, Addr) - 2) + (Len(stack) + 1) + ToEnd
  BY ONLY <1>2, <1>9, <1>10, <1>11
<1>13. QED
  BY <1>1, <1>12, OneLess

\* An array that has been dropped can go without anything left to do.
LEMMA DroppedStays ==
  ASSUME TypeOK, OwnershipInv, ToDrop \in [Addr -> Nat], ToDrop' \in [Addr -> Nat],
         NEW p \in Addr, ~ChildrenLeft(p), Sum(ToDrop, Addr) \in Nat,
         children' = [children EXCEPT ![p] = << >>], cursor' = [cursor EXCEPT ![p] = 0]
  PROVE  Sum(ToDrop, Addr)' = Sum(ToDrop, Addr)
<1>1. PICK l \in Nat : l = Len(children[p]) /\ l = cursor[p]
  <2>1. Len(children[p]) \in Nat /\ cursor[p] \in Nat /\ cursor[p] <= Len(children[p])
    BY DEF TypeOK, HeapTypeOK, OwnershipInv, CellsOK
  <2>2. QED
    BY <2>1 DEF ChildrenLeft
<1>2. children'[p] = << >> /\ cursor'[p] = 0 /\ Len(<< >>) = 0
  BY DEF TypeOK, HeapTypeOK
<1>3. \A b \in Addr \ {p} : children'[b] = children[b] /\ cursor'[b] = cursor[b]
  BY DEF TypeOK, HeapTypeOK
<1>4. Sum(ToDrop, Addr)' = Sum(ToDrop, Addr) - 2 * (Len(children[p]) - cursor[p])
                           + 2 * (Len(children'[p]) - cursor'[p])
  BY <1>3, DropChanges
<1>5. Sum(ToDrop, Addr)' = Sum(ToDrop, Addr) - 2 * (l - l) + 2 * (0 - 0)
  BY ONLY <1>1, <1>2, <1>4
<1>6. QED
  BY <1>5

\* An object is freed, or survives its refresh: it leaves the path.
LEMMA LeavingShrinks ==
  ASSUME TypeOK, OwnershipInv, ListingInv, (TypeOK /\ OwnershipInv /\ ListingInv)',
         Free \/ RefreshDone
  PROVE  Work' < Work
<1>1. /\ ToMake \in Nat /\ ToPlace \in Nat /\ ToDrop \in [Addr -> Nat] /\ ToEnd \in Nat
      /\ Sum(ToDrop, Addr) \in Nat /\ Len(stack) \in Nat
      /\ Work = ToMake + ToPlace + Sum(ToDrop, Addr) + Len(stack) + ToEnd
  BY WorkTyped
<1>2. /\ ToDrop' \in [Addr -> Nat] /\ ToMake' \in Nat /\ ToPlace' \in Nat
      /\ Len(stack)' \in Nat /\ ToEnd' \in Nat
      /\ Work' = ToMake' + ToPlace' + Sum(ToDrop, Addr)' + Len(stack)' + ToEnd'
  BY NextWorkTyped
<1>3. stack # << >> /\ stack \in Seq(Addr)
  <2>1. CASE Free
    BY <2>1 DEF Free, TypeOK, CallTypeOK
  <2>2. CASE RefreshDone
    <3>1. stack = <<target>>
      BY <2>2 DEF RefreshDone, OnlyDropped
    <3>2. Len(stack) = 1 /\ Len(<< >>) = 0
      BY <3>1
    <3>3. stack # << >>
      BY ONLY <3>2
    <3>4. QED
      BY <3>3 DEF TypeOK, CallTypeOK
  <2>3. QED
    BY <2>1, <2>2
<1>4. PICK p : p = Top
  OBVIOUS
<1>5. p \in Addr /\ Len(stack) > 0
  BY <1>3, <1>4 DEF Top
<1>6. call \notin {"idle", "populate"}
  BY <1>3 DEF OwnershipInv, CallOK
<1>7. CASE Free
  <2>1. /\ ~ChildrenLeft(p) /\ children' = [children EXCEPT ![p] = << >>]
        /\ cursor' = [cursor EXCEPT ![p] = 0] /\ stack' = Tail(stack)
        /\ call' = "idle" \/ call' = call
    BY <1>4, <1>7 DEF Free
  <2>2. Sum(ToDrop, Addr)' = Sum(ToDrop, Addr)
    BY <1>1, <1>2, <1>5, <2>1, DroppedStays
  <2>3. Len(stack)' = Len(stack) - 1
    BY <1>3, <2>1
  <2>4. ToMake = 0 /\ ToMake' = 0 /\ ToEnd = 1 /\ ToEnd' \in {0, 1}
    BY <1>6, <2>1 DEF ToMake, ToEnd, Populating
  <2>5. ToPlace' = ToPlace
    <3>1. CASE p = root
      <4>1. pending' = << >> /\ taken' = 0 /\ taken = Len(pending)
        BY <1>4, <1>7, <3>1 DEF Free
      <4>2. ToPlace' = 3 * (0 - 0) /\ taken \in Nat
        BY <4>1 DEF ToPlace, TypeOK, CallTypeOK
      <4>3. QED
        BY <4>1, <4>2 DEF ToPlace
    <3>2. CASE p # root
      BY <1>4, <1>7, <3>2 DEF Free, ToPlace, rootVars
    <3>3. QED
      BY <3>1, <3>2
  <2>6. Len(stack)' < Len(stack) /\ Len(stack)' <= Len(stack)
    BY <1>1, <2>3
  <2>7. ToMake' <= ToMake /\ ToPlace' <= ToPlace /\ ToEnd' <= ToEnd
    BY <1>1, <2>4, <2>5
  <2>8. QED
    BY <2>2, <2>6, <2>7, NoneMore
<1>8. CASE RefreshDone
  <2>1. /\ p = target /\ ~ChildrenLeft(p) /\ children' = [children EXCEPT ![p] = << >>]
        /\ cursor' = [cursor EXCEPT ![p] = 0] /\ stack' = << >> /\ call' = "idle"
        /\ UNCHANGED <<pending, taken>>
    BY <1>4, <1>8 DEF RefreshDone, OnlyDropped, EndCall, Top, rootVars
  <2>2. Sum(ToDrop, Addr)' = Sum(ToDrop, Addr)
    BY <1>1, <1>2, <1>5, <2>1, DroppedStays
  <2>3. Len(stack)' = 0
    BY <2>1
  <2>4. ToMake = 0 /\ ToMake' = 0 /\ ToEnd = 1 /\ ToEnd' = 0 /\ ToPlace' = ToPlace
    BY <1>6, <2>1 DEF ToMake, ToEnd, ToPlace, Populating
  <2>5. Len(stack)' < Len(stack) /\ Len(stack)' <= Len(stack)
    BY <1>5, <2>3
  <2>6. ToMake' <= ToMake /\ ToPlace' <= ToPlace /\ ToEnd' <= ToEnd
    BY <1>1, <2>4
  <2>7. QED
    BY <2>2, <2>5, <2>6, NoneMore
<1>9. QED
  BY <1>7, <1>8

\* Every step inside a call leaves less to do, and there is no doing less than
\* nothing: whatever the tree and whatever fails, no populate, refresh or
\* destroy of object.c goes on for ever, the recursive one neither.
THEOREM CallsShrink == Spec => [](Work \in Nat) /\ CallShrinks
<1>1. TypeOK /\ OwnershipInv /\ ListingInv => Work \in Nat
  <2> SUFFICES ASSUME TypeOK, OwnershipInv, ListingInv PROVE Work \in Nat
    OBVIOUS
  <2>1. /\ ToMake \in Nat /\ ToPlace \in Nat /\ ToEnd \in Nat
        /\ Sum(ToDrop, Addr) \in Nat /\ Len(stack) \in Nat
        /\ Work = ToMake + ToPlace + Sum(ToDrop, Addr) + Len(stack) + ToEnd
    BY WorkTyped
  <2>2. QED
    BY <2>1
<1>2. /\ TypeOK /\ OwnershipInv /\ ListingInv
      /\ (TypeOK /\ OwnershipInv /\ ListingInv)'
      /\ [Next]_vars
      => [~Idle => Work' < Work]_vars
  <2> SUFFICES ASSUME TypeOK, OwnershipInv, ListingInv,
                      (TypeOK /\ OwnershipInv /\ ListingInv)', Next, ~Idle
               PROVE  Work' < Work
    OBVIOUS
  <2>1. CallStep
    BY DEF Next, ClientCall, CreateTransport, RootCreate, ReleaseTransport, GetChildren, Refresh,
           DestroyRoot
  <2>2. QED
    BY <2>1, PopulateNextShrinks, RootPopulateNextShrinks, EndsShrink, DropNextShrinks,
       LeavingShrinks DEF CallStep
<1>3. Spec => [](TypeOK /\ OwnershipInv /\ ListingInv)
  BY TypeCorrect, Ownership, Listings, PTL
<1>4. QED
  BY <1>1, <1>2, <1>3, PTL DEF Spec, CallShrinks
=============================================================================
