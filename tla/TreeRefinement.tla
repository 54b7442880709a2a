--------------------------- MODULE TreeRefinement ---------------------------
(***************************************************************************)
(* ObjectTree implements Forest: to a client that only looks between its   *)
(* calls, each of them happens at once.  A populate happens at its last    *)
(* step, when it is known how far it got; everything that destroys happens *)
(* at its first.                                                           *)
(***************************************************************************)
EXTENDS ObjectTree, FiniteSetsExt

Cells(s) == {s[i] : i \in DOMAIN s}

WaitingCells == {pending[i] : i \in OwnedPending}

\* The children the populate in progress has appended.
NewChildren == {children[target][i] : i \in {j \in DOMAIN children[target] :
                                               j > Len(children[target]) - made}}

\* The objects the call in progress has not given the client yet, or takes
\* away; so does everything below them.
Hidden == CASE call = "populate" -> IF target = root THEN {} ELSE NewChildren
            [] call = "refresh" -> {a \in live : parent[a] = target}
            [] call \in {"surrender", "destroy"} -> Cells(stack) \cup WaitingCells
            [] OTHER -> {}

Visible ==
  LET hidden == Hidden
      Shown[a \in live] == a \notin hidden /\ (parent[a] # NoAddr => Shown[parent[a]])
  IN  {a \in live : Shown[a]}

\* The array of a, without what the call in progress appends or drops.
VisibleChildren(a) ==
  CASE call = "refresh" /\ a = target -> << >>
    [] call = "populate" /\ a = target ->
         SubSeq(children[a], 1, Len(children[a]) - IF a = root THEN taken ELSE made)
    [] OTHER -> children[a]

Seen(f, zero) == LET visible == Visible
                 IN  [a \in Addr |-> IF a \in visible THEN f[a] ELSE zero]

Stands == Seen(node, RootNode)
Kids == Seen([a \in Addr |-> VisibleChildren(a)], << >>)
Complete == Seen([a \in Addr |-> populated[a] /\ ~(call = "refresh" /\ a = target)], FALSE)
TheRoot == IF call = "destroy" THEN NoAddr ELSE root
Waiting == IF call \in {"surrender", "destroy"} THEN << >> ELSE pending

Client == INSTANCE Forest WITH
  Handle <- Addr, NoHandle <- NoAddr,
  objects <- Visible, stands <- Stands, kids <- Kids, listed <- Complete,
  mine <- held, top <- TheRoot, waiting <- Waiting

\* Every call looks to the client as if it happened at once, complete or, when
\* it fails, in one of the ways Forest allows: a populate leaves a beginning of
\* its listing behind what was there, unlisted; what is destroyed is gone with
\* everything below it and nothing else; a failing listing of the root loses
\* exactly the transports it did not get to.
ImplementsForest == Client!Spec

\* What the call in progress has done, as far as the client is still to see it:
\* the root's last children are the transports taken, what a populate has made
\* is bare, and a destroy that is not the root's is there before the root.
InProgress ==
  /\ call \in {"idle", "refresh"} \/ Populating => taken = 0
  /\ PopulatingRoot => /\ taken <= Len(children[root])
                       /\ \A i \in 1..taken :
                            children[root][Len(children[root]) - taken + i] = pending[i]
  /\ Populating => \A c \in NewChildren : children[c] = << >> /\ ~populated[c]
  /\ call = "destroy" => root = NoAddr \/ stack[Len(stack)] = root

\* Memory is finite.
ASSUME HeapAssumption == IsFiniteSet(Addr)

Sum(f, S) == MapThenSumSet(LAMBDA a : f[a], S)

\* The steps a call can still take: three for a child to create or a transport
\* to place (it is to be created, dropped and freed at worst), two for a child
\* in an array, one for an object on the destroy path.
Work ==
  (IF Populating THEN 3 * (Len(Listing[node[target]]) - made) ELSE 0)
  + 3 * (Len(pending) - taken)
  + Sum([a \in Addr |-> 2 * (Len(children[a]) - cursor[a])], Addr)
  + Len(stack)
  + (CASE call = "idle" -> 0 [] call = "populate" -> 2 [] OTHER -> 1)

\* Every step inside a call leaves less to do, whatever the shape of the tree
\* and whatever fails: with no state of a call without a next step, every
\* populate, refresh and destroy returns.
CallShrinks == [][~Idle => Work' < Work]_vars
=============================================================================
