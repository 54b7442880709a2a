------------------------------- MODULE Forest -------------------------------
(***************************************************************************)
(* What the object tree promises its client: objects with cached children, *)
(* changed by calls that happen all at once.  A call that fails may have   *)
(* made some of the children; a listed object lists nothing again before   *)
(* it is refreshed; what a refresh or a destroy removes is gone with       *)
(* everything below it.                                                    *)
(*                                                                         *)
(* An absent handle stands for RootNode, has no children and is unlisted.  *)
(***************************************************************************)
EXTENDS Integers, Sequences

CONSTANTS Handle, NoHandle,
          Node, RootNode, Transports, Listing

VARIABLES objects,  \* the handles in use
          stands,   \* the kernel entity of each
          kids,     \* the children it has
          listed,   \* whether they were listed completely
          mine,     \* transports the client owns
          top,      \* the root
          waiting   \* the root's transports, until it is listed

vars == <<objects, stands, kids, listed, mine, top, waiting>>

Init == /\ objects = {}
        /\ stands = [h \in Handle |-> RootNode]
        /\ kids = [h \in Handle |-> << >>]
        /\ listed = [h \in Handle |-> FALSE]
        /\ mine = << >> /\ top = NoHandle /\ waiting = << >>

Entries(s) == {s[i] : i \in DOMAIN s}

\* The objects that are neither in S nor below one of S: the largest set without
\* them that nothing outside of it has a child in.
Apart(S) ==
  LET below == [h \in objects |-> Entries(kids[h])]
  IN  UNION {K \in SUBSET (DOMAIN below \ S) : \A h \in DOMAIN below \ K : below[h] \cap K = {}}

Only(kept, f, zero) == [h \in Handle |-> IF h \in kept THEN f[h] ELSE zero]

Keep(kept) == /\ objects' = kept
              /\ stands' = Only(kept, stands, RootNode)

Add(h, n) == /\ h \notin objects
             /\ objects' = objects \cup {h}
             /\ stands' = [stands EXCEPT ![h] = n]

-----------------------------------------------------------------------------
NewTransport(h) ==
  /\ top = NoHandle /\ Len(mine) < Len(Transports)
  /\ Add(h, Transports[Len(mine) + 1])
  /\ mine' = Append(mine, h)
  /\ UNCHANGED <<kids, listed, top, waiting>>

NewRoot(h) ==
  /\ top = NoHandle /\ Len(mine) = Len(Transports)
  /\ Add(h, RootNode)
  /\ top' = h /\ waiting' = mine /\ mine' = << >>
  /\ UNCHANGED <<kids, listed>>

ReleaseTransport ==
  /\ top = NoHandle /\ mine # << >>
  /\ LET kept == Apart({mine[Len(mine)]})
     IN  /\ Keep(kept)
         /\ kids' = Only(kept, kids, << >>)
         /\ listed' = Only(kept, listed, FALSE)
  /\ mine' = SubSeq(mine, 1, Len(mine) - 1)
  /\ UNCHANGED <<top, waiting>>

\* The first n children of h's listing appear behind those it has; only all
\* of them make it listed, and even then the call may fail.
List(h, n) ==
  /\ h \in objects /\ h # top /\ ~listed[h]
  /\ n <= Len(Listing[stands[h]])
  /\ \E new \in [1 .. n -> Handle \ objects] :
       /\ \A i, j \in 1 .. n : new[i] = new[j] => i = j
       /\ objects' = objects \cup Entries(new)
       /\ stands' = [c \in Handle |->
                       IF c \in Entries(new)
                       THEN Listing[stands[h]][CHOOSE i \in 1 .. n : new[i] = c]
                       ELSE stands[c]]
       /\ kids' = [kids EXCEPT ![h] = @ \o new]
  /\ \/ UNCHANGED listed
     \/ n = Len(Listing[stands[h]]) /\ listed' = [listed EXCEPT ![h] = TRUE]
  /\ UNCHANGED <<mine, top, waiting>>

\* The transports become the root's children; the ones for which there is no
\* room are destroyed.
ListRoot(n) ==
  /\ top # NoHandle /\ ~listed[top]
  /\ n <= Len(waiting)
  /\ LET kept == Apart({waiting[i] : i \in n + 1 .. Len(waiting)})
     IN  /\ Keep(kept)
         /\ kids' = [Only(kept, kids, << >>) EXCEPT ![top] = @ \o SubSeq(waiting, 1, n)]
         /\ listed' = [Only(kept, listed, FALSE) EXCEPT ![top] = n = Len(waiting)]
  /\ waiting' = << >>
  /\ UNCHANGED <<mine, top>>

\* A refreshed object lists anew.  The root does not: it has no transports
\* left to list.
Refresh(h) ==
  /\ h \in objects
  /\ LET kept == Apart(Entries(kids[h]))
     IN  /\ Keep(kept)
         /\ kids' = Only(kept \ {h}, kids, << >>)
         /\ listed' = Only(kept \ {h}, listed, FALSE)
  /\ UNCHANGED <<mine, top, waiting>>

DestroyRoot ==
  /\ top # NoHandle
  /\ Keep({})
  /\ kids' = Only({}, kids, << >>)
  /\ listed' = Only({}, listed, FALSE)
  /\ top' = NoHandle /\ waiting' = << >>
  /\ UNCHANGED mine

Next == \/ \E h \in Handle : NewTransport(h) \/ NewRoot(h) \/ Refresh(h)
        \/ \E h \in Handle : \E n \in 0 .. Len(Listing[stands[h]]) : List(h, n)
        \/ \E n \in 0 .. Len(waiting) : ListRoot(n)
        \/ ReleaseTransport \/ DestroyRoot

Spec == Init /\ [][Next]_vars
=============================================================================
