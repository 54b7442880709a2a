---------------------------- MODULE CliSession ----------------------------
(***************************************************************************)
(* One run of the ykern command (tools/ykern/main.c): create the           *)
(* transports and the root, walk the path, invoke or browse the object it  *)
(* names, tear the tree down, exit with a code.                            *)
(*                                                                         *)
(* The tree is populated on the way, one get_children at a time, and each  *)
(* of these can fail and leave part of a list behind.  Nothing descends    *)
(* into a list that a failure left, so an object is named by its node in   *)
(* Kids, the tree the transports would list if nothing failed.  get_name   *)
(* can fail too: the walk then takes the child for one of another name.    *)
(***************************************************************************)
EXTENDS Integers, Sequences, FiniteSets, SequencesExt

CONSTANTS Node, Root,
          Kids,        \* Kids[n]: what populating n appends, in order
          NameOf,      \* get_name; siblings may share one
          Operations,  \* nodes of kind OPERATION
          Invocable,   \* nodes whose vtable has an invoke
          Paths,       \* arguments, split at the slashes by strtok_r
          NoName,      \* NULL for a missing segment
          MayFail      \* whether allocations, listings, names and invokes can fail

Name == {NameOf[n] : n \in Node}

\* Kids is a tree: no node is listed twice, the root not at all, and every node
\* is reached from the root.
ASSUME TreeAssumption ==
  /\ Root \in Node /\ Kids \in [Node -> Seq(Node)]
  /\ \A p, q \in Node : \A j \in DOMAIN Kids[p], k \in DOMAIN Kids[q] :
       Kids[p][j] = Kids[q][k] => p = q /\ j = k
  /\ \A p \in Node : Root \notin ToSet(Kids[p])
  /\ \A S \in SUBSET Node :
       Root \in S /\ (\A p \in S : ToSet(Kids[p]) \subseteq S) => S = Node

ASSUME ArgumentAssumption ==
  /\ Operations \subseteq Node /\ Invocable \subseteq Node
  /\ \A p \in Paths : p \in Seq(ToSet(p)) /\ NoName \notin ToSet(p)
  /\ NoName \notin Name /\ MayFail \in BOOLEAN

Mode == {"invoke", "list", "show", "recurse"}

VARIABLES mode, path,  \* the arguments
          pc,
          alive,       \* transports and root that exist
          kids,        \* kids[n]: the children array of n
          done,        \* nodes whose children_populated is set
          failures,    \* history: failures[n]: populates of n that failed
          cur,         \* the object reached; *deepest
          rest,        \* segments still to match
          missing,     \* *missing
          found,       \* resolve_path returned cur, not NULL
          nameless,    \* history: nodes of the segment's name that find_child
                       \* passed over because get_name failed
          agenda,      \* recurse_subtree: what is left to print
          printed,     \* the objects of the last listing, each a line unless
                       \* its get_path fails
          code         \* exit code

arguments == <<mode, path>>
tree == <<alive, kids, done, failures>>
walk == <<cur, rest, missing, found, nameless>>
vars == <<arguments, pc, tree, walk, agenda, printed, code>>

Init == /\ mode \in Mode /\ path \in Paths
        /\ pc = "create" /\ alive = {}
        /\ kids = [n \in Node |-> << >>] /\ done = {}
        /\ failures = [n \in Node |-> 0]
        /\ cur = Root /\ rest = path /\ missing = NoName /\ found = FALSE
        /\ nameless = {}
        /\ agenda = << >> /\ printed = << >> /\ code = 0

-----------------------------------------------------------------------------
(* Building the tree.                                                      *)

Transports == Kids[Root]

AllCreated == Cardinality(alive) = Len(Transports)

CreateTransport ==
  /\ pc = "create" /\ ~AllCreated
  /\ alive' = alive \cup {Transports[Cardinality(alive) + 1]}
  /\ UNCHANGED <<arguments, pc, kids, done, failures, walk, agenda, printed, code>>

\* Mutant: main just returns.
CreateFailsLeaks ==
  /\ MayFail /\ pc = "create" /\ ~AllCreated
  /\ code' = 1 /\ pc' = "exit"
  /\ UNCHANGED <<arguments, tree, walk, agenda, printed>>

\* The transports created before are destroyed, and main returns 1.
CreateFails ==
  /\ MayFail /\ pc = "create" /\ ~AllCreated
  /\ alive' = {}
  /\ code' = 1 /\ pc' = "exit"
  /\ UNCHANGED <<arguments, kids, done, failures, walk, agenda, printed>>

RootCreate ==
  /\ pc = "create" /\ AllCreated
  /\ alive' = alive \cup {Root}
  /\ pc' = "resolve"
  /\ UNCHANGED <<arguments, kids, done, failures, walk, agenda, printed, code>>

\* Only transports[0] is destroyed.
RootFails ==
  /\ MayFail /\ pc = "create" /\ AllCreated
  /\ alive' = alive \ {Transports[1]}
  /\ code' = 1 /\ pc' = "exit"
  /\ UNCHANGED <<arguments, kids, done, failures, walk, agenda, printed>>

-----------------------------------------------------------------------------
(* get_children.                                                           *)

\* The root has its transports to append only once: a failed populate of the
\* root destroys those it did not append.
Owes(o) == IF o = Root /\ failures[o] > 0 THEN << >> ELSE Kids[o]

Children(o) == IF o \in done THEN kids[o] ELSE kids[o] \o Owes(o)

\* Mutant: the children are populated with their parent.
ListedEagerly(o) ==
  LET new == {o} \cup ToSet(Children(o))
  IN  /\ kids' = [n \in Node |-> IF n \in new THEN Children(n) ELSE kids[n]]
      /\ done' = done \cup new
      /\ UNCHANGED <<alive, failures>>

Listed(o) ==
  /\ kids' = [kids EXCEPT ![o] = Children(o)]
  /\ done' = done \cup {o}
  /\ UNCHANGED <<alive, failures>>

\* What was appended before the failure stays: anything of a listing, at most
\* all but one of the transports.  A node with nothing to list does not fail.
ListFails(o) ==
  /\ MayFail /\ o \notin done /\ Owes(o) # << >>
  /\ \E k \in 0 .. (IF o = Root THEN Len(Owes(o)) - 1 ELSE Len(Owes(o))) :
       /\ kids' = [kids EXCEPT ![o] = @ \o SubSeq(Owes(o), 1, k)]
       /\ alive' = IF o = Root THEN alive \ ToSet(SubSeq(Owes(o), k + 1, Len(Owes(o))))
                   ELSE alive
  /\ failures' = [failures EXCEPT ![o] = @ + 1]
  /\ UNCHANGED done

-----------------------------------------------------------------------------
(* resolve_path and find_child.                                            *)

\* Mutant: the name of the object reached is reported, not the segment.
NotFoundHere(segment) ==
  /\ missing' = NameOf[cur]
  /\ pc' = "report"
  /\ UNCHANGED <<arguments, cur, rest, found, agenda, printed, code>>

\* The segment is reported, or none when strdup fails.
NotFound(segment) ==
  /\ missing' = segment \/ (MayFail /\ missing' = NoName)
  /\ pc' = "report"
  /\ UNCHANGED <<arguments, cur, rest, found, agenda, printed, code>>

\* The children of that name.
Matches == {k \in DOMAIN Children(cur) : NameOf[Children(cur)[k]] = Head(rest)}

\* get_name failed on these of them: each was taken for no match.
PassedOver(K) ==
  /\ K # {} => MayFail
  /\ nameless' = nameless \cup {Children(cur)[k] : k \in K}

\* Mutant: the loop goes on after a match.
DescendAnyMatch ==
  /\ pc = "resolve" /\ rest # << >>
  /\ Listed(cur)
  /\ \E k \in Matches : cur' = Children(cur)[k]
  /\ rest' = Tail(rest)
  /\ UNCHANGED <<arguments, pc, missing, found, nameless, agenda, printed, code>>

\* The first child whose name is got and is that of the segment.
Descend ==
  /\ pc = "resolve" /\ rest # << >>
  /\ Listed(cur)
  /\ \E k \in Matches :
       /\ PassedOver({j \in Matches : j < k})
       /\ cur' = Children(cur)[k]
  /\ rest' = Tail(rest)
  /\ UNCHANGED <<arguments, pc, missing, found, agenda, printed, code>>

NoMatch ==
  /\ pc = "resolve" /\ rest # << >>
  /\ Listed(cur)
  /\ PassedOver(Matches)
  /\ NotFound(Head(rest))

\* A failed get_children looks like a child that is not there.
NoListing ==
  /\ pc = "resolve" /\ rest # << >>
  /\ ListFails(cur)
  /\ NotFound(Head(rest))
  /\ UNCHANGED nameless

\* strdup of the path fails.
NoCopy ==
  /\ MayFail /\ pc = "resolve" /\ rest = path /\ path # << >>
  /\ NotFound(NoName)
  /\ UNCHANGED <<tree, nameless>>

Resolved ==
  /\ pc = "resolve" /\ rest = << >>
  /\ found' = TRUE
  /\ pc' = mode
  /\ agenda' = IF mode = "recurse" THEN <<cur>> ELSE << >>
  /\ UNCHANGED <<arguments, tree, cur, rest, missing, nameless, printed, code>>

-----------------------------------------------------------------------------
(* What main does with the object.                                         *)

Finish(c) == code' = c /\ pc' = "teardown"

\* print_children; it prints nothing when get_children fails.
PrintChildren ==
  \/ Listed(cur) /\ printed' = Children(cur)
  \/ ListFails(cur) /\ UNCHANGED printed

\* The children of the deepest object reached.
Report ==
  /\ pc = "report"
  /\ PrintChildren
  /\ Finish(2)
  /\ UNCHANGED <<arguments, walk, agenda>>

Invoke ==
  /\ pc = "invoke" /\ cur \in Invocable
  /\ Finish(0)
  /\ UNCHANGED <<arguments, tree, walk, agenda, printed>>

InvokeFails ==
  /\ pc = "invoke"
  /\ cur \in Invocable => MayFail
  /\ Finish(1)
  /\ UNCHANGED <<arguments, tree, walk, agenda, printed>>

\* print_invoke_hint lists the attributes of an operation first, if it gets its path.
Show ==
  /\ pc = "show"
  /\ \/ cur \in Operations /\ (Listed(cur) \/ ListFails(cur))
     \/ (cur \notin Operations \/ MayFail) /\ UNCHANGED tree
  /\ pc' = "list"
  /\ UNCHANGED <<arguments, walk, agenda, printed, code>>

List ==
  /\ pc = "list"
  /\ PrintChildren
  /\ Finish(0)
  /\ UNCHANGED <<arguments, walk, agenda>>

\* Mutant: breadth first.
VisitBreadthFirst ==
  /\ pc = "recurse" /\ agenda # << >>
  /\ printed' = Append(printed, Head(agenda))
  /\ \/ /\ Listed(Head(agenda))
        /\ agenda' = Tail(agenda) \o Children(Head(agenda))
     \/ /\ ListFails(Head(agenda))
        /\ agenda' = Tail(agenda)
  /\ UNCHANGED <<arguments, pc, walk, code>>

\* recurse_subtree prints an object, then each of its children.
Visit ==
  /\ pc = "recurse" /\ agenda # << >>
  /\ printed' = Append(printed, Head(agenda))
  /\ \/ /\ Listed(Head(agenda))
        /\ agenda' = Children(Head(agenda)) \o Tail(agenda)
     \/ /\ ListFails(Head(agenda))
        /\ agenda' = Tail(agenda)
  /\ UNCHANGED <<arguments, pc, walk, code>>

Visited ==
  /\ pc = "recurse" /\ agenda = << >>
  /\ Finish(0)
  /\ UNCHANGED <<arguments, tree, walk, agenda, printed>>

\* Destroying the root destroys what it and its children own.
Teardown ==
  /\ pc = "teardown"
  /\ alive' = {} /\ kids' = [n \in Node |-> << >>] /\ done' = {}
  /\ pc' = "exit"
  /\ UNCHANGED <<arguments, failures, walk, agenda, printed, code>>

-----------------------------------------------------------------------------
Next == \/ CreateTransport \/ CreateFails \/ RootCreate \/ RootFails
        \/ Descend \/ NoMatch \/ NoListing \/ NoCopy \/ Resolved
        \/ Report \/ Invoke \/ InvokeFails \/ Show \/ List \/ Visit \/ Visited
        \/ Teardown

Spec == Init /\ [][Next]_vars

-----------------------------------------------------------------------------
(* What a path means, from the tree and the names alone.                   *)

IsParent(p, n) == n \in ToSet(Kids[p])

ParentOf(n) == CHOOSE p \in Node : IsParent(p, n)

\* The ancestors of n from the child of the root down to n.
Lineage[n \in Node] == IF n = Root THEN << >> ELSE Append(Lineage[ParentOf(n)], n)

\* ykern_ycore_object_get_path.
PathOf(n) == [k \in DOMAIN Lineage[n] |-> NameOf[Lineage[n][k]]]

\* Of the siblings with the name of n, those aside that are hidden, n is the first.
Eldest(n, hidden) ==
  /\ n \notin hidden
  /\ \A p \in Node : \A j, k \in DOMAIN Kids[p] :
       Kids[p][k] = n /\ NameOf[Kids[p][j]] = NameOf[n] /\ Kids[p][j] \notin hidden => k <= j

\* A node a path can lead to: neither it nor any ancestor is behind a namesake.
Addressable(n, hidden) == \A m \in ToSet(Lineage[n]) : Eldest(m, hidden)

Below(n) == {m \in Node : n \in {Root, m} \cup ToSet(Lineage[m])}

-----------------------------------------------------------------------------
(* Properties.                                                             *)

\* Every variable keeps its type.
TypeOK ==
  /\ mode \in Mode /\ path \in Paths
  /\ pc \in Mode \cup {"create", "resolve", "report", "teardown", "exit"}
  /\ alive \subseteq ToSet(Transports) \cup {Root}
  /\ kids \in [Node -> Seq(Node)] /\ done \subseteq Node
  /\ failures \in [Node -> Nat]
  /\ cur \in Node /\ found \in BOOLEAN
  /\ rest \in Seq(UNION {ToSet(p) : p \in Paths})
  /\ missing = NoName \/ missing \in ToSet(path)
  /\ nameless \subseteq Node
  /\ agenda \in Seq(Node) /\ printed \in Seq(Node) /\ code \in 0 .. 2

\* The path get_path prints for an object leads back to it, and to nothing else:
\* what a path finds is the one addressable object with that path, and a path is
\* not found only if there is none or a listing on the way failed.  At any time
\* the object reached and the rest say together what the user asked for.  An object
\* whose get_name fails on the way is as good as not there: its path is not found,
\* or leads to a younger namesake.
\* A node has this one path: the name an operation had before the metadata gave it
\* another (cmd-1, docs/metadata-schema.md:117-121) is no name find_child knows.
RoundTrip ==
  /\ PathOf(cur) \o rest = path
  /\ found => PathOf(cur) = path /\ Addressable(cur, nameless)
  /\ (pc = "report" /\ missing # NoName /\ failures[cur] = 0) =>
        \A n \in Node : Addressable(n, nameless) => PathOf(n) # path

\* Nothing off the path is asked to list itself: only the proper ancestors of the
\* object reached, that object, and what lies below it when recursing.
LazyListing ==
  \A n \in Node :
    (n \in done \/ failures[n] > 0) =>
      \/ cur \in Below(n)
      \/ mode = "recurse" /\ found /\ n \in Below(cur)

ListExact ==
  (pc = "teardown" /\ mode # "recurse" /\ printed # << >> /\ failures[cur] = 0) =>
    printed = Kids[cur]

RecurseExact ==
  (mode = "recurse" /\ found) =>
    /\ ToSet(printed) \subseteq Below(cur)
    /\ Cardinality(ToSet(printed)) = Len(printed)
    /\ \A j, k \in DOMAIN printed : printed[k] \in Below(printed[j]) => j <= k
    /\ \A j, k, l \in DOMAIN printed :
         j < k /\ k < l /\ printed[l] \in Below(printed[j]) => printed[k] \in Below(printed[j])
    /\ (pc = "teardown" /\ \A n \in Node : failures[n] = 0) =>
         ToSet(printed) = Below(cur)

\* A listing shows what the transports have, each child once and in order, unless
\* a populate of the object failed before.  recurse_subtree prints an object, then
\* at once all that is below it; nothing twice, nothing from elsewhere; without
\* failures it misses nothing.
ListingExact == ListExact /\ RecurseExact

\* At the exit nothing is left, except the later transports when the root could
\* not be created.
TornDown ==
  pc = "exit" => alive = {} \/ (code = 1 /\ alive = ToSet(Tail(Transports)))

-----------------------------------------------------------------------------
(* The inductive invariant.                                                *)

\* Transports are created in order, so Cardinality(alive) is main's index.
AliveOK ==
  /\ pc = "create" => /\ IsFiniteSet(alive) /\ Cardinality(alive) <= Len(Transports)
                      /\ alive = {Transports[k] : k \in 1 .. Cardinality(alive)}
  /\ TornDown

\* An object no populate failed on has its whole listing or none of it.
ListsOK ==
  /\ \A n \in Node : ToSet(kids[n]) \subseteq ToSet(Kids[n])
  /\ \A n \in Node : failures[n] = 0 => kids[n] = IF n \in done THEN Kids[n] ELSE << >>

\* No listing fails before the walk is over; nothing is printed before main knows
\* what the path leads to; no name was asked for below the object reached.
WalkOK ==
  /\ pc \in {"create", "resolve", "report"} => ~found
  /\ pc \in Mode => found
  /\ found => rest = << >>
  /\ pc \in {"create", "resolve"} => \A n \in Node : failures[n] = 0
  /\ pc = "recurse" => mode = "recurse"
  /\ pc \in Mode \ {"recurse"} => mode # "recurse"
  /\ pc \in (Mode \ {"recurse"}) \cup {"create", "resolve", "report"} => printed = << >>
  /\ Addressable(cur, nameless)
  /\ pc \in {"create", "resolve"} => \A n \in Below(cur) : ToSet(Kids[n]) \cap nameless = {}

\* The subtrees left to print: below the object, apart from each other and from
\* what is printed, those of an object next to each other and to its own line;
\* what no failure cut off is printed or left.
AgendaOK ==
  pc = "recurse" =>
    /\ \A n \in Node : failures[n] > 0 => n \in ToSet(printed)
    /\ \A k \in DOMAIN agenda :
         agenda[k] \in Below(cur) /\ \A n \in ToSet(printed) : n \notin Below(agenda[k])
    /\ \A j, k \in DOMAIN agenda : j # k => Below(agenda[j]) \cap Below(agenda[k]) = {}
    /\ \A j \in DOMAIN printed : \A k, l \in DOMAIN agenda :
         k < l /\ agenda[l] \in Below(printed[j]) => agenda[k] \in Below(printed[j])
    /\ \A j, k \in DOMAIN printed : \A l \in DOMAIN agenda :
         j < k /\ agenda[l] \in Below(printed[j]) => printed[k] \in Below(printed[j])
    /\ (\A n \in Node : failures[n] = 0) =>
         \A n \in Below(cur) : n \in ToSet(printed) \/ \E k \in DOMAIN agenda : n \in Below(agenda[k])

CliInv == /\ TypeOK /\ AliveOK /\ ListsOK /\ WalkOK /\ AgendaOK
          /\ RoundTrip /\ LazyListing /\ ListingExact
=============================================================================
