---------------------------- MODULE YtraceProofs ----------------------------
(***************************************************************************)
(* Machine-checked proofs about Ytrace, for any number of threads, call    *)
(* sites, set_* calls and shutdowns and any size of the table.             *)
(***************************************************************************)
EXTENDS Ytrace, TLAPS

(***************************************************************************)
(* Type correctness.                                                       *)
(***************************************************************************)

\* A thread's own bookkeeping keeps the types when it calls the tracer.
LEMMA CallType ==
  ASSUME TypeOK, NEW t \in Thread, Call(t)
  PROVE  TypeOK'
<1> USE DEF TypeOK, Pc, Go, siteVars, tableVars, threadVars, counters
<1>1. ASSUME NEW p \in Point, Trace(t, p) PROVE TypeOK'
  BY <1>1 DEF Trace
<1>2. ASSUME NEW sel \in Selections, NEW v \in BOOLEAN, Set(t, sel, v) PROVE TypeOK'
  <2>1. sel \in SUBSET Point
    BY PointAssumption
  <2>2. chosen' \in [Thread -> SUBSET Point] /\ value' \in [Thread -> BOOLEAN]
    BY <1>2, <2>1 DEF Set
  <2>3. pc' \in [Thread -> Pc] /\ sets' \in 0 .. MaxSet
    BY <1>2, LimitAssumption DEF Set
  <2>4. UNCHANGED <<enabled, registered, want, table, initialized, default, owner, site, index, shutdowns>>
    BY <1>2 DEF Set
  <2>5. QED
    BY <2>2, <2>3, <2>4
<1>3. CASE InitCall(t)
  BY <1>3, LimitAssumption DEF InitCall, Initialize
<1>4. CASE Shutdown(t)
  <2>1. table' \in Seq(Point) /\ Len(table') <= MaxPoints
    BY <1>4, LimitAssumption DEF Shutdown
  <2>2. shutdowns' \in 0 .. MaxShutdown
    BY <1>4, LimitAssumption DEF Shutdown
  <2>3. QED
    BY <1>4, <2>1, <2>2 DEF Shutdown
<1>5. QED
  BY <1>1, <1>2, <1>3, <1>4 DEF Call

\* ytrace_register keeps the types, and writes no entry past the table's end.
LEMMA RegisterType ==
  ASSUME TypeOK, NEW t \in Thread,
         \/ Enter(t) \/ Release(t) \/ RegisterInit(t) \/ Reenter(t)
         \/ AppendPoint(t) \/ ReadBack(t) \/ Assign(t) \/ Mark(t)
  PROVE  TypeOK'
<1> USE DEF TypeOK, Pc, Go, Lock, Unlock, siteVars, tableVars, threadVars, counters
<1>1. CASE Enter(t)
  BY <1>1 DEF Enter
<1>2. CASE Release(t)
  BY <1>2 DEF Release
<1>3. CASE RegisterInit(t)
  BY <1>3, LimitAssumption DEF RegisterInit, Initialize
<1>4. CASE Reenter(t)
  BY <1>4 DEF Reenter
<1>5. CASE AppendPoint(t)
  <2>1. table' \in Seq(Point) /\ Len(table') <= MaxPoints
    <3>1. site[t] \in Point /\ table \in Seq(Point) /\ Len(table) <= MaxPoints
      OBVIOUS
    <3>2. table' = IF RoomLeft THEN Append(table, site[t]) ELSE table
      BY <1>5 DEF AppendPoint
    <3>3. QED
      BY <3>1, <3>2, LimitAssumption DEF RoomLeft
  <2>2. enabled' \in [Point -> BOOLEAN] /\ want' \in [Point -> BOOLEAN]
    BY <1>5 DEF AppendPoint
  <2>3. pc' \in [Thread -> Pc] /\ owner' \in Thread \cup {NoThread}
    BY <1>5 DEF AppendPoint
  <2>4. UNCHANGED <<registered, initialized, default, site, value, chosen, index, sets, shutdowns>>
    BY <1>5 DEF AppendPoint
  <2>5. QED
    BY <2>1, <2>2, <2>3, <2>4
<1>6. CASE ReadBack(t)
  BY <1>6 DEF ReadBack
<1>7. CASE Assign(t)
  BY <1>7 DEF Assign
<1>8. CASE Mark(t)
  BY <1>8 DEF Mark
<1>9. QED
  BY <1>1, <1>2, <1>3, <1>4, <1>5, <1>6, <1>7, <1>8

\* The loop of a set_* function keeps the types and stays in the table.
LEMMA SetType ==
  ASSUME TypeOK, NEW t \in Thread, SetLock(t) \/ SetNext(t) \/ SetDone(t)
  PROVE  TypeOK'
<1> USE DEF TypeOK, Pc, Go, Lock, Unlock, siteVars, tableVars, threadVars, counters
<1>1. CASE SetLock(t)
  BY <1>1, LimitAssumption DEF SetLock
<1>2. CASE SetNext(t)
  <2>1. PICK n : n = index[t] + 1
    OBVIOUS
  <2>2. n \in 0 .. MaxPoints /\ n \in DOMAIN table /\ table[n] \in Point
    BY <1>2, <2>1, LimitAssumption DEF SetNext
  <2>3. index' \in [Thread -> 0 .. MaxPoints] /\ pc' \in [Thread -> Pc]
    BY <1>2, <2>1, <2>2 DEF SetNext
  <2>4. enabled' \in [Point -> BOOLEAN] /\ want' \in [Point -> BOOLEAN]
    BY <1>2, <2>1, <2>2 DEF SetNext
  <2>5. UNCHANGED <<registered, table, initialized, default, owner, site, value, chosen, sets, shutdowns>>
    BY <1>2 DEF SetNext
  <2>6. QED
    BY <2>3, <2>4, <2>5
<1>3. CASE SetDone(t)
  BY <1>3 DEF SetDone
<1>4. QED
  BY <1>1, <1>2, <1>3

\* Every variable keeps its type: g_points is never written past its end, by
\* however many threads, and no loop over it leaves it.
THEOREM TypeCorrect == Spec => []TypeOK
<1>1. Init => TypeOK
  <2>1. SUFFICES ASSUME Init PROVE TypeOK
    OBVIOUS
  <2>2. (CHOOSE p \in Point : TRUE) \in Point
    BY PointAssumption
  <2>3. table \in Seq(Point) /\ Len(table) <= MaxPoints
    BY <2>1, LimitAssumption DEF Init
  <2>4. site \in [Thread -> Point] /\ chosen \in [Thread -> SUBSET Point]
    BY <2>1, <2>2 DEF Init
  <2>5. index \in [Thread -> 0 .. MaxPoints] /\ sets \in 0 .. MaxSet /\ shutdowns \in 0 .. MaxShutdown
    BY <2>1, LimitAssumption DEF Init
  <2>6. pc \in [Thread -> Pc]
    BY <2>1 DEF Init, Pc
  <2>7. QED
    BY <2>1, <2>3, <2>4, <2>5, <2>6 DEF Init, TypeOK
<1>2. TypeOK /\ [Next]_vars => TypeOK'
  <2>1. SUFFICES ASSUME TypeOK, [Next]_vars PROVE TypeOK'
    OBVIOUS
  <2>2. CASE Next
    BY <2>1, <2>2, CallType, RegisterType, SetType DEF Next, Step
  <2>3. CASE UNCHANGED vars
    BY <2>1, <2>3 DEF vars, siteVars, tableVars, threadVars, counters, TypeOK
  <2>4. QED
    BY <2>1, <2>2, <2>3
<1>3. QED
  BY <1>1, <1>2, PTL DEF Spec

(***************************************************************************)
(* The table: TableInv is inductive.  One lemma per conjunct.              *)
(***************************************************************************)

\* Lock and unlock bracket every use of the table: a thread that looks at it is
\* the owner of g_mutex, and the owner does nothing else.
LEMMA ExclusionStep ==
  ASSUME TypeOK, Exclusion, Next
  PROVE  Exclusion'
<1>1. PICK t \in Thread : Call(t) \/ Step(t)
  BY DEF Next
<1>2. pc \in [Thread -> Pc] /\ NoThread \notin Thread
  BY PointAssumption DEF TypeOK
<1> USE DEF Go, Lock, Unlock, tableVars, threadVars, Exclusion
<1>3. CASE Call(t)
  <2>1. owner' = owner /\ \A u \in Thread : pc'[u] \in {"release", "append", "loop"} <=> pc[u] \in {"release", "append", "loop"}
    BY <1>2, <1>3 DEF Call, Trace, Set, InitCall, Initialize, Shutdown
  <2>2. QED
    BY <2>1
<1>4. CASE Enter(t) \/ Reenter(t) \/ SetLock(t)
  <2>1. /\ owner = NoThread /\ owner' = t /\ pc'[t] \in {"release", "append", "loop"}
        /\ \A u \in Thread \ {t} : pc'[u] = pc[u]
    BY <1>2, <1>4 DEF Enter, Reenter, SetLock
  <2>2. QED
    BY <1>2, <2>1
<1>5. CASE Release(t) \/ AppendPoint(t) \/ SetDone(t)
  <2>1. /\ owner = t /\ owner' = NoThread /\ pc'[t] \notin {"release", "append", "loop"}
        /\ \A u \in Thread \ {t} : pc'[u] = pc[u]
    BY <1>2, <1>5 DEF Release, AppendPoint, SetDone
  <2>2. QED
    BY <1>2, <2>1
<1>6. CASE RegisterInit(t) \/ ReadBack(t) \/ Assign(t) \/ Mark(t) \/ SetNext(t)
  <2>1. /\ owner' = owner
        /\ pc'[t] \in {"release", "append", "loop"} <=> pc[t] \in {"release", "append", "loop"}
        /\ \A u \in Thread \ {t} : pc'[u] = pc[u]
    BY <1>2, <1>6 DEF RegisterInit, Initialize, ReadBack, Assign, Mark, SetNext
  <2>2. QED
    BY <2>1
<1>7. QED
  BY <1>1, <1>3, <1>4, <1>5, <1>6 DEF Step

\* ytrace_init reads the environment before anybody appends, even when a
\* shutdown comes between ytrace_register's unlock and its second lock.
LEMMA EnvReadStep ==
  ASSUME TypeOK, EnvRead, Next
  PROVE  EnvRead'
<1>1. PICK t \in Thread : Call(t) \/ Step(t)
  BY DEF Next
<1>2. pc \in [Thread -> Pc]
  BY DEF TypeOK
<1> USE DEF Go, tableVars, threadVars, EnvRead, EntriesAfterInit
<1>3. CASE InitCall(t) \/ RegisterInit(t)
  <2>1. default' = EnvDefault /\ table' = table
    BY <1>3 DEF InitCall, RegisterInit, Initialize
  <2>2. QED
    BY <2>1
<1>4. CASE Shutdown(t)
  BY <1>4 DEF Shutdown
<1>5. CASE AppendPoint(t)
  <2>1. /\ default = EnvDefault /\ default' = default /\ initialized' = initialized
        /\ \A u \in Thread : pc'[u] \in {"reenter", "append"} => pc[u] \in {"reenter", "append"}
    BY <1>2, <1>5 DEF AppendPoint
  <2>2. QED
    BY <2>1
<1>6. CASE Enter(t)
  <2>1. /\ UNCHANGED <<table, default, initialized>>
        /\ \A u \in Thread : pc'[u] \in {"reenter", "append"} => pc[u] \in {"reenter", "append"} \/ initialized
    BY <1>2, <1>6 DEF Enter
  <2>2. QED
    BY <2>1
<1>7. CASE \/ \E p \in Point : Trace(t, p)
           \/ \E sel \in Selections, v \in BOOLEAN : Set(t, sel, v)
           \/ Release(t) \/ Reenter(t) \/ ReadBack(t) \/ Assign(t) \/ Mark(t)
           \/ SetLock(t) \/ SetNext(t) \/ SetDone(t)
  <2>1. /\ UNCHANGED <<table, default, initialized>>
        /\ \A u \in Thread : pc'[u] \in {"reenter", "append"} => pc[u] \in {"reenter", "append"}
    BY <1>2, <1>7 DEF Trace, Set, Release, Reenter, ReadBack, Assign, Mark, SetLock, SetNext, SetDone
  <2>2. QED
    BY <2>1
<1>8. QED
  BY <1>1, <1>3, <1>4, <1>5, <1>6, <1>7 DEF Call, Step

\* While a set_* call holds the mutex nobody changes the table or a point's
\* value; each turn of its loop adds one entry to those that are switched.
LEMMA SetProgressStep ==
  ASSUME TypeOK, Exclusion, SetProgress, Next
  PROVE  SetProgress'
<1>1. PICK t \in Thread : Call(t) \/ Step(t)
  BY DEF Next
<1>2. /\ pc \in [Thread -> Pc] /\ NoThread \notin Thread
      /\ value \in [Thread -> BOOLEAN] /\ index \in [Thread -> 0 .. MaxPoints]
      /\ chosen \in [Thread -> SUBSET Point]
  BY PointAssumption DEF TypeOK
<1>3. table \in Seq(Point) /\ want \in [Point -> BOOLEAN]
  BY DEF TypeOK
<1> DEFINE Passed(u) ==
      /\ index[u] <= Len(table)
      /\ \A i \in DOMAIN table :
           i <= index[u] /\ table[i] \in chosen[u] => want[table[i]] = value[u]
<1>4. \A u \in Thread : pc[u] = "loop" => Passed(u)
  BY DEF SetProgress
<1>5. SUFFICES ASSUME NEW u \in Thread, pc'[u] = "loop"
               PROVE  /\ index'[u] <= Len(table')
                      /\ \A i \in DOMAIN table' :
                           i <= index'[u] /\ table'[i] \in chosen'[u] => want'[table'[i]] = value'[u]
  BY DEF SetProgress
<1>6. ASSUME UNCHANGED <<table, want>>, pc[u] = "loop",
             index'[u] = index[u], chosen'[u] = chosen[u], value'[u] = value[u]
      PROVE  /\ index'[u] <= Len(table')
             /\ \A i \in DOMAIN table' :
                  i <= index'[u] /\ table'[i] \in chosen'[u] => want'[table'[i]] = value'[u]
  BY <1>4, <1>6
<1> USE DEF Go, Lock, Unlock, siteVars, tableVars, threadVars
<1>7. CASE Call(t)
  <2>1. CASE Shutdown(t)
    <3>1. owner = NoThread /\ pc' = pc
      BY <2>1 DEF Shutdown
    <3>2. QED
      BY <1>2, <1>5, <3>1 DEF Exclusion
  <2>2. CASE ~Shutdown(t)
    <3>1. /\ UNCHANGED <<table, want>> /\ pc[u] = "loop"
          /\ index'[u] = index[u] /\ chosen'[u] = chosen[u] /\ value'[u] = value[u]
      BY <1>2, <1>5, <1>7, <2>2 DEF Call, Trace, Set, InitCall, Initialize
    <3>2. QED
      BY <1>6, <3>1
  <2>3. QED
    BY <2>1, <2>2
<1>8. CASE AppendPoint(t)
  <2>1. owner = t /\ pc[t] = "append" /\ pc'[t] = "read" /\ \A w \in Thread \ {t} : pc'[w] = pc[w]
    BY <1>2, <1>8 DEF AppendPoint
  <2>2. QED
    BY <1>5, <2>1 DEF Exclusion
<1>9. CASE SetLock(t)
  <2>1. CASE u = t
    <3>1. index'[u] = 0 /\ table' = table
      BY <1>2, <1>9, <2>1 DEF SetLock
    <3>2. QED
      BY <1>3, <3>1
  <2>2. CASE u # t
    <3>1. /\ UNCHANGED <<table, want>> /\ pc[u] = "loop"
          /\ index'[u] = index[u] /\ chosen'[u] = chosen[u] /\ value'[u] = value[u]
      BY <1>2, <1>5, <1>9, <2>2 DEF SetLock
    <3>2. QED
      BY <1>6, <3>1
  <2>3. QED
    BY <2>1, <2>2
<1>10. CASE SetNext(t)
  <2>1. /\ pc[t] = "loop" /\ pc' = [pc EXCEPT ![t] = "loop"]
        /\ UNCHANGED <<table, chosen, value>> /\ index[t] < Len(table)
        /\ index' = [index EXCEPT ![t] = @ + 1]
    BY <1>10 DEF SetNext
  <2>2. u = t
    BY <1>2, <1>5, <2>1 DEF Exclusion
  <2>3. PICK n, q : n = index[t] + 1 /\ q = table[n]
    OBVIOUS
  <2>4. n \in Nat /\ n <= Len(table) /\ q \in Point /\ index'[t] = n
    BY <1>2, <1>3, <2>1, <2>3
  <2>5. want' = IF q \in chosen[t] THEN [want EXCEPT ![q] = value[t]] ELSE want
    BY <1>10, <2>3 DEF SetNext
  <2>6. ASSUME NEW i \in DOMAIN table, i <= n, table[i] \in chosen[t]
        PROVE  want'[table[i]] = value[t]
    <3>1. table[i] \in Point
      BY <1>3
    <3>2. CASE table[i] = q
      BY <1>3, <2>4, <2>5, <2>6, <3>2
    <3>3. CASE table[i] # q
      <4>1. i # n
        BY <2>3, <3>3
      <4>2. i <= index[t]
        BY <1>2, <1>3, <2>3, <2>4, <2>6, <4>1
      <4>3. want[table[i]] = value[t]
        BY <1>4, <2>1, <2>6, <4>2
      <4>4. QED
        BY <1>3, <2>5, <3>1, <3>3, <4>3
    <3>4. QED
      BY <3>2, <3>3
  <2>7. QED
    BY <2>1, <2>2, <2>4, <2>6
<1>11. CASE Enter(t) \/ Release(t) \/ RegisterInit(t) \/ Reenter(t) \/ ReadBack(t) \/ Assign(t)
           \/ Mark(t) \/ SetDone(t)
  <2>1. u # t
    BY <1>2, <1>5, <1>11 DEF Enter, Release, RegisterInit, Reenter, ReadBack, Assign, Mark, SetDone
  <2>2. /\ UNCHANGED <<table, want>> /\ pc[u] = "loop"
        /\ index'[u] = index[u] /\ chosen'[u] = chosen[u] /\ value'[u] = value[u]
    BY <1>2, <1>5, <1>11, <2>1
       DEF Enter, Release, RegisterInit, Initialize, Reenter, ReadBack, Assign, Mark, SetDone
  <2>3. QED
    BY <1>6, <2>2
<1>12. QED
  BY <1>1, <1>7, <1>8, <1>9, <1>10, <1>11 DEF Step

\* Until a shutdown the table only grows, and a point is listed, or the table
\* full, before its call site can be marked as registered.
LEMMA PointsListedStep ==
  ASSUME TypeOK, PointsListed, Next
  PROVE  PointsListed'
<1>1. PICK t \in Thread : Call(t) \/ Step(t)
  BY DEF Next
<1>2. SUFFICES ASSUME shutdowns' = 0
               PROVE  /\ \A p \in Point : registered'[p] => Listed(p)'
                      /\ \A u \in Thread : pc'[u] \in {"read", "assign", "mark"} => Listed(site[u])'
  BY DEF PointsListed
<1>3. /\ pc \in [Thread -> Pc] /\ site \in [Thread -> Point] /\ registered \in [Point -> BOOLEAN]
      /\ table \in Seq(Point) /\ shutdowns \in Nat
  BY LimitAssumption DEF TypeOK
<1>4. shutdowns = 0 /\ ~Shutdown(t)
  BY <1>1, <1>2, <1>3
     DEF Call, Step, Trace, Set, InitCall, Shutdown, Enter, Release, RegisterInit, Reenter,
         AppendPoint, ReadBack, Assign, Mark, SetLock, SetNext, SetDone, counters
<1>5. /\ \A p \in Point : registered[p] => Listed(p)
      /\ \A u \in Thread : pc[u] \in {"read", "assign", "mark"} => Listed(site[u])
  BY <1>4 DEF PointsListed
<1> USE DEF Go, siteVars, tableVars, threadVars
<1>6. CASE AppendPoint(t)
  <2>1. PICK p : p = site[t]
    OBVIOUS
  <2>2. /\ table' = IF RoomLeft THEN Append(table, p) ELSE table
        /\ UNCHANGED <<registered, site>>
        /\ pc'[t] = "read" /\ \A u \in Thread \ {t} : pc'[u] = pc[u]
    BY <1>3, <1>6, <2>1 DEF AppendPoint
  <2>3. p \in Point /\ MaxPoints \in Nat
    BY <1>3, <2>1, LimitAssumption
  <2>4. Listed(p)' /\ \A q : Listed(q) => Listed(q)'
    <3>1. CASE RoomLeft
      <4>1. /\ DOMAIN table' = DOMAIN table \cup {Len(table) + 1}
            /\ table'[Len(table) + 1] = p
            /\ \A i \in DOMAIN table : table'[i] = table[i]
        BY <1>3, <2>2, <2>3, <3>1
      <4>2. QED
        BY <3>1, <4>1 DEF Listed
    <3>2. CASE ~RoomLeft
      BY <2>2, <3>2 DEF Listed, RoomLeft
    <3>3. QED
      BY <3>1, <3>2
  <2>5. QED
    BY <1>5, <2>1, <2>2, <2>4
<1>7. CASE ~AppendPoint(t)
  <2>1. table' = table
    BY <1>1, <1>4, <1>7
       DEF Call, Step, Trace, Set, InitCall, Initialize, Enter, Release, RegisterInit, Reenter,
           ReadBack, Assign, Mark, SetLock, SetNext, SetDone
  <2>2. \A q : Listed(q)' <=> Listed(q)
    BY <2>1 DEF Listed, RoomLeft
  <2>3. CASE Mark(t)
    <3>1. /\ pc[t] = "mark" /\ site' = site
          /\ \A p \in Point : registered'[p] => registered[p] \/ p = site[t]
          /\ \A u \in Thread : pc'[u] \in {"read", "assign", "mark"} =>
               pc[u] \in {"read", "assign", "mark"}
      BY <1>3, <2>3 DEF Mark
    <3>2. QED
      BY <1>5, <2>2, <3>1
  <2>4. CASE ~Mark(t)
    <3>1. /\ registered' = registered
          /\ \A u \in Thread : pc'[u] \in {"read", "assign", "mark"} =>
               pc[u] \in {"read", "assign", "mark"} /\ site'[u] = site[u]
      BY <1>1, <1>3, <1>4, <1>7, <2>4
         DEF Call, Step, Trace, Set, InitCall, Initialize, Enter, Release, RegisterInit, Reenter,
             ReadBack, Assign, SetLock, SetNext, SetDone
    <3>2. QED
      BY <1>5, <2>2, <3>1
  <2>5. QED
    BY <2>3, <2>4
<1>8. QED
  BY <1>6, <1>7

\* The four conjuncts together hold in every reachable state.
THEOREM TableSafe == Spec => []TableInv
<1>1. Init => TableInv
  <2>1. SUFFICES ASSUME Init PROVE TableInv
    OBVIOUS
  <2>2. \A t \in Thread : pc[t] = "idle"
    BY <2>1 DEF Init
  <2>3. Exclusion /\ EnvRead /\ SetProgress /\ PointsListed
    BY <2>1, <2>2, PointAssumption
       DEF Init, Exclusion, EnvRead, EntriesAfterInit, SetProgress, PointsListed
  <2>4. QED
    BY <2>3 DEF TableInv
<1>2. TypeOK /\ TableInv /\ [Next]_vars => TableInv'
  <2>1. SUFFICES ASSUME TypeOK, TableInv, [Next]_vars PROVE TableInv'
    OBVIOUS
  <2>2. CASE Next
    BY <2>1, <2>2, ExclusionStep, EnvReadStep, SetProgressStep, PointsListedStep DEF TableInv
  <2>3. CASE UNCHANGED vars
    <3>1. UNCHANGED <<registered, want, table, initialized, default, owner, pc, site, value,
                      chosen, index, shutdowns>>
      BY <2>3 DEF vars, siteVars, tableVars, threadVars, counters
    <3>2. QED
      BY <2>1, <3>1
         DEF TableInv, Exclusion, EnvRead, EntriesAfterInit, SetProgress, PointsListed, Listed,
             RoomLeft
  <2>4. QED
    BY <2>1, <2>2, <2>3
<1>3. QED
  BY <1>1, <1>2, TypeCorrect, PTL DEF Spec

\* Whatever threads initialize, register and shut down in whatever order, the
\* table holds entries only after the environment was read.
THEOREM EnvFirst == Spec => []EntriesAfterInit
<1>1. TableInv => EntriesAfterInit
  BY DEF TableInv, EnvRead
<1>2. QED
  BY <1>1, TableSafe, PTL

\* A set_* call that comes to the end of the table has switched every listed
\* point it names.
THEOREM SetComplete == Spec => []SetReachesAll
<1>1. TypeOK /\ TableInv => SetReachesAll
  <2>1. SUFFICES ASSUME TypeOK, TableInv, NEW t \in Thread, pc[t] = "loop", index[t] = Len(table),
                        NEW p \in ToSet(table) \cap chosen[t]
                 PROVE  want[p] = value[t]
    BY DEF SetReachesAll
  <2>2. PICK i \in DOMAIN table : table[i] = p
    BY DEF ToSet
  <2>3. i <= index[t]
    BY <2>1, <2>2 DEF TypeOK
  <2>4. QED
    BY <2>1, <2>2, <2>3 DEF TableInv, SetProgress
<1>2. QED
  BY <1>1, TypeCorrect, TableSafe, PTL

\* A call site that will not register again is within the reach of set_*, unless
\* the table was full.
THEOREM RegisteredReachable == Spec => []RegisteredListed
<1>1. TableInv => RegisteredListed
  BY DEF TableInv, PointsListed, Listed, RegisteredListed, ToSet
<1>2. QED
  BY <1>1, TableSafe, PTL
=============================================================================
