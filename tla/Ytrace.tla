------------------------------- MODULE Ytrace -------------------------------
(***************************************************************************)
(* The trace points of ycore (trace.h, ytrace.c): threads that run into    *)
(* call sites, register them on first execution, and switch them on and    *)
(* off at run time.                                                        *)
(*                                                                         *)
(* The table of points is guarded by a mutex; the two static bools of a    *)
(* call site are not, and the macro reads and writes them before and after *)
(* ytrace_register holds it.  Each such access is a step of its own.       *)
(***************************************************************************)
EXTENDS Integers, Sequences, SequencesExt

CONSTANTS Thread, NoThread,
          Point,        \* the call sites
          Selections,   \* the sets of points a set_* call names: all of
                        \* them, or those of one level, file or function
          MaxPoints,    \* size of g_points (4096 in the code)
          EnvDefault,   \* what YTRACE_DEFAULT_ON says
          MaxSet,       \* bounds on the calls of set_* and of shutdown
          MaxShutdown

ASSUME PointAssumption == Point # {} /\ Selections \subseteq SUBSET Point /\ NoThread \notin Thread
ASSUME LimitAssumption == /\ MaxPoints \in Nat /\ MaxSet \in Nat /\ MaxShutdown \in Nat
                          /\ EnvDefault \in BOOLEAN

VARIABLES enabled,      \* _ytrace_enabled_ of each call site
          registered,   \* _ytrace_registered_
          table,        \* g_points, g_point_count entries of it
          initialized,  \* g_initialized
          default,      \* g_default_enabled
          owner,        \* who holds g_mutex
          pc,           \* where each thread is
          site,         \* the call site it is registering
          value,        \* the bool it carries
          chosen,       \* the selection its set_* call names
          index,        \* entries of the table its loop has passed
          sets,         \* calls of set_* made
          shutdowns,    \* calls of shutdown made
          want          \* history: what the last write under the mutex said

siteVars == <<enabled, registered, want>>
tableVars == <<table, initialized, default>>
threadVars == <<pc, site, value, chosen, index>>
counters == <<sets, shutdowns>>
vars == <<siteVars, tableVars, owner, threadVars, counters>>

Init == /\ enabled = [p \in Point |-> FALSE]
        /\ registered = [p \in Point |-> FALSE]
        /\ want = [p \in Point |-> FALSE]
        /\ table = << >>
        /\ initialized = FALSE /\ default = FALSE
        /\ owner = NoThread
        /\ pc = [t \in Thread |-> "idle"]
        /\ site = [t \in Thread |-> CHOOSE p \in Point : TRUE]
        /\ value = [t \in Thread |-> FALSE]
        /\ chosen = [t \in Thread |-> {}]
        /\ index = [t \in Thread |-> 0]
        /\ sets = 0 /\ shutdowns = 0

Go(t, from, to) == pc[t] = from /\ pc' = [pc EXCEPT ![t] = to]
Lock(t) == owner = NoThread /\ owner' = t
Unlock(t) == owner = t /\ owner' = NoThread

-----------------------------------------------------------------------------
(* A trace point, from the test of _ytrace_registered_ on.                 *)

\* Mutant: the site is marked before it is registered.
TraceMarksFirst(t, p) ==
  /\ Go(t, "idle", "register")
  /\ ~registered[p]
  /\ registered' = [registered EXCEPT ![p] = TRUE]
  /\ site' = [site EXCEPT ![t] = p]
  /\ UNCHANGED <<enabled, want, tableVars, owner, value, chosen, index, counters>>

\* The test; a registered point changes no state.
Trace(t, p) == /\ Go(t, "idle", "register")
               /\ ~registered[p]
               /\ site' = [site EXCEPT ![t] = p]
               /\ UNCHANGED <<siteVars, tableVars, owner, value, chosen, index, counters>>

\* Mutant: the table is used without looking at g_initialized.
EnterUninitialized(t) ==
  /\ Go(t, "register", "append")
  /\ Lock(t)
  /\ UNCHANGED <<siteVars, tableVars, site, value, chosen, index, counters>>

\* ytrace_register takes the mutex and looks whether there was an init.
Enter(t) == /\ Go(t, "register", IF initialized THEN "append" ELSE "release")
            /\ Lock(t)
            /\ UNCHANGED <<siteVars, tableVars, site, value, chosen, index, counters>>

\* Mutant: ytrace_init is called with the mutex held.
ReleaseNot(t) ==
  /\ Go(t, "release", "init")
  /\ UNCHANGED <<siteVars, tableVars, owner, site, value, chosen, index, counters>>

\* The mutex is not recursive: it is given up for ytrace_init.
Release(t) ==
  /\ Go(t, "release", "init")
  /\ Unlock(t)
  /\ UNCHANGED <<siteVars, tableVars, site, value, chosen, index, counters>>

\* The body of ytrace_init, between its lock and its unlock.
Initialize == /\ owner = NoThread
              /\ initialized' = TRUE
              /\ default' = IF initialized THEN default ELSE EnvDefault
              /\ UNCHANGED <<table, owner>>

RegisterInit(t) == /\ Go(t, "init", "reenter")
                   /\ Initialize
                   /\ UNCHANGED <<siteVars, site, value, chosen, index, counters>>

Reenter(t) == /\ Go(t, "reenter", "append")
              /\ Lock(t)
              /\ UNCHANGED <<siteVars, tableVars, site, value, chosen, index, counters>>

\* Mutant: off by one at the full table.
RoomLeftOneMore == Len(table) <= MaxPoints

\* Room in g_points for another entry; without it the point is not listed.
RoomLeft == Len(table) < MaxPoints

AppendPoint(t) ==
  LET p == site[t]
  IN  /\ Go(t, "append", "read")
      /\ enabled' = [enabled EXCEPT ![p] = default]
      /\ want' = [want EXCEPT ![p] = default]
      /\ table' = IF RoomLeft THEN Append(table, p) ELSE table
      /\ Unlock(t)
      /\ UNCHANGED <<registered, initialized, default, site, value, chosen, index, counters>>

\* "return *enabled", after the unlock.
ReadBack(t) == /\ Go(t, "read", "assign")
               /\ value' = [value EXCEPT ![t] = enabled[site[t]]]
               /\ UNCHANGED <<siteVars, tableVars, owner, site, chosen, index, counters>>

\* The macro assigns what ytrace_register returned.
Assign(t) == /\ Go(t, "assign", "mark")
             /\ enabled' = [enabled EXCEPT ![site[t]] = value[t]]
             /\ UNCHANGED <<registered, want, tableVars, owner, site, value, chosen, index,
                            counters>>

Mark(t) == /\ Go(t, "mark", "idle")
           /\ registered' = [registered EXCEPT ![site[t]] = TRUE]
           /\ UNCHANGED <<enabled, want, tableVars, owner, site, value, chosen, index, counters>>

-----------------------------------------------------------------------------
(* Control: init, shutdown and the four set_* functions.                   *)

InitCall(t) == /\ pc[t] = "idle"
               /\ Initialize
               /\ UNCHANGED <<siteVars, threadVars, counters>>

Shutdown(t) == /\ pc[t] = "idle"
               /\ shutdowns < MaxShutdown /\ shutdowns' = shutdowns + 1
               /\ owner = NoThread
               /\ table' = << >> /\ initialized' = FALSE
               /\ UNCHANGED <<siteVars, default, owner, threadVars, sets>>

Set(t, sel, v) == /\ Go(t, "idle", "set")
                  /\ sets < MaxSet /\ sets' = sets + 1
                  /\ value' = [value EXCEPT ![t] = v]
                  /\ chosen' = [chosen EXCEPT ![t] = sel]
                  /\ UNCHANGED <<siteVars, tableVars, owner, site, index, shutdowns>>

\* Mutant: the loop starts at the second entry.
SetLockFromOne(t) ==
  /\ Go(t, "set", "loop")
  /\ Lock(t)
  /\ index' = [index EXCEPT ![t] = IF table = << >> THEN 0 ELSE 1]
  /\ UNCHANGED <<siteVars, tableVars, site, value, chosen, counters>>

SetLock(t) == /\ Go(t, "set", "loop")
              /\ Lock(t)
              /\ index' = [index EXCEPT ![t] = 0]
              /\ UNCHANGED <<siteVars, tableVars, site, value, chosen, counters>>

SetNext(t) ==
  /\ Go(t, "loop", "loop")
  /\ index[t] < Len(table)
  /\ index' = [index EXCEPT ![t] = @ + 1]
  /\ LET p == table[index[t] + 1]
     IN  IF p \in chosen[t]
         THEN /\ enabled' = [enabled EXCEPT ![p] = value[t]]
              /\ want' = [want EXCEPT ![p] = value[t]]
         ELSE UNCHANGED <<enabled, want>>
  /\ UNCHANGED <<registered, tableVars, owner, site, value, chosen, counters>>

SetDone(t) == /\ Go(t, "loop", "idle")
              /\ index[t] = Len(table)
              /\ Unlock(t)
              /\ UNCHANGED <<siteVars, tableVars, site, value, chosen, index, counters>>

\* What a thread does once it is in a call.
Step(t) == \/ Enter(t) \/ Release(t) \/ RegisterInit(t) \/ Reenter(t)
           \/ AppendPoint(t) \/ ReadBack(t) \/ Assign(t) \/ Mark(t)
           \/ SetLock(t) \/ SetNext(t) \/ SetDone(t)

Call(t) == \/ \E p \in Point : Trace(t, p)
           \/ \E sel \in Selections, v \in BOOLEAN : Set(t, sel, v)
           \/ InitCall(t) \/ Shutdown(t)

Next == \E t \in Thread : Call(t) \/ Step(t)

Spec == Init /\ [][Next]_vars

\* Threads are scheduled fairly and need not make calls.
FairSpec == Spec /\ \A t \in Thread : WF_vars(Step(t))

-----------------------------------------------------------------------------
(* Properties.                                                             *)

Pc == {"idle", "register", "release", "init", "reenter", "append", "read", "assign", "mark",
       "set", "loop"}

\* Every variable keeps its type; the fixed array is not written past its end and
\* a loop over the points stays in it.
TypeOK ==
  /\ enabled \in [Point -> BOOLEAN]
  /\ registered \in [Point -> BOOLEAN]
  /\ want \in [Point -> BOOLEAN]
  /\ table \in Seq(Point) /\ Len(table) <= MaxPoints
  /\ initialized \in BOOLEAN /\ default \in BOOLEAN
  /\ owner \in Thread \cup {NoThread}
  /\ pc \in [Thread -> Pc]
  /\ site \in [Thread -> Point]
  /\ value \in [Thread -> BOOLEAN]
  /\ chosen \in [Thread -> SUBSET Point]
  /\ index \in [Thread -> 0..MaxPoints]
  /\ sets \in 0..MaxSet /\ shutdowns \in 0..MaxShutdown

\* Every entry was made after the environment had been read, though
\* ytrace_register gives the mutex up to call ytrace_init and a shutdown can
\* come in between: the default every point starts from is the user's.
EntriesAfterInit == table # << >> => default = EnvDefault

\* A set_* call that has passed the whole table has switched every listed
\* point it names, points listed while it waited for the mutex included.
SetReachesAll ==
  \A t \in Thread : (pc[t] = "loop" /\ index[t] = Len(table)) =>
    \A p \in ToSet(table) \cap chosen[t] : want[p] = value[t]

\* Until the tracer is shut down, a call site that will not register again is
\* listed, or the table is full: only then is it beyond the reach of set_*.
RegisteredListed ==
  shutdowns = 0 => \A p \in Point : registered[p] => p \in ToSet(table) \/ ~RoomLeft

\* Every call returns, ytrace_init called from ytrace_register included: no
\* thread waits for a mutex it holds.
CallsReturn == \A t \in Thread : pc[t] # "idle" ~> pc[t] = "idle"

\* trace.h: "runtime control via ytrace_set_*_enabled": once no thread is in
\* the middle of registering a point, the point is what the last set_*, or
\* its registration, made it.
Settled(p) == \A t \in Thread : site[t] = p => pc[t] \notin {"read", "assign"}
ControlHolds == \A p \in Point : Settled(p) => enabled[p] = want[p]
-----------------------------------------------------------------------------
(* The inductive invariant behind the safety properties.                   *)

\* Who is between a lock and its unlock holds the mutex, and nobody else.
Exclusion ==
  \A t \in Thread : pc[t] \in {"release", "append", "loop"} <=> owner = t

\* The environment was read before the table is used, and stays read.
EnvRead ==
  /\ initialized => default = EnvDefault
  /\ \A t \in Thread : pc[t] \in {"reenter", "append"} => default = EnvDefault
  /\ EntriesAfterInit

\* A set_* call has switched what it names among the entries it has passed.
SetProgress ==
  \A t \in Thread : pc[t] = "loop" =>
    /\ index[t] <= Len(table)
    /\ \A i \in DOMAIN table :
         i <= index[t] /\ table[i] \in chosen[t] => want[table[i]] = value[t]

Listed(p) == (\E i \in DOMAIN table : table[i] = p) \/ ~RoomLeft

\* A point past ytrace_register's critical section is listed.
PointsListed ==
  shutdowns = 0 =>
    /\ \A p \in Point : registered[p] => Listed(p)
    /\ \A t \in Thread : pc[t] \in {"read", "assign", "mark"} => Listed(site[t])

TableInv == Exclusion /\ EnvRead /\ SetProgress /\ PointsListed
=============================================================================
