---------------------------- MODULE OverlayLoader ----------------------------
(***************************************************************************)
(* Loading the metadata overlay of a generic-netlink family                *)
(* (genl-overlay.c): the generated file, then the curated one, are read    *)
(* into the same arrays, and the descriptions of the curated operations    *)
(* are moved to the generated operations of the same name.                 *)
(*                                                                         *)
(* A file is the sequence of entries its maps hold, each with an integer   *)
(* key (0 if the key is a name), a name and a description; "bad" stands    *)
(* for anything read_top and its readers refuse.  Every string the loader  *)
(* copies is a token, so that the model sees who frees it.                 *)
(***************************************************************************)
EXTENDS Integers, Sequences, SequencesExt

CONSTANTS GeneratedFiles,  \* the files _generated/<family>.yaml may be,
          CuratedFiles,    \* and <family>.yaml
          Missing,         \* stands for a file that is not there
          NoText,          \* a field an entry does not have
          FirstCap,        \* first capacity of an array (8 or 16 in the code)
          MayFail          \* whether fopen and realloc can fail

Section == {"op", "mcast", "set", "attr"}

ASSUME LimitAssumption == FirstCap \in Nat \ {0} /\ MayFail \in BOOLEAN

\* Attributes are read inside their set.
ASSUME FileAssumption ==
  \A f \in (GeneratedFiles \cup CuratedFiles) \ {Missing} :
    /\ Len(f) \in Nat /\ DOMAIN f = 1..Len(f)
    /\ \A k \in DOMAIN f :
         /\ f[k].sec \in Section \cup {"bad"} /\ f[k].id \in Nat
         /\ f[k].sec = "attr" => \E m \in 1..(k - 1) : f[m].sec = "set"

\* metadata-schema.md: in a generated file "each entry has a single `name:`
\* field, no descriptions"; the names are enumerators of one enum.
ASSUME GeneratedAssumption ==
  \A f \in GeneratedFiles \ {Missing} : \A k \in DOMAIN f :
    f[k].sec = "op" => /\ f[k].name # NoText /\ f[k].desc = NoText
                       /\ \A m \in DOMAIN f :
                            f[m].sec = "op" /\ f[m].name = f[k].name => m = k

\* metadata-schema.md: curated files "contain only descriptions".
ASSUME CuratedAssumption ==
  \A f \in CuratedFiles \ {Missing} : \A k \in DOMAIN f : f[k].sec \notin {"set", "attr"}

VARIABLES file,      \* file["generated"], file["curated"]
          phase,     \* the file being read, then "merge", then how it ended
          pos,       \* next entry of that file
          rows,      \* rows[s]: the ops, mcast and attr_sets arrays
          attrs,     \* attrs[k]: the attrs array of the k-th set
          cap,       \* the capacities the loader compares the counts with
          alloc,     \* entries really allocated; for "attr" those of the set
                     \* opened last, the only one that still grows
          i, kept,   \* the loop of the merge: next row, rows kept
          copied,    \* strings copied from the files
          freed,     \* strings freed
          doubled    \* strings freed again

arrays == <<rows, attrs, cap, alloc>>
strings == <<copied, freed, doubled>>
vars == <<file, phase, pos, arrays, i, kept, strings>>

File == {"generated", "curated"}

NameToken == File \X Nat \X {"name"}
DescToken == File \X Nat \X {"desc"}

RowType == [id : Nat, name : NameToken \cup {NoText}, desc : DescToken \cup {NoText}]

\* NULL is the address of no string and of no row.
ASSUME TextAssumption == NoText \notin NameToken \cup DescToken \cup RowType

Init == /\ file \in [File -> GeneratedFiles \cup CuratedFiles]
        /\ file["generated"] \in GeneratedFiles /\ file["curated"] \in CuratedFiles
        /\ phase = "generated" /\ pos = 1
        /\ rows = [s \in {"op", "mcast", "set"} |-> << >>]
        /\ attrs = << >>
        /\ cap = [s \in Section |-> 0] /\ alloc = [s \in Section |-> 0]
        /\ i = 1 /\ kept = 0
        /\ copied = {} /\ freed = {} /\ doubled = {}

\* A string is named by where it was read; NoText is the NULL pointer.
NameOf(f, k) == IF file[f][k].name = NoText THEN NoText ELSE <<f, k, "name">>
DescOf(f, k) == IF file[f][k].desc = NoText THEN NoText ELSE <<f, k, "desc">>
Text(s) == IF s = NoText THEN NoText
           ELSE IF s[3] = "name" THEN file[s[1]][s[2]].name ELSE file[s[1]][s[2]].desc

Free(S) == /\ freed' = freed \cup (S \ {NoText})
           /\ doubled' = doubled \cup ((S \ {NoText}) \cap freed)

StringsOf(r) == {r.name, r.desc}

\* All strings overlay_destroy frees.
Owned == UNION ({StringsOf(r) : r \in UNION {ToSet(rows[s]) : s \in DOMAIN rows}} \cup
                {StringsOf(r) : r \in UNION {ToSet(a) : a \in ToSet(attrs)}})

-----------------------------------------------------------------------------
(* Reading a file.                                                         *)

Reading == phase \in File /\ file[phase] # Missing

Entry == file[phase][pos]
AtEntry(secs) == Reading /\ pos <= Len(file[phase]) /\ Entry.sec \in secs
RowOf(f, k) == [id |-> file[f][k].id, name |-> NameOf(f, k), desc |-> DescOf(f, k)]
Row == RowOf(phase, pos)

\* The attrs array of the set opened last.
OpenAttrs == IF attrs = << >> THEN << >> ELSE Last(attrs)

Count(s) == IF s = "attr" THEN Len(OpenAttrs) ELSE Len(rows[s])

Full(s) == Count(s) = cap[s]

\* Mutant: growing forgets the capacity it had.
GrownToFirst(s) == IF Full(s) THEN FirstCap ELSE cap[s]

\* The capacity of an array about to be appended to.
Grown(s) == IF ~Full(s) THEN cap[s]
            ELSE IF cap[s] = 0 THEN FirstCap ELSE 2 * cap[s]

\* realloc of a full array.  The attrs of a new set start with none.
Grow(s) ==
  LET fresh == IF s = "set" THEN {"attr"} ELSE {}
  IN  /\ cap' = [t \in Section |-> IF t = s THEN Grown(s) ELSE IF t \in fresh THEN 0 ELSE cap[t]]
      /\ alloc' = [t \in Section |-> IF t = s /\ Full(s) THEN Grown(s)
                                    ELSE IF t \in fresh THEN 0 ELSE alloc[t]]

Copy == copied' = copied \cup (StringsOf(Row) \ {NoText})

\* read_op_inner and read_mcast_entry append a row.
ReadRow == /\ AtEntry({"op", "mcast"})
           /\ Grow(Entry.sec)
           /\ rows' = [rows EXCEPT ![Entry.sec] = Append(@, Row)]
           /\ Copy
           /\ pos' = pos + 1
           /\ UNCHANGED <<file, phase, attrs, i, kept, freed, doubled>>

\* read_attribute_sets opens a set, whose attrs array starts empty.
ReadSet == /\ AtEntry({"set"})
           /\ Grow("set")
           /\ rows' = [rows EXCEPT !["set"] = Append(@, Row)]
           /\ attrs' = Append(attrs, << >>)
           /\ Copy
           /\ pos' = pos + 1
           /\ UNCHANGED <<file, phase, i, kept, freed, doubled>>

\* read_attr_entries_into_set appends to the set opened last.
ReadAttr == /\ AtEntry({"attr"})
            /\ Grow("attr")
            /\ attrs' = [attrs EXCEPT ![Len(attrs)] = Append(@, Row)]
            /\ Copy
            /\ pos' = pos + 1
            /\ UNCHANGED <<file, phase, rows, i, kept, freed, doubled>>

\* overlay_destroy of what was read, together with S, and no overlay.
Fail(S) == /\ phase' = "failed"
           /\ Free(S \cup Owned)
           /\ UNCHANGED <<file, pos, arrays, i, kept>>

\* No memory for a larger array: the row's own strings are freed first.
RowOom == /\ AtEntry({"op", "mcast", "set"}) /\ Full(Entry.sec) /\ MayFail
          /\ Copy
          /\ Fail(StringsOf(Row))

\* No memory for the attrs array: the name is freed, the type hint is not.
AttrOom == /\ AtEntry({"attr"}) /\ Full("attr") /\ MayFail
           /\ Copy
           /\ Fail({Row.name})

\* A parse error, an unexpected event or an attribute key that is no integer.
ReadBad == AtEntry({"bad"}) /\ UNCHANGED copied /\ Fail({})

\* fopen fails, and not because there is no such file.
OpenFails == /\ Reading /\ pos = 1 /\ MayFail
             /\ UNCHANGED copied
             /\ Fail({})

FileRead == phase \in File /\ (Reading => pos > Len(file[phase]))

\* Mutant: the position is not reset for the second file.
NextFileGoesOn == /\ FileRead /\ phase = "generated"
                  /\ phase' = "curated"
                  /\ cap' = [op |-> Count("op"), mcast |-> Count("mcast"), set |-> 0, attr |-> 0]
                  /\ UNCHANGED <<file, pos, rows, attrs, alloc, i, kept, strings>>

\* load_one_file starts on the curated file with a loader of its own, whose
\* capacities are what the arrays hold, and 0 for the attribute sets.
NextFile == /\ FileRead /\ phase = "generated"
            /\ phase' = "curated" /\ pos' = 1
            /\ cap' = [op |-> Count("op"), mcast |-> Count("mcast"), set |-> 0, attr |-> 0]
            /\ UNCHANGED <<file, rows, attrs, alloc, i, kept, strings>>

\* Neither file is there: no overlay.
NoOverlay == /\ FileRead /\ phase = "curated"
             /\ \A f \in File : file[f] = Missing
             /\ phase' = "none"
             /\ UNCHANGED <<file, pos, arrays, i, kept, strings>>

StartMerge == /\ FileRead /\ phase = "curated"
              /\ \E f \in File : file[f] # Missing
              /\ phase' = "merge"
              /\ UNCHANGED <<file, pos, arrays, i, kept, strings>>

-----------------------------------------------------------------------------
(* merge_curated_into_generated.                                           *)

Ops == rows["op"]
Merging == phase = "merge" /\ i <= Len(Ops)

\* A row with a cmd id moves up to its place.
Keep == /\ Merging /\ Ops[i].id # 0
        /\ rows' = [rows EXCEPT !["op"][kept + 1] = Ops[i]]
        /\ kept' = kept + 1 /\ i' = i + 1
        /\ UNCHANGED <<file, phase, pos, attrs, cap, alloc, strings>>

\* The generated rows of the same name as row i, as far as they are named.
Namesakes == {j \in DOMAIN Ops : /\ j # i /\ Ops[j].id # 0
                                 /\ Text(Ops[j].name) # NoText
                                 /\ Text(Ops[j].name) = Text(Ops[i].name)}

\* Mutant: the description is copied, and freed with the curated row.
FoldKeepsPointer ==
  /\ Merging /\ Ops[i].id = 0 /\ Namesakes # {}
  /\ LET j == CHOOSE j \in Namesakes : \A m \in Namesakes : j <= m
     IN  /\ rows' = [rows EXCEPT !["op"][j].desc = Ops[i].desc]
         /\ Free({Ops[j].desc, Ops[i].name, Ops[i].desc})
  /\ i' = i + 1
  /\ UNCHANGED <<file, phase, pos, attrs, cap, alloc, kept, copied>>

\* The first namesake gets the description; the rest of row i is freed.
Fold ==
  /\ Merging /\ Ops[i].id = 0 /\ Namesakes # {}
  /\ LET j == CHOOSE j \in Namesakes : \A m \in Namesakes : j <= m
     IN  /\ rows' = [rows EXCEPT !["op"][j].desc = Ops[i].desc,
                                 !["op"][i].desc = NoText]
         /\ Free({Ops[j].desc, Ops[i].name})
  /\ i' = i + 1
  /\ UNCHANGED <<file, phase, pos, attrs, cap, alloc, kept, copied>>

\* A row without a cmd id and without a namesake is dropped.
Drop == /\ Merging /\ Ops[i].id = 0 /\ Namesakes = {}
        /\ Free(StringsOf(Ops[i]))
        /\ i' = i + 1
        /\ UNCHANGED <<file, phase, pos, arrays, kept, copied>>

EndMerge == /\ phase = "merge" /\ i > Len(Ops)
            /\ rows' = [rows EXCEPT !["op"] = SubSeq(@, 1, kept)]
            /\ phase' = "loaded"
            /\ UNCHANGED <<file, pos, attrs, cap, alloc, i, kept, strings>>

\* The family is destroyed, and its overlay with it.
Destroy == /\ phase = "loaded"
           /\ phase' = "destroyed"
           /\ Free(Owned)
           /\ UNCHANGED <<file, pos, arrays, i, kept, copied>>

Next == \/ ReadRow \/ ReadSet \/ ReadAttr
        \/ RowOom \/ AttrOom \/ ReadBad \/ OpenFails
        \/ NextFile \/ NoOverlay \/ StartMerge
        \/ Keep \/ Fold \/ Drop \/ EndMerge \/ Destroy

Spec == Init /\ [][Next]_vars

-----------------------------------------------------------------------------
(* What the family reads from its overlay.                                 *)

\* Mutant: the last row with the id.
FindOpLast(id) == LET found == {k \in DOMAIN Ops : Ops[k].id = id}
                  IN  IF found = {} THEN NoText ELSE Ops[CHOOSE k \in found :
                                                          \A m \in found : m <= k]

\* find_op: the first row with the id.
FindOp(id) == LET found == {k \in DOMAIN Ops : Ops[k].id = id}
              IN  IF found = {} THEN NoText ELSE Ops[CHOOSE k \in found :
                                                      \A m \in found : k <= m]

-----------------------------------------------------------------------------
(* Properties.                                                             *)

RowsOf(s) == UNION {ToSet(r) : r \in s}

\* Every variable keeps its type; the position stays in the file being read.
TypeOK ==
  /\ phase \in File \cup {"merge", "loaded", "none", "failed", "destroyed"}
  /\ Reading => pos \in 1..(Len(file[phase]) + 1)
  /\ \A r \in RowsOf({rows[s] : s \in DOMAIN rows} \cup ToSet(attrs)) :
       r.id \in Nat /\ StringsOf(r) \subseteq copied \cup {NoText}
  /\ Len(attrs) = Len(rows["set"])
  /\ cap \in [Section -> Nat] /\ alloc \in [Section -> Nat]
  /\ i \in Nat /\ kept \in 0..(i - 1)
  /\ freed \subseteq copied /\ doubled \subseteq freed

\* No array, the attributes of each set included, is written past what was
\* allocated for it, the second file appending to the first's arrays.
WithinAllocation == \A s \in Section : Count(s) <= alloc[s]

\* The operations file f gives, those of a cmd id and those of a name.
OpEntries(f) == IF file[f] = Missing THEN {}
                ELSE {k \in DOMAIN file[f] : file[f][k].sec = "op"}
ById(f) == {k \in OpEntries(f) : file[f][k].id # 0}
ByName(f) == OpEntries(f) \ ById(f)

\* What the curated file says of a name: the last entry of that name.
Told(name) == {k \in ByName("curated") : file["curated"][k].name = name}
LastOf(told) == IF told = {} THEN NoText
                ELSE file["curated"][CHOOSE k \in told : \A m \in told : m <= k].desc
Curated(name) == LastOf(Told(name))

\* Whatever the order and number of curated entries, a loaded overlay finds
\* under a cmd id the first generated name of that id, with what the curated
\* file says of that name: moving the rows up in place while later rows still
\* look for theirs loses and mixes up nothing.  A curated name that no generated
\* entry binds to a command does not survive.
DescribedByName ==
  phase = "loaded" =>
    /\ \A e \in ById("generated") :
         LET entry == file["generated"][e]
             found == FindOp(entry.id)
         IN  (\A m \in ById("generated") : file["generated"][m].id = entry.id => e <= m) =>
               /\ found # NoText
               /\ Text(found.name) = entry.name
               /\ Text(found.desc) = Curated(entry.name)
    /\ \A k \in DOMAIN Ops : Ops[k].id # 0

\* Every string copied from the files has one owner: a loaded overlay owns
\* each of its strings once and has freed all others, however the merge
\* moved them about.
OwnedOnce ==
  phase = "loaded" =>
    /\ Owned \ {NoText} = copied \ freed
    /\ \A k, m \in DOMAIN Ops :
         (k # m /\ Ops[k].id # 0) => StringsOf(Ops[k]) \cap StringsOf(Ops[m]) \subseteq {NoText}

\* No string is freed twice, and a family that goes frees all of them.  A load
\* that fails frees all but, at most, the type hint of the attribute it stopped
\* at, which read_attr_entries_into_set forgets when it has no memory for it.
AllFreed ==
  /\ doubled = {}
  /\ phase \in {"none", "destroyed"} => freed = copied
  /\ phase = "failed" =>
       \A s \in copied \ freed : s[3] = "desc" /\ s[2] = pos /\ file[s[1]][pos].sec = "attr"

\* No string of a family's metadata is lost, freed twice or owned by two rows,
\* at the end of a load, of a failed one and of the family.
StringsOwned == OwnedOnce /\ AllFreed

\* metadata-schema.md: "generated alone gives names without descriptions": the
\* name given to a cmd id is found under it.
GeneratedNamed ==
  (phase = "loaded" /\ file["curated"] = Missing) =>
    \A e \in ToSet(file["generated"]) :
      e.sec = "op" => FindOp(e.id) # NoText /\ Text(FindOp(e.id).name) = e.name

-----------------------------------------------------------------------------
(* The inductive invariant behind the safety properties.                   *)

ShapeOK ==
  /\ file["generated"] \in GeneratedFiles /\ file["curated"] \in CuratedFiles
  /\ pos \in Nat \ {0}
  /\ rows \in [{"op", "mcast", "set"} -> Seq(RowType)]
  /\ attrs \in Seq(Seq(RowType))
  /\ copied \subseteq NameToken \cup DescToken

\* While a file is read, its strings are copied in order and none is freed,
\* and a set is open for the attributes to come.
ReadingOK ==
  phase \in File =>
    /\ i = 1 /\ kept = 0 /\ freed = {}
    /\ \A s \in copied : /\ file[s[1]] # Missing
                         /\ s[1] = phase => s[2] < pos
                         /\ phase = "generated" => s[1] = phase
    /\ phase = "generated" /\ file[phase] # Missing =>
         ((\E m \in 1..(pos - 1) : file[phase][m].sec = "set") => attrs # << >>)

\* Counts stay within capacities, capacities within what is allocated.  Those
\* for sets and attributes restart at 0 with the curated file, which has none.
CapsOK ==
  /\ WithinAllocation
  /\ phase \in File => \A s \in {"op", "mcast"} : Count(s) <= cap[s] /\ cap[s] <= alloc[s]
  /\ phase = "generated" => \A s \in {"set", "attr"} : Count(s) <= cap[s] /\ cap[s] <= alloc[s]

\* The rows that own their strings.  While the merge moves rows up, those
\* between the kept ones and the next one are left behind.
LiveOps == IF phase = "merge" THEN 1..kept \cup i..Len(Ops) ELSE DOMAIN Ops
OpStrings == UNION {StringsOf(Ops[k]) : k \in LiveOps}
OtherRows == ToSet(rows["mcast"]) \cup ToSet(rows["set"]) \cup UNION {ToSet(a) : a \in ToSet(attrs)}
OtherStrings == UNION {StringsOf(r) : r \in OtherRows}

\* Until the overlay goes, each string not freed has exactly one owner.
CustodyOK ==
  phase \in File \cup {"merge", "loaded"} =>
    /\ doubled = {}
    /\ (OpStrings \cup OtherStrings) \ {NoText} = copied \ freed
    /\ OpStrings \cap OtherStrings \subseteq {NoText}
    /\ \A k, m \in LiveOps :
         k # m => StringsOf(Ops[k]) \cap StringsOf(Ops[m]) \subseteq {NoText}

\* A row left behind that was kept has its name still further up: the search
\* for a namesake never stops at a row left behind.
MergeOK ==
  phase = "merge" =>
    /\ i <= Len(Ops) + 1 /\ kept < i
    /\ \A k \in 1..kept : Ops[k].id # 0
    /\ \A k \in (kept + 1)..(i - 1) :
         Ops[k].id # 0 => \E m \in 1..kept : Ops[m].name = Ops[k].name

OverlayInv == TypeOK /\ ShapeOK /\ ReadingOK /\ CapsOK /\ CustodyOK /\ MergeOK /\ AllFreed

From(r, f) == r.name # NoText /\ r.name[1] = f

\* What entry n of file f says, up to the description.
ReadFrom(r, f, n) == n \in OpEntries(f) /\ r.name = NameOf(f, n) /\ r.id = file[f][n].id

\* The rows are in the order of their entries, the generated ones first.
Precedes(r, s) == /\ From(s, "generated") => From(r, "generated")
                  /\ \A f \in File : From(r, f) /\ From(s, f) => r.name[2] < s.name[2]

\* A row with a name was read from the entry that name was copied from, and
\* the owning rows are in the order of the files.
OriginOK ==
  phase \in File \cup {"merge"} =>
    /\ \A k \in DOMAIN Ops : Ops[k].name # NoText =>
         ReadFrom(Ops[k], Ops[k].name[1], Ops[k].name[2])
    /\ \A k, m \in LiveOps : k < m => Precedes(Ops[k], Ops[m])

\* While the files are read, each operation read so far has its row.
IsRead(f, k) == /\ k \in OpEntries(f)
                /\ f = phase => k < pos
                /\ f = "curated" => phase = "curated"

PresentOK ==
  phase \in File =>
    /\ \A f \in File : \A k \in OpEntries(f) :
         IsRead(f, k) => \E q \in DOMAIN Ops : Ops[q] = RowOf(f, k)
    /\ \A q \in DOMAIN Ops : Ops[q].name # NoText => IsRead(Ops[q].name[1], Ops[q].name[2])
    /\ phase = "generated" => \A q \in DOMAIN Ops : From(Ops[q], "generated")

\* The curated names whose row the merge has not come to.
Waiting == {k \in ByName("curated") :
              \E q \in i..Len(Ops) : Ops[q].name = <<"curated", k, "name">>}

\* The merge so far: each generated row has what the curated rows before the
\* next one say of its name, the others still say what their entries do.
DescribedOK ==
  phase = "merge" =>
    /\ \A e \in ById("generated") : \E q \in LiveOps :
         /\ Ops[q].name = <<"generated", e, "name">>
         /\ Text(Ops[q].desc) = LastOf(Told(file["generated"][e].name) \ Waiting)
    /\ \A q \in i..Len(Ops) : Ops[q].id = 0 /\ Ops[q].name # NoText =>
         Ops[q].desc = DescOf(Ops[q].name[1], Ops[q].name[2])
    /\ \A q \in i..Len(Ops) : From(Ops[q], "curated") =>
         \A k \in ByName("curated") :
           k > Ops[q].name[2] /\ file["curated"][k].name # NoText => k \in Waiting

\* What DescribedByName rests on.
Described == OriginOK /\ PresentOK /\ DescribedOK /\ DescribedByName
=============================================================================
