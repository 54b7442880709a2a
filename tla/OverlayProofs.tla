---------------------------- MODULE OverlayProofs ----------------------------
(***************************************************************************)
(* Machine-checked proofs about OverlayLoader, for any files and any       *)
(* failures.  First OverlayInv is inductive: the strings of an overlay     *)
(* have one owner each while the two files are read, while the merge moves *)
(* rows up over rows it has left behind, and when a load fails half way.   *)
(*                                                                         *)
(* Then the merge: the description found under a cmd id is what the        *)
(* curated file said last of that command's name (DescribedByName).  The   *)
(* argument follows the order of the rows: reading keeps the order of the  *)
(* files, the merge keeps it among the rows that own their strings, and so *)
(* the first namesake of a curated row is the generated row it describes.  *)
(***************************************************************************)
EXTENDS OverlayLoader, SequenceTheorems, WellFoundedInduction, TLAPS

-----------------------------------------------------------------------------
(* Sequences of rows.                                                      *)

\* The members of a sequence that grew by one.
LEMMA ToSetAppend ==
  ASSUME NEW S, NEW s \in Seq(S), NEW e \in S
  PROVE  ToSet(Append(s, e)) = ToSet(s) \cup {e}
<1>1. /\ DOMAIN Append(s, e) = DOMAIN s \cup {Len(s) + 1}
      /\ \A k \in DOMAIN s : Append(s, e)[k] = s[k]
      /\ Append(s, e)[Len(s) + 1] = e
  OBVIOUS
<1>2. QED
  BY <1>1 DEF ToSet

\* Outside a merge every row owns its strings, so what overlay_destroy frees
\* is what the rows of the operations and the other rows own.
LEMMA OwnedParts ==
  ASSUME ShapeOK, phase # "merge"
  PROVE  Owned = OpStrings \cup OtherStrings
<1>1. DOMAIN rows = {"op", "mcast", "set"}
  BY DEF ShapeOK
<1>2. OpStrings = UNION {StringsOf(r) : r \in ToSet(rows["op"])}
  BY DEF OpStrings, LiveOps, Ops, ToSet
<1>3. UNION {ToSet(rows[s]) : s \in DOMAIN rows} =
        ToSet(rows["op"]) \cup ToSet(rows["mcast"]) \cup ToSet(rows["set"])
  BY <1>1
<1>4. QED
  BY <1>2, <1>3 DEF Owned, OtherStrings, OtherRows

\* The row about to be read: its strings are new, so nobody owns them yet.
LEMMA NewRow ==
  ASSUME TypeOK, ShapeOK, ReadingOK, NEW secs, AtEntry(secs)
  PROVE  /\ Row \in RowType
         /\ StringsOf(Row) \cap copied \subseteq {NoText}
         /\ pos + 1 \in 1..(Len(file[phase]) + 1)
         /\ \A s \in StringsOf(Row) \ {NoText} : s[1] = phase /\ s[2] = pos
         /\ Row.desc # NoText => Row.desc[3] = "desc"
<1>1. /\ phase \in File /\ file[phase] # Missing /\ pos \in Nat \ {0}
      /\ file[phase] \in (GeneratedFiles \cup CuratedFiles) \ {Missing}
  BY DEF AtEntry, Reading, ShapeOK, File
<1>2. /\ Len(file[phase]) \in Nat /\ DOMAIN file[phase] = 1..Len(file[phase])
      /\ \A k \in DOMAIN file[phase] : file[phase][k].id \in Nat
  BY <1>1, FileAssumption
<1>3. pos \in DOMAIN file[phase] /\ Entry.id \in Nat
  BY <1>1, <1>2 DEF AtEntry, Entry
<1>4. PICK nm \in NameToken \cup {NoText} : nm = NameOf(phase, pos)
  BY <1>1 DEF NameOf, NameToken
<1>5. PICK ds \in DescToken \cup {NoText} : ds = DescOf(phase, pos)
  BY <1>1 DEF DescOf, DescToken
<1>6. Row = [id |-> Entry.id, name |-> nm, desc |-> ds]
  BY <1>4, <1>5 DEF Row, RowOf, Entry
<1>7. Row \in RowType
  BY <1>3, <1>6 DEF RowType
<1>8. /\ nm # NoText => nm[1] = phase /\ nm[2] = pos
      /\ ds # NoText => ds[1] = phase /\ ds[2] = pos /\ ds[3] = "desc"
  BY <1>4, <1>5 DEF NameOf, DescOf
<1>9. StringsOf(Row) = {nm, ds}
  BY <1>6 DEF StringsOf
<1>10. \A s \in StringsOf(Row) \ {NoText} : s[1] = phase /\ s[2] = pos
  BY <1>8, <1>9
<1>11. \A s \in copied : s[1] = phase => s[2] < pos
  BY <1>1 DEF ReadingOK
<1>12. StringsOf(Row) \cap copied \subseteq {NoText}
  BY <1>1, <1>10, <1>11
<1>13. pos + 1 \in 1..(Len(file[phase]) + 1)
  BY <1>2, <1>3
<1>14. QED
  BY <1>6, <1>7, <1>8, <1>10, <1>12, <1>13

\* All rows, as TypeOK counts them.
LEMMA AllRows ==
  ASSUME NEW table, NEW lists, DOMAIN table = {"op", "mcast", "set"}
  PROVE  RowsOf({table[s] : s \in DOMAIN table} \cup ToSet(lists)) =
           ToSet(table["op"]) \cup (ToSet(table["mcast"]) \cup ToSet(table["set"]) \cup
                                    UNION {ToSet(a) : a \in ToSet(lists)})
<1>1. {table[s] : s \in DOMAIN table} = {table["op"], table["mcast"], table["set"]}
  OBVIOUS
<1>2. QED
  BY <1>1 DEF RowsOf

\* Every row's strings were copied from a file.
RowsCopied == \A r \in ToSet(Ops) \cup OtherRows : StringsOf(r) \subseteq copied \cup {NoText}

\* After a step, TypeOK follows from the shape of the variables.
LEMMA TypeFromShape ==
  ASSUME ShapeOK', RowsCopied',
         phase' \in File \cup {"merge", "loaded", "none", "failed", "destroyed"},
         Reading' => pos' \in 1..(Len(file'[phase']) + 1),
         Len(attrs') = Len(rows'["set"]),
         cap' \in [Section -> Nat], alloc' \in [Section -> Nat],
         i' \in Nat, kept' \in 0..(i' - 1),
         freed' \subseteq copied', doubled' \subseteq freed'
  PROVE  TypeOK'
<1>1. \A r \in (ToSet(Ops) \cup OtherRows)' : r \in RowType
  <2>1. \A s \in {"op", "mcast", "set"} : \A r \in ToSet(rows'[s]) : r \in RowType
    BY DEF ShapeOK, ToSet
  <2>2. \A a \in ToSet(attrs') : a \in Seq(RowType)
    BY DEF ShapeOK, ToSet
  <2>3. \A a \in Seq(RowType) : \A r \in ToSet(a) : r \in RowType
    BY DEF ToSet
  <2>4. \A a \in ToSet(attrs') : \A r \in ToSet(a) : r \in RowType
    BY <2>2, <2>3
  <2>5. QED
    BY <2>1, <2>4 DEF OtherRows, Ops
<1>2. \A r \in (ToSet(Ops) \cup OtherRows)' :
        r.id \in Nat /\ StringsOf(r)' \subseteq copied' \cup {NoText}
  BY <1>1 DEF RowsCopied, RowType, StringsOf
<1>3. RowsOf({rows[s] : s \in DOMAIN rows} \cup ToSet(attrs))' = (ToSet(Ops) \cup OtherRows)'
  <2>1. DOMAIN rows' = {"op", "mcast", "set"}
    BY DEF ShapeOK
  <2>2. QED
    BY <2>1, AllRows DEF Ops, OtherRows, RowsOf
<1>4. QED
  BY <1>2, <1>3 DEF TypeOK, StringsOf

\* Before it, the types say so of every row.
LEMMA CopiedFromType ==
  ASSUME ShapeOK, TypeOK
  PROVE  RowsCopied
<1>1. RowsOf({rows[s] : s \in DOMAIN rows} \cup ToSet(attrs)) = ToSet(Ops) \cup OtherRows
  <2>1. DOMAIN rows = {"op", "mcast", "set"}
    BY DEF ShapeOK
  <2>2. QED
    BY <2>1, AllRows DEF Ops, OtherRows
<1>2. QED
  BY <1>1 DEF TypeOK, RowsCopied

\* Counts are numbers.
LEMMA CountsAreNat ==
  ASSUME ShapeOK
  PROVE  \A s \in Section : Count(s) \in Nat
<1>1. ASSUME NEW s \in Section, s # "attr" PROVE Count(s) \in Nat
  <2>1. rows[s] \in Seq(RowType)
    BY <1>1 DEF ShapeOK, Section
  <2>2. QED
    BY <1>1, <2>1 DEF Count
<1>2. Count("attr") \in Nat
  <2>1. attrs # << >> => attrs[Len(attrs)] \in Seq(RowType)
    BY DEF ShapeOK
  <2>2. OpenAttrs \in Seq(RowType)
    BY <2>1 DEF OpenAttrs, Last
  <2>3. QED
    BY <2>2 DEF Count
<1>3. QED
  BY <1>1, <1>2

\* The array has room for one more row after Grow, and is really that large.
LEMMA GrowFits ==
  ASSUME NEW s \in Section, TypeOK, ShapeOK, Grow(s), Count(s) <= cap[s], cap[s] <= alloc[s]
  PROVE  /\ cap' \in [Section -> Nat] /\ alloc' \in [Section -> Nat]
         /\ Count(s) + 1 <= cap'[s] /\ cap'[s] <= alloc'[s]
         /\ \A t \in Section \ {s} : \/ cap'[t] = cap[t] /\ alloc'[t] = alloc[t]
                                     \/ s = "set" /\ t = "attr" /\ cap'[t] = 0 /\ alloc'[t] = 0
         /\ s = "set" => cap'["attr"] = 0 /\ alloc'["attr"] = 0
<1>1. /\ Count(s) \in Nat /\ cap[s] \in Nat /\ alloc[s] \in Nat
      /\ cap \in [Section -> Nat] /\ alloc \in [Section -> Nat] /\ FirstCap \in Nat \ {0}
  BY CountsAreNat, LimitAssumption DEF TypeOK
<1>2. PICK size : size = Grown(s)
  OBVIOUS
<1>3. PICK fresh : fresh = IF s = "set" THEN {"attr"} ELSE {}
  OBVIOUS
<1>4. /\ cap' = [t \in Section |-> IF t = s THEN size ELSE IF t \in fresh THEN 0 ELSE cap[t]]
      /\ alloc' = [t \in Section |-> IF t = s /\ Full(s) THEN size
                                     ELSE IF t \in fresh THEN 0 ELSE alloc[t]]
  BY <1>2, <1>3 DEF Grow
<1>5. size \in Nat /\ Count(s) + 1 <= size
  BY <1>1, <1>2 DEF Grown, Full
<1>6. cap' \in [Section -> Nat] /\ alloc' \in [Section -> Nat]
  BY <1>1, <1>4, <1>5
<1>7. /\ cap'[s] = size /\ s \notin fresh
      /\ alloc'[s] = IF Full(s) THEN size ELSE alloc[s]
  BY <1>3, <1>4
<1>8. cap'[s] <= alloc'[s]
  BY <1>1, <1>2, <1>5, <1>7 DEF Grown
<1>9. "attr" \in Section
  BY DEF Section
<1>10. QED
  BY <1>3, <1>4, <1>5, <1>6, <1>7, <1>8, <1>9

\* An append that grows its array first keeps the counts within the capacities.
LEMMA AppendFits ==
  ASSUME OverlayInv, NEW s \in Section, Grow(s), phase \in File, phase' = phase,
         s \in {"set", "attr"} => phase = "generated", Count(s)' = Count(s) + 1,
         \A t \in Section \ {s} :
           Count(t)' = IF s = "set" /\ t = "attr" THEN 0 ELSE Count(t)
  PROVE  CapsOK' /\ cap' \in [Section -> Nat] /\ alloc' \in [Section -> Nat]
<1>1. /\ ShapeOK /\ TypeOK /\ CapsOK
      /\ cap \in [Section -> Nat] /\ alloc \in [Section -> Nat]
  BY DEF OverlayInv, TypeOK
<1>2. Count(s) <= cap[s] /\ cap[s] <= alloc[s]
  BY <1>1 DEF CapsOK, Section
<1>3. /\ cap' \in [Section -> Nat] /\ alloc' \in [Section -> Nat]
      /\ Count(s)' <= cap'[s] /\ cap'[s] <= alloc'[s]
      /\ \A t \in Section \ {s} : \/ cap'[t] = cap[t] /\ alloc'[t] = alloc[t]
                                  \/ s = "set" /\ t = "attr" /\ cap'[t] = 0 /\ alloc'[t] = 0
      /\ s = "set" => cap'["attr"] = 0 /\ alloc'["attr"] = 0
  BY <1>1, <1>2, GrowFits
<1>4. \A t \in Section : Count(t) \in Nat
  BY <1>1, CountsAreNat
<1>5. ASSUME NEW t \in Section
      PROVE  Count(t)' \in Nat /\ Count(t)' <= alloc'[t]
  <2>1. CASE t = s
    <3>1. Count(s)' \in Nat /\ cap'[s] \in Nat /\ alloc'[s] \in Nat
      BY <1>3, <1>4
    <3>2. QED
      BY <1>3, <2>1, <3>1
  <2>2. CASE t # s
    <3>1. Count(t) <= alloc[t]
      BY <1>1 DEF CapsOK, WithinAllocation
    <3>2. QED
      BY <1>3, <1>4, <2>2, <3>1
  <2>3. QED
    BY <2>1, <2>2
<1>6. ASSUME NEW t \in Section, Count(t) <= cap[t] /\ cap[t] <= alloc[t]
      PROVE  Count(t)' <= cap'[t] /\ cap'[t] <= alloc'[t]
  BY <1>3, <1>6
<1>7. WithinAllocation'
  BY <1>5 DEF WithinAllocation
<1>8. \A t \in {"op", "mcast"} : Count(t)' <= cap'[t] /\ cap'[t] <= alloc'[t]
  BY <1>1, <1>6 DEF CapsOK, Section
<1>9. phase = "generated" => \A t \in {"set", "attr"} : Count(t)' <= cap'[t] /\ cap'[t] <= alloc'[t]
  BY <1>1, <1>6 DEF CapsOK, Section
<1>10. QED
  BY <1>3, <1>7, <1>8, <1>9 DEF CapsOK

\* A row read is the one owner of its strings.
LEMMA ReadCustody ==
  ASSUME OverlayInv, NEW secs, AtEntry(secs), phase' = phase,
         freed' = freed, doubled' = doubled, Copy,
         \/ Ops' = Append(Ops, Row) /\ OtherRows' = OtherRows
         \/ Ops' = Ops /\ OtherRows' = OtherRows \cup {Row}
  PROVE  CustodyOK' /\ RowsCopied'
<1>1. /\ Row \in RowType /\ StringsOf(Row) \cap copied \subseteq {NoText}
      /\ phase \in File /\ phase # "merge"
  BY NewRow DEF OverlayInv, AtEntry, Reading, File
<1>2. Ops \in Seq(RowType)
  BY DEF OverlayInv, ShapeOK, Ops
<1>3. /\ freed = {} /\ doubled = {} /\ (OpStrings \cup OtherStrings) \ {NoText} = copied
      /\ OpStrings \cap OtherStrings \subseteq {NoText}
      /\ \A k, m \in DOMAIN Ops : k # m => StringsOf(Ops[k]) \cap StringsOf(Ops[m]) \subseteq {NoText}
  BY <1>1 DEF OverlayInv, CustodyOK, ReadingOK, LiveOps
<1>4. /\ OpStrings = UNION {StringsOf(Ops[k]) : k \in DOMAIN Ops}
      /\ OpStrings' = UNION {StringsOf(Ops'[k]) : k \in DOMAIN Ops'}
      /\ LiveOps' = DOMAIN Ops'
  BY <1>1 DEF OpStrings, LiveOps, StringsOf
<1>5. copied' = copied \cup (StringsOf(Row) \ {NoText})
  BY DEF Copy
<1>6. RowsCopied
  BY CopiedFromType DEF OverlayInv
<1>7. CASE Ops' = Append(Ops, Row) /\ OtherRows' = OtherRows
  <2>1. /\ DOMAIN Ops' = DOMAIN Ops \cup {Len(Ops) + 1}
        /\ \A k \in DOMAIN Ops : Ops'[k] = Ops[k]
        /\ Ops'[Len(Ops) + 1] = Row
    BY <1>1, <1>2, <1>7
  <2>2. OpStrings' = OpStrings \cup StringsOf(Row)
    BY <1>4, <2>1
  <2>3. OtherStrings' = OtherStrings
    BY <1>7 DEF OtherStrings, StringsOf
  <2>4. \A k \in DOMAIN Ops : StringsOf(Ops[k]) \subseteq copied \cup {NoText}
    BY <1>3, <1>4
  <2>5. \A k, m \in DOMAIN Ops' : k # m => StringsOf(Ops'[k]) \cap StringsOf(Ops'[m]) \subseteq {NoText}
    BY <1>1, <1>3, <2>1, <2>4
  <2>6. CustodyOK'
    <3>1. \A k, m \in LiveOps' :
            k # m => StringsOf(Ops'[k]) \cap StringsOf(Ops'[m]) \subseteq {NoText}
      BY <1>4, <2>5
    <3>2. /\ (OpStrings' \cup OtherStrings') \ {NoText} = copied' \ freed'
          /\ OpStrings' \cap OtherStrings' \subseteq {NoText}
      BY <1>1, <1>3, <1>5, <2>2, <2>3
    <3>3. QED
      BY <1>3, <3>1, <3>2 DEF CustodyOK, StringsOf
  <2>7. RowsCopied'
    <3>1. ToSet(Ops)' = ToSet(Ops) \cup {Row}
      BY <1>1, <1>2, <1>7, ToSetAppend DEF ToSet
    <3>2. QED
      BY <1>5, <1>6, <1>7, <3>1 DEF RowsCopied, StringsOf
  <2>8. QED
    BY <2>6, <2>7
<1>8. CASE Ops' = Ops /\ OtherRows' = OtherRows \cup {Row}
  <2>1. OpStrings' = OpStrings
    BY <1>4, <1>8
  <2>2. OtherStrings' = OtherStrings \cup StringsOf(Row)
    BY <1>8 DEF OtherStrings, StringsOf
  <2>3. CustodyOK'
    <3>1. \A k, m \in LiveOps' :
            k # m => StringsOf(Ops'[k]) \cap StringsOf(Ops'[m]) \subseteq {NoText}
      BY <1>3, <1>4, <1>8
    <3>2. /\ (OpStrings' \cup OtherStrings') \ {NoText} = copied' \ freed'
          /\ OpStrings' \cap OtherStrings' \subseteq {NoText}
      BY <1>1, <1>3, <1>5, <2>1, <2>2
    <3>3. QED
      BY <1>3, <3>1, <3>2 DEF CustodyOK, StringsOf
  <2>4. RowsCopied'
    BY <1>5, <1>6, <1>8 DEF RowsCopied, StringsOf, ToSet
  <2>5. QED
    BY <2>3, <2>4
<1>9. QED
  BY <1>7, <1>8

\* Reading on in the same file: the position moves past the row, whose strings
\* are the newest.
LEMMA ReadOn ==
  ASSUME OverlayInv, NEW secs, AtEntry(secs), phase' = phase, pos' = pos + 1, Copy,
         UNCHANGED <<file, i, kept, freed>>,
         (\E m \in 1..pos : file[phase][m].sec = "set") /\ phase = "generated" => attrs' # << >>
  PROVE  ReadingOK' /\ copied' \subseteq NameToken \cup DescToken /\ copied \subseteq copied'
<1>1. /\ Row \in RowType /\ \A s \in StringsOf(Row) \ {NoText} : s[1] = phase /\ s[2] = pos
      /\ phase \in File /\ file[phase] # Missing /\ pos \in Nat
  BY NewRow DEF OverlayInv, AtEntry, Reading, ShapeOK
<1>2. copied' = copied \cup (StringsOf(Row) \ {NoText})
  BY DEF Copy
<1>3. StringsOf(Row) \ {NoText} \subseteq NameToken \cup DescToken
  BY <1>1 DEF StringsOf, RowType
<1>4. copied' \subseteq NameToken \cup DescToken
  BY <1>2, <1>3 DEF OverlayInv, ShapeOK
<1>5. \A s \in copied : s[2] \in Nat
  BY DEF OverlayInv, ShapeOK, NameToken, DescToken
<1>6. ASSUME NEW s \in copied'
      PROVE  /\ file'[s[1]] # Missing
             /\ s[1] = phase' => s[2] < pos'
             /\ phase' = "generated" => s[1] = phase'
  <2>1. CASE s \in copied
    BY <1>1, <1>5, <2>1 DEF OverlayInv, ReadingOK
  <2>2. CASE s \in StringsOf(Row) \ {NoText}
    BY <1>1, <2>2
  <2>3. QED
    BY <1>2, <2>1, <2>2
<1>7. (phase' = "generated" /\ file'[phase'] # Missing) =>
         ((\E m \in 1..(pos' - 1) : file'[phase'][m].sec = "set") => attrs' # << >>)
  BY <1>1
<1>8. ReadingOK'
  BY <1>1, <1>6, <1>7 DEF OverlayInv, ReadingOK
<1>9. QED
  BY <1>2, <1>4, <1>8

\* read_op_inner and read_mcast_entry.
LEMMA ReadRowKeeps ==
  ASSUME OverlayInv, ReadRow PROVE OverlayInv'
<1>1. PICK s \in {"op", "mcast"} : s = Entry.sec
  BY DEF ReadRow, AtEntry
<1>2. /\ AtEntry({"op", "mcast"}) /\ Grow(s) /\ rows' = [rows EXCEPT ![s] = Append(@, Row)]
      /\ Copy /\ pos' = pos + 1
      /\ UNCHANGED <<file, phase, attrs, i, kept, freed, doubled>>
  BY <1>1 DEF ReadRow
<1>3. /\ Row \in RowType /\ pos + 1 \in 1..(Len(file[phase]) + 1)
      /\ phase \in File /\ file[phase] # Missing
  BY <1>2, NewRow DEF OverlayInv, AtEntry, Reading
<1>4. /\ rows \in [{"op", "mcast", "set"} -> Seq(RowType)]
      /\ rows' \in [{"op", "mcast", "set"} -> Seq(RowType)]
      /\ rows'[s] = Append(rows[s], Row) /\ Len(rows'[s]) = Len(rows[s]) + 1
      /\ \A t \in {"op", "mcast", "set"} \ {s} : rows'[t] = rows[t]
  <2>1. rows \in [{"op", "mcast", "set"} -> Seq(RowType)] /\ s \in {"op", "mcast", "set"}
    BY DEF OverlayInv, ShapeOK
  <2>2. Append(rows[s], Row) \in Seq(RowType) /\ Len(Append(rows[s], Row)) = Len(rows[s]) + 1
    BY <1>3, <2>1
  <2>3. QED
    BY <1>2, <2>1, <2>2
<1>5. /\ Count(s)' = Count(s) + 1
      /\ \A t \in Section \ {s} : Count(t)' = Count(t)
  <2>1. OpenAttrs' = OpenAttrs
    BY <1>2 DEF OpenAttrs
  <2>2. QED
    BY <1>4, <2>1 DEF Count, Section
<1>6. CapsOK' /\ cap' \in [Section -> Nat] /\ alloc' \in [Section -> Nat]
  BY <1>2, <1>3, <1>5, AppendFits DEF Section
<1>7. CustodyOK' /\ RowsCopied'
  <2>1. ASSUME s = "op"
        PROVE  Ops' = Append(Ops, Row) /\ OtherRows' = OtherRows
    BY <1>2, <1>4, <2>1 DEF Ops, OtherRows, ToSet
  <2>2. ASSUME s = "mcast"
        PROVE  Ops' = Ops /\ OtherRows' = OtherRows \cup {Row}
    <3>1. ToSet(rows'["mcast"]) = ToSet(rows["mcast"]) \cup {Row}
      <4>1. rows["mcast"] \in Seq(RowType) /\ rows'["mcast"] = Append(rows["mcast"], Row)
        BY <1>4, <2>2
      <4>2. QED
        BY <1>3, <4>1, ToSetAppend
    <3>2. rows'["set"] = rows["set"] /\ rows'["op"] = rows["op"] /\ attrs' = attrs
      BY <1>2, <1>4, <2>2
    <3>3. QED
      BY <3>1, <3>2 DEF Ops, OtherRows, ToSet
  <2>3. QED
    BY <1>2, <2>1, <2>2, ReadCustody
<1>8. ReadingOK' /\ copied' \subseteq NameToken \cup DescToken /\ copied \subseteq copied'
  <2>1. file[phase][pos].sec # "set"
    BY <1>1 DEF Entry
  <2>2. (\E m \in 1..pos : file[phase][m].sec = "set") => \E m \in 1..(pos - 1) : file[phase][m].sec = "set"
    BY <2>1 DEF OverlayInv, ShapeOK
  <2>3. QED
    BY <1>2, <1>3, <2>2, ReadOn DEF OverlayInv, ReadingOK
<1>9. ShapeOK'
  BY <1>2, <1>3, <1>4, <1>8 DEF OverlayInv, ShapeOK
<1>10. TypeOK'
  <2>1. /\ i \in Nat /\ kept \in 0..(i - 1) /\ freed \subseteq copied /\ doubled \subseteq freed
        /\ Len(attrs) = Len(rows["set"])
    BY DEF OverlayInv, TypeOK
  <2>2. rows'["set"] = rows["set"]
    BY <1>4
  <2>3. QED
    BY <1>2, <1>3, <1>6, <1>7, <1>8, <1>9, <2>1, <2>2, TypeFromShape DEF Reading
<1>11. MergeOK' /\ AllFreed'
  BY <1>2, <1>3 DEF OverlayInv, MergeOK, AllFreed, File
<1>12. QED
  BY <1>6, <1>7, <1>8, <1>9, <1>10, <1>11 DEF OverlayInv

\* Sets and their attributes are only in the generated file.
LEMMA OnlyGenerated ==
  ASSUME OverlayInv, AtEntry({"set", "attr"})
  PROVE  phase = "generated"
<1>1. /\ phase \in File /\ file[phase] # Missing /\ pos \in 1..Len(file[phase])
      /\ file[phase][pos].sec \in {"set", "attr"}
  BY DEF AtEntry, Reading, Entry, OverlayInv, ShapeOK
<1>2. ASSUME phase = "curated" PROVE FALSE
  <2>1. file[phase] \in CuratedFiles \ {Missing}
    BY <1>1, <1>2 DEF OverlayInv, ShapeOK
  <2>2. pos \in DOMAIN file[phase]
    BY <1>1, <2>1, FileAssumption
  <2>3. QED
    BY <1>1, <2>1, <2>2, CuratedAssumption
<1>3. QED
  BY <1>1, <1>2 DEF File

\* read_attribute_sets opens a set.
LEMMA ReadSetKeeps ==
  ASSUME OverlayInv, ReadSet PROVE OverlayInv'
<1>1. /\ AtEntry({"set"}) /\ Grow("set") /\ rows' = [rows EXCEPT !["set"] = Append(@, Row)]
      /\ attrs' = Append(attrs, << >>)
      /\ Copy /\ pos' = pos + 1
      /\ UNCHANGED <<file, phase, i, kept, freed, doubled>>
  BY DEF ReadSet
<1>2. /\ Row \in RowType /\ pos + 1 \in 1..(Len(file[phase]) + 1)
      /\ phase = "generated" /\ phase \in File /\ file[phase] # Missing
  BY <1>1, NewRow, OnlyGenerated DEF OverlayInv, AtEntry, Reading
<1>3. /\ rows \in [{"op", "mcast", "set"} -> Seq(RowType)]
      /\ rows' \in [{"op", "mcast", "set"} -> Seq(RowType)]
      /\ rows'["set"] = Append(rows["set"], Row) /\ Len(rows'["set"]) = Len(rows["set"]) + 1
      /\ \A t \in {"op", "mcast"} : rows'[t] = rows[t]
  <2>1. rows \in [{"op", "mcast", "set"} -> Seq(RowType)]
    BY DEF OverlayInv, ShapeOK
  <2>2. Append(rows["set"], Row) \in Seq(RowType) /\ Len(Append(rows["set"], Row)) = Len(rows["set"]) + 1
    BY <1>2, <2>1
  <2>3. QED
    BY <1>1, <2>1, <2>2
<1>4. /\ attrs \in Seq(Seq(RowType)) /\ attrs' \in Seq(Seq(RowType))
      /\ Len(attrs') = Len(attrs) + 1 /\ attrs' # << >>
      /\ ToSet(attrs') = ToSet(attrs) \cup {<< >>}
  <2>1. attrs \in Seq(Seq(RowType)) /\ << >> \in Seq(RowType)
    BY DEF OverlayInv, ShapeOK
  <2>2. PICK none \in Seq(RowType) : none = << >>
    BY <2>1
  <2>3. ToSet(Append(attrs, none)) = ToSet(attrs) \cup {none}
    BY <2>1, ToSetAppend
  <2>4. /\ Append(attrs, none) \in Seq(Seq(RowType)) /\ Len(Append(attrs, none)) = Len(attrs) + 1
        /\ Append(attrs, none) # << >>
    BY <2>1
  <2>5. attrs' = Append(attrs, none)
    BY <1>1, <2>2
  <2>6. QED
    BY <2>1, <2>2, <2>3, <2>4, <2>5
<1>5. /\ Count("set")' = Count("set") + 1
      /\ \A t \in Section \ {"set"} : Count(t)' = IF t = "attr" THEN 0 ELSE Count(t)
  <2>1. Len(OpenAttrs') = 0
    <3>1. attrs'[Len(attrs')] = << >>
      BY <1>1, <1>4
    <3>2. QED
      BY <1>4, <3>1 DEF OpenAttrs, Last
  <2>2. QED
    BY <1>3, <2>1 DEF Count, Section
<1>6. CapsOK' /\ cap' \in [Section -> Nat] /\ alloc' \in [Section -> Nat]
  BY <1>1, <1>2, <1>5, AppendFits DEF Section
<1>7. CustodyOK' /\ RowsCopied'
  <2>1. ToSet(rows'["set"]) = ToSet(rows["set"]) \cup {Row}
    <3>1. rows["set"] \in Seq(RowType)
      BY <1>3
    <3>2. QED
      BY <1>2, <1>3, <3>1, ToSetAppend
  <2>2. UNION {ToSet(a) : a \in ToSet(attrs')} = UNION {ToSet(a) : a \in ToSet(attrs)}
    <3>1. ToSet(<< >>) = {}
      BY DEF ToSet
    <3>2. QED
      BY <1>4, <3>1
  <2>3. /\ OtherRows' = ToSet(rows'["mcast"]) \cup ToSet(rows'["set"]) \cup
                        UNION {ToSet(a) : a \in ToSet(attrs')}
    BY DEF OtherRows, ToSet
  <2>4. Ops' = Ops /\ OtherRows' = OtherRows \cup {Row}
    BY <1>3, <2>1, <2>2, <2>3 DEF Ops, OtherRows
  <2>5. QED
    BY <1>1, <2>4, ReadCustody
<1>8. ReadingOK' /\ copied' \subseteq NameToken \cup DescToken /\ copied \subseteq copied'
  BY <1>1, <1>4, ReadOn
<1>9. ShapeOK'
  BY <1>1, <1>2, <1>3, <1>4, <1>8 DEF OverlayInv, ShapeOK
<1>10. TypeOK'
  <2>1. /\ i \in Nat /\ kept \in 0..(i - 1) /\ freed \subseteq copied /\ doubled \subseteq freed
        /\ Len(attrs) = Len(rows["set"])
    BY DEF OverlayInv, TypeOK
  <2>2. QED
    BY <1>1, <1>2, <1>3, <1>4, <1>6, <1>7, <1>8, <1>9, <2>1, TypeFromShape DEF Reading
<1>11. MergeOK' /\ AllFreed'
  BY <1>1, <1>2 DEF OverlayInv, MergeOK, AllFreed, File
<1>12. QED
  BY <1>6, <1>7, <1>8, <1>9, <1>10, <1>11 DEF OverlayInv

\* read_attr_entries_into_set appends to the set opened last.
LEMMA ReadAttrKeeps ==
  ASSUME OverlayInv, ReadAttr PROVE OverlayInv'
<1>1. /\ AtEntry({"attr"}) /\ attrs' = [attrs EXCEPT ![Len(attrs)] = Append(@, Row)]
      /\ Grow("attr") /\ Copy /\ pos' = pos + 1
      /\ UNCHANGED <<file, phase, rows, i, kept, freed, doubled>>
  BY DEF ReadAttr
<1>2. /\ Row \in RowType /\ pos + 1 \in 1..(Len(file[phase]) + 1)
      /\ phase = "generated" /\ phase \in File /\ file[phase] # Missing
  BY <1>1, NewRow, OnlyGenerated DEF OverlayInv, AtEntry, Reading
<1>3. \E m \in 1..(pos - 1) : file[phase][m].sec = "set"
  <2>1. file[phase] \in GeneratedFiles \ {Missing}
    BY <1>2 DEF OverlayInv, ShapeOK
  <2>2. pos \in DOMAIN file[phase]
    BY <1>1, <2>1, FileAssumption DEF AtEntry, OverlayInv, ShapeOK
  <2>3. QED
    BY <1>1, <2>1, <2>2, FileAssumption DEF AtEntry, Entry
<1>4. attrs \in Seq(Seq(RowType)) /\ attrs # << >>
  BY <1>2, <1>3 DEF OverlayInv, ShapeOK, ReadingOK
<1>5. PICK n \in DOMAIN attrs : n = Len(attrs)
  BY <1>4
<1>6. /\ attrs[n] \in Seq(RowType) /\ Append(attrs[n], Row) \in Seq(RowType)
      /\ ToSet(Append(attrs[n], Row)) = ToSet(attrs[n]) \cup {Row}
  <2>1. attrs[n] \in Seq(RowType)
    BY <1>4, <1>5
  <2>2. QED
    BY <1>2, <2>1, ToSetAppend
<1>7. /\ attrs' = [attrs EXCEPT ![n] = Append(attrs[n], Row)]
      /\ attrs' \in Seq(Seq(RowType)) /\ Len(attrs') = Len(attrs) /\ attrs' # << >>
      /\ DOMAIN attrs' = DOMAIN attrs
      /\ \A m \in DOMAIN attrs : attrs'[m] = IF m = n THEN Append(attrs[n], Row) ELSE attrs[m]
  <2>1. attrs' = [attrs EXCEPT ![n] = Append(attrs[n], Row)]
    BY <1>1, <1>5
  <2>2. attrs' \in Seq(Seq(RowType)) /\ Len(attrs') = Len(attrs)
    BY <1>4, <1>5, <1>6, <2>1
  <2>3. QED
    BY <1>4, <1>5, <2>1, <2>2
<1>8. UNION {ToSet(a) : a \in ToSet(attrs')} = {Row} \cup UNION {ToSet(a) : a \in ToSet(attrs)}
  <2>1. ToSet(attrs') = {attrs'[m] : m \in DOMAIN attrs'} /\ ToSet(attrs) = {attrs[m] : m \in DOMAIN attrs}
    BY DEF ToSet
  <2>2. \A m \in DOMAIN attrs : ToSet(attrs'[m]) = IF m = n THEN ToSet(attrs[n]) \cup {Row} ELSE ToSet(attrs[m])
    BY <1>6, <1>7
  <2>3. ASSUME NEW r
        PROVE  r \in UNION {ToSet(a) : a \in ToSet(attrs')} <=> \E m \in DOMAIN attrs : r \in ToSet(attrs'[m])
    <3>1. r \in UNION {ToSet(a) : a \in ToSet(attrs')} <=> \E a \in ToSet(attrs') : r \in ToSet(a)
      OBVIOUS
    <3>2. DOMAIN attrs' = DOMAIN attrs
      BY <1>7
    <3>3. QED
      BY <2>1, <3>1, <3>2
  <2>4. ASSUME NEW r
        PROVE  r \in UNION {ToSet(a) : a \in ToSet(attrs)} <=> \E m \in DOMAIN attrs : r \in ToSet(attrs[m])
    BY <2>1
  <2>5. ASSUME NEW r
        PROVE  r \in UNION {ToSet(a) : a \in ToSet(attrs')}
                 <=> r \in {Row} \cup UNION {ToSet(a) : a \in ToSet(attrs)}
    <3>1. \A m \in DOMAIN attrs : r \in ToSet(attrs'[m]) <=> r \in ToSet(attrs[m]) \/ (m = n /\ r = Row)
      BY <1>5, <2>2
    <3>2. QED
      BY <1>5, <2>3, <2>4, <3>1
  <2>6. QED
    BY <2>5
<1>16. /\ Count("attr")' = Count("attr") + 1
       /\ \A t \in Section \ {"attr"} : Count(t)' = Count(t)
  <2>1. OpenAttrs = attrs[n] /\ OpenAttrs' = Append(attrs[n], Row)
    BY <1>4, <1>5, <1>7 DEF OpenAttrs, Last
  <2>2. Len(Append(attrs[n], Row)) = Len(attrs[n]) + 1
    BY <1>2, <1>6
  <2>3. QED
    BY <1>1, <2>1, <2>2 DEF Count, Section
<1>9. CapsOK' /\ cap' \in [Section -> Nat] /\ alloc' \in [Section -> Nat]
  BY <1>1, <1>2, <1>16, AppendFits DEF Section
<1>10. CustodyOK' /\ RowsCopied'
  <2>1. OtherRows' = ToSet(rows["mcast"]) \cup ToSet(rows["set"]) \cup
                     UNION {ToSet(a) : a \in ToSet(attrs')}
    BY <1>1 DEF OtherRows, ToSet
  <2>2. Ops' = Ops /\ OtherRows' = OtherRows \cup {Row}
    BY <1>1, <1>8, <2>1 DEF Ops, OtherRows
  <2>3. QED
    BY <1>1, <2>2, ReadCustody
<1>11. ReadingOK' /\ copied' \subseteq NameToken \cup DescToken /\ copied \subseteq copied'
  BY <1>1, <1>7, ReadOn
<1>12. ShapeOK'
  BY <1>1, <1>2, <1>7, <1>11 DEF OverlayInv, ShapeOK
<1>13. TypeOK'
  <2>1. /\ i \in Nat /\ kept \in 0..(i - 1) /\ freed \subseteq copied /\ doubled \subseteq freed
        /\ Len(attrs) = Len(rows["set"])
    BY DEF OverlayInv, TypeOK
  <2>2. QED
    BY <1>1, <1>2, <1>7, <1>9, <1>10, <1>11, <1>12, <2>1, TypeFromShape DEF Reading
<1>14. MergeOK' /\ AllFreed'
  BY <1>1, <1>2 DEF OverlayInv, MergeOK, AllFreed, File
<1>15. QED
  BY <1>9, <1>10, <1>11, <1>12, <1>13, <1>14 DEF OverlayInv

\* A load that fails: overlay_destroy frees what all rows own, and the caller
\* the strings of the row it was reading, S, all of them but a type hint.
LEMMA FailKeeps ==
  ASSUME OverlayInv, Reading, NEW S, Fail(S), copied \subseteq copied',
         copied' \subseteq NameToken \cup DescToken, S \subseteq copied' \cup {NoText},
         S \cap copied \subseteq {NoText},
         \A s \in copied' \ copied : \/ s \in S
                                     \/ s[3] = "desc" /\ s[2] = pos /\ file[s[1]][pos].sec = "attr"
  PROVE  OverlayInv'
<1>1. /\ phase \in File /\ phase # "merge" /\ phase' = "failed"
      /\ UNCHANGED <<file, pos, rows, attrs, cap, alloc, i, kept>>
      /\ freed' = freed \cup ((S \cup Owned) \ {NoText})
      /\ doubled' = doubled \cup (((S \cup Owned) \ {NoText}) \cap freed)
  BY DEF Reading, Fail, Free, arrays, File
<1>2. freed = {} /\ doubled = {} /\ Owned \ {NoText} = copied
  BY <1>1, OwnedParts DEF OverlayInv, ReadingOK, CustodyOK
<1>3. freed' = copied \cup (S \ {NoText}) /\ doubled' = {}
  BY <1>1, <1>2
<1>4. ShapeOK'
  BY <1>1 DEF OverlayInv, ShapeOK
<1>5. RowsCopied'
  <2>1. RowsCopied
    BY CopiedFromType DEF OverlayInv
  <2>2. ToSet(Ops)' = ToSet(Ops) /\ OtherRows' = OtherRows
    BY <1>1 DEF Ops, OtherRows, ToSet
  <2>3. QED
    BY <2>1, <2>2 DEF RowsCopied, StringsOf
<1>6. TypeOK'
  <2>1. /\ i \in Nat /\ kept \in 0..(i - 1) /\ Len(attrs) = Len(rows["set"])
        /\ cap \in [Section -> Nat] /\ alloc \in [Section -> Nat]
    BY DEF OverlayInv, TypeOK
  <2>2. freed' \subseteq copied' /\ doubled' \subseteq freed'
    BY <1>3
  <2>3. ~Reading'
    BY <1>1 DEF Reading, File
  <2>4. QED
    BY <1>1, <1>4, <1>5, <2>1, <2>2, <2>3, TypeFromShape
<1>7. ReadingOK' /\ CapsOK' /\ CustodyOK' /\ MergeOK'
  BY <1>1 DEF OverlayInv, ReadingOK, CapsOK, WithinAllocation, Count, OpenAttrs, CustodyOK, MergeOK, File
<1>8. AllFreed'
  <2>1. NoText \notin copied'
    BY TextAssumption
  <2>2. \A s \in copied' \ freed' :
           s[3] = "desc" /\ s[2] = pos' /\ file'[s[1]][pos'].sec = "attr"
    BY <1>1, <1>3, <2>1
  <2>3. QED
    BY <1>1, <1>3, <2>2 DEF AllFreed
<1>9. QED
  BY <1>4, <1>6, <1>7, <1>8 DEF OverlayInv

\* No memory for a row: its own strings are freed with the rest.
LEMMA RowOomKeeps ==
  ASSUME OverlayInv, RowOom PROVE OverlayInv'
<1>1. AtEntry({"op", "mcast", "set"}) /\ Copy /\ Fail(StringsOf(Row))
  BY DEF RowOom
<1>2. Row \in RowType /\ StringsOf(Row) \cap copied \subseteq {NoText}
  BY <1>1, NewRow DEF OverlayInv
<1>3. copied' = copied \cup (StringsOf(Row) \ {NoText})
  BY <1>1 DEF Copy
<1>4. copied' \subseteq NameToken \cup DescToken
  BY <1>2, <1>3 DEF OverlayInv, ShapeOK, StringsOf, RowType
<1>5. QED
  BY <1>1, <1>2, <1>3, <1>4, FailKeeps DEF AtEntry

\* No memory for an attribute: its name is freed with the rest, its type hint
\* is not.
LEMMA AttrOomKeeps ==
  ASSUME OverlayInv, AttrOom PROVE OverlayInv'
<1>1. AtEntry({"attr"}) /\ Copy /\ Fail({Row.name})
  BY DEF AttrOom
<1>2. /\ Row \in RowType /\ StringsOf(Row) \cap copied \subseteq {NoText}
      /\ \A s \in StringsOf(Row) \ {NoText} : s[1] = phase /\ s[2] = pos
      /\ Row.desc # NoText => Row.desc[3] = "desc"
  BY <1>1, NewRow DEF OverlayInv
<1>3. copied' = copied \cup (StringsOf(Row) \ {NoText}) /\ StringsOf(Row) = {Row.name, Row.desc}
  BY <1>1 DEF Copy, StringsOf
<1>4. copied' \subseteq NameToken \cup DescToken
  BY <1>2, <1>3 DEF OverlayInv, ShapeOK, RowType
<1>5. file[phase][pos].sec = "attr"
  BY <1>1 DEF AtEntry, Entry
<1>6. ASSUME NEW s \in copied' \ copied
      PROVE  \/ s \in {Row.name}
             \/ s[3] = "desc" /\ s[2] = pos /\ file[s[1]][pos].sec = "attr"
  BY <1>2, <1>3, <1>5
<1>7. QED
  BY <1>1, <1>2, <1>3, <1>4, <1>6, FailKeeps DEF AtEntry

\* A file that cannot be opened or read: nothing new was copied.
LEMMA BadKeeps ==
  ASSUME OverlayInv, ReadBad \/ OpenFails PROVE OverlayInv'
<1>1. Reading /\ copied' = copied /\ Fail({})
  BY DEF ReadBad, OpenFails, AtEntry
<1>2. QED
  BY <1>1, FailKeeps DEF OverlayInv, ShapeOK

\* The second file starts with the capacities the arrays have use for.
LEMMA NextFileKeeps ==
  ASSUME OverlayInv, NextFile PROVE OverlayInv'
<1>1. /\ phase = "generated" /\ phase' = "curated" /\ pos' = 1
      /\ cap' = [op |-> Count("op"), mcast |-> Count("mcast"), set |-> 0, attr |-> 0]
      /\ UNCHANGED <<file, rows, attrs, alloc, i, kept, copied, freed, doubled>>
  BY DEF NextFile, strings
<1>2. /\ rows \in [{"op", "mcast", "set"} -> Seq(RowType)] /\ RowsCopied
      /\ Len(rows["op"]) \in Nat /\ Len(rows["mcast"]) \in Nat
  BY CopiedFromType DEF OverlayInv, ShapeOK
<1>3. cap' \in [Section -> Nat] /\ cap'["op"] = Len(rows["op"]) /\ cap'["mcast"] = Len(rows["mcast"])
  BY <1>1, <1>2 DEF Count, Section
<1>4. CapsOK'
  BY <1>1, <1>2, <1>3 DEF OverlayInv, CapsOK, WithinAllocation, Count, OpenAttrs
<1>5. ShapeOK'
  BY <1>1 DEF OverlayInv, ShapeOK
<1>6. TypeOK'
  <2>1. RowsCopied'
    <3>1. Ops' = Ops /\ OtherRows' = OtherRows
      BY <1>1 DEF Ops, OtherRows, ToSet
    <3>2. QED
      BY <1>1, <1>2, <3>1 DEF RowsCopied, ToSet, StringsOf
  <2>2. Reading' => pos' \in 1..(Len(file'[phase']) + 1)
    <3>1. SUFFICES ASSUME file["curated"] # Missing PROVE 1 \in 1..(Len(file["curated"]) + 1)
      BY <1>1 DEF Reading
    <3>2. Len(file["curated"]) \in Nat
      BY <3>1, FileAssumption DEF OverlayInv, ShapeOK
    <3>3. QED
      BY <3>2
  <2>3. /\ i \in Nat /\ kept \in 0..(i - 1) /\ freed \subseteq copied /\ doubled \subseteq freed
        /\ Len(attrs) = Len(rows["set"]) /\ alloc \in [Section -> Nat]
    BY DEF OverlayInv, TypeOK
  <2>4. QED
    BY <1>1, <1>3, <1>5, <2>1, <2>2, <2>3, TypeFromShape DEF File
<1>7. ReadingOK'
  BY <1>1 DEF OverlayInv, ReadingOK, File
<1>8. CustodyOK'
  BY <1>1 DEF OverlayInv, CustodyOK, OpStrings, LiveOps, Ops, OtherStrings, OtherRows, StringsOf,
              ToSet, File
<1>9. MergeOK' /\ AllFreed'
  BY <1>1 DEF OverlayInv, MergeOK, AllFreed
<1>10. QED
  BY <1>4, <1>5, <1>6, <1>7, <1>8, <1>9 DEF OverlayInv

\* Both files are read: the merge starts, or there was none and no overlay.
LEMMA EndReadKeeps ==
  ASSUME OverlayInv, NoOverlay \/ StartMerge PROVE OverlayInv'
<1>1. /\ phase = "curated" /\ phase' \in {"none", "merge"}
      /\ phase' = "none" => \A f \in File : file[f] = Missing
      /\ UNCHANGED <<file, pos, rows, attrs, cap, alloc, i, kept, copied, freed, doubled>>
  BY DEF NoOverlay, StartMerge, arrays, strings
<1>2. ShapeOK'
  BY <1>1 DEF OverlayInv, ShapeOK
<1>3. TypeOK'
  <2>1. RowsCopied
    BY CopiedFromType DEF OverlayInv
  <2>2. RowsCopied'
    BY <1>1, <2>1 DEF RowsCopied, Ops, OtherRows, ToSet, StringsOf
  <2>3. /\ i \in Nat /\ kept \in 0..(i - 1) /\ freed \subseteq copied /\ doubled \subseteq freed
        /\ Len(attrs) = Len(rows["set"]) /\ cap \in [Section -> Nat] /\ alloc \in [Section -> Nat]
    BY DEF OverlayInv, TypeOK
  <2>4. ~Reading'
    BY <1>1 DEF Reading, File
  <2>5. QED
    BY <1>1, <1>2, <2>2, <2>3, <2>4, TypeFromShape
<1>4. ReadingOK' /\ CapsOK'
  BY <1>1 DEF OverlayInv, ReadingOK, CapsOK, WithinAllocation, Count, OpenAttrs, File
<1>5. i = 1 /\ kept = 0 /\ freed = {} /\ Len(Ops) \in Nat
  BY <1>1 DEF OverlayInv, ReadingOK, ShapeOK, Ops, File
<1>6. CustodyOK'
  <2>1. SUFFICES ASSUME phase' = "merge" PROVE CustodyOK'
    BY <1>1 DEF CustodyOK, File
  <2>2. LiveOps' = LiveOps
    <3>1. DOMAIN Ops = 1..Len(Ops) /\ Ops' = Ops
      BY <1>1 DEF OverlayInv, ShapeOK, Ops
    <3>2. LiveOps = DOMAIN Ops
      BY <1>1 DEF LiveOps
    <3>3. LiveOps' = 1..0 \cup 1..Len(Ops)
      BY <1>1, <1>5, <2>1, <3>1 DEF LiveOps
    <3>4. QED
      BY <1>5, <3>1, <3>2, <3>3
  <2>3. OpStrings' = OpStrings /\ OtherStrings' = OtherStrings
    BY <1>1, <2>2 DEF OpStrings, OtherStrings, OtherRows, Ops, ToSet, StringsOf
  <2>4. CustodyOK
    BY DEF OverlayInv
  <2>5. QED
    BY <1>1, <2>2, <2>3, <2>4 DEF CustodyOK, Ops, StringsOf, File
<1>7. MergeOK'
  BY <1>1, <1>5 DEF MergeOK, Ops
<1>8. AllFreed'
  <2>1. phase' = "none" => copied = {}
    BY <1>1 DEF OverlayInv, ShapeOK, ReadingOK, NameToken, DescToken, File
  <2>2. doubled = {}
    BY DEF OverlayInv, AllFreed
  <2>3. QED
    BY <1>1, <1>5, <2>1, <2>2 DEF AllFreed
<1>9. QED
  BY <1>2, <1>3, <1>4, <1>6, <1>7, <1>8 DEF OverlayInv

-----------------------------------------------------------------------------
(* The merge.                                                              *)

\* Pairs of naturals in order, for the induction theorem of the library.
Below == {p \in Nat \X Nat : p[1] < p[2]}

\* A search that takes the first hit finds one if there is any.
LEMMA LeastOf ==
  ASSUME NEW S \in SUBSET Nat, S # {}
  PROVE  \E k \in S : \A m \in S : k <= m
<1>1. Below = OpToRel(<, Nat)
  BY DEF Below, OpToRel
<1>2. IsWellFoundedOn(Below, Nat)
  BY <1>1, NatLessThanWellFounded
<1>3. PICK k \in S : \A m \in S : ~(<<m, k>> \in Below)
  BY <1>2, WFMin
<1>4. ASSUME NEW m \in S PROVE k <= m
  <2>1. ASSUME m < k PROVE FALSE
    <3>1. <<m, k>> \in Below
      BY <2>1 DEF Below
    <3>2. QED
      BY <1>3, <3>1
  <2>2. m \in Nat /\ k \in Nat
    OBVIOUS
  <2>3. QED
    BY <2>1, <2>2
<1>5. QED
  BY <1>4

\* Where the merge stands: row i is still owned, the place it may move up to
\* is its own or one left behind.
LEMMA AtRow ==
  ASSUME OverlayInv, Merging
  PROVE  /\ phase = "merge" /\ Ops \in Seq(RowType) /\ Ops = rows["op"]
         /\ DOMAIN Ops = 1..Len(Ops) /\ Len(Ops) \in Nat
         /\ i \in Nat /\ kept \in Nat /\ kept < i /\ i <= Len(Ops)
         /\ LiveOps = 1..kept \cup i..Len(Ops) /\ i \in LiveOps /\ LiveOps \subseteq DOMAIN Ops
<1>1. phase = "merge" /\ i <= Len(Ops)
  BY DEF Merging
<1>2. Ops \in Seq(RowType) /\ Ops = rows["op"]
  BY DEF OverlayInv, ShapeOK, Ops
<1>3. i \in Nat /\ kept \in 0..(i - 1)
  BY DEF OverlayInv, TypeOK
<1>4. LiveOps = 1..kept \cup i..Len(Ops)
  BY <1>1 DEF LiveOps
<1>5. Len(Ops) \in Nat /\ DOMAIN Ops = 1..Len(Ops)
  BY <1>2
<1>6. kept < i
  BY <1>1 DEF OverlayInv, MergeOK
<1>7. QED
  BY <1>1, <1>2, <1>3, <1>4, <1>5, <1>6

\* What every step of the merge has in common: the invariant follows from who
\* owns the strings afterwards, and from what is left behind.
LEMMA MergeStep ==
  ASSUME OverlayInv, phase = "merge", phase' = "merge",
         UNCHANGED <<file, pos, attrs, cap, alloc, copied>>,
         NEW ops \in Seq(RowType), Len(ops) = Len(Ops), rows' = [rows EXCEPT !["op"] = ops],
         \A k \in DOMAIN ops : StringsOf(ops[k]) \subseteq copied \cup {NoText},
         i' = i + 1, kept' \in 0..i, MergeOK',
         NEW S, S \subseteq OpStrings \cup {NoText}, Free(S),
         OpStrings' \ {NoText} = (OpStrings \ S) \ {NoText},
         \A k, m \in LiveOps' :
            k # m => StringsOf(ops[k]) \cap StringsOf(ops[m]) \subseteq {NoText}
  PROVE  OverlayInv'
<1>1. /\ freed' = freed \cup (S \ {NoText})
      /\ doubled' = doubled \cup ((S \ {NoText}) \cap freed)
  BY DEF Free
<1>2. /\ rows \in [{"op", "mcast", "set"} -> Seq(RowType)]
      /\ rows' \in [{"op", "mcast", "set"} -> Seq(RowType)]
      /\ rows'["op"] = ops /\ rows'["mcast"] = rows["mcast"] /\ rows'["set"] = rows["set"]
      /\ Ops' = ops
  BY DEF OverlayInv, ShapeOK, Ops
<1>3. OtherRows' = OtherRows /\ OtherStrings' = OtherStrings
  BY <1>2 DEF OtherRows, OtherStrings, ToSet, StringsOf
<1>4. /\ doubled = {} /\ (OpStrings \cup OtherStrings) \ {NoText} = copied \ freed
      /\ OpStrings \cap OtherStrings \subseteq {NoText}
  BY DEF OverlayInv, CustodyOK
<1>5. doubled' = {} /\ freed' \subseteq copied /\ freed \subseteq copied
  BY <1>1, <1>4 DEF OverlayInv, TypeOK
<1>6. CustodyOK'
  <2>1. /\ (OpStrings' \cup OtherStrings') \ {NoText} = copied' \ freed'
        /\ OpStrings' \cap OtherStrings' \subseteq {NoText}
    BY <1>1, <1>3, <1>4, <1>5
  <2>2. QED
    BY <1>2, <1>5, <2>1 DEF CustodyOK, StringsOf
<1>7. ShapeOK'
  BY <1>2 DEF OverlayInv, ShapeOK
<1>8. TypeOK'
  <2>1. RowsCopied'
    <3>1. RowsCopied
      BY CopiedFromType DEF OverlayInv
    <3>2. \A r \in ToSet(ops) : StringsOf(r) \subseteq copied \cup {NoText}
      BY DEF ToSet
    <3>3. QED
      BY <1>2, <1>3, <3>1, <3>2 DEF RowsCopied, StringsOf, ToSet
  <2>2. /\ i \in Nat /\ Len(attrs) = Len(rows["set"])
        /\ cap \in [Section -> Nat] /\ alloc \in [Section -> Nat]
    BY DEF OverlayInv, TypeOK
  <2>3. ~Reading'
    BY DEF Reading, File
  <2>4. QED
    BY <1>2, <1>5, <1>7, <2>1, <2>2, <2>3, TypeFromShape
<1>9. CapsOK'
  <2>1. Len(rows'["op"]) = Len(rows["op"])
    BY <1>2 DEF Ops
  <2>2. QED
    BY <1>2, <2>1 DEF OverlayInv, CapsOK, WithinAllocation, Count, OpenAttrs, File
<1>10. ReadingOK' /\ AllFreed'
  BY <1>5 DEF ReadingOK, AllFreed, File
<1>11. QED
  BY <1>6, <1>7, <1>8, <1>9, <1>10 DEF OverlayInv

\* A kept row moves up into a place nobody owns.
LEMMA KeepKeeps ==
  ASSUME OverlayInv, Keep PROVE OverlayInv'
<1>1. /\ Merging /\ Ops[i].id # 0
      /\ rows' = [rows EXCEPT !["op"][kept + 1] = Ops[i]]
      /\ kept' = kept + 1 /\ i' = i + 1 /\ phase' = phase
      /\ UNCHANGED <<file, pos, attrs, cap, alloc, copied, freed, doubled>>
  BY DEF Keep, strings
<1>2. /\ phase = "merge" /\ Ops \in Seq(RowType) /\ Ops = rows["op"]
      /\ DOMAIN Ops = 1..Len(Ops) /\ Len(Ops) \in Nat
      /\ i \in Nat /\ kept \in Nat /\ kept < i /\ i <= Len(Ops)
      /\ LiveOps = 1..kept \cup i..Len(Ops)
  BY <1>1, AtRow
<1>3. PICK ops : ops = [Ops EXCEPT ![kept + 1] = Ops[i]]
  OBVIOUS
<1>4. i \in DOMAIN Ops /\ kept + 1 \in DOMAIN Ops /\ Ops[i] \in RowType
  BY <1>2
<1>5. /\ ops \in Seq(RowType) /\ Len(ops) = Len(Ops) /\ DOMAIN ops = DOMAIN Ops
      /\ \A k \in DOMAIN Ops : ops[k] = IF k = kept + 1 THEN Ops[i] ELSE Ops[k]
  BY <1>2, <1>3, <1>4
<1>6. rows' = [rows EXCEPT !["op"] = ops] /\ Ops' = ops
  BY <1>1, <1>2, <1>3 DEF OverlayInv, ShapeOK, Ops
<1>7. LiveOps' = 1..(kept + 1) \cup (i + 1)..Len(Ops)
  BY <1>1, <1>2, <1>5, <1>6 DEF LiveOps
<1>8. OpStrings' = OpStrings
  <2>1. OpStrings' = UNION {StringsOf(ops[k]) : k \in LiveOps'}
    BY <1>6 DEF OpStrings, StringsOf
  <2>2. ASSUME NEW s
        PROVE  (\E k \in LiveOps' : s \in StringsOf(ops[k])) <=> (\E k \in LiveOps : s \in StringsOf(Ops[k]))
    <3>1. ASSUME NEW k \in LiveOps', s \in StringsOf(ops[k])
          PROVE  \E m \in LiveOps : s \in StringsOf(Ops[m])
      <4>1. CASE k = kept + 1
        BY <1>2, <1>4, <1>5, <3>1, <4>1
      <4>2. CASE k # kept + 1
        <5>1. k \in LiveOps /\ k \in DOMAIN Ops
          BY <1>2, <1>7, <3>1, <4>2
        <5>2. ops[k] = Ops[k]
          BY <1>5, <4>2, <5>1
        <5>3. QED
          BY <3>1, <5>1, <5>2
      <4>3. QED
        BY <4>1, <4>2
    <3>2. ASSUME NEW k \in LiveOps, s \in StringsOf(Ops[k])
          PROVE  \E m \in LiveOps' : s \in StringsOf(ops[m])
      <4>1. CASE k = i
        BY <1>2, <1>4, <1>5, <1>7, <3>2, <4>1
      <4>2. CASE k # i
        BY <1>2, <1>5, <1>7, <3>2, <4>2
      <4>3. QED
        BY <4>1, <4>2
    <3>3. QED
      BY <3>1, <3>2
  <2>3. QED
    BY <2>1, <2>2 DEF OpStrings
<1>9. \A k, m \in LiveOps' :
         k # m => StringsOf(ops[k]) \cap StringsOf(ops[m]) \subseteq {NoText}
  <2>1. \A k, m \in LiveOps : k # m => StringsOf(Ops[k]) \cap StringsOf(Ops[m]) \subseteq {NoText}
    BY <1>2 DEF OverlayInv, CustodyOK
  <2>2. ASSUME NEW k \in LiveOps', NEW m \in LiveOps', k # m
        PROVE  StringsOf(ops[k]) \cap StringsOf(ops[m]) \subseteq {NoText}
    <3> DEFINE from(n) == IF n = kept + 1 THEN i ELSE n
    <3>0. \A n \in LiveOps' : from(n) \in LiveOps /\ ops[n] = Ops[from(n)]
      <4>1. ASSUME NEW n \in LiveOps', n # kept + 1 PROVE n \in LiveOps /\ n \in DOMAIN Ops
        BY <1>2, <1>7, <4>1
      <4>2. i \in LiveOps /\ ops[kept + 1] = Ops[i]
        BY <1>2, <1>4, <1>5
      <4>3. QED
        BY <1>5, <4>1, <4>2
    <3>1. PICK k0 \in LiveOps : ops[k] = Ops[k0] /\ k0 = from(k)
      BY <2>2, <3>0
    <3>2. PICK m0 \in LiveOps : ops[m] = Ops[m0] /\ m0 = from(m)
      BY <2>2, <3>0
    <3>3. k0 # m0
      BY <1>2, <1>7, <2>2, <3>1, <3>2
    <3>4. QED
      BY <2>1, <3>1, <3>2, <3>3
  <2>3. QED
    BY <2>2
<1>10. \A k \in DOMAIN ops : StringsOf(ops[k]) \subseteq copied \cup {NoText}
  <2>1. \A k \in DOMAIN Ops : StringsOf(Ops[k]) \subseteq copied \cup {NoText}
    BY CopiedFromType DEF OverlayInv, RowsCopied, ToSet
  <2>2. QED
    BY <1>4, <1>5, <2>1
<1>11. MergeOK'
  <2>1. /\ \A k \in 1..kept : Ops[k].id # 0
        /\ \A k \in (kept + 1)..(i - 1) :
             Ops[k].id # 0 => \E m \in 1..kept : Ops[m].name = Ops[k].name
    BY <1>2 DEF OverlayInv, MergeOK
  <2>2. i' <= Len(ops) + 1 /\ kept' < i'
    BY <1>1, <1>2, <1>5
  <2>3. \A k \in 1..kept' : ops[k].id # 0
    BY <1>1, <1>2, <1>4, <1>5, <2>1
  <2>4. ASSUME NEW k \in (kept' + 1)..(i' - 1), ops[k].id # 0
        PROVE  \E m \in 1..kept' : ops[m].name = ops[k].name
    <3>1. k \in DOMAIN Ops /\ k # kept + 1 /\ ops[k] = Ops[k] /\ k \in (kept + 2)..i
      BY <1>1, <1>2, <1>5
    <3>2. CASE k = i
      BY <1>1, <1>2, <1>4, <1>5, <3>1, <3>2
    <3>3. CASE k # i
      <4>1. PICK m \in 1..kept : Ops[m].name = Ops[k].name
        BY <1>2, <2>1, <2>4, <3>1, <3>3
      <4>2. m \in 1..kept' /\ ops[m] = Ops[m]
        BY <1>1, <1>2, <1>5
      <4>3. QED
        BY <3>1, <4>1, <4>2
    <3>4. QED
      BY <3>2, <3>3
  <2>5. QED
    BY <1>5, <1>6, <2>2, <2>3, <2>4 DEF MergeOK
<1>12. Free({})
  BY <1>1 DEF Free
<1>13. kept' \in 0..i
  BY <1>1, <1>2
<1>14. QED
  BY <1>1, <1>2, <1>5, <1>6, <1>8, <1>9, <1>10, <1>11, <1>12, <1>13, MergeStep

\* A row that is dropped, or has given its description away, is left behind:
\* all other owners stay, and what is left behind has no cmd id.
LEMMA LeaveRow ==
  ASSUME OverlayInv, Merging, Ops[i].id = 0, phase' = phase, kept' = kept, i' = i + 1,
         Len(Ops') = Len(Ops), Ops' \in Seq(RowType),
         \A k \in DOMAIN Ops : Ops'[k].id = Ops[k].id /\ Ops'[k].name = Ops[k].name
  PROVE  MergeOK' /\ LiveOps' = LiveOps \ {i} /\ kept' \in 0..i
<1>1. /\ phase = "merge" /\ Ops \in Seq(RowType)
      /\ DOMAIN Ops = 1..Len(Ops) /\ Len(Ops) \in Nat
      /\ i \in Nat /\ kept \in Nat /\ kept < i /\ i <= Len(Ops)
      /\ LiveOps = 1..kept \cup i..Len(Ops)
  BY AtRow
<1>2. LiveOps' = 1..kept \cup (i + 1)..Len(Ops)
  BY <1>1 DEF LiveOps
<1>3. LiveOps' = LiveOps \ {i}
  BY <1>1, <1>2
<1>4. MergeOK'
  <2>1. /\ \A k \in 1..kept : Ops[k].id # 0
        /\ \A k \in (kept + 1)..(i - 1) :
             Ops[k].id # 0 => \E m \in 1..kept : Ops[m].name = Ops[k].name
    BY <1>1 DEF OverlayInv, MergeOK
  <2>2. \A k \in 1..kept : Ops'[k].id # 0
    BY <1>1, <2>1
  <2>3. ASSUME NEW k \in (kept + 1)..i, Ops'[k].id # 0
        PROVE  \E m \in 1..kept : Ops'[m].name = Ops'[k].name
    <3>1. k \in DOMAIN Ops /\ k # i /\ Ops[k].id # 0
      BY <1>1, <2>3
    <3>2. PICK m \in 1..kept : Ops[m].name = Ops[k].name
      BY <1>1, <2>1, <3>1
    <3>3. QED
      BY <1>1, <3>1, <3>2
  <2>4. i' <= Len(Ops') + 1 /\ kept' < i' /\ (kept' + 1)..(i' - 1) = (kept + 1)..i
    BY <1>1
  <2>5. QED
    BY <2>2, <2>3, <2>4 DEF MergeOK
<1>5. QED
  BY <1>1, <1>3, <1>4

\* A curated row that names nothing is dropped with its strings.
LEMMA DropKeeps ==
  ASSUME OverlayInv, Drop PROVE OverlayInv'
<1>1. /\ Merging /\ Ops[i].id = 0 /\ Free(StringsOf(Ops[i])) /\ i' = i + 1
      /\ UNCHANGED <<file, phase, pos, rows, attrs, cap, alloc, kept, copied>>
  BY DEF Drop, arrays
<1>2. /\ phase = "merge" /\ Ops \in Seq(RowType) /\ Ops' = Ops /\ rows' = [rows EXCEPT !["op"] = Ops]
      /\ i \in LiveOps /\ LiveOps \subseteq DOMAIN Ops
  <2>1. phase = "merge" /\ Ops \in Seq(RowType) /\ i \in LiveOps /\ LiveOps \subseteq DOMAIN Ops
    BY <1>1, AtRow
  <2>2. rows = [rows EXCEPT !["op"] = rows["op"]]
    BY DEF OverlayInv, ShapeOK
  <2>3. QED
    BY <1>1, <2>1, <2>2 DEF Ops
<1>3. MergeOK' /\ LiveOps' = LiveOps \ {i} /\ kept' \in 0..i
  BY <1>1, <1>2, LeaveRow
<1>4. \A k, m \in LiveOps : k # m => StringsOf(Ops[k]) \cap StringsOf(Ops[m]) \subseteq {NoText}
  BY <1>2 DEF OverlayInv, CustodyOK
<1>5. OpStrings' \ {NoText} = (OpStrings \ StringsOf(Ops[i])) \ {NoText}
  <2>1. OpStrings' = UNION {StringsOf(Ops[k]) : k \in LiveOps \ {i}}
    BY <1>2, <1>3 DEF OpStrings, StringsOf
  <2>2. QED
    BY <1>2, <1>4, <2>1 DEF OpStrings
<1>6. StringsOf(Ops[i]) \subseteq OpStrings \cup {NoText}
  BY <1>2 DEF OpStrings
<1>7. \A k \in DOMAIN Ops : StringsOf(Ops[k]) \subseteq copied \cup {NoText}
  BY CopiedFromType DEF OverlayInv, RowsCopied, ToSet
<1>8. \A k, m \in LiveOps' :
         k # m => StringsOf(Ops[k]) \cap StringsOf(Ops[m]) \subseteq {NoText}
  BY <1>3, <1>4
<1>9. PICK S : S = StringsOf(Ops[i])
  OBVIOUS
<1>10. PICK ops \in Seq(RowType) : ops = Ops
  BY <1>2
<1>11. QED
  BY <1>1, <1>2, <1>3, <1>5, <1>6, <1>7, <1>8, <1>9, <1>10, MergeStep

\* The first namesake is a row that still owns its strings, never one left
\* behind: those that were kept have their name further up.
LEMMA NamesakeLive ==
  ASSUME OverlayInv, Merging, Namesakes # {},
         NEW j, j = CHOOSE n \in Namesakes : \A m \in Namesakes : n <= m
  PROVE  j \in LiveOps /\ j # i
<1>1. /\ phase = "merge" /\ DOMAIN Ops = 1..Len(Ops) /\ Len(Ops) \in Nat
      /\ i \in Nat /\ kept \in Nat /\ kept < i /\ i <= Len(Ops)
      /\ LiveOps = 1..kept \cup i..Len(Ops)
  BY AtRow
<1>2. Namesakes \in SUBSET Nat /\ Namesakes \subseteq DOMAIN Ops
  BY <1>1 DEF Namesakes
<1>3. j \in Namesakes /\ \A m \in Namesakes : j <= m
  BY <1>2, LeastOf
<1>4. j \in DOMAIN Ops /\ j # i /\ Ops[j].id # 0
  BY <1>3 DEF Namesakes
<1>5. ASSUME j \notin LiveOps PROVE FALSE
  <2>1. j \in (kept + 1)..(i - 1)
    BY <1>1, <1>4, <1>5
  <2>2. PICK m \in 1..kept : Ops[m].name = Ops[j].name /\ Ops[m].id # 0
    BY <1>1, <1>4, <2>1 DEF OverlayInv, MergeOK
  <2>3. m \in Namesakes
    <3>1. m \in DOMAIN Ops /\ m # i
      BY <1>1
    <3>2. Text(Ops[j].name) # NoText /\ Text(Ops[j].name) = Text(Ops[i].name)
      BY <1>3 DEF Namesakes
    <3>3. QED
      BY <2>2, <3>1, <3>2 DEF Namesakes
  <2>4. QED
    BY <1>1, <1>3, <2>1, <2>2, <2>3
<1>6. QED
  BY <1>4, <1>5

\* A curated description changes hands: the generated row's own is freed, and
\* so is the curated row's name.
LEMMA FoldKeeps ==
  ASSUME OverlayInv, Fold PROVE OverlayInv'
<1>1. PICK j : j = CHOOSE n \in Namesakes : \A m \in Namesakes : n <= m
  OBVIOUS
<1>2. /\ Merging /\ Ops[i].id = 0 /\ Namesakes # {} /\ i' = i + 1
      /\ rows' = [rows EXCEPT !["op"][j].desc = Ops[i].desc, !["op"][i].desc = NoText]
      /\ Free({Ops[j].desc, Ops[i].name})
      /\ UNCHANGED <<file, phase, pos, attrs, cap, alloc, kept, copied>>
  BY <1>1 DEF Fold
<1>3. /\ phase = "merge" /\ Ops \in Seq(RowType) /\ Ops = rows["op"]
      /\ i \in LiveOps /\ LiveOps \subseteq DOMAIN Ops
  BY <1>2, AtRow
<1>4. j \in LiveOps /\ j # i /\ j \in DOMAIN Ops /\ i \in DOMAIN Ops
  BY <1>1, <1>2, <1>3, NamesakeLive
<1>5. Ops[i] \in RowType /\ Ops[j] \in RowType
  BY <1>3, <1>4
<1>6. PICK ops : ops = [Ops EXCEPT ![j] = [Ops[j] EXCEPT !.desc = Ops[i].desc],
                                    ![i] = [Ops[i] EXCEPT !.desc = NoText]]
  OBVIOUS
<1>7. /\ ops \in Seq(RowType) /\ Len(ops) = Len(Ops) /\ DOMAIN ops = DOMAIN Ops
      /\ ops[j] = [Ops[j] EXCEPT !.desc = Ops[i].desc]
      /\ ops[i] = [Ops[i] EXCEPT !.desc = NoText]
      /\ \A k \in DOMAIN Ops \ {i, j} : ops[k] = Ops[k]
  <2>1. [Ops[j] EXCEPT !.desc = Ops[i].desc] \in RowType /\ [Ops[i] EXCEPT !.desc = NoText] \in RowType
    BY <1>5 DEF RowType
  <2>2. PICK rj \in RowType : rj = [Ops[j] EXCEPT !.desc = Ops[i].desc]
    BY <2>1
  <2>3. PICK ri \in RowType : ri = [Ops[i] EXCEPT !.desc = NoText]
    BY <2>1
  <2>4. ops = [Ops EXCEPT ![j] = rj, ![i] = ri]
    BY <1>6, <2>2, <2>3
  <2>5. ops \in Seq(RowType) /\ Len(ops) = Len(Ops) /\ DOMAIN ops = DOMAIN Ops
    BY <1>3, <1>4, <2>4
  <2>6. ops[j] = rj /\ ops[i] = ri /\ \A k \in DOMAIN Ops \ {i, j} : ops[k] = Ops[k]
    BY <1>3, <1>4, <2>4
  <2>7. QED
    BY <2>2, <2>3, <2>5, <2>6
<1>8. rows' = [rows EXCEPT !["op"] = ops] /\ Ops' = ops
  <2>1. rows \in [{"op", "mcast", "set"} -> Seq(RowType)]
    BY DEF OverlayInv, ShapeOK
  <2>2. rows' = [rows EXCEPT !["op"] = ops]
    BY <1>2, <1>3, <1>4, <1>6, <2>1
  <2>3. QED
    BY <2>1, <2>2 DEF Ops
<1>9. /\ \A k \in DOMAIN Ops : ops[k].id = Ops[k].id /\ ops[k].name = Ops[k].name
      /\ ops[j].desc = Ops[i].desc /\ ops[i].desc = NoText
      /\ \A k \in DOMAIN Ops \ {i, j} : ops[k].desc = Ops[k].desc
  <2>1. /\ ops[j].id = Ops[j].id /\ ops[j].name = Ops[j].name
        /\ ops[i].id = Ops[i].id /\ ops[i].name = Ops[i].name
        /\ ops[j].desc = Ops[i].desc /\ ops[i].desc = NoText
    BY <1>5, <1>7 DEF RowType
  <2>2. \A k \in DOMAIN Ops \ {i, j} : ops[k] = Ops[k]
    BY <1>7
  <2>3. QED
    BY <2>1, <2>2
<1>10. MergeOK' /\ LiveOps' = LiveOps \ {i} /\ kept' \in 0..i
  BY <1>2, <1>7, <1>8, <1>9, LeaveRow
<1>11. \A k, m \in LiveOps : k # m => StringsOf(Ops[k]) \cap StringsOf(Ops[m]) \subseteq {NoText}
  BY <1>3 DEF OverlayInv, CustodyOK
<1>12. /\ StringsOf(ops[j]) = {Ops[j].name, Ops[i].desc}
       /\ \A k \in LiveOps \ {i, j} : StringsOf(ops[k]) = StringsOf(Ops[k])
       /\ StringsOf(Ops[j]) = {Ops[j].name, Ops[j].desc}
       /\ StringsOf(Ops[i]) = {Ops[i].name, Ops[i].desc}
  BY <1>3, <1>4, <1>9 DEF StringsOf
<1>13. /\ Ops[i].name = Ops[i].desc => Ops[i].name = NoText
       /\ Ops[j].name = Ops[j].desc => Ops[j].name = NoText
  BY <1>5 DEF RowType, NameToken, DescToken
<1>14. OpStrings' \ {NoText} = (OpStrings \ {Ops[j].desc, Ops[i].name}) \ {NoText}
  <2>1. OpStrings' = UNION {StringsOf(ops[k]) : k \in LiveOps \ {i}}
    BY <1>8, <1>10 DEF OpStrings, StringsOf
  <2>2. ASSUME NEW s, s # NoText
        PROVE  (\E k \in LiveOps \ {i} : s \in StringsOf(ops[k]))
                 <=> (\E k \in LiveOps : s \in StringsOf(Ops[k])) /\ s # Ops[j].desc /\ s # Ops[i].name
    <3>1. ASSUME NEW k \in LiveOps \ {i}, s \in StringsOf(ops[k])
          PROVE  (\E m \in LiveOps : s \in StringsOf(Ops[m])) /\ s # Ops[j].desc /\ s # Ops[i].name
      <4>1. CASE k = j /\ s = Ops[j].name
        <5>1. s \in StringsOf(Ops[j]) /\ s # Ops[j].desc
          BY <1>12, <1>13, <2>2, <4>1
        <5>2. s \notin StringsOf(Ops[i])
          BY <1>3, <1>4, <1>11, <2>2, <5>1
        <5>3. QED
          BY <1>4, <1>12, <5>1, <5>2
      <4>2. CASE k = j /\ s = Ops[i].desc
        <5>1. s \in StringsOf(Ops[i]) /\ s # Ops[i].name
          BY <1>12, <1>13, <2>2, <4>2
        <5>2. s \notin StringsOf(Ops[j])
          BY <1>3, <1>4, <1>11, <2>2, <5>1
        <5>3. QED
          BY <1>3, <1>12, <5>1, <5>2
      <4>3. CASE k # j
        <5>1. s \in StringsOf(Ops[k]) /\ k \in LiveOps /\ k # i
          BY <1>12, <3>1, <4>3
        <5>2. /\ StringsOf(Ops[k]) \cap StringsOf(Ops[i]) \subseteq {NoText}
              /\ StringsOf(Ops[k]) \cap StringsOf(Ops[j]) \subseteq {NoText}
          BY <1>3, <1>4, <1>11, <4>3, <5>1
        <5>3. s \notin StringsOf(Ops[i]) /\ s \notin StringsOf(Ops[j])
          BY <2>2, <5>1, <5>2
        <5>4. QED
          BY <1>12, <5>1, <5>3
      <4>4. QED
        BY <1>12, <3>1, <4>1, <4>2, <4>3
    <3>2. ASSUME NEW k \in LiveOps, s \in StringsOf(Ops[k]), s # Ops[j].desc, s # Ops[i].name
          PROVE  \E m \in LiveOps \ {i} : s \in StringsOf(ops[m])
      BY <1>4, <1>12, <3>2
    <3>3. QED
      BY <3>1, <3>2
  <2>3. QED
    BY <2>1, <2>2 DEF OpStrings
<1>15. {Ops[j].desc, Ops[i].name} \subseteq OpStrings \cup {NoText}
  BY <1>3, <1>4, <1>12 DEF OpStrings
<1>16. \A k \in DOMAIN ops : StringsOf(ops[k]) \subseteq copied \cup {NoText}
  <2>1. \A k \in DOMAIN Ops : StringsOf(Ops[k]) \subseteq copied \cup {NoText}
    BY CopiedFromType DEF OverlayInv, RowsCopied, ToSet
  <2>2. StringsOf(ops[i]) = {Ops[i].name, NoText} /\ StringsOf(ops[j]) = {Ops[j].name, Ops[i].desc}
    BY <1>4, <1>9 DEF StringsOf
  <2>3. \A k \in DOMAIN Ops \ {i, j} : ops[k] = Ops[k]
    BY <1>7
  <2>4. StringsOf(Ops[i]) \subseteq copied \cup {NoText} /\ StringsOf(Ops[j]) \subseteq copied \cup {NoText}
    BY <1>4, <2>1
  <2>5. QED
    BY <1>7, <1>12, <2>1, <2>2, <2>3, <2>4
<1>17. \A k, m \in LiveOps' :
          k # m => StringsOf(ops[k]) \cap StringsOf(ops[m]) \subseteq {NoText}
  <2>1. ASSUME NEW k \in LiveOps \ {i, j}
        PROVE  StringsOf(ops[k]) \cap StringsOf(ops[j]) \subseteq {NoText}
    BY <1>3, <1>4, <1>11, <1>12
  <2>2. ASSUME NEW k \in LiveOps \ {i, j}, NEW m \in LiveOps \ {i, j}, k # m
        PROVE  StringsOf(ops[k]) \cap StringsOf(ops[m]) \subseteq {NoText}
    BY <1>11, <1>12, <2>2
  <2>3. QED
    BY <1>10, <2>1, <2>2
<1>18. PICK S : S = {Ops[j].desc, Ops[i].name}
  OBVIOUS
<1>19. PICK new \in Seq(RowType) : new = ops
  BY <1>7
<1>20. /\ UNCHANGED <<file, pos, attrs, cap, alloc, copied>> /\ phase' = "merge"
       /\ Len(new) = Len(Ops) /\ rows' = [rows EXCEPT !["op"] = new]
       /\ \A k \in DOMAIN new : StringsOf(new[k]) \subseteq copied \cup {NoText}
       /\ \A k, m \in LiveOps' : k # m => StringsOf(new[k]) \cap StringsOf(new[m]) \subseteq {NoText}
  BY <1>2, <1>3, <1>7, <1>8, <1>16, <1>17, <1>19
<1>21. /\ S \subseteq OpStrings \cup {NoText} /\ Free(S)
       /\ OpStrings' \ {NoText} = (OpStrings \ S) \ {NoText}
  BY <1>2, <1>14, <1>15, <1>18
<1>22. QED
  BY <1>2, <1>3, <1>10, <1>20, <1>21, MergeStep

\* The merge ends: the array is cut to the rows kept.
LEMMA EndMergeKeeps ==
  ASSUME OverlayInv, EndMerge PROVE OverlayInv'
<1>1. /\ phase = "merge" /\ phase' = "loaded" /\ i > Len(Ops)
      /\ rows' = [rows EXCEPT !["op"] = SubSeq(@, 1, kept)]
      /\ UNCHANGED <<file, pos, attrs, cap, alloc, i, kept, copied, freed, doubled>>
  BY DEF EndMerge, strings
<1>2. /\ rows \in [{"op", "mcast", "set"} -> Seq(RowType)] /\ Ops \in Seq(RowType)
      /\ Len(Ops) \in Nat /\ DOMAIN Ops = 1..Len(Ops) /\ Ops = rows["op"]
      /\ i \in Nat /\ kept \in Nat /\ kept < i /\ i <= Len(Ops) + 1 /\ kept <= Len(Ops)
  <2>1. rows \in [{"op", "mcast", "set"} -> Seq(RowType)] /\ Ops \in Seq(RowType) /\ Ops = rows["op"]
    BY DEF OverlayInv, ShapeOK, Ops
  <2>2. i \in Nat /\ kept \in Nat /\ kept < i /\ i <= Len(Ops) + 1
    BY <1>1 DEF OverlayInv, TypeOK, MergeOK
  <2>3. Len(Ops) \in Nat /\ DOMAIN Ops = 1..Len(Ops)
    BY <2>1
  <2>4. kept <= Len(Ops)
    BY <2>2, <2>3
  <2>5. QED
    BY <2>1, <2>2, <2>3, <2>4
<1>3. PICK ops : ops = SubSeq(Ops, 1, kept)
  OBVIOUS
<1>4. /\ ops \in Seq(RowType) /\ Len(ops) = kept /\ DOMAIN ops = 1..kept
      /\ \A k \in 1..kept : ops[k] = Ops[k]
  BY <1>2, <1>3
<1>5. /\ rows' \in [{"op", "mcast", "set"} -> Seq(RowType)]
      /\ rows'["op"] = ops /\ rows'["mcast"] = rows["mcast"] /\ rows'["set"] = rows["set"]
      /\ Ops' = ops
  BY <1>1, <1>2, <1>3, <1>4 DEF Ops
<1>6. LiveOps = 1..kept /\ LiveOps' = 1..kept
  BY <1>1, <1>2, <1>4, <1>5 DEF LiveOps
<1>7. OtherRows' = OtherRows /\ OtherStrings' = OtherStrings /\ OpStrings' = OpStrings
  <2>1. OtherRows' = OtherRows /\ OtherStrings' = OtherStrings
    BY <1>1, <1>5 DEF OtherRows, OtherStrings, ToSet, StringsOf
  <2>2. OpStrings' = UNION {StringsOf(ops[k]) : k \in 1..kept}
    BY <1>5, <1>6 DEF OpStrings, StringsOf
  <2>3. OpStrings = UNION {StringsOf(Ops[k]) : k \in 1..kept}
    BY <1>6 DEF OpStrings
  <2>4. QED
    BY <1>4, <2>1, <2>2, <2>3
<1>8. CustodyOK'
  <2>1. CustodyOK
    BY DEF OverlayInv
  <2>2. \A k, m \in LiveOps' :
           k # m => StringsOf(Ops'[k]) \cap StringsOf(Ops'[m]) \subseteq {NoText}
    <3>1. \A k, m \in 1..kept : k # m => StringsOf(Ops[k]) \cap StringsOf(Ops[m]) \subseteq {NoText}
      BY <1>1, <1>6, <2>1 DEF CustodyOK
    <3>2. ASSUME NEW k \in 1..kept, NEW m \in 1..kept, k # m
          PROVE  StringsOf(ops[k]) \cap StringsOf(ops[m]) \subseteq {NoText}
      <4>1. ops[k] = Ops[k] /\ ops[m] = Ops[m]
        BY <1>4
      <4>2. QED
        BY <3>1, <3>2, <4>1
    <3>3. \A k \in 1..kept : Ops'[k] = ops[k]
      BY <1>5
    <3>4. QED
      BY <1>6, <3>2, <3>3
  <2>3. QED
    BY <1>1, <1>7, <2>1, <2>2 DEF CustodyOK, StringsOf
<1>9. ShapeOK'
  BY <1>1, <1>5 DEF OverlayInv, ShapeOK
<1>10. TypeOK'
  <2>1. RowsCopied'
    <3>1. RowsCopied
      BY CopiedFromType DEF OverlayInv
    <3>2. \A r \in ToSet(ops) : r \in ToSet(Ops)
      BY <1>2, <1>4 DEF ToSet
    <3>3. ToSet(Ops)' = ToSet(ops)
      BY <1>5 DEF ToSet
    <3>4. QED
      BY <1>1, <1>7, <3>1, <3>2, <3>3 DEF RowsCopied, StringsOf
  <2>2. /\ i \in Nat /\ kept \in 0..(i - 1) /\ freed \subseteq copied /\ doubled \subseteq freed
        /\ Len(attrs) = Len(rows["set"]) /\ cap \in [Section -> Nat] /\ alloc \in [Section -> Nat]
    BY DEF OverlayInv, TypeOK
  <2>3. ~Reading'
    BY <1>1 DEF Reading, File
  <2>4. QED
    BY <1>1, <1>5, <1>9, <2>1, <2>2, <2>3, TypeFromShape
<1>11. CapsOK'
  <2>1. Len(rows'["op"]) <= alloc["op"]
    <3>1. Len(rows["op"]) <= alloc["op"] /\ alloc["op"] \in Nat
      BY DEF OverlayInv, CapsOK, WithinAllocation, Count, OpenAttrs, ShapeOK, TypeOK, Section
    <3>2. QED
      BY <1>2, <1>4, <1>5, <3>1
  <2>2. QED
    BY <1>1, <1>2, <1>5, <2>1 DEF OverlayInv, CapsOK, WithinAllocation, Count, OpenAttrs, File
<1>12. ReadingOK' /\ MergeOK' /\ AllFreed'
  BY <1>1 DEF OverlayInv, ReadingOK, MergeOK, AllFreed, File
<1>13. QED
  BY <1>8, <1>9, <1>10, <1>11, <1>12 DEF OverlayInv

\* The family goes, and its overlay with all its strings.
LEMMA DestroyKeeps ==
  ASSUME OverlayInv, Destroy PROVE OverlayInv'
<1>1. /\ phase = "loaded" /\ phase' = "destroyed"
      /\ UNCHANGED <<file, pos, rows, attrs, cap, alloc, i, kept, copied>>
      /\ freed' = freed \cup (Owned \ {NoText})
      /\ doubled' = doubled \cup ((Owned \ {NoText}) \cap freed)
  BY DEF Destroy, Free, arrays
<1>2. doubled = {} /\ Owned \ {NoText} = copied \ freed /\ freed \subseteq copied
  BY <1>1, OwnedParts DEF OverlayInv, CustodyOK, TypeOK
<1>3. freed' = copied /\ doubled' = {}
  BY <1>1, <1>2
<1>4. ShapeOK'
  BY <1>1 DEF OverlayInv, ShapeOK
<1>5. TypeOK'
  <2>1. RowsCopied
    BY CopiedFromType DEF OverlayInv
  <2>2. RowsCopied'
    BY <1>1, <2>1 DEF RowsCopied, Ops, OtherRows, ToSet, StringsOf
  <2>3. /\ i \in Nat /\ kept \in 0..(i - 1)
        /\ Len(attrs) = Len(rows["set"]) /\ cap \in [Section -> Nat] /\ alloc \in [Section -> Nat]
    BY DEF OverlayInv, TypeOK
  <2>4. ~Reading'
    BY <1>1 DEF Reading, File
  <2>5. QED
    BY <1>1, <1>3, <1>4, <2>2, <2>3, <2>4, TypeFromShape
<1>6. ReadingOK' /\ CapsOK' /\ CustodyOK' /\ MergeOK' /\ AllFreed'
  BY <1>1, <1>3 DEF OverlayInv, ReadingOK, CapsOK, WithinAllocation, Count, OpenAttrs, CustodyOK, MergeOK, AllFreed, File
<1>7. QED
  BY <1>4, <1>5, <1>6 DEF OverlayInv

-----------------------------------------------------------------------------
(* The theorems.                                                           *)

\* OverlayInv holds in every reachable state of the loader.
THEOREM LoaderInductive == Spec => []OverlayInv
<1>1. Init => OverlayInv
  <2>1. SUFFICES ASSUME Init PROVE OverlayInv
    OBVIOUS
  <2>2. rows = [s \in {"op", "mcast", "set"} |-> << >>] /\ attrs = << >> /\ Ops = << >>
    BY <2>1 DEF Init, Ops
  <2>3. ToSet(<< >>) = {}
    BY DEF ToSet
  <2>4. OtherRows = {} /\ OpStrings = {} /\ OtherStrings = {} /\ LiveOps = {}
    <3>1. LiveOps = {}
      BY <2>1, <2>2 DEF Init, LiveOps
    <3>2. OtherRows = {}
      BY <2>2, <2>3 DEF OtherRows
    <3>3. QED
      BY <3>1, <3>2 DEF OpStrings, OtherStrings
  <2>5. ShapeOK
    BY <2>1 DEF Init, ShapeOK
  <2>6. TypeOK
    <3>1. RowsOf({rows[s] : s \in DOMAIN rows} \cup ToSet(attrs)) = {}
      <4>1. {rows[s] : s \in DOMAIN rows} \subseteq {<< >>}
        BY <2>2
      <4>2. QED
        BY <2>2, <2>3, <4>1 DEF RowsOf
    <3>2. Reading => pos \in 1..(Len(file[phase]) + 1)
      BY <2>1, FileAssumption DEF Init, Reading, File
    <3>3. QED
      BY <2>1, <2>2, <3>1, <3>2 DEF Init, TypeOK, Section, File
  <2>7. ReadingOK /\ CapsOK /\ CustodyOK /\ MergeOK /\ AllFreed
    BY <2>1, <2>2, <2>4 DEF Init, ReadingOK, CapsOK, WithinAllocation, Count, OpenAttrs, CustodyOK, MergeOK, AllFreed,
                            File, Section
  <2>8. QED
    BY <2>5, <2>6, <2>7 DEF OverlayInv
<1>2. OverlayInv /\ [Next]_vars => OverlayInv'
  <2>1. SUFFICES ASSUME OverlayInv, [Next]_vars PROVE OverlayInv'
    OBVIOUS
  <2>2. CASE ReadRow \/ ReadSet \/ ReadAttr
    BY <2>1, <2>2, ReadRowKeeps, ReadSetKeeps, ReadAttrKeeps
  <2>3. CASE RowOom \/ AttrOom \/ ReadBad \/ OpenFails
    BY <2>1, <2>3, RowOomKeeps, AttrOomKeeps, BadKeeps
  <2>4. CASE NextFile \/ NoOverlay \/ StartMerge
    BY <2>1, <2>4, NextFileKeeps, EndReadKeeps
  <2>5. CASE Keep \/ Fold \/ Drop \/ EndMerge \/ Destroy
    BY <2>1, <2>5, KeepKeeps, FoldKeeps, DropKeeps, EndMergeKeeps, DestroyKeeps
  <2>6. CASE UNCHANGED vars
    <3>1. UNCHANGED <<file, phase, pos, rows, attrs, cap, alloc, i, kept, copied, freed, doubled>>
      BY <2>6 DEF vars, arrays, strings
    <3>2. ShapeOK' /\ ReadingOK' /\ CapsOK' /\ MergeOK' /\ AllFreed'
      BY <2>1, <3>1 DEF OverlayInv, ShapeOK, ReadingOK, CapsOK, WithinAllocation, Count, OpenAttrs, MergeOK, Ops, AllFreed
    <3>3. /\ Ops' = Ops /\ LiveOps' = LiveOps /\ OtherRows' = OtherRows /\ ToSet(Ops)' = ToSet(Ops)
          /\ OtherStrings' = OtherStrings
      BY <3>1 DEF Ops, LiveOps, OtherRows, OtherStrings, ToSet, StringsOf
    <3>4. OpStrings' = OpStrings
      BY <3>3 DEF OpStrings, StringsOf
    <3>5. CustodyOK'
      BY <2>1, <3>1, <3>3, <3>4 DEF OverlayInv, CustodyOK, StringsOf
    <3>6. RowsCopied'
      BY <2>1, <3>1, <3>3, CopiedFromType DEF OverlayInv, RowsCopied, StringsOf
    <3>7. TypeOK'
      BY <2>1, <3>1, <3>2, <3>6, TypeFromShape DEF OverlayInv, TypeOK, Reading
    <3>8. QED
      BY <3>2, <3>5, <3>7 DEF OverlayInv
  <2>7. QED
    BY <2>1, <2>2, <2>3, <2>4, <2>5, <2>6 DEF Next
<1>3. QED
  BY <1>1, <1>2, PTL DEF Spec

\* The loader's variables keep their types, whatever the files hold.
THEOREM TypeCorrect == Spec => []TypeOK
<1>1. OverlayInv => TypeOK
  BY DEF OverlayInv
<1>2. QED
  BY <1>1, LoaderInductive, PTL

\* No array is written past its allocation, that of the attributes of a set
\* included, although the second file appends to the arrays of the first with
\* capacities of its own.
THEOREM ArraysFit == Spec => []WithinAllocation
<1>1. OverlayInv => WithinAllocation
  BY DEF OverlayInv, CapsOK
<1>2. QED
  BY <1>1, LoaderInductive, PTL

\* No string is lost, freed twice or owned by two rows, however the files are
\* ordered, the rows moved and the allocations fail.
THEOREM StringsHaveOwners == Spec => []StringsOwned
<1>1. OverlayInv => StringsOwned
  <2>1. SUFFICES ASSUME OverlayInv PROVE StringsOwned
    OBVIOUS
  <2>2. AllFreed
    BY <2>1 DEF OverlayInv
  <2>3. OwnedOnce
    <3>1. SUFFICES ASSUME phase = "loaded" PROVE OwnedOnce
      BY DEF OwnedOnce
    <3>2. Owned = OpStrings \cup OtherStrings /\ LiveOps = DOMAIN Ops
      BY <2>1, <3>1, OwnedParts DEF OverlayInv, LiveOps
    <3>3. QED
      BY <2>1, <3>1, <3>2 DEF OwnedOnce, OverlayInv, CustodyOK
  <2>4. QED
    BY <2>2, <2>3 DEF StringsOwned
<1>2. QED
  BY <1>1, LoaderInductive, PTL

-----------------------------------------------------------------------------
(* Files and names.                                                        *)

\* The entries of a file are numbered.
LEMMA EntryNumbers ==
  ASSUME ShapeOK, NEW f \in File, NEW k \in OpEntries(f)
  PROVE  /\ file[f] # Missing /\ k \in Nat /\ k \in 1..Len(file[f]) /\ DOMAIN file[f] = 1..Len(file[f])
         /\ Len(file[f]) \in Nat /\ file[f][k].id \in Nat /\ file[f][k].sec = "op"
<1>1. file[f] # Missing /\ k \in DOMAIN file[f] /\ file[f][k].sec = "op"
  BY DEF OpEntries
<1>2. file[f] \in (GeneratedFiles \cup CuratedFiles) \ {Missing}
  BY <1>1 DEF ShapeOK, File
<1>3. QED
  BY <1>1, <1>2, FileAssumption

\* The generated file names each of its operations, and no two alike.
LEMMA GeneratedNames ==
  ASSUME ShapeOK, NEW e \in OpEntries("generated")
  PROVE  /\ file["generated"][e].name # NoText /\ file["generated"][e].desc = NoText
         /\ \A m \in OpEntries("generated") :
              file["generated"][m].name = file["generated"][e].name => m = e
<1>1. file["generated"] \in GeneratedFiles \ {Missing}
  BY DEF ShapeOK, OpEntries
<1>2. QED
  BY <1>1, GeneratedAssumption DEF OpEntries

\* What a copied string says.
LEMMA TextOfCopy ==
  ASSUME NEW f \in File, NEW k \in Nat
  PROVE  /\ Text(NameOf(f, k)) = file[f][k].name
         /\ Text(DescOf(f, k)) = file[f][k].desc
         /\ Text(NoText) = NoText
         /\ NameOf(f, k) # NoText <=> file[f][k].name # NoText
         /\ NameOf(f, k) # NoText => NameOf(f, k) = <<f, k, "name">>
<1>1. <<f, k, "name">> \in NameToken /\ <<f, k, "desc">> \in DescToken
  BY DEF NameToken, DescToken
<1>2. <<f, k, "name">> # NoText /\ <<f, k, "desc">> # NoText
  BY <1>1, TextAssumption
<1>3. /\ <<f, k, "name">>[1] = f /\ <<f, k, "name">>[2] = k /\ <<f, k, "name">>[3] = "name"
      /\ <<f, k, "desc">>[1] = f /\ <<f, k, "desc">>[2] = k /\ <<f, k, "desc">>[3] = "desc"
  OBVIOUS
<1>4. Text(<<f, k, "name">>) = file[f][k].name /\ Text(<<f, k, "desc">>) = file[f][k].desc
  BY <1>2, <1>3 DEF Text
<1>5. Text(NoText) = NoText
  BY DEF Text
<1>6. QED
  BY <1>2, <1>4, <1>5 DEF NameOf, DescOf

\* A named row, and the entry it was read from.
LEMMA NamedRow ==
  ASSUME ShapeOK, OriginOK, phase \in File \cup {"merge"},
         NEW k \in DOMAIN Ops, Ops[k].name # NoText
  PROVE  \E f \in File : \E n \in OpEntries(f) :
           /\ n \in Nat /\ Ops[k].name = <<f, n, "name">> /\ Ops[k].name[1] = f /\ Ops[k].name[2] = n
           /\ Ops[k].id = file[f][n].id
           /\ Text(Ops[k].name) = file[f][n].name /\ Text(Ops[k].name) # NoText
<1>1. Ops \in Seq(RowType)
  BY DEF ShapeOK, Ops
<1>2. Ops[k].name \in NameToken
  <2>1. Ops[k] \in RowType
    BY <1>1
  <2>2. QED
    BY <2>1 DEF RowType
<1>3. PICK f \in File, n \in Nat : Ops[k].name = <<f, n, "name">>
  BY <1>2 DEF NameToken
<1>4. Ops[k].name[1] = f /\ Ops[k].name[2] = n
  BY <1>3
<1>5. n \in OpEntries(f) /\ Ops[k].name = NameOf(f, n) /\ Ops[k].id = file[f][n].id
  BY <1>4 DEF OriginOK, ReadFrom
<1>6. Text(Ops[k].name) = file[f][n].name /\ file[f][n].name # NoText
  BY <1>5, TextOfCopy
<1>7. QED
  BY <1>3, <1>4, <1>5, <1>6

\* Owning rows named alike are one row.
LEMMA OneOwner ==
  ASSUME OriginOK, phase \in File \cup {"merge"}, LiveOps \subseteq Int,
         NEW k \in LiveOps, NEW m \in LiveOps,
         NEW f \in File, NEW n \in Nat, <<f, n, "name">> # NoText,
         Ops[k].name = <<f, n, "name">>, Ops[m].name = <<f, n, "name">>
  PROVE  k = m
<1>1. From(Ops[k], f) /\ From(Ops[m], f) /\ Ops[k].name[2] = n /\ Ops[m].name[2] = n
  BY DEF From
<1>2. (k < m => Precedes(Ops[k], Ops[m])) /\ (m < k => Precedes(Ops[m], Ops[k]))
  BY DEF OriginOK
<1>3. ~Precedes(Ops[k], Ops[m]) /\ ~Precedes(Ops[m], Ops[k])
  BY <1>1 DEF Precedes
<1>4. QED
  BY <1>2, <1>3

-----------------------------------------------------------------------------
(* Reading keeps the order of the files.                                   *)

\* An operation is read into the last row.
LEMMA ReadOpOrigin ==
  ASSUME OverlayInv, OriginOK, PresentOK, AtEntry({"op"}),
         Ops' = Append(Ops, Row), UNCHANGED <<file, phase>>, pos' = pos + 1
  PROVE  OriginOK' /\ PresentOK'
<1>1. /\ phase \in File /\ phase # "merge" /\ file[phase] # Missing /\ pos \in Nat \ {0}
      /\ Row \in RowType /\ Entry.sec = "op"
  BY NewRow DEF OverlayInv, AtEntry, Reading, File, ShapeOK
<1>2. Ops \in Seq(RowType) /\ Len(Ops) \in Nat /\ DOMAIN Ops = 1..Len(Ops)
  BY DEF OverlayInv, ShapeOK, Ops
<1>3. /\ DOMAIN Ops' = DOMAIN Ops \cup {Len(Ops) + 1}
      /\ \A k \in DOMAIN Ops : Ops'[k] = Ops[k]
      /\ Ops'[Len(Ops) + 1] = Row
  BY <1>1, <1>2
<1>4. LiveOps = DOMAIN Ops /\ LiveOps' = DOMAIN Ops'
  BY <1>1 DEF LiveOps
<1>5. pos \in OpEntries(phase)
  <2>1. file[phase] \in (GeneratedFiles \cup CuratedFiles) \ {Missing}
    BY <1>1 DEF OverlayInv, ShapeOK, File
  <2>2. pos \in DOMAIN file[phase]
    BY <1>1, <2>1, FileAssumption DEF AtEntry
  <2>3. QED
    BY <1>1, <2>2 DEF OpEntries, Entry
<1>6. /\ Row = RowOf(phase, pos) /\ Row.name = NameOf(phase, pos) /\ Row.id = file[phase][pos].id
      /\ Row.name # NoText => Row.name = <<phase, pos, "name">>
  BY <1>1, TextOfCopy DEF Row, RowOf
<1>7. Row.name # NoText => Row.name[1] = phase /\ Row.name[2] = pos
  BY <1>6
<1>8. ASSUME NEW k \in DOMAIN Ops, Ops[k].name # NoText
      PROVE  /\ Ops[k].name[1] = phase => Ops[k].name[2] < pos
             /\ phase = "generated" => Ops[k].name[1] = "generated"
  BY <1>1, <1>8 DEF PresentOK, IsRead, From
<1>9. OriginOK'
  <2>1. ASSUME NEW k \in DOMAIN Ops', Ops'[k].name # NoText
        PROVE  ReadFrom(Ops'[k], Ops'[k].name[1], Ops'[k].name[2])
    <3>1. CASE k \in DOMAIN Ops
      BY <1>1, <1>3, <2>1, <3>1 DEF OriginOK
    <3>2. CASE k = Len(Ops) + 1
      BY <1>3, <1>5, <1>6, <1>7, <2>1, <3>2 DEF ReadFrom
    <3>3. QED
      BY <1>3, <3>1, <3>2
  <2>2. ASSUME NEW k \in LiveOps', NEW m \in LiveOps', k < m
        PROVE  Precedes(Ops'[k], Ops'[m])
    <3>1. k \in DOMAIN Ops /\ Ops'[k] = Ops[k]
      BY <1>2, <1>3, <1>4, <2>2
    <3>2. CASE m \in DOMAIN Ops
      BY <1>1, <1>3, <1>4, <2>2, <3>1, <3>2 DEF OriginOK
    <3>3. CASE m = Len(Ops) + 1
      <4>1. From(Ops'[m], "generated") => phase = "generated"
        BY <1>3, <1>7, <3>3 DEF From
      <4>2. phase = "generated" => From(Ops[k], "generated")
        BY <1>1, <3>1 DEF PresentOK
      <4>3. ASSUME NEW f \in File, From(Ops[k], f), From(Row, f)
            PROVE  Ops[k].name[2] < Row.name[2]
        BY <1>7, <1>8, <3>1, <4>3 DEF From
      <4>4. QED
        BY <1>3, <3>1, <3>3, <4>1, <4>2, <4>3 DEF Precedes
    <3>4. QED
      BY <1>3, <1>4, <3>2, <3>3
  <2>3. \A r, f, n : ReadFrom(r, f, n)' = ReadFrom(r, f, n)
    BY DEF ReadFrom, OpEntries, NameOf
  <2>4. QED
    BY <2>1, <2>2, <2>3 DEF OriginOK
<1>10. PresentOK'
  <2>1. ASSUME NEW f \in File, NEW k \in OpEntries(f),
               f = phase => k < pos + 1, f = "curated" => phase = "curated"
        PROVE  \E q \in DOMAIN Ops' : Ops'[q] = RowOf(f, k)
    <3>1. CASE f = phase /\ k = pos
      BY <1>3, <1>6, <3>1
    <3>2. CASE ~(f = phase /\ k = pos)
      <4>1. k \in Nat
        BY EntryNumbers DEF OverlayInv
      <4>2. IsRead(f, k)
        BY <1>1, <2>1, <3>2, <4>1 DEF IsRead
      <4>3. PICK q \in DOMAIN Ops : Ops[q] = RowOf(f, k)
        BY <1>1, <4>2 DEF PresentOK
      <4>4. QED
        BY <1>3, <4>3
    <3>3. QED
      BY <3>1, <3>2
  <2>2. ASSUME NEW q \in DOMAIN Ops', Ops'[q].name # NoText,
               NEW f, NEW n, f = Ops'[q].name[1], n = Ops'[q].name[2]
        PROVE  n \in OpEntries(f) /\ (f = phase => n < pos + 1) /\ (f = "curated" => phase = "curated")
    <3>1. CASE q \in DOMAIN Ops
      <4>1. IsRead(f, n)
        BY <1>1, <1>3, <2>2, <3>1 DEF PresentOK
      <4>2. f \in File
        <5>1. Ops[q] \in RowType /\ Ops[q].name # NoText
          BY <1>2, <1>3, <2>2, <3>1
        <5>2. Ops[q].name \in NameToken
          BY <5>1 DEF RowType
        <5>3. QED
          BY <1>3, <2>2, <3>1, <5>2 DEF NameToken
      <4>3. n \in Nat
        BY <4>1, <4>2, EntryNumbers DEF OverlayInv, IsRead
      <4>4. QED
        BY <1>1, <4>1, <4>3 DEF IsRead
    <3>2. CASE q = Len(Ops) + 1
      BY <1>1, <1>3, <1>5, <1>7, <2>2, <3>2
    <3>3. QED
      BY <1>3, <3>1, <3>2
  <2>3. ASSUME phase = "generated", NEW q \in DOMAIN Ops'
        PROVE  From(Ops'[q], "generated")
    <3>1. CASE q \in DOMAIN Ops
      BY <1>1, <1>3, <2>3, <3>1 DEF PresentOK
    <3>2. CASE q = Len(Ops) + 1
      <4>1. file["generated"][pos].name # NoText
        BY <1>5, <2>3, GeneratedNames DEF OverlayInv
      <4>2. Row.name # NoText
        BY <1>1, <1>6, <2>3, <4>1, TextOfCopy
      <4>3. QED
        BY <1>3, <1>7, <2>3, <3>2, <4>2 DEF From
    <3>3. QED
      BY <1>3, <3>1, <3>2
  <2>4. QED
    BY <2>1, <2>2, <2>3 DEF PresentOK, IsRead, OpEntries, RowOf, NameOf, DescOf, From
<1>11. QED
  BY <1>9, <1>10

\* A row of another section, a set or an attribute leaves the operations.
LEMMA ReadOther ==
  ASSUME OverlayInv, OriginOK, PresentOK, NEW secs, AtEntry(secs), Entry.sec # "op",
         Ops' = Ops, UNCHANGED <<file, phase>>, pos' = pos + 1
  PROVE  OriginOK' /\ PresentOK'
<1>1. phase \in File /\ phase # "merge" /\ pos \in Nat \ {0}
  BY DEF OverlayInv, ShapeOK, AtEntry, Reading, File
<1>2. LiveOps' = LiveOps
  BY <1>1 DEF LiveOps
<1>3. \A r, f, n : ReadFrom(r, f, n)' = ReadFrom(r, f, n)
  BY DEF ReadFrom, OpEntries, NameOf
<1>4. OriginOK'
  BY <1>2, <1>3 DEF OriginOK
<1>5. pos \notin OpEntries(phase)
  BY DEF OpEntries, Entry
<1>6. ASSUME NEW f \in File, NEW k \in OpEntries(f)
      PROVE  IsRead(f, k)' <=> IsRead(f, k)
  <2>1. (k \in Nat /\ k # pos) \/ f # phase
    BY <1>5, <1>6, EntryNumbers DEF OverlayInv
  <2>2. k \in Nat
    BY <1>6, EntryNumbers DEF OverlayInv
  <2>3. QED
    BY <1>1, <2>1, <2>2 DEF IsRead, OpEntries
<1>7. ASSUME NEW q \in DOMAIN Ops, Ops[q].name # NoText
      PROVE  IsRead(Ops[q].name[1], Ops[q].name[2])'
  <2>1. PICK f \in File : \E n \in OpEntries(f) : Ops[q].name[1] = f /\ Ops[q].name[2] = n
    BY <1>1, <1>7, NamedRow DEF OverlayInv
  <2>2. QED
    BY <1>1, <1>6, <1>7, <2>1 DEF PresentOK
<1>8. \A f, k : RowOf(f, k)' = RowOf(f, k) /\ OpEntries(f)' = OpEntries(f)
  BY DEF RowOf, NameOf, DescOf, OpEntries
<1>9. PresentOK'
  <2>1. \A f \in File : \A k \in OpEntries(f) :
          IsRead(f, k)' => \E q \in DOMAIN Ops : Ops[q] = RowOf(f, k)
    BY <1>1, <1>6 DEF PresentOK
  <2>2. phase = "generated" => \A q \in DOMAIN Ops : From(Ops[q], "generated")
    BY <1>1 DEF PresentOK
  <2>3. QED
    BY <1>7, <1>8, <2>1, <2>2 DEF PresentOK
<1>10. QED
  BY <1>4, <1>9

\* The second file goes on after the last row of the first.
LEMMA NextFileOrigin ==
  ASSUME OverlayInv, OriginOK, PresentOK, NextFile
  PROVE  OriginOK' /\ PresentOK'
<1>1. /\ phase = "generated" /\ phase' = "curated" /\ pos' = 1 /\ Ops' = Ops /\ file' = file
      /\ file["generated"] # Missing => pos > Len(file["generated"])
      /\ pos \in Nat
  BY DEF NextFile, FileRead, Reading, Ops, File, OverlayInv, ShapeOK
<1>2. LiveOps' = LiveOps
  BY <1>1 DEF LiveOps
<1>3. \A f, k, r : /\ ReadFrom(r, f, k)' = ReadFrom(r, f, k)
                  /\ RowOf(f, k)' = RowOf(f, k) /\ OpEntries(f)' = OpEntries(f)
  BY <1>1 DEF ReadFrom, RowOf, NameOf, DescOf, OpEntries
<1>4. OriginOK'
  BY <1>1, <1>2, <1>3 DEF OriginOK, File
<1>5. ASSUME NEW f \in File, NEW k \in OpEntries(f), IsRead(f, k)'
      PROVE  \E q \in DOMAIN Ops : Ops[q] = RowOf(f, k)
  <2>1. file[f] # Missing /\ k \in Nat /\ k \in 1..Len(file[f]) /\ Len(file[f]) \in Nat
    BY EntryNumbers DEF OverlayInv
  <2>2. f = "generated"
    BY <1>1, <1>5, <2>1 DEF IsRead, File
  <2>3. IsRead(f, k)
    BY <1>1, <2>1, <2>2 DEF IsRead
  <2>4. QED
    BY <1>1, <2>3 DEF PresentOK, File
<1>6. ASSUME NEW q \in DOMAIN Ops, Ops[q].name # NoText
      PROVE  IsRead(Ops[q].name[1], Ops[q].name[2])'
  <2>1. IsRead(Ops[q].name[1], Ops[q].name[2]) /\ From(Ops[q], "generated")
    BY <1>1, <1>6 DEF PresentOK, File
  <2>2. QED
    BY <1>1, <1>3, <2>1 DEF IsRead, From
<1>7. PresentOK'
  BY <1>1, <1>3, <1>5, <1>6 DEF PresentOK
<1>8. QED
  BY <1>4, <1>7

\* The merge starts with every row in its place and nothing described.
LEMMA StartMergeOrigin ==
  ASSUME OverlayInv, OriginOK, PresentOK, StartMerge
  PROVE  OriginOK' /\ DescribedOK'
<1>1. /\ phase = "curated" /\ phase' = "merge" /\ Ops' = Ops /\ file' = file
      /\ i' = i /\ kept' = kept /\ i = 1 /\ kept = 0
      /\ file["curated"] # Missing => pos > Len(file["curated"])
      /\ pos \in Nat
  BY DEF StartMerge, FileRead, Reading, Ops, arrays, File, OverlayInv, ShapeOK, ReadingOK
<1>2. Ops \in Seq(RowType) /\ Len(Ops) \in Nat /\ DOMAIN Ops = 1..Len(Ops)
  BY DEF OverlayInv, ShapeOK, Ops
<1>3. LiveOps = 1..Len(Ops) /\ LiveOps' = 1..Len(Ops)
  BY <1>1, <1>2 DEF LiveOps
<1>4. \A f, k, r : /\ ReadFrom(r, f, k)' = ReadFrom(r, f, k)
                  /\ RowOf(f, k)' = RowOf(f, k) /\ OpEntries(f)' = OpEntries(f)
  BY <1>1 DEF ReadFrom, RowOf, NameOf, DescOf, OpEntries
<1>5. OriginOK'
  <2>1. /\ \A k \in DOMAIN Ops : Ops[k].name # NoText =>
              ReadFrom(Ops[k], Ops[k].name[1], Ops[k].name[2])
        /\ \A k, m \in LiveOps : k < m => Precedes(Ops[k], Ops[m])
    BY <1>1 DEF OriginOK, File
  <2>2. QED
    BY <1>1, <1>3, <1>4, <2>1 DEF OriginOK
<1>6. ASSUME NEW f \in File, NEW k \in OpEntries(f)
      PROVE  \E q \in 1..Len(Ops) : Ops[q] = RowOf(f, k)
  <2>1. IsRead(f, k)
    BY <1>1, EntryNumbers DEF OverlayInv, IsRead
  <2>2. QED
    BY <1>1, <1>2, <2>1 DEF PresentOK, File
<1>7. ASSUME NEW k \in ByName("curated"), file["curated"][k].name # NoText
      PROVE  k \in Waiting'
  <2>1. k \in OpEntries("curated") /\ k \in Nat
    BY EntryNumbers DEF ByName, OverlayInv, File
  <2>2. PICK q \in 1..Len(Ops) : Ops[q] = RowOf("curated", k)
    BY <1>6, <2>1 DEF File
  <2>3. Ops[q].name = <<"curated", k, "name">>
    BY <1>7, <2>1, <2>2, TextOfCopy DEF RowOf, File
  <2>4. k \in ByName("curated")'
    BY <1>1 DEF ByName, ById, OpEntries
  <2>5. QED
    BY <1>1, <2>3, <2>4 DEF Waiting
<1>8. ASSUME NEW e \in ById("generated")
      PROVE  \E q \in LiveOps' :
               /\ Ops'[q].name = <<"generated", e, "name">>
               /\ (Text(Ops[q].desc) = LastOf(Told(file["generated"][e].name) \ Waiting))'
  <2>1. e \in OpEntries("generated") /\ e \in Nat
    BY EntryNumbers DEF ById, OverlayInv, File
  <2>2. file["generated"][e].name # NoText /\ file["generated"][e].desc = NoText
    BY <2>1, GeneratedNames DEF OverlayInv
  <2>3. PICK q \in 1..Len(Ops) : Ops[q] = RowOf("generated", e)
    BY <1>6, <2>1 DEF File
  <2>4. Ops[q].name = <<"generated", e, "name">> /\ Ops[q].desc = NoText
    <3>1. "generated" \in File
      BY DEF File
    <3>2. NameOf("generated", e) = <<"generated", e, "name">>
      BY <2>1, <2>2, <3>1, TextOfCopy
    <3>3. DescOf("generated", e) = NoText
      BY <2>2 DEF DescOf
    <3>4. QED
      BY <2>3, <3>2, <3>3 DEF RowOf
  <2>5. Told(file["generated"][e].name)' \ Waiting' = {}
    BY <1>1, <1>7, <2>2 DEF Told, ByName, ById, OpEntries
  <2>6. LastOf({})' = NoText /\ Text(NoText)' = NoText
    BY DEF LastOf, Text
  <2>7. QED
    BY <1>1, <1>3, <2>4, <2>5, <2>6
<1>9. ASSUME NEW q \in 1..Len(Ops), Ops[q].name # NoText
      PROVE  Ops[q].desc = DescOf(Ops[q].name[1], Ops[q].name[2])
  <2>1. PICK f \in File : \E n \in OpEntries(f) :
          /\ n \in Nat /\ Ops[q].name = <<f, n, "name">> /\ Ops[q].name[1] = f /\ Ops[q].name[2] = n
          /\ Text(Ops[q].name) = file[f][n].name /\ Text(Ops[q].name) # NoText
    BY <1>1, <1>2, <1>9, NamedRow DEF OverlayInv, File
  <2>2. PICK n \in OpEntries(f) :
          /\ n \in Nat /\ Ops[q].name = <<f, n, "name">> /\ Ops[q].name[1] = f /\ Ops[q].name[2] = n
          /\ Text(Ops[q].name) = file[f][n].name /\ Text(Ops[q].name) # NoText
    BY <2>1
  <2>3. PICK m \in 1..Len(Ops) : Ops[m] = RowOf(f, n)
    BY <1>6
  <2>4. Ops[m].name = <<f, n, "name">>
    BY <2>2, <2>3, TextOfCopy DEF RowOf
  <2>5. m = q
    BY <1>1, <1>3, <1>9, <2>2, <2>4, OneOwner DEF File
  <2>6. QED
    BY <2>2, <2>3, <2>5 DEF RowOf
<1>10. DescribedOK'
  <2>1. \A f, k : DescOf(f, k)' = DescOf(f, k)
    BY <1>1 DEF DescOf
  <2>2. \A f : ByName(f)' = ByName(f) /\ ById(f)' = ById(f)
    BY <1>1 DEF ByName, ById, OpEntries
  <2>3. \A q \in i'..Len(Ops') : Ops'[q].id = 0 /\ Ops'[q].name # NoText =>
          Ops'[q].desc = DescOf(Ops[q].name[1], Ops[q].name[2])'
    BY <1>1, <1>9, <2>1
  <2>4. \A k \in ByName("curated")' : file'["curated"][k].name # NoText => k \in Waiting'
    BY <1>1, <1>7, <2>2
  <2>5. \A e \in ById("generated")' : \E q \in LiveOps' :
          /\ Ops'[q].name = <<"generated", e, "name">>
          /\ (Text(Ops[q].desc) = LastOf(Told(file["generated"][e].name) \ Waiting))'
    BY <1>8, <2>2
  <2>6. QED
    BY <2>3, <2>4, <2>5 DEF DescribedOK
<1>11. QED
  BY <1>5, <1>10

-----------------------------------------------------------------------------
(* The merge keeps the order, and describes each generated row in turn.    *)

\* The files do not change, nor does what they say.
LEMMA FilesStay ==
  ASSUME file' = file
  PROVE  /\ \A s : Text(s)' = Text(s)
         /\ \A S : LastOf(S)' = LastOf(S)
         /\ \A name : Told(name)' = Told(name)
         /\ \A f : ById(f)' = ById(f) /\ ByName(f)' = ByName(f) /\ OpEntries(f)' = OpEntries(f)
         /\ \A f, k : DescOf(f, k)' = DescOf(f, k)
         /\ \A r, f, n : ReadFrom(r, f, n)' = ReadFrom(r, f, n)
<1>1. \A f : ById(f)' = ById(f) /\ ByName(f)' = ByName(f) /\ OpEntries(f)' = OpEntries(f)
  BY DEF ById, ByName, OpEntries
<1>2. \A name : Told(name)' = Told(name)
  BY <1>1 DEF Told
<1>3. \A s : Text(s)' = Text(s)
  BY DEF Text
<1>4. \A S : LastOf(S)' = LastOf(S)
  BY DEF LastOf
<1>5. /\ \A f, k : DescOf(f, k)' = DescOf(f, k)
      /\ \A r, f, n : ReadFrom(r, f, n)' = ReadFrom(r, f, n)
  BY DEF DescOf, ReadFrom, OpEntries, NameOf
<1>6. QED
  BY <1>1, <1>2, <1>3, <1>4, <1>5

\* Row i is dealt with and the rows after it are as they were: at most its own
\* name stops waiting.
LEMMA NextRow ==
  ASSUME OverlayInv, OriginOK, DescribedOK, Merging,
         file' = file, i' = i + 1, Len(Ops') = Len(Ops),
         \A q \in (i + 1)..Len(Ops) :
            /\ Ops'[q].name = Ops[q].name /\ Ops'[q].id = Ops[q].id
            /\ Ops[q].id = 0 => Ops'[q].desc = Ops[q].desc
  PROVE  /\ Waiting' \subseteq Waiting
         /\ \A k \in Waiting \ Waiting' : Ops[i].name = <<"curated", k, "name">>
         /\ \A q \in i'..Len(Ops') : Ops'[q].id = 0 /\ Ops'[q].name # NoText =>
              Ops'[q].desc = DescOf(Ops[q].name[1], Ops[q].name[2])'
         /\ \A q \in i'..Len(Ops') : From(Ops'[q], "curated") =>
              \A k \in ByName("curated") :
                k > Ops'[q].name[2] /\ file["curated"][k].name # NoText => k \in Waiting'
<1>1. /\ phase = "merge" /\ DOMAIN Ops = 1..Len(Ops) /\ Len(Ops) \in Nat
      /\ i \in Nat /\ i <= Len(Ops) /\ LiveOps = 1..kept \cup i..Len(Ops)
  BY AtRow
<1>2. /\ ByName("curated")' = ByName("curated")
      /\ i'..Len(Ops') = (i + 1)..Len(Ops)
      /\ \A q \in (i + 1)..Len(Ops) : Ops'[q].name = Ops[q].name
  BY FilesStay
<1>3. Waiting' = {k \in ByName("curated") :
                    \E q \in (i + 1)..Len(Ops) : Ops[q].name = <<"curated", k, "name">>}
  BY <1>2 DEF Waiting
<1>4. Waiting' \subseteq Waiting
  <2>1. (i + 1)..Len(Ops) \subseteq i..Len(Ops)
    BY <1>1
  <2>2. QED
    BY <1>3, <2>1 DEF Waiting
<1>5. ASSUME NEW k \in Waiting, k \notin Waiting'
      PROVE  Ops[i].name = <<"curated", k, "name">>
  <2>1. k \in ByName("curated")
    BY DEF Waiting
  <2>2. PICK q \in i..Len(Ops) : Ops[q].name = <<"curated", k, "name">>
    BY DEF Waiting
  <2>3. q \notin (i + 1)..Len(Ops)
    BY <1>3, <1>5, <2>1, <2>2
  <2>4. QED
    BY <1>1, <2>2, <2>3
<1>6. ASSUME NEW q \in (i + 1)..Len(Ops), Ops'[q].id = 0, Ops'[q].name # NoText
      PROVE  Ops'[q].desc = DescOf(Ops[q].name[1], Ops[q].name[2])'
  <2>1. /\ q \in i..Len(Ops) /\ Ops[q].id = 0 /\ Ops[q].name # NoText
        /\ Ops'[q].name = Ops[q].name /\ Ops'[q].desc = Ops[q].desc
    BY <1>1, <1>6
  <2>2. Ops[q].desc = DescOf(Ops[q].name[1], Ops[q].name[2])
    BY <1>1, <2>1 DEF DescribedOK
  <2>3. DescOf(Ops[q].name[1], Ops[q].name[2])' = DescOf(Ops[q].name[1], Ops[q].name[2])
    BY <2>1 DEF DescOf
  <2>4. QED
    BY <2>1, <2>2, <2>3
<1>7. ASSUME NEW q \in (i + 1)..Len(Ops), From(Ops'[q], "curated"),
             NEW k \in ByName("curated"), k > Ops'[q].name[2], file["curated"][k].name # NoText
      PROVE  k \in Waiting'
  <2>1. q \in i..Len(Ops) /\ From(Ops[q], "curated") /\ k > Ops[q].name[2]
    <3>1. Ops'[q].name = Ops[q].name /\ q \in i..Len(Ops)
      BY <1>1, <1>2
    <3>2. QED
      BY <1>7, <3>1 DEF From
  <2>2. k \in Waiting
    BY <1>1, <1>7, <2>1 DEF DescribedOK
  <2>3. ASSUME k \notin Waiting' PROVE FALSE
    <3>1. Ops[i].name = <<"curated", k, "name">>
      BY <1>5, <2>2, <2>3
    <3>2. Ops[i].name # NoText
      BY <3>1, TextAssumption, EntryNumbers DEF OverlayInv, ByName, NameToken, File
    <3>3. From(Ops[i], "curated") /\ Ops[i].name[2] = k
      BY <3>1, <3>2 DEF From
    <3>4. i \in LiveOps /\ q \in LiveOps /\ i < q
      BY <1>1
    <3>5. Precedes(Ops[i], Ops[q])
      BY <1>1, <3>4 DEF OriginOK
    <3>6. k < Ops[q].name[2]
      BY <2>1, <3>3, <3>5 DEF Precedes, File
    <3>7. k \in Nat
      BY EntryNumbers DEF OverlayInv, ByName, File
    <3>8. Ops[q].name[2] \in Nat
      BY <1>1, <2>1, NamedRow DEF OverlayInv, From
    <3>9. QED
      BY <2>1, <3>6, <3>7, <3>8
  <2>4. QED
    BY <2>3
<1>8. i'..Len(Ops') = (i + 1)..Len(Ops)
  OBVIOUS
<1>9. QED
  BY <1>4, <1>5, <1>6, <1>7, <1>8

\* Leaving a row behind keeps the order of the others.
LEMMA LeaveOrigin ==
  ASSUME OverlayInv, OriginOK, Merging, file' = file, phase' = phase,
         Len(Ops') = Len(Ops), Ops' \in Seq(RowType), LiveOps' \subseteq LiveOps,
         \A k \in DOMAIN Ops : Ops'[k].id = Ops[k].id /\ Ops'[k].name = Ops[k].name
  PROVE  OriginOK'
<1>1. /\ phase = "merge" /\ DOMAIN Ops = 1..Len(Ops) /\ DOMAIN Ops' = 1..Len(Ops)
      /\ LiveOps \subseteq DOMAIN Ops
  BY AtRow
<1>2. ASSUME NEW k \in DOMAIN Ops, Ops'[k].name # NoText
      PROVE  ReadFrom(Ops'[k], Ops'[k].name[1], Ops'[k].name[2])
  BY <1>1, <1>2 DEF OriginOK, ReadFrom
<1>3. ASSUME NEW k \in LiveOps, NEW m \in LiveOps, k < m
      PROVE  Precedes(Ops'[k], Ops'[m])
  <2>1. Precedes(Ops[k], Ops[m])
    BY <1>1, <1>3 DEF OriginOK
  <2>2. Ops'[k].name = Ops[k].name /\ Ops'[m].name = Ops[m].name
    BY <1>1
  <2>3. QED
    BY <2>1, <2>2 DEF Precedes, From
<1>4. \A r, f, n : ReadFrom(r, f, n)' = ReadFrom(r, f, n)
  BY DEF ReadFrom, OpEntries, NameOf
<1>5. QED
  BY <1>1, <1>2, <1>3, <1>4 DEF OriginOK

\* A row that moves up stays in order.
LEMMA KeepOrigin ==
  ASSUME OverlayInv, OriginOK, DescribedOK, Keep
  PROVE  OriginOK' /\ DescribedOK'
<1>1. /\ Merging /\ Ops[i].id # 0
      /\ rows' = [rows EXCEPT !["op"][kept + 1] = Ops[i]]
      /\ kept' = kept + 1 /\ i' = i + 1 /\ phase' = phase /\ file' = file
  BY DEF Keep
<1>2. /\ phase = "merge" /\ Ops \in Seq(RowType) /\ Ops = rows["op"]
      /\ DOMAIN Ops = 1..Len(Ops) /\ Len(Ops) \in Nat
      /\ i \in Nat /\ kept \in Nat /\ kept < i /\ i <= Len(Ops)
      /\ LiveOps = 1..kept \cup i..Len(Ops)
  BY <1>1, AtRow
<1>3. PICK ops : ops = [Ops EXCEPT ![kept + 1] = Ops[i]]
  OBVIOUS
<1>4. Ops' = ops
  BY <1>1, <1>2, <1>3 DEF OverlayInv, ShapeOK, Ops
<1>5. /\ Len(Ops') = Len(Ops) /\ DOMAIN Ops' = DOMAIN Ops
      /\ \A k \in DOMAIN Ops : Ops'[k] = IF k = kept + 1 THEN Ops[i] ELSE Ops[k]
  <2>1. i \in DOMAIN Ops /\ kept + 1 \in DOMAIN Ops /\ Ops[i] \in RowType
    BY <1>2
  <2>2. QED
    BY <1>2, <1>3, <1>4, <2>1
<1>6. LiveOps' = 1..(kept + 1) \cup (i + 1)..Len(Ops)
  BY <1>1, <1>2, <1>5 DEF LiveOps
<1>7. ASSUME NEW k \in LiveOps'
      PROVE  \E m \in LiveOps : Ops'[k] = Ops[m] /\ m = IF k = kept + 1 THEN i ELSE k
  BY <1>2, <1>5, <1>6
<1>8. OriginOK'
  <2>1. \A k \in DOMAIN Ops : Ops'[k].name # NoText =>
          ReadFrom(Ops'[k], Ops'[k].name[1], Ops'[k].name[2])
    <3>1. ASSUME NEW k \in DOMAIN Ops PROVE \E m \in DOMAIN Ops : Ops'[k] = Ops[m]
      BY <1>2, <1>5
    <3>2. \A k \in DOMAIN Ops : Ops[k].name # NoText =>
            ReadFrom(Ops[k], Ops[k].name[1], Ops[k].name[2])
      BY <1>2 DEF OriginOK
    <3>3. QED
      BY <3>1, <3>2
  <2>2. ASSUME NEW k \in LiveOps', NEW m \in LiveOps', k < m
        PROVE  Precedes(Ops'[k], Ops'[m])
    <3>1. PICK k0 \in LiveOps : Ops'[k] = Ops[k0] /\ k0 = IF k = kept + 1 THEN i ELSE k
      BY <1>7
    <3>2. PICK m0 \in LiveOps : Ops'[m] = Ops[m0] /\ m0 = IF m = kept + 1 THEN i ELSE m
      BY <1>7
    <3>3. k0 < m0
      BY <1>2, <1>6, <2>2, <3>1, <3>2
    <3>4. QED
      BY <1>2, <3>1, <3>2, <3>3 DEF OriginOK
  <2>3. \A r, f, n : ReadFrom(r, f, n)' = ReadFrom(r, f, n)
    BY <1>1 DEF ReadFrom, OpEntries, NameOf
  <2>4. QED
    BY <1>1, <1>2, <1>5, <2>1, <2>2, <2>3 DEF OriginOK
<1>9. \A q \in (i + 1)..Len(Ops) : Ops'[q] = Ops[q]
  BY <1>2, <1>5
<1>10. Waiting' = Waiting
  <2>1. ASSUME NEW k \in Waiting, Ops[i].name = <<"curated", k, "name">> PROVE FALSE
    <3>1. k \in ByName("curated") /\ k \in OpEntries("curated") /\ k \in Nat
      BY EntryNumbers DEF OverlayInv, Waiting, ByName, File
    <3>2. Ops[i].name # NoText
      BY <2>1, <3>1, TextAssumption DEF NameToken, File
    <3>3. Ops[i].name[1] = "curated" /\ Ops[i].name[2] = k
      BY <2>1
    <3>4. Ops[i].id = file["curated"][k].id
      BY <1>2, <3>2, <3>3 DEF OriginOK, ReadFrom
    <3>5. QED
      BY <1>1, <3>1, <3>4 DEF ByName, ById
  <2>2. QED
    BY <1>1, <1>5, <1>9, <2>1, NextRow
<1>11. DescribedOK'
  <2>1. ASSUME NEW e \in ById("generated")
        PROVE  \E q \in LiveOps' :
                 /\ Ops'[q].name = <<"generated", e, "name">>
                 /\ (Text(Ops[q].desc) = LastOf(Told(file["generated"][e].name) \ Waiting))'
    <3>1. PICK q \in LiveOps :
            /\ Ops[q].name = <<"generated", e, "name">>
            /\ Text(Ops[q].desc) = LastOf(Told(file["generated"][e].name) \ Waiting)
      BY <1>2 DEF DescribedOK
    <3>2. PICK m \in LiveOps' : Ops'[m] = Ops[q]
      <4>1. CASE q = i
        BY <1>2, <1>5, <1>6, <4>1
      <4>2. CASE q # i
        BY <1>2, <1>5, <1>6, <4>2
      <4>3. QED
        BY <4>1, <4>2
    <3>3. (Text(Ops[m].desc) = LastOf(Told(file["generated"][e].name) \ Waiting))'
      BY <1>1, <1>10, <3>1, <3>2, FilesStay
    <3>4. QED
      BY <3>1, <3>2, <3>3
  <2>2. ById("generated")' = ById("generated") /\ ByName("curated")' = ByName("curated")
    BY <1>1 DEF ByName, ById, OpEntries
  <2>3. /\ \A q \in i'..Len(Ops') : Ops'[q].id = 0 /\ Ops'[q].name # NoText =>
              Ops'[q].desc = DescOf(Ops[q].name[1], Ops[q].name[2])'
        /\ \A q \in i'..Len(Ops') : From(Ops'[q], "curated") =>
              \A k \in ByName("curated") :
                k > Ops'[q].name[2] /\ file["curated"][k].name # NoText => k \in Waiting'
    BY <1>1, <1>5, <1>9, NextRow
  <2>4. QED
    BY <1>1, <2>1, <2>2, <2>3 DEF DescribedOK, From
<1>12. QED
  BY <1>8, <1>11

\* The row of a generated entry.
LEMMA GeneratedRow ==
  ASSUME OverlayInv, OriginOK, phase = "merge", NEW e \in ById("generated"),
         NEW q \in LiveOps, LiveOps \subseteq DOMAIN Ops, Ops[q].name = <<"generated", e, "name">>
  PROVE  /\ Ops[q].id # 0 /\ Ops[q].name # NoText /\ Ops[q].name[1] = "generated" /\ Ops[q].name[2] = e
         /\ Ops[q].id = file["generated"][e].id
         /\ Text(Ops[q].name) = file["generated"][e].name /\ Text(Ops[q].name) # NoText
         /\ q \in DOMAIN Ops
<1>1. /\ e \in OpEntries("generated") /\ e \in Nat /\ file["generated"][e].id # 0
      /\ "generated" \in File
  BY EntryNumbers DEF OverlayInv, ById, File
<1>2. <<"generated", e, "name">> \in NameToken
  BY <1>1 DEF NameToken
<1>3. Ops[q].name # NoText /\ Ops[q].name[1] = "generated" /\ Ops[q].name[2] = e
  BY <1>2, TextAssumption
<1>4. ReadFrom(Ops[q], "generated", e)
  BY <1>3 DEF OriginOK
<1>5. /\ Ops[q].id = file["generated"][e].id
      /\ Text(Ops[q].name) = file["generated"][e].name
  BY <1>1, <1>4, TextOfCopy DEF ReadFrom
<1>6. file["generated"][e].name # NoText
  BY <1>1, GeneratedNames DEF OverlayInv
<1>7. QED
  BY <1>1, <1>3, <1>5, <1>6

\* What a curated name says.
LEMMA CuratedText ==
  ASSUME ShapeOK, NEW name, NEW k \in Told(name)
  PROVE  Text(<<"curated", k, "name">>) = name
<1>1. k \in OpEntries("curated") /\ file["curated"][k].name = name /\ "curated" \in File
  BY DEF Told, ByName, File
<1>2. k \in Nat
  BY <1>1, EntryNumbers
<1>3. <<"curated", k, "name">> \in NameToken
  BY <1>1, <1>2 DEF NameToken
<1>4. <<"curated", k, "name">> # NoText
  BY <1>3, TextAssumption
<1>5. Text(<<"curated", k, "name">>) = file["curated"][k].name
  BY <1>4 DEF Text
<1>6. QED
  BY <1>1, <1>5

\* No row before the one of a generated entry has its name: it would be a
\* generated row too, and the generated names differ.
LEMMA FirstOfItsName ==
  ASSUME OverlayInv, OriginOK, phase = "merge", NEW e \in ById("generated"),
         NEW q \in LiveOps, NEW j \in LiveOps, LiveOps \subseteq DOMAIN Ops,
         Ops[q].name = <<"generated", e, "name">>, j < q,
         Text(Ops[j].name) = file["generated"][e].name
  PROVE  FALSE
<1>1. /\ e \in OpEntries("generated") /\ e \in Nat
      /\ Ops[q].name # NoText /\ Ops[q].name[1] = "generated" /\ Ops[q].name[2] = e
      /\ Text(Ops[q].name) = file["generated"][e].name /\ Text(Ops[q].name) # NoText
  BY GeneratedRow, EntryNumbers DEF ById, OverlayInv, File
<1>2. Precedes(Ops[j], Ops[q])
  BY DEF OriginOK
<1>3. From(Ops[j], "generated")
  BY <1>1, <1>2 DEF Precedes, From
<1>4. PICK f \in File : \E n \in OpEntries(f) :
        /\ n \in Nat /\ Ops[j].name[1] = f /\ Ops[j].name[2] = n /\ Text(Ops[j].name) = file[f][n].name
  BY <1>3, NamedRow DEF OverlayInv, From
<1>5. PICK n \in OpEntries("generated") :
        n \in Nat /\ Ops[j].name[2] = n /\ Text(Ops[j].name) = file["generated"][n].name
  BY <1>3, <1>4 DEF From
<1>6. n = e
  BY <1>1, <1>5, GeneratedNames DEF OverlayInv
<1>7. n < e
  BY <1>1, <1>2, <1>3, <1>5 DEF Precedes, From, File
<1>8. QED
  BY <1>1, <1>6, <1>7

\* A row without a cmd id that is named like a generated one is curated.
LEMMA NamedByCurated ==
  ASSUME OverlayInv, OriginOK, phase = "merge", NEW e \in ById("generated"),
         NEW k \in DOMAIN Ops, Ops[k].id = 0,
         Text(Ops[k].name) = file["generated"][e].name
  PROVE  \E n \in ByName("curated") :
           /\ n \in Nat /\ Ops[k].name = <<"curated", n, "name">>
           /\ Ops[k].name[1] = "curated" /\ Ops[k].name[2] = n /\ Ops[k].name # NoText
           /\ file["curated"][n].name = file["generated"][e].name
<1>1. e \in OpEntries("generated") /\ file["generated"][e].id # 0
  BY DEF ById
<1>2. file["generated"][e].name # NoText
  BY <1>1, GeneratedNames DEF OverlayInv
<1>3. Ops[k].name # NoText
  BY <1>2 DEF Text
<1>4. PICK f \in File : \E n \in OpEntries(f) :
        /\ n \in Nat /\ Ops[k].name = <<f, n, "name">> /\ Ops[k].name[1] = f /\ Ops[k].name[2] = n
        /\ Ops[k].id = file[f][n].id /\ Text(Ops[k].name) = file[f][n].name
  BY <1>3, NamedRow DEF OverlayInv
<1>5. PICK n \in OpEntries(f) :
        /\ n \in Nat /\ Ops[k].name = <<f, n, "name">> /\ Ops[k].name[1] = f /\ Ops[k].name[2] = n
        /\ Ops[k].id = file[f][n].id /\ Text(Ops[k].name) = file[f][n].name
  BY <1>4
<1>6. f = "curated"
  <2>1. ASSUME f = "generated" PROVE FALSE
    <3>1. n \in OpEntries("generated") /\ file["generated"][n].name = file["generated"][e].name
      BY <1>5, <2>1
    <3>2. n = e
      BY <1>1, <3>1, GeneratedNames DEF OverlayInv
    <3>3. QED
      BY <1>1, <1>5, <2>1, <3>2
  <2>2. QED
    BY <2>1 DEF File
<1>7. n \in ByName("curated")
  BY <1>5, <1>6 DEF ByName, ById
<1>8. QED
  BY <1>3, <1>5, <1>6, <1>7

\* The greatest entry of a set speaks for it.
LEMMA GreatestIsLast ==
  ASSUME NEW S \in SUBSET Nat, NEW n \in S, \A k \in S : k <= n
  PROVE  LastOf(S) = file["curated"][n].desc
<1>1. \A k \in S : (\A m \in S : m <= k) => k = n
  OBVIOUS
<1>2. (CHOOSE k \in S : \A m \in S : m <= k) = n
  BY <1>1
<1>3. QED
  BY <1>2 DEF LastOf

\* A curated row without a namesake describes no generated row.
LEMMA DropDescribes ==
  ASSUME OverlayInv, OriginOK, DescribedOK, Drop
  PROVE  OriginOK' /\ DescribedOK'
<1>1. /\ Merging /\ Ops[i].id = 0 /\ Namesakes = {} /\ i' = i + 1
      /\ file' = file /\ phase' = phase /\ kept' = kept /\ Ops' = Ops
  BY DEF Drop, arrays, Ops
<1>2. /\ phase = "merge" /\ Ops \in Seq(RowType) /\ DOMAIN Ops = 1..Len(Ops) /\ LiveOps \subseteq DOMAIN Ops
  BY <1>1, AtRow
<1>3. LiveOps' = LiveOps \ {i}
  BY <1>1, <1>2, LeaveRow
<1>4. OriginOK'
  BY <1>1, <1>2, <1>3, LeaveOrigin
<1>5. /\ Waiting' \subseteq Waiting
      /\ \A k \in Waiting \ Waiting' : Ops[i].name = <<"curated", k, "name">>
      /\ \A q \in i'..Len(Ops') : Ops'[q].id = 0 /\ Ops'[q].name # NoText =>
           Ops'[q].desc = DescOf(Ops[q].name[1], Ops[q].name[2])'
      /\ \A q \in i'..Len(Ops') : From(Ops'[q], "curated") =>
           \A k \in ByName("curated") :
             k > Ops'[q].name[2] /\ file["curated"][k].name # NoText => k \in Waiting'
  BY <1>1, NextRow
<1>6. ASSUME NEW e \in ById("generated")
      PROVE  \E q \in LiveOps' :
               /\ Ops'[q].name = <<"generated", e, "name">>
               /\ (Text(Ops[q].desc) = LastOf(Told(file["generated"][e].name) \ Waiting))'
  <2>1. PICK q \in LiveOps :
          /\ Ops[q].name = <<"generated", e, "name">>
          /\ Text(Ops[q].desc) = LastOf(Told(file["generated"][e].name) \ Waiting)
    BY <1>2 DEF DescribedOK
  <2>2. /\ Ops[q].id # 0 /\ Text(Ops[q].name) = file["generated"][e].name
        /\ Text(Ops[q].name) # NoText /\ q \in DOMAIN Ops
    BY <1>2, <2>1, GeneratedRow
  <2>3. q # i
    BY <1>1, <2>2
  <2>4. Told(file["generated"][e].name) \ Waiting' = Told(file["generated"][e].name) \ Waiting
    <3>1. ASSUME NEW k \in Told(file["generated"][e].name), k \in Waiting, k \notin Waiting'
          PROVE  FALSE
      <4>1. Ops[i].name = <<"curated", k, "name">>
        BY <1>5, <3>1
      <4>2. Text(Ops[i].name) = file["generated"][e].name
        BY <3>1, <4>1, CuratedText DEF OverlayInv
      <4>3. q \in Namesakes
        BY <2>2, <2>3, <4>2 DEF Namesakes
      <4>4. QED
        BY <1>1, <4>3
    <3>2. QED
      BY <1>5, <3>1
  <2>5. (Text(Ops[q].desc) = LastOf(Told(file["generated"][e].name) \ Waiting))'
    BY <1>1, <2>1, <2>4, FilesStay
  <2>6. QED
    BY <1>1, <1>3, <2>1, <2>3, <2>5
<1>7. \A q \in i'..Len(Ops') : From(Ops'[q], "curated") =>
           \A k \in ByName("curated")' :
             k > Ops'[q].name[2] /\ file'["curated"][k].name # NoText => k \in Waiting'
  BY <1>1, <1>5, FilesStay
<1>8. ById("generated")' = ById("generated")
  BY <1>1, FilesStay
<1>9. \A e \in ById("generated")' : \E q \in LiveOps' :
         /\ Ops'[q].name = <<"generated", e, "name">>
         /\ (Text(Ops[q].desc) = LastOf(Told(file["generated"][e].name) \ Waiting))'
  BY <1>6, <1>8
<1>10. DescribedOK'
  BY <1>5, <1>7, <1>9 DEF DescribedOK, From
<1>11. QED
  BY <1>4, <1>10

\* The description of a curated row goes to the generated row of that name, and
\* is the last of those the merge has come to.
LEMMA FoldDescribes ==
  ASSUME OverlayInv, OriginOK, DescribedOK, Fold
  PROVE  OriginOK' /\ DescribedOK'
<1>1. PICK j : j = CHOOSE n \in Namesakes : \A m \in Namesakes : n <= m
  OBVIOUS
<1>2. /\ Merging /\ Ops[i].id = 0 /\ Namesakes # {} /\ i' = i + 1
      /\ rows' = [rows EXCEPT !["op"][j].desc = Ops[i].desc, !["op"][i].desc = NoText]
      /\ file' = file /\ phase' = phase /\ kept' = kept
  BY <1>1 DEF Fold
<1>3. /\ phase = "merge" /\ Ops \in Seq(RowType) /\ Ops = rows["op"] /\ DOMAIN Ops = 1..Len(Ops)
      /\ Len(Ops) \in Nat /\ i \in Nat /\ i <= Len(Ops)
      /\ i \in LiveOps /\ LiveOps \subseteq DOMAIN Ops
  BY <1>2, AtRow
<1>4. j \in LiveOps /\ j # i /\ j \in DOMAIN Ops /\ i \in DOMAIN Ops
  BY <1>1, <1>2, <1>3, NamesakeLive
<1>5. j \in Namesakes /\ \A m \in Namesakes : j <= m
  <2>1. Namesakes \in SUBSET Nat
    BY <1>3 DEF Namesakes
  <2>2. QED
    BY <1>1, <1>2, <2>1, LeastOf
<1>6. Ops[j].id # 0 /\ Text(Ops[j].name) # NoText /\ Text(Ops[j].name) = Text(Ops[i].name)
  BY <1>5 DEF Namesakes
<1>7. PICK ops : ops = [Ops EXCEPT ![j] = [Ops[j] EXCEPT !.desc = Ops[i].desc],
                                    ![i] = [Ops[i] EXCEPT !.desc = NoText]]
  OBVIOUS
<1>8. Ops' = ops
  <2>1. rows \in [{"op", "mcast", "set"} -> Seq(RowType)]
    BY DEF OverlayInv, ShapeOK
  <2>2. rows' = [rows EXCEPT !["op"] = ops]
    BY <1>2, <1>3, <1>4, <1>7, <2>1
  <2>3. QED
    BY <2>1, <2>2 DEF Ops
<1>9. /\ Ops' \in Seq(RowType) /\ Len(Ops') = Len(Ops) /\ DOMAIN Ops' = DOMAIN Ops
      /\ \A k \in DOMAIN Ops : Ops'[k].id = Ops[k].id /\ Ops'[k].name = Ops[k].name
      /\ Ops'[j].desc = Ops[i].desc
      /\ \A k \in DOMAIN Ops \ {i, j} : Ops'[k].desc = Ops[k].desc
  <2>1. Ops[j] \in RowType /\ Ops[i] \in RowType
    BY <1>3, <1>4
  <2>2. PICK rj \in RowType : rj = [Ops[j] EXCEPT !.desc = Ops[i].desc]
    BY <2>1 DEF RowType
  <2>3. PICK ri \in RowType : ri = [Ops[i] EXCEPT !.desc = NoText]
    BY <2>1 DEF RowType
  <2>4. /\ rj.id = Ops[j].id /\ rj.name = Ops[j].name /\ rj.desc = Ops[i].desc
        /\ ri.id = Ops[i].id /\ ri.name = Ops[i].name
    BY <2>1, <2>2, <2>3 DEF RowType
  <2>5. ops = [Ops EXCEPT ![j] = rj, ![i] = ri]
    BY <1>7, <2>2, <2>3
  <2>6. /\ ops \in Seq(RowType) /\ Len(ops) = Len(Ops) /\ DOMAIN ops = DOMAIN Ops
        /\ ops[j] = rj /\ ops[i] = ri /\ \A k \in DOMAIN Ops \ {i, j} : ops[k] = Ops[k]
    BY <1>3, <1>4, <2>5
  <2>7. QED
    BY <1>8, <2>4, <2>6
<1>10. LiveOps' = LiveOps \ {i}
  BY <1>2, <1>3, <1>9, LeaveRow
<1>11. OriginOK'
  BY <1>2, <1>9, <1>10, LeaveOrigin
<1>12. /\ Waiting' \subseteq Waiting
       /\ \A k \in Waiting \ Waiting' : Ops[i].name = <<"curated", k, "name">>
       /\ \A q \in i'..Len(Ops') : Ops'[q].id = 0 /\ Ops'[q].name # NoText =>
            Ops'[q].desc = DescOf(Ops[q].name[1], Ops[q].name[2])'
       /\ \A q \in i'..Len(Ops') : From(Ops'[q], "curated") =>
            \A k \in ByName("curated") :
              k > Ops'[q].name[2] /\ file["curated"][k].name # NoText => k \in Waiting'
  <2>1. ASSUME NEW q \in (i + 1)..Len(Ops)
        PROVE  /\ Ops'[q].name = Ops[q].name /\ Ops'[q].id = Ops[q].id
               /\ Ops[q].id = 0 => Ops'[q].desc = Ops[q].desc
    <3>1. q \in DOMAIN Ops /\ q # i
      BY <1>3
    <3>2. QED
      BY <1>6, <1>9, <3>1
  <2>2. QED
    BY <1>2, <1>9, <2>1, NextRow
<1>13. ASSUME NEW e \in ById("generated")
       PROVE  \E q \in LiveOps' :
                /\ Ops'[q].name = <<"generated", e, "name">>
                /\ (Text(Ops[q].desc) = LastOf(Told(file["generated"][e].name) \ Waiting))'
  <2>1. PICK q \in LiveOps :
          /\ Ops[q].name = <<"generated", e, "name">>
          /\ Text(Ops[q].desc) = LastOf(Told(file["generated"][e].name) \ Waiting)
    BY <1>3 DEF DescribedOK
  <2>2. /\ Ops[q].id # 0 /\ Text(Ops[q].name) = file["generated"][e].name
        /\ Text(Ops[q].name) # NoText /\ q \in DOMAIN Ops
    BY <1>3, <2>1, GeneratedRow
  <2>3. q # i /\ q \in LiveOps'
    BY <1>2, <1>10, <2>2
  <2>4. Text(Ops'[q].desc) = LastOf(Told(file["generated"][e].name) \ Waiting')
    <3>1. CASE Text(Ops[i].name) = file["generated"][e].name
      <4>1. q = j
        <5>1. q \in Namesakes
          BY <2>2, <2>3, <3>1 DEF Namesakes
        <5>2. j <= q
          BY <1>5, <5>1
        <5>3. ASSUME j < q PROVE FALSE
          BY <1>3, <1>4, <1>6, <2>1, <2>2, <3>1, <5>3, FirstOfItsName
        <5>4. QED
          BY <1>3, <1>4, <2>2, <5>2, <5>3
      <4>2. PICK n \in ByName("curated") :
              /\ n \in Nat /\ Ops[i].name = <<"curated", n, "name">>
              /\ Ops[i].name[1] = "curated" /\ Ops[i].name[2] = n /\ Ops[i].name # NoText
              /\ file["curated"][n].name = file["generated"][e].name
        BY <1>2, <1>3, <2>2, <3>1, NamedByCurated
      <4>3. Text(Ops'[q].desc) = file["curated"][n].desc
        <5>1. Ops[i].desc = DescOf("curated", n)
          <6>1. i \in i..Len(Ops)
            BY <1>3
          <6>2. QED
            BY <1>2, <1>3, <4>2, <6>1 DEF DescribedOK
        <5>2. "curated" \in File
          BY DEF File
        <5>3. QED
          BY <1>9, <4>1, <4>2, <5>1, <5>2, TextOfCopy
      <4>4. n \in Told(file["generated"][e].name) \ Waiting'
        <5>1. n \in Told(file["generated"][e].name)
          BY <4>2 DEF Told
        <5>2. ASSUME n \in Waiting' PROVE FALSE
          <6>1. PICK m \in (i + 1)..Len(Ops) : Ops'[m].name = <<"curated", n, "name">>
            BY <1>2, <1>9, <5>2 DEF Waiting
          <6>2. m \in LiveOps /\ m # i /\ Ops[m].name = <<"curated", n, "name">>
            <7>1. m \in DOMAIN Ops /\ m # i /\ m \in i..Len(Ops)
              BY <1>3
            <7>2. QED
              BY <1>3, <1>9, <6>1, <7>1 DEF LiveOps
          <6>3. LiveOps \subseteq Int
            BY <1>3
          <6>4. QED
            BY <1>3, <4>2, <6>2, <6>3, OneOwner DEF File
        <5>3. QED
          BY <5>1, <5>2
      <4>5. ASSUME NEW k \in Told(file["generated"][e].name) \ Waiting' PROVE k \in Nat /\ k <= n
        <5>1. k \in ByName("curated") /\ file["curated"][k].name # NoText /\ k \in Nat
          BY <2>2, EntryNumbers DEF Told, ByName, OverlayInv, File
        <5>2. ASSUME k > n PROVE FALSE
          <6>1. i \in i..Len(Ops) /\ From(Ops[i], "curated")
            BY <1>3, <4>2 DEF From
          <6>2. k \in Waiting
            BY <1>3, <4>2, <5>1, <5>2, <6>1 DEF DescribedOK
          <6>3. Ops[i].name = <<"curated", k, "name">>
            BY <1>12, <4>5, <6>2
          <6>4. QED
            BY <4>2, <5>1, <5>2, <6>3
        <5>3. QED
          BY <4>2, <5>1, <5>2
      <4>6. LastOf(Told(file["generated"][e].name) \ Waiting') = file["curated"][n].desc
        BY <4>2, <4>4, <4>5, GreatestIsLast
      <4>7. QED
        BY <4>3, <4>6
    <3>2. CASE Text(Ops[i].name) # file["generated"][e].name
      <4>1. q # j
        BY <1>6, <2>2, <3>2
      <4>2. Ops'[q].desc = Ops[q].desc
        BY <1>9, <2>2, <2>3, <4>1
      <4>3. ASSUME NEW k \in Told(file["generated"][e].name), k \in Waiting, k \notin Waiting'
            PROVE  FALSE
        <5>1. Ops[i].name = <<"curated", k, "name">>
          BY <1>12, <4>3
        <5>2. Text(Ops[i].name) = file["generated"][e].name
          BY <4>3, <5>1, CuratedText DEF OverlayInv
        <5>3. QED
          BY <3>2, <5>2
      <4>4. Told(file["generated"][e].name) \ Waiting' = Told(file["generated"][e].name) \ Waiting
        BY <1>12, <4>3
      <4>5. QED
        BY <2>1, <4>2, <4>4
    <3>3. QED
      BY <3>1, <3>2
  <2>5. Ops'[q].name = <<"generated", e, "name">>
    BY <1>9, <2>1, <2>2
  <2>6. (Text(Ops[q].desc) = LastOf(Told(file["generated"][e].name) \ Waiting))'
    BY <1>2, <2>4, FilesStay
  <2>7. QED
    BY <2>3, <2>5, <2>6
<1>14. DescribedOK'
  <2>1. ById("generated")' = ById("generated") /\ ByName("curated")' = ByName("curated")
    BY <1>2, FilesStay
  <2>2. \A e \in ById("generated")' : \E q \in LiveOps' :
           /\ Ops'[q].name = <<"generated", e, "name">>
           /\ (Text(Ops[q].desc) = LastOf(Told(file["generated"][e].name) \ Waiting))'
    BY <1>13, <2>1
  <2>3. \A q \in i'..Len(Ops') : From(Ops'[q], "curated") =>
           \A k \in ByName("curated")' :
             k > Ops'[q].name[2] /\ file'["curated"][k].name # NoText => k \in Waiting'
    BY <1>2, <1>12, <2>1
  <2>4. QED
    BY <1>12, <2>2, <2>3 DEF DescribedOK, From
<1>15. QED
  BY <1>11, <1>14

\* When the merge ends no curated name waits any more, and the first row with a
\* cmd id is the first generated entry's.
LEMMA EndMergeDescribes ==
  ASSUME OverlayInv, OriginOK, DescribedOK, EndMerge
  PROVE  DescribedByName'
<1>1. /\ phase = "merge" /\ i > Len(Ops) /\ file' = file
      /\ rows' = [rows EXCEPT !["op"] = SubSeq(@, 1, kept)]
  BY DEF EndMerge
<1>2. /\ Ops \in Seq(RowType) /\ Len(Ops) \in Nat /\ DOMAIN Ops = 1..Len(Ops)
      /\ i \in Nat /\ kept \in Nat /\ kept <= Len(Ops)
      /\ \A k \in 1..kept : Ops[k].id # 0
  <2>1. Ops \in Seq(RowType)
    BY DEF OverlayInv, ShapeOK, Ops
  <2>2. i \in Nat /\ kept \in Nat /\ kept < i /\ i <= Len(Ops) + 1
    BY <1>1 DEF OverlayInv, TypeOK, MergeOK
  <2>3. \A k \in 1..kept : Ops[k].id # 0
    BY <1>1 DEF OverlayInv, MergeOK
  <2>4. Len(Ops) \in Nat /\ DOMAIN Ops = 1..Len(Ops)
    BY <2>1
  <2>5. QED
    BY <2>1, <2>2, <2>3, <2>4
<1>3. /\ DOMAIN Ops' = 1..kept /\ \A k \in 1..kept : Ops'[k] = Ops[k] /\ Ops[k] \in RowType
  <2>1. Ops' = SubSeq(Ops, 1, kept)
    BY <1>1 DEF OverlayInv, ShapeOK, Ops
  <2>2. QED
    BY <1>2, <2>1
<1>4. LiveOps = 1..kept /\ Waiting = {} /\ LiveOps \subseteq DOMAIN Ops
  BY <1>1, <1>2 DEF LiveOps, Waiting
<1>5. ASSUME NEW e \in ById("generated"),
             \A m \in ById("generated") :
               file["generated"][m].id = file["generated"][e].id => e <= m
      PROVE  \E q \in 1..kept : /\ FindOp(file["generated"][e].id)' = Ops[q]
                                /\ Text(Ops[q].name) = file["generated"][e].name
                                /\ Text(Ops[q].desc) = Curated(file["generated"][e].name)
  <2>1. PICK q \in 1..kept :
          /\ Ops[q].name = <<"generated", e, "name">>
          /\ Text(Ops[q].desc) = LastOf(Told(file["generated"][e].name) \ Waiting)
    BY <1>1, <1>4 DEF DescribedOK
  <2>2. /\ Ops[q].id = file["generated"][e].id /\ Text(Ops[q].name) = file["generated"][e].name
        /\ Ops[q].name # NoText /\ Ops[q].name[1] = "generated" /\ Ops[q].name[2] = e
        /\ e \in Nat
    BY <1>1, <1>4, <2>1, GeneratedRow, EntryNumbers DEF OverlayInv, ById, File
  <2>3. ASSUME NEW m \in 1..kept, Ops[m].id = file["generated"][e].id PROVE q <= m
    <3>1. ASSUME m < q PROVE FALSE
      <4>1. Precedes(Ops[m], Ops[q])
        BY <1>1, <1>4, <3>1 DEF OriginOK
      <4>2. From(Ops[m], "generated")
        BY <2>2, <4>1 DEF Precedes, From
      <4>3. PICK f \in File : \E n \in OpEntries(f) :
              n \in Nat /\ Ops[m].name[1] = f /\ Ops[m].name[2] = n /\ Ops[m].id = file[f][n].id
        BY <1>1, <1>2, <4>2, NamedRow DEF OverlayInv, From
      <4>4. PICK n \in OpEntries("generated") :
              n \in Nat /\ Ops[m].name[2] = n /\ Ops[m].id = file["generated"][n].id
        BY <4>2, <4>3 DEF From
      <4>5. n < e
        BY <2>2, <4>1, <4>2, <4>4 DEF Precedes, From, File
      <4>6. n \in ById("generated")
        BY <1>2, <4>4 DEF ById
      <4>7. QED
        BY <1>5, <2>2, <2>3, <4>4, <4>5, <4>6
    <3>2. QED
      BY <1>2, <3>1
  <2>4. FindOp(file["generated"][e].id)' = Ops[q]
    <3>1. PICK found : found = {k \in 1..kept : Ops[k].id = file["generated"][e].id}
      OBVIOUS
    <3>2. found = {k \in DOMAIN Ops' : Ops'[k].id = (file["generated"][e].id)'}
      BY <1>1, <1>3, <3>1
    <3>3. q \in found /\ \A m \in found : q <= m /\ m \in Int
      BY <2>2, <2>3, <3>1
    <3>4. \A k \in found : (\A m \in found : k <= m) => k = q
      BY <3>3
    <3>5. (CHOOSE k \in found : \A m \in found : k <= m) = q
      BY <3>3, <3>4
    <3>6. QED
      BY <1>3, <3>2, <3>3, <3>5 DEF FindOp
  <2>5. Text(Ops[q].desc) = Curated(file["generated"][e].name)
    BY <1>4, <2>1 DEF Curated
  <2>6. QED
    BY <2>2, <2>4, <2>5
<1>6. \A k \in DOMAIN Ops' : Ops'[k].id # 0
  BY <1>2, <1>3
<1>7. \A name : Curated(name)' = Curated(name)
  BY <1>1, FilesStay DEF Curated
<1>8. ASSUME NEW e \in ById("generated"),
             \A m \in ById("generated") :
               file["generated"][m].id = file["generated"][e].id => e <= m
      PROVE  (LET entry == file["generated"][e]
                  found == FindOp(entry.id)
              IN  /\ found # NoText
                  /\ Text(found.name) = entry.name
                  /\ Text(found.desc) = Curated(entry.name))'
  <2>1. PICK q \in 1..kept : /\ FindOp(file["generated"][e].id)' = Ops[q]
                             /\ Text(Ops[q].name) = file["generated"][e].name
                             /\ Text(Ops[q].desc) = Curated(file["generated"][e].name)
    BY <1>5, <1>8
  <2>2. Ops[q] # NoText
    BY <1>3, TextAssumption
  <2>3. QED
    BY <1>1, <1>7, <2>1, <2>2, FilesStay
<1>9. QED
  BY <1>1, <1>6, <1>8, FilesStay DEF DescribedByName

-----------------------------------------------------------------------------
(* The theorem.                                                            *)

\* After a load that failed, or came to nothing, or is over, nothing is said.
LEMMA DescribedElsewhere ==
  ASSUME phase' \in {"failed", "none", "destroyed"}
  PROVE  Described'
BY DEF Described, OriginOK, PresentOK, DescribedOK, DescribedByName, File

\* A load over any two files, whatever fails, finds under each cmd id what the
\* curated file says last of the name the generated file gives it.
THEOREM DescriptionsFound == Spec => []DescribedByName
<1>1. Init => Described
  <2>1. SUFFICES ASSUME Init PROVE Described
    OBVIOUS
  <2>2. /\ phase = "generated" /\ phase \in File /\ pos = 1 /\ Ops = << >> /\ DOMAIN Ops = {}
        /\ LiveOps = {}
    BY <2>1 DEF Init, Ops, File, LiveOps
  <2>3. \A f \in File : \A k \in OpEntries(f) : ~IsRead(f, k)
    <3>1. ShapeOK
      BY <2>1 DEF Init, ShapeOK
    <3>2. QED
      BY <2>2, <3>1, EntryNumbers DEF IsRead, File
  <2>4. QED
    BY <2>2, <2>3 DEF Described, OriginOK, PresentOK, DescribedOK, DescribedByName
<1>2. OverlayInv /\ OverlayInv' /\ Described /\ [Next]_vars => Described'
  <2>1. SUFFICES ASSUME OverlayInv, OverlayInv', Described, [Next]_vars PROVE Described'
    OBVIOUS
  <2>2. phase \in File /\ phase' = phase /\ OriginOK' /\ PresentOK' => Described'
    BY DEF Described, DescribedOK, DescribedByName, File
  <2>3. OriginOK /\ PresentOK /\ DescribedOK
    BY <2>1 DEF Described
  <2>4. CASE ReadRow
    <3>1. CASE Entry.sec = "op"
      <4>1. Ops' = Append(Ops, Row)
        BY <2>1, <2>4, <3>1 DEF ReadRow, Ops, OverlayInv, ShapeOK
      <4>2. AtEntry({"op"})
        BY <2>4, <3>1 DEF ReadRow, AtEntry
      <4>3. phase \in File /\ UNCHANGED <<file, phase>> /\ pos' = pos + 1
        BY <2>4 DEF ReadRow, AtEntry, Reading
      <4>4. QED
        BY <2>1, <2>2, <2>3, <4>1, <4>2, <4>3, ReadOpOrigin
    <3>2. CASE Entry.sec # "op"
      <4>1. Ops' = Ops
        BY <2>1, <2>4, <3>2 DEF ReadRow, Ops, OverlayInv, ShapeOK
      <4>2. phase \in File /\ UNCHANGED <<file, phase>> /\ pos' = pos + 1 /\ AtEntry({"op", "mcast"})
        BY <2>4 DEF ReadRow, AtEntry, Reading
      <4>3. QED
        BY <2>1, <2>2, <2>3, <3>2, <4>1, <4>2, ReadOther
    <3>3. QED
      BY <3>1, <3>2
  <2>5. CASE ReadSet
    <3>1. Ops' = Ops
      BY <2>1, <2>5 DEF ReadSet, Ops, OverlayInv, ShapeOK
    <3>2. /\ phase \in File /\ UNCHANGED <<file, phase>> /\ pos' = pos + 1
          /\ AtEntry({"set"}) /\ Entry.sec # "op"
      BY <2>5 DEF ReadSet, AtEntry, Reading
    <3>3. QED
      BY <2>1, <2>2, <2>3, <3>1, <3>2, ReadOther
  <2>6. CASE ReadAttr
    <3>1. /\ Ops' = Ops /\ phase \in File /\ UNCHANGED <<file, phase>> /\ pos' = pos + 1
          /\ AtEntry({"attr"}) /\ Entry.sec # "op"
      BY <2>6 DEF ReadAttr, AtEntry, Reading, Ops
    <3>2. QED
      BY <2>1, <2>2, <2>3, <3>1, ReadOther
  <2>7. CASE RowOom \/ AttrOom \/ ReadBad \/ OpenFails \/ NoOverlay \/ Destroy
    BY <2>7, DescribedElsewhere DEF RowOom, AttrOom, ReadBad, OpenFails, NoOverlay, Destroy, Fail
  <2>8. CASE NextFile
    <3>1. OriginOK' /\ PresentOK'
      BY <2>1, <2>3, <2>8, NextFileOrigin
    <3>2. phase' = "curated"
      BY <2>8 DEF NextFile
    <3>3. QED
      BY <3>1, <3>2 DEF Described, DescribedOK, DescribedByName
  <2>9. CASE StartMerge \/ Keep \/ Drop \/ Fold
    <3>1. OriginOK' /\ DescribedOK'
      BY <2>1, <2>3, <2>9, StartMergeOrigin, KeepOrigin, DropDescribes, FoldDescribes
    <3>2. phase' = "merge"
      BY <2>9 DEF StartMerge, Keep, Drop, Fold, Merging
    <3>3. QED
      BY <3>1, <3>2 DEF Described, PresentOK, DescribedByName, File
  <2>10. CASE EndMerge
    <3>1. DescribedByName'
      BY <2>1, <2>3, <2>10, EndMergeDescribes
    <3>2. phase' = "loaded"
      BY <2>10 DEF EndMerge
    <3>3. QED
      BY <3>1, <3>2 DEF Described, OriginOK, PresentOK, DescribedOK, File
  <2>11. CASE UNCHANGED vars
    <3>1. /\ UNCHANGED <<file, phase, pos, rows, i, kept>> /\ Ops' = Ops /\ LiveOps' = LiveOps
      BY <2>11 DEF vars, arrays, Ops, LiveOps
    <3>2. /\ Waiting' = Waiting
          /\ \A f, k : IsRead(f, k)' = IsRead(f, k) /\ RowOf(f, k)' = RowOf(f, k)
          /\ \A id : FindOp(id)' = FindOp(id)
          /\ \A name : Curated(name)' = Curated(name)
      BY <3>1, FilesStay DEF Waiting, IsRead, RowOf, NameOf, DescOf, FindOp, Curated
    <3>3. OriginOK' /\ PresentOK'
      BY <2>3, <3>1, <3>2, FilesStay DEF OriginOK, PresentOK
    <3>4. DescribedOK'
      <4>1. ById("generated")' = ById("generated") /\ ByName("curated")' = ByName("curated")
        BY <3>1, FilesStay
      <4>2. \A r, f : From(r, f)' = From(r, f)
        BY DEF From
      <4>3. \A f, k : DescOf(f, k)' = DescOf(f, k)
        BY <3>1, FilesStay
      <4>4. \A e, q : (Text(Ops[q].desc) = LastOf(Told(file["generated"][e].name) \ Waiting))'
                      <=> Text(Ops[q].desc) = LastOf(Told(file["generated"][e].name) \ Waiting)
        BY <3>1, <3>2, FilesStay
      <4>5. SUFFICES ASSUME phase = "merge"
                     PROVE  DescribedOK'
        BY <3>1 DEF DescribedOK
      <4>6. \A e \in ById("generated") : \E q \in LiveOps :
              /\ Ops[q].name = <<"generated", e, "name">>
              /\ (Text(Ops[q].desc) = LastOf(Told(file["generated"][e].name) \ Waiting))'
        BY <2>3, <4>4, <4>5 DEF DescribedOK
      <4>7. \A q \in i..Len(Ops) : Ops[q].id = 0 /\ Ops[q].name # NoText =>
              (Ops[q].desc = DescOf(Ops[q].name[1], Ops[q].name[2]))'
        BY <2>3, <3>1, <4>3, <4>5 DEF DescribedOK
      <4>8. \A q \in i..Len(Ops) : From(Ops[q], "curated") =>
              \A k \in ByName("curated") :
                k > Ops[q].name[2] /\ file["curated"][k].name # NoText => k \in Waiting
        BY <2>3, <4>5 DEF DescribedOK
      <4>9. QED
        BY <3>1, <3>2, <4>1, <4>2, <4>6, <4>7, <4>8 DEF DescribedOK
    <3>5. DescribedByName'
      BY <2>1, <3>1, <3>2, FilesStay DEF Described, DescribedByName
    <3>6. QED
      BY <3>3, <3>4, <3>5 DEF Described
  <2>12. QED
    BY <2>1, <2>4, <2>5, <2>6, <2>7, <2>8, <2>9, <2>10, <2>11 DEF Next
<1>3. Described => DescribedByName
  BY DEF Described
<1>4. QED
  BY <1>1, <1>2, <1>3, LoaderInductive, PTL DEF Spec
==============================================================================
