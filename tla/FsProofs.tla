------------------------------ MODULE FsProofs ------------------------------
(***************************************************************************)
(* Machine-checked proofs about FsTransport, for every directory, however  *)
(* often it changes while it is walked, every file and every pattern of    *)
(* failures: FsInv is inductive.                                           *)
(***************************************************************************)
EXTENDS FsTransport, SequenceTheorems, WellFoundedInduction, TLAPS

-----------------------------------------------------------------------------
(* Sequences.                                                              *)

\* What is behind the first f elements of a sequence.
TailFrom(s, f) == SubSeq(s, f + 1, Len(s))

\* The tail, element by element.
LEMMA TailElements ==
  ASSUME NEW S, NEW s \in Seq(S), NEW f \in Nat, f <= Len(s)
  PROVE  /\ TailFrom(s, f) \in Seq(S) /\ Len(TailFrom(s, f)) = Len(s) - f
         /\ \A k \in 1 .. Len(s) - f : TailFrom(s, f)[k] = s[f + k]
<1>1. \A k \in f + 1 .. Len(s) : s[k] \in S
  OBVIOUS
<1>2. Len(s) \in Nat
  OBVIOUS
<1>3. TailFrom(s, f) \in Seq(S)
  BY <1>1, <1>2, SubSeqProperties DEF TailFrom
<1>4. Len(TailFrom(s, f)) = Len(s) - f
  BY <1>1, <1>2, SubSeqProperties DEF TailFrom
<1>5. \A k \in 1 .. Len(s) - f : TailFrom(s, f)[k] = s[f + k]
  BY <1>2 DEF TailFrom
<1>6. QED
  BY <1>3, <1>4, <1>5

\* What is appended, element by element.
LEMMA AppendElements ==
  ASSUME NEW S, NEW s \in Seq(S), NEW e \in S
  PROVE  /\ Append(s, e) \in Seq(S) /\ Len(Append(s, e)) = Len(s) + 1
         /\ \A k \in 1 .. Len(s) : Append(s, e)[k] = s[k]
         /\ Append(s, e)[Len(s) + 1] = e
OBVIOUS

\* What is appended is the last of a tail, too.
LEMMA TailOfAppend ==
  ASSUME NEW S, NEW s \in Seq(S), NEW e \in S, NEW f \in Nat, f <= Len(s)
  PROVE  /\ Len(Append(s, e)) = Len(s) + 1 /\ TailFrom(s, f) \in Seq(S)
         /\ TailFrom(Append(s, e), f) = Append(TailFrom(s, f), e)
<1>1. PICK a \in Seq(S) : /\ a = Append(s, e) /\ Len(a) = Len(s) + 1
                          /\ \A k \in 1 .. Len(s) : a[k] = s[k]
                          /\ a[Len(s) + 1] = e
  BY AppendElements
<1>2. PICK t \in Seq(S) : /\ t = TailFrom(s, f) /\ Len(t) = Len(s) - f
                          /\ \A k \in 1 .. Len(s) - f : t[k] = s[f + k]
  BY TailElements
<1>3. f <= Len(a)
  BY <1>1
<1>4. PICK l \in Seq(S) : /\ l = TailFrom(a, f) /\ Len(l) = Len(a) - f
                          /\ \A k \in 1 .. Len(a) - f : l[k] = a[f + k]
  BY <1>3, TailElements
<1>5. PICK m \in Seq(S) : /\ m = Append(t, e) /\ Len(m) = Len(t) + 1
                          /\ \A k \in 1 .. Len(t) : m[k] = t[k]
                          /\ m[Len(t) + 1] = e
  BY AppendElements
<1>6. Len(l) = Len(m) /\ Len(l) = Len(s) + 1 - f
  BY <1>1, <1>2, <1>4, <1>5
<1>7. \A k \in 1 .. Len(l) : l[k] = m[k]
  <2>1. ASSUME NEW k \in 1 .. Len(l), k <= Len(t)
        PROVE  l[k] = m[k]
    BY <1>1, <1>2, <1>4, <1>5, <1>6, <2>1
  <2>2. ASSUME NEW k \in 1 .. Len(l), k = Len(t) + 1
        PROVE  l[k] = m[k]
    BY <1>1, <1>2, <1>4, <1>5, <1>6, <2>2
  <2>3. QED
    BY <1>2, <1>6, <2>1, <2>2
<1>8. l = m
  BY <1>6, <1>7, SeqEqual
<1>9. QED
  BY <1>1, <1>2, <1>4, <1>5, <1>8

\* A beginning and a piece more are a beginning.
LEMMA LongerBeginning ==
  ASSUME NEW S, NEW s \in Seq(S), NEW n \in Nat, NEW k \in Nat, n + k <= Len(s)
  PROVE  SubSeq(s, 1, n) \o SubSeq(s, n + 1, n + k) = SubSeq(s, 1, n + k)
  OBVIOUS

\* Appending adds the one element.
LEMMA OneMore ==
  ASSUME NEW S, NEW s \in Seq(S), NEW e \in S
  PROVE  ToSet(Append(s, e)) = ToSet(s) \cup {e}
<1>1. /\ DOMAIN Append(s, e) = DOMAIN s \cup {Len(s) + 1}
      /\ \A k \in DOMAIN s : Append(s, e)[k] = s[k]
      /\ Append(s, e)[Len(s) + 1] = e
  OBVIOUS
<1>2. QED
  BY <1>1 DEF ToSet

\* Trimming a newline.
LEMMA TrimmedType ==
  ASSUME NEW s \in Seq(Byte)
  PROVE  Trimmed(s) \in Seq(Byte)
  BY DEF Trimmed, Front

\* Among some natural numbers there is a least one.
LEMMA LeastNatural ==
  ASSUME NEW S \in SUBSET Nat, S # {}
  PROVE  \E x \in S : \A y \in S : x <= y
<1>1. PICK R : R = {ss \in Nat \X Nat : ss[1] < ss[2]}
  OBVIOUS
<1>2. IsWellFoundedOn(R, Nat)
  BY <1>1, NatLessThanWellFounded, Zenon DEF OpToRel
<1>3. \A a, b \in Nat : a < b => <<a, b>> \in R
  BY <1>1
<1>4. PICK x \in S : \A y \in S : ~(<<y, x>> \in R)
  BY <1>2, WFMin
<1>5. \A y \in S : x \in Nat /\ y \in Nat /\ ~(y < x)
  BY <1>3, <1>4
<1>6. QED
  BY <1>5

\* What %s prints is bytes.
LEMMA UpToNulType ==
  ASSUME NEW s \in Seq(Byte)
  PROVE  UpToNul(s) \in Seq(Byte)
<1>1. PICK nuls : nuls = {k \in DOMAIN s : s[k] = "nul"}
  OBVIOUS
<1>2. CASE nuls = {}
  BY <1>1, <1>2 DEF UpToNul
<1>3. CASE nuls # {}
  <2>1. nuls \in SUBSET Nat
    BY <1>1
  <2>2. PICK k \in nuls : k = CHOOSE l \in nuls : \A m \in nuls : l <= m
    BY <1>3, <2>1, LeastNatural
  <2>3. UpToNul(s) = SubSeq(s, 1, k - 1)
    BY <1>1, <1>3, <2>2 DEF UpToNul
  <2>4. k \in 1 .. Len(s)
    BY <1>1
  <2>5. SubSeq(s, 1, k - 1) \in Seq(Byte)
    BY <2>4
  <2>6. QED
    BY <2>3, <2>5
<1>4. QED
  BY <1>2, <1>3

\* The three parts of what an invoke returns.
LEMMA AnswerParts ==
  ASSUME NEW what
  PROVE  Answer(what).what = what /\ Answer(what).bytes \in Seq(Byte) /\ Answer(what).read \in Nat
<1>1. << >> \in Seq(Byte) /\ 0 \in Nat
  OBVIOUS
<1>2. Answer(what).what = what /\ Answer(what).bytes = << >> /\ Answer(what).read = 0
  BY DEF Answer
<1>3. QED
  BY <1>1, <1>2

LEMMA TextParts ==
  ASSUME NEW s \in Seq(Byte)
  PROVE  /\ TextOf(s).what \in {"bytes", "empty"}
         /\ TextOf(s).bytes \in Seq(Byte) /\ TextOf(s).read \in Nat
<1>1. UpToNul(s) \in Seq(Byte) /\ Len(s) \in Nat
  BY UpToNulType
<1>2. TextOf(s) = Answer("empty")
      \/ (TextOf(s).what = "bytes" /\ TextOf(s).bytes = UpToNul(s) /\ TextOf(s).read = Len(s))
  BY DEF TextOf
<1>4. CASE TextOf(s) = Answer("empty")
  <2>1. /\ Answer("empty").what = "empty" /\ Answer("empty").bytes \in Seq(Byte)
        /\ Answer("empty").read \in Nat
    BY AnswerParts
  <2>2. QED
    BY <1>4, <2>1
<1>5. QED
  BY <1>1, <1>2, <1>4

\* qsort keeps the names, each as often as it was.
LEMMA Reordering ==
  ASSUME NEW s \in Seq(Names), NEW t \in Reordered(s)
  PROVE  /\ t \in Seq(Names) /\ Len(t) = Len(s) /\ ToSet(t) = ToSet(s)
         /\ (\A j, k \in DOMAIN s : s[j] = s[k] => j = k)
              => \A j, k \in DOMAIN t : t[j] = t[k] => j = k
<1>1. PICK p \in Bijection(DOMAIN s, DOMAIN s) : t = [k \in DOMAIN s |-> s[p[k]]]
  BY DEF Reordered
<1>2. /\ p \in [DOMAIN s -> DOMAIN s]
      /\ \A j, k \in DOMAIN s : p[j] = p[k] => j = k
      /\ \A m \in DOMAIN s : \E k \in DOMAIN s : p[k] = m
  BY <1>1 DEF Bijection, Injection, Surjection, IsInjective
<1>3. t \in Seq(Names) /\ Len(t) = Len(s) /\ DOMAIN t = DOMAIN s
  <2>1. Len(s) \in Nat /\ DOMAIN s = 1 .. Len(s)
    OBVIOUS
  <2>2. t \in [1 .. Len(s) -> Names]
    BY <1>1, <1>2, <2>1
  <2>3. QED
    BY <2>1, <2>2
<1>4. ToSet(t) = ToSet(s)
  BY <1>1, <1>2, <1>3 DEF ToSet
<1>5. QED
  BY <1>1, <1>2, <1>3, <1>4

-----------------------------------------------------------------------------
(* Types.                                                                  *)

\* At the start.
LEMMA InitTypes == Init => TypeOK
<1> SUFFICES ASSUME Init PROVE TypeOK
  OBVIOUS
<1>1. disk \in [Names -> Entry] /\ unread \subseteq Names /\ doubtful \subseteq Names
  BY EntryAssumption DEF Init
<1>2. names \in Seq(Names) /\ children \in Seq(Child) /\ buf \in Seq(Byte)
  BY DEF Init
<1>3. freed \in [Names -> Nat]
  BY DEF Init
<1>4. text = Answer("none")
  BY DEF Init, NoText
<1>5. text.what = "none" /\ text.bytes \in Seq(Byte) /\ text.read \in Nat
  BY <1>4, AnswerParts
<1>6. changes \in 0 .. MaxChanges /\ attempts \in 0 .. MaxAttempts
  BY BoundAssumption DEF Init
<1>7. /\ content \in Contents \cup {<< >>} /\ leaf \in Child \cup {NoLeaf}
      /\ steady \in BOOLEAN /\ pc = "idle" /\ i \in Nat /\ isLink \in BOOLEAN
      /\ descriptor \in BOOLEAN /\ first \in Nat /\ populated \in BOOLEAN
      /\ blocks \in BOOLEAN
  BY DEF Init
<1>8. QED
  BY <1>1, <1>2, <1>3, <1>4, <1>5, <1>6, <1>7 DEF TypeOK

\* The kernel's changes.
LEMMA KernelTypes ==
  ASSUME TypeOK, (\E n \in Names : Change(n)) \/ Rewrite
  PROVE  TypeOK'
<1>1. UNCHANGED <<pc, descriptor, unread, names, freed, i, isLink, children, first, attempts,
                  populated, leaf, buf, blocks, text>>
  BY DEF Change, Rewrite, listing, reading
<1>2. disk' \in [Names -> Entry] /\ content' \in Contents \cup {<< >>}
      /\ doubtful' \subseteq Names /\ steady' \in BOOLEAN
  <2>1. ASSUME NEW n \in Names, Change(n)
        PROVE  disk' \in [Names -> Entry] /\ doubtful' \subseteq Names
               /\ UNCHANGED <<content, steady>>
    BY <2>1 DEF Change, TypeOK
  <2>2. CASE Rewrite
    BY <2>2 DEF Rewrite, TypeOK
  <2>3. QED
    BY <2>1, <2>2 DEF TypeOK
<1>3. changes' \in 0 .. MaxChanges
  BY BoundAssumption DEF Change, Rewrite, TypeOK
<1>4. QED
  BY <1>1, <1>2, <1>3 DEF TypeOK

\* A file is bytes.
LEMMA ContentType == TypeOK => content \in Seq(Byte)
<1>1. << >> \in Seq(Byte)
  OBVIOUS
<1>2. QED
  BY <1>1, EntryAssumption DEF TypeOK

\* Freeing counts.
LEMMA FreedTypes ==
  ASSUME TypeOK, NEW N
  PROVE  /\ Freeing(N) \in [Names -> Nat]
         /\ \A n \in Names : Freeing(N)[n] = freed[n] + (IF n \in N THEN 1 ELSE 0)
  BY DEF Freeing, TypeOK

\* The steps of a listing keep the types.
LEMMA ListingTypes ==
  ASSUME TypeOK, CopiesOK, OpenDir \/ OpenDirFails \/ Populating
  PROVE  TypeOK'
<1>1. UNCHANGED <<disk, content, changes, steady, leaf, buf, blocks, text>>
  BY DEF OpenDir, OpenDirFails, Populating, ReadName, NameFails, EndOfDir, Lstat, SkipLong,
         SpawnUnreachable, SpawnReachable, SkipSocket, SpawnFails, Listed, NextName,
         kernel, reading
<1>8. doubtful' \subseteq Names
  <2>1. pc \in {"lstat", "stat"} /\ i <= Len(names) => names[i] \in Names
    BY DEF TypeOK, CopiesOK, InLoop
  <2>2. CASE Lstat
    BY <2>1, <2>2 DEF Lstat, TypeOK
  <2>3. CASE SpawnUnreachable
    <3>1. names[i] \in Names
      BY <2>1, <2>3 DEF SpawnUnreachable, CopiesOK
    <3>2. QED
      BY <2>3, <3>1 DEF SpawnUnreachable, TypeOK
  <2>4. CASE ~(Lstat \/ SpawnUnreachable)
    BY <2>4 DEF OpenDir, OpenDirFails, Populating, ReadName, NameFails, EndOfDir, SkipLong,
         SpawnReachable, SkipSocket, SpawnFails, Listed, kernel, TypeOK
  <2>5. QED
    BY <2>2, <2>3, <2>4
<1>2. pc' \in {"idle", "readdir", "lstat", "stat"} /\ descriptor' \in BOOLEAN
      /\ populated' \in BOOLEAN /\ isLink' \in BOOLEAN /\ unread' \subseteq Names
  <2>1. CASE Lstat
    <3>1. names[i] \in Names
      BY <2>1 DEF Lstat, TypeOK, CopiesOK, InLoop
    <3>2. disk[names[i]].link \in BOOLEAN
      BY <3>1 DEF TypeOK, Entry
    <3>3. QED
      BY <2>1, <3>2 DEF Lstat, TypeOK
  <2>2. CASE ~Lstat
    BY <2>2 DEF OpenDir, OpenDirFails, StartListing, Populating, ReadName, NameFails, EndOfDir,
         SkipLong, SpawnUnreachable, SpawnReachable, SkipSocket, SpawnFails, Listed, NextName,
         TypeOK, Present
  <2>3. QED
    BY <2>1, <2>2
<1>3. names' \in Seq(Names)
  <2>1. CASE EndOfDir
    BY <2>1, Reordering DEF EndOfDir, TypeOK
  <2>2. ASSUME NEW n \in Names, ReadName(n)
        PROVE  names' \in Seq(Names)
    BY <2>2 DEF ReadName, TypeOK
  <2>3. CASE OpenDir
    BY <2>3 DEF OpenDir
  <2>4. CASE OpenDirFails \/ NameFails \/ Lstat \/ SkipLong \/ SpawnUnreachable
             \/ SpawnReachable \/ SkipSocket \/ SpawnFails \/ Listed
    BY <2>4 DEF OpenDirFails, NameFails, Lstat, SkipLong, SpawnUnreachable, SpawnReachable,
         SkipSocket, SpawnFails, Listed, NextName, TypeOK
  <2>5. QED
    BY <2>1, <2>2, <2>3, <2>4 DEF Populating
<1>4. freed' \in [Names -> Nat]
  <2>1. CASE OpenDir
    BY <2>1 DEF OpenDir
  <2>2. CASE NameFails \/ SpawnFails
    BY <2>2, FreedTypes DEF NameFails, SpawnFails
  <2>3. CASE NextName
    BY <2>3, FreedTypes DEF NextName
  <2>4. CASE (\E n \in Names : ReadName(n)) \/ OpenDirFails \/ EndOfDir \/ Lstat \/ Listed
    BY <2>4 DEF ReadName, OpenDirFails, EndOfDir, Lstat, Listed, TypeOK
  <2>5. QED
    BY <2>1, <2>2, <2>3, <2>4
       DEF Populating, SkipLong, SpawnUnreachable, SpawnReachable, SkipSocket
<1>5. i' \in Nat /\ first' \in Nat /\ attempts' \in 0 .. MaxAttempts
  <2>1. CASE NextName
    BY <2>1 DEF NextName, TypeOK
  <2>2. CASE OpenDir \/ OpenDirFails
    BY <2>2, BoundAssumption DEF OpenDir, OpenDirFails, StartListing, TypeOK
  <2>3. CASE (\E n \in Names : ReadName(n)) \/ NameFails \/ EndOfDir \/ Lstat \/ SpawnFails \/ Listed
    BY <2>3 DEF ReadName, NameFails, EndOfDir, Lstat, SpawnFails, Listed, TypeOK
  <2>4. QED
    BY <2>1, <2>2, <2>3
       DEF Populating, SkipLong, SpawnUnreachable, SpawnReachable, SkipSocket
<1>6. children' \in Seq(Child)
  <2>1. CASE SpawnUnreachable \/ SpawnReachable
    <3>1. names[i] \in Names
      BY <2>1 DEF SpawnUnreachable, SpawnReachable, TypeOK, CopiesOK, InLoop
    <3>2. \A node \in {"dir", "file"} :
             [name |-> names[i], node |-> node,
              link |-> IF node = "dir" THEN FALSE ELSE isLink] \in Child
      BY <3>1 DEF Child, TypeOK
    <3>3. \/ UNCHANGED children
          \/ \E node \in {"dir", "file"} : Spawn(node)
      BY <2>1 DEF SpawnUnreachable, SpawnReachable, NodeOf
    <3>4. ASSUME NEW node \in {"dir", "file"}, Spawn(node)
          PROVE  children' \in Seq(Child)
      <4>1. PICK c \in Child : children' = Append(children, c)
        BY <3>2, <3>4 DEF Spawn
      <4>2. children \in Seq(Child)
        BY DEF TypeOK
      <4>3. QED
        BY <4>1, <4>2
    <3>5. QED
      BY <3>3, <3>4 DEF TypeOK
  <2>2. CASE ~(SpawnUnreachable \/ SpawnReachable)
    BY <2>2 DEF OpenDir, OpenDirFails, StartListing, Populating, ReadName, NameFails, Lstat,
         EndOfDir, SkipLong, SkipSocket, SpawnFails, Listed, NextName, TypeOK
  <2>3. QED
    BY <2>1, <2>2
<1>7. QED
  BY <1>1, <1>2, <1>3, <1>4, <1>5, <1>6, <1>8 DEF TypeOK

\* The steps of an invoke keep the types.
LEMMA InvokeTypes ==
  ASSUME TypeOK,
         (\E c \in ToSet(children) : ShowTarget(c) \/ OpenFails(c) \/ NoBuffer(c) \/ OpenFile(c)) \/ Reading
  PROVE  TypeOK'
<1>1. UNCHANGED <<disk, changes, doubtful, unread, names, freed, i, isLink, children, first,
                  attempts, populated>>
  BY DEF ShowTarget, OpenFails, NoBuffer, OpenFile, Opened, StartInvoke, Reading, Read, ReadFails, ReadEnds,
         CloseFile, listing, kernel
<1>2. content' \in Contents \cup {<< >>} /\ steady' \in BOOLEAN /\ blocks' \in BOOLEAN
      /\ pc' \in {"idle", "read", "eisdir"} /\ descriptor' \in BOOLEAN
  BY DEF ShowTarget, OpenFails, NoBuffer, OpenFile, Opened, StartInvoke, Reading, Read, ReadFails, ReadEnds,
         CloseFile, kernel, TypeOK
<1>3. leaf' \in Child \cup {NoLeaf}
  <2>1. \A c \in ToSet(children) : c \in Child
    BY DEF ToSet, TypeOK
  <2>2. QED
    BY <2>1 DEF ShowTarget, OpenFails, NoBuffer, OpenFile, Opened, StartInvoke, Reading, Read, ReadFails, ReadEnds,
         CloseFile, TypeOK
<1>4. buf' \in Seq(Byte)
  <2>1. CASE Read
    <3>1. content \in Seq(Byte) /\ buf \in Seq(Byte)
      BY ContentType DEF TypeOK
    <3>2. PICK k \in 1 .. Remaining : buf' = buf \o SubSeq(content, Len(buf) + 1, Len(buf) + k)
      BY <2>1 DEF Read
    <3>3. Len(buf) + k <= Len(content) /\ k \in Nat
      BY <3>1, <3>2 DEF Remaining
    <3>4. SubSeq(content, Len(buf) + 1, Len(buf) + k) \in Seq(Byte)
      BY <3>1, <3>3
    <3>5. QED
      BY <3>1, <3>2, <3>4
  <2>2. CASE buf' = << >>
    BY <2>2
  <2>3. CASE UNCHANGED buf
    BY <2>3 DEF TypeOK
  <2>4. QED
    BY <2>1, <2>2, <2>3 DEF ShowTarget, OpenFails, NoBuffer, OpenFile, Opened, Reading, ReadFails, ReadEnds,
         CloseFile
<1>5. /\ text'.what \in {"none", "target", "failed", "error", "bytes", "empty"}
      /\ text'.bytes \in Seq(Byte) /\ text'.read \in Nat
  <2>1. \/ UNCHANGED text
        \/ \E what \in {"target", "failed", "error"} : text' = Answer(what)
        \/ text' = TextOf(Trimmed(buf))
    BY DEF ShowTarget, OpenFails, NoBuffer, OpenFile, Opened, Reading, Read, ReadFails, ReadEnds,
         Show
  <2>2. CASE UNCHANGED text
    BY <2>2 DEF TypeOK
  <2>3. CASE \E what \in {"target", "failed", "error"} : text' = Answer(what)
    <3>1. PICK what \in {"target", "failed", "error"} : text' = Answer(what)
      BY <2>3
    <3>2. /\ Answer(what).what = what /\ Answer(what).bytes \in Seq(Byte)
          /\ Answer(what).read \in Nat
      BY AnswerParts
    <3>3. QED
      BY <3>1, <3>2
  <2>4. CASE text' = TextOf(Trimmed(buf))
    <3>1. Trimmed(buf) \in Seq(Byte)
      BY TrimmedType DEF TypeOK
    <3>2. QED
      BY <2>4, <3>1, TextParts
  <2>5. QED
    BY <2>1, <2>2, <2>3, <2>4
<1>6. QED
  BY <1>1, <1>2, <1>3, <1>4, <1>5 DEF TypeOK

\* Every step keeps the types.
LEMMA TypesKept == TypeOK /\ CopiesOK /\ [Next]_vars => TypeOK'
<1>1. TypeOK /\ UNCHANGED vars => TypeOK'
  BY DEF vars, kernel, listing, reading, TypeOK
<1>2. QED
  BY <1>1, KernelTypes, ListingTypes, InvokeTypes DEF Next

-----------------------------------------------------------------------------
(* The copies of the names.                                                *)

\* The loop passes a name: one more copy is freed, the one of no other name.
LEMMA Passing ==
  ASSUME TypeOK, CopiesOK, InLoop, i <= Len(names), NextName
  PROVE  /\ names[i] \in Names /\ names[i] \notin Gone
         /\ Gone' = Gone \cup {names[i]}
         /\ UNCHANGED names /\ i' = i + 1 /\ pc' = "lstat"
<1>1. i \in 1 .. Len(names) /\ DOMAIN names = 1 .. Len(names) /\ Len(names) \in Nat
      /\ Gone = {names[j] : j \in 1 .. i - 1}
  BY DEF TypeOK, CopiesOK, Gone, InLoop
<1>2. names[i] \in Names
  BY <1>1 DEF TypeOK
<1>3. ASSUME NEW j \in 1 .. i - 1
      PROVE  names[j] # names[i]
  BY <1>1 DEF CopiesOK
<1>4. UNCHANGED names /\ i' = i + 1 /\ pc' = "lstat"
  BY DEF NextName
<1>5. Gone' = {names[j] : j \in 1 .. i}
  BY <1>4, <1>1 DEF Gone, InLoop
<1>6. 1 .. i = 1 .. i - 1 \cup {i}
  BY <1>1
<1>7. QED
  BY <1>1, <1>2, <1>3, <1>4, <1>5, <1>6

\* The kernel, and the calls that never get as far as a name.
LEMMA CopiesFrame ==
  ASSUME CopiesOK, UNCHANGED <<pc, names, freed, i>>
  PROVE  CopiesOK' /\ Gone' = Gone
<1>1. Gone' = Gone /\ InLoop' = InLoop /\ InOrder(names)' = InOrder(names)
  BY DEF Gone, InLoop, InOrder
<1>2. QED
  BY <1>1 DEF CopiesOK

\* Opening the directory and reading names from it.
LEMMA CopiesRead ==
  ASSUME TypeOK, CopiesOK, OpenDir \/ (\E n \in Names : ReadName(n)) \/ NameFails
  PROVE  CopiesOK'
<1>1. CASE OpenDir
  <2>1. names' = << >> /\ freed' = [n \in Names |-> 0] /\ pc' = "readdir"
    BY <1>1 DEF OpenDir
  <2>2. QED
    BY <2>1 DEF CopiesOK, Gone, InLoop
<1>2. ASSUME NEW n \in Names, ReadName(n)
      PROVE  CopiesOK'
  <2>1. names' = Append(names, n) /\ n \notin ToSet(names) /\ pc = "readdir"
        /\ UNCHANGED <<pc, freed, i>>
    BY <1>2 DEF ReadName, Returnable
  <2>2. DOMAIN names' = DOMAIN names \cup {Len(names) + 1} /\ names'[Len(names) + 1] = n
        /\ \A k \in DOMAIN names : names'[k] = names[k]
    BY <2>1 DEF TypeOK
  <2>3. \A k \in DOMAIN names : names[k] # n
    BY <2>1 DEF ToSet
  <2>4. \A j, k \in DOMAIN names' : names'[j] = names'[k] => j = k
    BY <2>2, <2>3 DEF CopiesOK
  <2>5. QED
    BY <2>1, <2>4 DEF CopiesOK, Gone, InLoop
<1>3. CASE NameFails
  <2>1. pc = "readdir" /\ pc' = "idle" /\ freed' = Freeing(ToSet(names)) /\ UNCHANGED names
    BY <1>3 DEF NameFails
  <2>2. \A n \in Names : freed[n] = 0
    BY <2>1 DEF CopiesOK, Gone
  <2>3. \A n \in Names : freed'[n] = IF n \in ToSet(names) THEN 1 ELSE 0
    BY <2>1, <2>2, FreedTypes
  <2>4. Gone' = ToSet(names)
    BY <2>1 DEF Gone, InLoop
  <2>5. QED
    BY <2>1, <2>3, <2>4 DEF CopiesOK, InLoop
<1>4. QED
  BY <1>1, <1>2, <1>3

\* Sorting, and the start and the end of the loop.
LEMMA CopiesLoop ==
  ASSUME TypeOK, CopiesOK, EndOfDir \/ Lstat \/ Listed
  PROVE  CopiesOK'
<1>1. CASE EndOfDir
  <2>1. PICK t \in Reordered(names) : InOrder(t) /\ names' = t
    BY <1>1 DEF EndOfDir
  <2>2. names' \in Seq(Names) /\ \A j, k \in DOMAIN names' : names'[j] = names'[k] => j = k
    BY <2>1, Reordering DEF TypeOK, CopiesOK
  <2>3. pc = "readdir" /\ pc' = "lstat" /\ i' = 1 /\ UNCHANGED freed
    BY <1>1 DEF EndOfDir
  <2>4. Gone = {} /\ Gone' = {}
    BY <2>3 DEF Gone, InLoop
  <2>5. i' \in 1 .. Len(names') + 1 /\ InOrder(names)'
    BY <2>1, <2>2, <2>3 DEF InOrder
  <2>6. QED
    BY <2>2, <2>3, <2>4, <2>5 DEF CopiesOK
<1>2. CASE Lstat
  <2>1. pc = "lstat" /\ pc' = "stat" /\ UNCHANGED <<names, freed, i>>
        /\ i <= Len(names) /\ names[i] \notin TooLong
    BY <1>2 DEF Lstat
  <2>2. Gone' = Gone /\ InLoop /\ InOrder(names)' = InOrder(names)
    BY <2>1 DEF Gone, InLoop, InOrder
  <2>3. QED
    BY <2>1, <2>2 DEF CopiesOK
<1>3. CASE Listed
  <2>1. pc = "lstat" /\ i > Len(names) /\ pc' = "idle" /\ UNCHANGED <<names, freed, i>>
    BY <1>3 DEF Listed
  <2>6. names \in Seq(Names) /\ i \in Nat /\ i \in 1 .. Len(names) + 1
    BY <2>1 DEF TypeOK, CopiesOK, InLoop
  <2>2. i = Len(names) + 1 /\ DOMAIN names = 1 .. Len(names)
    BY <2>1, <2>6
  <2>3. Gone = {names[j] : j \in 1 .. Len(names)}
    BY <2>1, <2>2 DEF Gone, InLoop, TypeOK
  <2>4. Gone' = Gone
    BY <2>1, <2>2, <2>3 DEF Gone, InLoop, ToSet
  <2>5. QED
    BY <2>1, <2>4 DEF CopiesOK, InLoop
<1>4. QED
  BY <1>1, <1>2, <1>3

\* A name the loop passes, and the names it gives up.
LEMMA CopiesFreed ==
  ASSUME TypeOK, CopiesOK,
         SkipLong \/ SpawnUnreachable \/ SpawnReachable \/ SkipSocket \/ SpawnFails
  PROVE  CopiesOK'
<1>1. InLoop /\ i <= Len(names)
  BY DEF SkipLong, SpawnUnreachable, SpawnReachable, SkipSocket, SpawnFails, InLoop, CopiesOK
<1>2. CASE NextName
  <2>1. /\ names[i] \in Names /\ names[i] \notin Gone /\ Gone' = Gone \cup {names[i]}
        /\ UNCHANGED names /\ i' = i + 1 /\ pc' = "lstat" /\ InOrder(names)' = InOrder(names)
    BY <1>1, <1>2, Passing DEF InOrder
  <2>2. \A n \in Names : freed'[n] = freed[n] + (IF n \in {names[i]} THEN 1 ELSE 0)
    BY <1>2, FreedTypes DEF NextName
  <2>3. \A n \in Names : freed'[n] = IF n \in Gone' THEN 1 ELSE 0
    BY <2>1, <2>2 DEF CopiesOK
  <2>4. i' \in 1 .. Len(names') + 1
    BY <1>1, <2>1 DEF CopiesOK, TypeOK
  <2>5. QED
    BY <1>1, <2>1, <2>3, <2>4 DEF CopiesOK
<1>3. CASE SpawnFails
  <2>1. pc' = "idle" /\ freed' = Freeing({names[j] : j \in i .. Len(names)}) /\ UNCHANGED names
    BY <1>3 DEF SpawnFails
  <2>2. i \in 1 .. Len(names) /\ DOMAIN names = 1 .. Len(names) /\ Len(names) \in Nat
        /\ Gone = {names[j] : j \in 1 .. i - 1}
    BY <1>1 DEF TypeOK, CopiesOK, Gone, InLoop
  <2>3. Gone' = ToSet(names)
    BY <2>1 DEF Gone, InLoop
  <2>4. ASSUME NEW n \in Names
        PROVE  freed'[n] = IF n \in ToSet(names) THEN 1 ELSE 0
    <3>1. freed'[n] = freed[n] + (IF n \in {names[j] : j \in i .. Len(names)} THEN 1 ELSE 0)
      BY <2>1, FreedTypes
    <3>2. n \in {names[j] : j \in i .. Len(names)} => n \notin Gone
      BY <2>2 DEF CopiesOK
    <3>3. n \in ToSet(names) <=> n \in Gone \/ n \in {names[j] : j \in i .. Len(names)}
      BY <2>2 DEF ToSet
    <3>4. QED
      BY <3>1, <3>2, <3>3 DEF CopiesOK
  <2>5. QED
    BY <2>1, <2>3, <2>4 DEF CopiesOK, InLoop
<1>4. QED
  BY <1>2, <1>3 DEF SkipLong, SpawnUnreachable, SpawnReachable, SkipSocket

\* Invoking a leaf frees nothing.
LEMMA CopiesInvoke ==
  ASSUME CopiesOK,
         (\E c \in ToSet(children) : ShowTarget(c) \/ OpenFails(c) \/ NoBuffer(c) \/ OpenFile(c)) \/ Reading
  PROVE  CopiesOK'
<1>1. pc \in {"idle", "read", "eisdir"} /\ pc' \in {"idle", "read", "eisdir"}
      /\ UNCHANGED <<names, freed, i>>
  BY DEF ShowTarget, OpenFails, NoBuffer, OpenFile, Opened, StartInvoke, Reading, Read, ReadFails, ReadEnds,
         CloseFile, listing
<1>2. Gone = ToSet(names) /\ Gone' = ToSet(names)
  BY <1>1 DEF Gone, InLoop
<1>3. QED
  BY <1>1, <1>2 DEF CopiesOK, InLoop

\* Every step keeps the copies.
LEMMA CopiesKept == TypeOK /\ CopiesOK /\ [Next]_vars => CopiesOK'
<1>1. TypeOK /\ CopiesOK /\ UNCHANGED vars => CopiesOK'
  BY CopiesFrame DEF vars, listing
<1>2. ASSUME CopiesOK, (\E n \in Names : Change(n)) \/ Rewrite \/ OpenDirFails
      PROVE  CopiesOK'
  BY <1>2, CopiesFrame DEF Change, Rewrite, OpenDirFails, listing
<1>3. QED
  BY <1>1, <1>2, CopiesRead, CopiesLoop, CopiesFreed, CopiesInvoke DEF Next, Populating

-----------------------------------------------------------------------------
(* The calls.                                                              *)

\* Every step keeps the calls in their places.
LEMMA CallKept == CallOK /\ [Next]_vars => CallOK'
<1> SUFFICES ASSUME CallOK, [Next]_vars PROVE CallOK'
  OBVIOUS
<1>1. CASE UNCHANGED vars \/ (\E n \in Names : Change(n)) \/ Rewrite \/ OpenDirFails
  BY <1>1 DEF vars, Change, Rewrite, OpenDirFails, StartListing, listing, reading, CallOK, InLoop
<1>2. CASE OpenDir
  BY <1>2 DEF OpenDir, StartListing, reading, CallOK, InLoop
<1>3. CASE Populating
  BY <1>3 DEF Populating, ReadName, NameFails, EndOfDir, Lstat, SkipLong, SpawnUnreachable,
     SpawnReachable, SkipSocket, SpawnFails, Listed, NextName, reading, CallOK, InLoop
<1>4. ASSUME NEW c \in ToSet(children), ShowTarget(c) \/ OpenFails(c) \/ NoBuffer(c) \/ OpenFile(c)
      PROVE  CallOK'
  <2>1. pc = "idle" /\ populated /\ UNCHANGED populated /\ leaf' = c
    BY <1>4 DEF ShowTarget, OpenFails, NoBuffer, OpenFile, StartInvoke, listing
  <2>2. CASE UNCHANGED <<pc, descriptor, blocks>>
    BY <2>1, <2>2 DEF CallOK, InLoop
  <2>3. CASE ~c.link /\ Opened(c)
    <3>1. pc' \in {"read", "eisdir"} /\ descriptor' = TRUE /\ (blocks' => pc' = "read")
      BY <2>3 DEF Opened
    <3>2. QED
      BY <2>1, <2>3, <3>1 DEF CallOK, InLoop
  <2>4. QED
    BY <1>4, <2>2, <2>3 DEF ShowTarget, OpenFails, NoBuffer, OpenFile
<1>5. CASE Reading
  BY <1>5 DEF Reading, Read, ReadFails, ReadEnds, CloseFile, listing, CallOK, InLoop
<1>6. QED
  BY <1>1, <1>2, <1>3, <1>4, <1>5 DEF Next

-----------------------------------------------------------------------------
(* What is read and looked at.                                             *)

\* A change is in doubtful.
LEMMA ReadChange ==
  ASSUME TypeOK, ReadOK, NEW n \in Names, Change(n)
  PROVE  ReadOK'
<1>1. UNCHANGED <<pc, unread, names, i, isLink>> /\ doubtful' = doubtful \cup {n}
  BY DEF Change, listing
<1>2. \A m \in Names \ doubtful' : disk'[m] = disk[m]
  BY <1>1 DEF Change, TypeOK
<1>3. InLoop' = InLoop /\ ToSet(names)' = ToSet(names)
  BY <1>1 DEF InLoop
<1>4. pc = "stat" /\ names[i] \notin doubtful' => isLink = disk'[names[i]].link
  <2>1. SUFFICES ASSUME pc = "stat", names[i] \notin doubtful'
                 PROVE  isLink = disk'[names[i]].link
    OBVIOUS
  <2>2. CASE names[i] \in Names
    BY <2>1, <2>2, <1>1, <1>2 DEF ReadOK
  <2>3. CASE names[i] \notin Names
    BY <2>1, <2>3, <1>1 DEF Change, ReadOK, TypeOK
  <2>4. QED
    BY <2>2, <2>3
<1>5. QED
  BY <1>1, <1>2, <1>3, <1>4 DEF ReadOK

\* readdir returns what was there or what changed.
LEMMA ReadRead ==
  ASSUME TypeOK, ReadOK, OpenDir \/ (\E n \in Names : ReadName(n)) \/ EndOfDir
  PROVE  ReadOK'
<1>1. CASE OpenDir
  <2>1. pc' = "readdir" /\ unread' = Present /\ names' = << >> /\ UNCHANGED disk
    BY <1>1 DEF OpenDir
  <2>2. ToSet(names') = {}
    BY <2>1 DEF ToSet
  <2>3. QED
    BY <2>1, <2>2 DEF ReadOK, InLoop, Present
<1>2. ASSUME NEW n \in Names, ReadName(n)
      PROVE  ReadOK'
  <2>1. pc = "readdir" /\ names' = Append(names, n) /\ unread' = unread \ {n}
        /\ UNCHANGED <<pc, disk, doubtful>> /\ n \in unread \cup Present
    BY <1>2 DEF ReadName, Returnable, kernel
  <2>2. ToSet(names') = ToSet(names) \cup {n}
    BY <2>1, OneMore DEF TypeOK
  <2>3. \A m \in Names : m \in unread' \cup ToSet(names') <=> m = n \/ m \in unread \cup ToSet(names)
    BY <2>1, <2>2
  <2>4. n \notin doubtful => disk[n] # Absent
    BY <2>1 DEF ReadOK, Present
  <2>5. \A m \in Names \ doubtful : m \in unread' \cup ToSet(names') <=> disk[m] # Absent
    BY <2>1, <2>3, <2>4 DEF ReadOK
  <2>6. QED
    BY <2>1, <2>5 DEF ReadOK, InLoop
<1>3. CASE EndOfDir
  <2>1. pc = "readdir" /\ pc' = "lstat" /\ unread \subseteq doubtful' /\ UNCHANGED disk
        /\ doubtful \subseteq doubtful' /\ names' \in Reordered(names)
    BY <1>3 DEF EndOfDir
  <2>2. ToSet(names') = ToSet(names)
    BY <2>1, Reordering DEF TypeOK
  <2>3. \A n \in Names \ doubtful' : n \in ToSet(names) <=> disk[n] # Absent
    BY <2>1 DEF ReadOK
  <2>4. QED
    BY <2>1, <2>2, <2>3 DEF ReadOK, InLoop
<1>4. QED
  BY <1>1, <1>2, <1>3

\* Every step keeps what was read and looked at.
LEMMA ReadKept == TypeOK /\ ReadOK /\ [Next]_vars => ReadOK'
<1> SUFFICES ASSUME TypeOK, ReadOK, [Next]_vars PROVE ReadOK'
  OBVIOUS
<1>1. CASE UNCHANGED vars \/ Rewrite
  BY <1>1 DEF vars, kernel, Rewrite, listing, ReadOK, InLoop
<1>2. CASE OpenDirFails \/ NameFails \/ SpawnFails \/ Listed
  <2>1. pc' = "idle"
    BY <1>2 DEF OpenDirFails, StartListing, NameFails, SpawnFails, Listed
  <2>2. QED
    BY <2>1 DEF ReadOK, InLoop
<1>3. CASE Lstat
  <2>1. /\ pc = "lstat" /\ pc' = "stat" /\ UNCHANGED <<disk, names, i>>
        /\ names[i] \notin doubtful' => isLink' = disk[names[i]].link
        /\ doubtful \subseteq doubtful'
    BY <1>3 DEF Lstat
  <2>2. QED
    BY <2>1 DEF ReadOK, InLoop
<1>4. CASE SkipLong \/ SpawnUnreachable \/ SpawnReachable \/ SkipSocket
  <2>1. InLoop /\ pc' = "lstat" /\ UNCHANGED <<disk, names>> /\ doubtful \subseteq doubtful'
    BY <1>4 DEF SkipLong, SpawnUnreachable, SpawnReachable, SkipSocket, NextName, InLoop, kernel
  <2>2. QED
    BY <2>1 DEF ReadOK, InLoop
<1>5. CASE (\E c \in ToSet(children) : ShowTarget(c) \/ OpenFails(c) \/ NoBuffer(c) \/ OpenFile(c)) \/ Reading
  <2>1. pc' \in {"idle", "read", "eisdir"}
    BY <1>5 DEF ShowTarget, OpenFails, NoBuffer, OpenFile, Opened, StartInvoke, Reading, Read, ReadFails, ReadEnds,
         CloseFile
  <2>2. QED
    BY <2>1 DEF ReadOK, InLoop
<1>6. QED
  BY <1>1, <1>2, <1>3, <1>4, <1>5, ReadChange, ReadRead DEF Next, Populating

-----------------------------------------------------------------------------
(* What is listed.                                                         *)

\* The children an attempt adds are children, each of them added.
LEMMA AddedType ==
  ASSUME TypeOK, first <= Len(children)
  PROVE  /\ Added \in Seq(Child) /\ DOMAIN Added = 1 .. Len(Added)
         /\ \A k \in DOMAIN Added : Added[k] \in ToSet(Added)
<1>1. Added \in Seq(Child)
  <2>1. first \in Nat /\ children \in Seq(Child) /\ Len(children) \in Nat
    BY DEF TypeOK
  <2>2. \A k \in first + 1 .. Len(children) : children[k] \in Child
    BY <2>1
  <2>3. QED
    BY <2>1, <2>2, SubSeqProperties DEF Added
<1>2. QED
  BY <1>1 DEF ToSet

\* What leaves the children and the entry alone leaves its listing alone.
LEMMA SameListing ==
  ASSUME UNCHANGED <<children, first>>
  PROVE  /\ UNCHANGED <<Added, Ordered>>
         /\ \A n \in Names : disk'[n] = disk[n] => ListedRight(n)' = ListedRight(n)
  BY DEF Added, Ordered, AddedFor, ListedRight, ListedAs, LeftOut

\* Steps that leave the children alone.
LEMMA AddedFrame ==
  ASSUME AddedOK, UNCHANGED <<children, first, populated, Gone, InLoop>>,
         pc' = "readdir" => pc = "readdir",
         doubtful \subseteq doubtful', \A n \in Names \ doubtful' : disk'[n] = disk[n]
  PROVE  AddedOK'
<1>1. UNCHANGED <<Added, Ordered>>
      /\ \A n \in Names \ doubtful' : ListedRight(n)' = ListedRight(n)
  BY SameListing
<1>2. QED
  BY <1>1 DEF AddedOK

\* The loop passes a name without a child.
LEMMA AddedNothing ==
  ASSUME TypeOK, CopiesOK, CallOK, AddedOK, InLoop, i <= Len(names), NextName,
         UNCHANGED children, doubtful \subseteq doubtful',
         names[i] \notin doubtful' =>
           LeftOut(names[i]) \/ (disk[names[i]].target = "none" /\ MayFail)
  PROVE  AddedOK'
<1>1. /\ names[i] \in Names /\ names[i] \notin Gone /\ Gone' = Gone \cup {names[i]}
      /\ pc' = "lstat" /\ InLoop'
  BY Passing DEF InLoop
<1>2. UNCHANGED <<disk, first, populated>> /\ ~populated
  BY DEF NextName, CallOK
<1>3. UNCHANGED <<Added, Ordered>> /\ \A n \in Names : ListedRight(n)' = ListedRight(n)
  BY <1>2, SameListing
<1>4. AddedFor(names[i]) = {}
  BY <1>1 DEF AddedFor, AddedOK
<1>5. names[i] \notin doubtful' => ListedRight(names[i])
  BY <1>4 DEF ListedRight
<1>6. \A n \in (Names \ doubtful') \cap Gone' : ListedRight(n)
  BY <1>1, <1>5 DEF AddedOK
<1>7. QED
  BY <1>1, <1>2, <1>3, <1>6 DEF AddedOK

\* The loop passes a name with a child.
LEMMA AddedOne ==
  ASSUME TypeOK, CopiesOK, CallOK, ReadOK, AddedOK, pc = "stat", NextName,
         NEW node \in {"dir", "file"}, Spawn(node), doubtful \subseteq doubtful',
         names[i] \notin doubtful' =>
           disk[names[i]].target # "socket" /\ node = NodeOf(disk[names[i]].target)
  PROVE  AddedOK'
<1>0. PICK n : n = names[i]
  OBVIOUS
<1>1. /\ InLoop /\ i \in 1 .. Len(names) /\ DOMAIN names = 1 .. Len(names)
      /\ Len(names) \in Nat /\ n \notin TooLong
  BY <1>0 DEF TypeOK, CopiesOK, InLoop
<1>2. /\ n \in Names /\ n \notin Gone /\ Gone' = Gone \cup {n} /\ pc' = "lstat" /\ InLoop'
  BY <1>0, <1>1, Passing DEF InLoop
<1>3. UNCHANGED <<disk, first, populated>> /\ ~populated
  BY <1>1 DEF NextName, CallOK
<1>4. PICK link : link = IF node = "dir" THEN FALSE ELSE isLink
  OBVIOUS
<1>9. PICK c \in Child : /\ c = [name |-> n, node |-> node, link |-> link]
                         /\ c.name = n /\ c.node = node /\ c.link = link
  <2>1. link \in BOOLEAN /\ n \in Names /\ node \in {"dir", "file"}
    BY <1>2, <1>4 DEF TypeOK
  <2>2. [name |-> n, node |-> node, link |-> link] \in Child
    BY <2>1 DEF Child
  <2>3. QED
    BY <2>2
<1>5. children' = Append(children, c)
  BY <1>0, <1>4, <1>9 DEF Spawn
<1>6. children \in Seq(Child) /\ first \in Nat /\ first <= Len(children)
  BY DEF TypeOK, AddedOK
<1>7. /\ Len(children') = Len(children) + 1 /\ Added \in Seq(Child)
      /\ Added' = Append(Added, c)
  <2>1. PICK s \in Seq(Child), k \in Nat : s = children /\ k = first /\ k <= Len(s)
    BY <1>6
  <2>2. c \in Child
    OBVIOUS
  <2>3. /\ Len(Append(s, c)) = Len(s) + 1 /\ TailFrom(s, k) \in Seq(Child)
        /\ TailFrom(Append(s, c), k) = Append(TailFrom(s, k), c)
    BY <2>1, <2>2, TailOfAppend
  <2>4. Added = TailFrom(s, k) /\ Added' = TailFrom(Append(s, c), k)
    BY <1>3, <1>5, <2>1 DEF Added, TailFrom
  <2>5. QED
    BY <1>5, <2>1, <2>3, <2>4
<1>8. ToSet(Added') = ToSet(Added) \cup {c}
  BY <1>7, OneMore
<1>10. \A a \in ToSet(Added') : a.name \in Gone'
  BY <1>1, <1>2, <1>8, <1>9 DEF AddedOK
<1>11. \A m \in Gone : m < n
  <2>1. ASSUME NEW j \in 1 .. i - 1
        PROVE  names[j] < n
    <3>1. j \in DOMAIN names /\ i \in DOMAIN names /\ j < i
      BY <1>1
    <3>2. names[j] <= n /\ names[j] # n
      BY <3>1, <1>0, <1>1 DEF CopiesOK, InOrder
    <3>3. names[j] \in Names
      BY <3>1 DEF TypeOK
    <3>5. names[j] \in Nat /\ n \in Nat
      BY <3>3, <1>2, EntryAssumption
    <3>4. QED
      BY <3>2, <3>5
  <2>2. QED
    BY <1>1, <2>1 DEF Gone
<1>12. Ordered'
  <2>1. /\ DOMAIN Added' = DOMAIN Added \cup {Len(Added) + 1} /\ Added'[Len(Added) + 1] = c
        /\ \A k \in DOMAIN Added : Added'[k] = Added[k]
        /\ DOMAIN Added = 1 .. Len(Added) /\ Len(Added) \in Nat
    BY <1>7
  <2>2. \A k \in DOMAIN Added : Added[k].name < n
    BY <1>1, <1>11, <2>1 DEF AddedOK, ToSet
  <2>3. \A j, k \in DOMAIN Added : j < k => Added[j].name < Added[k].name
    BY <1>1 DEF AddedOK, Ordered
  <2>4. \A j, k \in DOMAIN Added' : j < k => Added'[j].name < Added'[k].name
    <3>1. ASSUME NEW j \in DOMAIN Added', NEW k \in DOMAIN Added', j < k
          PROVE  Added'[j].name < Added'[k].name
      <4>1. CASE k \in DOMAIN Added
        BY <2>1, <2>3, <3>1, <4>1
      <4>2. CASE k = Len(Added) + 1
        BY <1>9, <2>1, <2>2, <3>1, <4>2
      <4>3. QED
        BY <2>1, <4>1, <4>2
    <3>2. QED
      BY <3>1
  <2>5. QED
    BY <2>4 DEF Ordered
<1>13. \A m \in Names : m # n => AddedFor(m)' = AddedFor(m)
  BY <1>8, <1>9 DEF AddedFor
<1>14. AddedFor(n) = {}
  BY <1>1, <1>2 DEF AddedFor, AddedOK
<1>15. {a \in ToSet(Added') : a.name = n} = {c}
  BY <1>8, <1>9, <1>14 DEF AddedFor
<1>16. ASSUME NEW m \in (Names \ doubtful') \cap Gone'
       PROVE  ListedRight(m)'
  <2>1. CASE m # n
    <3>1. ListedRight(m) /\ m \in Names
      BY <1>1, <1>2, <1>16, <2>1 DEF AddedOK
    <3>2. QED
      BY <3>1, <1>3, <1>13, <2>1 DEF ListedRight, ListedAs, LeftOut
  <2>2. CASE m = n
    <3>1. n \in ToSet(names) /\ n \notin doubtful /\ n \notin doubtful'
      BY <1>0, <1>1, <1>16, <2>2 DEF ToSet
    <3>2. disk[n] # Absent /\ isLink = disk[n].link
      BY <3>1, <1>0, <1>1, <1>2, <2>2 DEF ReadOK
    <3>7. disk[n].target # "socket" /\ node = NodeOf(disk[n].target)
      BY <3>1, <1>0
    <3>8. ~LeftOut(n)
      BY <3>2, <3>7, <1>1 DEF LeftOut
    <3>9. link = IF disk[n].target = "dir" THEN FALSE ELSE disk[n].link
      BY <3>2, <3>7, <1>4 DEF NodeOf
    <3>3. ~LeftOut(n) /\ c = ListedAs(n)
      BY <3>7, <3>8, <3>9, <1>9 DEF ListedAs
    <3>4. AddedFor(n)' = {c}
      BY <1>15 DEF AddedFor
    <3>5. ListedAs(n)' = ListedAs(n) /\ LeftOut(n)' = LeftOut(n)
      BY <1>3 DEF ListedAs, LeftOut
    <3>6. QED
      BY <2>2, <3>3, <3>4, <3>5, <1>3 DEF ListedRight
  <2>3. QED
    BY <2>1, <2>2
<1>17. QED
  BY <1>2, <1>3, <1>6, <1>7, <1>10, <1>12, <1>16 DEF AddedOK

\* The steps of the loop.
LEMMA AddedLoop ==
  ASSUME TypeOK, CopiesOK, CallOK, ReadOK, AddedOK,
         SkipLong \/ SpawnUnreachable \/ SpawnReachable \/ SkipSocket
  PROVE  AddedOK'
<1>1. InLoop /\ i <= Len(names) /\ NextName
  BY DEF SkipLong, SpawnUnreachable, SpawnReachable, SkipSocket, InLoop, CopiesOK
<1>2. CASE SkipLong
  BY <1>1, <1>2, AddedNothing DEF SkipLong, LeftOut
<1>3. CASE SkipSocket
  BY <1>1, <1>3, AddedNothing DEF SkipSocket, LeftOut
<1>4. CASE SpawnUnreachable /\ MayFail /\ UNCHANGED children
  <2>1. doubtful \subseteq doubtful'
        /\ (names[i] \notin doubtful' => disk[names[i]].target = "none")
    BY <1>4 DEF SpawnUnreachable
  <2>2. QED
    BY <1>1, <1>4, <2>1, AddedNothing
<1>5. CASE SpawnUnreachable /\ Spawn("file")
  <2>1. pc = "stat" /\ doubtful \subseteq doubtful'
        /\ (names[i] \notin doubtful' => disk[names[i]].target = "none")
    BY <1>5 DEF SpawnUnreachable
  <2>2. names[i] \notin doubtful' =>
          disk[names[i]].target # "socket" /\ "file" = NodeOf(disk[names[i]].target)
    BY <2>1 DEF NodeOf
  <2>3. QED
    BY <1>1, <1>5, <2>1, <2>2, AddedOne
<1>6. CASE SpawnReachable
  <2>1. PICK node \in {"dir", "file"} : node = NodeOf(disk[names[i]].target) /\ Spawn(node)
    BY <1>6 DEF SpawnReachable, NodeOf
  <2>2. pc = "stat" /\ disk[names[i]].target # "socket" /\ UNCHANGED doubtful
    BY <1>6, <2>1 DEF SpawnReachable, Found, Readable
  <2>3. QED
    BY <1>1, <2>1, <2>2, AddedOne
<1>7. QED
  BY <1>2, <1>3, <1>4, <1>5, <1>6 DEF SpawnUnreachable

\* Opening the directory, and the two ends of the loop.
LEMMA AddedEnds ==
  ASSUME TypeOK, CopiesOK, CallOK, ReadOK, AddedOK,
         OpenDir \/ OpenDirFails \/ EndOfDir \/ Listed
  PROVE  AddedOK'
<1>1. CASE OpenDir \/ OpenDirFails
  <2>1. first' = Len(children) /\ UNCHANGED <<children, populated>> /\ ~populated
        /\ pc' \notin {"lstat", "stat"}
    BY <1>1 DEF OpenDir, OpenDirFails, StartListing
  <2>2. Len(children) \in Nat
    BY DEF TypeOK
  <2>3. QED
    BY <2>1, <2>2 DEF AddedOK, InLoop
<1>2. CASE EndOfDir
  <2>1. pc = "readdir" /\ pc' = "lstat" /\ i' = 1 /\ UNCHANGED <<first, children, populated>>
    BY <1>2 DEF EndOfDir
  <2>2. ~populated /\ first = Len(children) /\ first \in Nat
    BY <2>1 DEF CallOK, AddedOK, TypeOK
  <2>3. Added' = << >>
    BY <2>1, <2>2, SubSeqEmpty DEF Added
  <2>4. Gone' = {} /\ ToSet(Added') = {}
    BY <2>1, <2>3 DEF Gone, InLoop, ToSet
  <2>5. Ordered'
    BY <2>3 DEF Ordered
  <2>6. QED
    BY <2>1, <2>2, <2>4, <2>5 DEF AddedOK
<1>3. CASE Listed
  <2>1. pc = "lstat" /\ i > Len(names) /\ pc' = "idle" /\ InLoop /\ ~InLoop'
        /\ UNCHANGED <<disk, doubtful, names, first, children>>
    BY <1>3 DEF Listed, kernel, InLoop
  <2>2. UNCHANGED <<Added, Ordered>> /\ \A n \in Names : ListedRight(n)' = ListedRight(n)
    BY <2>1, SameListing
  <2>3. Gone = ToSet(names)
    <3>1. DOMAIN names = 1 .. Len(names) /\ Len(names) \in Nat
      BY DEF TypeOK
    <3>2. i \in 1 .. Len(names) + 1
      BY <2>1 DEF CopiesOK
    <3>3. i = Len(names) + 1
      BY <2>1, <3>1, <3>2
    <3>4. Gone = {names[j] : j \in 1 .. Len(names)}
      BY <2>1, <3>1, <3>3 DEF Gone
    <3>5. QED
      BY <3>1, <3>4 DEF ToSet
  <2>4. ASSUME NEW n \in Names \ doubtful
        PROVE  ListedRight(n)
    <3>1. CASE n \in Gone
      BY <2>1, <3>1 DEF AddedOK
    <3>2. CASE n \notin Gone
      <4>1. disk[n] = Absent
        BY <2>1, <2>3, <3>2 DEF ReadOK
      <4>2. AddedFor(n) = {}
        BY <2>1, <3>2 DEF AddedFor, AddedOK
      <4>3. QED
        BY <4>1, <4>2 DEF ListedRight, LeftOut
    <3>3. QED
      BY <3>1, <3>2
  <2>5. QED
    BY <2>1, <2>2, <2>4 DEF AddedOK
<1>4. QED
  BY <1>1, <1>2, <1>3

\* Every step keeps the listing.
LEMMA AddedKept ==
  TypeOK /\ CopiesOK /\ CallOK /\ ReadOK /\ AddedOK /\ [Next]_vars => AddedOK'
<1> SUFFICES ASSUME TypeOK, CopiesOK, CallOK, ReadOK, AddedOK, [Next]_vars PROVE AddedOK'
  OBVIOUS
<1>1. CASE UNCHANGED vars \/ Rewrite
  <2>1. UNCHANGED <<children, first, populated, pc, names, i, disk, doubtful>>
    BY <1>1 DEF vars, kernel, listing, Rewrite
  <2>2. UNCHANGED <<Gone, InLoop>>
    BY <2>1 DEF Gone, InLoop
  <2>3. QED
    BY <2>1, <2>2, AddedFrame
<1>2. ASSUME NEW n \in Names, Change(n)
      PROVE  AddedOK'
  <2>1. UNCHANGED <<children, first, populated, pc, names, i>>
    BY <1>2 DEF listing, Change
  <2>2. UNCHANGED <<Gone, InLoop>>
    BY <2>1 DEF Gone, InLoop
  <2>3. doubtful \subseteq doubtful' /\ \A m \in Names \ doubtful' : disk'[m] = disk[m]
    BY <1>2 DEF Change, TypeOK
  <2>4. QED
    BY <2>1, <2>2, <2>3, AddedFrame
<1>3. CASE (\E n \in Names : ReadName(n)) \/ Lstat
  <2>1. /\ UNCHANGED <<children, first, populated, i, disk>> /\ doubtful \subseteq doubtful'
        /\ pc' = "readdir" => pc = "readdir"
        /\ \/ pc = "readdir" /\ pc' = "readdir"
           \/ pc = "lstat" /\ pc' = "stat" /\ UNCHANGED names
    BY <1>3 DEF ReadName, Lstat, kernel
  <2>2. UNCHANGED <<Gone, InLoop>>
    BY <2>1 DEF Gone, InLoop
  <2>3. QED
    BY <2>1, <2>2, AddedFrame
<1>4. CASE NameFails \/ SpawnFails
  <2>1. UNCHANGED <<children, first, populated>> /\ pc' = "idle" /\ pc \in {"readdir", "stat"}
    BY <1>4 DEF NameFails, SpawnFails
  <2>2. ~populated
    BY <2>1 DEF CallOK, InLoop
  <2>3. QED
    BY <2>1, <2>2 DEF AddedOK, InLoop
<1>5. CASE (\E c \in ToSet(children) : ShowTarget(c) \/ OpenFails(c) \/ NoBuffer(c) \/ OpenFile(c)) \/ Reading
  <2>1. /\ UNCHANGED <<children, first, populated, names, disk, doubtful>>
        /\ pc \in {"idle", "read", "eisdir"} /\ pc' \in {"idle", "read", "eisdir"}
    BY <1>5 DEF ShowTarget, OpenFails, NoBuffer, OpenFile, Opened, StartInvoke, Reading, Read, ReadFails, ReadEnds,
         CloseFile, listing, kernel
  <2>2. UNCHANGED <<Gone, InLoop>>
    BY <2>1 DEF Gone, InLoop
  <2>3. QED
    BY <2>1, <2>2, AddedFrame
<1>6. QED
  BY <1>1, <1>2, <1>3, <1>4, <1>5, AddedLoop, AddedEnds DEF Next, Populating

-----------------------------------------------------------------------------
(* What is shown.                                                          *)

\* Every step keeps the buffer the beginning of the file.
LEMMA BufferKept == TypeOK /\ BufferOK /\ [Next]_vars => BufferOK'
<1> SUFFICES ASSUME TypeOK, BufferOK, [Next]_vars PROVE BufferOK'
  OBVIOUS
<1>1. CASE UNCHANGED vars \/ \E n \in Names : Change(n)
  BY <1>1 DEF vars, kernel, reading, Change, BufferOK
<1>2. CASE Rewrite
  BY <1>2 DEF Rewrite, BufferOK
<1>3. CASE OpenDir \/ OpenDirFails \/ Populating
  <2>1. pc' \in {"idle", "readdir", "lstat", "stat"}
    BY <1>3 DEF OpenDir, OpenDirFails, StartListing, Populating, ReadName, NameFails, EndOfDir,
         Lstat, SkipLong, SpawnUnreachable, SpawnReachable, SkipSocket, SpawnFails, Listed,
         NextName
  <2>2. QED
    BY <2>1 DEF BufferOK
<1>4. ASSUME NEW c \in ToSet(children), ShowTarget(c) \/ OpenFails(c) \/ NoBuffer(c)
      PROVE  BufferOK'
  BY <1>4 DEF ShowTarget, OpenFails, NoBuffer, StartInvoke, BufferOK
<1>5. ASSUME NEW c \in ToSet(children), OpenFile(c)
      PROVE  BufferOK'
  <2>1. buf' = << >> /\ content' \in Seq(Byte)
    BY <1>5, EntryAssumption DEF OpenFile, Opened
  <2>2. Len(buf') = 0 /\ SubSeq(content', 1, 0) = << >>
    BY <2>1, SubSeqEmpty
  <2>3. QED
    BY <2>1, <2>2 DEF BufferOK
<1>6. CASE Read
  <2>1. SUFFICES ASSUME steady
                 PROVE  Len(buf') <= Len(content) /\ buf' = SubSeq(content, 1, Len(buf'))
    BY <1>6 DEF Read, kernel, BufferOK
  <2>2. content \in Seq(Byte) /\ buf \in Seq(Byte) /\ Len(buf) \in Nat /\ Len(content) \in Nat
    BY ContentType DEF TypeOK
  <2>3. PICK k \in 1 .. Remaining : buf' = buf \o SubSeq(content, Len(buf) + 1, Len(buf) + k)
    BY <1>6 DEF Read
  <2>4. Len(buf) + k <= Len(content) /\ k \in Nat
    BY <2>2, <2>3 DEF Remaining
  <2>5. buf = SubSeq(content, 1, Len(buf))
    BY <1>6, <2>1 DEF Read, BufferOK
  <2>6. PICK n \in Nat : n = Len(buf)
    BY <2>2
  <2>7. SubSeq(content, 1, n) \o SubSeq(content, n + 1, n + k) = SubSeq(content, 1, n + k)
    BY <2>2, <2>4, <2>6, LongerBeginning
  <2>8. buf' = SubSeq(content, 1, n + k)
    BY <2>3, <2>5, <2>6, <2>7
  <2>9. Len(buf') = n + k
    <3>1. \A j \in 1 .. n + k : content[j] \in Byte
      BY <2>2, <2>4, <2>6
    <3>2. QED
      BY <2>4, <2>6, <2>8, <3>1, SubSeqProperties
  <2>10. QED
    BY <2>4, <2>6, <2>8, <2>9
<1>7. CASE ReadFails \/ ReadEnds
  BY <1>7 DEF ReadFails, ReadEnds, CloseFile, BufferOK
<1>8. QED
  BY <1>1, <1>2, <1>3, <1>4, <1>5, <1>6, <1>7 DEF Next, Reading

\* Every step keeps the text what the file holds.
LEMMA FileKept ==
  TypeOK /\ CallOK /\ BufferOK /\ FileShown /\ [Next]_vars => FileShown'
<1> SUFFICES ASSUME TypeOK, CallOK, BufferOK, FileShown, [Next]_vars PROVE FileShown'
  OBVIOUS
<1>1. CASE UNCHANGED vars \/ \E n \in Names : Change(n)
  BY <1>1 DEF vars, kernel, reading, Change, FileShown
<1>2. CASE Rewrite
  BY <1>2 DEF Rewrite, reading, FileShown
<1>3. CASE OpenDir \/ OpenDirFails \/ Populating
  <2>1. UNCHANGED <<buf, text>> /\ ~populated
    BY <1>3 DEF OpenDir, OpenDirFails, StartListing, Populating, ReadName, NameFails, EndOfDir,
         Lstat, SkipLong, SpawnUnreachable, SpawnReachable, SkipSocket, SpawnFails, Listed,
         NextName, reading, CallOK, InLoop
  <2>2. text' = NoText
    BY <2>1 DEF CallOK
  <2>3. text'.what = "none"
    BY <2>2, AnswerParts DEF NoText
  <2>4. QED
    BY <2>1, <2>3 DEF FileShown
<1>4. ASSUME NEW c \in ToSet(children), ShowTarget(c) \/ OpenFails(c) \/ NoBuffer(c)
      PROVE  FileShown'
  <2>1. UNCHANGED buf /\ \E what \in {"target", "failed", "error"} : text' = Answer(what)
    BY <1>4 DEF ShowTarget, OpenFails, NoBuffer, Show
  <2>2. text'.what \in {"target", "failed", "error"}
    BY <2>1, AnswerParts
  <2>3. QED
    BY <2>1, <2>2 DEF FileShown
<1>5. ASSUME NEW c \in ToSet(children), OpenFile(c)
      PROVE  FileShown'
  <2>1. buf' = << >> /\ pc' # "idle"
    BY <1>5 DEF OpenFile, Opened
  <2>2. QED
    BY <2>1, BoundAssumption DEF FileShown
<1>6. CASE Read
  <2>1. content \in Seq(Byte) /\ buf \in Seq(Byte) /\ Len(buf) \in Nat /\ Len(content) \in Nat
    BY ContentType DEF TypeOK
  <2>2. PICK k \in 1 .. Remaining : /\ k <= Cap - Len(buf)
                                    /\ buf' = buf \o SubSeq(content, Len(buf) + 1, Len(buf) + k)
    BY <1>6 DEF Read
  <2>3. Len(buf) + k <= Len(content) /\ k \in Nat
    BY <2>1, <2>2 DEF Remaining
  <2>4. \A j \in Len(buf) + 1 .. Len(buf) + k : content[j] \in Byte
    BY <2>1, <2>3
  <2>5. SubSeq(content, Len(buf) + 1, Len(buf) + k) \in Seq(Byte)
        /\ Len(SubSeq(content, Len(buf) + 1, Len(buf) + k)) = k
    BY <2>1, <2>2, <2>3, <2>4, SubSeqProperties
  <2>6. Len(buf') = Len(buf) + k
    BY <2>1, <2>2, <2>5
  <2>7. Len(buf') <= Cap /\ pc' # "idle"
    BY <1>6, <2>1, <2>2, <2>6, BoundAssumption DEF Read
  <2>8. QED
    BY <2>7 DEF FileShown
<1>7. CASE ReadFails
  <2>1. text'.what \in {"failed", "error"} /\ UNCHANGED buf
    BY <1>7, AnswerParts DEF ReadFails, Show, CloseFile
  <2>2. QED
    BY <2>1 DEF FileShown
<1>8. CASE ReadEnds
  <2>1. /\ pc = "read" /\ UNCHANGED <<buf, content, steady>>
        /\ Len(buf) >= Cap \/ Remaining <= 0
    BY <1>8 DEF ReadEnds, CloseFile, kernel
  <2>2. text' = TextOf(Trimmed(buf)) \/ text'.what = "error"
    BY <1>8, AnswerParts DEF ReadEnds, Show
  <2>3. content \in Seq(Byte) /\ buf \in Seq(Byte) /\ Len(buf) \in Nat /\ Len(content) \in Nat
    BY ContentType DEF TypeOK
  <2>4. steady => /\ \/ text' = TextOf(Trimmed(SubSeq(content, 1, Len(buf))))
                     \/ text'.what = "error"
                  /\ Len(buf) = Cap \/ Len(buf) = Len(content)
    <3>1. Len(buf) <= Cap /\ Cap \in Nat
      BY BoundAssumption DEF FileShown
    <3>2. steady => Len(buf) <= Len(content) /\ buf = SubSeq(content, 1, Len(buf))
      BY <2>1 DEF BufferOK
    <3>3. Len(buf) >= Cap => Len(buf) = Cap
      BY <2>3, <3>1
    <3>4. steady /\ Remaining <= 0 => Len(buf) = Len(content)
      BY <2>3, <3>2 DEF Remaining
    <3>5. QED
      BY <2>1, <2>2, <3>2, <3>3, <3>4
  <2>5. QED
    BY <2>1, <2>2, <2>4 DEF FileShown
<1>9. QED
  BY <1>1, <1>2, <1>3, <1>4, <1>5, <1>6, <1>7, <1>8 DEF Next, Reading

\* Every step keeps links from being read.
LEMMA LinkKept ==
  TypeOK /\ CallOK /\ AddedOK /\ LinkShown /\ [Next]_vars => LinkShown'
<1> SUFFICES ASSUME TypeOK, CallOK, AddedOK, LinkShown, [Next]_vars PROVE LinkShown'
  OBVIOUS
<1>1. CASE UNCHANGED vars \/ (\E n \in Names : Change(n)) \/ Rewrite
  <2>1. UNCHANGED <<pc, text, leaf, children, first>> /\ doubtful \subseteq doubtful'
    BY <1>1 DEF vars, kernel, listing, reading, Change, Rewrite
  <2>2. UNCHANGED Added
    BY <2>1 DEF Added
  <2>3. QED
    BY <2>1, <2>2 DEF LinkShown
<1>2. CASE OpenDir \/ OpenDirFails \/ Populating
  <2>1. UNCHANGED text /\ ~populated
    BY <1>2 DEF OpenDir, OpenDirFails, StartListing, Populating, ReadName, NameFails, EndOfDir,
         Lstat, SkipLong, SpawnUnreachable, SpawnReachable, SkipSocket, SpawnFails, Listed,
         NextName, reading, CallOK, InLoop
  <2>2. text' = NoText
    BY <2>1 DEF CallOK
  <2>3. text'.what = "none"
    BY <2>2, AnswerParts DEF NoText
  <2>4. QED
    BY <2>3 DEF LinkShown
<1>3. ASSUME NEW c \in ToSet(children), ShowTarget(c) \/ OpenFails(c) \/ NoBuffer(c)
      PROVE  LinkShown'
  <2>1. /\ leaf' = c /\ populated /\ UNCHANGED <<children, first, doubtful>>
        /\ \/ c.link /\ disk[c.name].link /\ Show(Answer("target"))
           \/ c.link /\ (MayFail \/ ~disk[c.name].link) /\ Show(Answer("failed"))
           \/ ~c.link /\ (Show(Answer("failed")) \/ Show(Answer("error")))
    BY <1>3 DEF ShowTarget, OpenFails, NoBuffer, StartInvoke, listing, Show
  <2>2. UNCHANGED Added
    BY <2>1 DEF Added
  <2>3. ASSUME c \in ToSet(Added), c.name \notin doubtful
        PROVE  c.link => disk[c.name].link
    <3>0. c \in Child
      BY DEF TypeOK, ToSet
    <3>1. c.name \in Names
      BY <3>0 DEF Child
    <3>2. ListedRight(c.name) /\ c \in AddedFor(c.name)
      BY <2>1, <2>3, <3>1 DEF AddedOK, AddedFor
    <3>3. c = ListedAs(c.name)
      BY <3>2 DEF ListedRight
    <3>4. PICK n : n = c.name
      OBVIOUS
    <3>5. ListedAs(n).link = IF disk[n].target = "dir" THEN FALSE ELSE disk[n].link
      BY DEF ListedAs
    <3>6. c = ListedAs(n)
      BY <3>3, <3>4
    <3>7. QED
      BY <3>4, <3>5, <3>6
  <2>4. ASSUME c \in ToSet(Added), c.name \notin doubtful
        PROVE  IF c.link THEN text'.what = "target" \/ (MayFail /\ text'.what \in {"failed", "error"})
               ELSE text'.what # "target"
    <3>1. CASE c.link
      <4>1. \/ text' = Answer("target")
            \/ MayFail /\ (text' = Answer("failed") \/ text' = Answer("error"))
        BY <2>1, <2>3, <2>4, <3>1 DEF Show
      <4>2. QED
        BY <3>1, <4>1, AnswerParts
    <3>2. CASE ~c.link
      <4>1. text' = Answer("failed") \/ text' = Answer("error")
        BY <2>1, <3>2 DEF Show
      <4>2. QED
        BY <3>2, <4>1, AnswerParts
    <3>3. QED
      BY <3>1, <3>2
  <2>5. QED
    BY <2>1, <2>2, <2>4 DEF LinkShown
<1>4. CASE Read \/ \E c \in ToSet(children) : OpenFile(c)
  <2>1. pc' # "idle"
    BY <1>4 DEF Read, OpenFile, Opened
  <2>2. QED
    BY <2>1 DEF LinkShown
<1>5. CASE ReadFails \/ ReadEnds
  <2>1. text'.what # "target" /\ ~leaf.link /\ UNCHANGED leaf
    <3>1. Trimmed(buf) \in Seq(Byte)
      BY TrimmedType DEF TypeOK
    <3>2. TextOf(Trimmed(buf)).what # "target"
      BY <3>1, TextParts
    <3>3. text' = TextOf(Trimmed(buf)) \/ text' = Answer("failed") \/ text' = Answer("error")
      BY <1>5 DEF ReadFails, ReadEnds, Show
    <3>4. QED
      BY <1>5, <3>2, <3>3, AnswerParts DEF ReadFails, ReadEnds, CloseFile, CallOK
  <2>2. QED
    BY <2>1 DEF LinkShown
<1>6. QED
  BY <1>1, <1>2, <1>3, <1>4, <1>5 DEF Next, Reading

-----------------------------------------------------------------------------
(* The theorems.                                                           *)

\* At the start.
LEMMA InitFsInv == Init => FsInv
<1> SUFFICES ASSUME Init PROVE FsInv
  OBVIOUS
<1>1. pc = "idle" /\ names = << >> /\ children = << >> /\ first = 0 /\ ~populated
      /\ buf = << >> /\ text = NoText /\ ~blocks /\ freed = [n \in Names |-> 0] /\ ~descriptor
  BY DEF Init
<1>2. Gone = {}
  BY <1>1 DEF Gone, InLoop, ToSet
<1>3. CopiesOK
  BY <1>1, <1>2 DEF CopiesOK, InLoop
<1>4. CallOK /\ ReadOK /\ BufferOK
  BY <1>1 DEF CallOK, ReadOK, BufferOK, InLoop
<1>5. AddedOK
  BY <1>1 DEF AddedOK, InLoop
<1>6. text.what = "none"
  BY <1>1, AnswerParts DEF NoText
<1>7. TextIsContent
  BY <1>1, <1>6, BoundAssumption DEF TextIsContent, FileShown, LinkShown
<1>8. QED
  BY <1>3, <1>4, <1>5, <1>7, InitTypes DEF FsInv

\* The inductive invariant: where every call is, which copies are freed, what
\* readdir has returned, what is listed and what the buffer holds.
THEOREM FsInductive == Spec => []FsInv
<1>1. FsInv /\ [Next]_vars => FsInv'
  BY TypesKept, CopiesKept, CallKept, ReadKept, AddedKept, BufferKept, FileKept, LinkKept
     DEF FsInv, TextIsContent
<1>2. QED
  BY InitFsInv, <1>1, PTL DEF Spec

\* Every variable of the transport keeps its type.
THEOREM TypeCorrect == Spec => []TypeOK
<1>1. FsInv => TypeOK
  BY DEF FsInv
<1>2. QED
  BY FsInductive, <1>1, PTL

\* Every copy of a name is freed once, whichever way populate_from_dir ends, and
\* none before its last use; no descriptor stays open.
THEOREM CopiesFreedOnce == Spec => []FreedOnce
<1>1. FsInv => FreedOnce
  <2> SUFFICES ASSUME FsInv PROVE FreedOnce
    OBVIOUS
  <2>1. TypeOK /\ CopiesOK /\ CallOK
    BY DEF FsInv
  <2>2. \A n \in Names : freed[n] <= 1
    BY <2>1 DEF CopiesOK
  <2>3. ASSUME pc = "idle"
        PROVE  (\A n \in ToSet(names) : freed[n] = 1) /\ ~descriptor
    <3>1. Gone = ToSet(names)
      BY <2>3 DEF Gone, InLoop
    <3>2. ToSet(names) \subseteq Names
      BY <2>1 DEF ToSet, TypeOK
    <3>3. QED
      BY <2>1, <2>3, <3>1, <3>2 DEF CopiesOK, CallOK
  <2>4. ASSUME pc \in {"lstat", "stat"}, NEW j \in i .. Len(names)
        PROVE  freed[names[j]] = 0
    <3>1. Gone = {names[k] : k \in 1 .. i - 1} /\ InLoop
      BY <2>4 DEF Gone, InLoop
    <3>2. j \in DOMAIN names /\ DOMAIN names = 1 .. Len(names) /\ i \in 1 .. Len(names) + 1
          /\ Len(names) \in Nat
      BY <2>1, <2>4, <3>1 DEF CopiesOK, TypeOK
    <3>3. names[j] \in Names
      BY <2>1, <3>2 DEF TypeOK
    <3>4. names[j] \notin Gone
      BY <2>1, <3>1, <3>2 DEF CopiesOK
    <3>5. QED
      BY <2>1, <3>3, <3>4 DEF CopiesOK
  <2>5. QED
    BY <2>2, <2>3, <2>4 DEF FreedOnce
<1>2. QED
  BY FsInductive, <1>1, PTL

\* A listing is in alphabetical order, and every entry that stayed as it was
\* while the directory was walked, and that readdir, lstat and stat did not fail
\* on, is in it as what it is.
THEOREM StableEntriesListed == Spec => []StableListed
<1>1. FsInv => StableListed
  BY DEF FsInv, AddedOK, StableListed
<1>2. QED
  BY FsInductive, <1>1, PTL

\* The text of a file is the beginning of what it holds, up to the cap and cut at
\* the first NUL, and a link is never read through: what is shown of it is its
\* target, or that it could not be read.
THEOREM TextOfFile == Spec => []TextIsContent
<1>1. FsInv => TextIsContent
  BY DEF FsInv
<1>2. QED
  BY FsInductive, <1>1, PTL
=============================================================================
