-------------------------- MODULE AttrRequestProofs --------------------------
(***************************************************************************)
(* Machine-checked proofs about AttrRequest, Invoke and InvokeText, for    *)
(* every sequence of arguments, every length of their values and every     *)
(* size of the buffers, and for every operation, metadata and sequence of  *)
(* replies, nested as deep as they may be.                                 *)
(***************************************************************************)
EXTENDS InvokeText, TLAPS, WellFoundedInduction, SequenceTheorems

\* Padding rounds up to the next multiple of four.
LEMMA AlignUp ==
  ASSUME NEW n \in Nat
  PROVE  Align(n) \in Nat /\ Align(n) >= n /\ Align(n) <= n + 3 /\ Align(n) % 4 = 0
BY DEF Align

\* Aligned offsets stay aligned when an aligned size is added.
LEMMA AlignedSum ==
  ASSUME NEW m \in Nat, NEW n \in Nat, m % 4 = 0, n % 4 = 0
  PROVE  (m + n) % 4 = 0
OBVIOUS

\* Among some natural numbers there is a least one.
LEMMA LeastNatural ==
  ASSUME NEW S \in SUBSET Nat, S # {}
  PROVE  \E x \in S : \A y \in S : x <= y
<1>1. PICK R : R = {ss \in Nat \X Nat : ss[1] < ss[2]}
  OBVIOUS
<1>2. IsWellFoundedOn(R, Nat)
  BY <1>1, NatLessThanWellFounded, Zenon DEF OpToRel
<1>3. \A a, b \in Nat : a < b => <<a, b>> \in R
  BY <1>1
<1>4. PICK x \in S : \A y \in S : ~(<<y, x>> \in R)
  BY <1>2, WFMin
<1>5. \A y \in S : x \in Nat /\ y \in Nat /\ ~(y < x)
  BY <1>3, <1>4
<1>6. QED
  BY <1>5

\* The entries of a sequence.
LEMMA Entry ==
  ASSUME NEW T, NEW s \in Seq(T), NEW i \in DOMAIN s
  PROVE  s[i] \in T
OBVIOUS

\* ykern_ycore_invoke_args_lookup finds a value of the user's, the first of
\* its key, whenever the key was given.
LEMMA LookupFinds ==
  ASSUME args \in Seq([key : Key, value : Value]), NEW k, Given(k)
  PROVE  Lookup(k) \in Value
<1>1. PICK S : S = {i \in DOMAIN args : args[i].key = k}
  OBVIOUS
<1>2. S \in SUBSET Nat /\ S # {}
  BY <1>1 DEF Given
<1>3. PICK x \in S : \A y \in S : x <= y
  BY <1>2, LeastNatural
<1>4. \A j \in 1 .. x - 1 : args[j].key # k
  <2>1. ASSUME NEW j \in 1 .. x - 1, args[j].key = k PROVE FALSE
    <3>1. x \in Nat /\ x <= Len(args) /\ DOMAIN args = 1 .. Len(args) /\ Len(args) \in Nat
      BY <1>1, <1>2, <1>3
    <3>2. j \in DOMAIN args
      BY <3>1
    <3>3. j \in S
      BY <1>1, <2>1, <3>2
    <3>4. QED
      BY <1>3, <3>1, <3>3
  <2>2. QED
    BY <2>1
<1>5. \E i \in DOMAIN args : args[i].key = k /\ \A j \in 1 .. i - 1 : args[j].key # k
  BY <1>1, <1>4
<1>6. PICK i \in DOMAIN args : Lookup(k) = args[i].value
  BY <1>5 DEF Lookup
<1>7. args[i] \in [key : Key, value : Value]
  BY Entry, Zenon
<1>8. QED
  BY <1>6, <1>7

(***************************************************************************)
(* PackInv is inductive.                                                   *)
(***************************************************************************)

\* A record of an attribute, and its parts.
LEMMA AttrParts ==
  ASSUME NEW a \in Attr
  PROVE  a.len \in Nat /\ a.type \in Nat /\ a.payload \in Payload /\ a.value \in Value \cup {NoId}
BY DEF Attr

\* ab_string and ab_u32 write one attribute at the offset, behind all others and
\* within the buffer, and leave an aligned offset behind its padding.
LEMMA PutKeeps ==
  ASSUME PackInv, NEW type \in Nat, NEW payload \in {"u32", "string"}, NEW size \in Nat,
         NEW v \in Value, Put(type, payload, size, v), UNCHANGED request
  PROVE  /\ off' \in Nat /\ WithinRequest'
         /\ \A o \in DOMAIN at' : o \in Nat /\ at'[o] \in Attr /\ o + NlaHdrLen <= off'
         /\ \A o \in DOMAIN at : o \in DOMAIN at' /\ at'[o] = at[o]
<1>1. PICK a : a = [type |-> type, len |-> NlaHdrLen + size, payload |-> payload, value |-> v]
  OBVIOUS
<1>2. a \in Attr /\ a.len = 4 + size /\ a.payload # "nest"
  BY <1>1 DEF Attr, Payload, NlaHdrLen
<1>3. PICK n \in Nat : n = Align(4 + size) /\ n >= 4 + size /\ n % 4 = 0
  BY AlignUp
<1>4. /\ off' = off + n /\ off + n <= Cap
      /\ at' = [o \in DOMAIN at \cup {off} |-> IF o = off THEN a ELSE at[o]]
  BY <1>1, <1>3 DEF Put, Fits, NlaHdrLen
<1>5. /\ off \in Nat /\ off % 4 = 0
      /\ \A o \in DOMAIN at : o \in Nat /\ at[o] \in Attr /\ o + 4 <= off
  BY DEF PackInv, TypeOK, PackingOK, WithinRequest, NlaHdrLen
<1>6. off \notin DOMAIN at /\ off' \in Nat /\ off' % 4 = 0
  BY <1>3, <1>4, <1>5, AlignedSum
<1>7. /\ DOMAIN at' = DOMAIN at \cup {off} /\ at'[off] = a
      /\ \A o \in DOMAIN at : at'[o] = at[o]
  BY <1>4, <1>6
<1>8. \A o \in DOMAIN at' : o \in Nat /\ at'[o] \in Attr /\ o + 4 <= off'
  <2>1. off + 4 <= off'
    BY <1>3, <1>4, <1>5
  <2>2. \A o \in DOMAIN at : o + 4 <= off'
    BY <1>3, <1>4, <1>5
  <2>3. QED
    BY <1>2, <1>5, <1>7, <2>1, <2>2
<1>9. \A o \in DOMAIN at : at[o].len \in Nat /\ o + at[o].len <= off /\ o % 4 = 0
  BY <1>5, AttrParts DEF PackInv, WithinRequest
<1>10. ASSUME NEW o \in DOMAIN at'
       PROVE  /\ o % 4 = 0 /\ o + at'[o].len <= off'
              /\ \A p \in DOMAIN at' : (o < p /\ at'[o].payload # "nest") => o + at'[o].len <= p
  <2>1. CASE o = off
    <3>1. off + (4 + size) <= off'
      BY <1>3, <1>4, <1>5
    <3>2. \A p \in DOMAIN at' : ~(off < p)
      BY <1>5, <1>7
    <3>3. QED
      BY <1>2, <1>5, <1>7, <2>1, <3>1, <3>2
  <2>2. CASE o \in DOMAIN at
    <3>1. o + at[o].len <= off' /\ o % 4 = 0
      BY <1>3, <1>4, <1>5, <1>9, <2>2
    <3>2. \A p \in DOMAIN at : (o < p /\ at[o].payload # "nest") => o + at[o].len <= p
      BY <2>2 DEF PackInv, WithinRequest
    <3>3. QED
      BY <1>7, <1>9, <2>2, <3>1, <3>2
  <2>3. QED
    BY <1>7, <2>1, <2>2
<1>11. WithinRequest'
  BY <1>4, <1>6, <1>10 DEF WithinRequest, Cap
<1>12. QED
  BY <1>6, <1>7, <1>8, <1>11 DEF NlaHdrLen

\* The steps that pack a value.
LEMMA PutStep ==
  ASSUME PackInv, PutName \/ PutIndex \/ PutArg
  PROVE  PackInv'
<1>1. /\ UNCHANGED <<request, args, hasSet, dump, nested, result>>
      /\ next' \in Nat \ {0} /\ result = "building"
      /\ nested # NoId \/ request = "generic"
  BY DEF PutName, PutIndex, PutArg, InHeader, Getting, Packing, AtArg, call, PackInv, TypeOK
<1>2. /\ args \in Seq([key : Key, value : Value]) /\ next \in Nat \ {0}
      /\ NoId \notin Nat /\ {"ifname", "ifindex"} \subseteq Key
      /\ \A key \in Key : IdOf(key) \in (Nat \ {0}) \cup {NoId}
  BY RequestAssumption DEF PackInv, TypeOK, IdOf
<1>3. \E type \in Nat, payload \in {"u32", "string"}, size \in Nat, v \in Value :
        Put(type, payload, size, v)
  <2>1. CASE PutName
    <3>1. Lookup("ifname") \in Value
      BY <1>2, <2>1, LookupFinds DEF PutName, ByName
    <3>2. Lookup("ifname").len + 1 \in Nat
      BY <3>1 DEF Value
    <3>3. IdOf("ifname") \in Nat
      BY <1>2, <2>1 DEF PutName, InHeader, PackInv, PackingOK, HasIds
    <3>4. QED
      BY <2>1, <3>1, <3>2, <3>3 DEF PutName, PutString
  <2>2. CASE PutIndex
    <3>1. Lookup("ifindex") \in Value
      BY <1>2, <2>2, LookupFinds DEF PutIndex, ByIndex
    <3>2. IdOf("ifindex") \in Nat
      BY <1>2, <2>2 DEF PutIndex, InHeader, PackInv, PackingOK, HasIds
    <3>3. QED
      BY <2>2, <3>1, <3>2 DEF PutIndex, PutU32
  <2>3. CASE PutArg
    <3>1. next \in DOMAIN args
      BY <1>2, <2>3 DEF PutArg, AtArg
    <3>2. Arg \in [key : Key, value : Value]
      BY <1>2, <3>1, Entry, Zenon DEF Arg
    <3>3. Arg.value \in Value /\ IdOf(Arg.key) \in Nat
      BY <1>2, <2>3, <3>2 DEF PutArg
    <3>4. Arg.value.len + 1 \in Nat
      BY <3>3 DEF Value
    <3>5. QED
      BY <2>3, <3>3, <3>4 DEF PutArg, PutU32, PutString
  <2>4. QED
    BY <2>1, <2>2, <2>3
<1>4. /\ off' \in Nat /\ WithinRequest'
      /\ \A o \in DOMAIN at' : o \in Nat /\ at'[o] \in Attr /\ o + NlaHdrLen <= off'
      /\ \A o \in DOMAIN at : o \in DOMAIN at' /\ at'[o] = at[o]
  BY <1>1, <1>3, PutKeeps
<1>5. TypeOK'
  BY <1>1, <1>4 DEF PackInv, TypeOK
<1>6. PackingOK'
  <2>1. nested # NoId => nested \in DOMAIN at
    BY DEF PackInv, TypeOK
  <2>2. QED
    BY <1>1, <1>4, <2>1 DEF PackInv, PackingOK, HasIds, IdOf, Getting
<1>7. QED
  BY <1>4, <1>5, <1>6 DEF PackInv

\* The HEADER is opened at the very start, where there is room for it.
LEMMA BeginStep ==
  ASSUME PackInv, BeginHeader
  PROVE  PackInv'
<1>1. /\ UNCHANGED <<request, args, hasSet, dump, next, result>>
      /\ request = "get" /\ HasIds /\ nested' = 20 /\ off' = 24
      /\ GetCap \in Nat /\ GetCap >= 24 /\ NoId \notin Nat
  BY RequestAssumption DEF BeginHeader, Getting, call, PackInv, PackingOK, FirstOff, NlaHdrLen
<1>2. /\ DOMAIN at' = {20}
      /\ at'[20] = [type |-> 1, len |-> 0, payload |-> "nest", value |-> NoId]
  BY DEF BeginHeader, Getting, PackInv, PackingOK, FirstOff, HeaderId
<1>3. at'[20] \in Attr /\ at'[20].len = 0 /\ at'[20].payload = "nest"
  BY <1>2 DEF Attr, Payload
<1>4. TypeOK'
  BY <1>1, <1>2, <1>3 DEF PackInv, TypeOK
<1>5. WithinRequest'
  BY <1>1, <1>2, <1>3 DEF WithinRequest, Cap
<1>6. PackingOK'
  BY <1>1, <1>2, <1>3 DEF PackingOK, HasIds, IdOf, NlaHdrLen
<1>7. QED
  BY <1>4, <1>5, <1>6 DEF PackInv

\* Closing the HEADER changes no length but its own, which reaches the offset.
LEMMA EndStep ==
  ASSUME PackInv, EndHeader
  PROVE  PackInv'
<1>1. PICK h : h = nested
  OBVIOUS
<1>2. /\ UNCHANGED <<request, args, hasSet, dump, off, next>>
      /\ nested' = NoId /\ result' = "sent"
      /\ h # NoId /\ at' = [at EXCEPT ![h].len = off - h]
  BY <1>1 DEF EndHeader, End, call
<1>3. /\ h \in DOMAIN at /\ h \in Nat /\ off \in Nat /\ off - h \in Nat
      /\ at[h] \in Attr /\ at[h].payload = "nest"
  BY <1>1, <1>2 DEF PackInv, TypeOK, PackingOK, NlaHdrLen
<1>4. /\ DOMAIN at' = DOMAIN at
      /\ \A o \in DOMAIN at \ {h} : at'[o] = at[o]
      /\ at'[h] \in Attr /\ at'[h].len = off - h /\ at'[h].payload = "nest"
  <2>1. /\ DOMAIN at' = DOMAIN at /\ \A o \in DOMAIN at \ {h} : at'[o] = at[o]
        /\ at'[h] = [at[h] EXCEPT !.len = off - h]
    BY <1>2, <1>3
  <2>2. QED
    BY <1>3, <2>1 DEF Attr
<1>5. TypeOK'
  BY <1>2, <1>4 DEF PackInv, TypeOK
<1>6. WithinRequest'
  <2>1. WithinRequest
    BY DEF PackInv
  <2>2. ASSUME NEW o \in DOMAIN at
        PROVE  /\ o % 4 = 0 /\ o + at'[o].len <= off
               /\ \A p \in DOMAIN at : (o < p /\ at'[o].payload # "nest") => o + at'[o].len <= p
    <3>1. CASE o = h
      BY <1>3, <1>4, <2>1, <3>1 DEF WithinRequest
    <3>2. CASE o # h
      BY <1>4, <2>1, <3>2 DEF WithinRequest
    <3>3. QED
      BY <3>1, <3>2
  <2>3. QED
    BY <1>2, <1>4, <2>1, <2>2 DEF WithinRequest, Cap
<1>7. PackingOK'
  BY <1>2, <1>4 DEF PackInv, PackingOK, Getting
<1>8. QED
  BY <1>5, <1>6, <1>7 DEF PackInv

\* Before the first step nothing is packed.
LEMMA InitPacked == Init => PackInv
<1>1. SUFFICES ASSUME Init PROVE PackInv
  OBVIOUS
<1>2. /\ off = 20 /\ nested = NoId /\ next = 1 /\ result = "building"
      /\ DOMAIN at = {} /\ request \in {"get", "generic"}
      /\ args \in ArgLists /\ hasSet \in BOOLEAN /\ dump \in BOOLEAN
  <2>1. dump \in BOOLEAN
    <3>1. CASE request = "get"
      BY <1>1, <3>1 DEF Init, Given
    <3>2. CASE request # "get"
      BY <1>1, <3>2 DEF Init
    <3>3. QED
      BY <3>1, <3>2
  <2>2. at = << >>
    BY <1>1 DEF Init
  <2>3. DOMAIN at = {}
    BY <2>2
  <2>4. QED
    BY <1>1, <2>1, <2>3 DEF Init, FirstOff
<1>3. Cap \in Nat /\ 20 <= Cap
  BY <1>2, RequestAssumption DEF Cap, FirstOff, NlaHdrLen
<1>4. QED
  BY <1>2, <1>3 DEF PackInv, TypeOK, WithinRequest, PackingOK, FirstOff

\* No step breaks the layout.
LEMMA PackedStep == PackInv /\ [Next]_vars => PackInv'
<1>1. SUFFICES ASSUME PackInv, [Next]_vars PROVE PackInv'
  OBVIOUS
<1>2. CASE PutName \/ PutIndex \/ PutArg
  BY <1>1, <1>2, PutStep
<1>3. CASE BeginHeader
  BY <1>1, <1>3, BeginStep
<1>4. CASE EndHeader
  BY <1>1, <1>4, EndStep
<1>5. CASE \/ GetRefused \/ BadIndex \/ NoRoomInHeader \/ NoSet \/ UnknownKey
           \/ NoRoomForArg \/ SendGeneric \/ UNCHANGED vars
  <2>1. /\ UNCHANGED <<request, args, hasSet, dump, off, at, nested, next>>
        /\ result' \in {"sent", "text", "error", result}
    BY <1>5 DEF GetRefused, BadIndex, NoRoomInHeader, NoSet, UnknownKey, NoRoomForArg,
                SendGeneric, End, Unsent, vars, call
  <2>2. TypeOK' /\ WithinRequest'
    BY <1>1, <2>1 DEF PackInv, TypeOK, WithinRequest, Cap
  <2>3. PackingOK'
    BY <1>1, <2>1 DEF PackInv, PackingOK, HasIds, IdOf, Getting
  <2>4. QED
    BY <2>2, <2>3 DEF PackInv
<1>6. QED
  BY <1>1, <1>2, <1>3, <1>4, <1>5 DEF Next

\* However many arguments of whatever length are given, no invoke writes past
\* the end of its request, padding included, and no attribute overlaps another.
THEOREM Packed == Spec => []PackInv
BY InitPacked, PackedStep, PTL DEF Spec

(***************************************************************************)
(* What the receiver finds.                                                *)
(***************************************************************************)

\* The stretch a header takes.
LEMMA Stretch ==
  ASSUME NEW a \in Attr
  PROVE  Align(a.len) \in Nat /\ Align(a.len) >= a.len /\ Align(a.len) <= a.len + 3
BY AttrParts, AlignUp

\* NLA_OK up to the write offset, and the equation of the walk from an offset.
Attends(o) == /\ o \in DOMAIN at /\ o + NlaHdrLen <= off
              /\ at[o].len >= NlaHdrLen /\ o + at[o].len <= off
Walks(R, from) ==
  R = [o \in from .. off + 3 |->
         IF Attends(o) THEN <<at[o]>> \o R[o + Align(at[o].len)] ELSE << >>]

\* The walk over headers that lie behind each other up to the end finds each of
\* them once, in their order: NLA_NEXT leads from one to the next and NLA_OK
\* refuses the end.
LEMMA WalkFinds ==
  ASSUME PackInv, NEW n \in Nat, NEW place \in [1 .. n + 1 -> Nat],
         place[n + 1] = off, place[1] \in Nat,
         {o \in DOMAIN at : o >= place[1]} = {place[i] : i \in 1 .. n},
         \A i \in 1 .. n : /\ at[place[i]].len >= NlaHdrLen
                           /\ place[i + 1] = place[i] + Align(at[place[i]].len)
  PROVE  /\ Walk(place[1], off) = [i \in 1 .. n |-> at[place[i]]]
         /\ \E R : Walks(R, place[1])
<1> DEFINE from == place[1]
           Span == from .. off + 3
           Ok(o) == /\ o \in DOMAIN at /\ o + NlaHdrLen <= off
                    /\ at[o].len >= NlaHdrLen /\ o + at[o].len <= off
           Tails(i) == [j \in 1 .. n + 1 - i |-> at[place[i + j - 1]]]
           Solves(R) == R = [o \in Span |-> IF Ok(o) THEN <<at[o]>> \o R[o + Align(at[o].len)]
                                           ELSE << >>]
<1>1. /\ off \in Nat /\ off \notin DOMAIN at
      /\ \A o \in DOMAIN at : /\ o \in Nat /\ at[o] \in Attr /\ at[o].len \in Nat
                              /\ o + 4 <= off /\ o + at[o].len <= off
  BY AttrParts DEF PackInv, TypeOK, WithinRequest, PackingOK, NlaHdrLen
<1>2. \A i \in 1 .. n : /\ place[i] \in DOMAIN at /\ place[i] >= from /\ place[i] \in Nat
                        /\ place[i] < place[i + 1]
  <2>1. SUFFICES ASSUME NEW i \in 1 .. n
                 PROVE  /\ place[i] \in DOMAIN at /\ place[i] >= from /\ place[i] \in Nat
                        /\ place[i] < place[i + 1]
    OBVIOUS
  <2>2. place[i] \in {o \in DOMAIN at : o >= from}
    OBVIOUS
  <2>3. at[place[i]] \in Attr /\ place[i] \in Nat /\ at[place[i]].len >= 4
    BY <1>1, <2>2 DEF NlaHdrLen
  <2>4. Align(at[place[i]].len) \in Nat /\ Align(at[place[i]].len) >= at[place[i]].len
    BY <2>3, Stretch
  <2>5. at[place[i]].len \in Nat /\ place[i + 1] = place[i] + Align(at[place[i]].len)
    BY <1>1, <2>2
  <2>6. PICK p, q, l, m : p = place[i] /\ q = place[i + 1] /\ l = at[place[i]].len /\ m = Align(l)
    OBVIOUS
  <2>7. p \in Nat /\ l \in Nat /\ m \in Nat /\ l >= 4 /\ m >= l /\ q = p + m
    BY <2>3, <2>4, <2>5, <2>6
  <2>8. p < q
    BY <2>7
  <2>9. QED
    BY <2>2, <2>3, <2>6, <2>8
<1>3. \A i \in 1 .. n + 1 : place[i] \in Span /\ place[i] \in Nat
  <2>1. SUFFICES ASSUME NEW i \in 1 .. n + 1 PROVE place[i] \in Span /\ place[i] \in Nat
    OBVIOUS
  <2>2. from \in Nat /\ (n = 0 => from = off)
    OBVIOUS
  <2>3. n # 0 => place[1] \in DOMAIN at
    BY <1>2
  <2>4. from <= off
    BY <1>1, <2>2, <2>3
  <2>5. CASE i = n + 1
    BY <1>1, <2>2, <2>4, <2>5
  <2>6. CASE i \in 1 .. n
    <3>1. PICK p : p = place[i]
      OBVIOUS
    <3>2. p \in DOMAIN at /\ p >= from /\ p \in Nat
      BY <1>2, <2>6, <3>1
    <3>3. off \in Nat /\ p + 4 <= off
      BY <1>1, <3>2
    <3>4. p \in from .. off + 3
      BY <2>2, <3>2, <3>3
    <3>5. QED
      BY <3>1, <3>2, <3>4
  <2>7. QED
    BY <2>5, <2>6
<1>4. \A o \in Span : Ok(o) <=> \E i \in 1 .. n : place[i] = o
  <2>1. SUFFICES ASSUME NEW o \in Span PROVE Ok(o) <=> \E i \in 1 .. n : place[i] = o
    OBVIOUS
  <2>2. o >= from /\ o \in Int
    BY <1>1
  <2>3. ASSUME Ok(o) PROVE \E i \in 1 .. n : place[i] = o
    <3>1. o \in {x \in DOMAIN at : x >= from}
      BY <2>2, <2>3
    <3>2. QED
      BY <3>1
  <2>4. ASSUME NEW i \in 1 .. n, place[i] = o PROVE Ok(o)
    BY <1>1, <1>2, <2>4 DEF NlaHdrLen
  <2>5. QED
    BY <2>3, <2>4
<1>5. \A i \in 1 .. n, k \in 1 .. n + 1 : place[i] = place[k] => i = k
  <2>1. ASSUME NEW i \in 1 .. n, NEW k \in 1 .. n + 1, i < k PROVE place[i] < place[k]
    <3>1. PICK S : S = {d \in Nat : i + 1 + d <= n + 1 /\ ~(place[i] < place[i + 1 + d])}
      OBVIOUS
    <3>2. CASE S = {}
      <4>1. k - i - 1 \in Nat /\ i + 1 + (k - i - 1) = k
        BY <2>1
      <4>2. PICK d \in Nat : d = k - i - 1
        BY <4>1
      <4>3. d \notin S /\ i + 1 + d = k /\ i + 1 + d <= n + 1
        BY <3>2, <4>1, <4>2
      <4>4. QED
        BY <3>1, <4>3
    <3>3. CASE S # {}
      <4>1. S \subseteq Nat
        BY <3>1
      <4>2. PICK d \in S : \A e \in S : d <= e
        BY <3>3, <4>1, LeastNatural
      <4>3. d \in Nat /\ i + 1 + d <= n + 1 /\ ~(place[i] < place[i + 1 + d])
        BY <3>1, <4>2
      <4>4. d # 0
        BY <1>2, <4>3
      <4>5. d - 1 \in Nat /\ d - 1 \notin S
        BY <4>2, <4>3, <4>4
      <4>6. place[i] < place[i + 1 + (d - 1)]
        BY <3>1, <4>3, <4>5
      <4>7. i + d \in 1 .. n /\ i + 1 + (d - 1) = i + d /\ i + d + 1 = i + 1 + d
        BY <4>3, <4>4
      <4>8. place[i + d] < place[i + d + 1] /\ place[i] \in Nat /\ place[i + d] \in Nat
            /\ place[i + d + 1] \in Nat
        <5>1. PICK m \in 1 .. n : m = i + d
          BY <4>7
        <5>2. place[m] < place[m + 1] /\ m \in 1 .. n + 1 /\ m + 1 \in 1 .. n + 1
          BY <1>2
        <5>3. QED
          BY <5>1, <5>2
      <4>9. QED
        BY <4>3, <4>6, <4>7, <4>8
    <3>4. QED
      BY <3>2, <3>3
  <2>2. SUFFICES ASSUME NEW i \in 1 .. n, NEW k \in 1 .. n + 1, place[i] = place[k], i # k
                 PROVE  FALSE
    OBVIOUS
  <2>3. place[i] \in Nat /\ place[k] \in Nat
    BY <1>3
  <2>4. CASE i < k
    BY <2>1, <2>2, <2>3, <2>4
  <2>5. CASE k < i
    <3>1. k \in 1 .. n /\ i \in 1 .. n + 1
      BY <2>5
    <3>2. place[k] < place[i]
      BY <2>1, <2>5, <3>1
    <3>3. QED
      BY <2>2, <2>3, <3>2
  <2>6. QED
    BY <2>2, <2>4, <2>5
<1>6. \A i \in 1 .. n : Tails(i) = <<at[place[i]]>> \o Tails(i + 1)
  <2>1. SUFFICES ASSUME NEW i \in 1 .. n PROVE Tails(i) = <<at[place[i]]>> \o Tails(i + 1)
    OBVIOUS
  <2>2. PICK a : a = at[place[i]]
    OBVIOUS
  <2>3. PICK t : t = Tails(i + 1)
    OBVIOUS
  <2>4. DOMAIN t = 1 .. n - i /\ Len(t) = n - i /\ t = [j \in 1 .. n - i |-> t[j]]
    BY <2>3
  <2>5. <<a>> \o t = [j \in 1 .. 1 + (n - i) |-> IF j = 1 THEN a ELSE t[j - 1]]
    BY <2>4
  <2>6. \A j \in 1 .. n + 1 - i : at[place[i + j - 1]] = IF j = 1 THEN a ELSE t[j - 1]
    <3>1. ASSUME NEW j \in 1 .. n + 1 - i, j # 1
          PROVE  at[place[i + j - 1]] = t[j - 1]
      <4>1. j - 1 \in 1 .. n + 1 - (i + 1) /\ (i + 1) + (j - 1) - 1 = i + j - 1
        BY <3>1
      <4>2. QED
        BY <2>3, <4>1
    <3>2. i + 1 - 1 = i
      OBVIOUS
    <3>3. QED
      BY <2>2, <3>1, <3>2
  <2>7. 1 + (n - i) = n + 1 - i
    OBVIOUS
  <2>8. Tails(i) = [j \in 1 .. n + 1 - i |-> IF j = 1 THEN a ELSE t[j - 1]]
    BY <2>6
  <2> HIDE DEF Tails
  <2>9. QED
    BY <2>2, <2>3, <2>5, <2>7, <2>8
<1>7. \E R : Solves(R)
  <2> DEFINE At(o) == CHOOSE i \in 1 .. n : place[i] = o
             R == [o \in Span |-> IF Ok(o) THEN Tails(At(o)) ELSE << >>]
  <2>1. \A i \in 1 .. n : R[place[i]] = Tails(i)
    <3>1. SUFFICES ASSUME NEW i \in 1 .. n PROVE R[place[i]] = Tails(i)
      OBVIOUS
    <3>2. At(place[i]) \in 1 .. n /\ place[At(place[i])] = place[i]
      OBVIOUS
    <3>3. At(place[i]) = i
      BY <1>5, <3>2
    <3>4. i \in 1 .. n + 1
      OBVIOUS
    <3> HIDE DEF Tails, Ok, Span, At
    <3>5. place[i] \in Span /\ Ok(place[i])
      BY <1>3, <1>4, <3>4
    <3>6. QED
      BY <3>3, <3>5
  <2>2. R[place[n + 1]] = Tails(n + 1)
    <3>1. ~Ok(off) /\ place[n + 1] \in Span
      BY <1>1, <1>3
    <3>2. Tails(n + 1) = << >>
      OBVIOUS
    <3> HIDE DEF Tails, Ok, Span, At
    <3>3. QED
      BY <3>1, <3>2
  <2>3. \A o \in Span : R[o] = IF Ok(o) THEN <<at[o]>> \o R[o + Align(at[o].len)] ELSE << >>
    <3>1. SUFFICES ASSUME NEW o \in Span, Ok(o)
                   PROVE  R[o] = <<at[o]>> \o R[o + Align(at[o].len)]
      <4>1. \A o \in Span : ~Ok(o) => R[o] = << >>
        <5> HIDE DEF Ok, Span, Tails, At
        <5>1. QED
          OBVIOUS
      <4> HIDE DEF R, Ok, Span
      <4>2. QED
        BY <4>1
    <3>2. PICK i \in 1 .. n : place[i] = o
      BY <1>4, <3>1
    <3>3. o + Align(at[o].len) = place[i + 1] /\ i + 1 \in 1 .. n + 1
      BY <3>2
    <3>4. R[place[i + 1]] = Tails(i + 1)
      <4>1. i + 1 \in 1 .. n \/ i + 1 = n + 1
        OBVIOUS
      <4> HIDE DEF R, Tails
      <4>2. QED
        BY <2>1, <2>2, <4>1
    <3>5. R[o] = Tails(i) /\ Tails(i) = <<at[place[i]]>> \o Tails(i + 1)
      <4> HIDE DEF R, Tails
      <4>1. QED
        BY <1>6, <2>1, <3>2
    <3> HIDE DEF R, Tails
    <3>6. QED
      BY <3>2, <3>3, <3>4, <3>5
  <2>4. Solves(R)
    <3>1. DOMAIN R = Span /\ R = [o \in Span |-> R[o]]
      OBVIOUS
    <3> HIDE DEF R, Ok, Span
    <3>2. QED
      BY <2>3, <3>1
  <2> HIDE DEF R, Solves
  <2>5. QED
    BY <2>4
<1>8. Walk(from, off) = (CHOOSE R : Solves(R))[from]
  BY DEF Walk
<1>9. PICK R : R = (CHOOSE Q : Solves(Q))
  OBVIOUS
<1>10. Solves(R)
  <2> HIDE DEF Solves
  <2>1. QED
    BY <1>7, <1>9
<1>11. \A o \in Span : R[o] = IF Ok(o) THEN <<at[o]>> \o R[o + Align(at[o].len)] ELSE << >>
  <2> HIDE DEF Ok, Span
  <2>1. R = [o \in Span |-> IF Ok(o) THEN <<at[o]>> \o R[o + Align(at[o].len)] ELSE << >>]
    BY <1>10
  <2>2. PICK F : F = [o \in Span |-> IF Ok(o) THEN <<at[o]>> \o R[o + Align(at[o].len)] ELSE << >>]
    OBVIOUS
  <2>3. \A o \in Span : F[o] = IF Ok(o) THEN <<at[o]>> \o R[o + Align(at[o].len)] ELSE << >>
    BY <2>2
  <2>4. QED
    BY <2>1, <2>2, <2>3
<1>12. \A i \in 1 .. n + 1 : R[place[i]] = Tails(i)
  <2>1. PICK S : S = {d \in Nat : d <= n /\ R[place[n + 1 - d]] # Tails(n + 1 - d)}
    OBVIOUS
  <2>2. CASE S = {}
    <3>1. SUFFICES ASSUME NEW i \in 1 .. n + 1 PROVE R[place[i]] = Tails(i)
      OBVIOUS
    <3>2. n + 1 - i \in Nat /\ n + 1 - i <= n /\ n + 1 - (n + 1 - i) = i
      OBVIOUS
    <3> HIDE DEF Tails
    <3>3. QED
      BY <2>1, <2>2, <3>2
  <2>3. CASE S # {}
    <3>1. S \subseteq Nat
      BY <2>1
    <3>2. PICK d \in S : \A e \in S : d <= e
      BY <2>3, <3>1, LeastNatural
    <3>3. d \in Nat /\ d <= n /\ R[place[n + 1 - d]] # Tails(n + 1 - d)
      BY <2>1, <3>2
    <3>4. CASE d = 0
      <4>1. ~Ok(off) /\ place[n + 1] \in Span
        BY <1>1, <1>3
      <4>2. Tails(n + 1) = << >>
        OBVIOUS
      <4>3. n + 1 - d = n + 1
        BY <3>4
      <4> HIDE DEF Tails, Ok, Span
      <4>4. QED
        BY <1>11, <3>3, <4>1, <4>2, <4>3
    <3>5. CASE d # 0
      <4>1. PICK i : i = n + 1 - d
        OBVIOUS
      <4>2. i \in 1 .. n /\ d - 1 \in Nat /\ d - 1 <= n /\ n + 1 - (d - 1) = i + 1
        BY <3>3, <3>5, <4>1
      <4>3. d - 1 \notin S
        BY <3>2, <3>3, <3>5
      <4> HIDE DEF Tails
      <4>4. R[place[i + 1]] = Tails(i + 1)
        BY <2>1, <4>2, <4>3
      <4>5. Ok(place[i]) /\ place[i] \in Span
        <5>1. place[i] \in Span
          BY <1>3, <4>2
        <5> HIDE DEF Ok, Span
        <5>2. QED
          BY <1>4, <4>2, <5>1
      <4> HIDE DEF Ok, Span
      <4>6. R[place[i]] = <<at[place[i]]>> \o R[place[i] + Align(at[place[i]].len)]
        BY <1>11, <4>5
      <4>7. place[i] + Align(at[place[i]].len) = place[i + 1]
        BY <4>2
      <4>8. Tails(i) = <<at[place[i]]>> \o Tails(i + 1)
        BY <1>6, <4>2
      <4>9. QED
        BY <3>3, <4>1, <4>4, <4>6, <4>7, <4>8
    <3>6. QED
      BY <3>4, <3>5
  <2>4. QED
    BY <2>2, <2>3
<1>13. R[from] = Tails(1)
  <2> HIDE DEF Tails
  <2>1. QED
    BY <1>12
<1>14. Tails(1) = [i \in 1 .. n |-> at[place[i]]]
  OBVIOUS
<1>15. \E Q : Walks(Q, place[1])
  BY <1>7 DEF Walks, Attends
<1>16. QED
  BY <1>8, <1>9, <1>13, <1>14, <1>15

\* Headers laid out one behind the other are read as what they say.
LEMMA ReadBack ==
  ASSUME PackInv, NEW from \in Nat, NEW T, NEW said \in Seq(T), LaidOut(from, said)
  PROVE  /\ Walk(from, off) \in Seq(Attr) /\ Len(Walk(from, off)) = Len(said)
         /\ [i \in DOMAIN Walk(from, off) |-> Says(Walk(from, off)[i])] = said
         /\ \E R : Walks(R, from)
<1>1. PICK n \in Nat : n = Len(said)
  OBVIOUS
<1>2. DOMAIN said = 1 .. n
  BY <1>1
<1>3. PICK place \in [1 .. n + 1 -> DOMAIN at \cup {off}] :
        /\ place[1] = from /\ place[n + 1] = off
        /\ {o \in DOMAIN at : o >= from} = {place[i] : i \in DOMAIN said}
        /\ \A i \in DOMAIN said :
             /\ Says(at[place[i]]) = said[i] /\ at[place[i]].len >= NlaHdrLen
             /\ place[i + 1] = place[i] + Align(at[place[i]].len)
  BY <1>1 DEF LaidOut
<1>4. /\ off \in Nat /\ DOMAIN at \cup {off} \subseteq Nat
      /\ \A o \in DOMAIN at : at[o] \in Attr
  BY DEF PackInv, TypeOK
<1>5. place \in [1 .. n + 1 -> Nat]
  BY <1>3, <1>4
<1>6. \A i \in 1 .. n : place[i] \in DOMAIN at
  <2>1. \A i \in 1 .. n : place[i] \in {o \in DOMAIN at : o >= from}
    BY <1>2, <1>3
  <2>2. QED
    BY <2>1
<1>7. PICK w : w = [i \in 1 .. n |-> at[place[i]]]
  OBVIOUS
<1>8. Walk(from, off) = w /\ \E R : Walks(R, from)
  <2>1. /\ place[n + 1] = off /\ place[1] \in Nat
        /\ {o \in DOMAIN at : o >= place[1]} = {place[i] : i \in 1 .. n}
        /\ \A i \in 1 .. n : /\ at[place[i]].len >= NlaHdrLen
                              /\ place[i + 1] = place[i] + Align(at[place[i]].len)
    BY <1>2, <1>3
  <2>2. /\ Walk(place[1], off) = [i \in 1 .. n |-> at[place[i]]]
        /\ \E R : Walks(R, place[1])
    BY <1>5, <2>1, WalkFinds
  <2>3. QED
    BY <1>3, <1>7, <2>2
<1>9. w \in Seq(Attr) /\ Len(w) = n /\ DOMAIN w = 1 .. n
  BY <1>4, <1>6, <1>7
<1>10. \A i \in 1 .. n : Says(w[i]) = said[i]
  BY <1>2, <1>3, <1>7
<1>11. [i \in DOMAIN w |-> Says(w[i])] = said
  <2>1. said = [i \in 1 .. n |-> said[i]]
    BY <1>2
  <2>2. QED
    BY <1>9, <1>10, <2>1
<1>12. QED
  BY <1>1, <1>2, <1>8, <1>9, <1>10, <1>11

\* The receiver steps over the closed HEADER as one attribute, and finds nothing
\* behind it.
LEMMA HeaderAlone ==
  ASSUME PackInv, 20 \in DOMAIN at, {o \in DOMAIN at : o < 24} = {20}, 20 + at[20].len = off,
         \E R : Walks(R, 24)
  PROVE  Walk(20, off) = <<at[20]>>
<1>1. /\ off \in Nat /\ off \notin DOMAIN at /\ off >= 24 /\ off % 4 = 0
      /\ \A o \in DOMAIN at : /\ o \in Nat /\ at[o] \in Attr /\ at[o].len \in Nat
  BY AttrParts DEF PackInv, TypeOK, WithinRequest, PackingOK, NlaHdrLen
<1>2. Attends(20) /\ ~Attends(off)
  BY <1>1 DEF Attends, NlaHdrLen
<1>3. 20 + Align(at[20].len) = off
  <2>1. PICK l \in Nat : l = at[20].len /\ l = off - 20
    BY <1>1
  <2>2. l % 4 = 0 /\ Align(l) = l
    BY <1>1, <2>1 DEF Align
  <2>3. QED
    BY <2>1, <2>2
<1>4. \A o \in 24 .. off + 3 : Attends(o) => o + Align(at[o].len) \in 24 .. off + 3
  <2>1. SUFFICES ASSUME NEW o \in 24 .. off + 3, Attends(o)
                 PROVE  o + Align(at[o].len) \in 24 .. off + 3
    OBVIOUS
  <2>2. o \in Nat /\ at[o].len \in Nat /\ o + at[o].len <= off
    BY <1>1, <2>1 DEF Attends
  <2>3. /\ Align(at[o].len) \in Nat /\ Align(at[o].len) >= at[o].len
        /\ Align(at[o].len) <= at[o].len + 3
    BY <2>2, AlignUp
  <2>4. QED
    BY <1>1, <2>2, <2>3
<1>5. \A o \in 20 .. off + 3 : o = 20 \/ o \in 24 .. off + 3 \/ (o \in 21 .. 23 /\ ~Attends(o))
  <2>1. \A o \in DOMAIN at : o < 24 => o = 20
    OBVIOUS
  <2>2. QED
    BY <1>1, <2>1 DEF Attends
<1>6. PICK Q : Walks(Q, 24)
  OBVIOUS
<1>7. \A o \in 24 .. off + 3 : Q[o] = IF Attends(o) THEN <<at[o]>> \o Q[o + Align(at[o].len)]
                                     ELSE << >>
  <2>1. Q = [o \in 24 .. off + 3 |->
               IF Attends(o) THEN <<at[o]>> \o Q[o + Align(at[o].len)] ELSE << >>]
    BY <1>6 DEF Walks
  <2>2. PICK F : F = [o \in 24 .. off + 3 |->
               IF Attends(o) THEN <<at[o]>> \o Q[o + Align(at[o].len)] ELSE << >>]
    OBVIOUS
  <2>3. QED
    BY <2>1, <2>2
<1>8. PICK R : R = [o \in 20 .. off + 3 |-> IF o = 20 THEN <<at[20]>>
                                           ELSE IF o \in 24 .. off + 3 THEN Q[o] ELSE << >>]
  OBVIOUS
<1>9. /\ DOMAIN R = 20 .. off + 3 /\ R = [o \in 20 .. off + 3 |-> R[o]]
      /\ R[20] = <<at[20]>>
      /\ \A o \in 24 .. off + 3 : R[o] = Q[o]
      /\ \A o \in 21 .. 23 : R[o] = << >>
  BY <1>1, <1>8
<1>10. \A o \in 20 .. off + 3 : R[o] = IF Attends(o) THEN <<at[o]>> \o R[o + Align(at[o].len)]
                                      ELSE << >>
  <2>1. ASSUME NEW o \in 24 .. off + 3
        PROVE  R[o] = IF Attends(o) THEN <<at[o]>> \o R[o + Align(at[o].len)] ELSE << >>
    BY <1>4, <1>7, <1>9
  <2>2. R[20] = <<at[20]>> \o R[20 + Align(at[20].len)]
    <3>1. R[off] = << >>
      <4>1. off \in 24 .. off + 3
        BY <1>1
      <4>2. QED
        BY <1>2, <1>7, <1>9, <4>1
    <3>2. <<at[20]>> \o << >> = <<at[20]>>
      OBVIOUS
    <3>3. QED
      BY <1>3, <1>9, <3>1, <3>2
  <2>3. QED
    BY <1>2, <1>5, <1>9, <2>1, <2>2
<1>11. Walks(R, 20)
  BY <1>9, <1>10 DEF Walks
<1>12. Walk(20, off) = (CHOOSE P : Walks(P, 20))[20]
  BY DEF Walk, Walks, Attends
<1>13. PICK P : P = (CHOOSE S : Walks(S, 20))
  OBVIOUS
<1>14. Walks(P, 20)
  BY <1>11, <1>13
<1>15. /\ P[20] = <<at[20]>> \o P[20 + Align(at[20].len)]
       /\ P[off] = << >>
  <2>1. P = [o \in 20 .. off + 3 |->
               IF Attends(o) THEN <<at[o]>> \o P[o + Align(at[o].len)] ELSE << >>]
    BY <1>14 DEF Walks
  <2>2. PICK F : F = [o \in 20 .. off + 3 |->
               IF Attends(o) THEN <<at[o]>> \o P[o + Align(at[o].len)] ELSE << >>]
    OBVIOUS
  <2>3. 20 \in 20 .. off + 3 /\ off \in 20 .. off + 3
    BY <1>1
  <2>4. QED
    BY <1>2, <2>1, <2>2, <2>3
<1>16. <<at[20]>> \o << >> = <<at[20]>>
  OBVIOUS
<1>17. QED
  BY <1>3, <1>12, <1>13, <1>15, <1>16

\* A value packed behind others is said after them.
LEMMA PutLays ==
  ASSUME PackInv, NEW type \in Nat, NEW payload \in {"u32", "string"}, NEW size \in Nat,
         NEW v \in Value, Put(type, payload, size, v),
         NEW from \in Nat, NEW T, NEW said \in Seq(T), LaidOut(from, said)
  PROVE  /\ LaidOut(from, Append(said, [type |-> type, payload |-> payload, value |-> v]))'
         /\ {o \in DOMAIN at' : o < from} = {o \in DOMAIN at : o < from}
<1>1. PICK n \in Nat : n = Len(said)
  OBVIOUS
<1>2. PICK x : x = [type |-> type, payload |-> payload, value |-> v]
  OBVIOUS
<1>3. PICK more : more = Append(said, x)
  OBVIOUS
<1>4. /\ DOMAIN said = 1 .. n /\ DOMAIN more = 1 .. n + 1 /\ Len(more) = n + 1
      /\ \A i \in 1 .. n : more[i] = said[i]
      /\ more[n + 1] = x
  BY <1>1, <1>3
<1>5. PICK place \in [1 .. n + 1 -> DOMAIN at \cup {off}] :
        /\ place[1] = from /\ place[n + 1] = off
        /\ {o \in DOMAIN at : o >= from} = {place[i] : i \in 1 .. n}
        /\ \A i \in 1 .. n :
             /\ Says(at[place[i]]) = said[i] /\ at[place[i]].len >= NlaHdrLen
             /\ place[i + 1] = place[i] + Align(at[place[i]].len)
  <2>1. PICK place \in [1 .. Len(said) + 1 -> DOMAIN at \cup {off}] :
        /\ place[1] = from /\ place[Len(said) + 1] = off
        /\ {o \in DOMAIN at : o >= from} = {place[i] : i \in DOMAIN said}
        /\ \A i \in DOMAIN said :
             /\ Says(at[place[i]]) = said[i] /\ at[place[i]].len >= NlaHdrLen
             /\ place[i + 1] = place[i] + Align(at[place[i]].len)
    BY DEF LaidOut
  <2>2. place \in [1 .. n + 1 -> DOMAIN at \cup {off}] /\ place[n + 1] = off
    BY <1>1, <2>1
  <2>3. {o \in DOMAIN at : o >= from} = {place[i] : i \in 1 .. n}
    BY <1>4, <2>1
  <2>4. QED
    BY <1>4, <2>1, <2>2, <2>3
<1>6. PICK a : a = [type |-> type, len |-> NlaHdrLen + size, payload |-> payload, value |-> v]
  OBVIOUS
<1>7. Says(a) = x /\ a.len = 4 + size
  BY <1>2, <1>6 DEF Says, NlaHdrLen
<1>8. /\ off' = off + Align(a.len)
      /\ at' = [o \in DOMAIN at \cup {off} |-> IF o = off THEN a ELSE at[o]]
  BY <1>6, <1>7 DEF Put, NlaHdrLen
<1>9. /\ off \in Nat /\ off \notin DOMAIN at
      /\ \A o \in DOMAIN at : o \in Nat /\ o < off
  BY DEF PackInv, TypeOK, PackingOK, NlaHdrLen
<1>10. /\ DOMAIN at' = DOMAIN at \cup {off} /\ at'[off] = a
       /\ \A o \in DOMAIN at : at'[o] = at[o]
  BY <1>8, <1>9
<1>11. \A i \in 1 .. n : place[i] \in DOMAIN at
  <2>1. \A i \in 1 .. n : place[i] \in {o \in DOMAIN at : o >= from}
    BY <1>5
  <2>2. QED
    BY <2>1
<1>12. from <= off
  BY <1>5, <1>9
<1>13. PICK longer : longer = [i \in 1 .. n + 2 |-> IF i = n + 2 THEN off' ELSE place[i]]
  OBVIOUS
<1>14. /\ DOMAIN longer = 1 .. n + 2 /\ longer[n + 2] = off'
       /\ \A i \in 1 .. n + 1 : longer[i] = place[i] /\ i # n + 2
  BY <1>13
<1>15. longer \in [1 .. Len(more) + 1 -> DOMAIN at' \cup {off'}]
  <2>1. Len(more) + 1 = n + 2
    BY <1>4
  <2>2. \A i \in 1 .. n + 2 : longer[i] \in DOMAIN at' \cup {off'}
    <3>1. ASSUME NEW i \in 1 .. n + 2, i # n + 2 PROVE longer[i] \in DOMAIN at'
      <4>1. i \in 1 .. n + 1
        BY <3>1
      <4>2. QED
        BY <1>5, <1>10, <1>14, <4>1
    <3>2. QED
      BY <1>14, <3>1
  <2>3. QED
    BY <1>13, <2>1, <2>2
<1>16. longer[1] = from /\ longer[Len(more) + 1] = off'
  BY <1>4, <1>5, <1>14
<1>17. {o \in DOMAIN at' : o >= from} = {longer[i] : i \in DOMAIN more}
  <2>1. {o \in DOMAIN at' : o >= from} = {o \in DOMAIN at : o >= from} \cup {off}
    BY <1>9, <1>10, <1>12
  <2>2. {longer[i] : i \in 1 .. n + 1} = {place[i] : i \in 1 .. n} \cup {off}
    <3>1. {longer[i] : i \in 1 .. n + 1} = {place[i] : i \in 1 .. n + 1}
      BY <1>14
    <3>2. \A i \in 1 .. n + 1 : i \in 1 .. n \/ i = n + 1
      OBVIOUS
    <3>3. n + 1 \in 1 .. n + 1 /\ \A i \in 1 .. n : i \in 1 .. n + 1
      OBVIOUS
    <3>4. QED
      BY <1>5, <3>1, <3>2, <3>3
  <2>3. QED
    BY <1>4, <1>5, <2>1, <2>2
<1>18. ASSUME NEW i \in DOMAIN more
       PROVE  /\ Says(at'[longer[i]]) = more[i] /\ at'[longer[i]].len >= NlaHdrLen
              /\ longer[i + 1] = longer[i] + Align(at'[longer[i]].len)
  <2>1. CASE i = n + 1
    <3>1. longer[i] = off /\ at'[longer[i]] = a /\ more[i] = x /\ longer[i + 1] = off'
      BY <1>4, <1>5, <1>10, <1>14, <2>1
    <3>2. a.len >= NlaHdrLen
      BY <1>7 DEF NlaHdrLen
    <3>3. QED
      BY <1>7, <1>8, <3>1, <3>2
  <2>2. CASE i \in 1 .. n
    <3>1. i \in 1 .. n + 1 /\ i + 1 \in 1 .. n + 1
      BY <2>2
    <3>2. longer[i] = place[i] /\ longer[i + 1] = place[i + 1]
      BY <1>14, <3>1
    <3>3. at'[longer[i]] = at[place[i]] /\ more[i] = said[i]
      BY <1>4, <1>10, <1>11, <2>2, <3>2
    <3>4. QED
      BY <1>5, <2>2, <3>2, <3>3
  <2>3. QED
    BY <1>4, <2>1, <2>2
<1>19. LaidOut(from, more)'
  BY <1>15, <1>16, <1>17, <1>18 DEF LaidOut
<1>20. {o \in DOMAIN at' : o < from} = {o \in DOMAIN at : o < from}
  BY <1>9, <1>10, <1>12
<1>21. QED
  BY <1>2, <1>3, <1>19, <1>20

\* What lies behind an offset does not change with a header before it.
LEMMA SameBehind ==
  ASSUME NEW from \in Nat, NEW said, LaidOut(from, said), off' = off,
         DOMAIN at \subseteq Nat,
         DOMAIN at' = DOMAIN at, \A o \in DOMAIN at : o >= from => at'[o] = at[o]
  PROVE  LaidOut(from, said)'
<1>1. PICK place \in [1 .. Len(said) + 1 -> DOMAIN at \cup {off}] :
        /\ place[1] = from /\ place[Len(said) + 1] = off
        /\ {o \in DOMAIN at : o >= from} = {place[i] : i \in DOMAIN said}
        /\ \A i \in DOMAIN said :
             /\ Says(at[place[i]]) = said[i] /\ at[place[i]].len >= NlaHdrLen
             /\ place[i + 1] = place[i] + Align(at[place[i]].len)
  BY DEF LaidOut
<1>2. \A i \in DOMAIN said : at'[place[i]] = at[place[i]]
  <2>1. \A i \in DOMAIN said : place[i] \in {o \in DOMAIN at : o >= from}
    BY <1>1
  <2>2. QED
    BY <2>1
<1>3. /\ place \in [1 .. Len(said) + 1 -> DOMAIN at' \cup {off'}] /\ place[Len(said) + 1] = off'
      /\ {o \in DOMAIN at' : o >= from} = {place[i] : i \in DOMAIN said}
  BY <1>1
<1>4. \A i \in DOMAIN said :
        /\ Says(at'[place[i]]) = said[i] /\ at'[place[i]].len >= NlaHdrLen
        /\ place[i + 1] = place[i] + Align(at'[place[i]].len)
  BY <1>1, <1>2
<1>5. QED
  BY <1>1, <1>3, <1>4 DEF LaidOut

-----------------------------------------------------------------------------
(* ReadingOK is inductive.                                                 *)

\* What the proofs below know of the inputs.
LEMMA Inputs ==
  ASSUME PackInv
  PROVE  /\ args \in Seq([key : Key, value : Value]) /\ next \in Nat \ {0} /\ off \in Nat
         /\ NoId \notin Nat /\ {"ifname", "ifindex"} \subseteq Key
         /\ \A key \in Key : IdOf(key) \in (Nat \ {0}) \cup {NoId}
BY RequestAssumption DEF PackInv, TypeOK, IdOf

\* Packing one more argument says it behind those before.
LEMMA PutArgReads ==
  ASSUME ReadInv, PutArg
  PROVE  ReadingOK'
<1>1. /\ UNCHANGED <<request, args, hasSet, dump, nested, result>> /\ next' = next + 1
      /\ request = "generic" /\ result = "building" /\ next <= Len(args)
  BY DEF PutArg, AtArg, Packing, call
<1>2. /\ args \in Seq([key : Key, value : Value]) /\ next \in Nat \ {0}
      /\ \A key \in Key : IdOf(key) \in (Nat \ {0}) \cup {NoId}
  BY Inputs DEF ReadInv
<1>3. next \in DOMAIN args
  BY <1>1, <1>2
<1>4. Arg \in [key : Key, value : Value] /\ Arg = args[next]
  BY <1>2, <1>3, Entry, Zenon DEF Arg
<1>5. Arg.value \in Value /\ IdOf(Arg.key) \in Nat /\ Arg.value.len + 1 \in Nat
  <2>1. Arg.value \in Value /\ IdOf(Arg.key) \in Nat
    BY <1>2, <1>4 DEF PutArg
  <2>2. QED
    BY <2>1 DEF Value
<1>6. \E size \in Nat :
        Put(IdOf(Arg.key), IF IsU32(Arg.value) THEN "u32" ELSE "string", size, Arg.value)
  <2>1. CASE IsU32(Arg.value)
    <3>1. Put(IdOf(Arg.key), "u32", 4, Arg.value)
      BY <2>1 DEF PutArg, PutU32
    <3>2. QED
      BY <2>1, <3>1
  <2>2. CASE ~IsU32(Arg.value)
    <3>1. Put(IdOf(Arg.key), "string", Arg.value.len + 1, Arg.value)
      BY <2>2 DEF PutArg, PutString
    <3>2. QED
      BY <1>5, <2>2, <3>1
  <2>3. QED
    BY <2>1, <2>2
<1>7. PICK said : said = SoFar
  OBVIOUS
<1>8. said = [i \in 1 .. next - 1 |-> Saying(args[i])]
  BY <1>1, <1>7 DEF SoFar
<1>9. PICK T : T = {said[i] : i \in 1 .. next - 1}
  OBVIOUS
<1>10. said \in Seq(T) /\ Len(said) = next - 1 /\ DOMAIN said = 1 .. next - 1
  BY <1>2, <1>8, <1>9
<1>11. LaidOut(20, said)
  BY <1>1, <1>7 DEF ReadInv, ReadingOK, Begun, Body, FirstOff
<1>12. PICK payload \in {"u32", "string"} : payload = IF IsU32(Arg.value) THEN "u32" ELSE "string"
  OBVIOUS
<1>13. PICK x : x = [type |-> IdOf(Arg.key), payload |-> payload, value |-> Arg.value]
  OBVIOUS
<1>14. LaidOut(20, Append(said, x))'
  <2>1. PICK type \in Nat, v \in Value : type = IdOf(Arg.key) /\ v = Arg.value
    BY <1>5
  <2>2. PICK size \in Nat : Put(type, payload, size, v)
    BY <1>6, <1>12, <2>1
  <2>3. LaidOut(20, Append(said, [type |-> type, payload |-> payload, value |-> v]))'
    BY <1>10, <1>11, <2>2, PutLays DEF ReadInv
  <2>4. QED
    BY <1>13, <2>1, <2>3
<1>15. x = Saying(args[next])
  BY <1>4, <1>12, <1>13 DEF Saying, Asked
<1>16. Append(said, x) = [i \in 1 .. next |-> Saying(args[i])]
  <2>1. Append(said, x) = [i \in 1 .. next |-> IF i = next THEN x ELSE said[i]]
    <3>1. PICK n \in Nat : n = next - 1 /\ n + 1 = next
      BY <1>2
    <3>2. said \in Seq(T) /\ Len(said) = n
      BY <1>10, <3>1
    <3>3. PICK more : more = Append(said, x)
      OBVIOUS
    <3>4. /\ DOMAIN more = 1 .. n + 1
          /\ \A i \in 1 .. n : more[i] = said[i]
          /\ more[n + 1] = x
      BY <3>2, <3>3
    <3>5. more = [i \in 1 .. n + 1 |-> IF i = n + 1 THEN x ELSE said[i]]
      <4>1. more = [i \in 1 .. n + 1 |-> more[i]]
        <5>1. more \in Seq(T \cup {x}) /\ Len(more) = n + 1
          BY <3>2, <3>3
        <5>2. QED
          BY <5>1
      <4>2. \A i \in 1 .. n + 1 : i \in 1 .. n \/ i = n + 1
        OBVIOUS
      <4>3. \A i \in 1 .. n + 1 : more[i] = IF i = n + 1 THEN x ELSE said[i]
        BY <3>4, <4>2
      <4>4. QED
        BY <4>1, <4>3
    <3>6. QED
      BY <3>1, <3>3, <3>5
  <2>2. \A i \in 1 .. next : (IF i = next THEN x ELSE said[i]) = Saying(args[i])
    BY <1>2, <1>8, <1>15
  <2>3. QED
    BY <2>1, <2>2
<1>17. SoFar' = Append(said, x)
  <2>1. \A i : Saying(args[i])' = Saying(args[i])
    BY <1>1 DEF Saying, Asked, IdOf, IsU32
  <2>2. next' - 1 = next
    BY <1>1, <1>2
  <2>3. SoFar' = [i \in 1 .. next |-> Saying(args[i])']
    BY <1>1, <2>2 DEF SoFar
  <2>4. QED
    BY <1>16, <2>1, <2>3
<1>18. LaidOut(Body, SoFar)'
  BY <1>1, <1>14, <1>17 DEF Body, FirstOff
<1>19. QED
  BY <1>1, <1>2, <1>18 DEF ReadInv, ReadingOK

\* Packing the interface says the one selected.
LEMMA PutInterfaceReads ==
  ASSUME ReadInv, PutName \/ PutIndex
  PROVE  ReadingOK'
<1>1. /\ UNCHANGED <<request, args, hasSet, dump, nested, result>> /\ next' = 2 /\ next = 1
      /\ request = "get" /\ result = "building" /\ nested # NoId
  BY DEF PutName, PutIndex, InHeader, Getting, call
<1>2. /\ args \in Seq([key : Key, value : Value])
      /\ NoId \notin Nat /\ {"ifname", "ifindex"} \subseteq Key
      /\ \A key \in Key : IdOf(key) \in (Nat \ {0}) \cup {NoId}
  BY Inputs DEF ReadInv
<1>3. HasIds
  BY <1>1 DEF ReadInv, PackInv, PackingOK
<1>4. \E type \in Nat, payload \in {"u32", "string"}, size \in Nat, v \in Value :
        /\ Put(type, payload, size, v)
        /\ Selected = <<[type |-> type, payload |-> payload, value |-> v]>>
  <2>1. CASE PutName
    <3>1. Lookup("ifname") \in Value /\ ByName
      BY <1>2, <2>1, LookupFinds DEF PutName, ByName
    <3>2. Lookup("ifname").len + 1 \in Nat
      BY <3>1 DEF Value
    <3>3. IdOf("ifname") \in Nat
      BY <1>2, <1>3 DEF HasIds
    <3>4. Selected = <<[type |-> IdOf("ifname"), payload |-> "string", value |-> Lookup("ifname")]>>
      BY <3>1 DEF Selected, Asked
    <3>5. QED
      BY <2>1, <3>1, <3>2, <3>3, <3>4 DEF PutName, PutString
  <2>2. CASE PutIndex
    <3>1. Lookup("ifindex") \in Value /\ ~ByName /\ ByIndex
      BY <1>2, <2>2, LookupFinds DEF PutIndex, ByIndex
    <3>2. IdOf("ifindex") \in Nat
      BY <1>2, <1>3 DEF HasIds
    <3>3. Selected = <<[type |-> IdOf("ifindex"), payload |-> "u32", value |-> Lookup("ifindex")]>>
      BY <3>1 DEF Selected, Asked
    <3>4. QED
      BY <2>2, <3>1, <3>2, <3>3 DEF PutIndex, PutU32
  <2>3. QED
    BY <2>1, <2>2
<1>5. PICK type \in Nat, payload \in {"u32", "string"}, size \in Nat, v \in Value :
        /\ Put(type, payload, size, v)
        /\ Selected = <<[type |-> type, payload |-> payload, value |-> v]>>
  BY <1>4
<1>6. LaidOut(24, << >>)
  BY <1>1 DEF ReadInv, ReadingOK, Begun, Body, SoFar, FirstOff, NlaHdrLen
<1>7. /\ LaidOut(24, Append(<< >>, [type |-> type, payload |-> payload, value |-> v]))'
      /\ {o \in DOMAIN at' : o < 24} = {o \in DOMAIN at : o < 24}
  <2>6. 24 \in Nat
    OBVIOUS
  <2>7. << >> \in Seq({})
    OBVIOUS
  <2>1. PICK from \in Nat, said \in Seq({}) : from = 24 /\ said = << >>
    BY <2>6, <2>7, Zenon
  <2>2. PackInv /\ LaidOut(from, said)
    BY <1>6, <2>1 DEF ReadInv
  <2>3. Put(type, payload, size, v)
    BY <1>5
  <2>4. /\ LaidOut(from, Append(said, [type |-> type, payload |-> payload, value |-> v]))'
        /\ {o \in DOMAIN at' : o < from} = {o \in DOMAIN at : o < from}
    BY <2>2, <2>3, PutLays
  <2>5. QED
    BY <2>1, <2>4
<1>8. Append(<< >>, [type |-> type, payload |-> payload, value |-> v]) = Selected
  BY <1>5
<1>9. Selected' = Selected
  BY <1>1 DEF Selected, ByName, ByIndex, Given, Lookup, Asked, IdOf
<1>10. LaidOut(Body, SoFar)'
  <2>1. Body' = 24 /\ SoFar' = Selected
    BY <1>1, <1>9 DEF Body, SoFar, FirstOff, NlaHdrLen
  <2>2. QED
    BY <1>7, <1>8, <2>1
<1>11. /\ 20 \in DOMAIN at' /\ at'[20] = at[20] /\ at[20].type = HeaderId
       /\ {o \in DOMAIN at' : o < 24} = {20}
  <2>1. /\ 20 \in DOMAIN at /\ at[20].type = HeaderId /\ {o \in DOMAIN at : o < 24} = {20}
    BY <1>1 DEF ReadInv, ReadingOK, Begun, Body, FirstOff, NlaHdrLen
  <2>2. \A o \in DOMAIN at : o \in DOMAIN at' /\ at'[o] = at[o]
    BY <1>1, <1>5, PutKeeps DEF ReadInv
  <2>3. QED
    BY <1>7, <2>1, <2>2
<1>12. Begun /\ Begun'
  BY <1>1 DEF Begun
<1>13. dump' <=> Selected' = << >>
  BY <1>1, <1>9 DEF ReadInv, ReadingOK
<1>14. nested' = FirstOff
  BY <1>1 DEF ReadInv, ReadingOK
<1>15. QED
  BY <1>1, <1>10, <1>11, <1>12, <1>13, <1>14 DEF ReadingOK, Body, FirstOff, NlaHdrLen

\* A HEADER just opened has nothing in it.
LEMMA BeginReads ==
  ASSUME ReadInv, BeginHeader
  PROVE  ReadingOK'
<1>1. /\ UNCHANGED <<request, args, hasSet, dump, next, result>>
      /\ request = "get" /\ result = "building" /\ nested = NoId
      /\ off = 20 /\ nested' = 20 /\ off' = 24 /\ NoId \notin Nat
  BY RequestAssumption DEF ReadInv, BeginHeader, Getting, call, PackInv, PackingOK, FirstOff,
                           NlaHdrLen
<1>2. /\ DOMAIN at' = {20}
      /\ at'[20] = [type |-> 1, len |-> 0, payload |-> "nest", value |-> NoId]
  BY <1>1 DEF BeginHeader, HeaderId
<1>3. next = 1
  BY <1>1 DEF ReadInv, ReadingOK, Begun
<1>4. Selected' = Selected
  BY <1>1 DEF Selected, ByName, ByIndex, Given, Lookup, Asked, IdOf
<1>5. LaidOut(24, << >>)'
  <2>1. [i \in 1 .. 1 |-> 24] \in [1 .. Len(<< >>) + 1 -> DOMAIN at' \cup {off'}]
    BY <1>1
  <2>2. {o \in DOMAIN at' : o >= 24} = {}
    BY <1>2
  <2>3. PICK place : place = [i \in 1 .. 1 |-> 24]
    OBVIOUS
  <2>4. place[1] = 24 /\ place[Len(<< >>) + 1] = off'
    BY <1>1, <2>3
  <2>5. QED
    BY <2>1, <2>2, <2>3, <2>4 DEF LaidOut
<1>6. LaidOut(Body, SoFar)'
  BY <1>1, <1>3, <1>5 DEF Body, SoFar, FirstOff, NlaHdrLen
<1>7. QED
  BY <1>1, <1>2, <1>3, <1>4, <1>6
     DEF ReadInv, ReadingOK, Begun, Body, FirstOff, NlaHdrLen, HeaderId

\* Closing the HEADER leaves what is in it.
LEMMA EndReads ==
  ASSUME ReadInv, EndHeader
  PROVE  ReadingOK'
<1>1. /\ UNCHANGED <<request, args, hasSet, dump, off, next>>
      /\ request = "get" /\ result = "building" /\ nested # NoId /\ nested = 20
      /\ nested' = NoId /\ result' = "sent" /\ (next = 2 \/ dump)
  BY DEF ReadInv, ReadingOK, EndHeader, Getting, End, call, FirstOff
<1>2. /\ 20 \in DOMAIN at /\ at[20].type = HeaderId /\ at[20] \in Attr
      /\ {o \in DOMAIN at : o < 24} = {20}
      /\ LaidOut(24, SoFar) /\ off \in Nat /\ DOMAIN at \subseteq Nat
  BY <1>1 DEF ReadInv, ReadingOK, Begun, Body, FirstOff, NlaHdrLen, PackInv, TypeOK
<1>3. at' = [at EXCEPT ![20].len = off - 20]
  BY <1>1 DEF EndHeader
<1>4. /\ DOMAIN at' = DOMAIN at /\ at'[20].type = HeaderId /\ at'[20].len = off - 20
      /\ \A o \in DOMAIN at : o >= 24 => at'[o] = at[o]
  <2>1. at'[20] = [at[20] EXCEPT !.len = off - 20]
    BY <1>2, <1>3
  <2>2. QED
    BY <1>2, <1>3, <2>1 DEF Attr
<1>5. PICK said : said = SoFar
  OBVIOUS
<1>6. LaidOut(24, said)'
  BY <1>1, <1>2, <1>4, <1>5, SameBehind
<1>7. Selected' = Selected
  BY <1>1 DEF Selected, ByName, ByIndex, Given, Lookup, Asked, IdOf
<1>8. SoFar' = said /\ Body' = 24
  BY <1>1, <1>5, <1>7 DEF SoFar, Body, FirstOff, NlaHdrLen
<1>9. LaidOut(Body, SoFar)'
  BY <1>6, <1>8
<1>10. 20 + at'[20].len = off
  BY <1>2, <1>4
<1>11. QED
  BY <1>1, <1>2, <1>4, <1>7, <1>9, <1>10
     DEF ReadInv, ReadingOK, Begun, Body, FirstOff, NlaHdrLen

\* The steps that end a call without a message pack nothing.
LEMMA UnsentReads ==
  ASSUME ReadInv,
         \/ GetRefused \/ BadIndex \/ NoRoomInHeader \/ NoSet \/ UnknownKey
         \/ NoRoomForArg \/ SendGeneric \/ UNCHANGED vars
  PROVE  ReadingOK'
<1>1. /\ UNCHANGED <<request, args, hasSet, dump, off, at, nested, next>>
      /\ result' \in {"text", "error", result} \/ SendGeneric
      /\ result = "building" \/ result' = result
  BY DEF GetRefused, BadIndex, NoRoomInHeader, NoSet, UnknownKey, NoRoomForArg,
         SendGeneric, End, Unsent, vars, call, Getting, InHeader, Packing, AtArg
<1>2. SendGeneric => /\ request = "generic" /\ result = "building" /\ result' = "sent"
                     /\ next = Len(args) + 1
  <2>1. SUFFICES ASSUME SendGeneric PROVE next = Len(args) + 1
    BY DEF SendGeneric, Packing, End
  <2>2. args \in Seq([key : Key, value : Value]) /\ next \in Nat \ {0} /\ Len(args) \in Nat
    BY Inputs DEF ReadInv
  <2>3. next <= Len(args) + 1 /\ (dump => args = << >>)
    BY <2>1 DEF ReadInv, ReadingOK, SendGeneric, Packing
  <2>4. dump \/ next > Len(args)
    BY <2>1 DEF SendGeneric
  <2>5. QED
    BY <2>2, <2>3, <2>4
<1>3. Selected' = Selected /\ SoFar' = SoFar /\ Body' = Body
  BY <1>1 DEF Selected, ByName, ByIndex, Given, Lookup, Asked, IdOf, SoFar, Saying, Body, IsU32
<1>4. PICK said, from : said = SoFar /\ from = Body
  OBVIOUS
<1>5. LaidOut(from, said) => LaidOut(from, said)'
  BY <1>1 DEF LaidOut
<1>6. LaidOut(Body, SoFar) => LaidOut(Body, SoFar)'
  BY <1>3, <1>4, <1>5
<1>7. Begun' /\ result' \in {"building", "sent"} => Begun /\ result \in {"building", "sent"}
  BY <1>1, <1>2 DEF Begun
<1>8. ~Begun' => ~Begun
  BY <1>1, <1>2 DEF Begun
<1>9. QED
  BY <1>1, <1>2, <1>3, <1>6, <1>7, <1>8 DEF ReadInv, ReadingOK

\* Before the first step there is nothing to read.
LEMMA InitRead == Init => ReadInv
<1>1. SUFFICES ASSUME Init PROVE ReadingOK
  BY InitPacked DEF ReadInv
<1>2. /\ off = 20 /\ at = << >> /\ nested = NoId /\ next = 1 /\ result = "building"
      /\ request \in {"get", "generic"} /\ args \in ArgLists
      /\ args \in Seq([key : Key, value : Value])
      /\ dump = IF request = "get" THEN ~Given("ifname") /\ ~Given("ifindex") ELSE args = << >>
  BY <1>1, RequestAssumption DEF Init, FirstOff
<1>3. Selected = << >> <=> ~Given("ifname") /\ ~Given("ifindex")
  BY DEF Selected, ByName, ByIndex
<1>4. dump <=> IF request = "get" THEN Selected = << >> ELSE args = << >>
  BY <1>2, <1>3
<1>5. request = "generic" => LaidOut(Body, SoFar)
  <2>1. SUFFICES ASSUME request = "generic" PROVE LaidOut(Body, SoFar)
    OBVIOUS
  <2>2. SoFar = << >> /\ Body = 20
    BY <1>2, <2>1 DEF SoFar, Body, FirstOff
  <2>3. PICK place : place = [i \in 1 .. 1 |-> 20]
    OBVIOUS
  <2>4. /\ place \in [1 .. Len(<< >>) + 1 -> DOMAIN at \cup {off}]
        /\ place[1] = 20 /\ place[Len(<< >>) + 1] = off
    BY <1>2, <2>3
  <2>5. DOMAIN at = {}
    BY <1>2
  <2>6. {o \in DOMAIN at : o >= 20} = {place[i] : i \in DOMAIN << >>}
    BY <2>5
  <2>7. LaidOut(20, << >>)
    BY <2>4, <2>6 DEF LaidOut
  <2>8. QED
    BY <2>2, <2>7
<1>6. request # "generic" => ~Begun
  BY <1>2 DEF Begun
<1>7. next <= Len(args) + 1
  BY <1>2
<1>8. QED
  BY <1>2, <1>4, <1>5, <1>6, <1>7 DEF ReadingOK

\* The kernel reads in a sent request what the user gave and nothing else,
\* whatever the arguments, the lengths of their values and the sizes of the
\* buffers: no value is lost in padding, none is found twice, and the HEADER
\* ends where the message does.
LEMMA ReadInvReads == ReadInv => KernelReads
<1>1. SUFFICES ASSUME ReadInv, result = "sent"
               PROVE  LET top == Walk(FirstOff, off)
  IN  IF request = "generic"
      THEN /\ [i \in DOMAIN top |-> Says(top[i])] =
                [i \in DOMAIN args |-> Asked(args[i].key, IsU32(args[i].value), args[i].value)]
           /\ dump <=> top = << >>
      ELSE /\ Len(top) = 1 /\ top[1].type = HeaderId /\ FirstOff + top[1].len = off
           /\ LET inner == Walk(FirstOff + NlaHdrLen, FirstOff + top[1].len)
              IN  /\ [i \in DOMAIN inner |-> Says(inner[i])] = Selected
                  /\ dump <=> inner = << >>
  BY DEF KernelReads
<1>2. PackInv /\ off \in Nat /\ args \in Seq([key : Key, value : Value]) /\ next \in Nat
  BY <1>1, Inputs DEF ReadInv
<1>3. LaidOut(Body, SoFar)
  BY <1>1 DEF ReadInv, ReadingOK, Begun
<1>4. CASE request = "generic"
  <2>1. PICK said : said = [i \in 1 .. Len(args) |-> Saying(args[i])]
    OBVIOUS
  <2>2. next = Len(args) + 1 /\ (dump <=> args = << >>)
    BY <1>1, <1>4 DEF ReadInv, ReadingOK
  <2>3. LaidOut(20, said)
    <3>1. next - 1 = Len(args)
      BY <1>2, <2>2
    <3>2. SoFar = said /\ Body = 20
      BY <1>4, <2>1, <3>1 DEF SoFar, Body, FirstOff
    <3>3. QED
      BY <1>3, <3>2
  <2>4. PICK T : T = {said[i] : i \in 1 .. Len(args)}
    OBVIOUS
  <2>5. said \in Seq(T) /\ Len(said) = Len(args)
    BY <1>2, <2>1, <2>4
  <2>6. PICK w : w = Walk(20, off)
    OBVIOUS
  <2>7. /\ w \in Seq(Attr) /\ Len(w) = Len(said)
        /\ [i \in DOMAIN w |-> Says(w[i])] = said
    BY <1>2, <2>3, <2>5, <2>6, ReadBack
  <2>8. said = [i \in DOMAIN args |-> Asked(args[i].key, IsU32(args[i].value), args[i].value)]
    BY <1>2, <2>1 DEF Saying
  <2>9. w = << >> <=> args = << >>
    BY <1>2, <2>5, <2>7
  <2>10. QED
    BY <1>4, <2>2, <2>6, <2>7, <2>8, <2>9 DEF FirstOff
<1>5. CASE request # "generic"
  <2>1. /\ request = "get" /\ 20 \in DOMAIN at /\ at[20].type = HeaderId
        /\ {o \in DOMAIN at : o < 24} = {20} /\ 20 + at[20].len = off
        /\ (next = 2 \/ dump) /\ next \in {1, 2}
        /\ dump <=> Selected = << >>
    BY <1>1, <1>5 DEF ReadInv, ReadingOK, PackInv, TypeOK, Begun, Body, FirstOff, NlaHdrLen
  <2>2. SoFar = Selected /\ Body = 24
    BY <2>1 DEF SoFar, Body, FirstOff, NlaHdrLen
  <2>3. LaidOut(24, Selected)
    BY <1>3, <2>2
  <2>4. Selected \in Seq({Asked("ifname", FALSE, Lookup("ifname")),
                          Asked("ifindex", TRUE, Lookup("ifindex"))})
    <3>1. PICK a, b : /\ a = Asked("ifname", FALSE, Lookup("ifname"))
                      /\ b = Asked("ifindex", TRUE, Lookup("ifindex"))
      OBVIOUS
    <3>2. Selected \in {<<a>>, <<b>>, << >>}
      BY <3>1 DEF Selected
    <3>3. <<a>> \in Seq({a, b}) /\ <<b>> \in Seq({a, b}) /\ << >> \in Seq({a, b})
      OBVIOUS
    <3>4. QED
      BY <3>1, <3>2, <3>3
  <2>5. PICK inner : inner = Walk(24, off)
    OBVIOUS
  <2>6. /\ inner \in Seq(Attr) /\ Len(inner) = Len(Selected)
        /\ [i \in DOMAIN inner |-> Says(inner[i])] = Selected
        /\ \E R : Walks(R, 24)
    BY <1>2, <2>3, <2>4, <2>5, ReadBack
  <2>7. inner = << >> <=> Selected = << >>
    BY <2>4, <2>6
  <2>8. Walk(20, off) = <<at[20]>>
    BY <1>2, <2>1, <2>6, HeaderAlone
  <2>9. PICK top : top = Walk(20, off)
    OBVIOUS
  <2>10. Len(top) = 1 /\ top[1] = at[20]
    BY <2>8, <2>9
  <2>11. FirstOff = 20 /\ FirstOff + NlaHdrLen = 24 /\ FirstOff + top[1].len = off
    BY <2>1, <2>10 DEF FirstOff, NlaHdrLen
  <2>12. QED
    BY <1>5, <2>1, <2>5, <2>6, <2>7, <2>9, <2>10, <2>11
<1>6. QED
  BY <1>4, <1>5

(***************************************************************************)
(* The whole call: AttrRequest under Invoke.                               *)
(***************************************************************************)

\* No step breaks what the receiver will read.
LEMMA ReadStep == ReadInv /\ [Next]_vars => ReadInv'
<1>1. SUFFICES ASSUME ReadInv, [Next]_vars PROVE ReadingOK'
  BY PackedStep DEF ReadInv
<1>2. QED
  BY <1>1, PutArgReads, PutInterfaceReads, BeginReads, EndReads, UnsentReads DEF Next

\* A stack that is not empty has a top.
LEMMA HasTop ==
  ASSUME NEW s, IsStack(s), s # << >>
  PROVE  Len(s) \in Nat \ {0} /\ DOMAIN s = 1 .. Len(s) /\ Head(s) = s[1]
<1>1. PICK T : s \in Seq(T)
  BY DEF IsStack
<1>2. QED
  BY <1>1

\* What a step leaves of a stack: t without its top, a with x for its top, b
\* with y on that.
Leaves(s, x, y, t, a, b) ==
  /\ DOMAIN x = {"left", "set", "depth"} /\ DOMAIN y = {"left", "set", "depth"}
  /\ t = Tail(s) /\ a = <<x>> \o Tail(s) /\ b = <<y, x>> \o Tail(s)

\* A stack with its top replaced, and another frame put on it.
LEMMA Stacked ==
  ASSUME NEW s, IsStack(s), s # << >>,
         NEW x, NEW y, NEW t, NEW a, NEW b, Leaves(s, x, y, t, a, b)
  PROVE  /\ IsStack(t) /\ Len(t) = Len(s) - 1
         /\ \A i \in 1 .. Len(s) - 1 : t[i] = s[i + 1]
         /\ IsStack(a) /\ Len(a) = Len(s) /\ a[1] = x
         /\ \A i \in 2 .. Len(s) : a[i] = s[i]
         /\ IsStack(b) /\ Len(b) = Len(s) + 1 /\ b[1] = y /\ b[2] = x
         /\ \A i \in 3 .. Len(s) + 1 : b[i] = s[i - 1]
<1>1. PICK T : T = {s[i] : i \in DOMAIN s} /\ s \in Seq(T)
  BY DEF IsStack, ToSet
<1>2. PICK n \in Nat : n = Len(s) - 1
  BY <1>1
<1>3. Len(s) = n + 1 /\ DOMAIN s = 1 .. n + 1 /\ Head(s) = s[1]
  BY <1>1, <1>2
<1>4. /\ t \in Seq(T) /\ Len(t) = n /\ DOMAIN t = 1 .. n
      /\ \A i \in 1 .. n : t[i] = s[i + 1]
  BY <1>1, <1>3 DEF Leaves
<1>5. /\ a = <<x>> \o t /\ b = <<y, x>> \o t
      /\ DOMAIN x = {"left", "set", "depth"} /\ DOMAIN y = {"left", "set", "depth"}
  BY DEF Leaves
<1>6. t \in Seq(T \cup {x, y}) /\ <<x>> \in Seq(T \cup {x, y}) /\ <<y, x>> \in Seq(T \cup {x, y})
  BY <1>4
<1>7. /\ a \in Seq(T \cup {x, y}) /\ Len(a) = n + 1 /\ DOMAIN a = 1 .. n + 1
      /\ a[1] = x /\ \A i \in 1 .. n : a[i + 1] = t[i]
  BY <1>4, <1>5, <1>6
<1>8. /\ b \in Seq(T \cup {x, y}) /\ Len(b) = n + 2 /\ DOMAIN b = 1 .. n + 2
      /\ b[1] = y /\ b[2] = x /\ \A i \in 1 .. n : b[i + 2] = t[i]
  BY <1>4, <1>5, <1>6
<1>9. \A i \in 2 .. n + 1 : a[i] = s[i]
  <2>1. SUFFICES ASSUME NEW i \in 2 .. n + 1 PROVE a[i] = s[i]
    OBVIOUS
  <2>2. PICK j \in 1 .. n : j + 1 = i
    OBVIOUS
  <2>3. QED
    BY <1>4, <1>7, <2>2
<1>10. \A i \in 3 .. n + 2 : b[i] = s[i - 1]
  <2>1. SUFFICES ASSUME NEW i \in 3 .. n + 2 PROVE b[i] = s[i - 1]
    OBVIOUS
  <2>2. PICK j \in 1 .. n : j + 2 = i /\ j + 1 = i - 1
    OBVIOUS
  <2>3. b[j + 2] = t[j] /\ t[j] = s[j + 1]
    BY <1>4, <1>8
  <2>4. QED
    BY <2>2, <2>3
<1>11. ASSUME NEW q, NEW U, q \in Seq(U),
             \A i \in DOMAIN q : DOMAIN q[i] = {"left", "set", "depth"}
       PROVE  IsStack(q)
  <2>1. q \in Seq(ToSet(q))
    BY <1>11 DEF ToSet
  <2>2. QED
    BY <1>11, <2>1 DEF IsStack
<1>12. \A i \in 1 .. n + 1 : DOMAIN s[i] = {"left", "set", "depth"}
  BY <1>3 DEF IsStack
<1>13. IsStack(t)
  <2>1. \A i \in DOMAIN t : DOMAIN t[i] = {"left", "set", "depth"}
    BY <1>4, <1>12
  <2>2. QED
    BY <1>4, <1>11, <2>1
<1>14. IsStack(a)
  <2>1. \A i \in 1 .. n + 1 : i = 1 \/ i \in 2 .. n + 1
    OBVIOUS
  <2>2. \A i \in DOMAIN a : DOMAIN a[i] = {"left", "set", "depth"}
    BY <1>5, <1>7, <1>9, <1>12, <2>1
  <2>3. QED
    BY <1>7, <1>11, <2>2
<1>15. IsStack(b)
  <2>1. \A i \in 1 .. n + 2 : i = 1 \/ i = 2 \/ i \in 3 .. n + 2
    OBVIOUS
  <2>2. ASSUME NEW i \in 3 .. n + 2 PROVE DOMAIN b[i] = {"left", "set", "depth"}
    <3>1. PICK j \in 1 .. n + 1 : j = i - 1
      OBVIOUS
    <3>2. b[i] = s[j]
      BY <1>10, <3>1
    <3>3. QED
      BY <1>12, <3>2
  <2>3. \A i \in DOMAIN b : DOMAIN b[i] = {"left", "set", "depth"}
    BY <1>5, <1>8, <2>1, <2>2
  <2>4. QED
    BY <1>8, <1>11, <2>3
<1>16. n + 2 = Len(s) + 1 /\ n = Len(s) - 1 /\ n + 1 = Len(s)
  BY <1>3
<1>17. QED
  BY <1>3, <1>4, <1>7, <1>8, <1>9, <1>10, <1>13, <1>14, <1>15, <1>16

\* While a reply is rendered the message is sent and the call open.
LEMMA InReply ==
  ASSUME InvokeInv, frames # << >>
  PROVE  /\ result = "sent" /\ outcome = "open" /\ IsStack(frames)
         /\ Len(frames) \in Nat \ {0} /\ DOMAIN frames = 1 .. Len(frames)
         /\ Head(frames) = frames[1] /\ Frame = frames[1]
         /\ DOMAIN Advanced = {"left", "set", "depth"} /\ Advanced.depth = Frame.depth
         /\ Frame.depth = Len(frames)
         /\ \A i \in 1 .. Len(frames) : frames[i].depth = 1 + Len(frames) - i
<1>1. IsStack(frames)
  BY DEF InvokeInv, CountingOK
<1>2. /\ Len(frames) \in Nat \ {0} /\ DOMAIN frames = 1 .. Len(frames) /\ Head(frames) = frames[1]
  BY <1>1, HasTop
<1>3. /\ result = "sent" /\ outcome = "open"
      /\ \A i \in 1 .. Len(frames) : frames[i].depth = 1 + Len(frames) - i
  BY <1>2 DEF InvokeInv, InvokeTypeOK
<1>4. DOMAIN frames[1] = {"left", "set", "depth"}
  BY <1>1, <1>2 DEF IsStack
<1>5. Advanced = [frames[1] EXCEPT !.left = Tail(@)]
  BY <1>2 DEF Advanced
<1>6. DOMAIN Advanced = {"left", "set", "depth"} /\ Advanced.depth = frames[1].depth
  BY <1>4, <1>5
<1>7. QED
  BY <1>1, <1>2, <1>3, <1>6 DEF Frame

\* What a step keeps that does not build.
LEMMA NotBuilding ==
  ASSUME InvokeInv, UNCHANGED <<building, op>>
  PROVE  /\ ReadInv' /\ TypeOK' /\ op' \in DOMAIN Operations /\ Op' = Op
         /\ UNCHANGED <<dump, result>>
<1>1. UNCHANGED vars /\ UNCHANGED <<dump, result>>
  BY DEF building, vars, call
<1>2. ReadInv'
  BY <1>1, ReadStep DEF InvokeInv
<1>3. QED
  BY <1>1, <1>2 DEF ReadInv, PackInv, InvokeInv, InvokeTypeOK, Op

\* The steps of the attribute walk keep the depths.
LEMMA WalkCounts ==
  ASSUME InvokeInv, RenderBit \/ RenderNest \/ RenderLost \/ RenderScalar \/ RenderRtnl \/ Leave
  PROVE  InvokeInv'
<1>1. /\ UNCHANGED <<building, op, replies, count, outcome>> /\ frames # << >>
  <2>1. Len(frames) > 1 => frames # << >>
    OBVIOUS
  <2>2. QED
    BY <2>1 DEF RenderBit, RenderNest, RenderLost, RenderScalar, RenderRtnl, Leave, Walking, SameCall
<1>2. PICK n \in Nat \ {0} : n = Len(frames)
  BY <1>1, InReply
<1>3. /\ result = "sent" /\ outcome = "open" /\ IsStack(frames)
      /\ \A i \in 1 .. n : frames[i].depth = 1 + n - i
      /\ DOMAIN Advanced = {"left", "set", "depth"} /\ Advanced.depth = n /\ Frame.depth = n
  BY <1>1, <1>2, InReply
<1> DEFINE inner == [left |-> Item.inner, set |-> Child[1].name, depth |-> Frame.depth + 1]
<1>4. PICK y, t, a, b : /\ y = inner /\ t = Tail(frames)
                        /\ a = <<Advanced>> \o Tail(frames) /\ b = <<y, Advanced>> \o Tail(frames)
  OBVIOUS
<1>5. DOMAIN y = {"left", "set", "depth"} /\ y.depth = n + 1
  BY <1>3, <1>4
<1>6. /\ IsStack(t) /\ Len(t) = n - 1 /\ \A i \in 1 .. n - 1 : t[i] = frames[i + 1]
      /\ IsStack(a) /\ Len(a) = n /\ a[1] = Advanced /\ \A i \in 2 .. n : a[i] = frames[i]
      /\ IsStack(b) /\ Len(b) = n + 1 /\ b[1] = y /\ b[2] = Advanced
      /\ \A i \in 3 .. n + 1 : b[i] = frames[i - 1]
  <2>1. PICK s, x : s = frames /\ x = Advanced
    OBVIOUS
  <2>2. IsStack(s) /\ s # << >> /\ Leaves(s, x, y, t, a, b)
    BY <1>1, <1>3, <1>4, <1>5, <2>1 DEF Leaves
  <2>3. /\ IsStack(t) /\ Len(t) = Len(s) - 1
        /\ \A i \in 1 .. Len(s) - 1 : t[i] = s[i + 1]
        /\ IsStack(a) /\ Len(a) = Len(s) /\ a[1] = x
        /\ \A i \in 2 .. Len(s) : a[i] = s[i]
        /\ IsStack(b) /\ Len(b) = Len(s) + 1 /\ b[1] = y /\ b[2] = x
        /\ \A i \in 3 .. Len(s) + 1 : b[i] = s[i - 1]
    BY <2>2, Stacked
  <2>4. QED
    BY <1>2, <2>1, <2>3
<1>7. /\ IsStack(frames') /\ frames' # << >>
      /\ \A i \in DOMAIN frames' : frames'[i].depth = 1 + Len(frames') - i
  <2>1. CASE Leave
    <3>1. frames' = Tail(frames) /\ n > 1
      BY <1>2, <2>1 DEF Leave
    <3>2. t = Tail(frames)
      BY <1>4
    <3>3. IsStack(t) /\ Len(t) = n - 1 /\ \A i \in 1 .. n - 1 : t[i] = frames[i + 1]
      BY <1>6
    <3>4. DOMAIN t = 1 .. n - 1 /\ t # << >>
      BY <3>1, <3>3 DEF IsStack
    <3>5. \A i \in 1 .. n - 1 : t[i].depth = 1 + (n - 1) - i
      <4>1. \A i \in 1 .. n - 1 : i + 1 \in 1 .. n /\ 1 + n - (i + 1) = 1 + (n - 1) - i
        OBVIOUS
      <4>2. QED
        BY <1>3, <3>3, <4>1
    <3>6. QED
      BY <3>1, <3>2, <3>3, <3>4, <3>5
  <2>2. CASE Step
    <3>1. a = <<Advanced>> \o Tail(frames)
      BY <1>4
    <3>2. frames' = a
      BY <2>2, <3>1 DEF Step
    <3>3. IsStack(a) /\ Len(a) = n /\ a[1] = Advanced /\ \A i \in 2 .. n : a[i] = frames[i]
      BY <1>6
    <3>4. DOMAIN a = 1 .. n /\ a # << >>
      BY <3>3 DEF IsStack
    <3>5. \A i \in 1 .. n : a[i].depth = 1 + n - i
      <4>1. SUFFICES ASSUME NEW i \in 1 .. n PROVE a[i].depth = 1 + n - i
        OBVIOUS
      <4>2. CASE i = 1
        BY <1>3, <3>3, <4>2
      <4>3. CASE i \in 2 .. n
        <5>1. a[i] = frames[i]
          BY <3>3, <4>3
        <5>2. QED
          BY <1>3, <5>1
      <4>4. QED
        BY <4>2, <4>3
    <3>6. QED
      BY <3>2, <3>3, <3>4, <3>5
  <2>3. CASE RenderNest
    <3>1. y = inner /\ y.depth = n + 1
      BY <1>4, <1>5
    <3>2. b = <<y, Advanced>> \o Tail(frames)
      BY <1>4
    <3>4. frames' = b
      BY <2>3, <3>1, <3>2 DEF RenderNest
    <3>5. /\ IsStack(b) /\ Len(b) = n + 1 /\ b[1] = y /\ b[2] = Advanced
          /\ \A i \in 3 .. n + 1 : b[i] = frames[i - 1]
      BY <1>6
    <3>6. DOMAIN b = 1 .. n + 1 /\ b # << >>
      BY <3>5 DEF IsStack
    <3>7. \A i \in 1 .. n + 1 : b[i].depth = 1 + (n + 1) - i
      <4>1. SUFFICES ASSUME NEW i \in 1 .. n + 1 PROVE b[i].depth = 1 + (n + 1) - i
        OBVIOUS
      <4>2. CASE i = 1
        BY <3>1, <3>5, <4>2
      <4>3. CASE i = 2
        BY <1>3, <3>5, <4>3
      <4>4. CASE i \in 3 .. n + 1
        <5>1. PICK j \in 1 .. n : j = i - 1
          BY <4>4
        <5>2. b[i] = frames[j]
          BY <3>5, <4>4, <5>1
        <5>3. frames[j].depth = 1 + n - j
          BY <1>3
        <5>4. QED
          BY <5>1, <5>2, <5>3
      <4>5. QED
        BY <4>2, <4>3, <4>4
    <3>8. QED
      BY <3>4, <3>5, <3>6, <3>7
  <2>4. QED
    BY <2>1, <2>2, <2>3 DEF RenderBit, RenderLost, RenderScalar, RenderRtnl
<1>8. InvokeTypeOK' /\ ReadInv'
  BY <1>1, <1>3, <1>7, NotBuilding DEF InvokeInv, InvokeTypeOK
<1>9. CountingOK'
  BY <1>1, <1>3, <1>7, NotBuilding DEF InvokeInv, CountingOK
<1>10. QED
  BY <1>8, <1>9 DEF InvokeInv

\* A reply taken from the socket is the only one of a call that is no dump.
LEMMA ReplyCounts == InvokeInv /\ Reply => InvokeInv'
<1>1. SUFFICES ASSUME InvokeInv, Reply PROVE InvokeInv'
  OBVIOUS
<1>2. /\ UNCHANGED <<building, op, count, outcome>> /\ frames = << >> /\ outcome = "open"
      /\ result = "sent" /\ Len(replies) < MaxReplies
  BY <1>1 DEF Reply, Receiving
<1>3. PICK r \in Op.replies : /\ replies' = Append(replies, r)
                              /\ \E left, set : frames' = <<[left |-> left, set |-> set, depth |-> 1]>>
  BY <1>1 DEF Reply
<1>4. PICK y : DOMAIN y = {"left", "set", "depth"} /\ y.depth = 1 /\ frames' = <<y>>
  <2>1. PICK left, set : frames' = <<[left |-> left, set |-> set, depth |-> 1]>>
    BY <1>3
  <2>2. PICK y : y = [left |-> left, set |-> set, depth |-> 1]
    OBVIOUS
  <2>3. DOMAIN y = {"left", "set", "depth"} /\ y.depth = 1 /\ frames' = <<y>>
    BY <2>1, <2>2
  <2>4. QED
    BY <2>3
<1>5. /\ frames' # << >> /\ Len(frames') = 1 /\ DOMAIN frames' = {1} /\ frames'[1].depth = 1
      /\ IsStack(frames')
  BY <1>4 DEF IsStack, ToSet
<1>6. /\ replies \in Seq(Op.replies) /\ Len(replies) = count /\ count \in Nat /\ MaxReplies \in Nat
      /\ \A i \in DOMAIN replies : replies[i] \in Op.replies
  BY <1>1, <1>2, OperationAssumption DEF InvokeInv, CountingOK, InvokeTypeOK
<1>7. /\ replies' \in Seq(Op.replies) /\ Len(replies') = count + 1
      /\ \A i \in DOMAIN replies' : replies'[i] \in Op.replies
  BY <1>3, <1>6
<1>8. InvokeTypeOK' /\ ReadInv'
  BY <1>1, <1>2, <1>5, <1>7, NotBuilding DEF InvokeInv, InvokeTypeOK
<1>9. Len(replies') <= MaxReplies
  BY <1>2, <1>6, <1>7
<1>10. CountingOK'
  BY <1>1, <1>2, <1>5, <1>7, <1>9, NotBuilding DEF InvokeInv, CountingOK
<1>11. QED
  BY <1>8, <1>10 DEF InvokeInv

\* At the end of a reply the count catches up.
LEMMA LeaveReplyCounts == InvokeInv /\ LeaveReply => InvokeInv'
<1>1. SUFFICES ASSUME InvokeInv, LeaveReply PROVE InvokeInv'
  OBVIOUS
<1>2. /\ UNCHANGED <<building, op, replies, out>> /\ frames # << >> /\ frames' = << >>
      /\ count' = count + 1 /\ outcome' = IF dump THEN "open" ELSE "text"
  BY <1>1 DEF LeaveReply
<1>3. result = "sent" /\ outcome = "open"
  BY <1>1, <1>2, InReply
<1>4. /\ count \in Nat /\ MaxReplies \in Nat /\ Len(replies) = count + 1
      /\ Len(replies) <= MaxReplies /\ dump \in BOOLEAN
  BY <1>1, <1>2, OperationAssumption DEF InvokeInv, CountingOK, InvokeTypeOK, TypeOK
<1>5. count' \in 0 .. MaxReplies
  BY <1>2, <1>4
<1>6. InvokeTypeOK' /\ ReadInv'
  BY <1>1, <1>2, <1>5, NotBuilding DEF InvokeInv, InvokeTypeOK
<1>7. IsStack(<< >>)
  BY DEF IsStack, ToSet
<1>8. ~dump => count = 0
  BY <1>1, <1>3 DEF InvokeInv, CountingOK
<1>9. CountingOK'
  BY <1>1, <1>2, <1>3, <1>4, <1>7, <1>8, NotBuilding DEF InvokeInv, CountingOK
<1>10. QED
  BY <1>6, <1>9 DEF InvokeInv

\* Between two replies a call may end.
LEMMA EndCounts == InvokeInv /\ (Done \/ KernelError \/ SocketFails) => InvokeInv'
<1>1. SUFFICES ASSUME InvokeInv, Done \/ KernelError \/ SocketFails PROVE InvokeInv'
  OBVIOUS
<1>2. /\ UNCHANGED <<building, op, replies, frames, count>> /\ frames = << >> /\ result = "sent"
      /\ outcome' \in {"text", "errno", "error"}
      /\ outcome' = "text" => dump
      /\ outcome' # "text" => out' = << >>
  BY <1>1 DEF Done, KernelError, SocketFails, Receiving
<1>3. InvokeTypeOK' /\ ReadInv'
  BY <1>1, <1>2, NotBuilding DEF InvokeInv, InvokeTypeOK
<1>4. CountingOK'
  BY <1>1, <1>2, NotBuilding DEF InvokeInv, CountingOK
<1>5. QED
  BY <1>3, <1>4 DEF InvokeInv

\* The request is built before anything is received.
LEMMA BuildCounts == InvokeInv /\ (Build \/ UNCHANGED invokeVars) => InvokeInv'
<1>1. SUFFICES ASSUME InvokeInv, Build \/ UNCHANGED invokeVars PROVE InvokeInv'
  OBVIOUS
<1>2. UNCHANGED <<op, replies, frames, out, count, outcome>>
  BY <1>1 DEF Build, invokeVars, rendering
<1>3. [Next]_vars /\ (result' = result \/ result = "building") /\ UNCHANGED dump
  BY <1>1 DEF Build, invokeVars, building, vars, call, Next, GetRefused, BeginHeader, PutName, PutIndex,
              BadIndex, NoRoomInHeader, EndHeader, NoSet, UnknownKey, PutArg, NoRoomForArg,
              SendGeneric, Getting, InHeader, Packing, AtArg, Unsent
<1>4. ReadInv' /\ TypeOK'
  BY <1>1, <1>3, ReadStep DEF InvokeInv, ReadInv, PackInv
<1>5. Op' = Op
  BY <1>2 DEF Op
<1>6. result = "building" => frames = << >> /\ outcome = "open"
  BY <1>1 DEF InvokeInv, InvokeTypeOK, CountingOK
<1>7. InvokeTypeOK'
  BY <1>1, <1>2, <1>3, <1>4, <1>5, <1>6 DEF InvokeInv, InvokeTypeOK
<1>8. CountingOK'
  BY <1>1, <1>2, <1>3, <1>5, <1>6 DEF InvokeInv, CountingOK
<1>9. QED
  BY <1>4, <1>7, <1>8 DEF InvokeInv

\* In every call of every operation, whatever its metadata says and the kernel
\* answers, the state is the one the next step expects: nothing is received
\* before the request is sent, no depth is lost on the way through nested
\* attributes, and the count is that of the replies rendered to the end.
THEOREM InvokeInductive == InvokeSpec => []InvokeInv
<1>1. InvokeInit => InvokeInv
  <2>1. SUFFICES ASSUME InvokeInit PROVE InvokeInv
    OBVIOUS
  <2>2. /\ op \in DOMAIN Operations /\ Init /\ replies = << >> /\ frames = << >> /\ count = 0
        /\ outcome = "open"
    BY <2>1 DEF InvokeInit
  <2>3. ReadInv /\ TypeOK
    BY <2>2, InitRead DEF ReadInv, PackInv
  <2>4. IsStack(<< >>) /\ DOMAIN replies = {} /\ DOMAIN frames = {} /\ Len(replies) = 0
    BY <2>2 DEF IsStack, ToSet
  <2>5. MaxReplies \in Nat
    BY OperationAssumption
  <2>6. InvokeTypeOK
    BY <2>2, <2>3, <2>4, <2>5 DEF InvokeTypeOK
  <2>7. CountingOK
    BY <2>2, <2>4, <2>5 DEF CountingOK
  <2>8. QED
    BY <2>3, <2>6, <2>7 DEF InvokeInv
<1>2. InvokeInv /\ [InvokeNext]_invokeVars => InvokeInv'
  BY WalkCounts, ReplyCounts, LeaveReplyCounts, EndCounts, BuildCounts DEF InvokeNext, Render
<1>3. QED
  BY <1>1, <1>2, PTL DEF InvokeSpec

\* Its parts that a run checks: the type invariant,
THEOREM InvokeTyped == InvokeSpec => []InvokeTypeOK
<1>1. InvokeInv => InvokeTypeOK
  BY DEF InvokeInv
<1>2. QED
  BY <1>1, InvokeInductive, PTL

\* the buffer of the request in every call of an operation,
THEOREM NoOverrun == InvokeSpec => []WithinRequest
<1>1. InvokeInv => WithinRequest
  BY DEF InvokeInv, ReadInv, PackInv
<1>2. QED
  BY <1>1, InvokeInductive, PTL

\* and what the kernel reads in it.
THEOREM ReadByKernel == InvokeSpec => []KernelReads
<1>1. InvokeInv => KernelReads
  BY ReadInvReads DEF InvokeInv
<1>2. QED
  BY <1>1, InvokeInductive, PTL

\* A call that failed leaves no text and the number of the replies before the
\* failure; one that is no dump and succeeded has taken exactly one reply.
THEOREM Counted ==
  InvokeSpec => [](/\ outcome \in {"errno", "error"} => out = << >> /\ count = Len(replies)
                   /\ outcome = "text" /\ ~dump => Len(replies) = 1)
<1>1. InvokeInv => /\ outcome \in {"errno", "error"} => out = << >> /\ count = Len(replies)
                   /\ outcome = "text" /\ ~dump => Len(replies) = 1
  BY DEF InvokeInv, CountingOK, InvokeTypeOK
<1>2. QED
  BY <1>1, InvokeInductive, PTL

-----------------------------------------------------------------------------
(* Sequences, and what is said and what was sent.                          *)

\* A sequence is a function on 1 .. n.
LEMMA SequenceIs ==
  ASSUME NEW s
  PROVE  IsSequence(s) <=> \E n \in Nat : s = [i \in 1 .. n |-> s[i]]
<1>1. ASSUME IsSequence(s) PROVE \E n \in Nat : s = [i \in 1 .. n |-> s[i]]
  BY <1>1 DEF IsSequence
<1>2. ASSUME NEW n \in Nat, s = [i \in 1 .. n |-> s[i]] PROVE IsSequence(s)
  <2>1. DOMAIN s = 1 .. n
    BY <1>2
  <2>2. \A i \in 1 .. n : s[i] \in ToSet(s)
    BY <2>1 DEF ToSet
  <2>3. s \in [1 .. n -> ToSet(s)]
    BY <1>2, <2>2
  <2>4. QED
    BY <1>2, <2>3 DEF IsSequence
<1>3. QED
  BY <1>1, <1>2

\* What a sequence consists of.
LEMMA SequenceHas ==
  ASSUME NEW s, IsSequence(s)
  PROVE  /\ Len(s) \in Nat /\ DOMAIN s = 1 .. Len(s) /\ s = [i \in 1 .. Len(s) |-> s[i]]
         /\ \A T : ToSet(s) \subseteq T => s \in Seq(T)
<1>1. s \in Seq(ToSet(s))
  BY DEF IsSequence
<1>2. Len(s) \in Nat /\ DOMAIN s = 1 .. Len(s) /\ s = [i \in 1 .. Len(s) |-> s[i]]
  BY <1>1
<1>3. ASSUME NEW T, ToSet(s) \subseteq T PROVE s \in Seq(T)
  BY <1>1, <1>3, SeqMonotonic
<1>4. QED
  BY <1>2, <1>3

\* A function on 1 .. n is one of length n.
LEMMA SequenceOf ==
  ASSUME NEW n \in Nat, NEW s, s = [i \in 1 .. n |-> s[i]]
  PROVE  IsSequence(s) /\ Len(s) = n
<1>1. IsSequence(s)
  BY SequenceIs
<1>2. DOMAIN s = 1 .. n /\ Len(s) \in Nat /\ DOMAIN s = 1 .. Len(s)
  BY <1>1, SequenceHas
<1>3. QED
  BY <1>1, <1>2

\* One over any set is a sequence.
LEMMA SequenceOver ==
  ASSUME NEW T, NEW s \in Seq(T)
  PROVE  IsSequence(s)
<1>1. Len(s) \in Nat /\ s \in [1 .. Len(s) -> T]
  BY LenProperties
<1>2. PICK n \in Nat : n = Len(s) /\ s \in [1 .. n -> T]
  BY <1>1
<1>3. s = [i \in 1 .. n |-> s[i]]
  BY <1>2
<1>4. QED
  BY <1>3, SequenceIs

\* Sequences that agree everywhere are one.
LEMMA SequencesEqual ==
  ASSUME NEW s, NEW t, IsSequence(s), IsSequence(t), Len(s) = Len(t),
         \A i \in 1 .. Len(s) : s[i] = t[i]
  PROVE  s = t
<1>1. /\ s = [i \in 1 .. Len(s) |-> s[i]]
      /\ t = [i \in 1 .. Len(t) |-> t[i]]
  BY SequenceHas
<1>2. QED
  BY <1>1

\* Two of them in a row.
LEMMA ConcatHas ==
  ASSUME NEW s, NEW t, IsSequence(s), IsSequence(t)
  PROVE  /\ IsSequence(s \o t) /\ Len(s \o t) = Len(s) + Len(t)
         /\ \A i \in 1 .. Len(s) : (s \o t)[i] = s[i]
         /\ \A i \in 1 .. Len(t) : (s \o t)[Len(s) + i] = t[i]
<1>1. PICK T : T = ToSet(s) \cup ToSet(t)
  OBVIOUS
<1>2. s \in Seq(T) /\ t \in Seq(T)
  BY <1>1, SequenceHas
<1>3. /\ s \o t \in Seq(T) /\ Len(s \o t) = Len(s) + Len(t)
      /\ \A i \in 1 .. Len(s) + Len(t) : (s \o t)[i] = IF i <= Len(s) THEN s[i] ELSE t[i - Len(s)]
  BY <1>2, ConcatProperties
<1>4. Len(s) \in Nat /\ Len(t) \in Nat
  BY <1>2
<1>5. IsSequence(s \o t)
  BY <1>3, SequenceOver
<1>6. \A i \in 1 .. Len(s) : (s \o t)[i] = s[i]
  <2>1. SUFFICES ASSUME NEW i \in 1 .. Len(s) PROVE (s \o t)[i] = s[i]
    OBVIOUS
  <2>2. i \in 1 .. Len(s) + Len(t) /\ i <= Len(s)
    BY <1>4
  <2>3. QED
    BY <1>3, <2>2
<1>7. \A i \in 1 .. Len(t) : (s \o t)[Len(s) + i] = t[i]
  <2>1. SUFFICES ASSUME NEW i \in 1 .. Len(t) PROVE (s \o t)[Len(s) + i] = t[i]
    OBVIOUS
  <2>2. Len(s) + i \in 1 .. Len(s) + Len(t) /\ ~(Len(s) + i <= Len(s)) /\ (Len(s) + i) - Len(s) = i
    BY <1>4
  <2>3. QED
    BY <1>3, <2>2
<1>8. QED
  BY <1>3, <1>5, <1>6, <1>7

\* Three sequences one after the other.
Joins(s, t, u) == (s \o t) \o u = s \o (t \o u)

\* How they are bracketed does not matter.
LEMMA ConcatThree ==
  ASSUME NEW s, NEW t, NEW u, IsSequence(s), IsSequence(t), IsSequence(u)
  PROVE  Joins(s, t, u)
<1>1. PICK T : T = ToSet(s) \cup ToSet(t) \cup ToSet(u)
  OBVIOUS
<1>2. s \in Seq(T) /\ t \in Seq(T) /\ u \in Seq(T)
  BY <1>1, SequenceHas
<1>3. QED
  BY <1>2, ConcatAssociative DEF Joins

\* Nothing in front or behind.
LEMMA ConcatNothing ==
  ASSUME NEW s, IsSequence(s)
  PROVE  << >> \o s = s /\ s \o << >> = s /\ IsSequence(<< >>) /\ Len(<< >>) = 0
<1>1. s \in Seq(ToSet(s))
  BY DEF IsSequence
<1>2. << >> \o s = s /\ s \o << >> = s
  BY <1>1, ConcatEmptySeq
<1>3. << >> \in Seq(ToSet(<< >>))
  OBVIOUS
<1>4. QED
  BY <1>2, <1>3 DEF IsSequence

\* One or two things are a sequence.
LEMMA ShortSequences ==
  ASSUME NEW x, NEW y
  PROVE  /\ IsSequence(<<x>>) /\ Len(<<x>>) = 1 /\ <<x>>[1] = x
         /\ IsSequence(<<x, y>>) /\ Len(<<x, y>>) = 2 /\ <<x, y>>[1] = x /\ <<x, y>>[2] = y
<1>1. x \in ToSet(<<x>>)
  BY DEF ToSet
<1>2. x \in ToSet(<<x, y>>) /\ y \in ToSet(<<x, y>>)
  BY DEF ToSet
<1>3. QED
  BY <1>1, <1>2 DEF IsSequence

-----------------------------------------------------------------------------
\* What FlattenSeq makes of the first n parts, one after the other.
Flattens(parts, n, F) ==
  F = [i \in 1 .. n |-> IF i = 1 THEN parts[i] ELSE F[i - 1] \o parts[i]]

\* A function is one if it is one everywhere.
LEMMA FlattensAt ==
  ASSUME NEW parts, NEW n \in Nat, NEW F
  PROVE  Flattens(parts, n, F) <=>
           /\ F = [i \in 1 .. n |-> F[i]]
           /\ \A i \in 1 .. n : F[i] = IF i = 1 THEN parts[i] ELSE F[i - 1] \o parts[i]
<1>1. PICK H : H = [i \in 1 .. n |-> IF i = 1 THEN parts[i] ELSE F[i - 1] \o parts[i]]
  OBVIOUS
<1>2. Flattens(parts, n, F) <=> F = H
  BY <1>1 DEF Flattens
<1>3. DOMAIN H = 1 .. n /\ H = [i \in 1 .. n |-> H[i]]
  BY <1>1
<1>4. \A i \in 1 .. n : H[i] = IF i = 1 THEN parts[i] ELSE F[i - 1] \o parts[i]
  BY <1>1
<1>5. ASSUME F = H
      PROVE  /\ F = [i \in 1 .. n |-> F[i]]
             /\ \A i \in 1 .. n : F[i] = IF i = 1 THEN parts[i] ELSE F[i - 1] \o parts[i]
  BY <1>3, <1>4, <1>5
<1>6. ASSUME F = [i \in 1 .. n |-> F[i]],
             \A i \in 1 .. n : F[i] = IF i = 1 THEN parts[i] ELSE F[i - 1] \o parts[i]
      PROVE  F = H
  <2>1. \A i \in 1 .. n : F[i] = H[i]
    BY <1>4, <1>6
  <2>2. QED
    BY <1>3, <1>6, <2>1
<1>7. QED
  BY <1>2, <1>5, <1>6

\* There is one for every number of parts: the one for the parts before can be
\* continued.
LEMMA FlattenExists ==
  ASSUME NEW parts, NEW n \in Nat
  PROVE  \E F : Flattens(parts, n, F)
<1>1. PICK Missing \in SUBSET Nat : Missing = {m \in Nat : ~ \E F : Flattens(parts, m, F)}
  OBVIOUS
<1>2. CASE Missing = {}
  BY <1>1, <1>2
<1>3. CASE Missing # {}
  <2>1. PICK m \in Missing : \A k \in Missing : m <= k
    BY <1>3, LeastNatural
  <2>2. m \in Nat /\ ~ \E F : Flattens(parts, m, F)
    BY <1>1
  <2>3. CASE m = 0
    <3>1. PICK F : F = [i \in 1 .. 0 |-> << >>]
      OBVIOUS
    <3>2. F = [i \in 1 .. 0 |-> F[i]] /\ \A i \in 1 .. 0 : FALSE
      BY <3>1
    <3>3. Flattens(parts, 0, F)
      BY <3>2, FlattensAt
    <3>4. QED
      BY <2>2, <2>3, <3>3
  <2>4. CASE m # 0
    <3>1. m - 1 \in Nat /\ ~(m <= m - 1)
      BY <2>2, <2>4
    <3>2. m - 1 \notin Missing
      BY <2>1, <3>1
    <3>3. PICK F : Flattens(parts, m - 1, F)
      BY <1>1, <3>1, <3>2
    <3>4. PICK x : x = IF m = 1 THEN parts[m] ELSE F[m - 1] \o parts[m]
      OBVIOUS
    <3>5. PICK G : G = [i \in 1 .. m |-> IF i = m THEN x ELSE F[i]]
      OBVIOUS
    <3>6. \A i \in 1 .. m - 1 : F[i] = IF i = 1 THEN parts[i] ELSE F[i - 1] \o parts[i]
      BY <3>1, <3>3, FlattensAt
    <3>7. G = [i \in 1 .. m |-> G[i]]
      BY <3>5
    <3>8. G[m] = x /\ \A i \in 1 .. m : i # m => G[i] = F[i]
      BY <2>2, <2>4, <3>5
    <3>9. ASSUME NEW i \in 1 .. m
          PROVE  G[i] = IF i = 1 THEN parts[i] ELSE G[i - 1] \o parts[i]
      <4>1. i # 1 => i - 1 \in 1 .. m /\ i - 1 # m
        BY <2>2
      <4>2. i # 1 => G[i - 1] = F[i - 1]
        BY <3>8, <4>1
      <4>3. CASE i = m
        BY <3>4, <3>8, <4>2, <4>3
      <4>4. CASE i # m
        <5>1. i \in 1 .. m - 1
          BY <2>2, <4>4
        <5>2. QED
          BY <3>6, <3>8, <4>2, <4>4, <5>1
      <4>5. QED
        BY <4>3, <4>4
    <3>10. Flattens(parts, m, G)
      BY <2>2, <3>7, <3>9, FlattensAt
    <3>11. QED
      BY <2>2, <3>10
  <2>5. QED
    BY <2>3, <2>4
<1>4. QED
  BY <1>2, <1>3

\* What FlattenSeq returns is the last value of such a function.
LEMMA FlattenIs ==
  ASSUME NEW parts, Len(parts) \in Nat \ {0}
  PROVE  \E F : /\ FlattenSeq(parts) = F[Len(parts)]
                /\ \A i \in 1 .. Len(parts) :
                     F[i] = IF i = 1 THEN parts[i] ELSE F[i - 1] \o parts[i]
<1>1. FlattenSeq(parts) = (CHOOSE F : Flattens(parts, Len(parts), F))[Len(parts)]
  BY DEF FlattenSeq, Flattens
<1>2. PICK F : F = (CHOOSE G : Flattens(parts, Len(parts), G))
  OBVIOUS
<1>3. Flattens(parts, Len(parts), F)
  BY <1>2, FlattenExists
<1>4. \A i \in 1 .. Len(parts) : F[i] = IF i = 1 THEN parts[i] ELSE F[i - 1] \o parts[i]
  <2>1. PICK n \in Nat : n = Len(parts)
    OBVIOUS
  <2>2. Flattens(parts, n, F)
    BY <1>3, <2>1
  <2>3. \A i \in 1 .. n : F[i] = IF i = 1 THEN parts[i] ELSE F[i - 1] \o parts[i]
    BY <2>2, FlattensAt
  <2>4. QED
    BY <2>1, <2>3
<1>5. FlattenSeq(parts) = F[Len(parts)]
  BY <1>1, <1>2
<1>6. QED
  BY <1>4, <1>5, Zenon

\* Parts is a sequence of sequences.
Parts(parts) == IsSequence(parts) /\ \A i \in 1 .. Len(parts) : IsSequence(parts[i])

\* The same with the empty beginning, and that all of them are sequences.
LEMMA FlattenWalk ==
  ASSUME NEW parts, Parts(parts)
  PROVE  \E n \in Nat : \E F :
           /\ n = Len(parts) /\ FlattenSeq(parts) = F[n] /\ F[0] = << >>
           /\ \A i \in 1 .. n : F[i] = F[i - 1] \o parts[i]
           /\ \A i \in 0 .. n : IsSequence(F[i])
<1>1. PICK n \in Nat : n = Len(parts)
  BY SequenceHas DEF Parts
<1>2. IsSequence(<< >>)
  BY ConcatNothing DEF Parts
<1>3. CASE n = 0
  <2>1. parts = << >>
    BY <1>1, <1>3, EmptySeq DEF Parts, IsSequence
  <2>2. FlattenSeq(parts) = << >>
    BY <1>1, <1>3, <2>1 DEF FlattenSeq
  <2>3. PICK F : F = [i \in 0 .. 0 |-> << >>]
    OBVIOUS
  <2>4. F[0] = << >> /\ \A i \in 0 .. 0 : IsSequence(F[i])
    BY <1>2, <2>3
  <2>5. \A i \in 1 .. 0 : FALSE
    OBVIOUS
  <2>6. QED
    BY <1>1, <1>3, <2>2, <2>4, <2>5
<1>4. CASE n # 0
  <2>1. Len(parts) \in Nat \ {0}
    BY <1>1, <1>4
  <2>2. PICK G : /\ FlattenSeq(parts) = G[n]
                 /\ \A i \in 1 .. n : G[i] = IF i = 1 THEN parts[i] ELSE G[i - 1] \o parts[i]
    BY <1>1, <2>1, FlattenIs
  <2>3. PICK F : F = [i \in 0 .. n |-> IF i = 0 THEN << >> ELSE G[i]]
    OBVIOUS
  <2>4. F[0] = << >> /\ \A i \in 1 .. n : F[i] = G[i]
    BY <2>3
  <2>5. \A i \in 1 .. n : IsSequence(parts[i])
    BY <1>1 DEF Parts
  <2>6. ASSUME NEW i \in 1 .. n PROVE F[i] = F[i - 1] \o parts[i]
    <3>1. CASE i = 1
      <4>1. << >> \o parts[1] = parts[1]
        BY <2>5, <3>1, ConcatNothing
      <4>2. F[1] = parts[1] /\ F[1 - 1] = << >>
        BY <2>2, <2>4, <3>1
      <4>3. QED
        BY <3>1, <4>1, <4>2
    <3>2. CASE i # 1
      <4>1. i - 1 \in 1 .. n
        BY <3>2
      <4>2. QED
        BY <2>2, <2>4, <3>2, <4>1
    <3>3. QED
      BY <3>1, <3>2
  <2>7. \A i \in 0 .. n : IsSequence(F[i])
    <3>1. PICK Bad \in SUBSET Nat : Bad = {i \in Nat : i \in 0 .. n /\ ~IsSequence(F[i])}
      OBVIOUS
    <3>2. ASSUME Bad # {} PROVE FALSE
      <4>1. PICK m \in Bad : \A k \in Bad : m <= k
        BY <3>2, LeastNatural
      <4>2. m \in 0 .. n /\ ~IsSequence(F[m])
        BY <3>1
      <4>3. m # 0
        BY <1>2, <2>4, <4>2
      <4>4. m \in 1 .. n /\ m - 1 \in Nat /\ m - 1 \in 0 .. n /\ ~(m <= m - 1)
        BY <4>2, <4>3
      <4>5. IsSequence(F[m - 1])
        BY <3>1, <4>1, <4>4
      <4>6. F[m] = F[m - 1] \o parts[m] /\ IsSequence(parts[m])
        BY <2>5, <2>6, <4>4
      <4>7. QED
        BY <4>2, <4>5, <4>6, ConcatHas
    <3>3. QED
      BY <3>1, <3>2
  <2>8. n \in 1 .. n
    BY <1>4
  <2>9. FlattenSeq(parts) = F[n]
    BY <2>2, <2>4, <2>8
  <2>10. QED
    BY <1>1, <2>4, <2>6, <2>7, <2>9
<1>5. QED
  BY <1>3, <1>4

\* What is made of sequences is one.
LEMMA FlattenSequence ==
  ASSUME NEW parts, Parts(parts)
  PROVE  IsSequence(FlattenSeq(parts))
<1>1. PICK n \in Nat : \E F : FlattenSeq(parts) = F[n] /\ \A i \in 0 .. n : IsSequence(F[i])
  BY FlattenWalk
<1>2. n \in 0 .. n
  OBVIOUS
<1>3. QED
  BY <1>1, <1>2

\* One more part in front.
LEMMA FlattenFirst ==
  ASSUME NEW parts, Parts(parts), NEW x, IsSequence(x)
  PROVE  FlattenSeq(<<x>> \o parts) = x \o FlattenSeq(parts) /\ Parts(<<x>> \o parts)
<1>1. PICK all : all = <<x>> \o parts
  OBVIOUS
<1>2. PICK n \in Nat : \E G :
        /\ n = Len(parts) /\ FlattenSeq(parts) = G[n] /\ G[0] = << >>
        /\ \A i \in 1 .. n : G[i] = G[i - 1] \o parts[i]
        /\ \A i \in 0 .. n : IsSequence(G[i])
  BY FlattenWalk
<1>3. PICK G :
        /\ n = Len(parts) /\ FlattenSeq(parts) = G[n] /\ G[0] = << >>
        /\ \A i \in 1 .. n : G[i] = G[i - 1] \o parts[i]
        /\ \A i \in 0 .. n : IsSequence(G[i])
  BY <1>2
<1>4. /\ IsSequence(all) /\ Len(all) = n + 1 /\ all[1] = x
      /\ \A i \in 1 .. n : all[i + 1] = parts[i]
  <2>1. IsSequence(<<x>>) /\ Len(<<x>>) = 1 /\ <<x>>[1] = x /\ 1 \in 1 .. 1
    <3>1. IsSequence(<<x>>) /\ Len(<<x>>) = 1 /\ <<x>>[1] = x
      BY ShortSequences
    <3>2. QED
      BY <3>1
  <2>2. /\ IsSequence(all) /\ Len(all) = 1 + n /\ all[1] = <<x>>[1]
        /\ \A i \in 1 .. n : all[1 + i] = parts[i]
    BY <1>1, <1>3, <2>1, ConcatHas DEF Parts
  <2>3. \A i \in 1 .. n : 1 + i = i + 1
    OBVIOUS
  <2>4. QED
    BY <2>1, <2>2, <2>3
<1>5. Parts(all)
  <2>1. ASSUME NEW i \in 1 .. n + 1 PROVE IsSequence(all[i])
    <3>1. CASE i = 1
      BY <1>4, <3>1
    <3>2. CASE i # 1
      <4>1. i - 1 \in 1 .. n /\ (i - 1) + 1 = i
        BY <3>2
      <4>2. QED
        BY <1>3, <1>4, <4>1 DEF Parts
    <3>3. QED
      BY <3>1, <3>2
  <2>2. QED
    BY <1>4, <2>1 DEF Parts
<1>6. PICK N \in Nat : \E F :
        /\ N = Len(all) /\ FlattenSeq(all) = F[N] /\ F[0] = << >>
        /\ \A i \in 1 .. N : F[i] = F[i - 1] \o all[i]
        /\ \A i \in 0 .. N : IsSequence(F[i])
  BY <1>5, FlattenWalk
<1>7. PICK F :
        /\ N = Len(all) /\ FlattenSeq(all) = F[N] /\ F[0] = << >>
        /\ \A i \in 1 .. N : F[i] = F[i - 1] \o all[i]
        /\ \A i \in 0 .. N : IsSequence(F[i])
  BY <1>6
<1>8. N = n + 1
  BY <1>4, <1>7
<1>9. PICK Bad \in SUBSET Nat : Bad = {i \in Nat : i \in 0 .. n /\ F[i + 1] # x \o G[i]}
  OBVIOUS
<1>10. ASSUME Bad # {} PROVE FALSE
  <2>1. PICK m \in Bad : \A k \in Bad : m <= k
    BY <1>10, LeastNatural
  <2>2. m \in 0 .. n /\ F[m + 1] # x \o G[m]
    BY <1>9
  <2>3. CASE m = 0
    <3>1. F[1] = F[0] \o all[1]
      <4>1. 1 \in 1 .. N /\ 1 - 1 = 0
        BY <1>8
      <4>2. QED
        BY <1>7, <4>1
    <3>2. F[1] = x /\ x \o G[0] = x
      BY <1>3, <1>4, <1>7, <3>1, ConcatNothing
    <3>3. QED
      BY <2>2, <2>3, <3>2
  <2>4. CASE m # 0
    <3>1. m \in 1 .. n /\ m - 1 \in 0 .. n /\ (m - 1) + 1 = m /\ ~(m <= m - 1) /\ m - 1 \in Nat
      BY <2>2, <2>4
    <3>2. F[m] = x \o G[m - 1]
      BY <1>9, <2>1, <3>1
    <3>3. F[m + 1] = F[m] \o parts[m]
      <4>1. m + 1 \in 1 .. N /\ (m + 1) - 1 = m
        BY <1>8, <3>1
      <4>2. all[m + 1] = parts[m]
        BY <1>4, <3>1
      <4>3. QED
        BY <1>7, <4>1, <4>2
    <3>4. G[m] = G[m - 1] \o parts[m] /\ IsSequence(G[m - 1]) /\ IsSequence(parts[m])
      BY <1>3, <3>1 DEF Parts
    <3>5. (x \o G[m - 1]) \o parts[m] = x \o (G[m - 1] \o parts[m])
      <4>1. PICK g, p : g = G[m - 1] /\ p = parts[m]
        OBVIOUS
      <4>2. IsSequence(g) /\ IsSequence(p) /\ IsSequence(x)
        BY <3>4, <4>1
      <4>3. Joins(x, g, p)
        BY ONLY <4>2, ConcatThree
      <4>4. QED
        BY <4>1, <4>3 DEF Joins
    <3>6. QED
      BY <2>2, <3>2, <3>3, <3>4, <3>5
  <2>5. QED
    BY <2>3, <2>4
<1>11. F[n + 1] = x \o G[n]
  <2>1. n \in 0 .. n
    OBVIOUS
  <2>2. QED
    BY <1>9, <1>10, <2>1
<1>12. QED
  BY <1>1, <1>3, <1>5, <1>7, <1>8, <1>11

\* One more behind.
LEMMA FlattenLast ==
  ASSUME NEW parts, Parts(parts), NEW x, IsSequence(x)
  PROVE  FlattenSeq(parts \o <<x>>) = FlattenSeq(parts) \o x /\ Parts(parts \o <<x>>)
<1>1. PICK all : all = parts \o <<x>>
  OBVIOUS
<1>2. PICK n \in Nat : \E G :
        /\ n = Len(parts) /\ FlattenSeq(parts) = G[n] /\ G[0] = << >>
        /\ \A i \in 1 .. n : G[i] = G[i - 1] \o parts[i]
        /\ \A i \in 0 .. n : IsSequence(G[i])
  BY FlattenWalk
<1>3. PICK G :
        /\ n = Len(parts) /\ FlattenSeq(parts) = G[n] /\ G[0] = << >>
        /\ \A i \in 1 .. n : G[i] = G[i - 1] \o parts[i]
        /\ \A i \in 0 .. n : IsSequence(G[i])
  BY <1>2
<1>4. /\ IsSequence(all) /\ Len(all) = n + 1 /\ all[n + 1] = x
      /\ \A i \in 1 .. n : all[i] = parts[i]
  <2>1. IsSequence(<<x>>) /\ Len(<<x>>) = 1 /\ <<x>>[1] = x /\ 1 \in 1 .. 1
    <3>1. IsSequence(<<x>>) /\ Len(<<x>>) = 1 /\ <<x>>[1] = x
      BY ShortSequences
    <3>2. QED
      BY <3>1
  <2>2. /\ IsSequence(all) /\ Len(all) = n + 1 /\ all[n + 1] = <<x>>[1]
        /\ \A i \in 1 .. n : all[i] = parts[i]
    BY <1>1, <1>3, <2>1, ConcatHas DEF Parts
  <2>3. QED
    BY <2>1, <2>2
<1>5. Parts(all)
  <2>1. ASSUME NEW i \in 1 .. n + 1 PROVE IsSequence(all[i])
    <3>1. CASE i = n + 1
      BY <1>4, <3>1
    <3>2. CASE i # n + 1
      <4>1. i \in 1 .. n
        BY <3>2
      <4>2. QED
        BY <1>3, <1>4, <4>1 DEF Parts
    <3>3. QED
      BY <3>1, <3>2
  <2>2. QED
    BY <1>4, <2>1 DEF Parts
<1>6. PICK N \in Nat : \E F :
        /\ N = Len(all) /\ FlattenSeq(all) = F[N] /\ F[0] = << >>
        /\ \A i \in 1 .. N : F[i] = F[i - 1] \o all[i]
        /\ \A i \in 0 .. N : IsSequence(F[i])
  BY <1>5, FlattenWalk
<1>7. PICK F :
        /\ N = Len(all) /\ FlattenSeq(all) = F[N] /\ F[0] = << >>
        /\ \A i \in 1 .. N : F[i] = F[i - 1] \o all[i]
        /\ \A i \in 0 .. N : IsSequence(F[i])
  BY <1>6
<1>8. N = n + 1
  BY <1>4, <1>7
<1>9. PICK Bad \in SUBSET Nat : Bad = {i \in Nat : i \in 0 .. n /\ F[i] # G[i]}
  OBVIOUS
<1>10. ASSUME Bad # {} PROVE FALSE
  <2>1. PICK m \in Bad : \A k \in Bad : m <= k
    BY <1>10, LeastNatural
  <2>2. m \in 0 .. n /\ F[m] # G[m]
    BY <1>9
  <2>3. m # 0
    BY <1>3, <1>7, <2>2
  <2>4. m \in 1 .. n /\ m - 1 \in 0 .. n /\ ~(m <= m - 1) /\ m - 1 \in Nat /\ m \in 1 .. N
    BY <1>8, <2>2, <2>3
  <2>5. F[m - 1] = G[m - 1]
    BY <1>9, <2>1, <2>4
  <2>6. F[m] = F[m - 1] \o parts[m] /\ G[m] = G[m - 1] \o parts[m]
    BY <1>3, <1>4, <1>7, <2>4
  <2>7. QED
    BY <2>2, <2>5, <2>6
<1>11. F[n + 1] = G[n] \o x
  <2>1. n \in 0 .. n /\ n + 1 \in 1 .. N /\ (n + 1) - 1 = n
    BY <1>8
  <2>2. F[n] = G[n]
    BY <1>9, <1>10, <2>1
  <2>3. F[n + 1] = F[n] \o all[n + 1]
    BY <1>7, <2>1
  <2>4. QED
    BY <1>4, <2>2, <2>3
<1>12. QED
  BY <1>1, <1>3, <1>5, <1>7, <1>8, <1>11

-----------------------------------------------------------------------------
(* What is said and what was sent.                                         *)

\* Some lines say what some others tell.
Agree(said, lines) ==
  Len(said) = Len(lines) /\ \A i \in 1 .. Len(said) : Matches(said[i], lines[i])

\* More is said of what is left.
LEMMA TellMore ==
  ASSUME NEW s, NEW o, NEW said, NEW lines, NEW rest, IsSequence(s), IsSequence(o),
         IsSequence(said), IsSequence(lines), IsSequence(rest),
         Telling(s, o, lines \o rest), Agree(said, lines)
  PROVE  Telling(s, o \o said, rest)
<1>1. PICK a \in Nat, b \in Nat, c \in Nat : a = Len(o) /\ b = Len(lines) /\ c = Len(rest)
  BY SequenceHas
<1>2. Len(said) = b /\ \A i \in 1 .. b : Matches(said[i], lines[i])
  BY <1>1 DEF Agree
<1>3. /\ IsSequence(lines \o rest) /\ Len(lines \o rest) = b + c
      /\ \A i \in 1 .. b : (lines \o rest)[i] = lines[i]
      /\ \A i \in 1 .. c : (lines \o rest)[b + i] = rest[i]
  BY <1>1, ConcatHas
<1>4. /\ IsSequence(o \o said) /\ Len(o \o said) = a + b
      /\ \A i \in 1 .. a : (o \o said)[i] = o[i]
      /\ \A i \in 1 .. b : (o \o said)[a + i] = said[i]
  <2>1. IsSequence(o) /\ IsSequence(said)
    OBVIOUS
  <2>2. /\ IsSequence(o \o said) /\ Len(o \o said) = Len(o) + Len(said)
        /\ \A i \in 1 .. Len(o) : (o \o said)[i] = o[i]
        /\ \A i \in 1 .. Len(said) : (o \o said)[Len(o) + i] = said[i]
    BY ONLY <2>1, ConcatHas
  <2>3. QED
    BY <1>1, <1>2, <2>2
<1>5. /\ DOMAIN (lines \o rest) = 1 .. b + c /\ DOMAIN (o \o said) = 1 .. a + b
      /\ DOMAIN rest = 1 .. c /\ DOMAIN o = 1 .. a
  BY <1>1, <1>3, <1>4, SequenceHas
<1>6. /\ Len(s) = a + (b + c)
      /\ \A i \in 1 .. a : Matches(o[i], s[i])
      /\ \A i \in 1 .. b + c : s[a + i] = (lines \o rest)[i]
  BY <1>1, <1>3, <1>5 DEF Telling
<1>7. Len(s) = (a + b) + c
  BY <1>1, <1>6
<1>8. ASSUME NEW i \in 1 .. a + b PROVE Matches((o \o said)[i], s[i])
  <2>1. CASE i <= a
    BY <1>4, <1>6, <2>1
  <2>2. CASE ~(i <= a)
    <3>1. PICK j \in 1 .. b : i = a + j
      <4>1. i - a \in 1 .. b /\ i = a + (i - a)
        BY <2>2
      <4>2. QED
        BY <4>1
    <3>2. j \in 1 .. b + c
      OBVIOUS
    <3>3. s[a + j] = lines[j]
      BY <1>3, <1>6, <3>2
    <3>4. (o \o said)[a + j] = said[j] /\ Matches(said[j], lines[j])
      BY <1>2, <1>4
    <3>5. QED
      BY <3>1, <3>3, <3>4
  <2>3. QED
    BY <2>1, <2>2
<1>9. ASSUME NEW i \in 1 .. c PROVE s[(a + b) + i] = rest[i]
  <2>1. b + i \in 1 .. b + c /\ a + (b + i) = (a + b) + i
    OBVIOUS
  <2>2. QED
    BY <1>3, <1>6, <2>1
<1>10. QED
  BY <1>1, <1>4, <1>5, <1>7, <1>8, <1>9 DEF Telling

\* More is sent when nothing is left.
LEMMA TellNext ==
  ASSUME NEW s, NEW o, NEW t, IsSequence(s), IsSequence(o), IsSequence(t),
         Telling(s, o, << >>)
  PROVE  Telling(s \o t, o, t)
<1>1. PICK a \in Nat, b \in Nat : a = Len(o) /\ b = Len(t)
  BY SequenceHas
<1>2. Len(<< >>) = 0
  BY ConcatNothing
<1>3. Len(s) = a /\ DOMAIN o = 1 .. a /\ DOMAIN t = 1 .. b
      /\ \A i \in 1 .. a : Matches(o[i], s[i])
  BY <1>1, <1>2, SequenceHas DEF Telling
<1>4. /\ Len(s \o t) = a + b
      /\ \A i \in 1 .. a : (s \o t)[i] = s[i]
      /\ \A i \in 1 .. b : (s \o t)[a + i] = t[i]
  BY <1>1, <1>3, ConcatHas
<1>5. QED
  BY <1>1, <1>3, <1>4 DEF Telling

-----------------------------------------------------------------------------
(* The lines of the reference.  Their recursion ends because nesting does. *)

\* What the lines of p are made of.
LinesOf(o, L, p) ==
  LET set == p[1]
      a == p[2]
      found == FoundIn(o, set, a)
      inner == SetWithin(o, set, a)
  IN  [depth \in Nat |->
         IF ~IsNest(a) THEN <<Line("value", depth, Label(found, a.id), a.bytes)>>
         ELSE IF ~Declared(o, inner) THEN <<OpenLine(depth, found), LostLine(depth + 1)>>
         ELSE IF inner = BitsetBit THEN <<BitLine(depth, SentBit(o, a.inner))>>
         ELSE <<OpenLine(depth, found)>>
              \o FlattenSeq([i \in DOMAIN a.inner |-> L[<<inner, a.inner[i]>>][depth + 1]])]

HasLines(o, L) == L = [p \in Sent[o] |-> LinesOf(o, L, p)]

In(o, p) == Within(o, p[1], p[2])

\* SentLines is one of them.
LEMMA SentLinesIs ==
  ASSUME NEW o
  PROVE  SentLines(o) = CHOOSE L : HasLines(o, L)
BY DEF SentLines, HasLines, LinesOf

\* They depend on those of the attributes in p only.
LEMMA LinesDepend ==
  ASSUME NEW o, NEW L, NEW M, NEW p, \A q \in In(o, p) : L[q] = M[q]
  PROVE  LinesOf(o, L, p) = LinesOf(o, M, p)
<1>1. PICK set, a : set = p[1] /\ a = p[2]
  OBVIOUS
<1>2. PICK inner : inner = SetWithin(o, set, a)
  OBVIOUS
<1>3. CASE IsNest(a) /\ Declared(o, inner) /\ inner # BitsetBit
  <2>1. \A i \in DOMAIN a.inner : L[<<inner, a.inner[i]>>] = M[<<inner, a.inner[i]>>]
    BY <1>1, <1>2, <1>3 DEF In, Within, IsWalked
  <2>2. \A depth \in Nat : [i \in DOMAIN a.inner |-> L[<<inner, a.inner[i]>>][depth + 1]]
                          = [i \in DOMAIN a.inner |-> M[<<inner, a.inner[i]>>][depth + 1]]
    BY <2>1
  <2>3. \A depth \in Nat : FlattenSeq([i \in DOMAIN a.inner |-> L[<<inner, a.inner[i]>>][depth + 1]])
                          = FlattenSeq([i \in DOMAIN a.inner |-> M[<<inner, a.inner[i]>>][depth + 1]])
    BY <2>2
  <2>4. PICK found : found = FoundIn(o, set, a)
    OBVIOUS
  <2>5. LinesOf(o, L, p) =
          [depth \in Nat |-> <<OpenLine(depth, found)>>
             \o FlattenSeq([i \in DOMAIN a.inner |-> L[<<inner, a.inner[i]>>][depth + 1]])]
    BY <1>1, <1>2, <1>3, <2>4 DEF LinesOf
  <2>6. LinesOf(o, M, p) =
          [depth \in Nat |-> <<OpenLine(depth, found)>>
             \o FlattenSeq([i \in DOMAIN a.inner |-> M[<<inner, a.inner[i]>>][depth + 1]])]
    BY <1>1, <1>2, <1>3, <2>4 DEF LinesOf
  <2>7. QED
    BY <2>3, <2>5, <2>6, Zenon
<1>4. CASE ~(IsNest(a) /\ Declared(o, inner) /\ inner # BitsetBit)
  BY <1>1, <1>2, <1>4 DEF LinesOf
<1>5. QED
  BY <1>3, <1>4

\* Of any attributes one has none of them in it.
LEMMA Innermost ==
  ASSUME NEW o \in DOMAIN Operations, NEW S \in SUBSET Sent[o], S # {}
  PROVE  \E p \in S : In(o, p) \cap S = {}
<1>1. PICK nests : nests = {p \in S : In(o, p) # {}}
  OBVIOUS
<1>2. nests \in SUBSET {p \in Sent[o] : Within(o, p[1], p[2]) # {}}
  BY <1>1 DEF In
<1>3. CASE nests = {}
  BY <1>1, <1>3
<1>4. CASE \E p \in S : p \notin nests
  BY <1>1, <1>4
<1>5. CASE nests # {} /\ \A p \in S : p \in nests
  <2>1. PICK p \in nests : Within(o, p[1], p[2]) \cap nests = {}
    BY <1>2, <1>5, NestingAssumption
  <2>2. nests = S
    BY <1>1, <1>5
  <2>3. QED
    BY <2>1, <2>2 DEF In
<1>6. QED
  BY <1>3, <1>4, <1>5

-----------------------------------------------------------------------------
(* The lines of a nested attribute, by recursion over the nesting.         *)

\* What the attributes of a reply have in them is sent, too.
LEMMA InSent ==
  ASSUME NEW o \in DOMAIN Operations, NEW p \in Sent[o]
  PROVE  In(o, p) \subseteq Sent[o]
BY ReplyAssumption DEF In

Closed(o, D) == D \subseteq Sent[o] /\ \A q \in D : In(o, q) \subseteq D

\* The lines of some attributes, with everything in them.
Solves(o, D, L) == Closed(o, D) /\ \A q \in D : L[q] = LinesOf(o, L, q)

\* They are the same wherever they are known.
LEMMA SolutionsAgree ==
  ASSUME NEW o \in DOMAIN Operations, NEW D, NEW L, NEW E, NEW M,
         Solves(o, D, L), Solves(o, E, M)
  PROVE  \A q \in D \cap E : L[q] = M[q]
<1>1. PICK S : S = {q \in D \cap E : L[q] # M[q]}
  OBVIOUS
<1>2. ASSUME S # {} PROVE FALSE
  <2>1. S \in SUBSET Sent[o]
    BY <1>1 DEF Solves, Closed
  <2>2. PICK p \in S : In(o, p) \cap S = {}
    BY <1>2, <2>1, Innermost
  <2>3. \A q \in In(o, p) : L[q] = M[q]
    BY <1>1, <2>2 DEF Solves, Closed
  <2>4. LinesOf(o, L, p) = LinesOf(o, M, p)
    BY <2>3, LinesDepend
  <2>5. L[p] = LinesOf(o, L, p) /\ M[p] = LinesOf(o, M, p)
    BY <1>1 DEF Solves
  <2>6. QED
    BY <1>1, <2>4, <2>5
<1>3. QED
  BY <1>1, <1>2

\* There are some: the innermost attribute without any could have them.
LEMMA LinesExist ==
  ASSUME NEW o \in DOMAIN Operations
  PROVE  \E L : HasLines(o, L)
<1> DEFINE Known(q) == \E D, L : q \in D /\ Solves(o, D, L)
           OfKnown(q) == CHOOSE L : \E D : q \in D /\ Solves(o, D, L)
<1>1. PICK G : G = {q \in Sent[o] : Known(q)}
  OBVIOUS
<1>2. PICK M : M = [q \in G |-> OfKnown(q)[q]]
  OBVIOUS
<1>3. ASSUME NEW q \in G
      PROVE  In(o, q) \subseteq G /\ M[q] = LinesOf(o, M, q)
  <2>1. PICK L : L = OfKnown(q)
    OBVIOUS
  <2>2. \E K : \E D : q \in D /\ Solves(o, D, K)
    BY <1>1
  <2>3. \E D : q \in D /\ Solves(o, D, L)
    BY <2>1, <2>2
  <2>4. PICK D : q \in D /\ Solves(o, D, L)
    BY <2>3
  <2>5. In(o, q) \subseteq D /\ D \subseteq Sent[o]
    BY <2>4 DEF Solves, Closed
  <2>6. \A r \in D : r \in G
    BY <1>1, <2>4, <2>5
  <2>7. ASSUME NEW r \in In(o, q) PROVE M[r] = L[r]
    <3>1. r \in D /\ r \in G
      BY <2>5, <2>6
    <3>2. PICK K : K = OfKnown(r)
      OBVIOUS
    <3>3. \E H : \E E : r \in E /\ Solves(o, E, H)
      BY <2>4, <3>1
    <3>4. \E E : r \in E /\ Solves(o, E, K)
      BY <3>2, <3>3
    <3>5. PICK E : r \in E /\ Solves(o, E, K)
      BY <3>4
    <3>6. L[r] = K[r]
      BY <2>4, <3>1, <3>5, SolutionsAgree
    <3>7. M[r] = K[r]
      BY <1>2, <3>1, <3>2
    <3>8. QED
      BY <3>6, <3>7
  <2>8. LinesOf(o, M, q) = LinesOf(o, L, q)
    BY <2>7, LinesDepend
  <2>9. L[q] = LinesOf(o, L, q)
    BY <2>4 DEF Solves
  <2>10. M[q] = L[q]
    BY <1>2, <2>1
  <2>11. QED
    BY <2>5, <2>6, <2>8, <2>9, <2>10
<1>4. ASSUME Sent[o] \ G # {} PROVE FALSE
  <2>1. PICK p \in Sent[o] \ G : In(o, p) \cap (Sent[o] \ G) = {}
    BY <1>4, Innermost
  <2>2. In(o, p) \subseteq G
    BY <2>1, InSent
  <2>3. PICK N : N = [q \in G \cup {p} |-> IF q = p THEN LinesOf(o, M, p) ELSE M[q]]
    OBVIOUS
  <2>4. \A q \in G : N[q] = M[q]
    BY <2>1, <2>3
  <2>5. N[p] = LinesOf(o, M, p)
    BY <2>3
  <2>6. LinesOf(o, N, p) = LinesOf(o, M, p)
    <3>1. \A q \in In(o, p) : N[q] = M[q]
      BY <2>2, <2>4
    <3>2. QED
      BY <3>1, LinesDepend
  <2>7. ASSUME NEW q \in G PROVE N[q] = LinesOf(o, N, q)
    <3>1. \A r \in In(o, q) : N[r] = M[r]
      BY <1>3, <2>4
    <3>2. LinesOf(o, N, q) = LinesOf(o, M, q)
      BY <3>1, LinesDepend
    <3>3. QED
      BY <1>3, <2>4, <3>2
  <2>8. Closed(o, G \cup {p})
    BY <1>1, <1>3, <2>2 DEF Closed
  <2>9. Solves(o, G \cup {p}, N)
    BY <2>5, <2>6, <2>7, <2>8 DEF Solves
  <2>10. p \in G
    BY <1>1, <2>9
  <2>11. QED
    BY <2>1, <2>10
<1>5. G = Sent[o]
  BY <1>1, <1>4
<1>6. PICK H : H = [p \in Sent[o] |-> LinesOf(o, M, p)]
  OBVIOUS
<1>7. M = H
  BY <1>2, <1>3, <1>5, <1>6
<1>8. HasLines(o, M)
  BY <1>6, <1>7 DEF HasLines
<1>9. QED
  BY <1>8

\* What the lines of an attribute are made of.
LEMMA LinesAt ==
  ASSUME NEW o \in DOMAIN Operations, NEW p \in Sent[o]
  PROVE  SentLines(o)[p] = LinesOf(o, SentLines(o), p)
<1>1. PICK L : L = SentLines(o)
  OBVIOUS
<1>2. HasLines(o, L)
  BY <1>1, LinesExist, SentLinesIs
<1>3. PICK H : H = [q \in Sent[o] |-> LinesOf(o, L, q)]
  OBVIOUS
<1>4. H[p] = LinesOf(o, L, p) /\ L = H
  BY <1>2, <1>3 DEF HasLines
<1>5. QED
  BY <1>1, <1>4

-----------------------------------------------------------------------------
(* What the lines of an attribute are, and those of several.               *)

\* A sequence of which something is made for each is one.
LEMMA SequenceFor ==
  ASSUME NEW s, IsSequence(s), NEW f, f = [i \in DOMAIN s |-> f[i]]
  PROVE  IsSequence(f) /\ Len(f) = Len(s)
<1>1. PICK n \in Nat : n = Len(s) /\ DOMAIN s = 1 .. n
  BY SequenceHas
<1>2. f = [i \in 1 .. n |-> f[i]]
  BY <1>1
<1>3. QED
  BY <1>1, <1>2, SequenceOf

\* The first of a sequence and the others.
LEMMA HeadAndTail ==
  ASSUME NEW s, IsSequence(s), s # << >>
  PROVE  \E n \in Nat :
           /\ Len(s) = n + 1 /\ DOMAIN s = 1 .. n + 1 /\ Head(s) = s[1]
           /\ IsSequence(Tail(s)) /\ Len(Tail(s)) = n /\ DOMAIN Tail(s) = 1 .. n
           /\ \A i \in 1 .. n : Tail(s)[i] = s[i + 1]
<1>1. PICK T : T = ToSet(s) /\ s \in Seq(T)
  BY DEF IsSequence
<1>2. PICK n \in Nat : Len(s) = n + 1
  <2>1. Len(s) \in Nat /\ Len(s) # 0
    BY <1>1, EmptySeq
  <2>2. Len(s) - 1 \in Nat /\ Len(s) = (Len(s) - 1) + 1
    BY <2>1
  <2>3. QED
    BY <2>2
<1>3. /\ Tail(s) \in Seq(T) /\ Len(Tail(s)) = Len(s) - 1 /\ Head(s) = s[1]
      /\ \A i \in 1 .. Len(Tail(s)) : Tail(s)[i] = s[i + 1]
  BY <1>1, HeadTailProperties
<1>4. Len(Tail(s)) = n
  BY <1>2, <1>3
<1>5. IsSequence(Tail(s))
  BY <1>3, SequenceOver
<1>6. DOMAIN s = 1 .. n + 1 /\ DOMAIN Tail(s) = 1 .. n
  BY <1>1, <1>2, <1>3, <1>4
<1>7. QED
  BY <1>2, <1>3, <1>4, <1>5, <1>6

\* What is made of the first and what is made of the others.
LEMMA FirstFor ==
  ASSUME NEW s, IsSequence(s), s # << >>, NEW f, f = [i \in DOMAIN s |-> f[i]],
         NEW g, g = [i \in DOMAIN Tail(s) |-> f[i + 1]]
  PROVE  f = <<f[1]>> \o g /\ IsSequence(g)
<1>1. PICK n \in Nat :
           /\ Len(s) = n + 1 /\ DOMAIN s = 1 .. n + 1 /\ Head(s) = s[1]
           /\ IsSequence(Tail(s)) /\ Len(Tail(s)) = n /\ DOMAIN Tail(s) = 1 .. n
           /\ \A i \in 1 .. n : Tail(s)[i] = s[i + 1]
  BY HeadAndTail
<1>2. IsSequence(f) /\ Len(f) = n + 1
  BY <1>1, SequenceFor
<1>3. IsSequence(g) /\ Len(g) = n
  <2>1. g = [i \in 1 .. n |-> g[i]]
    BY <1>1
  <2>2. QED
    BY <2>1, SequenceOf
<1>4. PICK x : x = f[1]
  OBVIOUS
<1>5. IsSequence(<<x>>) /\ Len(<<x>>) = 1 /\ <<x>>[1] = x
  BY ShortSequences
<1>6. PICK h : h = <<x>> \o g
  OBVIOUS
<1>7. /\ IsSequence(h) /\ Len(h) = 1 + n
      /\ \A i \in 1 .. 1 : h[i] = <<x>>[i]
      /\ \A i \in 1 .. n : h[1 + i] = g[i]
  BY <1>3, <1>5, <1>6, ConcatHas
<1>8. ASSUME NEW i \in 1 .. n + 1 PROVE f[i] = h[i]
  <2>1. CASE i = 1
    BY <1>4, <1>5, <1>7, <2>1
  <2>2. CASE i # 1
    <3>1. i - 1 \in 1 .. n /\ 1 + (i - 1) = i /\ (i - 1) + 1 = i
      BY <2>2
    <3>2. h[1 + (i - 1)] = g[i - 1]
      BY <1>7, <3>1
    <3>3. g[i - 1] = f[(i - 1) + 1]
      BY <1>1, <3>1
    <3>4. QED
      BY <3>1, <3>2, <3>3
  <2>3. QED
    BY <2>1, <2>2
<1>9. f = h
  BY <1>2, <1>7, <1>8, SequencesEqual
<1>10. QED
  BY <1>3, <1>4, <1>6, <1>9

-----------------------------------------------------------------------------
\* The lines of each of some attributes.
LinesFor(o, set, attrs, depth) == [i \in DOMAIN attrs |-> SentLines(o)[<<set, attrs[i]>>][depth]]

SentAll(o, set, attrs) == IsSequence(attrs) /\ \A i \in DOMAIN attrs : <<set, attrs[i]>> \in Sent[o]

\* The lines of an attribute, case by case.
LinesFit(o, inner, found, a, depth, lines) ==
  /\ ~IsNest(a) => lines = <<Line("value", depth, Label(found, a.id), a.bytes)>>
  /\ IsNest(a) /\ ~Declared(o, inner) => lines = <<OpenLine(depth, found), LostLine(depth + 1)>>
  /\ IsNest(a) /\ Declared(o, inner) /\ inner = BitsetBit =>
       lines = <<BitLine(depth, SentBit(o, a.inner))>>
  /\ IsNest(a) /\ Declared(o, inner) /\ inner # BitsetBit =>
       /\ lines = <<OpenLine(depth, found)>> \o SentAttrs(o, inner, a.inner, depth + 1)
       /\ SentAll(o, inner, a.inner)

\* They are what the cases of SentLines say.
LEMMA LinesCases ==
  ASSUME NEW o \in DOMAIN Operations, NEW set, NEW a, <<set, a>> \in Sent[o], NEW depth \in Nat
  PROVE  LinesFit(o, SetWithin(o, set, a), FoundIn(o, set, a), a, depth,
                  SentLines(o)[<<set, a>>][depth])
<1>0. PICK found, inner, lines : /\ found = FoundIn(o, set, a) /\ inner = SetWithin(o, set, a)
                                 /\ lines = SentLines(o)[<<set, a>>][depth]
  OBVIOUS
<1>1. PICK p : p = <<set, a>>
  OBVIOUS
<1>2. p \in Sent[o] /\ p[1] = set /\ p[2] = a
  BY <1>1
<1>3. PICK L : L = SentLines(o)
  OBVIOUS
<1>4. L[p] = LinesOf(o, L, p)
  BY <1>2, <1>3, LinesAt
<1>5. lines = L[p][depth]
  BY <1>0, <1>1, <1>3
<1>6. ASSUME ~IsNest(a) PROVE LinesFit(o, inner, found, a, depth, lines)
  <2>1. LinesOf(o, L, p)[depth] = <<Line("value", depth, Label(found, a.id), a.bytes)>>
    BY <1>0, <1>2, <1>6 DEF LinesOf
  <2>2. QED
    BY <1>4, <1>5, <1>6, <2>1 DEF LinesFit
<1>7. ASSUME IsNest(a) /\ ~Declared(o, inner) PROVE LinesFit(o, inner, found, a, depth, lines)
  <2>1. LinesOf(o, L, p)[depth] = <<OpenLine(depth, found), LostLine(depth + 1)>>
    BY <1>0, <1>2, <1>7 DEF LinesOf
  <2>2. QED
    BY <1>4, <1>5, <1>7, <2>1 DEF LinesFit
<1>8. ASSUME IsNest(a) /\ Declared(o, inner) /\ inner = BitsetBit PROVE LinesFit(o, inner, found, a, depth, lines)
  <2>1. LinesOf(o, L, p)[depth] = <<BitLine(depth, SentBit(o, a.inner))>>
    BY <1>0, <1>2, <1>8 DEF LinesOf
  <2>2. QED
    BY <1>4, <1>5, <1>8, <2>1 DEF LinesFit
<1>9. ASSUME IsNest(a) /\ Declared(o, inner) /\ inner # BitsetBit PROVE LinesFit(o, inner, found, a, depth, lines)
  <2>1. LinesOf(o, L, p)[depth]
          = <<OpenLine(depth, found)>>
            \o FlattenSeq([i \in DOMAIN a.inner |-> L[<<inner, a.inner[i]>>][depth + 1]])
    BY <1>0, <1>2, <1>9 DEF LinesOf
  <2>2. FlattenSeq([i \in DOMAIN a.inner |-> L[<<inner, a.inner[i]>>][depth + 1]])
          = SentAttrs(o, inner, a.inner, depth + 1)
    BY <1>3 DEF SentAttrs
  <2>3. In(o, p) \subseteq Sent[o] /\ IsSequence(a.inner)
    BY <1>2, InSent, ReplyAssumption
  <2>4. \A i \in DOMAIN a.inner : <<inner, a.inner[i]>> \in Sent[o]
    BY <1>0, <1>2, <1>9, <2>3 DEF In, Within, IsWalked
  <2>5. QED
    BY <1>4, <1>5, <1>9, <2>1, <2>2, <2>3, <2>4 DEF SentAll, LinesFit
<1>10. LinesFit(o, inner, found, a, depth, lines)
  BY <1>6, <1>7, <1>8, <1>9
<1>11. QED
  BY <1>0, <1>10

\* The lines of an attribute are a sequence: so are those of what is in it.
LEMMA LinesSequence ==
  ASSUME NEW o \in DOMAIN Operations, NEW p \in Sent[o], NEW depth \in Nat
  PROVE  IsSequence(SentLines(o)[p][depth])
<1>1. PICK L : L = SentLines(o)
  OBVIOUS
<1>2. PICK S : S = {q \in Sent[o] : \E d \in Nat : ~IsSequence(L[q][d])}
  OBVIOUS
<1>3. ASSUME S # {} PROVE FALSE
  <2>1. PICK q \in S : In(o, q) \cap S = {}
    <3>1. S \in SUBSET Sent[o]
      BY <1>2
    <3>2. QED
      BY <1>3, <3>1, Innermost
  <2>2. PICK d \in Nat : ~IsSequence(L[q][d])
    BY <1>2
  <2>3. L[q] = LinesOf(o, L, q) /\ q \in Sent[o] /\ In(o, q) \subseteq Sent[o]
    BY <1>1, <1>2, LinesAt, InSent
  <2>4. PICK set, a : set = q[1] /\ a = q[2]
    OBVIOUS
  <2>5. PICK inner : inner = SetWithin(o, set, a)
    OBVIOUS
  <2>6. PICK found : found = FoundIn(o, set, a)
    OBVIOUS
  <2>7. CASE IsNest(a) /\ Declared(o, inner) /\ inner # BitsetBit
    <3>1. PICK f : f = [i \in DOMAIN a.inner |-> L[<<inner, a.inner[i]>>][d + 1]]
      OBVIOUS
    <3>2. L[q][d] = <<OpenLine(d, found)>> \o FlattenSeq(f)
      BY <2>3, <2>4, <2>5, <2>6, <2>7, <3>1 DEF LinesOf
    <3>3. \A i \in DOMAIN a.inner : <<inner, a.inner[i]>> \in In(o, q)
      BY <2>4, <2>5, <2>7 DEF In, Within, IsWalked
    <3>4. \A i \in DOMAIN a.inner : IsSequence(f[i])
      <4>1. SUFFICES ASSUME NEW i \in DOMAIN a.inner PROVE IsSequence(f[i])
        OBVIOUS
      <4>2. PICK r : r = <<inner, a.inner[i]>>
        OBVIOUS
      <4>3. r \in Sent[o] /\ r \notin S
        BY <2>1, <2>3, <3>3, <4>2
      <4>4. d + 1 \in Nat
        OBVIOUS
      <4>5. IsSequence(L[r][d + 1])
        BY <1>2, <4>3, <4>4
      <4>6. QED
        BY <3>1, <4>2, <4>5
    <3>5. IsSequence(a.inner)
      BY <2>3, <2>4, ReplyAssumption
    <3>6. DOMAIN a.inner = 1 .. Len(a.inner)
      BY <3>5, SequenceHas
    <3>7. IsSequence(f) /\ Len(f) = Len(a.inner)
      <4>1. f = [i \in DOMAIN a.inner |-> f[i]]
        BY <3>1
      <4>2. QED
        BY <3>5, <4>1, SequenceFor
    <3>8. Parts(f)
      BY <3>4, <3>6, <3>7 DEF Parts
    <3>9. IsSequence(FlattenSeq(f))
      BY <3>8, FlattenSequence
    <3>10. IsSequence(<<OpenLine(d, found)>>)
      BY ShortSequences
    <3>11. QED
      BY <2>2, <3>2, <3>9, <3>10, ConcatHas
  <2>8. CASE ~(IsNest(a) /\ Declared(o, inner) /\ inner # BitsetBit)
    <3>1. CASE ~IsNest(a)
      <4>1. L[q][d] = <<Line("value", d, Label(found, a.id), a.bytes)>>
        BY <2>3, <2>4, <2>6, <3>1 DEF LinesOf
      <4>2. PICK x : x = Line("value", d, Label(found, a.id), a.bytes)
        OBVIOUS
      <4>3. IsSequence(<<x>>)
        BY ShortSequences
      <4>4. QED
        BY <2>2, <4>1, <4>2, <4>3
    <3>2. CASE IsNest(a) /\ ~Declared(o, inner)
      <4>1. L[q][d] = <<OpenLine(d, found), LostLine(d + 1)>>
        BY <2>3, <2>4, <2>5, <2>6, <3>2 DEF LinesOf
      <4>2. PICK x, y : x = OpenLine(d, found) /\ y = LostLine(d + 1)
        OBVIOUS
      <4>3. IsSequence(<<x, y>>)
        BY ShortSequences
      <4>4. QED
        BY <2>2, <4>1, <4>2, <4>3
    <3>3. CASE IsNest(a) /\ Declared(o, inner) /\ inner = BitsetBit
      <4>1. L[q][d] = <<BitLine(d, SentBit(o, a.inner))>>
        BY <2>3, <2>4, <2>5, <3>3 DEF LinesOf
      <4>2. PICK x : x = BitLine(d, SentBit(o, a.inner))
        OBVIOUS
      <4>3. IsSequence(<<x>>)
        BY ShortSequences
      <4>4. QED
        BY <2>2, <4>1, <4>2, <4>3
    <3>4. QED
      BY <2>8, <3>1, <3>2, <3>3
  <2>9. QED
    BY <2>7, <2>8
<1>4. QED
  BY <1>1, <1>2, <1>3

\* Those of some attributes are sequences in a sequence.
LEMMA LinesForParts ==
  ASSUME NEW o \in DOMAIN Operations, NEW set, NEW attrs, SentAll(o, set, attrs), NEW depth \in Nat
  PROVE  Parts(LinesFor(o, set, attrs, depth))
<1>1. PICK f : f = LinesFor(o, set, attrs, depth)
  OBVIOUS
<1>2. f = [i \in DOMAIN attrs |-> f[i]] /\ IsSequence(attrs)
  BY <1>1 DEF LinesFor, SentAll
<1>3. IsSequence(f) /\ Len(f) = Len(attrs) /\ DOMAIN attrs = 1 .. Len(attrs)
  BY <1>2, SequenceFor, SequenceHas
<1>4. \A i \in DOMAIN attrs : IsSequence(f[i])
  BY <1>1, LinesSequence DEF LinesFor, SentAll
<1>5. QED
  BY <1>1, <1>3, <1>4 DEF Parts

\* And those of all of them one.
LEMMA AttrsSequence ==
  ASSUME NEW o \in DOMAIN Operations, NEW set, NEW attrs, SentAll(o, set, attrs), NEW depth \in Nat
  PROVE  IsSequence(SentAttrs(o, set, attrs, depth))
<1>1. IsSequence(FlattenSeq(LinesFor(o, set, attrs, depth)))
  BY LinesForParts, FlattenSequence
<1>2. QED
  BY <1>1 DEF SentAttrs, LinesFor

\* No attributes, no lines.
LEMMA AttrsNone ==
  ASSUME NEW o, NEW set, NEW depth
  PROVE  SentAttrs(o, set, << >>, depth) = << >>
<1>1. PICK f : f = [i \in DOMAIN << >> |-> SentLines(o)[<<set, << >>[i]>>][depth]]
  OBVIOUS
<1>2. f = << >>
  BY <1>1
<1>3. FlattenSeq(<< >>) = << >>
  BY DEF FlattenSeq
<1>4. QED
  BY <1>1, <1>2, <1>3 DEF SentAttrs

\* The lines of the first attribute come before those of the others.
FirstBefore(o, set, attrs, depth) ==
  /\ SentAttrs(o, set, attrs, depth)
       = SentLines(o)[<<set, Head(attrs)>>][depth] \o SentAttrs(o, set, Tail(attrs), depth)
  /\ <<set, Head(attrs)>> \in Sent[o] /\ SentAll(o, set, Tail(attrs))

\* That is how the lines of some attributes begin.
LEMMA AttrsFirst ==
  ASSUME NEW o \in DOMAIN Operations, NEW set, NEW attrs, SentAll(o, set, attrs), attrs # << >>,
         NEW depth \in Nat
  PROVE  FirstBefore(o, set, attrs, depth)
<1>1. PICK n \in Nat :
           /\ Len(attrs) = n + 1 /\ DOMAIN attrs = 1 .. n + 1 /\ Head(attrs) = attrs[1]
           /\ IsSequence(Tail(attrs)) /\ Len(Tail(attrs)) = n /\ DOMAIN Tail(attrs) = 1 .. n
           /\ \A i \in 1 .. n : Tail(attrs)[i] = attrs[i + 1]
  BY HeadAndTail DEF SentAll
<1>2. <<set, Head(attrs)>> \in Sent[o]
  <2>1. 1 \in 1 .. n + 1
    OBVIOUS
  <2>2. QED
    BY <1>1, <2>1 DEF SentAll
<1>3. SentAll(o, set, Tail(attrs))
  <2>1. \A i \in 1 .. n : i + 1 \in 1 .. n + 1
    OBVIOUS
  <2>2. QED
    BY <1>1, <2>1 DEF SentAll
<1>4. PICK f : f = LinesFor(o, set, attrs, depth)
  OBVIOUS
<1>5. PICK g : g = LinesFor(o, set, Tail(attrs), depth)
  OBVIOUS
<1>6. g = [i \in DOMAIN Tail(attrs) |-> f[i + 1]]
  <2>1. PICK h : h = [i \in DOMAIN Tail(attrs) |-> f[i + 1]]
    OBVIOUS
  <2>2. ASSUME NEW i \in 1 .. n PROVE g[i] = h[i]
    <3>1. i + 1 \in 1 .. n + 1
      OBVIOUS
    <3>2. QED
      BY <1>1, <1>4, <1>5, <2>1, <3>1 DEF LinesFor
  <2>3. g = [i \in 1 .. n |-> g[i]] /\ h = [i \in 1 .. n |-> h[i]]
    BY <1>1, <1>5, <2>1 DEF LinesFor
  <2>4. g = h
    BY <2>2, <2>3
  <2>5. QED
    BY <2>1, <2>4
<1>7. f = <<f[1]>> \o g
  <2>1. f = [i \in DOMAIN attrs |-> f[i]]
    BY <1>4 DEF LinesFor
  <2>2. QED
    BY <1>6, <2>1, FirstFor DEF SentAll
<1>8. Parts(f) /\ Parts(g)
  BY <1>3, <1>4, <1>5, LinesForParts
<1>9. PICK x : x = f[1]
  OBVIOUS
<1>10. x = SentLines(o)[<<set, Head(attrs)>>][depth]
  BY <1>1, <1>4, <1>9 DEF LinesFor
<1>11. IsSequence(x)
  BY <1>2, <1>10, LinesSequence
<1>12. FlattenSeq(<<x>> \o g) = x \o FlattenSeq(g)
  BY <1>8, <1>11, FlattenFirst
<1>13. FlattenSeq(f) = x \o FlattenSeq(g)
  BY <1>7, <1>9, <1>12
<1>14. FlattenSeq(f) = SentAttrs(o, set, attrs, depth)
  BY <1>4 DEF LinesFor, SentAttrs
<1>15. FlattenSeq(g) = SentAttrs(o, set, Tail(attrs), depth)
  BY <1>5 DEF LinesFor, SentAttrs
<1>16. QED
  BY <1>2, <1>3, <1>10, <1>13, <1>14, <1>15 DEF FirstBefore

-----------------------------------------------------------------------------
(* ykern finds the set the kernel used.                                    *)

\* A look-up finds nothing, or one set of that name.
LEMMA FindSetFinds ==
  ASSUME NEW overlay, IsSequence(overlay.sets), NEW name, NEW found,
         found = FindSet(overlay, name), found # << >>
  PROVE  \E s : found = <<s>> /\ s.name = name /\ name # NoName
<1>1. PICK sets : sets = overlay.sets
  OBVIOUS
<1>2. PICK hits : hits = {i \in DOMAIN sets : sets[i].name = name}
  OBVIOUS
<1>3. found = IF name = NoName THEN << >>
              ELSE IF hits = {} THEN << >> ELSE <<sets[Min(hits)]>>
  BY <1>1, <1>2 DEF FindSet, FirstWhere
<1>4. name # NoName /\ hits # {} /\ found = <<sets[Min(hits)]>>
  BY <1>3
<1>5. DOMAIN sets \subseteq Nat
  <2>1. DOMAIN sets = 1 .. Len(sets)
    BY <1>1, SequenceHas
  <2>2. QED
    BY <2>1
<1>6. hits \in SUBSET Nat
  BY <1>2, <1>5
<1>7. \E x \in hits : \A y \in hits : x <= y
  BY <1>4, <1>6, LeastNatural
<1>8. Min(hits) \in hits
  BY <1>7 DEF Min
<1>9. PICK s : s = sets[Min(hits)]
  OBVIOUS
<1>10. s.name = name
  BY <1>2, <1>8, <1>9
<1>11. QED
  BY <1>4, <1>9, <1>10

\* The first of two look-ups that finds something.
LEMMA FirstFound ==
  ASSUME NEW f, NEW g, f = << >> \/ \E x : f = <<x>>, g = << >> \/ \E x : g = <<x>>
  PROVE  First(f \o g) = IF f # << >> THEN f ELSE g
<1>1. CASE f = << >>
  <2>1. << >> \o g = g
    <3>1. IsSequence(g)
      BY ConcatNothing, ShortSequences
    <3>2. QED
      BY <3>1, ConcatNothing
  <2>2. First(g) = g
    <3>1. CASE g = << >>
      BY <3>1 DEF First
    <3>2. CASE g # << >>
      <4>1. PICK x : g = <<x>>
        BY <3>2
      <4>2. QED
        BY <4>1 DEF First
    <3>3. QED
      BY <3>1, <3>2
  <2>3. QED
    BY <1>1, <2>1, <2>2
<1>2. CASE f # << >>
  <2>1. PICK x : f = <<x>>
    BY <1>2
  <2>2. IsSequence(<<x>>) /\ Len(<<x>>) = 1 /\ <<x>>[1] = x
    BY ShortSequences
  <2>3. IsSequence(g)
    BY ConcatNothing, ShortSequences
  <2>4. PICK h : h = <<x>> \o g
    OBVIOUS
  <2>5. IsSequence(h) /\ Len(h) = 1 + Len(g) /\ \A i \in 1 .. 1 : h[i] = <<x>>[i]
    BY <2>2, <2>3, <2>4, ConcatHas
  <2>6. Len(g) \in Nat
    BY <2>3, SequenceHas
  <2>7. h # << >> /\ h[1] = x
    <3>1. Len(<< >>) = 0
      BY ConcatNothing
    <3>2. Len(h) # 0 /\ 1 \in 1 .. 1
      BY <2>5, <2>6
    <3>3. QED
      BY <2>2, <2>5, <3>1, <3>2
  <2>8. Head(h) = h[1]
    <3>1. h \in Seq(ToSet(h))
      BY <2>5 DEF IsSequence
    <3>2. QED
      BY <2>7, <3>1
  <2>9. First(h) = <<x>>
    BY <2>7, <2>8 DEF First
  <2>10. QED
    BY <1>2, <2>1, <2>4, <2>9
<1>3. QED
  BY <1>1, <1>2

\* What ykern takes for the set of a nested attribute is the one it was sent
\* with, as far as it is declared.
LEMMA ChildIsSent ==
  ASSUME NEW o \in DOMAIN Operations, NEW set, NEW a, <<set, a>> \in Sent[o],
         NEW overlay, overlay = Operations[o].overlay,
         NEW found, found = FoundIn(o, set, a), NEW inner, inner = SetWithin(o, set, a),
         NEW child, child = ChildSet(overlay, FindSet(overlay, set)[1], found)
  PROVE  /\ ~IsNest(a) => child = << >> /\ ~a.flag
         /\ IsNest(a) /\ ~Declared(o, inner) => child = << >> /\ a.flag
         /\ IsNest(a) /\ Declared(o, inner) => child = FindSet(overlay, inner)
<1>1. /\ Declared(o, set) /\ NestTold(o, set, a)
      /\ IsSequence(overlay.sets)
  <2>1. PICK p : p = <<set, a>>
    OBVIOUS
  <2>2. p \in Sent[o] /\ p[1] = set /\ p[2] = a
    BY <2>1
  <2>3. Declared(o, p[1]) /\ NestTold(o, p[1], p[2]) /\ IsSequence(Operations[o].overlay.sets)
    BY <2>2, ReplyAssumption
  <2>4. QED
    BY <2>2, <2>3
<1>2. PICK s : FindSet(overlay, set) = <<s>> /\ s.name = set
  BY <1>1, FindSetFinds DEF Declared
<1>3. \A name : FindSet(overlay, name) = << >> \/ \E x : FindSet(overlay, name) = <<x>>
  BY <1>1, FindSetFinds
<1>4. Declared(o, NoName) = FALSE
  BY DEF Declared, FindSet
<1>5. CASE found = << >>
  <2>1. child = << >>
    BY <1>5 DEF ChildSet
  <2>2. ~Namesake(o, found)
    BY <1>5 DEF Namesake
  <2>3. inner = a.schema
    BY <2>2 DEF SetWithin
  <2>4. QED
    BY <1>1, <1>4, <1>5, <2>1, <2>2, <2>3 DEF NestTold, IsNest
<1>6. CASE found # << >>
  <2>1. PICK name, alias : name = found[1].name /\ alias = Alias(set, name)
    OBVIOUS
  <2>2. child = First(FindSet(overlay, name) \o FindSet(overlay, alias))
    BY <1>2, <1>6, <2>1 DEF ChildSet
  <2>3. child = IF FindSet(overlay, name) # << >> THEN FindSet(overlay, name)
                ELSE FindSet(overlay, alias)
    <3>1. PICK f, g : f = FindSet(overlay, name) /\ g = FindSet(overlay, alias)
      OBVIOUS
    <3>2. (f = << >> \/ \E x : f = <<x>>) /\ (g = << >> \/ \E x : g = <<x>>)
      BY <1>3, <3>1
    <3>3. First(f \o g) = IF f # << >> THEN f ELSE g
      BY <3>2, FirstFound
    <3>4. QED
      BY <2>2, <3>1, <3>3
  <2>4. Namesake(o, found) <=> FindSet(overlay, name) # << >>
    BY <1>6, <2>1 DEF Namesake, Declared
  <2>5. inner = IF Namesake(o, found) THEN name ELSE a.schema
    BY <2>1 DEF SetWithin
  <2>6. IF IsNest(a)
        THEN /\ \/ Namesake(o, found) \/ alias = a.schema
                \/ ~Declared(o, alias) /\ ~Declared(o, a.schema)
             /\ ~Declared(o, inner) => a.flag
        ELSE ~Namesake(o, found) /\ ~Declared(o, alias) /\ ~a.flag
    BY <1>1, <1>6, <2>1 DEF NestTold
  <2>7. QED
    BY <2>3, <2>4, <2>5, <2>6 DEF Declared
<1>7. QED
  BY <1>5, <1>6

\* The nested attributes ykern writes on a line are those that are bits.
LEMMA BitsFold ==
  ASSUME NEW o \in DOMAIN Operations, NEW overlay, overlay = Operations[o].overlay,
         NEW inner, Declared(o, inner), NEW child, child = FindSet(overlay, inner)
  PROVE  /\ child # << >> /\ child[1].name = inner /\ child = <<child[1]>>
         /\ IsCompact(child[1]) <=> inner = BitsetBit
         /\ inner = BitsetBit =>
              \A key \in {"INDEX", "NAME", "VALUE"} : BitIds(child[1])[key][1].id = BitId(o, key)
<1>1. IsSequence(overlay.sets)
  BY ReplyAssumption
<1>2. PICK s : child = <<s>> /\ s.name = inner
  BY <1>1, FindSetFinds DEF Declared
<1>3. child # << >> /\ child[1] = s
  BY <1>2
<1>4. ASSUME inner = BitsetBit
      PROVE  \A key \in {"INDEX", "NAME", "VALUE"} :
               /\ LookupName(<<s>>, <<key>>) # << >>
               /\ LookupName(<<s>>, <<key>>)[1].id = BitId(o, key)
  <2>1. FindSet(overlay, BitsetBit) = <<s>>
    BY <1>2, <1>4
  <2>2. QED
    BY <1>4, <2>1, ReplyAssumption DEF BitId
<1>5. \A key \in {"INDEX", "NAME", "VALUE"} : BitIds(s)[key] = LookupName(<<s>>, <<key>>)
  BY DEF BitIds
<1>6. DOMAIN BitIds(s) = {"INDEX", "NAME", "VALUE"}
  BY DEF BitIds
<1>7. IsCompact(s) <=> inner = BitsetBit
  BY <1>2, <1>4, <1>5, <1>6 DEF IsCompact
<1>8. QED
  BY <1>2, <1>3, <1>4, <1>5, <1>7

-----------------------------------------------------------------------------
(* The payload can be read off what is shown.                              *)

\* b is the first n of a sequence.
Begins(b, s, n) ==
  /\ IsSequence(b) /\ Len(b) = n /\ \A i \in 1 .. n : b[i] = s[i]
  /\ IsPrefix(b, s) /\ (n = Len(s) => b = s)

\* The beginning of a sequence.
LEMMA Beginning ==
  ASSUME NEW s, IsSequence(s), NEW n \in Nat, n <= Len(s), NEW b, b = SubSeq(s, 1, n)
  PROVE  Begins(b, s, n)
<1>1. PICK T : T = ToSet(s) /\ s \in Seq(T)
  BY DEF IsSequence
<1>2. PICK len \in Nat : len = Len(s) /\ DOMAIN s = 1 .. len
  BY SequenceHas
<1>3. \A i \in 1 .. n : s[i] \in T
  BY <1>1, <1>2
<1>4. /\ b \in Seq(T) /\ Len(b) = IF 1 <= n THEN n - 1 + 1 ELSE 0
      /\ \A i \in 1 .. n - 1 + 1 : b[i] = s[1 + i - 1]
  BY <1>3, SubSeqProperties
<1>5. Len(b) = n /\ \A i \in 1 .. n : b[i] = s[i]
  BY <1>4
<1>6. IsSequence(b)
  BY <1>4, SequenceOver
<1>7. SubSeq(b, 1, Len(b)) = b
  BY <1>4, SubSeqFull
<1>8. IsPrefix(b, s)
  BY <1>2, <1>5, <1>7 DEF IsPrefix
<1>9. n = Len(s) => b = s
  BY <1>5, <1>6, SequencesEqual
<1>10. QED
  BY <1>5, <1>6, <1>8, <1>9 DEF Begins

\* The first bytes of a payload, all of a short one.
LEMMA FirstBytesAre ==
  ASSUME NEW bytes, IsSequence(bytes), NEW n \in Nat, NEW b, b = FirstBytes(bytes, n)
  PROVE  /\ IsSequence(b) /\ IsPrefix(b, bytes)
         /\ Len(bytes) <= n => b = bytes
         /\ Len(bytes) = Len(b) \/ Len(b) = n
<1>1. PICK len \in Nat : len = Len(bytes)
  BY SequenceHas
<1>2. PICK m \in Nat : m = Shorter(n, len) /\ m <= len
  BY DEF Shorter
<1>3. b = SubSeq(bytes, 1, m)
  BY <1>1, <1>2 DEF FirstBytes
<1>4. IsSequence(b) /\ Len(b) = m /\ IsPrefix(b, bytes) /\ (m = len => b = bytes)
  <2>1. m \in Nat /\ m <= Len(bytes) /\ IsSequence(bytes)
    BY <1>1, <1>2
  <2>2. Begins(b, bytes, m)
    BY ONLY <1>3, <2>1, Beginning
  <2>3. QED
    BY <1>1, <2>2 DEF Begins
<1>5. len <= n => m = len
  BY <1>2 DEF Shorter
<1>6. len = m \/ m = n
  BY <1>2 DEF Shorter
<1>7. QED
  BY <1>1, <1>4, <1>5, <1>6

\* A text and the NUL it had.
LEMMA FrontAndNul ==
  ASSUME NEW bytes, IsSequence(bytes), bytes # << >>, Last(bytes) = 0
  PROVE  Front(bytes) \o <<0>> = bytes
<1>1. PICK len \in Nat : len = Len(bytes) /\ DOMAIN bytes = 1 .. len
  BY SequenceHas
<1>2. len # 0
  <2>1. bytes \in Seq(ToSet(bytes))
    BY DEF IsSequence
  <2>2. QED
    BY <1>1, <2>1, EmptySeq
<1>3. PICK m \in Nat : m = len - 1 /\ len = m + 1
  BY <1>2
<1>4. PICK b : b = Front(bytes)
  OBVIOUS
<1>5. b = SubSeq(bytes, 1, m)
  BY <1>1, <1>3, <1>4 DEF Front
<1>6. IsSequence(b) /\ Len(b) = m /\ \A i \in 1 .. m : b[i] = bytes[i]
  <2>1. m <= Len(bytes)
    BY <1>1, <1>3
  <2>2. m \in Nat /\ IsSequence(bytes)
    OBVIOUS
  <2>3. Begins(b, bytes, m)
    BY ONLY <1>5, <2>1, <2>2, Beginning
  <2>4. QED
    BY <2>3 DEF Begins
<1>7. IsSequence(<<0>>) /\ Len(<<0>>) = 1 /\ <<0>>[1] = 0
  BY ShortSequences
<1>8. PICK h : h = b \o <<0>>
  OBVIOUS
<1>9. /\ IsSequence(h) /\ Len(h) = m + 1
      /\ \A i \in 1 .. m : h[i] = b[i]
      /\ \A i \in 1 .. 1 : h[m + i] = <<0>>[i]
  BY <1>6, <1>7, <1>8, ConcatHas
<1>10. bytes[m + 1] = 0
  BY <1>1, <1>3 DEF Last
<1>11. ASSUME NEW i \in 1 .. m + 1 PROVE h[i] = bytes[i]
  <2>1. CASE i = m + 1
    <3>1. 1 \in 1 .. 1
      OBVIOUS
    <3>2. QED
      BY <1>7, <1>9, <1>10, <2>1, <3>1
  <2>2. CASE i # m + 1
    <3>1. i \in 1 .. m
      BY <2>2
    <3>2. QED
      BY <1>6, <1>9, <3>1
  <2>3. QED
    BY <2>1, <2>2
<1>12. h = bytes
  BY <1>1, <1>3, <1>9, <1>11, SequencesEqual
<1>13. QED
  BY <1>4, <1>8, <1>12

\* The beginning of a long payload tells it.
LEMMA BlobTells ==
  ASSUME NEW bytes, NEW b, NEW n \in Nat, n >= RtnlShown, IsPrefix(b, bytes),
         Len(bytes) = Len(b) \/ Len(b) = n
  PROVE  Tells(Shown("blob", b, Len(bytes)), bytes)
<1>1. PICK shown : shown = Shown("blob", b, Len(bytes))
  OBVIOUS
<1>2. shown.as = "blob" /\ shown.bytes = b /\ shown.len = Len(bytes)
  BY <1>1 DEF Shown
<1>3. Len(b) = Len(bytes) \/ Len(b) >= RtnlShown
  OBVIOUS
<1>4. Tells(shown, bytes)
  BY <1>2, <1>3 DEF Tells
<1>5. QED
  BY <1>1, <1>4

\* The value shown of a scalar tells its payload.
LEMMA ScalarTells ==
  ASSUME NEW bytes, IsSequence(bytes)
  PROVE  Tells(Scalar(bytes), bytes)
<1>1. PICK len \in Nat : len = Len(bytes)
  BY SequenceHas
<1>2. CASE bytes = << >>
  <2>1. Len(bytes) = 0
    BY <1>2, ConcatNothing
  <2>2. Scalar(bytes) = Shown("flag", << >>, 0)
    BY <1>2, <2>1 DEF Scalar, Widths
  <2>3. QED
    BY <1>2, <2>2 DEF Tells, Shown
<1>3. CASE bytes # << >> /\ Len(bytes) > 1 /\ LooksLikeString(bytes)
  <2>1. Scalar(bytes) = Shown("string", Front(bytes), Len(bytes))
    BY <1>1, <1>3 DEF Scalar, Widths
  <2>2. Front(bytes) \o <<0>> = bytes
    BY <1>3, FrontAndNul DEF LooksLikeString
  <2>3. PICK r, b : r = Scalar(bytes) /\ b = Front(bytes)
    OBVIOUS
  <2>4. r.as = "string" /\ r.bytes = b
    BY <2>1, <2>3 DEF Shown
  <2>5. r.bytes \o <<0>> = bytes
    BY <2>2, <2>3, <2>4
  <2>6. Tells(r, bytes)
    BY <2>4, <2>5 DEF Tells
  <2>7. QED
    BY <2>3, <2>6
<1>4. CASE bytes # << >> /\ (Len(bytes) = 1 \/ (Len(bytes) \in Widths /\ ~LooksLikeString(bytes)))
  <2>1. Scalar(bytes) = Shown("number", bytes, Len(bytes))
    <3>1. ~(Len(bytes) > 1 /\ LooksLikeString(bytes))
      <4>1. Len(bytes) = 1 => ~(Len(bytes) > 1)
        BY ONLY <1>1
      <4>2. QED
        BY ONLY <1>4, <4>1, Zenon
    <3>2. PICK number, string : /\ string = (Len(bytes) > 1 /\ LooksLikeString(bytes))
                                /\ number = (\/ Len(bytes) = 1
                                             \/ Len(bytes) \in Widths /\ ~LooksLikeString(bytes))
      OBVIOUS
    <3>3. ~string /\ number
      BY ONLY <1>4, <3>1, <3>2
    <3>4. Scalar(bytes) = CASE bytes = << >> -> Shown("flag", << >>, 0)
                            [] string -> Shown("string", Front(bytes), Len(bytes))
                            [] number -> Shown("number", bytes, Len(bytes))
                            [] OTHER -> Shown("blob", FirstBytes(bytes, BlobShown), Len(bytes))
      BY ONLY <3>2, Zenon DEF Scalar
    <3>5. QED
      BY ONLY <1>4, <3>3, <3>4
  <2>2. QED
    BY <2>1 DEF Tells, Shown
<1>5. CASE /\ bytes # << >> /\ ~(Len(bytes) > 1 /\ LooksLikeString(bytes))
           /\ ~(Len(bytes) = 1 \/ (Len(bytes) \in Widths /\ ~LooksLikeString(bytes)))
  <2>1. Scalar(bytes) = Shown("blob", FirstBytes(bytes, BlobShown), Len(bytes))
    BY <1>5 DEF Scalar
  <2>2. PICK n \in Nat : n = BlobShown /\ n >= RtnlShown
    BY DEF BlobShown, RtnlShown
  <2>3. PICK b : b = FirstBytes(bytes, n)
    OBVIOUS
  <2>4. IsSequence(b) /\ IsPrefix(b, bytes) /\ (Len(bytes) = Len(b) \/ Len(b) = n)
    BY <2>3, FirstBytesAre
  <2>5. Tells(Shown("blob", b, Len(bytes)), bytes)
    BY <2>2, <2>4, BlobTells
  <2>6. QED
    BY <2>1, <2>2, <2>3, <2>5
<1>6. QED
  BY <1>2, <1>3, <1>4, <1>5

\* So does the one shown of an attribute of rtnl.
LEMMA RtnlTells ==
  ASSUME NEW o, NEW a, IsSequence(a.bytes), RtnlTold(o, a), NEW found,
         found = LookupId(<<[attrs |-> Operations[o].table]>>, a.id)
  PROVE  Tells(RtnlValue(found, a.bytes), a.bytes)
<1>1. PICK bytes : bytes = a.bytes
  OBVIOUS
<1>2. PICK len \in Nat : len = Len(bytes) /\ IsSequence(bytes)
  BY <1>1, SequenceHas
<1>3. PICK kind : kind = IF found = << >> THEN "binary" ELSE found[1].kind
  OBVIOUS
<1>4. /\ kind \in DOMAIN KindWidth \cup {"string", "flag", "nest", "binary"}
      /\ kind \in DOMAIN KindWidth => len = KindWidth[kind]
      /\ kind = "flag" => bytes = << >>
  BY <1>1, <1>2, <1>3 DEF RtnlTold, KindWidth
<1>5. PICK isMac \in BOOLEAN : isMac = (found # << >> /\ found[1].name \in MacNames)
  OBVIOUS
<1>6. DOMAIN KindWidth = {"u8", "u16", "u32", "s32", "u64"}
      /\ \A k \in DOMAIN KindWidth : KindWidth[k] \in Nat
  BY DEF KindWidth
<1>7. CASE kind \in DOMAIN KindWidth
  <2>1. PICK b : b = FirstBytes(bytes, KindWidth[kind])
    OBVIOUS
  <2>2. RtnlValue(found, bytes) = Shown("number", b, KindWidth[kind])
    <3>1. ~(len < KindWidth[kind])
      BY <1>4, <1>7
    <3>2. QED
      BY <1>2, <1>3, <1>6, <1>7, <2>1, <3>1 DEF RtnlValue
  <2>3. b = bytes
    BY <1>2, <1>4, <1>6, <1>7, <2>1, FirstBytesAre
  <2>4. QED
    BY <1>1, <2>2, <2>3 DEF Tells, Shown
<1>8. CASE kind = "string"
  <2>1. PICK b : b = IF bytes # << >> /\ Last(bytes) = 0 THEN Front(bytes) ELSE bytes
    OBVIOUS
  <2>2. RtnlValue(found, bytes) = Shown("string", b, Len(bytes))
    BY <1>3, <1>6, <1>8, <2>1 DEF RtnlValue
  <2>3. b = bytes \/ b \o <<0>> = bytes
    BY <1>2, <2>1, FrontAndNul
  <2>4. PICK r : r = RtnlValue(found, bytes)
    OBVIOUS
  <2>5. r.as = "string" /\ r.bytes = b
    BY <2>2, <2>4 DEF Shown
  <2>6. r.bytes = bytes \/ r.bytes \o <<0>> = bytes
    BY <2>3, <2>5
  <2>7. Tells(r, bytes)
    BY <2>5, <2>6 DEF Tells
  <2>8. QED
    BY <1>1, <2>4, <2>7
<1>9. CASE kind = "flag"
  <2>1. RtnlValue(found, bytes) = Shown("flag", << >>, 0)
    BY <1>3, <1>6, <1>9 DEF RtnlValue
  <2>2. QED
    BY <1>1, <1>4, <1>9, <2>1 DEF Tells, Shown
<1>10. CASE kind = "nest"
  <2>1. RtnlValue(found, bytes) = Shown("nest", << >>, Len(bytes))
    BY <1>3, <1>6, <1>10 DEF RtnlValue
  <2>2. QED
    BY <1>1, <2>1 DEF Tells, Shown
<1>11. Tells(Blob(bytes), bytes)
  <2>1. PICK n \in Nat : n = RtnlShown /\ n >= RtnlShown
    BY DEF RtnlShown
  <2>2. PICK b : b = FirstBytes(bytes, n)
    OBVIOUS
  <2>3. IsSequence(b) /\ IsPrefix(b, bytes) /\ (Len(bytes) = Len(b) \/ Len(b) = n)
    BY <1>2, <2>2, FirstBytesAre
  <2>4. Tells(Shown("blob", b, Len(bytes)), bytes)
    BY <2>1, <2>3, BlobTells
  <2>5. QED
    BY <2>1, <2>2, <2>4 DEF Blob
<1>12. CASE kind = "binary"
  <2>1. CASE isMac
    <3>1. RtnlValue(found, bytes) =
            IF Len(bytes) = MacLen THEN Shown("mac", bytes, MacLen) ELSE Blob(bytes)
      BY <1>3, <1>5, <1>6, <1>12, <2>1 DEF RtnlValue
    <3>2. Tells(Shown("mac", bytes, MacLen), bytes)
      BY DEF Tells, Shown
    <3>3. QED
      BY <1>1, <1>11, <3>1, <3>2
  <2>2. CASE ~isMac
    <3>1. RtnlValue(found, bytes) =
            IF Len(bytes) \in IpLens THEN Shown("ip", bytes, Len(bytes)) ELSE Blob(bytes)
      BY <1>3, <1>5, <1>6, <1>12, <2>2 DEF RtnlValue
    <3>2. Tells(Shown("ip", bytes, Len(bytes)), bytes)
      BY DEF Tells, Shown
    <3>3. QED
      BY <1>1, <1>11, <3>1, <3>2
  <2>3. QED
    BY <2>1, <2>2
<1>13. QED
  BY <1>4, <1>7, <1>8, <1>9, <1>10, <1>12

-----------------------------------------------------------------------------
\* A name that ends with its NUL, if it has one.
LEMMA NameIsText ==
  ASSUME NEW b, IsSequence(b), \A k \in 1 .. Len(b) - 1 : b[k] # 0
  PROVE  (IF b # << >> /\ Last(b) = 0 THEN Front(b) ELSE b) = TextOf(b)
<1>1. PICK len \in Nat : len = Len(b) /\ DOMAIN b = 1 .. len
  BY SequenceHas
<1>2. PICK nuls : nuls = {i \in DOMAIN b : b[i] = 0}
  OBVIOUS
<1>3. TextOf(b) = IF nuls = {} THEN b ELSE SubSeq(b, 1, Min(nuls) - 1)
  BY <1>2 DEF TextOf
<1>4. b = << >> <=> len = 0
  BY <1>1, EmptySeq DEF IsSequence
<1>5. \A i \in nuls : i = len
  BY <1>1, <1>2
<1>6. CASE len # 0 /\ b[len] = 0
  <2>1. nuls = {len}
    BY <1>1, <1>2, <1>5, <1>6
  <2>2. Min(nuls) = len
    BY <2>1 DEF Min
  <2>3. Front(b) = SubSeq(b, 1, len - 1) /\ Last(b) = 0
    BY <1>1, <1>6 DEF Front, Last
  <2>4. QED
    BY <1>3, <1>4, <1>6, <2>1, <2>2, <2>3
<1>7. CASE ~(len # 0 /\ b[len] = 0)
  <2>1. nuls = {}
    BY <1>1, <1>2, <1>5, <1>7
  <2>2. ~(b # << >> /\ Last(b) = 0)
    BY <1>1, <1>4, <1>7 DEF Last
  <2>3. QED
    BY <1>3, <2>1, <2>2
<1>8. QED
  BY <1>6, <1>7

\* The only one of some attributes is the last.
LEMMA OnlyIsLast ==
  ASSUME NEW inner, NEW those \in SUBSET Nat, \A i, j \in those : i = j, those # {}
  PROVE  Max(those) \in those /\ Max(those) = CHOOSE i \in those : TRUE
<1>1. PICK i \in those : those = {i}
  OBVIOUS
<1>2. Max(those) = i
  BY <1>1 DEF Max
<1>3. (CHOOSE j \in those : TRUE) = i
  BY <1>1
<1>4. QED
  BY <1>1, <1>2, <1>3

\* What ykern makes of the attributes of a bit is what they say.
LEMMA BitIsSent ==
  ASSUME NEW o, NEW inner, IsSequence(inner), BitTold(o, inner), NEW set,
         \A key \in {"INDEX", "NAME", "VALUE"} : BitIds(set)[key][1].id = BitId(o, key)
  PROVE  Bit(inner, set) = SentBit(o, inner)
<1>1. PICK indices, names, values :
        /\ indices = BitAttrs(o, inner, "INDEX") /\ names = BitAttrs(o, inner, "NAME")
        /\ values = BitAttrs(o, inner, "VALUE")
  OBVIOUS
<1>2. /\ indices = {i \in DOMAIN inner : inner[i].id = BitIds(set)["INDEX"][1].id}
      /\ names = {i \in DOMAIN inner : inner[i].id = BitIds(set)["NAME"][1].id}
      /\ values = {i \in DOMAIN inner : inner[i].id = BitIds(set)["VALUE"][1].id}
  BY <1>1 DEF BitAttrs
<1>3. indices \in SUBSET Nat /\ names \in SUBSET Nat
  <2>1. DOMAIN inner = 1 .. Len(inner)
    BY SequenceHas
  <2>2. QED
    BY <1>2, <2>1
<1>4. /\ \A i, j \in indices : i = j
      /\ \A i, j \in names : i = j
      /\ \A i \in indices : IsSequence(inner[i].bytes) /\ Len(inner[i].bytes) = 4
      /\ \A i \in names : IsSequence(inner[i].bytes)
                          /\ \A k \in 1 .. Len(inner[i].bytes) - 1 : inner[i].bytes[k] # 0
  BY <1>1 DEF BitTold
<1>5. PICK index, name : index = LastOf(inner, indices, Zero) /\ name = LastOf(inner, names, << >>)
  OBVIOUS
<1>6. Bit(inner, set) = [index |-> FirstBytes(index, 4),
                         name |-> IF name # << >> /\ Last(name) = 0 THEN Front(name) ELSE name,
                         on |-> values # {}]
  <2>1. indices = {i \in indices : Len(inner[i].bytes) >= 4}
    <3>1. PICK wide : wide = {i \in indices : Len(inner[i].bytes) >= 4}
      OBVIOUS
    <3>2. ASSUME NEW i \in indices PROVE i \in wide
      <4>1. PICK n : n = Len(inner[i].bytes) /\ n = 4
        BY <1>4
      <4>2. n >= 4
        BY <4>1
      <4>3. QED
        BY <3>1, <4>1, <4>2
    <3>3. QED
      BY <3>1, <3>2
  <2>2. QED
    BY <1>2, <1>5, <2>1 DEF Bit
<1>7. index = (IF indices = {} THEN Zero ELSE inner[CHOOSE i \in indices : TRUE].bytes)
      /\ IsSequence(index) /\ Len(index) = 4
  <2>1. CASE indices = {}
    <3>1. index = Zero
      BY <1>5, <2>1 DEF LastOf
    <3>2. Zero \in Seq({0}) /\ Len(Zero) = 4
      BY DEF Zero
    <3>3. QED
      BY <2>1, <3>1, <3>2, SequenceOver
  <2>2. CASE indices # {}
    <3>1. Max(indices) \in indices /\ Max(indices) = CHOOSE i \in indices : TRUE
      BY <1>3, <1>4, <2>2, OnlyIsLast
    <3>2. index = inner[Max(indices)].bytes
      BY <1>5, <2>2 DEF LastOf
    <3>3. QED
      BY <1>4, <2>2, <3>1, <3>2
  <2>3. QED
    BY <2>1, <2>2
<1>8. FirstBytes(index, 4) = index
  <2>1. PICK n \in Nat : n = 4
    OBVIOUS
  <2>2. IsSequence(index) /\ Len(index) <= n
    <3>1. Len(index) = n /\ IsSequence(index)
      BY <1>7, <2>1
    <3>2. n <= n
      OBVIOUS
    <3>3. QED
      BY <3>1, <3>2
  <2>3. FirstBytes(index, n) = index
    BY <2>2, FirstBytesAre
  <2>4. QED
    BY <2>1, <2>3
<1>9. name = (IF names = {} THEN << >> ELSE inner[CHOOSE i \in names : TRUE].bytes)
      /\ IsSequence(name) /\ \A k \in 1 .. Len(name) - 1 : name[k] # 0
  <2>1. CASE names = {}
    <3>1. name = << >>
      BY <1>5, <2>1 DEF LastOf
    <3>2. IsSequence(<< >>) /\ Len(<< >>) = 0
      BY ConcatNothing
    <3>3. 1 .. Len(name) - 1 = {}
      BY <3>1, <3>2
    <3>4. QED
      BY <2>1, <3>1, <3>2, <3>3
  <2>2. CASE names # {}
    <3>1. Max(names) \in names /\ Max(names) = CHOOSE i \in names : TRUE
      BY <1>3, <1>4, <2>2, OnlyIsLast
    <3>2. name = inner[Max(names)].bytes
      BY <1>5, <2>2 DEF LastOf
    <3>3. QED
      BY <1>4, <2>2, <3>1, <3>2
  <2>3. QED
    BY <2>1, <2>2
<1>10. (IF name # << >> /\ Last(name) = 0 THEN Front(name) ELSE name) = TextOf(name)
  <2>1. IsSequence(name) /\ \A k \in 1 .. Len(name) - 1 : name[k] # 0
    BY <1>9
  <2>2. QED
    BY ONLY <2>1, NameIsText
<1>11. SentBit(o, inner) = [index |-> index, name |-> TextOf(name), on |-> values # {}]
  BY <1>1, <1>7, <1>9 DEF SentBit
<1>12. QED
  BY <1>6, <1>8, <1>10, <1>11

-----------------------------------------------------------------------------
(* Several sequences one after the other.                                  *)

\* s is x and then the rest.
Before(x, rest, s) ==
  /\ IsSequence(s) /\ Len(s) = Len(rest) + 1 /\ s[1] = x
  /\ \A i \in 1 .. Len(rest) : s[i + 1] = rest[i]

\* One more in front of a sequence.
LEMMA InFront ==
  ASSUME NEW x, NEW rest, IsSequence(rest), NEW s, s = <<x>> \o rest
  PROVE  Before(x, rest, s)
<1>1. PICK n \in Nat : n = Len(rest)
  BY SequenceHas
<1>2. IsSequence(<<x>>) /\ Len(<<x>>) = 1 /\ <<x>>[1] = x
  BY ShortSequences
<1>3. /\ IsSequence(s) /\ Len(s) = 1 + n
      /\ \A i \in 1 .. 1 : s[i] = <<x>>[i]
      /\ \A i \in 1 .. n : s[1 + i] = rest[i]
  BY <1>1, <1>2, ConcatHas
<1>4. \A i \in 1 .. n : 1 + i = i + 1
  OBVIOUS
<1>5. 1 \in 1 .. 1 /\ 1 + n = n + 1
  OBVIOUS
<1>6. QED
  BY <1>1, <1>2, <1>3, <1>4, <1>5 DEF Before

\* A sequence is its first in front of the others.
LEMMA HeadInFront ==
  ASSUME NEW s, IsSequence(s), s # << >>
  PROVE  s = <<Head(s)>> \o Tail(s) /\ IsSequence(Tail(s))
<1>1. PICK n \in Nat :
           /\ Len(s) = n + 1 /\ DOMAIN s = 1 .. n + 1 /\ Head(s) = s[1]
           /\ IsSequence(Tail(s)) /\ Len(Tail(s)) = n /\ DOMAIN Tail(s) = 1 .. n
           /\ \A i \in 1 .. n : Tail(s)[i] = s[i + 1]
  BY HeadAndTail
<1>2. PICK x, rest, h : x = Head(s) /\ rest = Tail(s) /\ h = <<x>> \o rest
  OBVIOUS
<1>3. PICK m \in Nat :
           /\ m = Len(rest) /\ DOMAIN rest = 1 .. m
           /\ IsSequence(h) /\ Len(h) = m + 1 /\ DOMAIN h = 1 .. m + 1 /\ h[1] = x
           /\ \A i \in 1 .. m : h[i + 1] = rest[i]
  <2>1. IsSequence(rest) /\ h = <<x>> \o rest
    BY <1>1, <1>2
  <2>2. Before(x, rest, h)
    BY <2>1, InFront
  <2>3. DOMAIN h = 1 .. Len(h)
    BY <2>2, SequenceHas DEF Before
  <2>4. QED
    BY <1>1, <1>2, <2>2, <2>3 DEF Before
<1>4. m = n
  BY <1>1, <1>2, <1>3
<1>5. ASSUME NEW i \in 1 .. n + 1 PROVE h[i] = s[i]
  <2>1. CASE i = 1
    BY <1>1, <1>2, <1>3, <2>1
  <2>2. CASE i # 1
    <3>1. PICK j \in 1 .. n : i = j + 1
      BY <2>2
    <3>2. h[j + 1] = rest[j] /\ rest[j] = s[j + 1]
      BY <1>1, <1>2, <1>3, <1>4
    <3>3. QED
      BY <3>1, <3>2
  <2>3. QED
    BY <2>1, <2>2
<1>6. h = s
  BY <1>1, <1>3, <1>4, <1>5, SequencesEqual
<1>7. QED
  BY <1>1, <1>2, <1>6

-----------------------------------------------------------------------------
(* What the calls of render_attrs_recursive have not come to.              *)

Rtnl(o) == Operations[o].style = "rtnl"

FrameLines(o, f) ==
  IF Rtnl(o) THEN SentRtnl(o, f.left) ELSE SentAttrs(o, f.set, f.left, f.depth)

Told(o, f) ==
  /\ IsSequence(f.left) /\ f.depth \in Nat
  /\ \A i \in DOMAIN f.left :
       IF Rtnl(o) THEN IsSequence(f.left[i].bytes) /\ RtnlTold(o, f.left[i])
       ELSE <<f.set, f.left[i]>> \in Sent[o]

AllTold(o, fs) == IsSequence(fs) /\ \A i \in DOMAIN fs : Told(o, fs[i])

TodoFor(o, fs) == FlattenSeq([i \in DOMAIN fs |-> FrameLines(o, fs[i])])

\* Its lines are a sequence.
LEMMA RtnlSequence ==
  ASSUME NEW o, NEW attrs, IsSequence(attrs)
  PROVE  IsSequence(SentRtnl(o, attrs))
<1>1. PICK f : f = SentRtnl(o, attrs)
  OBVIOUS
<1>2. f = [i \in DOMAIN attrs |-> f[i]]
  BY <1>1 DEF SentRtnl
<1>3. QED
  BY <1>1, <1>2, SequenceFor

\* So are those of a frame.
LEMMA FrameSequence ==
  ASSUME NEW o \in DOMAIN Operations, NEW f, Told(o, f)
  PROVE  IsSequence(FrameLines(o, f))
<1>1. CASE Rtnl(o)
  BY <1>1, RtnlSequence DEF Told, FrameLines
<1>2. CASE ~Rtnl(o)
  <2>1. SentAll(o, f.set, f.left) /\ f.depth \in Nat
    BY <1>2 DEF Told, SentAll
  <2>2. QED
    BY <1>2, <2>1, AttrsSequence DEF FrameLines
<1>3. QED
  BY <1>1, <1>2

\* A call with nothing left has none.
LEMMA FrameNone ==
  ASSUME NEW o, NEW f, f.left = << >>
  PROVE  FrameLines(o, f) = << >>
<1>1. SentAttrs(o, f.set, << >>, f.depth) = << >>
  BY AttrsNone
<1>2. SentRtnl(o, << >>) = << >>
  BY DEF SentRtnl
<1>3. QED
  BY <1>1, <1>2 DEF FrameLines

\* The lines of the next attribute, and those of the others.
ItemLines(o, f) ==
  IF Rtnl(o)
  THEN <<Line("value", 1,
              Label(LookupId(<<[attrs |-> Operations[o].table]>>, Head(f.left).id), Head(f.left).id),
              Head(f.left).bytes)>>
  ELSE SentLines(o)[<<f.set, Head(f.left)>>][f.depth]

\* Of rtnl: the line of the first attribute, then the others.
LEMMA RtnlFirst ==
  ASSUME NEW o, NEW f, Rtnl(o), IsSequence(f.left), f.left # << >>
  PROVE  SentRtnl(o, f.left) = ItemLines(o, f) \o SentRtnl(o, Tail(f.left))
<1>1. PICK attrs : attrs = f.left
  OBVIOUS
<1>2. PICK n \in Nat :
           /\ Len(attrs) = n + 1 /\ DOMAIN attrs = 1 .. n + 1 /\ Head(attrs) = attrs[1]
           /\ IsSequence(Tail(attrs)) /\ Len(Tail(attrs)) = n /\ DOMAIN Tail(attrs) = 1 .. n
           /\ \A i \in 1 .. n : Tail(attrs)[i] = attrs[i + 1]
  BY <1>1, HeadAndTail
<1>3. PICK h : h = SentRtnl(o, attrs)
  OBVIOUS
<1>4. PICK g : g = SentRtnl(o, Tail(attrs))
  OBVIOUS
<1>5. h = [i \in DOMAIN attrs |-> h[i]]
  BY <1>3 DEF SentRtnl
<1>6. g = [i \in DOMAIN Tail(attrs) |-> h[i + 1]]
  <2>1. PICK k : k = [i \in DOMAIN Tail(attrs) |-> h[i + 1]]
    OBVIOUS
  <2>2. ASSUME NEW i \in 1 .. n PROVE g[i] = k[i]
    <3>1. i + 1 \in 1 .. n + 1
      OBVIOUS
    <3>2. QED
      BY <1>2, <1>3, <1>4, <2>1, <3>1 DEF SentRtnl
  <2>3. g = [i \in 1 .. n |-> g[i]] /\ k = [i \in 1 .. n |-> k[i]]
    BY <1>2, <1>4, <2>1 DEF SentRtnl
  <2>4. g = k
    BY <2>2, <2>3
  <2>5. QED
    BY <2>1, <2>4
<1>7. h = <<h[1]>> \o g
  BY <1>1, <1>5, <1>6, FirstFor
<1>8. <<h[1]>> = ItemLines(o, f)
  <2>1. 1 \in DOMAIN attrs /\ Head(attrs) = attrs[1]
    BY <1>2
  <2>2. QED
    BY <1>1, <1>3, <2>1 DEF SentRtnl, ItemLines
<1>9. QED
  BY <1>1, <1>3, <1>4, <1>7, <1>8

\* The lines of a frame are those of its next attribute, then those left in g.
Splits(o, f, g) ==
  /\ FrameLines(o, f) = ItemLines(o, f) \o FrameLines(o, g)
  /\ IsSequence(ItemLines(o, f)) /\ Told(o, g)
  /\ IF Rtnl(o) THEN IsSequence(Head(f.left).bytes) /\ RtnlTold(o, Head(f.left))
     ELSE <<f.set, Head(f.left)>> \in Sent[o]

\* Of a frame: the lines of its next attribute, then those left in it.
LEMMA FrameFirst ==
  ASSUME NEW o \in DOMAIN Operations, NEW f, Told(o, f), f.left # << >>,
         NEW g, g.left = Tail(f.left), g.set = f.set, g.depth = f.depth
  PROVE  Splits(o, f, g)
<1>1. PICK n \in Nat :
           /\ Len(f.left) = n + 1 /\ DOMAIN f.left = 1 .. n + 1 /\ Head(f.left) = f.left[1]
           /\ IsSequence(Tail(f.left)) /\ Len(Tail(f.left)) = n /\ DOMAIN Tail(f.left) = 1 .. n
           /\ \A i \in 1 .. n : Tail(f.left)[i] = f.left[i + 1]
  BY HeadAndTail DEF Told
<1>2. 1 \in 1 .. n + 1 /\ \A i \in 1 .. n : i + 1 \in 1 .. n + 1
  OBVIOUS
<1>3. IF Rtnl(o) THEN IsSequence(Head(f.left).bytes) /\ RtnlTold(o, Head(f.left))
      ELSE <<f.set, Head(f.left)>> \in Sent[o]
  BY <1>1, <1>2 DEF Told
<1>4. Told(o, g)
  BY <1>1, <1>2 DEF Told
<1>5. CASE Rtnl(o)
  <2>1. FrameLines(o, f) = SentRtnl(o, f.left) /\ FrameLines(o, g) = SentRtnl(o, Tail(f.left))
    BY <1>5 DEF FrameLines
  <2>2. SentRtnl(o, f.left) = ItemLines(o, f) \o SentRtnl(o, Tail(f.left))
    BY <1>5, RtnlFirst DEF Told
  <2>3. IsSequence(ItemLines(o, f))
    BY <1>5, ShortSequences DEF ItemLines
  <2>4. QED
    BY <1>3, <1>4, <2>1, <2>2, <2>3 DEF Splits
<1>6. CASE ~Rtnl(o)
  <2>1. PICK set, attrs, depth : set = f.set /\ attrs = f.left /\ depth = f.depth /\ depth \in Nat
    BY DEF Told
  <2>2. SentAll(o, set, attrs) /\ attrs # << >>
    BY <1>6, <2>1 DEF Told, SentAll
  <2>3. SentAttrs(o, set, attrs, depth)
          = SentLines(o)[<<set, Head(attrs)>>][depth] \o SentAttrs(o, set, Tail(attrs), depth)
    <3>1. o \in DOMAIN Operations /\ depth \in Nat
      BY <2>1
    <3>2. FirstBefore(o, set, attrs, depth)
      BY ONLY <2>2, <3>1, AttrsFirst
    <3>3. QED
      BY <3>2 DEF FirstBefore
  <2>4. FrameLines(o, f) = SentAttrs(o, set, attrs, depth)
        /\ FrameLines(o, g) = SentAttrs(o, set, Tail(attrs), depth)
    BY <1>6, <2>1 DEF FrameLines
  <2>5. ItemLines(o, f) = SentLines(o)[<<set, Head(attrs)>>][depth]
    BY <1>6, <2>1 DEF ItemLines
  <2>6. IsSequence(ItemLines(o, f))
    <3>1. PICK p : p = <<set, Head(attrs)>>
      OBVIOUS
    <3>2. p \in Sent[o]
      BY <1>3, <1>6, <2>1, <3>1
    <3>3. QED
      BY <2>1, <2>5, <3>1, <3>2, LinesSequence
  <2>7. QED
    BY <1>3, <1>4, <2>3, <2>4, <2>5, <2>6 DEF Splits
<1>7. QED
  BY <1>5, <1>6

\* The lines to come are a sequence, those of the innermost call before the others.
LEMMA TodoParts ==
  ASSUME NEW o \in DOMAIN Operations, NEW fs, AllTold(o, fs), NEW F,
         F = [i \in DOMAIN fs |-> FrameLines(o, fs[i])]
  PROVE  Parts(F) /\ Len(F) = Len(fs)
<1>1. PICK n \in Nat : n = Len(fs) /\ DOMAIN fs = 1 .. n
  BY SequenceHas DEF AllTold
<1>2. F = [i \in DOMAIN fs |-> F[i]]
  OBVIOUS
<1>3. IsSequence(F) /\ Len(F) = n
  BY <1>1, <1>2, SequenceFor DEF AllTold
<1>4. \A i \in 1 .. n : IsSequence(F[i])
  BY <1>1, FrameSequence DEF AllTold
<1>5. QED
  BY <1>1, <1>3, <1>4 DEF Parts

\* All that is left to say is a sequence of lines.
LEMMA TodoSequence ==
  ASSUME NEW o \in DOMAIN Operations, NEW fs, AllTold(o, fs)
  PROVE  IsSequence(TodoFor(o, fs))
<1>1. PICK F : F = [i \in DOMAIN fs |-> FrameLines(o, fs[i])]
  OBVIOUS
<1>2. Parts(F)
  BY <1>1, TodoParts
<1>3. IsSequence(FlattenSeq(F))
  BY <1>2, FlattenSequence
<1>4. QED
  BY <1>1, <1>3 DEF TodoFor

\* The lines of a frame in front of those of the others.
Stacks(o, f, rest, fs) ==
  /\ TodoFor(o, fs) = FrameLines(o, f) \o TodoFor(o, rest) /\ AllTold(o, fs)
  /\ IsSequence(FrameLines(o, f)) /\ IsSequence(TodoFor(o, rest))

\* What is left of the innermost call comes first.
LEMMA TodoFirst ==
  ASSUME NEW o \in DOMAIN Operations, NEW f, Told(o, f), NEW rest, AllTold(o, rest),
         NEW fs, fs = <<f>> \o rest
  PROVE  Stacks(o, f, rest, fs)
<1>1. PICK n \in Nat :
           /\ n = Len(rest) /\ DOMAIN rest = 1 .. n
           /\ IsSequence(fs) /\ Len(fs) = n + 1 /\ DOMAIN fs = 1 .. n + 1 /\ fs[1] = f
           /\ \A i \in 1 .. n : fs[i + 1] = rest[i]
  <2>1. IsSequence(rest)
    BY DEF AllTold
  <2>2. Before(f, rest, fs)
    BY <2>1, InFront
  <2>3. DOMAIN fs = 1 .. Len(fs) /\ Len(rest) \in Nat /\ DOMAIN rest = 1 .. Len(rest)
    BY <2>1, <2>2, SequenceHas DEF Before
  <2>4. QED
    BY <2>2, <2>3 DEF Before
<1>2. AllTold(o, fs)
  <2>1. ASSUME NEW i \in 1 .. n + 1 PROVE Told(o, fs[i])
    <3>1. CASE i = 1
      BY <1>1, <3>1
    <3>2. CASE i # 1
      <4>1. PICK j \in 1 .. n : i = j + 1
        BY <3>2
      <4>2. QED
        BY <1>1, <4>1 DEF AllTold
    <3>3. QED
      BY <3>1, <3>2
  <2>2. QED
    BY <1>1, <2>1 DEF AllTold
<1>3. PICK F, G, x : /\ F = [i \in DOMAIN fs |-> FrameLines(o, fs[i])]
                     /\ G = [i \in DOMAIN rest |-> FrameLines(o, rest[i])]
                     /\ x = FrameLines(o, f)
  OBVIOUS
<1>4. Parts(F) /\ Len(F) = n + 1
  <2>1. F = [i \in DOMAIN fs |-> FrameLines(o, fs[i])]
    BY <1>3
  <2>2. Parts(F)
    BY <1>2, <2>1, TodoParts
  <2>3. Len(F) = Len(fs)
    BY <1>2, <2>1, TodoParts
  <2>4. QED
    BY <1>1, <2>2, <2>3
<1>5. Parts(G) /\ Len(G) = n
  BY <1>1, <1>3, TodoParts
<1>6. IsSequence(x)
  BY <1>3, FrameSequence
<1>7. PICK H : H = <<x>> \o G
  OBVIOUS
<1>8. /\ IsSequence(H) /\ Len(H) = n + 1 /\ H[1] = x
      /\ \A i \in 1 .. n : H[i + 1] = G[i]
  <2>1. IsSequence(G)
    BY <1>5 DEF Parts
  <2>2. Before(x, G, H)
    BY <1>7, <2>1, InFront
  <2>3. QED
    BY <1>5, <2>2 DEF Before
<1>9. ASSUME NEW i \in 1 .. n + 1 PROVE F[i] = H[i]
  <2>1. CASE i = 1
    BY <1>1, <1>3, <1>8, <2>1
  <2>2. CASE i # 1
    <3>1. PICK j \in 1 .. n : i = j + 1
      BY <2>2
    <3>2. F[i] = FrameLines(o, fs[j + 1]) /\ H[i] = G[j]
      BY <1>1, <1>3, <1>8, <3>1
    <3>3. G[j] = FrameLines(o, rest[j]) /\ fs[j + 1] = rest[j]
      BY <1>1, <1>3
    <3>4. QED
      BY <3>2, <3>3
  <2>3. QED
    BY <2>1, <2>2
<1>10. F = H
  BY <1>4, <1>8, <1>9, SequencesEqual DEF Parts
<1>11. FlattenSeq(H) = x \o FlattenSeq(G)
  BY <1>5, <1>6, <1>7, FlattenFirst
<1>12. FlattenSeq(F) = TodoFor(o, fs) /\ FlattenSeq(G) = TodoFor(o, rest)
  BY <1>3 DEF TodoFor
<1>13. IsSequence(TodoFor(o, rest))
  BY TodoSequence
<1>14. QED
  BY <1>2, <1>3, <1>6, <1>10, <1>11, <1>12, <1>13 DEF Stacks

\* A step of the walk that says the first lines of an attribute.
LEMMA ItemTold ==
  ASSUME NEW o \in DOMAIN Operations, NEW f, Told(o, f), f.left # << >>,
         NEW g, g.left = Tail(f.left), g.set = f.set, g.depth = f.depth,
         NEW rest, AllTold(o, rest), NEW before, before = <<f>> \o rest,
         NEW after, after = <<g>> \o rest,
         NEW s, IsSequence(s), NEW text, IsSequence(text),
         Telling(s, text, TodoFor(o, before)),
         NEW said, IsSequence(said), NEW lines, IsSequence(lines), NEW deeper, IsSequence(deeper),
         ItemLines(o, f) = lines \o deeper, Agree(said, lines)
  PROVE  /\ Telling(s, text \o said, deeper \o TodoFor(o, after))
         /\ AllTold(o, after) /\ IsSequence(TodoFor(o, after)) /\ IsSequence(text \o said)
<1>1. /\ FrameLines(o, f) = ItemLines(o, f) \o FrameLines(o, g)
      /\ IsSequence(ItemLines(o, f)) /\ Told(o, g)
  <2>1. Splits(o, f, g)
    BY FrameFirst
  <2>2. QED
    BY <2>1 DEF Splits
<1>2. TodoFor(o, before) = FrameLines(o, f) \o TodoFor(o, rest)
  <2>1. Stacks(o, f, rest, before)
    BY TodoFirst
  <2>2. QED
    BY <2>1 DEF Stacks
<1>3. /\ TodoFor(o, after) = FrameLines(o, g) \o TodoFor(o, rest) /\ AllTold(o, after)
      /\ IsSequence(FrameLines(o, g)) /\ IsSequence(TodoFor(o, rest))
  <2>1. Stacks(o, g, rest, after)
    BY <1>1, TodoFirst
  <2>2. QED
    BY <2>1 DEF Stacks
<1>4. PICK a, r, t : a = FrameLines(o, g) /\ r = TodoFor(o, rest) /\ t = TodoFor(o, after)
  OBVIOUS
<1>5. IsSequence(a) /\ IsSequence(r) /\ t = a \o r
  BY <1>3, <1>4
<1>6. IsSequence(t)
  BY <1>5, ConcatHas
<1>7. TodoFor(o, before) = ((lines \o deeper) \o a) \o r
  BY <1>1, <1>2, <1>4
<1>8. PICK d : d = lines \o deeper
  OBVIOUS
<1>9. IsSequence(d)
  BY <1>8, ConcatHas
<1>10. (d \o a) \o r = d \o t
  <2>1. (d \o a) \o r = d \o (a \o r)
    <3>1. Joins(d, a, r)
      BY ONLY <1>5, <1>9, ConcatThree
    <3>2. QED
      BY <3>1 DEF Joins
  <2>2. QED
    BY <1>5, <2>1
<1>11. d \o t = lines \o (deeper \o t)
  <2>1. (lines \o deeper) \o t = lines \o (deeper \o t)
    <3>1. Joins(lines, deeper, t)
      BY ONLY IsSequence(lines), IsSequence(deeper), <1>6, ConcatThree
    <3>2. QED
      BY <3>1 DEF Joins
  <2>2. QED
    BY <1>8, <2>1
<1>12. PICK u : u = deeper \o t
  OBVIOUS
<1>13. IsSequence(u)
  BY <1>6, <1>12, ConcatHas
<1>14. TodoFor(o, before) = lines \o u
  BY <1>7, <1>8, <1>10, <1>11, <1>12
<1>15. Telling(s, text, lines \o u)
  BY <1>14
<1>16. Telling(s, text \o said, u)
  BY <1>13, <1>15, TellMore
<1>17. IsSequence(text \o said)
  BY ConcatHas
<1>18. QED
  BY <1>3, <1>4, <1>6, <1>12, <1>16, <1>17

-----------------------------------------------------------------------------
(* Lines that are said as they are, and whole replies.                     *)

\* Lines without a value are said as they are.
Plain(lines) == IsSequence(lines) /\ \A i \in 1 .. Len(lines) : lines[i].as # "value"

\* They tell themselves,
LEMMA PlainAgree ==
  ASSUME NEW lines, Plain(lines)
  PROVE  Agree(lines, lines)
BY DEF Plain, Agree, Matches

\* one after the other,
LEMMA PlainConcat ==
  ASSUME NEW s, NEW t, Plain(s), Plain(t)
  PROVE  Plain(s \o t)
<1>1. PICK a \in Nat, b \in Nat : a = Len(s) /\ b = Len(t)
  BY SequenceHas DEF Plain
<1>2. IsSequence(s) /\ IsSequence(t)
  BY DEF Plain
<1>3. PICK u : u = s \o t
  OBVIOUS
<1>4. /\ IsSequence(u) /\ Len(u) = a + b
      /\ \A i \in 1 .. a : u[i] = s[i]
      /\ \A i \in 1 .. b : u[a + i] = t[i]
  BY <1>1, <1>2, <1>3, ConcatHas
<1>5. ASSUME NEW i \in 1 .. a + b PROVE u[i].as # "value"
  <2>1. CASE i <= a
    BY <1>1, <1>4, <2>1 DEF Plain
  <2>2. CASE ~(i <= a)
    <3>1. PICK j \in 1 .. b : i = a + j
      <4>1. i - a \in 1 .. b /\ i = a + (i - a)
        BY <2>2
      <4>2. QED
        BY <4>1
    <3>2. QED
      BY <1>1, <1>4, <3>1 DEF Plain
  <2>3. QED
    BY <2>1, <2>2
<1>6. QED
  BY <1>3, <1>4, <1>5 DEF Plain

\* alone, or not at all.
LEMMA PlainShort ==
  ASSUME NEW x, x.as # "value"
  PROVE  Plain(<<x>>) /\ Plain(<< >>)
<1>1. IsSequence(<<x>>) /\ Len(<<x>>) = 1 /\ <<x>>[1] = x
  BY ShortSequences
<1>2. IsSequence(<< >>) /\ Len(<< >>) = 0
  BY <1>1, ConcatNothing
<1>3. \A i \in 1 .. 1 : i = 1
  OBVIOUS
<1>4. QED
  BY <1>1, <1>2, <1>3 DEF Plain

\* One line says what another tells.
LEMMA OneAgrees ==
  ASSUME NEW x, NEW y, Matches(x, y)
  PROVE  Agree(<<x>>, <<y>>) /\ IsSequence(<<x>>) /\ IsSequence(<<y>>)
<1>1. IsSequence(<<x>>) /\ Len(<<x>>) = 1 /\ <<x>>[1] = x
  BY ShortSequences
<1>2. IsSequence(<<y>>) /\ Len(<<y>>) = 1 /\ <<y>>[1] = y
  BY ShortSequences
<1>3. \A i \in 1 .. 1 : i = 1
  OBVIOUS
<1>4. QED
  BY <1>1, <1>2, <1>3 DEF Agree

-----------------------------------------------------------------------------
\* The lines of a reply and of those that came.
ReplyLines(o, d, h, i, r) ==
  (IF d THEN <<EntryLine(i)>> ELSE << >>)
  \o (IF Rtnl(o) THEN <<HeadLine(r.head)>> \o SentRtnl(o, r.attrs)
      ELSE IF h THEN SentAttrs(o, Operations[o].schema, r.attrs, 1)
      ELSE <<BareLine>>)

PastFor(o, d, h, rs) == FlattenSeq([i \in DOMAIN rs |-> ReplyLines(o, d, h, i, rs[i])])

\* What was sent, as a function of the state.
LEMMA SentIs ==
  /\ SentSoFar = PastFor(op, dump, hasSet, replies)
  /\ SentText = SentSoFar \o (IF dump THEN <<CountLine(Len(replies))>> ELSE << >>)
BY DEF SentSoFar, SentText, PastFor, SentReply, ReplyLines, Rtnl, IsRtnl, Op

\* The same of what is left.
LEMMA TodoIs == Todo = TodoFor(op, frames)
BY DEF Todo, TodoFor, FrameLines, Rtnl, IsRtnl, Op

\* A reply of an operation, with what the kernel sends in it.
LEMMA ReplyOf ==
  ASSUME NEW o \in DOMAIN Operations, NEW r \in Operations[o].replies
  PROVE  /\ IsSequence(r.attrs)
         /\ Rtnl(o) => \A i \in DOMAIN r.attrs : IsSequence(r.attrs[i].bytes) /\ RtnlTold(o, r.attrs[i])
         /\ ~Rtnl(o) /\ ReplySet(o) # << >> => SentAll(o, Operations[o].schema, r.attrs)
BY ReplyAssumption DEF IsReply, Rtnl, SentAll

\* They are sequences.
LEMMA ReplySequence ==
  ASSUME NEW o \in DOMAIN Operations, NEW r \in Operations[o].replies, NEW d, NEW h,
         ~Rtnl(o) /\ h => ReplySet(o) # << >>, NEW i
  PROVE  IsSequence(ReplyLines(o, d, h, i, r))
<1>1. PICK e : e = IF d THEN <<EntryLine(i)>> ELSE << >>
  OBVIOUS
<1>2. \A x : IsSequence(<<x>>)
  BY ShortSequences
<1>3. IsSequence(<< >>)
  BY <1>2, ConcatNothing
<1>4. IsSequence(e)
  BY <1>1, <1>2, <1>3
<1>5. PICK b : b = IF Rtnl(o) THEN <<HeadLine(r.head)>> \o SentRtnl(o, r.attrs)
                   ELSE IF h THEN SentAttrs(o, Operations[o].schema, r.attrs, 1)
                   ELSE <<BareLine>>
  OBVIOUS
<1>6. IsSequence(b)
  <2>1. CASE Rtnl(o)
    <3>1. IsSequence(SentRtnl(o, r.attrs))
      BY ReplyOf, RtnlSequence
    <3>2. QED
      BY <1>2, <1>5, <2>1, <3>1, ConcatHas
  <2>2. CASE ~Rtnl(o) /\ h
    <3>1. PICK n \in Nat : n = 1
      OBVIOUS
    <3>2. PICK set : set = Operations[o].schema
      OBVIOUS
    <3>3. SentAll(o, set, r.attrs)
      BY <2>2, <3>2, ReplyOf
    <3>4. IsSequence(SentAttrs(o, set, r.attrs, n))
      BY <3>3, AttrsSequence
    <3>5. QED
      BY <1>5, <2>2, <3>1, <3>2, <3>4
  <2>3. CASE ~Rtnl(o) /\ ~h
    BY <1>2, <1>5, <2>3
  <2>4. QED
    BY <2>1, <2>2, <2>3
<1>7. ReplyLines(o, d, h, i, r) = e \o b
  BY <1>1, <1>5 DEF ReplyLines
<1>8. QED
  BY <1>4, <1>6, <1>7, ConcatHas

\* One more reply, and its lines come last.
LEMMA PastNext ==
  ASSUME NEW o \in DOMAIN Operations, NEW rs \in Seq(Operations[o].replies), NEW d, NEW h,
         ~Rtnl(o) /\ h => ReplySet(o) # << >>
  PROVE  /\ IsSequence(PastFor(o, d, h, rs))
         /\ \A r \in Operations[o].replies :
              PastFor(o, d, h, Append(rs, r))
                = PastFor(o, d, h, rs) \o ReplyLines(o, d, h, Len(rs) + 1, r)
<1>1. PICK n \in Nat : n = Len(rs) /\ DOMAIN rs = 1 .. n
  OBVIOUS
<1>2. PICK F : F = [i \in DOMAIN rs |-> ReplyLines(o, d, h, i, rs[i])]
  OBVIOUS
<1>3. ASSUME NEW i \in 1 .. n PROVE IsSequence(F[i])
  <2>1. PICK r \in Operations[o].replies : r = rs[i]
    BY <1>1
  <2>2. IsSequence(ReplyLines(o, d, h, i, r))
    BY ReplySequence
  <2>3. QED
    BY <1>1, <1>2, <2>1, <2>2
<1>4. IsSequence(F) /\ Len(F) = n
  <2>1. F = [i \in 1 .. n |-> F[i]]
    BY <1>1, <1>2
  <2>2. QED
    BY <2>1, SequenceOf
<1>5. Parts(F)
  BY <1>3, <1>4 DEF Parts
<1>6. FlattenSeq(F) = PastFor(o, d, h, rs)
  BY <1>2 DEF PastFor
<1>7. IsSequence(PastFor(o, d, h, rs))
  BY <1>5, <1>6, FlattenSequence
<1>8. ASSUME NEW r \in Operations[o].replies
      PROVE  PastFor(o, d, h, Append(rs, r))
               = PastFor(o, d, h, rs) \o ReplyLines(o, d, h, Len(rs) + 1, r)
  <2>1. PICK x : x = ReplyLines(o, d, h, n + 1, r)
    OBVIOUS
  <2>2. IsSequence(x)
    BY <2>1, ReplySequence
  <2>3. PICK all : all = Append(rs, r)
    OBVIOUS
  <2>4. /\ DOMAIN all = 1 .. n + 1 /\ all[n + 1] = r
        /\ \A i \in 1 .. n : all[i] = rs[i]
    BY <1>1, <2>3
  <2>5. PICK G : G = [i \in DOMAIN all |-> ReplyLines(o, d, h, i, all[i])]
    OBVIOUS
  <2>6. IsSequence(G) /\ Len(G) = n + 1
    <3>1. PICK m \in Nat : m = n + 1
      OBVIOUS
    <3>2. G = [i \in 1 .. m |-> G[i]]
      BY <2>4, <2>5, <3>1
    <3>3. QED
      BY <3>1, <3>2, SequenceOf
  <2>7. PICK H : H = F \o <<x>>
    OBVIOUS
  <2>8. /\ IsSequence(H) /\ Len(H) = n + 1
        /\ \A i \in 1 .. n : H[i] = F[i]
        /\ H[n + 1] = x
    <3>1. IsSequence(<<x>>) /\ Len(<<x>>) = 1 /\ <<x>>[1] = x
      BY ShortSequences
    <3>2. /\ IsSequence(H) /\ Len(H) = n + 1
          /\ \A i \in 1 .. n : H[i] = F[i]
          /\ \A i \in 1 .. 1 : H[n + i] = <<x>>[i]
      BY <1>4, <2>7, <3>1, ConcatHas
    <3>3. 1 \in 1 .. 1
      OBVIOUS
    <3>4. QED
      BY <3>1, <3>2, <3>3
  <2>9. ASSUME NEW i \in 1 .. n + 1 PROVE G[i] = H[i]
    <3>1. CASE i = n + 1
      BY <2>1, <2>4, <2>5, <2>8, <3>1
    <3>2. CASE i # n + 1
      <4>1. i \in 1 .. n
        BY <3>2
      <4>2. QED
        BY <1>1, <1>2, <2>4, <2>5, <2>8, <4>1
    <3>3. QED
      BY <3>1, <3>2
  <2>10. G = H
    BY <2>6, <2>8, <2>9, SequencesEqual
  <2>11. FlattenSeq(H) = FlattenSeq(F) \o x
    BY <1>5, <2>2, <2>7, FlattenLast
  <2>12. FlattenSeq(G) = PastFor(o, d, h, all)
    BY <2>5 DEF PastFor
  <2>13. QED
    BY <1>1, <1>6, <2>1, <2>3, <2>10, <2>11, <2>12
<1>9. QED
  BY <1>7, <1>8

-----------------------------------------------------------------------------
(* What a call knows.                                                      *)

\* Where there is a set for the arguments there is one for the reply, and once
\* the request is sent the other way round.
LEMMA SetThere ==
  ASSUME TextInv
  PROVE  /\ hasSet => ReplySet(op) # << >>
         /\ ~IsRtnl /\ result = "sent" => (hasSet <=> ReplySet(op) # << >>)
<1>1. /\ hasSet = (~IsRtnl /\ ArgSet(op) # << >>) /\ request = RequestOf(op)
      /\ request = "get" /\ result = "sent" => hasSet
  BY DEF TextInv, TextOK
<1>2. RequestOf(op) \in {"get", "generic"}
  BY DEF RequestOf
<1>3. CASE RequestOf(op) = "generic"
  BY <1>1, <1>3 DEF ArgSet
<1>4. CASE RequestOf(op) = "get"
  <2>1. LookupName(<< >>, Header) = << >>
    BY DEF LookupName
  <2>2. ArgSet(op) # << >> => ReplySet(op) # << >>
    BY <1>4, <2>1 DEF ArgSet
  <2>3. QED
    BY <1>1, <1>4, <2>2
<1>5. QED
  BY <1>2, <1>3, <1>4

\* What the call knows at any time.
LEMMA TextState ==
  ASSUME TextInv
  PROVE  /\ op \in DOMAIN Operations /\ replies \in Seq(Operations[op].replies)
         /\ Len(replies) \in Nat /\ AllTold(op, frames)
         /\ IsSequence(SentSoFar) /\ IsSequence(out)
         /\ outcome = "open" => Telling(SentSoFar, out, TodoFor(op, frames))
<1>1. op \in DOMAIN Operations /\ replies \in Seq(Op.replies) /\ IsStack(frames)
      /\ \A i \in DOMAIN frames : frames[i].depth = 1 + Len(frames) - i
  BY DEF TextInv, InvokeInv, InvokeTypeOK, CountingOK
<1>2. replies \in Seq(Operations[op].replies) /\ Len(replies) \in Nat
  BY <1>1 DEF Op
<1>3. IsSequence(frames)
  BY <1>1 DEF IsStack, IsSequence
<1>4. AllTold(op, frames)
  <2>1. PICK n \in Nat : n = Len(frames) /\ DOMAIN frames = 1 .. n
    BY <1>3, SequenceHas
  <2>2. \A i \in 1 .. n : frames[i].depth \in Nat
    BY <1>1, <2>1
  <2>3. \A i \in 1 .. n : FrameTold(frames[i])
    BY <2>1 DEF TextInv, TextOK
  <2>4. QED
    BY <1>3, <2>1, <2>2, <2>3 DEF AllTold, Told, FrameTold, Rtnl, IsRtnl, Op
<1>5. IsSequence(SentSoFar)
  <2>1. ~Rtnl(op) /\ hasSet => ReplySet(op) # << >>
    BY SetThere
  <2>2. IsSequence(PastFor(op, dump, hasSet, replies))
    BY <1>1, <1>2, <2>1, PastNext
  <2>3. QED
    BY <2>2, SentIs
<1>6. outcome = "open" => Telling(SentSoFar, out, TodoFor(op, frames))
  BY TodoIs DEF TextInv, TextOK
<1>7. QED
  BY <1>1, <1>2, <1>4, <1>5, <1>6 DEF TextInv, TextOK

-----------------------------------------------------------------------------
(* The attribute walk.                                                     *)

\* A step of the walk keeps TextOK if what it says is the beginning of what is
\* left to say.
LEMMA WalkTells ==
  ASSUME TextInv, UNCHANGED <<building, op, replies, count, outcome>>, outcome = "open",
         AllTold(op, frames'), IsSequence(out'), Telling(SentSoFar, out', TodoFor(op, frames'))
  PROVE  TextOK'
<1>1. UNCHANGED <<request, dump, hasSet, result>>
  BY DEF building
<1>2. SentSoFar' = SentSoFar
  <2>1. (SentSoFar = PastFor(op, dump, hasSet, replies))'
    BY SentIs, PTL
  <2>2. SentSoFar' = PastFor(op', dump', hasSet', replies')
    BY <2>1
  <2>3. QED
    BY <1>1, <2>2, SentIs
<1>3. Todo' = TodoFor(op, frames')
  <2>1. (Todo = TodoFor(op, frames))'
    BY TodoIs, PTL
  <2>2. QED
    BY <2>1
<1>4. \A i \in DOMAIN frames' : FrameTold(frames[i])'
  BY DEF AllTold, Told, FrameTold, Rtnl, IsRtnl, Op
<1>5. IsRtnl' = IsRtnl
  BY DEF IsRtnl, Op
<1>6. QED
  BY <1>1, <1>2, <1>3, <1>4, <1>5 DEF TextInv, TextOK

\* The call in which the next attribute is rendered.
LEMMA AtItem ==
  ASSUME TextInv, Walking
  PROVE  /\ outcome = "open" /\ Told(op, Frame) /\ Frame.left # << >>
         /\ Advanced.left = Tail(Frame.left) /\ Advanced.set = Frame.set
         /\ Advanced.depth = Frame.depth /\ Frame.depth \in Nat
         /\ AllTold(op, Tail(frames)) /\ frames = <<Frame>> \o Tail(frames)
         /\ Item = Head(Frame.left)
<1>1. frames # << >> /\ Frame.left # << >>
  BY DEF Walking
<1>2. /\ outcome = "open" /\ IsStack(frames) /\ Frame = frames[1] /\ Head(frames) = frames[1]
      /\ Advanced.depth = Frame.depth
  BY <1>1, InReply DEF TextInv
<1>3. AllTold(op, frames) /\ IsSequence(frames)
  BY TextState DEF AllTold
<1>4. PICK n \in Nat :
           /\ Len(frames) = n + 1 /\ DOMAIN frames = 1 .. n + 1 /\ Head(frames) = frames[1]
           /\ IsSequence(Tail(frames)) /\ Len(Tail(frames)) = n /\ DOMAIN Tail(frames) = 1 .. n
           /\ \A i \in 1 .. n : Tail(frames)[i] = frames[i + 1]
  BY <1>1, <1>3, HeadAndTail
<1>5. 1 \in 1 .. n + 1 /\ \A i \in 1 .. n : i + 1 \in 1 .. n + 1
  OBVIOUS
<1>6. Told(op, Frame)
  BY <1>2, <1>3, <1>4, <1>5 DEF AllTold
<1>7. AllTold(op, Tail(frames))
  BY <1>3, <1>4, <1>5 DEF AllTold
<1>8. frames = <<Frame>> \o Tail(frames)
  BY <1>1, <1>3, HeadInFront DEF Frame
<1>9. DOMAIN frames[1] = {"left", "set", "depth"}
  BY <1>2, <1>4, <1>5 DEF IsStack
<1>10. Advanced.left = Tail(Frame.left) /\ Advanced.set = Frame.set
  BY <1>2, <1>9 DEF Advanced
<1>11. QED
  BY <1>1, <1>2, <1>6, <1>7, <1>8, <1>10 DEF Told, Item

\* An attribute is rendered in one step.
LEMMA StepTells ==
  ASSUME TextInv, Walking, Step, SameCall, NEW said, Say(said), IsSequence(said),
         Agree(said, ItemLines(op, Frame))
  PROVE  TextOK'
<1>1. PICK f, g, rest : f = Frame /\ g = Advanced /\ rest = Tail(frames)
  OBVIOUS
<1>2. /\ outcome = "open" /\ Told(op, f) /\ f.left # << >>
      /\ g.left = Tail(f.left) /\ g.set = f.set /\ g.depth = f.depth
      /\ AllTold(op, rest) /\ frames = <<f>> \o rest
  BY <1>1, AtItem
<1>3. PICK after : after = <<g>> \o rest /\ frames' = after
  BY <1>1 DEF Step
<1>4. /\ op \in DOMAIN Operations /\ IsSequence(SentSoFar) /\ IsSequence(out)
      /\ Telling(SentSoFar, out, TodoFor(op, frames))
  BY <1>2, TextState
<1>5. PICK lines : lines = ItemLines(op, f)
  OBVIOUS
<1>6. IsSequence(lines)
  <2>1. Splits(op, f, g)
    BY ONLY <1>2, <1>4, FrameFirst
  <2>2. QED
    BY <1>5, <2>1 DEF Splits
<1>7. IsSequence(<< >>) /\ lines \o << >> = lines
  BY <1>6, ConcatNothing
<1>8. PICK s, text, deeper : s = SentSoFar /\ text = out /\ deeper = << >>
  OBVIOUS
<1>9. /\ Telling(s, text \o said, deeper \o TodoFor(op, after))
      /\ AllTold(op, after) /\ IsSequence(TodoFor(op, after)) /\ IsSequence(text \o said)
  <2>1. /\ IsSequence(s) /\ IsSequence(text) /\ IsSequence(deeper)
        /\ Telling(s, text, TodoFor(op, frames)) /\ ItemLines(op, f) = lines \o deeper
        /\ Agree(said, lines)
    BY <1>1, <1>4, <1>5, <1>7, <1>8
  <2>2. QED
    BY <1>2, <1>3, <1>4, <1>6, <2>1, ItemTold
<1>10. deeper \o TodoFor(op, after) = TodoFor(op, after)
  BY <1>8, <1>9, ConcatNothing
<1>11. out' = text \o said
  BY <1>8 DEF Say
<1>12. Telling(SentSoFar, out', TodoFor(op, frames')) /\ AllTold(op, frames') /\ IsSequence(out')
  BY <1>3, <1>8, <1>9, <1>10, <1>11
<1>13. UNCHANGED <<building, op, replies, count, outcome>>
  BY DEF SameCall
<1>14. QED
  BY <1>2, <1>12, <1>13, WalkTells

\* What ykern finds for the attribute is what it was sent with.
LEMMA ItemFound ==
  ASSUME TextInv, Walking, ~IsRtnl, NEW inner, inner = SetWithin(op, Frame.set, Item)
  PROVE  /\ <<Frame.set, Item>> \in Sent[op] /\ Found = FoundIn(op, Frame.set, Item)
         /\ IsSequence(Item.bytes) /\ IsSequence(Item.inner)
         /\ ~IsNest(Item) => Child = << >> /\ ~Item.flag
         /\ IsNest(Item) /\ ~Declared(op, inner) => Child = << >> /\ Item.flag
         /\ IsNest(Item) /\ Declared(op, inner) =>
              /\ Child # << >> /\ Child = FindSet(Op.overlay, inner)
              /\ Child[1].name = inner /\ (Folded <=> inner = BitsetBit)
              /\ inner = BitsetBit => Bit(Item.inner, Child[1]) = SentBit(op, Item.inner)
<1>1. PICK o, f, set, a : o = op /\ f = Frame /\ set = Frame.set /\ a = Item
  OBVIOUS
<1>2. o \in DOMAIN Operations /\ Told(o, f) /\ f.left # << >> /\ a = Head(f.left) /\ set = f.set
  BY <1>1, AtItem, TextState
<1>3. PICK g : g = [left |-> Tail(f.left), set |-> f.set, depth |-> f.depth]
  OBVIOUS
<1>4. <<set, a>> \in Sent[o]
  <2>1. g.left = Tail(f.left) /\ g.set = f.set /\ g.depth = f.depth
    BY <1>3
  <2>2. ~Rtnl(o)
    BY <1>1 DEF Rtnl, IsRtnl, Op
  <2>3. <<f.set, Head(f.left)>> \in Sent[o]
    <3>1. Splits(o, f, g)
      BY ONLY <1>2, <2>1, FrameFirst
    <3>2. QED
      BY <2>2, <3>1 DEF Splits
  <2>4. QED
    BY <1>2, <2>3
<1>5. PICK overlay : overlay = Operations[o].overlay
  OBVIOUS
<1>6. PICK found, child : found = FoundIn(o, set, a)
                          /\ child = ChildSet(overlay, FindSet(overlay, set)[1], found)
  OBVIOUS
<1>7. Found = found
  BY <1>1, <1>5, <1>6 DEF Found, FoundIn, FrameSet, Op
<1>8. Child = child
  BY <1>1, <1>5, <1>6, <1>7 DEF Child, FrameSet, Op
<1>9. inner = SetWithin(o, set, a)
  BY <1>1
<1>10. /\ ~IsNest(a) => child = << >> /\ ~a.flag
       /\ IsNest(a) /\ ~Declared(o, inner) => child = << >> /\ a.flag
       /\ IsNest(a) /\ Declared(o, inner) => child = FindSet(overlay, inner)
  BY <1>2, <1>4, <1>5, <1>6, <1>9, ChildIsSent
<1>11. /\ IsSequence(a.bytes) /\ IsSequence(a.inner)
       /\ IsNest(a) /\ inner = BitsetBit => BitTold(o, a.inner)
  <2>1. PICK p : p = <<set, a>>
    OBVIOUS
  <2>2. p \in Sent[o] /\ p[1] = set /\ p[2] = a
    BY <1>4, <2>1
  <2>3. /\ IsSequence(p[2].inner) /\ IsSequence(p[2].bytes)
        /\ IsNest(p[2]) /\ SetWithin(o, p[1], p[2]) = BitsetBit => BitTold(o, p[2].inner)
    BY <1>2, <2>2, ReplyAssumption
  <2>4. QED
    BY <1>9, <2>2, <2>3
<1>12. ASSUME IsNest(a), Declared(o, inner)
       PROVE  /\ child # << >> /\ child[1].name = inner
              /\ IsCompact(child[1]) <=> inner = BitsetBit
              /\ inner = BitsetBit => Bit(a.inner, child[1]) = SentBit(o, a.inner)
  <2>1. child = FindSet(overlay, inner)
    BY <1>10, <1>12
  <2>2. /\ child # << >> /\ child[1].name = inner
        /\ IsCompact(child[1]) <=> inner = BitsetBit
        /\ inner = BitsetBit =>
             \A key \in {"INDEX", "NAME", "VALUE"} : BitIds(child[1])[key][1].id = BitId(o, key)
    BY <1>2, <1>5, <1>12, <2>1, BitsFold
  <2>3. PICK c, ins : c = child[1] /\ ins = a.inner
    OBVIOUS
  <2>4. inner = BitsetBit => Bit(ins, c) = SentBit(o, ins)
    BY <1>11, <1>12, <2>2, <2>3, BitIsSent
  <2>5. QED
    BY <2>2, <2>3, <2>4
<1>13. QED
  BY <1>1, <1>4, <1>5, <1>6, <1>7, <1>8, <1>10, <1>11, <1>12 DEF Folded, Op

-----------------------------------------------------------------------------
(* Every step of the walk says what is next.                               *)

\* The lines of the next attribute.
LEMMA ItemSays ==
  ASSUME TextInv, Walking, ~IsRtnl, NEW inner, inner = SetWithin(op, Frame.set, Item),
         NEW lines, lines = ItemLines(op, Frame), NEW depth, depth = Frame.depth
  PROVE  /\ ~IsNest(Item) => lines = <<Line("value", depth, Label(Found, Item.id), Item.bytes)>>
         /\ IsNest(Item) /\ ~Declared(op, inner) =>
              lines = <<OpenLine(depth, Found), LostLine(depth + 1)>>
         /\ IsNest(Item) /\ Declared(op, inner) /\ inner = BitsetBit =>
              lines = <<BitLine(depth, SentBit(op, Item.inner))>>
         /\ IsNest(Item) /\ Declared(op, inner) /\ inner # BitsetBit =>
              /\ lines = <<OpenLine(depth, Found)>> \o SentAttrs(op, inner, Item.inner, depth + 1)
              /\ SentAll(op, inner, Item.inner)
<1>1. PICK o, set, a, found : o = op /\ set = Frame.set /\ a = Item /\ found = Found
  OBVIOUS
<1>2. /\ o \in DOMAIN Operations /\ depth \in Nat /\ <<set, a>> \in Sent[o]
      /\ found = FoundIn(o, set, a) /\ inner = SetWithin(o, set, a) /\ Item = Head(Frame.left)
  BY <1>1, TextState, AtItem, ItemFound
<1>3. lines = SentLines(o)[<<set, a>>][depth]
  BY <1>1, <1>2 DEF ItemLines, Rtnl, IsRtnl, Op
<1>4. /\ ~IsNest(a) => lines = <<Line("value", depth, Label(found, a.id), a.bytes)>>
      /\ IsNest(a) /\ ~Declared(o, inner) => lines = <<OpenLine(depth, found), LostLine(depth + 1)>>
      /\ IsNest(a) /\ Declared(o, inner) /\ inner = BitsetBit =>
           lines = <<BitLine(depth, SentBit(o, a.inner))>>
      /\ IsNest(a) /\ Declared(o, inner) /\ inner # BitsetBit =>
           /\ lines = <<OpenLine(depth, found)>> \o SentAttrs(o, inner, a.inner, depth + 1)
           /\ SentAll(o, inner, a.inner)
  <2>1. o \in DOMAIN Operations /\ <<set, a>> \in Sent[o] /\ depth \in Nat
    BY <1>2
  <2>2. LinesFit(o, SetWithin(o, set, a), FoundIn(o, set, a), a, depth, SentLines(o)[<<set, a>>][depth])
    BY ONLY <2>1, LinesCases
  <2>3. LinesFit(o, inner, found, a, depth, lines)
    BY <1>2, <1>3, <2>2
  <2>4. QED
    BY <2>3 DEF LinesFit
<1>5. QED
  BY <1>1, <1>4

\* A scalar is told by its value.
LEMMA ScalarText == TextInv /\ RenderScalar => TextOK'
<1>1. SUFFICES ASSUME TextInv, RenderScalar PROVE TextOK'
  OBVIOUS
<1>2. Walking /\ ~IsRtnl /\ Child = << >> /\ ~Item.flag /\ Step /\ SameCall
  BY <1>1 DEF RenderScalar
<1>3. PICK inner, depth : inner = SetWithin(op, Frame.set, Item) /\ depth = Frame.depth
  OBVIOUS
<1>4. ~IsNest(Item) /\ IsSequence(Item.bytes)
  BY <1>1, <1>2, <1>3, ItemFound
<1>5. ItemLines(op, Frame) = <<Line("value", depth, Label(Found, Item.id), Item.bytes)>>
  BY <1>1, <1>2, <1>3, <1>4, ItemSays
<1>6. PICK x, y : /\ x = Line("value", depth, Label(Found, Item.id), Scalar(Item.bytes))
                  /\ y = Line("value", depth, Label(Found, Item.id), Item.bytes)
  OBVIOUS
<1>7. Matches(x, y)
  <2>1. Tells(Scalar(Item.bytes), Item.bytes)
    BY <1>4, ScalarTells
  <2>2. QED
    BY <1>6, <2>1 DEF Matches, Line
<1>8. Agree(<<x>>, <<y>>) /\ IsSequence(<<x>>)
  BY <1>7, OneAgrees
<1>9. Say(<<x>>)
  BY <1>1, <1>3, <1>6 DEF RenderScalar
<1>10. Agree(<<x>>, ItemLines(op, Frame))
  BY <1>5, <1>6, <1>8
<1>11. QED
  BY <1>1, <1>2, <1>8, <1>9, <1>10, StepTells

\* So is an attribute of rtnl.
LEMMA RtnlText == TextInv /\ RenderRtnl => TextOK'
<1>1. SUFFICES ASSUME TextInv, RenderRtnl PROVE TextOK'
  OBVIOUS
<1>2. Walking /\ IsRtnl /\ Step /\ SameCall
  BY <1>1 DEF RenderRtnl
<1>3. PICK o, f, g, a : o = op /\ f = Frame /\ g = Advanced /\ a = Item
  OBVIOUS
<1>4. /\ o \in DOMAIN Operations /\ Told(o, f) /\ f.left # << >> /\ Rtnl(o) /\ a = Head(f.left)
      /\ g.left = Tail(f.left) /\ g.set = f.set /\ g.depth = f.depth
  BY <1>1, <1>2, <1>3, AtItem, TextState DEF Rtnl, IsRtnl, Op
<1>5. IsSequence(a.bytes) /\ RtnlTold(o, a)
  <2>1. Splits(o, f, g)
    BY ONLY <1>4, FrameFirst
  <2>2. QED
    BY <1>4, <2>1 DEF Splits
<1>6. PICK found : found = LookupId(<<[attrs |-> Operations[o].table]>>, a.id)
  OBVIOUS
<1>7. Found = found
  BY <1>2, <1>3, <1>6 DEF Found, Op
<1>8. PICK x, y : /\ x = Line("value", 1, Label(found, a.id), RtnlValue(found, a.bytes))
                  /\ y = Line("value", 1, Label(found, a.id), a.bytes)
  OBVIOUS
<1>9. ItemLines(o, f) = <<y>>
  BY <1>4, <1>6, <1>8 DEF ItemLines
<1>10. Matches(x, y)
  <2>1. Tells(RtnlValue(found, a.bytes), a.bytes)
    BY <1>5, <1>6, RtnlTells
  <2>2. QED
    BY <1>8, <2>1 DEF Matches, Line
<1>11. Agree(<<x>>, <<y>>) /\ IsSequence(<<x>>)
  BY <1>10, OneAgrees
<1>12. Say(<<x>>)
  BY <1>1, <1>3, <1>7, <1>8 DEF RenderRtnl
<1>13. Agree(<<x>>, ItemLines(op, Frame))
  BY <1>3, <1>9, <1>11
<1>14. QED
  BY <1>1, <1>2, <1>11, <1>12, <1>13, StepTells

\* An attribute is said to be lost only if its set is not declared.
LEMMA LostText == TextInv /\ RenderLost => TextOK'
<1>1. SUFFICES ASSUME TextInv, RenderLost PROVE TextOK'
  OBVIOUS
<1>2. Walking /\ ~IsRtnl /\ Child = << >> /\ Item.flag /\ Step /\ SameCall
  BY <1>1 DEF RenderLost
<1>3. PICK inner, depth : inner = SetWithin(op, Frame.set, Item) /\ depth = Frame.depth
  OBVIOUS
<1>4. IsNest(Item) /\ ~Declared(op, inner)
  BY <1>1, <1>2, <1>3, ItemFound
<1>5. PICK x, y : x = OpenLine(depth, Found) /\ y = LostLine(depth + 1)
  OBVIOUS
<1>6. ItemLines(op, Frame) = <<x, y>>
  BY <1>1, <1>2, <1>3, <1>4, <1>5, ItemSays
<1>7. Plain(<<x, y>>)
  <2>1. x.as # "value" /\ y.as # "value"
    BY <1>5 DEF OpenLine, LostLine, Line
  <2>2. IsSequence(<<x, y>>) /\ Len(<<x, y>>) = 2 /\ <<x, y>>[1] = x /\ <<x, y>>[2] = y
    BY ShortSequences
  <2>3. \A i \in 1 .. 2 : i = 1 \/ i = 2
    OBVIOUS
  <2>4. QED
    BY <2>1, <2>2, <2>3 DEF Plain
<1>8. Say(<<x, y>>)
  BY <1>1, <1>3, <1>5 DEF RenderLost
<1>9. IsSequence(<<x, y>>) /\ Agree(<<x, y>>, ItemLines(op, Frame))
  BY <1>6, <1>7, PlainAgree DEF Plain
<1>10. QED
  BY <1>1, <1>2, <1>8, <1>9, StepTells

\* Nothing of rtnl has attributes in it.
LEMMA RtnlFlat ==
  ASSUME IsRtnl
  PROVE  Child = << >> /\ ~Folded
BY DEF Child, Folded

\* A bit is on one line.
LEMMA BitText == TextInv /\ RenderBit => TextOK'
<1>1. SUFFICES ASSUME TextInv, RenderBit PROVE TextOK'
  OBVIOUS
<1>2. Walking /\ Folded /\ Step /\ SameCall
  BY <1>1 DEF RenderBit
<1>3. ~IsRtnl /\ Child # << >>
  BY <1>2, RtnlFlat DEF Folded
<1>4. PICK inner, depth : inner = SetWithin(op, Frame.set, Item) /\ depth = Frame.depth
  OBVIOUS
<1>5. IsNest(Item) /\ Declared(op, inner) /\ inner = BitsetBit
      /\ Bit(Item.inner, Child[1]) = SentBit(op, Item.inner)
  BY <1>1, <1>2, <1>3, <1>4, ItemFound
<1>6. PICK x : x = BitLine(depth, Bit(Item.inner, Child[1]))
  OBVIOUS
<1>7. ItemLines(op, Frame) = <<x>>
  BY <1>1, <1>2, <1>3, <1>4, <1>5, <1>6, ItemSays
<1>8. Matches(x, x)
  BY <1>6 DEF Matches, BitLine, Line
<1>9. Agree(<<x>>, <<x>>) /\ IsSequence(<<x>>)
  BY <1>8, OneAgrees
<1>10. Say(<<x>>)
  BY <1>1, <1>4, <1>6 DEF RenderBit
<1>11. Agree(<<x>>, ItemLines(op, Frame))
  BY <1>7, <1>9
<1>12. QED
  BY <1>1, <1>2, <1>9, <1>10, <1>11, StepTells

\* The attributes in a nested one are read with the set the kernel used.
LEMMA NestText == TextInv /\ RenderNest => TextOK'
<1>1. SUFFICES ASSUME TextInv, RenderNest PROVE TextOK'
  OBVIOUS
<1>2. Walking /\ Child # << >> /\ ~Folded /\ SameCall
  BY <1>1 DEF RenderNest
<1>3. ~IsRtnl
  BY <1>2, RtnlFlat
<1>4. PICK inner, depth : inner = SetWithin(op, Frame.set, Item) /\ depth = Frame.depth
  OBVIOUS
<1>5. /\ IsNest(Item) /\ Declared(op, inner) /\ inner # BitsetBit /\ Child[1].name = inner
      /\ IsSequence(Item.inner)
  BY <1>1, <1>2, <1>3, <1>4, ItemFound
<1>6. /\ ItemLines(op, Frame)
           = <<OpenLine(depth, Found)>> \o SentAttrs(op, inner, Item.inner, depth + 1)
      /\ SentAll(op, inner, Item.inner)
  BY <1>1, <1>2, <1>3, <1>4, <1>5, ItemSays
<1>7. PICK o, f, g, rest : o = op /\ f = Frame /\ g = Advanced /\ rest = Tail(frames)
  OBVIOUS
<1>8. /\ outcome = "open" /\ Told(o, f) /\ f.left # << >>
      /\ g.left = Tail(f.left) /\ g.set = f.set /\ g.depth = f.depth /\ depth \in Nat
      /\ AllTold(o, rest) /\ frames = <<f>> \o rest
  BY <1>1, <1>2, <1>4, <1>7, AtItem
<1>9. PICK y : y = [left |-> Item.inner, set |-> inner, depth |-> depth + 1]
  OBVIOUS
<1>10. /\ o \in DOMAIN Operations /\ IsSequence(SentSoFar) /\ IsSequence(out)
       /\ Telling(SentSoFar, out, TodoFor(o, frames))
  BY <1>1, <1>7, <1>8, TextState
<1>11. ~Rtnl(o)
  BY <1>3, <1>7 DEF Rtnl, IsRtnl, Op
<1>12. Told(o, y)
  <2>1. y.left = Item.inner /\ y.set = inner /\ y.depth = depth + 1
    BY <1>9
  <2>2. depth + 1 \in Nat
    BY <1>8
  <2>3. \A i \in DOMAIN y.left : <<y.set, y.left[i]>> \in Sent[o]
    BY <1>6, <1>7, <2>1 DEF SentAll
  <2>4. QED
    BY <1>5, <1>11, <2>1, <2>2, <2>3 DEF Told
<1>13. FrameLines(o, y) = SentAttrs(op, inner, Item.inner, depth + 1)
  BY <1>7, <1>9, <1>11 DEF FrameLines
<1>14. PICK x, deeper : x = OpenLine(depth, Found) /\ deeper = FrameLines(o, y)
  OBVIOUS
<1>15. ItemLines(o, f) = <<x>> \o deeper
  BY <1>6, <1>7, <1>13, <1>14
<1>16. IsSequence(deeper)
  BY <1>10, <1>12, <1>14, FrameSequence
<1>17. Agree(<<x>>, <<x>>) /\ IsSequence(<<x>>)
  <2>1. Matches(x, x)
    BY <1>14 DEF Matches, OpenLine, Line
  <2>2. QED
    BY <2>1, OneAgrees
<1>18. PICK s, text, said, after :
         s = SentSoFar /\ text = out /\ said = <<x>> /\ after = <<g>> \o rest
  OBVIOUS
<1>19. /\ Telling(s, text \o said, deeper \o TodoFor(o, after))
       /\ AllTold(o, after) /\ IsSequence(TodoFor(o, after)) /\ IsSequence(text \o said)
  <2>1. /\ IsSequence(s) /\ IsSequence(text) /\ IsSequence(said) /\ Agree(said, said)
        /\ Telling(s, text, TodoFor(o, frames)) /\ ItemLines(o, f) = said \o deeper
    BY <1>10, <1>15, <1>17, <1>18
  <2>2. QED
    BY <1>8, <1>10, <1>16, <1>18, <2>1, ItemTold
<1>20. PICK all : all = <<y>> \o after
  OBVIOUS
<1>21. TodoFor(o, all) = deeper \o TodoFor(o, after) /\ AllTold(o, all)
  <2>1. o \in DOMAIN Operations /\ Told(o, y) /\ AllTold(o, after)
    BY <1>10, <1>12, <1>19
  <2>2. TodoFor(o, all) = FrameLines(o, y) \o TodoFor(o, after) /\ AllTold(o, all)
    <3>1. Stacks(o, y, after, all)
      BY ONLY <1>20, <2>1, TodoFirst
    <3>2. QED
      BY <3>1 DEF Stacks
  <2>3. QED
    BY <1>14, <2>2
<1>22. frames' = all
  <2>1. frames' = <<y, g>> \o rest
    BY <1>1, <1>4, <1>5, <1>7, <1>9 DEF RenderNest
  <2>2. <<y, g>> = <<y>> \o <<g>>
    OBVIOUS
  <2>3. IsSequence(<<y>>) /\ IsSequence(<<g>>) /\ IsSequence(rest)
    BY <1>8, ShortSequences DEF AllTold
  <2>4. (<<y>> \o <<g>>) \o rest = <<y>> \o (<<g>> \o rest)
    <3>1. Joins(<<y>>, <<g>>, rest)
      BY ONLY <2>3, ConcatThree
    <3>2. QED
      BY <3>1 DEF Joins
  <2>5. QED
    BY <1>18, <1>20, <2>1, <2>2, <2>4
<1>23. out' = text \o said
  BY <1>1, <1>4, <1>14, <1>18 DEF RenderNest, Say
<1>24. AllTold(op, frames') /\ IsSequence(out') /\ Telling(SentSoFar, out', TodoFor(op, frames'))
  BY <1>7, <1>18, <1>19, <1>21, <1>22, <1>23
<1>25. UNCHANGED <<building, op, replies, count, outcome>>
  BY <1>2 DEF SameCall
<1>26. QED
  BY <1>1, <1>8, <1>24, <1>25, WalkTells

\* A call of render_attrs_recursive that is over has nothing left to say.
LEMMA NothingLeft ==
  ASSUME TextInv, frames # << >>, Frame.left = << >>
  PROVE  /\ TodoFor(op, frames) = TodoFor(op, Tail(frames)) /\ AllTold(op, Tail(frames))
         /\ outcome = "open" /\ IsSequence(Tail(frames))
<1>1. outcome = "open" /\ Frame = frames[1] /\ Head(frames) = frames[1]
  BY InReply DEF TextInv
<1>2. AllTold(op, frames) /\ IsSequence(frames) /\ op \in DOMAIN Operations
  BY TextState DEF AllTold
<1>3. PICK n \in Nat :
           /\ Len(frames) = n + 1 /\ DOMAIN frames = 1 .. n + 1 /\ Head(frames) = frames[1]
           /\ IsSequence(Tail(frames)) /\ Len(Tail(frames)) = n /\ DOMAIN Tail(frames) = 1 .. n
           /\ \A i \in 1 .. n : Tail(frames)[i] = frames[i + 1]
  BY <1>2, HeadAndTail
<1>4. 1 \in 1 .. n + 1 /\ \A i \in 1 .. n : i + 1 \in 1 .. n + 1
  OBVIOUS
<1>5. Told(op, Frame)
  BY <1>1, <1>2, <1>3, <1>4 DEF AllTold
<1>6. AllTold(op, Tail(frames))
  BY <1>2, <1>3, <1>4 DEF AllTold
<1>7. PICK f, rest : f = Frame /\ rest = Tail(frames)
  OBVIOUS
<1>8. frames = <<f>> \o rest
  BY <1>2, <1>7, HeadInFront DEF Frame
<1>9. TodoFor(op, frames) = FrameLines(op, f) \o TodoFor(op, rest) /\ IsSequence(TodoFor(op, rest))
  <2>1. op \in DOMAIN Operations /\ Told(op, f) /\ AllTold(op, rest)
    BY <1>2, <1>5, <1>6, <1>7
  <2>2. Stacks(op, f, rest, frames)
    BY ONLY <1>8, <2>1, TodoFirst
  <2>3. QED
    BY <2>2 DEF Stacks
<1>10. FrameLines(op, f) = << >>
  BY <1>7, FrameNone
<1>11. << >> \o TodoFor(op, rest) = TodoFor(op, rest)
  BY <1>9, ConcatNothing
<1>12. QED
  BY <1>1, <1>3, <1>6, <1>7, <1>9, <1>10, <1>11

\* At the end of a nested attribute nothing is said.
LEMMA LeaveText == TextInv /\ Leave => TextOK'
<1>1. SUFFICES ASSUME TextInv, Leave PROVE TextOK'
  OBVIOUS
<1>2. /\ Len(frames) > 1 /\ Frame.left = << >> /\ frames' = Tail(frames)
      /\ UNCHANGED <<building, op, replies, out, count, outcome>>
  BY <1>1 DEF Leave
<1>3. frames # << >>
  BY <1>2
<1>4. /\ TodoFor(op, frames) = TodoFor(op, Tail(frames)) /\ AllTold(op, Tail(frames))
      /\ outcome = "open"
  BY <1>1, <1>2, <1>3, NothingLeft
<1>5. IsSequence(out) /\ Telling(SentSoFar, out, TodoFor(op, frames))
  BY <1>1, <1>4, TextState
<1>6. AllTold(op, frames') /\ IsSequence(out') /\ Telling(SentSoFar, out', TodoFor(op, frames'))
  BY <1>2, <1>4, <1>5
<1>7. QED
  BY <1>1, <1>2, <1>4, <1>6, WalkTells

-----------------------------------------------------------------------------
(* The other steps of a call.                                              *)

\* The number of replies, at the end of a dump.
CountOf(d, n) == IF d THEN <<CountLine(n)>> ELSE << >>

\* A step of a call that has been sent keeps TextOK if what is said tells what
\* was sent.
LEMMA CallTells ==
  ASSUME TextInv, UNCHANGED <<building, op>>, AllTold(op, frames'), IsSequence(out'),
         outcome' = "open" =>
           Telling(PastFor(op, dump, hasSet, replies'), out', TodoFor(op, frames')),
         outcome' = "text" =>
           Telling(PastFor(op, dump, hasSet, replies') \o CountOf(dump, Len(replies')), out', << >>)
  PROVE  TextOK'
<1>1. UNCHANGED <<request, dump, hasSet, result>>
  BY DEF building
<1>2. SentSoFar' = PastFor(op, dump, hasSet, replies')
  <2>1. (SentSoFar = PastFor(op, dump, hasSet, replies))'
    BY SentIs, PTL
  <2>2. SentSoFar' = PastFor(op', dump', hasSet', replies')
    BY <2>1
  <2>3. QED
    BY <1>1, <2>2
<1>3. Todo' = TodoFor(op, frames')
  <2>1. (Todo = TodoFor(op, frames))'
    BY TodoIs, PTL
  <2>2. QED
    BY <2>1
<1>4. SentText' = PastFor(op, dump, hasSet, replies') \o CountOf(dump, Len(replies'))
  <2>1. (SentText = SentSoFar \o CountOf(dump, Len(replies)))'
    BY SentIs, PTL DEF CountOf
  <2>2. SentText' = SentSoFar' \o CountOf(dump', Len(replies'))
    BY <2>1
  <2>3. QED
    BY <1>1, <1>2, <2>2
<1>5. \A i \in DOMAIN frames' : FrameTold(frames[i])'
  BY DEF AllTold, Told, FrameTold, Rtnl, IsRtnl, Op
<1>6. IsRtnl' = IsRtnl
  BY DEF IsRtnl, Op
<1>7. QED
  BY <1>1, <1>2, <1>3, <1>4, <1>5, <1>6 DEF TextInv, TextOK

\* With no frame there is nothing left to say.
LEMMA NoTodo ==
  ASSUME NEW o
  PROVE  TodoFor(o, << >>) = << >> /\ AllTold(o, << >>) /\ IsSequence(<< >>)
<1>1. PICK f : f = [i \in DOMAIN << >> |-> FrameLines(o, << >>[i])]
  OBVIOUS
<1>2. f = << >>
  BY <1>1
<1>3. FlattenSeq(<< >>) = << >>
  BY DEF FlattenSeq
<1>4. PICK x : x = 0
  OBVIOUS
<1>5. IsSequence(<<x>>)
  BY ShortSequences
<1>6. IsSequence(<< >>)
  BY <1>5, ConcatNothing
<1>7. QED
  BY <1>1, <1>2, <1>3, <1>6 DEF TodoFor, AllTold

\* One frame.
LEMMA OneTodo ==
  ASSUME NEW o \in DOMAIN Operations, NEW y, Told(o, y)
  PROVE  /\ TodoFor(o, <<y>>) = FrameLines(o, y) /\ AllTold(o, <<y>>)
         /\ IsSequence(FrameLines(o, y))
<1>1. PICK none : none = << >>
  OBVIOUS
<1>2. TodoFor(o, none) = none /\ AllTold(o, none)
  BY <1>1, NoTodo
<1>3. IsSequence(<<y>>)
  BY ShortSequences
<1>4. PICK all : all = <<y>> \o none
  OBVIOUS
<1>5. all = <<y>>
  BY <1>1, <1>3, <1>4, ConcatNothing
<1>6. Stacks(o, y, none, all)
  <2>1. o \in DOMAIN Operations /\ Told(o, y) /\ AllTold(o, none)
    BY <1>2
  <2>2. QED
    BY ONLY <1>4, <2>1, TodoFirst
<1>7. FrameLines(o, y) \o none = FrameLines(o, y)
  BY <1>1, <1>6, ConcatNothing DEF Stacks
<1>8. QED
  BY <1>2, <1>5, <1>6, <1>7 DEF Stacks

\* Between two replies.
LEMMA Between ==
  ASSUME TextInv, Receiving
  PROVE  /\ frames = << >> /\ outcome = "open" /\ result = "sent"
         /\ Telling(SentSoFar, out, << >>) /\ SentSoFar = PastFor(op, dump, hasSet, replies)
         /\ count = Len(replies)
<1>1. frames = << >> /\ outcome = "open" /\ result = "sent"
  BY DEF Receiving
<1>2. Telling(SentSoFar, out, TodoFor(op, frames))
  BY <1>1, TextState
<1>3. TodoFor(op, frames) = << >>
  BY <1>1, NoTodo
<1>4. count = Len(replies)
  BY <1>1 DEF TextInv, InvokeInv, CountingOK
<1>5. QED
  BY <1>1, <1>2, <1>3, <1>4, SentIs

\* A call that fails says nothing.
LEMMA FailText == TextInv /\ (KernelError \/ SocketFails) => TextOK'
<1>1. SUFFICES ASSUME TextInv, KernelError \/ SocketFails PROVE TextOK'
  OBVIOUS
<1>2. /\ Receiving /\ out' = << >> /\ outcome' \in {"errno", "error"}
      /\ UNCHANGED <<building, op, frames>>
  BY <1>1 DEF KernelError, SocketFails
<1>3. frames' = << >>
  BY <1>1, <1>2, Between
<1>4. AllTold(op, frames') /\ IsSequence(out')
  BY <1>2, <1>3, NoTodo
<1>5. outcome' # "open" /\ outcome' # "text"
  BY <1>2
<1>6. QED
  BY <1>1, <1>2, <1>4, <1>5, CallTells

\* A dump ends with its number of replies.
LEMMA DoneText == TextInv /\ Done => TextOK'
<1>1. SUFFICES ASSUME TextInv, Done PROVE TextOK'
  OBVIOUS
<1>2. /\ Receiving /\ dump /\ out' = out \o <<CountLine(count)>> /\ outcome' = "text"
      /\ UNCHANGED <<building, op, replies, frames>>
  BY <1>1 DEF Done, Say
<1>3. PICK s, text, x : s = SentSoFar /\ text = out /\ x = CountLine(count)
  OBVIOUS
<1>4. IsSequence(s) /\ IsSequence(text) /\ Telling(s, text, << >>) /\ IsSequence(<<x>>)
  BY <1>1, <1>2, <1>3, TextState, Between, ShortSequences
<1>5. PICK lines, none : lines = <<x>> /\ none = << >>
  OBVIOUS
<1>6. Agree(lines, lines) /\ IsSequence(lines)
  <2>1. x.as # "value"
    BY <1>3 DEF CountLine, Line
  <2>2. Plain(lines)
    BY <1>5, <2>1, PlainShort
  <2>3. QED
    BY <2>2, PlainAgree DEF Plain
<1>7. PICK all : all = s \o lines
  OBVIOUS
<1>8. IsSequence(all) /\ Telling(all, text, lines)
  BY <1>4, <1>5, <1>6, <1>7, ConcatHas, TellNext
<1>9. IsSequence(none) /\ lines \o none = lines
  BY <1>5, <1>6, ConcatNothing
<1>10. Telling(all, text, lines \o none)
  BY <1>8, <1>9
<1>11. Telling(all, text \o lines, none) /\ IsSequence(text \o lines)
  BY <1>4, <1>6, <1>8, <1>9, <1>10, TellMore, ConcatHas
<1>12. all = PastFor(op, dump, hasSet, replies') \o CountOf(dump, Len(replies'))
  BY <1>1, <1>2, <1>3, <1>5, <1>7, Between DEF CountOf
<1>13. out' = text \o lines
  BY <1>2, <1>3, <1>5
<1>14. frames' = << >>
  BY <1>1, <1>2, Between
<1>15. AllTold(op, frames')
  BY <1>14, NoTodo
<1>16. outcome' # "open"
  BY <1>2
<1>17. QED
  BY <1>1, <1>2, <1>5, <1>11, <1>12, <1>13, <1>15, <1>16, CallTells

\* At the end of a reply all of it has been said.
LEMMA LeaveReplyText == TextInv /\ LeaveReply => TextOK'
<1>1. SUFFICES ASSUME TextInv, LeaveReply PROVE TextOK'
  OBVIOUS
<1>2. /\ Len(frames) = 1 /\ frames # << >> /\ Frame.left = << >> /\ frames' = << >>
      /\ outcome' = IF dump THEN "open" ELSE "text"
      /\ UNCHANGED <<building, op, replies, out>>
  BY <1>1 DEF LeaveReply
<1>3. TodoFor(op, frames) = TodoFor(op, Tail(frames)) /\ outcome = "open" /\ IsSequence(Tail(frames))
  BY <1>1, <1>2, NothingLeft
<1>4. Tail(frames) = << >>
  <2>1. IsSequence(frames)
    BY <1>1, TextState DEF AllTold
  <2>2. PICK n \in Nat : Len(frames) = n + 1 /\ DOMAIN Tail(frames) = 1 .. n /\ Len(Tail(frames)) = n
    BY <1>2, <2>1, HeadAndTail
  <2>3. n = 0
    BY <1>2, <2>2
  <2>4. QED
    BY <1>3, <2>2, <2>3, EmptySeq DEF IsSequence
<1>5. Telling(SentSoFar, out, << >>) /\ IsSequence(SentSoFar) /\ IsSequence(out)
  BY <1>1, <1>3, <1>4, TextState, NoTodo
<1>6. SentSoFar = PastFor(op, dump, hasSet, replies)
  BY SentIs
<1>7. AllTold(op, frames') /\ TodoFor(op, frames') = << >> /\ IsSequence(out')
  BY <1>2, <1>5, NoTodo
<1>8. CASE dump
  BY <1>1, <1>2, <1>5, <1>6, <1>7, <1>8, CallTells
<1>9. CASE ~dump
  <2>1. SentSoFar \o << >> = SentSoFar
    BY <1>5, ConcatNothing
  <2>2. CountOf(dump, Len(replies')) = << >>
    BY <1>9 DEF CountOf
  <2>3. Telling(PastFor(op, dump, hasSet, replies') \o CountOf(dump, Len(replies')), out', << >>)
    BY <1>2, <1>5, <1>6, <2>1, <2>2
  <2>4. QED
    BY <1>1, <1>2, <1>7, <1>9, <2>3, CallTells
<1>10. QED
  BY <1>8, <1>9

-----------------------------------------------------------------------------
(* A reply is opened, and the text as a whole.                             *)

\* The frame a reply is rendered in, and what is said of it before.
Opened(bare, set, attrs) ==
  [left |-> IF bare THEN << >> ELSE attrs,
   set |-> IF set = << >> THEN NoName ELSE set[1].name, depth |-> 1]

Opening(o, d, bare, n, r) ==
  (IF d THEN <<EntryLine(n)>> ELSE << >>)
  \o (IF Rtnl(o) THEN <<HeadLine(r.head)>> ELSE << >>)
  \o (IF bare THEN <<BareLine>> ELSE << >>)

Opens(o, d, h, n, r, y, said) ==
  Plain(said) /\ Told(o, y) /\ ReplyLines(o, d, h, n, r) = said \o FrameLines(o, y)

\* What is said and what is left are the lines of the reply.
LEMMA ReplyOpens ==
  ASSUME NEW o \in DOMAIN Operations, NEW r \in Operations[o].replies, NEW d, NEW h, NEW n,
         ~Rtnl(o) => (h <=> ReplySet(o) # << >>),
         NEW set, set = IF Rtnl(o) THEN << >> ELSE ReplySet(o),
         NEW bare, bare = (~Rtnl(o) /\ set = << >>),
         NEW y, y = Opened(bare, set, r.attrs),
         NEW said, said = Opening(o, d, bare, n, r)
  PROVE  Opens(o, d, h, n, r, y, said)
<1>1. \A x : IsSequence(<<x>>)
  BY ShortSequences
<1>2. PICK none : none = << >> /\ IsSequence(none)
  BY NoTodo
<1>3. /\ EntryLine(n).as # "value" /\ HeadLine(r.head).as # "value" /\ BareLine.as # "value"
  BY DEF EntryLine, HeadLine, BareLine, Line
<1>4. PICK e : e = IF d THEN <<EntryLine(n)>> ELSE << >>
  OBVIOUS
<1>5. Plain(none) /\ Plain(<<HeadLine(r.head)>>) /\ Plain(<<BareLine>>) /\ Plain(e)
  <2>1. Plain(<<HeadLine(r.head)>>) /\ Plain(<< >>)
    BY <1>3, PlainShort
  <2>2. Plain(<<BareLine>>)
    BY <1>3, PlainShort
  <2>3. Plain(<<EntryLine(n)>>)
    BY <1>3, PlainShort
  <2>4. QED
    BY <1>2, <1>4, <2>1, <2>2, <2>3
<1>6. IsSequence(e) /\ e \o none = e /\ none \o none = none
  BY <1>2, <1>5, ConcatNothing DEF Plain
<1>7. y.left = (IF bare THEN << >> ELSE r.attrs) /\ y.depth = 1
      /\ y.set = IF set = << >> THEN NoName ELSE set[1].name
  BY DEF Opened
<1>8. IsSequence(r.attrs)
  BY ReplyOf
<1>9. PICK one \in Nat : one = 1
  OBVIOUS
<1>10. CASE Rtnl(o)
  <2>1. PICK x : x = <<HeadLine(r.head)>>
    OBVIOUS
  <2>2. said = (e \o x) \o none
    BY <1>2, <1>4, <1>10, <2>1 DEF Opening
  <2>3. IsSequence(x) /\ IsSequence(e \o x)
    BY <1>1, <1>6, <2>1, ConcatHas
  <2>4. said = e \o x
    BY <1>2, <2>2, <2>3, ConcatNothing
  <2>5. Plain(said)
    BY <1>5, <2>1, <2>4, PlainConcat
  <2>6. y.left = r.attrs
    BY <1>7, <1>10
  <2>7. Told(o, y)
    BY <1>7, <1>8, <1>10, <2>6, ReplyOf DEF Told
  <2>8. PICK z : z = SentRtnl(o, r.attrs)
    OBVIOUS
  <2>9. IsSequence(z)
    BY <1>8, <2>8, RtnlSequence
  <2>10. FrameLines(o, y) = z
    BY <1>10, <2>6, <2>8 DEF FrameLines
  <2>11. ReplyLines(o, d, h, n, r) = e \o (x \o z)
    BY <1>4, <1>10, <2>1, <2>8 DEF ReplyLines
  <2>12. (e \o x) \o z = e \o (x \o z)
    <3>1. IsSequence(e) /\ IsSequence(x)
      BY <1>6, <2>3
    <3>2. Joins(e, x, z)
      BY ONLY <2>9, <3>1, ConcatThree
    <3>3. QED
      BY <3>2 DEF Joins
  <2>13. QED
    BY <2>4, <2>5, <2>7, <2>10, <2>11, <2>12 DEF Opens
<1>11. CASE ~Rtnl(o) /\ set = << >>
  <2>1. PICK x : x = <<BareLine>>
    OBVIOUS
  <2>2. said = (e \o none) \o x
    BY <1>2, <1>4, <1>11, <2>1 DEF Opening
  <2>3. said = e \o x
    BY <1>6, <2>2
  <2>4. Plain(said) /\ IsSequence(said)
    BY <1>5, <2>1, <2>3, PlainConcat DEF Plain
  <2>5. y.left = << >>
    BY <1>7, <1>11
  <2>6. Told(o, y)
    BY <1>2, <1>7, <1>9, <2>5 DEF Told
  <2>7. FrameLines(o, y) = none
    BY <1>2, <2>5, FrameNone
  <2>8. ~h
    BY <1>11
  <2>9. ReplyLines(o, d, h, n, r) = e \o x
    BY <1>4, <1>11, <2>1, <2>8 DEF ReplyLines
  <2>10. said \o none = said
    BY <1>2, <2>4, ConcatNothing
  <2>11. QED
    BY <2>3, <2>4, <2>6, <2>7, <2>9, <2>10 DEF Opens
<1>12. CASE ~Rtnl(o) /\ set # << >>
  <2>1. said = (e \o none) \o none
    BY <1>2, <1>4, <1>12 DEF Opening
  <2>2. said = e
    BY <1>6, <2>1
  <2>3. ReplySet(o) # << >> /\ h /\ set = ReplySet(o)
    BY <1>12
  <2>4. PICK schema, overlay : schema = Operations[o].schema /\ overlay = Operations[o].overlay
    OBVIOUS
  <2>5. set = FindSet(overlay, schema) /\ IsSequence(overlay.sets)
    BY <1>12, <2>3, <2>4, ReplyAssumption DEF Rtnl
  <2>6. PICK s : set = <<s>> /\ s.name = schema /\ schema # NoName
    BY <1>12, <2>5, FindSetFinds
  <2>7. y.set = schema /\ y.left = r.attrs /\ y.depth = one
    <3>1. <<s>>[1] = s
      BY ShortSequences
    <3>2. set[1].name = schema
      BY <2>6, <3>1
    <3>3. ~bare
      BY <1>12
    <3>4. QED
      BY <1>7, <1>9, <1>12, <3>2, <3>3
  <2>8. SentAll(o, schema, r.attrs)
    BY <1>12, <2>3, <2>4, ReplyOf
  <2>9. Told(o, y)
    BY <1>8, <1>9, <1>12, <2>7, <2>8 DEF Told, SentAll
  <2>10. FrameLines(o, y) = SentAttrs(o, schema, r.attrs, one)
    BY <1>12, <2>7 DEF FrameLines
  <2>11. ReplyLines(o, d, h, n, r) = e \o SentAttrs(o, schema, r.attrs, one)
    BY <1>4, <1>9, <1>12, <2>3, <2>4 DEF ReplyLines
  <2>12. QED
    BY <1>5, <2>2, <2>9, <2>10, <2>11 DEF Opens
<1>13. QED
  BY <1>10, <1>11, <1>12 DEF Opens

\* A reply is opened under its number.
LEMMA ReplySays == TextInv /\ Reply => TextOK'
<1>1. SUFFICES ASSUME TextInv, Reply PROVE TextOK'
  OBVIOUS
<1>2. Receiving /\ UNCHANGED <<building, op, count, outcome>>
  BY <1>1 DEF Reply
<1>3. PICK o, d, h, n, rs : o = op /\ d = dump /\ h = hasSet /\ n = count + 1 /\ rs = replies
  OBVIOUS
<1>4. IsRtnl = Rtnl(o)
  BY <1>3 DEF IsRtnl, Rtnl, Op
<1>5. PICK set : set = IF Rtnl(o) THEN << >> ELSE ReplySet(o)
  OBVIOUS
<1>6. PICK bare : bare = (~Rtnl(o) /\ set = << >>)
  OBVIOUS
<1>7. PICK r \in Operations[o].replies :
           /\ replies' = Append(replies, r)
           /\ frames' = <<Opened(bare, set, r.attrs)>>
           /\ out' = out \o Opening(o, d, bare, n, r)
  BY <1>1, <1>3, <1>4, <1>5, <1>6 DEF Reply, Say, Opened, Opening, Op
<1>8. PICK y, said : y = Opened(bare, set, r.attrs) /\ said = Opening(o, d, bare, n, r)
  OBVIOUS
<1>9. /\ o \in DOMAIN Operations /\ rs \in Seq(Operations[o].replies)
      /\ outcome = "open" /\ n = Len(rs) + 1
  BY <1>1, <1>2, <1>3, TextState, Between
<1>10. ~Rtnl(o) => (h <=> ReplySet(o) # << >>)
  BY <1>1, <1>2, <1>3, <1>4, SetThere, Between
<1>11. Plain(said) /\ Told(o, y) /\ ReplyLines(o, d, h, n, r) = said \o FrameLines(o, y)
  <2>1. o \in DOMAIN Operations /\ r \in Operations[o].replies
    BY <1>7, <1>9
  <2>2. Opens(o, d, h, n, r, y, said)
    BY ONLY <1>5, <1>6, <1>8, <1>10, <2>1, ReplyOpens
  <2>3. QED
    BY <2>2 DEF Opens
<1>12. PICK s, text, t, rest : /\ s = PastFor(o, d, h, rs) /\ text = out
                               /\ t = ReplyLines(o, d, h, n, r) /\ rest = FrameLines(o, y)
  OBVIOUS
<1>13. IsSequence(s) /\ IsSequence(text) /\ Telling(s, text, << >>)
  BY <1>1, <1>2, <1>3, <1>12, TextState, Between
<1>14. IsSequence(t)
  BY <1>7, <1>9, <1>10, <1>12, ReplySequence
<1>15. PICK all : all = s \o t
  OBVIOUS
<1>16. IsSequence(all) /\ Telling(all, text, t)
  BY <1>13, <1>14, <1>15, ConcatHas, TellNext
<1>17. /\ TodoFor(o, <<y>>) = rest /\ AllTold(o, <<y>>) /\ IsSequence(rest)
  BY <1>9, <1>11, <1>12, OneTodo
<1>18. IsSequence(said) /\ Agree(said, said) /\ Telling(all, text, said \o rest)
  BY <1>11, <1>12, <1>16, PlainAgree DEF Plain
<1>19. Telling(all, text \o said, rest) /\ IsSequence(text \o said)
  BY <1>13, <1>16, <1>17, <1>18, TellMore, ConcatHas
<1>20. PastFor(o, d, h, replies') = all
  <2>1. PastFor(o, d, h, Append(rs, r)) = PastFor(o, d, h, rs) \o ReplyLines(o, d, h, Len(rs) + 1, r)
    BY <1>7, <1>9, <1>10, PastNext
  <2>2. QED
    BY <1>3, <1>7, <1>9, <1>12, <1>15, <2>1
<1>21. AllTold(op, frames') /\ IsSequence(out')
       /\ Telling(PastFor(op, dump, hasSet, replies'), out', TodoFor(op, frames'))
  BY <1>3, <1>7, <1>8, <1>12, <1>17, <1>19, <1>20
<1>22. outcome' # "text"
  BY <1>2, <1>9
<1>23. QED
  BY <1>1, <1>2, <1>21, <1>22, CallTells

\* While the request is built nothing is said; a get is not sent without its set.
LEMMA BuildText == TextInv /\ (Build \/ UNCHANGED invokeVars) => TextOK'
<1>1. SUFFICES ASSUME TextInv, Build \/ UNCHANGED invokeVars PROVE TextOK'
  OBVIOUS
<1>2. UNCHANGED <<op, replies, frames, out, count, outcome>>
  BY <1>1 DEF Build, invokeVars, rendering
<1>3. UNCHANGED <<request, dump, hasSet>>
  BY <1>1 DEF Build, invokeVars, building, call, Next, GetRefused, BeginHeader, PutName, PutIndex,
              BadIndex, NoRoomInHeader, EndHeader, NoSet, UnknownKey, PutArg, NoRoomForArg,
              SendGeneric, Unsent
<1>4. request = "get" /\ result' = "sent" => hasSet
  <2>1. result' = result \/ result' # "sent" \/ EndHeader \/ SendGeneric
    BY <1>1 DEF Build, invokeVars, building, Next, GetRefused, BeginHeader, PutName, PutIndex,
                BadIndex, NoRoomInHeader, NoSet, UnknownKey, PutArg, NoRoomForArg, Unsent, End
  <2>2. EndHeader => hasSet
    BY <1>1 DEF EndHeader, TextInv, InvokeInv, ReadInv, PackInv, PackingOK, HasIds
  <2>3. SendGeneric => request = "generic"
    BY DEF SendGeneric, Packing
  <2>4. result = "sent" /\ request = "get" => hasSet
    BY <1>1 DEF TextInv, TextOK
  <2>5. QED
    BY <2>1, <2>2, <2>3, <2>4
<1>5. IsRtnl' = IsRtnl
  BY <1>2 DEF IsRtnl, Op
<1>6. SentSoFar' = SentSoFar /\ SentText' = SentText /\ Todo' = Todo
  BY <1>2, <1>3, <1>5 DEF SentSoFar, SentText, SentReply, Todo, Op
<1>7. \A i \in DOMAIN frames' : FrameTold(frames[i])'
  BY <1>1, <1>2, <1>5 DEF FrameTold, TextInv, TextOK
<1>8. QED
  BY <1>1, <1>2, <1>3, <1>4, <1>5, <1>6, <1>7 DEF TextInv, TextOK

\* At first there is nothing to say.
LEMMA InitText == InvokeInit /\ InvokeInv => TextInv
<1>1. SUFFICES ASSUME InvokeInit, InvokeInv PROVE TextInv
  OBVIOUS
<1>2. /\ replies = << >> /\ frames = << >> /\ out = << >> /\ outcome = "open"
      /\ request = RequestOf(op) /\ hasSet = (~IsRtnl /\ ArgSet(op) # << >>) /\ result = "building"
  BY <1>1 DEF InvokeInit, Init
<1>3. FlattenSeq(<< >>) = << >>
  BY DEF FlattenSeq
<1>4. SentSoFar = << >>
  <2>1. PICK f : f = [i \in DOMAIN replies |-> SentReply(i)]
    OBVIOUS
  <2>2. f = << >>
    BY <1>2, <2>1
  <2>3. QED
    BY <1>3, <2>1, <2>2 DEF SentSoFar
<1>5. Todo = << >>
  BY <1>2, TodoIs, NoTodo
<1>6. IsSequence(<< >>)
  BY NoTodo
<1>7. Len(<< >>) = 0 /\ DOMAIN << >> = {}
  OBVIOUS
<1>8. Telling(<< >>, << >>, << >>)
  BY <1>7 DEF Telling
<1>9. TextOK
  BY <1>2, <1>4, <1>5, <1>6, <1>8 DEF TextOK
<1>10. QED
  BY <1>1, <1>9 DEF TextInv

\* In every call of every operation, as far as it has come: what it has said
\* tells the beginning of what was sent, and the calls of render_attrs_recursive
\* in progress still hold the rest, in order.
THEOREM TextInductive == InvokeSpec => []TextInv
<1>1. InvokeInit /\ InvokeInv => TextInv
  BY InitText
<1>2. TextInv /\ InvokeInv' /\ [InvokeNext]_invokeVars => TextInv'
  <2>1. TextInv /\ [InvokeNext]_invokeVars => TextOK'
    BY BuildText, ReplySays, DoneText, FailText, BitText, NestText, LostText, ScalarText, RtnlText,
       LeaveText, LeaveReplyText DEF InvokeNext, Render
  <2>2. QED
    BY <2>1 DEF TextInv
<1>3. QED
  BY <1>1, <1>2, InvokeInductive, PTL DEF InvokeSpec

\* A call that succeeded leaves the kernel's answer.
THEOREM TextTold == InvokeSpec => []TextIsReply
<1>1. TextInv => TextIsReply
  <2>1. SUFFICES ASSUME TextInv PROVE TextIsReply
    OBVIOUS
  <2>2. ASSUME outcome = "text"
        PROVE  /\ Len(out) = Len(SentText)
               /\ \A i \in DOMAIN out : Matches(out[i], SentText[i])
               /\ ~dump => Len(replies) = 1
    <3>1. Telling(SentText, out, << >>) /\ IsSequence(out)
      BY <2>1, <2>2 DEF TextInv, TextOK
    <3>2. Len(out) \in Nat /\ Len(<< >>) = 0
      BY <3>1, SequenceHas
    <3>3. Len(out) = Len(SentText) /\ \A i \in DOMAIN out : Matches(out[i], SentText[i])
      BY <3>1, <3>2 DEF Telling
    <3>4. ~dump => Len(replies) = 1
      BY <2>1, <2>2 DEF TextInv, InvokeInv, CountingOK, InvokeTypeOK
    <3>5. QED
      BY <3>3, <3>4
  <2>3. outcome \in {"errno", "error"} => out = << >> /\ count = Len(replies)
    BY <2>1 DEF TextInv, InvokeInv, CountingOK, InvokeTypeOK
  <2>4. QED
    BY <2>2, <2>3 DEF TextIsReply
<1>2. QED
  BY <1>1, TextInductive, PTL
=============================================================================
