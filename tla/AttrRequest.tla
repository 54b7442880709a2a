---------------------------- MODULE AttrRequest ----------------------------
(***************************************************************************)
(* The request a generic netlink invoke builds (genl-operation.c): the     *)
(* attributes are packed one by one into a fixed buffer behind the two     *)
(* headers, each padded to four bytes, and the kernel walks them again     *)
(* from the lengths alone.                                                 *)
(*                                                                         *)
(* invoke_ethtool_get packs a nested HEADER with at most one attribute in  *)
(* it, invoke_generic_genl one attribute per --arg.  What a buffer holds   *)
(* is abstracted to the attribute headers in it, by offset, and the value  *)
(* packed behind each.                                                     *)
(***************************************************************************)
EXTENDS Integers, Sequences, FiniteSets

CONSTANTS Key,       \* keys a user may give
          Id,        \* Id[r][k]: the attribute of that name in the set request r
                     \* looks it up in, or NoId
          NoId,
          ArgLists,  \* sequences of [key, value]
          GetCap,    \* sizeof(req) in invoke_ethtool_get
          GenericCap,\* and in invoke_generic_genl
          MaxU32     \* the largest number that is packed as such

\* A value as the code sees it: the length of its text, whether every character
\* is a digit, and the number they make.  Numbers with a blank or a sign before
\* them, which strtoul reads too, are left out of the inputs.
Value == [len : Nat, digits : BOOLEAN, number : Nat]

NlaHdrLen == 4
Align(n) == ((n + 3) \div 4) * 4

\* NLMSG_LENGTH(sizeof(struct genlmsghdr))
FirstOff == 20

ASSUME RequestAssumption ==
  /\ {"ifname", "ifindex"} \subseteq Key
  /\ Id \in [{"get", "generic"} -> [Key -> (Nat \ {0}) \cup {NoId}]] /\ NoId \notin Nat
  /\ \A a \in ArgLists : a \in Seq([key : Key, value : Value])
  /\ GetCap \in Nat /\ GetCap >= FirstOff + NlaHdrLen
  /\ GenericCap \in Nat /\ GenericCap >= FirstOff
  /\ MaxU32 \in Nat

VARIABLES request,  \* "get" for invoke_ethtool_get, "generic" for the other
          args,     \* the user's
          hasSet,   \* the overlay has a set of attributes for the request
          dump,     \* dump_mode: NLM_F_DUMP is set
          off,      \* b.off
          at,       \* at[o]: the attribute whose header was written at offset o
          nested,   \* offset of the open nested attribute, or NoId
          next,     \* the argument to pack next
          result    \* "building", "sent", "text" or "error"

call == <<request, args, hasSet, dump>>
vars == <<call, off, at, nested, next, result>>

Cap == IF request = "get" THEN GetCap ELSE GenericCap

IdOf(key) == Id[request][key]

Payload == {"nest", "u32", "string"}
Attr == [type : Nat, len : Nat, payload : Payload, value : Value \cup {NoId}]

\* ykern_ycore_invoke_args_lookup: the first entry of that key.
Given(key) == \E i \in DOMAIN args : args[i].key = key
Lookup(key) ==
  args[CHOOSE i \in DOMAIN args :
         args[i].key = key /\ \A j \in 1 .. i - 1 : args[j].key # key].value

Init ==
  /\ request \in {"get", "generic"} /\ args \in ArgLists /\ hasSet \in BOOLEAN
  /\ dump = IF request = "get" THEN ~Given("ifname") /\ ~Given("ifindex") ELSE args = << >>
  /\ off = FirstOff /\ at = << >> /\ nested = NoId /\ next = 1
  /\ result = "building"

-----------------------------------------------------------------------------
(* struct attr_buf.                                                        *)

\* Mutant: the header is forgotten.
FitsUnheaded(need) == off + need <= Cap + NlaHdrLen

Fits(need) == off + need <= Cap

\* ab_string, ab_u32: header and payload at off, then the next aligned offset.
Put(type, payload, size, value) ==
  /\ Fits(Align(NlaHdrLen + size))
  /\ at' = [o \in DOMAIN at \cup {off} |->
             IF o = off THEN [type |-> type, len |-> NlaHdrLen + size, payload |-> payload,
                              value |-> value]
             ELSE at[o]]
  /\ off' = off + Align(NlaHdrLen + size)

PutString(type, v) == Put(type, "string", v.len + 1, v)
PutU32(type, v) == Put(type, "u32", 4, v)

Overflow(size) == ~Fits(Align(NlaHdrLen + size))

End(r) == result' = r
Unsent == UNCHANGED <<call, off, at, nested, next>>

-----------------------------------------------------------------------------
(* invoke_ethtool_get.                                                     *)

HeaderId == 1

Getting == request = "get" /\ result = "building"

HasIds == hasSet /\ NoId \notin {IdOf("ifname"), IdOf("ifindex")}

\* No overlay, no response or HEADER set, or an id missing from them.
GetRefused ==
  /\ Getting /\ nested = NoId
  /\ ~HasIds
  /\ End("text") \/ End("error")
  /\ Unsent

\* Mutant: the offset behind the header is remembered.
BeginHeaderLate ==
  /\ Getting /\ nested = NoId
  /\ HasIds
  /\ at' = [o \in {off} |-> [type |-> HeaderId, len |-> 0, payload |-> "nest", value |-> NoId]]
  /\ nested' = off + NlaHdrLen
  /\ off' = off + NlaHdrLen
  /\ UNCHANGED <<call, next, result>>

\* ab_begin_nested; there always is room for the first header.
BeginHeader ==
  /\ Getting /\ nested = NoId
  /\ HasIds
  /\ at' = [o \in {off} |-> [type |-> HeaderId, len |-> 0, payload |-> "nest", value |-> NoId]]
  /\ nested' = off
  /\ off' = off + NlaHdrLen
  /\ UNCHANGED <<call, next, result>>

InHeader == Getting /\ nested # NoId /\ next = 1

ByName == Given("ifname")

\* ifname goes before ifindex, and one of them is enough.
PutName ==
  /\ InHeader /\ ByName
  /\ PutString(IdOf("ifname"), Lookup("ifname"))
  /\ next' = 2
  /\ UNCHANGED <<call, nested, result>>

IsU32(v) == v.digits /\ v.number <= MaxU32

\* strtoul finds the number 0 in an empty text.
ByIndex == ~ByName /\ Given("ifindex")
IsIndex(v) == v.len = 0 \/ IsU32(v)

PutIndex ==
  /\ InHeader /\ ByIndex /\ IsIndex(Lookup("ifindex"))
  /\ PutU32(IdOf("ifindex"), Lookup("ifindex"))
  /\ next' = 2
  /\ UNCHANGED <<call, nested, result>>

BadIndex ==
  /\ InHeader /\ ByIndex /\ ~IsIndex(Lookup("ifindex"))
  /\ End("text") /\ Unsent

NoRoomInHeader ==
  /\ InHeader
  /\ \/ ByName /\ Overflow(Lookup("ifname").len + 1)
     \/ ByIndex /\ IsIndex(Lookup("ifindex")) /\ Overflow(4)
  /\ End("error") /\ Unsent

\* Mutant: the length of the nested attribute is not patched.
EndHeaderUnpatched ==
  /\ Getting /\ nested # NoId
  /\ next = 2 \/ dump
  /\ nested' = NoId
  /\ End("sent")
  /\ UNCHANGED <<call, off, at, next>>

\* ab_end_nested, and the message is sent.
EndHeader ==
  /\ Getting /\ nested # NoId
  /\ next = 2 \/ dump
  /\ at' = [at EXCEPT ![nested].len = off - nested]
  /\ nested' = NoId
  /\ End("sent")
  /\ UNCHANGED <<call, off, next>>

-----------------------------------------------------------------------------
(* invoke_generic_genl.                                                    *)

Packing == request = "generic" /\ result = "building"

\* Arguments, and no set to look their names up in.
NoSet ==
  /\ Packing /\ ~dump /\ ~hasSet
  /\ End("text") /\ Unsent

AtArg == Packing /\ hasSet /\ next <= Len(args)
Arg == args[next]

UnknownKey ==
  /\ AtArg /\ IdOf(Arg.key) = NoId
  /\ End("text") /\ Unsent

\* A number that fits goes as u32, anything else as a string.
PutArg ==
  /\ AtArg /\ IdOf(Arg.key) # NoId
  /\ IF IsU32(Arg.value) THEN PutU32(IdOf(Arg.key), Arg.value)
     ELSE PutString(IdOf(Arg.key), Arg.value)
  /\ next' = next + 1
  /\ UNCHANGED <<call, nested, result>>

NoRoomForArg ==
  /\ AtArg /\ IdOf(Arg.key) # NoId
  /\ Overflow(IF IsU32(Arg.value) THEN 4 ELSE Arg.value.len + 1)
  /\ End("error") /\ Unsent

SendGeneric ==
  /\ Packing
  /\ dump \/ (hasSet /\ next > Len(args))
  /\ End("sent") /\ Unsent

-----------------------------------------------------------------------------
Next == \/ GetRefused \/ BeginHeader \/ PutName \/ PutIndex \/ BadIndex \/ NoRoomInHeader
        \/ EndHeader
        \/ NoSet \/ UnknownKey \/ PutArg \/ NoRoomForArg \/ SendGeneric

Spec == Init /\ [][Next]_vars

-----------------------------------------------------------------------------
(* The receiver.                                                           *)

\* The attributes found between two offsets by NLA_OK and NLA_NEXT.
Walk(from, to) ==
  LET Ok(o) == /\ o \in DOMAIN at /\ o + NlaHdrLen <= to
               /\ at[o].len >= NlaHdrLen /\ o + at[o].len <= to
      Rest[o \in from .. to + 3] ==
        IF Ok(o) THEN <<at[o]>> \o Rest[o + Align(at[o].len)] ELSE << >>
  IN  Rest[from]

\* What an attribute says, whatever its length.
Says(a) == [type |-> a.type, payload |-> a.payload, value |-> a.value]

Asked(key, numeric, value) ==
  [type |-> IdOf(key), payload |-> IF numeric THEN "u32" ELSE "string", value |-> value]

\* The interface a *_GET names; none for all of them.
Selected ==
  IF ByName THEN <<Asked("ifname", FALSE, Lookup("ifname"))>>
  ELSE IF ByIndex THEN <<Asked("ifindex", TRUE, Lookup("ifindex"))>>
  ELSE << >>

-----------------------------------------------------------------------------
(* Properties.                                                             *)

\* Every variable keeps its type.
TypeOK ==
  /\ request \in {"get", "generic"} /\ args \in ArgLists
  /\ hasSet \in BOOLEAN /\ dump \in BOOLEAN
  /\ off \in Nat /\ next \in Nat \ {0}
  /\ \A o \in DOMAIN at : o \in Nat /\ at[o] \in Attr
  /\ nested \in DOMAIN at \cup {NoId}
  /\ result \in {"building", "sent", "text", "error"}

\* Nothing is written past the end of the request, padding included, and every
\* attribute lies on its own aligned stretch before the write offset: a later
\* one never overwrites a part of an earlier one.
WithinRequest ==
  /\ off <= Cap /\ off % 4 = 0
  /\ \A o \in DOMAIN at :
       /\ o % 4 = 0 /\ o + at[o].len <= off
       /\ \A p \in DOMAIN at : (o < p /\ at[o].payload # "nest") => o + at[o].len <= p

\* The kernel finds in a sent request what the user gave and nothing else: each
\* argument in its order and under its id, the last one up to the very end of
\* the message; or one HEADER with the one interface selected.  It is a dump
\* if and only if nothing is selected.
KernelReads ==
  result = "sent" =>
    LET top == Walk(FirstOff, off)
    IN  IF request = "generic"
        THEN /\ [i \in DOMAIN top |-> Says(top[i])] =
                  [i \in DOMAIN args |-> Asked(args[i].key, IsU32(args[i].value), args[i].value)]
             /\ dump <=> top = << >>
        ELSE /\ Len(top) = 1 /\ top[1].type = HeaderId /\ FirstOff + top[1].len = off
             /\ LET inner == Walk(FirstOff + NlaHdrLen, FirstOff + top[1].len)
                IN  /\ [i \in DOMAIN inner |-> Says(inner[i])] = Selected
                    /\ dump <=> inner = << >>

-----------------------------------------------------------------------------
(* The inductive invariant behind WithinRequest.                           *)

\* A get has written nothing before its HEADER, whose ids are known as long as
\* it is open; every header written is complete.
PackingOK ==
  /\ Getting /\ nested = NoId => off = FirstOff
  /\ nested # NoId => HasIds /\ at[nested].payload = "nest"
  /\ \A o \in DOMAIN at : o + NlaHdrLen <= off

PackInv == TypeOK /\ WithinRequest /\ PackingOK

-----------------------------------------------------------------------------
(* The one behind KernelReads.                                             *)

\* From one offset on the headers written follow each other without a gap, up
\* to the write offset, and say this.
LaidOut(from, said) ==
  \E place \in [1 .. Len(said) + 1 -> DOMAIN at \cup {off}] :
    /\ place[1] = from /\ place[Len(said) + 1] = off
    /\ {o \in DOMAIN at : o >= from} = {place[i] : i \in DOMAIN said}
    /\ \A i \in DOMAIN said :
         /\ Says(at[place[i]]) = said[i] /\ at[place[i]].len >= NlaHdrLen
         /\ place[i + 1] = place[i] + Align(at[place[i]].len)

\* Where the values go, and those the steps so far have packed.
Body == IF request = "generic" THEN FirstOff ELSE FirstOff + NlaHdrLen

Saying(arg) == Asked(arg.key, IsU32(arg.value), arg.value)

SoFar == IF request = "generic" THEN [i \in 1 .. next - 1 |-> Saying(args[i])]
         ELSE IF next = 1 THEN << >> ELSE Selected

Begun == request = "generic" \/ nested # NoId \/ result = "sent"

\* It is a dump exactly if there is nothing to pack, and what is packed lies
\* behind the HEADER of a get, which a sent one has closed.
ReadingOK ==
  /\ dump <=> IF request = "get" THEN Selected = << >> ELSE args = << >>
  /\ IF request = "generic" THEN next <= Len(args) + 1
     ELSE next \in {1, 2} /\ (~Begun => next = 1)
  /\ Begun /\ result \in {"building", "sent"} => LaidOut(Body, SoFar)
  /\ request = "get" /\ Begun /\ result \in {"building", "sent"} =>
       /\ FirstOff \in DOMAIN at /\ at[FirstOff].type = HeaderId
       /\ {o \in DOMAIN at : o < Body} = {FirstOff}
  /\ nested # NoId => nested = FirstOff
  /\ result = "sent" =>
       IF request = "generic" THEN next = Len(args) + 1
       ELSE (next = 2 \/ dump) /\ FirstOff + at[FirstOff].len = off

ReadInv == PackInv /\ ReadingOK
=============================================================================
