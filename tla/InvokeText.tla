----------------------------- MODULE InvokeText -----------------------------
(***************************************************************************)
(* What the text of an invoke has to say, read off the kernel's replies    *)
(* with the sets they were sent with, which ykern has to find by itself.   *)
(***************************************************************************)
EXTENDS Invoke

CONSTANT Sent  \* Sent[o]: <<set, a>> for every attribute a of a reply, at any
               \* depth, and the name of the set its name is read from

IsSequence(s) == s \in Seq(ToSet(s))

\* The attribute was sent with a set of its own.
IsNest(a) == a.schema # NoName

Declared(o, name) == FindSet(Operations[o].overlay, name) # << >>

FoundIn(o, set, a) == LookupId(FindSet(Operations[o].overlay, set), a.id)

\* A set that happens to be called like the attribute is taken for its schema.
Namesake(o, found) == found # << >> /\ Declared(o, found[1].name)

\* The set the attributes in a nested one are read with.
SetWithin(o, set, a) ==
  IF Namesake(o, FoundIn(o, set, a)) THEN FoundIn(o, set, a)[1].name ELSE a.schema

\* The attributes in this one have lines of their own.
IsWalked(o, set, a) ==
  IsNest(a) /\ Declared(o, SetWithin(o, set, a)) /\ SetWithin(o, set, a) # BitsetBit

Within(o, set, a) ==
  IF IsWalked(o, set, a) THEN {<<SetWithin(o, set, a), a.inner[i]>> : i \in DOMAIN a.inner} ELSE {}

BitId(o, key) == LookupName(FindSet(Operations[o].overlay, BitsetBit), <<key>>)[1].id
BitAttrs(o, inner, key) == {i \in DOMAIN inner : inner[i].id = BitId(o, key)}

-----------------------------------------------------------------------------
(* What TextIsReply takes for granted: that the metadata, the table of     *)
(* aliases and the table of rtnl tell of a reply what the kernel sends.    *)

\* A nested attribute comes with the set its alias stands for, where no set is
\* called like it, and bears the flag where ykern knows none; a scalar has neither.
NestTold(o, set, a) ==
  LET found == FoundIn(o, set, a)
      alias == IF found = << >> THEN NoName ELSE Alias(set, found[1].name)
  IN  IF IsNest(a)
      THEN /\ \/ Namesake(o, found) \/ alias = a.schema
              \/ ~Declared(o, alias) /\ ~Declared(o, a.schema)
           /\ ~Declared(o, SetWithin(o, set, a)) => a.flag
      ELSE ~Namesake(o, found) /\ ~Declared(o, alias) /\ ~a.flag

\* A bit has at most one index, of four bytes, and one name with a NUL at most at
\* its end.
BitTold(o, inner) ==
  /\ \A key \in {"INDEX", "NAME"} : \A i, j \in BitAttrs(o, inner, key) : i = j
  /\ \A i \in BitAttrs(o, inner, "INDEX") \cup BitAttrs(o, inner, "NAME") : IsSequence(inner[i].bytes)
  /\ \A i \in BitAttrs(o, inner, "INDEX") : Len(inner[i].bytes) = 4
  /\ \A i \in BitAttrs(o, inner, "NAME") :
       \A k \in 1 .. Len(inner[i].bytes) - 1 : inner[i].bytes[k] # 0

\* A number of rtnl has the width of its kind, a flag no payload.
RtnlTold(o, a) ==
  LET found == LookupId(<<[attrs |-> Operations[o].table]>>, a.id)
  IN  found # << >> =>
        /\ found[1].kind \in DOMAIN KindWidth \cup {"string", "flag", "nest", "binary"}
        /\ found[1].kind \in DOMAIN KindWidth => Len(a.bytes) = KindWidth[found[1].kind]
        /\ found[1].kind = "flag" => a.bytes = << >>

IsReply(o, r) ==
  /\ IsSequence(r.attrs)
  /\ IF Operations[o].style = "rtnl"
     THEN \A i \in DOMAIN r.attrs : IsSequence(r.attrs[i].bytes) /\ RtnlTold(o, r.attrs[i])
     ELSE ReplySet(o) # << >> =>
            \A i \in DOMAIN r.attrs : <<Operations[o].schema, r.attrs[i]>> \in Sent[o]

ASSUME ReplyAssumption ==
  \A o \in DOMAIN Operations :
    /\ IsSequence(Operations[o].overlay.sets)
    /\ Operations[o].style # "rtnl" /\ ReplySet(o) # << >> =>
         ReplySet(o) = FindSet(Operations[o].overlay, Operations[o].schema)
    /\ \A r \in Operations[o].replies : IsReply(o, r)
    /\ \A p \in Sent[o] :
         /\ IsSequence(p[2].inner) /\ IsSequence(p[2].bytes)
         /\ Declared(o, p[1]) /\ NestTold(o, p[1], p[2])
         /\ Within(o, p[1], p[2]) \subseteq Sent[o]
         /\ IsNest(p[2]) /\ SetWithin(o, p[1], p[2]) = BitsetBit => BitTold(o, p[2].inner)
    /\ Declared(o, BitsetBit) =>
         \A key \in {"INDEX", "NAME", "VALUE"} :
           LookupName(FindSet(Operations[o].overlay, BitsetBit), <<key>>) # << >>

\* Nesting ends: among any nested attributes one has none of them in it.
ASSUME NestingAssumption ==
  \A o \in DOMAIN Operations :
    \A nests \in SUBSET {p \in Sent[o] : Within(o, p[1], p[2]) # {}} :
      nests # {} => \E p \in nests : Within(o, p[1], p[2]) \cap nests = {}

-----------------------------------------------------------------------------
\* A text ends at its first NUL.
TextOf(bytes) ==
  LET nuls == {i \in DOMAIN bytes : bytes[i] = 0}
  IN  IF nuls = {} THEN bytes ELSE SubSeq(bytes, 1, Min(nuls) - 1)

SentBit(o, inner) ==
  LET Only(key, default) == LET those == BitAttrs(o, inner, key)
                            IN  IF those = {} THEN default ELSE inner[CHOOSE i \in those : TRUE].bytes
  IN  [index |-> Only("INDEX", Zero), name |-> TextOf(Only("NAME", << >>)),
       on |-> BitAttrs(o, inner, "VALUE") # {}]

\* The lines of an attribute at each depth, the payload in place of a value.
SentLines(o) ==
  LET Lines[p \in Sent[o]] ==
        LET set == p[1]
            a == p[2]
            found == FoundIn(o, set, a)
            inner == SetWithin(o, set, a)
        IN  [depth \in Nat |->
               IF ~IsNest(a) THEN <<Line("value", depth, Label(found, a.id), a.bytes)>>
               ELSE IF ~Declared(o, inner) THEN <<OpenLine(depth, found), LostLine(depth + 1)>>
               ELSE IF inner = BitsetBit THEN <<BitLine(depth, SentBit(o, a.inner))>>
               ELSE <<OpenLine(depth, found)>>
                    \o FlattenSeq([i \in DOMAIN a.inner |-> Lines[<<inner, a.inner[i]>>][depth + 1]])]
  IN  Lines

SentAttrs(o, set, attrs, depth) ==
  FlattenSeq([i \in DOMAIN attrs |-> SentLines(o)[<<set, attrs[i]>>][depth]])

SentRtnl(o, attrs) ==
  [i \in DOMAIN attrs |->
     Line("value", 1, Label(LookupId(<<[attrs |-> Operations[o].table]>>, attrs[i].id), attrs[i].id),
          attrs[i].bytes)]

SentReply(i) ==
  (IF dump THEN <<EntryLine(i)>> ELSE << >>)
  \o (IF IsRtnl THEN <<HeadLine(replies[i].head)>> \o SentRtnl(op, replies[i].attrs)
      ELSE IF hasSet THEN SentAttrs(op, Op.schema, replies[i].attrs, 1)
      ELSE <<BareLine>>)

SentText == FlattenSeq([i \in DOMAIN replies |-> SentReply(i)])
            \o (IF dump THEN <<CountLine(Len(replies))>> ELSE << >>)

\* The payload can be read off what is shown, of a long one the beginning; of
\* a nested attribute of rtnl only the length is.
Tells(shown, bytes) ==
  CASE shown.as = "string" -> bytes \in {shown.bytes, shown.bytes \o <<0>>}
    [] shown.as = "blob" ->
         /\ shown.len = Len(bytes) /\ IsPrefix(shown.bytes, bytes)
         /\ Len(shown.bytes) = Len(bytes) \/ Len(shown.bytes) >= RtnlShown
    [] shown.as = "nest" -> shown.len = Len(bytes)
    [] OTHER -> shown.bytes = bytes

Matches(line, sent) ==
  /\ line.as = sent.as /\ line.depth = sent.depth /\ line.label = sent.label
  /\ IF line.as = "value" THEN Tells(line.shown, sent.shown) ELSE line.shown = sent.shown

\* The text of a call that succeeded is the kernel's answer: each reply under
\* its number, each attribute of it in order at its depth, called by its name
\* in the set the kernel took it from, with a value from which the payload can
\* be read, and the number of replies at the end of a dump.  It says of no
\* attribute that its schema is not declared when it is.  (An attribute called
\* like a set is read with that set, whatever the kernel used: Namesake.)  An
\* errno is given with the number of replies that came before it, and a failed
\* call leaves no text.
TextIsReply ==
  /\ outcome = "text" =>
       LET sent == SentText
       IN  /\ Len(out) = Len(sent)
           /\ \A i \in DOMAIN out : Matches(out[i], sent[i])
           /\ ~dump => Len(replies) = 1
  /\ outcome \in {"errno", "error"} => out = << >> /\ count = Len(replies)

-----------------------------------------------------------------------------
(* The inductive invariant behind TextIsReply.                             *)

\* What has been said tells the beginning of what was sent, and todo is the rest.
Telling(sent, said, todo) ==
  /\ Len(sent) = Len(said) + Len(todo)
  /\ \A i \in DOMAIN said : Matches(said[i], sent[i])
  /\ \A i \in DOMAIN todo : sent[Len(said) + i] = todo[i]

SentSoFar == FlattenSeq([i \in DOMAIN replies |-> SentReply(i)])

\* What the calls of render_attrs_recursive in progress have not come to.
Todo ==
  FlattenSeq([i \in DOMAIN frames |->
    IF IsRtnl THEN SentRtnl(op, frames[i].left)
    ELSE SentAttrs(op, frames[i].set, frames[i].left, frames[i].depth)])

\* The attributes of a frame are some the kernel sends, in the set it is about.
FrameTold(f) ==
  /\ IsSequence(f.left)
  /\ \A i \in DOMAIN f.left :
       IF IsRtnl THEN IsSequence(f.left[i].bytes) /\ RtnlTold(op, f.left[i])
       ELSE <<f.set, f.left[i]>> \in Sent[op]

\* A get is not sent without its set, and nothing is said before the first reply.
TextOK ==
  /\ hasSet = (~IsRtnl /\ ArgSet(op) # << >>)
  /\ request = RequestOf(op) /\ (request = "get" /\ result = "sent" => hasSet)
  /\ IsSequence(out)
  /\ \A i \in DOMAIN frames : FrameTold(frames[i])
  /\ outcome = "open" => Telling(SentSoFar, out, Todo)
  /\ outcome = "text" => Telling(SentText, out, << >>)

TextInv == InvokeInv /\ TextOK
=============================================================================
