------------------------------ MODULE Invoke ------------------------------
(***************************************************************************)
(* One invoke of an operation, from the arguments to the text: the request *)
(* of AttrRequest, with the attribute set found as AttrSets says, the      *)
(* kernel's answer, and the text made of it attribute by attribute as      *)
(* ReplyText says (genl-operation.c: op_invoke, invoke_ethtool_get,        *)
(* invoke_generic_genl, render_attrs_recursive; rtnl.c: rtnl_op_invoke).   *)
(*                                                                         *)
(* The answer comes on a socket nothing else is queued on (what happens    *)
(* otherwise is NetlinkSession's subject).  A reply is [head, attrs]: the  *)
(* fixed header rtnl has, and a sequence of attributes; a text is a        *)
(* sequence of lines.                                                      *)
(***************************************************************************)
EXTENDS AttrRequest, ReplyText

CONSTANTS Operations,  \* Operations[o]: [style, name, overlay, table, schema, replies]
          MaxReplies   \* bound on the replies of a dump

(* style is "ethtool", "genl" or "rtnl"; overlay the metadata of the       *)
(* family, table the attributes of rtnl; schema names the set the kernel   *)
(* takes the attributes of its replies from.                               *)

Style == {"ethtool", "genl", "rtnl"}

\* op_invoke
RequestOf(o) ==
  IF Operations[o].style = "ethtool" /\ EndsInGet(Operations[o].name) THEN "get" ELSE "generic"

\* The set the attributes of the reply are looked up in; rtnl has its table.
ReplySet(o) ==
  LET overlay == Operations[o].overlay
  IN  IF RequestOf(o) = "get" THEN FindSet(overlay, StripSuffix(Operations[o].name))
      ELSE InvokeSet(overlay, Operations[o].name)

\* The set the arguments are looked up in.  A get needs both sets, and an
\* attribute for the header in the reply's.
ArgSet(o) ==
  IF RequestOf(o) = "generic" THEN ReplySet(o)
  ELSE IF LookupName(ReplySet(o), Header) = << >> THEN << >>
  ELSE FindSet(Operations[o].overlay, Header)

ArgNames == [ifname |-> <<"DEV", "NAME">>, ifindex |-> <<"DEV", "INDEX">>]

IdFound(found, name) ==
  LET attrs == LookupName(found, name) IN IF attrs = << >> THEN NoId ELSE attrs[1].id

\* The ids of AttrRequest are those of the metadata.
ASSUME IdAssumption ==
  \A o \in DOMAIN Operations : ArgSet(o) # << >> =>
    IF RequestOf(o) = "get"
    THEN /\ IdFound(ReplySet(o), Header) = HeaderId
         /\ \A key \in DOMAIN ArgNames : IdFound(ArgSet(o), ArgNames[key]) = Id["get"][key]
    ELSE \A key \in Key : IdFound(ArgSet(o), <<key>>) = Id["generic"][key]

ASSUME OperationAssumption ==
  /\ MaxReplies \in Nat
  /\ \A o \in DOMAIN Operations : Operations[o].style \in Style

VARIABLES op,       \* the operation
          replies,  \* history: the replies taken from the socket
          frames,   \* calls of render_attrs_recursive, the innermost first:
                    \* attributes left, the name of their set, depth
          out,      \* the text buffer
          count,    \* reply_count
          outcome   \* "open", "text", "errno" or "error"

building == <<request, args, hasSet, dump, off, at, nested, next, result>>
rendering == <<replies, frames, out, count, outcome>>
invokeVars == <<building, op, rendering>>

Op == Operations[op]
IsRtnl == Op.style = "rtnl"

\* rtnl takes no arguments and has no attributes to send: its request is a
\* header and a family.
InvokeInit ==
  /\ op \in DOMAIN Operations
  /\ Init
  /\ request = RequestOf(op)
  /\ IsRtnl => args = << >>
  /\ hasSet = (~IsRtnl /\ ArgSet(op) # << >>)
  /\ replies = << >> /\ frames = << >> /\ out = << >> /\ count = 0
  /\ outcome = "open"

Build == Next /\ UNCHANGED <<op, rendering>>

-----------------------------------------------------------------------------
(* Lines.                                                                  *)

Line(as, depth, label, shown) == [as |-> as, depth |-> depth, label |-> label, shown |-> shown]

NoLabel == [id |-> 0, name |-> NoName]
Nothing == Shown("nothing", << >>, 0)

EntryLine(n) == Line("entry", 0, [NoLabel EXCEPT !.id = n], Nothing)
CountLine(n) == Line("count", 0, [NoLabel EXCEPT !.id = n], Nothing)
HeadLine(head) == Line("head", 1, NoLabel, Shown("head", head, Len(head)))
BareLine == Line("bare", 1, NoLabel, Nothing)

\* An attribute is called by its name, an unknown one by its id.
Label(found, id) == IF found = << >> THEN [NoLabel EXCEPT !.id = id]
                    ELSE [NoLabel EXCEPT !.name = found[1].name]

\* "NAME:", or "?:"
OpenLine(depth, found) ==
  Line("open", depth, IF found = << >> THEN NoLabel ELSE Label(found, 0), Nothing)

\* "(nested, N bytes - schema not declared ..."
LostLine(depth) == Line("lost", depth, NoLabel, Nothing)

BitLine(depth, bit) ==
  Line("bit", depth, [NoLabel EXCEPT !.name = bit.name],
       Shown(IF bit.on THEN "on" ELSE "off", bit.index, 0))

Say(lines) == out' = out \o lines

-----------------------------------------------------------------------------
(* The receive loop.                                                       *)

Receiving == result = "sent" /\ outcome = "open" /\ frames = << >>

\* Without a set there is only a length to tell.
Reply ==
  /\ Receiving /\ Len(replies) < MaxReplies
  /\ \E r \in Op.replies :
       LET set == IF IsRtnl THEN << >> ELSE ReplySet(op)
           bare == ~IsRtnl /\ set = << >>
       IN  /\ replies' = Append(replies, r)
           /\ frames' = <<[left |-> IF bare THEN << >> ELSE r.attrs,
                           set |-> IF set = << >> THEN NoName ELSE set[1].name, depth |-> 1]>>
           /\ Say((IF dump THEN <<EntryLine(count + 1)>> ELSE << >>)
                  \o (IF IsRtnl THEN <<HeadLine(r.head)>> ELSE << >>)
                  \o (IF bare THEN <<BareLine>> ELSE << >>))
  /\ UNCHANGED <<building, op, count, outcome>>

Done ==
  /\ Receiving /\ dump
  /\ Say(<<CountLine(count)>>)
  /\ outcome' = "text"
  /\ UNCHANGED <<building, op, replies, frames, count>>

\* The kernel refuses, at once or in the middle of a dump: the text so far is
\* given up for the errno and the number of replies.
KernelError ==
  /\ Receiving
  /\ out' = << >>
  /\ outcome' = "errno"
  /\ UNCHANGED <<building, op, replies, frames, count>>

\* socket, sendto or recv fails.
SocketFails ==
  /\ Receiving
  /\ out' = << >>
  /\ outcome' = "error"
  /\ UNCHANGED <<building, op, replies, frames, count>>

-----------------------------------------------------------------------------
(* The attribute walk.                                                     *)

Frame == Head(frames)
Walking == frames # << >> /\ Frame.left # << >>
Item == Head(Frame.left)
FrameSet == FindSet(Op.overlay, Frame.set)
Found == LookupId(IF IsRtnl THEN <<[attrs |-> Op.table]>> ELSE FrameSet, Item.id)
Child == IF IsRtnl THEN << >> ELSE ChildSet(Op.overlay, FrameSet[1], Found)

Advanced == [Head(frames) EXCEPT !.left = Tail(@)]
Step == frames' = <<Advanced>> \o Tail(frames)
SameCall == UNCHANGED <<building, op, replies, count, outcome>>

Folded == Child # << >> /\ IsCompact(Child[1])

RenderBit ==
  /\ Walking /\ Folded
  /\ Say(<<BitLine(Frame.depth, Bit(Item.inner, Child[1]))>>)
  /\ Step /\ SameCall

\* Mutant: the inner attributes are looked up in the outer set.
RenderNestInSameSet ==
  /\ Walking /\ Child # << >> /\ ~Folded
  /\ Say(<<OpenLine(Frame.depth, Found)>>)
  /\ frames' = <<[left |-> Item.inner, set |-> Frame.set, depth |-> Frame.depth + 1],
                 Advanced>> \o Tail(frames)
  /\ SameCall

RenderNest ==
  /\ Walking /\ Child # << >> /\ ~Folded
  /\ Say(<<OpenLine(Frame.depth, Found)>>)
  /\ frames' = <<[left |-> Item.inner, set |-> Child[1].name, depth |-> Frame.depth + 1],
                 Advanced>> \o Tail(frames)
  /\ SameCall

RenderLost ==
  /\ Walking /\ ~IsRtnl /\ Child = << >> /\ Item.flag
  /\ Say(<<OpenLine(Frame.depth, Found), LostLine(Frame.depth + 1)>>)
  /\ Step /\ SameCall

RenderScalar ==
  /\ Walking /\ ~IsRtnl /\ Child = << >> /\ ~Item.flag
  /\ Say(<<Line("value", Frame.depth, Label(Found, Item.id), Scalar(Item.bytes))>>)
  /\ Step /\ SameCall

\* Nothing in an rtnl reply is walked into.
RenderRtnl ==
  /\ Walking /\ IsRtnl
  /\ Say(<<Line("value", 1, Label(Found, Item.id), RtnlValue(Found, Item.bytes))>>)
  /\ Step /\ SameCall

\* A nested attribute is over.
Leave ==
  /\ Len(frames) > 1 /\ Frame.left = << >>
  /\ frames' = Tail(frames)
  /\ UNCHANGED <<building, op, replies, out, count, outcome>>

\* A reply is over; one without NLM_F_DUMP is the only one.
LeaveReply ==
  /\ Len(frames) = 1 /\ Frame.left = << >>
  /\ frames' = << >>
  /\ count' = count + 1
  /\ outcome' = IF dump THEN "open" ELSE "text"
  /\ UNCHANGED <<building, op, replies, out>>

-----------------------------------------------------------------------------
Render == RenderBit \/ RenderNest \/ RenderLost \/ RenderScalar \/ RenderRtnl
          \/ Leave \/ LeaveReply

InvokeNext == Build \/ Reply \/ Done \/ KernelError \/ SocketFails \/ Render

InvokeSpec == InvokeInit /\ [][InvokeNext]_invokeVars

-----------------------------------------------------------------------------
(* Properties.                                                             *)

\* Every variable keeps its type; nothing is received before the request is
\* sent, and a finished call is not inside a reply.
InvokeTypeOK ==
  /\ TypeOK
  /\ op \in DOMAIN Operations
  /\ \A i \in DOMAIN replies : replies[i] \in Op.replies
  /\ \A i \in DOMAIN frames : frames[i].depth = 1 + Len(frames) - i
  /\ count \in 0 .. MaxReplies
  /\ outcome \in {"open", "text", "errno", "error"}
  /\ frames # << >> => result = "sent" /\ outcome = "open"

-----------------------------------------------------------------------------
(* The inductive invariant behind InvokeTypeOK.                            *)

IsStack(s) == s \in Seq(ToSet(s)) /\ \A i \in DOMAIN s : DOMAIN s[i] = {"left", "set", "depth"}

\* A call that is not a dump takes one reply and ends with it; the replies
\* counted are those that are through; a call that failed says nothing.
CountingOK ==
  /\ replies \in Seq(Op.replies) /\ IsStack(frames)
  /\ Len(replies) <= MaxReplies
  /\ Len(replies) = IF frames = << >> THEN count ELSE count + 1
  /\ ~dump /\ outcome = "open" => count = 0
  /\ ~dump /\ outcome = "text" => count = 1
  /\ outcome \in {"errno", "error"} => out = << >>
  /\ outcome # "open" => result = "sent"

InvokeInv == ReadInv /\ InvokeTypeOK /\ CountingOK
=============================================================================
