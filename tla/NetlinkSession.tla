--------------------------- MODULE NetlinkSession ---------------------------
(***************************************************************************)
(* Requests and replies on the two netlink sockets of ynetlink: the        *)
(* generic one, opened by the transport and shared by get_children of      *)
(* /netlink/genl (genl-namespace.c) and every genl invoke                  *)
(* (genl-operation.c), and the one of /netlink/rtnl (rtnl.c).              *)
(*                                                                         *)
(* One thread runs one call at a time.  A call sends one request, then     *)
(* receives datagrams and walks the messages of each.  A call that returns *)
(* early leaves the unread datagrams of its answer on the socket, where    *)
(* the next call finds them; the rest of the datagram in its buffer is     *)
(* gone.  Messages are abstracted to their sequence number and what the    *)
(* loops tell apart.                                                       *)
(***************************************************************************)
EXTENDS Integers, Sequences, SequencesExt

CONSTANTS PopulateAnswers,  \* what the kernel may answer to CTRL_CMD_GETFAMILY,
          DumpAnswers,      \* to an operation sent with NLM_F_DUMP,
          DoAnswers,        \* to one sent without: sequences of Kind
          MaxSeq,           \* MaxSeq[s]: bound on the numbers drawn on socket s
          MayFail           \* whether socket calls and allocations can fail

\* A "data" message is a family or a reply; "other" a control message that
\* names no family; "ack" is an NLMSG_ERROR with error 0.
Kind == {"data", "other", "done", "error", "ack"}

\* No request sets NLM_F_ACK: a listing and a dump end with their one terminator,
\* and of a request that need not be answered only acks can precede the end.
ASSUME AnswerAssumption ==
  /\ PopulateAnswers \cup DumpAnswers \cup DoAnswers \subseteq Seq(Kind)
  /\ << >> \notin PopulateAnswers \cup DumpAnswers
  /\ \A a \in PopulateAnswers : \A i \in DOMAIN a :
       a[i] \in {"done", "error", "ack"} <=> i = Len(a)
  /\ \A a \in DumpAnswers : \A i \in DOMAIN a :
       a[i] \in {"done", "error"} <=> i = Len(a)
  /\ \A a \in DoAnswers : \A i \in DOMAIN a : i < Len(a) => a[i] = "ack"

Socket == {"genl", "rtnl"}

ASSUME BoundAssumption ==
  MaxSeq \in [Socket -> Nat] /\ MayFail \in BOOLEAN

VARIABLES fd,         \* fd[s]: the socket is open
          seq,        \* seq[s]: last sequence number drawn
          stream,     \* stream[s]: messages the kernel has queued
          datagram,   \* messages of the received buffer not looked at yet
          call,       \* the loop in progress
          asked,      \* the request of that loop, or of the last one; clean is
                      \* history: no earlier call had left the socket half read
          out,        \* the messages it appended or rendered
          result,     \* how the last call ended; "short" is an ok that saw no end
          populated,  \* /netlink/genl.children_populated
          families,   \* the messages its children were made from
          failed      \* history: failed[s] when a call left s half read

sockets == <<fd, seq, stream>>
tree == <<populated, families>>
vars == <<sockets, datagram, call, asked, out, result, tree, failed>>

Message == [seq : Nat, kind : Kind]

Init == /\ fd = [s \in Socket |-> FALSE]
        /\ seq = [s \in Socket |-> 0]
        /\ stream = [s \in Socket |-> << >>]
        /\ datagram = << >> /\ out = << >> /\ families = << >>
        /\ call = "idle" /\ result = "none"
        /\ asked = [call |-> "none", socket |-> "genl", seq |-> 0, answer |-> << >>,
                    clean |-> TRUE]
        /\ populated = FALSE
        /\ failed = [s \in Socket |-> FALSE]

Idle == call = "idle"

Messages(n, kinds) == [i \in DOMAIN kinds |-> [seq |-> n, kind |-> kinds[i]]]

-----------------------------------------------------------------------------
(* Sending.                                                                *)

\* ynetlink_next_seq, and ++ns->seq of rtnl.
NextSeq(s) == seq[s] + 1
Draw(s) == /\ NextSeq(s) <= MaxSeq[s]
           /\ seq' = [seq EXCEPT ![s] = NextSeq(s)]

\* socket_get, next_seq and sendto succeed, and the kernel queues its answer.
Send(c, s, answer) ==
  /\ fd' = [fd EXCEPT ![s] = TRUE]
  /\ Draw(s)
  /\ stream' = [stream EXCEPT ![s] = @ \o Messages(NextSeq(s), answer)]
  /\ call' = c
  /\ asked' = [call |-> c, socket |-> s, seq |-> NextSeq(s), answer |-> answer,
               clean |-> ~failed[s]]
  /\ out' = << >>
  /\ result' = "none"
  /\ UNCHANGED <<datagram, tree, failed>>

Populate == /\ Idle /\ ~populated
            /\ \E answer \in PopulateAnswers : Send("populate", "genl", answer)

\* An operation of a family is invoked without arguments, or one of rtnl.
InvokeDump == /\ Idle
              /\ \E s \in Socket, answer \in DumpAnswers :
                   /\ s = "genl" => populated
                   /\ Send("dump", s, answer)

\* An operation of a family is invoked with arguments.
InvokeDo == /\ Idle /\ populated
            /\ \E answer \in DoAnswers : Send("do", "genl", answer)

\* An argument is refused: invoke returns a text, its number is drawn already.
InvokeRefused == /\ Idle /\ populated
                 /\ Draw("genl")
                 /\ result' = "text"
                 /\ asked' = [asked EXCEPT !.call = "none"]
                 /\ UNCHANGED <<fd, stream, datagram, call, out, tree, failed>>

\* socket or bind fails; a genl invoke has drawn its number before.
OpenFails == /\ Idle /\ MayFail
             /\ \E s \in Socket :
                  /\ ~fd[s]
                  /\ \/ UNCHANGED seq
                     \/ s = "genl" /\ populated /\ Draw(s)
             /\ result' = "error"
             /\ asked' = [asked EXCEPT !.call = "none"]
             /\ UNCHANGED <<fd, stream, datagram, call, out, tree, failed>>

\* sendto fails: the socket stays open, the number is used up.
SendFails == /\ Idle /\ MayFail
             /\ \E s \in Socket :
                  /\ fd' = [fd EXCEPT ![s] = TRUE]
                  /\ Draw(s)
             /\ result' = "error"
             /\ asked' = [asked EXCEPT !.call = "none"]
             /\ UNCHANGED <<stream, datagram, call, out, tree, failed>>

-----------------------------------------------------------------------------
(* Receiving.                                                              *)

Return(r) == /\ call' = "idle"
             /\ datagram' = << >>
             /\ result' = r

\* recv: the kernel batches the messages of one answer as it likes.
Recv == /\ ~Idle
        /\ datagram = << >>
        /\ LET queue == stream[asked.socket]
           IN  \E n \in 1..Len(queue) :
                 /\ \A i \in 1..n : queue[i].seq = queue[1].seq
                 /\ datagram' = SubSeq(queue, 1, n)
                 /\ stream' = [stream EXCEPT ![asked.socket] = SubSeq(@, n + 1, Len(@))]
        /\ UNCHANGED <<fd, seq, call, asked, out, result, tree, failed>>

\* recv returns -1, or get_children has no memory for its buffer.
RecvFails == /\ ~Idle /\ MayFail
             /\ datagram = << >>
             /\ Return("error")
             /\ failed' = [failed EXCEPT ![asked.socket] = TRUE]
             /\ UNCHANGED <<sockets, asked, out, tree>>

\* recv returns 0: get_children takes the listing for complete, invoke asks
\* again.
RecvNothing == /\ call = "populate" /\ MayFail
               /\ datagram = << >>
               /\ Return("short")
               /\ populated' = TRUE
               /\ failed' = [failed EXCEPT !["genl"] = TRUE]
               /\ UNCHANGED <<sockets, asked, out, families>>

NextMessage == Head(datagram)

Skip == /\ datagram' = Tail(datagram)
        /\ UNCHANGED <<sockets, call, asked, out, result, tree, failed>>

Reading(loops) == call \in loops /\ datagram # << >>

\* Mutant: get_children looks at every message.
OwnUnchecked == TRUE

Own == NextMessage.seq = asked.seq

SkipStray == Reading({"populate"}) /\ ~Own /\ Skip

SkipOther == Reading({"populate"}) /\ Own /\ NextMessage.kind = "other" /\ Skip

AppendFamily == /\ Reading({"populate"}) /\ Own /\ NextMessage.kind = "data"
                /\ families' = Append(families, NextMessage)
                /\ out' = Append(out, NextMessage)
                /\ datagram' = Tail(datagram)
                /\ UNCHANGED <<sockets, call, asked, result, populated, failed>>

\* process_family_msg fails: a malformed message, or no memory.
FamilyFails == /\ Reading({"populate"}) /\ Own /\ NextMessage.kind = "data"
               /\ MayFail
               /\ Return("error")
               /\ failed' = [failed EXCEPT !["genl"] = TRUE]
               /\ UNCHANGED <<sockets, asked, out, tree>>

PopulateError == /\ Reading({"populate"}) /\ Own
                 /\ NextMessage.kind \in {"error", "ack"}
                 /\ Return("error")
                 /\ UNCHANGED <<sockets, asked, out, tree, failed>>

PopulateDone == /\ Reading({"populate"}) /\ Own /\ NextMessage.kind = "done"
                /\ Return("ok")
                /\ populated' = TRUE
                /\ failed' = [failed EXCEPT !["genl"] = FALSE]
                /\ UNCHANGED <<sockets, asked, out, families>>

\* Mutant: an ack is taken for the reply.
SkipAckReturns == /\ Reading({"dump", "do"}) /\ NextMessage.kind = "ack"
                  /\ Return("ok")
                  /\ UNCHANGED <<sockets, asked, out, tree, failed>>

\* The loops of invoke look at no sequence number.
SkipAck == Reading({"dump", "do"}) /\ NextMessage.kind = "ack" /\ Skip

\* Mutant: one reply ends a dump.
RenderOne == /\ Reading({"dump", "do"}) /\ NextMessage.kind \in {"data", "other"}
             /\ out' = Append(out, NextMessage)
             /\ Return("ok")
             /\ UNCHANGED <<sockets, asked, tree, failed>>

\* A dump renders reply after reply, a plain request is done with the first.
Render == /\ Reading({"dump", "do"}) /\ NextMessage.kind \in {"data", "other"}
          /\ out' = Append(out, NextMessage)
          /\ IF call = "do" THEN Return("ok")
             ELSE datagram' = Tail(datagram) /\ UNCHANGED <<call, result>>
          /\ UNCHANGED <<sockets, asked, tree, failed>>

\* Mutant: a dump goes on after an error.
RenderErrnoGoesOn == Reading({"dump", "do"}) /\ NextMessage.kind = "error" /\ Skip

\* The kernel's errno is returned as a text.
RenderErrno == /\ Reading({"dump", "do"}) /\ NextMessage.kind = "error"
               /\ Return("text")
               /\ UNCHANGED <<sockets, asked, out, tree, failed>>

RenderDone == /\ Reading({"dump", "do"}) /\ NextMessage.kind = "done"
              /\ Return("ok")
              /\ UNCHANGED <<sockets, asked, out, tree, failed>>

-----------------------------------------------------------------------------
(* Refresh and destroy.                                                    *)

Unlisted == populated' = FALSE /\ families' = << >>

\* Mutant: closed is -1, for the number too.
CloseMinusOne(socks) ==
  /\ fd' = [s \in Socket |-> s \notin socks /\ fd[s]]
  /\ seq' = [s \in Socket |-> IF s \in socks THEN -1 ELSE seq[s]]
  /\ stream' = [s \in Socket |-> IF s \in socks THEN << >> ELSE stream[s]]
  /\ failed' = [s \in Socket |-> s \notin socks /\ failed[s]]

Close(socks) == /\ fd' = [s \in Socket |-> s \notin socks /\ fd[s]]
                /\ seq' = [s \in Socket |-> IF s \in socks THEN 0 ELSE seq[s]]
                /\ stream' = [s \in Socket |-> IF s \in socks THEN << >> ELSE stream[s]]
                /\ failed' = [s \in Socket |-> s \notin socks /\ failed[s]]

\* refresh of /netlink/genl drops the families and keeps the socket.
RefreshGenl == /\ Idle /\ populated
               /\ Unlisted
               /\ UNCHANGED <<sockets, datagram, call, asked, out, result, failed>>

\* refresh of /netlink destroys both namespaces, and with /netlink/rtnl its
\* socket; the genl socket belongs to the transport and stays.
RefreshNetlink == /\ Idle
                  /\ Close({"rtnl"})
                  /\ Unlisted
                  /\ UNCHANGED <<datagram, call, asked, out, result>>

\* The transport is destroyed, and a new one created.
DestroyTransport == /\ Idle
                    /\ Close(Socket)
                    /\ Unlisted
                    /\ UNCHANGED <<datagram, call, asked, out, result>>

ClientCall == \/ Populate \/ InvokeDump \/ InvokeDo
              \/ InvokeRefused \/ OpenFails \/ SendFails
              \/ RefreshGenl \/ RefreshNetlink \/ DestroyTransport

\* What the loops do when nothing fails.
LoopStep == \/ Recv
            \/ SkipStray \/ SkipOther \/ AppendFamily \/ PopulateError \/ PopulateDone
            \/ SkipAck \/ Render \/ RenderErrno \/ RenderDone

Failure == RecvFails \/ RecvNothing \/ FamilyFails

Next == ClientCall \/ LoopStep \/ Failure

Spec == Init /\ [][Next]_vars

\* The thread goes on reading as long as there is something to read; nothing
\* is assumed of the client, the kernel or of failures.
FairSpec == Spec /\ WF_vars(LoopStep)

-----------------------------------------------------------------------------
(* Properties.                                                             *)

\* Every variable keeps its type; numbers stay in their bound.
TypeOK ==
  /\ fd \in [Socket -> BOOLEAN]
  /\ seq \in [Socket -> Nat] /\ \A s \in Socket : seq[s] <= MaxSeq[s]
  /\ stream \in [Socket -> Seq(Message)]
  /\ datagram \in Seq(Message) /\ out \in Seq(Message) /\ families \in Seq(Message)
  /\ call \in {"idle", "populate", "dump", "do"}
  /\ asked \in [call : {"none", "populate", "dump", "do"}, socket : Socket,
                seq : Nat, answer : Seq(Kind), clean : BOOLEAN]
  /\ result \in {"none", "ok", "short", "text", "error"}
  /\ populated \in BOOLEAN
  /\ failed \in [Socket -> BOOLEAN]

\* The kinds of message the loop of the last call keeps.
Kept == IF asked.call = "populate" THEN {"data"} ELSE {"data", "other"}

KeptUpTo(n) == {i \in 1..n : asked.answer[i] \in Kept}

\* out is, in order, the messages of the first n of the answer that are kept.
Lists(n) ==
  \E at \in [DOMAIN out -> KeptUpTo(n)] :
    /\ \A j, k \in DOMAIN out : j < k => at[j] < at[k]
    /\ \A i \in KeptUpTo(n) : \E j \in DOMAIN out : at[j] = i
    /\ \A j \in DOMAIN out : out[j] = [seq |-> asked.seq, kind |-> asked.answer[at[j]]]

\* As long as no call has left a socket half read, every call on it, however
\* it ends, leaves nothing behind; and a successful get_children of
\* /netlink/genl empties the genl socket of whatever was left there.
SyncUntilFailure ==
  \A s \in Socket : (~failed[s] /\ Idle) => stream[s] = << >>

\* A successful get_children has made its families from its own request's
\* answer, in order and from all of it unless recv returned nothing, whatever
\* was queued before it.
PopulateExact ==
  (Idle /\ asked.call = "populate" /\ result \in {"ok", "short"}) =>
    /\ \E n \in 0..Len(asked.answer) : Lists(n) /\ (result = "ok" => n = Len(asked.answer))
    /\ populated => IsSuffix(out, families)

\* On a socket no call has left half read, a dump renders exactly the replies to
\* its request, and a plain request its one reply, if it has one.
InvokeExact ==
  (Idle /\ asked.call \in {"dump", "do"} /\ result = "ok" /\ asked.clean) =>
    Lists(Len(asked.answer))

\* get_children of /netlink/genl and a dump always return: the kernel terminates
\* a dump, and the loops end at a terminator, pass over strays or take another
\* request's terminator for their own.
DumpsReturn == call \in {"populate", "dump"} ~> Idle

\* main.c on invoke: "Opens a netlink socket, sends a real request, prints the
\* kernel's reply": what is printed answers the request that was sent.
PrintsTheReply ==
  (Idle /\ asked.call \in {"dump", "do"} /\ result = "ok") =>
    \A i \in DOMAIN out : out[i].seq = asked.seq
=============================================================================
