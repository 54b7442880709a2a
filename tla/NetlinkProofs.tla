---------------------------- MODULE NetlinkProofs ----------------------------
(***************************************************************************)
(* Machine-checked proofs about NetlinkSession, for any answers of the     *)
(* kernel that AnswerAssumption admits and any number of calls.            *)
(*                                                                         *)
(* The argument is about Pending, what is still to be read on the socket   *)
(* of the call in progress.  Counted from its end, it is the answer to the *)
(* request that was sent last, and anything before that answer is older:   *)
(* receiving, skipping and rendering take from the front and leave this    *)
(* alone.  So a message that carries the request's own number tells how    *)
(* much of the answer is left, and the terminator that nothing is.         *)
(***************************************************************************)
EXTENDS NetlinkSession, SequenceTheorems, TLAPS

Pending == datagram \o stream[asked.socket]

\* p ends like the answer a to the request numbered n, and is older before that.
Aligned(p, n, a) ==
  \A i \in 1..Len(p) :
    IF Len(p) - i < Len(a)
      THEN p[i] = [seq |-> n, kind |-> a[Len(a) - (Len(p) - i)]]
      ELSE p[i].seq < n

\* How many messages of the answer a have been taken from p.
Taken(p, a) == IF Len(p) >= Len(a) THEN 0 ELSE Len(a) - Len(p)

Answers(c) == CASE c = "populate" -> PopulateAnswers
                [] c = "dump" -> DumpAnswers
                [] OTHER -> DoAnswers

-----------------------------------------------------------------------------
(* The inductive invariant.                                                *)

\* No number on a socket is newer than the last one drawn.
NoneNewer ==
  \A s \in Socket : \A i \in 1..Len(stream[s]) : stream[s][i].seq <= seq[s]

\* What the call in progress knows of its request.
InFlight ==
  ~Idle => /\ asked.call = call
           /\ asked.seq = seq[asked.socket]
           /\ asked.answer \in Answers(call)
           /\ asked.clean = ~failed[asked.socket]
           /\ call = "populate" => asked.socket = "genl"
           /\ Aligned(Pending, asked.seq, asked.answer)

\* A socket that no call has left half read holds at most the rest of the answer
\* to the call in progress on it.
InSync ==
  /\ Idle => datagram = << >>
  /\ \A s \in Socket :
       ~failed[s] => IF Idle \/ s # asked.socket THEN stream[s] = << >>
                     ELSE Len(Pending) <= Len(asked.answer)

\* What has been kept is what was taken of the answer.
Progress ==
  (~Idle /\ (call = "populate" \/ asked.clean)) => Lists(Taken(Pending, asked.answer))

\* The children end with what the listing in progress, or the last one, appended.
Grown ==
  (asked.call = "populate" /\ (~Idle \/ populated)) => IsSuffix(out, families)

SessionInv == /\ TypeOK
              /\ NoneNewer
              /\ InFlight
              /\ InSync
              /\ Progress
              /\ Grown
              /\ PopulateExact
              /\ InvokeExact

-----------------------------------------------------------------------------
(* Facts about the operators.                                              *)

\* The kernel's answers, by what AnswerAssumption says of them.
LEMMA AnswersType ==
  ASSUME NEW c \in {"populate", "dump", "do"}, NEW a \in Answers(c)
  PROVE  /\ a \in Seq(Kind) /\ Len(a) \in Nat
         /\ \A i \in 1..Len(a) : a[i] \in Kind
         /\ c = "populate" => \A i \in 1..Len(a) :
              a[i] \in {"done", "error", "ack"} <=> i = Len(a)
         /\ c = "dump" => \A i \in 1..Len(a) : a[i] \in {"done", "error"} <=> i = Len(a)
         /\ c = "do" => \A i \in 1..Len(a) : i < Len(a) => a[i] = "ack"
<1>1. a \in Seq(Kind)
  BY AnswerAssumption DEF Answers
<1>2. DOMAIN a = 1..Len(a) /\ Len(a) \in Nat /\ \A i \in 1..Len(a) : a[i] \in Kind
  BY <1>1
<1>3. QED
  BY <1>1, <1>2, AnswerAssumption DEF Answers

\* Messages numbers an answer.
LEMMA MessagesType ==
  ASSUME NEW n \in Nat, NEW a \in Seq(Kind)
  PROVE  /\ Messages(n, a) \in Seq(Message)
         /\ Len(Messages(n, a)) = Len(a)
         /\ \A i \in 1..Len(a) : Messages(n, a)[i] = [seq |-> n, kind |-> a[i]]
<1>1. DOMAIN a = 1..Len(a) /\ Len(a) \in Nat /\ \A i \in 1..Len(a) : a[i] \in Kind
  OBVIOUS
<1>2. Messages(n, a) = [i \in 1..Len(a) |-> [seq |-> n, kind |-> a[i]]]
  BY <1>1 DEF Messages
<1>3. \A i \in 1..Len(a) : [seq |-> n, kind |-> a[i]] \in Message
  BY <1>1 DEF Message
<1>4. Messages(n, a) \in Seq(Message)
  BY <1>1, <1>2, <1>3
<1>5. Len(Messages(n, a)) = Len(a)
  BY <1>1, <1>2
<1>6. QED
  BY <1>2, <1>4, <1>5

\* Sending aligns the queue with the new answer, if the queue is older.
LEMMA AlignedSend ==
  ASSUME NEW p \in Seq(Message), NEW n \in Nat, NEW a \in Seq(Kind),
         \A i \in 1..Len(p) : p[i].seq < n
  PROVE  Aligned(p \o Messages(n, a), n, a)
<1> DEFINE q == Messages(n, a)
<1>1. q \in Seq(Message) /\ Len(q) = Len(a)
      /\ \A i \in 1..Len(a) : q[i] = [seq |-> n, kind |-> a[i]]
  BY MessagesType
<1>2. Len(p) \in Nat /\ Len(a) \in Nat
  OBVIOUS
<1> HIDE DEF q
<1>3. Len(p \o q) = Len(p) + Len(a)
      /\ \A i \in 1..Len(p) + Len(a) : (p \o q)[i] = IF i <= Len(p) THEN p[i] ELSE q[i - Len(p)]
  <2>1. p \in Seq(Message) /\ q \in Seq(Message)
    BY <1>1
  <2>2. /\ Len(p \o q) = Len(p) + Len(q)
        /\ \A i \in 1..Len(p) + Len(q) : (p \o q)[i] = IF i <= Len(p) THEN p[i] ELSE q[i - Len(p)]
    BY <2>1, ConcatProperties
  <2>3. QED
    BY <1>1, <2>2
<1>4. ASSUME NEW i \in 1..Len(p \o q)
      PROVE  IF Len(p \o q) - i < Len(a)
               THEN (p \o q)[i] = [seq |-> n, kind |-> a[Len(a) - (Len(p \o q) - i)]]
               ELSE (p \o q)[i].seq < n
  <2>1. i \in Nat /\ i >= 1 /\ i <= Len(p) + Len(a)
    BY <1>2, <1>3
  <2>2. CASE i <= Len(p)
    <3>1. (p \o q)[i] = p[i] /\ i \in 1..Len(p)
      BY <2>1, <2>2, <1>2, <1>3
    <3>2. ~ (Len(p \o q) - i < Len(a))
      BY <2>1, <2>2, <1>2, <1>3
    <3>3. QED
      BY <3>1, <3>2
  <2>3. CASE i > Len(p)
    <3>1. i - Len(p) \in 1..Len(a) /\ (p \o q)[i] = q[i - Len(p)]
      BY <2>1, <2>3, <1>2, <1>3
    <3>2. Len(a) - (Len(p \o q) - i) = i - Len(p) /\ Len(p \o q) - i < Len(a)
      BY <2>1, <2>3, <1>2, <1>3
    <3>3. QED
      BY <3>1, <3>2, <1>1
  <2>4. QED
    BY <2>1, <2>2, <2>3, <1>2
<1>5. QED
  BY <1>4 DEF Aligned, q

\* Taking the first message keeps the rest aligned.
LEMMA AlignedTail ==
  ASSUME NEW p \in Seq(Message), p # << >>, NEW n \in Nat, NEW a \in Seq(Kind),
         Aligned(p, n, a)
  PROVE  Aligned(Tail(p), n, a)
<1>1. Len(p) \in Nat \ {0} /\ Len(Tail(p)) = Len(p) - 1
      /\ \A i \in 1..Len(Tail(p)) : Tail(p)[i] = p[i + 1]
  BY HeadTailProperties, EmptySeq
<1>2. ASSUME NEW i \in 1..Len(Tail(p))
      PROVE  i + 1 \in 1..Len(p) /\ Len(Tail(p)) - i = Len(p) - (i + 1)
  BY <1>1
<1>3. QED
  BY <1>1, <1>2 DEF Aligned

\* A message with the request's own number is the next of its answer, and nothing
\* but the rest of the answer follows it; an older one is no part of it.
LEMMA AlignedOwn ==
  ASSUME NEW p \in Seq(Message), p # << >>, NEW n \in Nat, NEW a \in Seq(Kind),
         Aligned(p, n, a)
  PROVE  /\ Head(p).seq = n => Len(p) <= Len(a)
         /\ Len(p) <= Len(a) =>
              /\ Taken(p, a) + 1 \in 1..Len(a)
              /\ Head(p) = [seq |-> n, kind |-> a[Taken(p, a) + 1]]
              /\ Taken(Tail(p), a) = Taken(p, a) + 1
         /\ Len(p) > Len(a) => Taken(p, a) = 0 /\ Taken(Tail(p), a) = 0
<1>1. Len(p) \in Nat \ {0} /\ Len(a) \in Nat /\ Len(Tail(p)) = Len(p) - 1 /\ Head(p) = p[1]
  BY HeadTailProperties, EmptySeq
<1>2. IF Len(p) - 1 < Len(a)
        THEN p[1] = [seq |-> n, kind |-> a[Len(a) - (Len(p) - 1)]]
        ELSE p[1].seq < n
  BY <1>1 DEF Aligned
<1>3. ASSUME Head(p).seq = n PROVE Len(p) <= Len(a)
  BY <1>1, <1>2, <1>3
<1>4. ASSUME Len(p) <= Len(a)
      PROVE  /\ Taken(p, a) + 1 \in 1..Len(a)
             /\ Head(p) = [seq |-> n, kind |-> a[Taken(p, a) + 1]]
             /\ Taken(Tail(p), a) = Taken(p, a) + 1
  <2>1. Taken(p, a) = Len(a) - Len(p) /\ Taken(Tail(p), a) = Len(a) - (Len(p) - 1)
    BY <1>1, <1>4 DEF Taken
  <2>2. Len(a) - (Len(p) - 1) = Taken(p, a) + 1
    BY <1>1, <2>1
  <2>3. QED
    BY <1>1, <1>2, <1>4, <2>1, <2>2
<1>5. ASSUME Len(p) > Len(a) PROVE Taken(p, a) = 0 /\ Taken(Tail(p), a) = 0
  <2>1. Len(p) >= Len(a) /\ Len(Tail(p)) >= Len(a)
    BY <1>1, <1>5
  <2>2. QED
    BY <2>1 DEF Taken
<1>6. QED
  BY <1>3, <1>4, <1>5

\* Appending the same message to both keeps a suffix one; the empty one always is.
LEMMA SuffixAppend ==
  ASSUME NEW S, NEW s \in Seq(S), NEW t \in Seq(S), NEW e \in S, IsSuffix(s, t)
  PROVE  IsSuffix(Append(s, e), Append(t, e))
<1>1. Reverse(Append(s, e)) = <<e>> \o Reverse(s)
  BY DEF Reverse
<1>2. Reverse(Append(t, e)) = <<e>> \o Reverse(t)
  BY DEF Reverse
<1>3. QED
  BY <1>1, <1>2 DEF IsSuffix, IsPrefix

\* An empty listing is a suffix of any, and lists nothing.
LEMMA NothingListed ==
  ASSUME out' = << >>
  PROVE  Lists(0)' /\ \A t \in Seq(Message) : IsSuffix(out', t)
<1>1. DOMAIN out' = {} /\ KeptUpTo(0)' = {}
  BY DEF KeptUpTo
<1>2. Lists(0)'
  <2> DEFINE at == [j \in {} |-> 1]
  <2>1. at \in [DOMAIN out' -> KeptUpTo(0)']
    BY <1>1
  <2>2. QED
    BY <1>1, <2>1 DEF Lists
<1>3. \A t \in Seq(Message) : IsSuffix(out', t)
  BY DEF IsSuffix, IsPrefix, Reverse
<1>4. QED
  BY <1>2, <1>3

\* A message that is not kept leaves the listing complete.
LEMMA ListsSkip ==
  ASSUME TypeOK, UNCHANGED <<asked, out>>,
         NEW n \in Nat, Lists(n), asked.answer[n + 1] \notin Kept
  PROVE  Lists(n + 1)'
<1>1. KeptUpTo(n + 1) = KeptUpTo(n)
  BY DEF KeptUpTo
<1>2. KeptUpTo(n + 1)' = KeptUpTo(n + 1)
  BY DEF KeptUpTo, Kept
<1>3. QED
  BY <1>1, <1>2 DEF Lists

\* One that is kept is appended, and the listing is complete again.
LEMMA ListsAppend ==
  ASSUME TypeOK, UNCHANGED asked,
         NEW n \in Nat, Lists(n), asked.answer[n + 1] \in Kept,
         out' = Append(out, [seq |-> asked.seq, kind |-> asked.answer[n + 1]])
  PROVE  Lists(n + 1)'
<1>1. PICK at \in [DOMAIN out -> KeptUpTo(n)] :
        /\ \A j, k \in DOMAIN out : j < k => at[j] < at[k]
        /\ \A i \in KeptUpTo(n) : \E j \in DOMAIN out : at[j] = i
        /\ \A j \in DOMAIN out : out[j] = [seq |-> asked.seq, kind |-> asked.answer[at[j]]]
  BY DEF Lists
<1> DEFINE l == Len(out)
           more == [j \in 1..l + 1 |-> IF j = l + 1 THEN n + 1 ELSE at[j]]
<1>2. l \in Nat /\ DOMAIN out = 1..l /\ out \in Seq(Message)
  BY DEF TypeOK
<1>3. DOMAIN out' = 1..l + 1 /\ (\A j \in 1..l : out'[j] = out[j])
      /\ out'[l + 1] = [seq |-> asked.seq, kind |-> asked.answer[n + 1]]
  BY <1>2
<1>4. KeptUpTo(n + 1)' = KeptUpTo(n) \cup {n + 1}
  <2>1. 1..n + 1 = 1..n \cup {n + 1}
    OBVIOUS
  <2>2. Kept' = Kept
    BY DEF Kept
  <2>3. KeptUpTo(n + 1)' = {i \in 1..n + 1 : asked.answer[i] \in Kept}
    BY <2>2 DEF KeptUpTo
  <2>4. QED
    BY <2>1, <2>3 DEF KeptUpTo
<1>5. \A i \in KeptUpTo(n) : i \in Nat /\ i < n + 1
  BY DEF KeptUpTo
<1>6. \A j \in 1..l : at[j] \in KeptUpTo(n)
  BY <1>1, <1>2
<1>7. more \in [DOMAIN out' -> KeptUpTo(n + 1)']
  BY <1>2, <1>3, <1>4, <1>6
<1>8. \A j, k \in DOMAIN out' : j < k => more[j] < more[k]
  <2>1. SUFFICES ASSUME NEW j \in 1..l + 1, NEW k \in 1..l + 1, j < k
                 PROVE  more[j] < more[k]
    BY <1>3
  <2>2. j \in 1..l /\ more[j] = at[j]
    BY <1>2, <2>1
  <2>3. CASE k = l + 1
    BY <2>2, <2>3, <1>5, <1>6
  <2>4. CASE k # l + 1
    <3>1. k \in 1..l /\ more[k] = at[k]
      BY <2>1, <2>4, <1>2
    <3>2. at[j] < at[k]
      BY <2>1, <2>2, <3>1, <1>1, <1>2
    <3>3. QED
      BY <2>2, <3>1, <3>2
  <2>5. QED
    BY <2>3, <2>4
<1>9. \A i \in KeptUpTo(n + 1)' : \E j \in DOMAIN out' : more[j] = i
  <2>1. SUFFICES ASSUME NEW i \in KeptUpTo(n) \cup {n + 1}
                 PROVE  \E j \in 1..l + 1 : more[j] = i
    BY <1>3, <1>4
  <2>2. CASE i = n + 1
    <3>1. l + 1 \in 1..l + 1 /\ more[l + 1] = i
      BY <1>2, <2>2
    <3>2. QED
      BY <3>1
  <2>3. CASE i \in KeptUpTo(n)
    <3>1. PICK j \in 1..l : at[j] = i
      BY <1>1, <1>2, <2>3
    <3>2. j \in 1..l + 1 /\ more[j] = i
      BY <3>1, <1>2
    <3>3. QED
      BY <3>2
  <2>4. QED
    BY <2>2, <2>3
<1>10. \A j \in DOMAIN out' : out'[j] = [seq |-> asked'.seq, kind |-> asked'.answer[more[j]]]
  <2>1. SUFFICES ASSUME NEW j \in 1..l + 1
                 PROVE  out'[j] = [seq |-> asked.seq, kind |-> asked.answer[more[j]]]
    BY <1>3
  <2>2. CASE j = l + 1
    BY <2>2, <1>3
  <2>3. CASE j # l + 1
    <3>1. j \in 1..l /\ more[j] = at[j]
      BY <2>3, <1>2
    <3>2. QED
      BY <3>1, <1>1, <1>2, <1>3
  <2>4. QED
    BY <2>2, <2>3
<1> HIDE DEF more
<1>11. QED
  BY <1>7, <1>8, <1>9, <1>10 DEF Lists

\* Reading on takes the first message of what is pending.
LEMMA PendingTail ==
  ASSUME TypeOK, datagram # << >>
  PROVE  /\ Pending \in Seq(Message) /\ Pending # << >>
         /\ Head(Pending) = NextMessage /\ NextMessage \in Message
         /\ (datagram' = Tail(datagram) /\ UNCHANGED <<stream, asked>>) =>
              Pending' = Tail(Pending)
<1>1. datagram \in Seq(Message) /\ stream[asked.socket] \in Seq(Message)
  BY DEF TypeOK
<1>2. ASSUME NEW d \in Seq(Message), NEW q \in Seq(Message), d # << >>
      PROVE  /\ d \o q \in Seq(Message) /\ d \o q # << >>
             /\ Head(d \o q) = Head(d) /\ Head(d) \in Message
             /\ Tail(d \o q) = Tail(d) \o q
  BY <1>2
<1>3. QED
  BY <1>1, <1>2 DEF Pending, NextMessage

\* recv moves messages from the queue to the buffer, and loses none.
LEMMA PendingRecv ==
  ASSUME TypeOK, Recv
  PROVE  Pending' = Pending
<1> DEFINE q == stream[asked.socket]
<1>1. q \in Seq(Message) /\ asked.socket \in Socket
  BY DEF TypeOK
<1>2. PICK n \in 1..Len(q) :
        /\ datagram' = SubSeq(q, 1, n)
        /\ stream' = [stream EXCEPT ![asked.socket] = SubSeq(q, n + 1, Len(q))]
  BY DEF Recv
<1>3. stream'[asked.socket] = SubSeq(q, n + 1, Len(q)) /\ asked' = asked
  BY <1>1, <1>2 DEF TypeOK, Recv
<1>4. Pending' = SubSeq(q, 1, n) \o SubSeq(q, n + 1, Len(q))
  BY <1>2, <1>3 DEF Pending
<1>5. Pending = q
  BY <1>1 DEF Recv, Pending
<1>6. SubSeq(q, 1, n) \o SubSeq(q, n + 1, Len(q)) = q
  <2>1. n \in 0..Len(q) /\ Len(q) \in n..Len(q) /\ 1 \in 1..Len(q) + 1
    BY <1>1
  <2>2. SubSeq(q, 1, n) \o SubSeq(q, n + 1, Len(q)) = SubSeq(q, 1, Len(q))
    BY <1>1, <2>1, ConcatAdjacentSubSeq
  <2>3. QED
    BY <1>1, <2>2, SubSeqFull
<1>7. QED
  BY <1>4, <1>5, <1>6

-----------------------------------------------------------------------------
(* Type correctness.                                                       *)

\* Sending queues the answer, whatever answer the kernel gives.
LEMMA SendType ==
  ASSUME TypeOK, NEW c \in {"populate", "dump", "do"}, NEW s \in Socket,
         NEW a \in Answers(c), Send(c, s, a)
  PROVE  TypeOK'
<1>1. a \in Seq(Kind)
  BY AnswersType
<1>2. NextSeq(s) \in Nat /\ NextSeq(s) <= MaxSeq[s]
  BY DEF TypeOK, Send, Draw, NextSeq
<1>3. seq' \in [Socket -> Nat] /\ \A t \in Socket : seq'[t] <= MaxSeq[t]
  BY <1>2 DEF TypeOK, Send, Draw
<1>4. stream' \in [Socket -> Seq(Message)]
  <2>1. Messages(NextSeq(s), a) \in Seq(Message)
    BY <1>1, <1>2, MessagesType
  <2>2. stream[s] \o Messages(NextSeq(s), a) \in Seq(Message)
    BY <2>1 DEF TypeOK
  <2>3. QED
    BY <2>2 DEF TypeOK, Send
<1>5. asked' \in [call : {"none", "populate", "dump", "do"}, socket : Socket,
                  seq : Nat, answer : Seq(Kind), clean : BOOLEAN]
  BY <1>1, <1>2 DEF TypeOK, Send
<1>6. fd' \in [Socket -> BOOLEAN] /\ out' \in Seq(Message)
  BY DEF TypeOK, Send
<1>7. call' \in {"idle", "populate", "dump", "do"} /\ result' \in {"none", "ok", "short", "text", "error"}
  BY DEF Send
<1>8. UNCHANGED <<datagram, populated, families, failed>>
  BY DEF Send, tree
<1>9. QED
  BY <1>3, <1>4, <1>5, <1>6, <1>7, <1>8 DEF TypeOK

\* Calls, refreshes and destructions keep the types.
LEMMA ClientType ==
  ASSUME TypeOK, ClientCall
  PROVE  TypeOK'
<1>1. CASE Populate
  <2>1. PICK a \in PopulateAnswers : Send("populate", "genl", a)
    BY <1>1 DEF Populate
  <2>2. QED
    BY <2>1, SendType DEF Answers, Socket
<1>2. CASE InvokeDump
  <2>1. PICK s \in Socket, a \in DumpAnswers : Send("dump", s, a)
    BY <1>2 DEF InvokeDump
  <2>2. a \in Answers("dump")
    BY DEF Answers
  <2>3. QED
    BY <2>1, <2>2, SendType
<1>3. CASE InvokeDo
  <2>1. PICK a \in DoAnswers : Send("do", "genl", a)
    BY <1>3 DEF InvokeDo
  <2>2. a \in Answers("do")
    BY DEF Answers
  <2>3. QED
    BY <2>1, <2>2, SendType DEF Socket
<1>4. ASSUME NEW s \in Socket, Draw(s)
      PROVE  seq' \in [Socket -> Nat] /\ \A t \in Socket : seq'[t] <= MaxSeq[t]
  <2>1. NextSeq(s) \in Nat /\ NextSeq(s) <= MaxSeq[s]
    BY <1>4 DEF TypeOK, Draw, NextSeq
  <2>2. QED
    BY <1>4, <2>1 DEF TypeOK, Draw
<1>5. [asked EXCEPT !.call = "none"] \in
        [call : {"none", "populate", "dump", "do"}, socket : Socket,
         seq : Nat, answer : Seq(Kind), clean : BOOLEAN]
  BY DEF TypeOK
<1>6. CASE InvokeRefused
  BY <1>4, <1>5, <1>6 DEF InvokeRefused, TypeOK, Socket, tree
<1>7. CASE OpenFails
  <2>1. seq' \in [Socket -> Nat] /\ \A t \in Socket : seq'[t] <= MaxSeq[t]
    BY <1>4, <1>7 DEF OpenFails, TypeOK
  <2>2. QED
    BY <1>5, <1>7, <2>1 DEF OpenFails, TypeOK, tree
<1>8. CASE SendFails
  <2>1. seq' \in [Socket -> Nat] /\ \A t \in Socket : seq'[t] <= MaxSeq[t]
    BY <1>4, <1>8 DEF SendFails
  <2>2. fd' \in [Socket -> BOOLEAN]
    BY <1>8 DEF SendFails, TypeOK
  <2>3. QED
    BY <1>5, <1>8, <2>1, <2>2 DEF SendFails, TypeOK, tree
<1>9. ASSUME NEW socks, Close(socks)
      PROVE  /\ fd' \in [Socket -> BOOLEAN] /\ failed' \in [Socket -> BOOLEAN]
             /\ seq' \in [Socket -> Nat] /\ \A t \in Socket : seq'[t] <= MaxSeq[t]
             /\ stream' \in [Socket -> Seq(Message)]
  <2>1. MaxSeq \in [Socket -> Nat] /\ << >> \in Seq(Message)
    BY BoundAssumption
  <2>2. QED
    BY <1>9, <2>1 DEF Close, TypeOK
<1>10. CASE RefreshGenl
  <2>1. populated' = FALSE /\ families' = << >> /\ << >> \in Seq(Message)
    BY <1>10 DEF RefreshGenl, Unlisted
  <2>2. QED
    BY <1>10, <2>1 DEF RefreshGenl, sockets, TypeOK
<1>11. CASE RefreshNetlink \/ DestroyTransport
  <2>1. /\ fd' \in [Socket -> BOOLEAN] /\ failed' \in [Socket -> BOOLEAN]
        /\ seq' \in [Socket -> Nat] /\ \A t \in Socket : seq'[t] <= MaxSeq[t]
        /\ stream' \in [Socket -> Seq(Message)]
    BY <1>9, <1>11 DEF RefreshNetlink, DestroyTransport
  <2>2. populated' \in BOOLEAN /\ families' \in Seq(Message)
        /\ UNCHANGED <<datagram, call, asked, out, result>>
    <3>1. << >> \in Seq(Message)
      OBVIOUS
    <3>2. QED
      BY <1>11, <3>1 DEF RefreshNetlink, DestroyTransport, Unlisted
  <2>3. QED
    BY <2>1, <2>2 DEF TypeOK
<1>12. QED
  BY <1>1, <1>2, <1>3, <1>6, <1>7, <1>8, <1>10, <1>11 DEF ClientCall

\* So do the loops.
LEMMA LoopType ==
  ASSUME TypeOK, LoopStep \/ Failure
  PROVE  TypeOK'
<1> USE DEF TypeOK, sockets, tree, Skip, Return, Socket
<1>1. CASE Recv
  <2> DEFINE q == stream[asked.socket]
  <2>1. q \in Seq(Message) /\ asked.socket \in Socket
    OBVIOUS
  <2>2. PICK n \in 1..Len(q) :
          /\ datagram' = SubSeq(q, 1, n)
          /\ stream' = [stream EXCEPT ![asked.socket] = SubSeq(q, n + 1, Len(q))]
    BY <1>1 DEF Recv
  <2>3. datagram' \in Seq(Message) /\ SubSeq(q, n + 1, Len(q)) \in Seq(Message)
    <3>1. \A i, k \in Nat : i >= 1 /\ k <= Len(q) => SubSeq(q, i, k) \in Seq(Message)
      BY <2>1
    <3>2. n \in Nat /\ n <= Len(q) /\ n + 1 \in Nat /\ Len(q) \in Nat
      BY <2>1, <2>2
    <3>3. SubSeq(q, 1, n) \in Seq(Message)
      BY <3>1, <3>2
    <3>4. SubSeq(q, n + 1, Len(q)) \in Seq(Message)
      <4>1. n + 1 >= 1 /\ Len(q) <= Len(q)
        BY <3>2
      <4>2. QED
        BY <3>1, <3>2, <4>1
    <3>5. datagram' = SubSeq(q, 1, n)
      BY <2>2
    <3>6. QED
      BY <3>3, <3>4, <3>5
  <2>4. stream' \in [Socket -> Seq(Message)]
    BY <2>1, <2>2, <2>3
  <2>5. QED
    BY <1>1, <2>3, <2>4 DEF Recv
<1>2. CASE SkipStray \/ SkipOther \/ SkipAck
  <2>1. datagram # << >> /\ datagram' = Tail(datagram)
    BY <1>2 DEF SkipStray, SkipOther, SkipAck, Reading
  <2>3. datagram' \in Seq(Message)
    BY <2>1
  <2>2. QED
    BY <1>2, <2>3 DEF SkipStray, SkipOther, SkipAck
<1>3. ASSUME datagram # << >>
      PROVE  /\ Tail(datagram) \in Seq(Message)
             /\ \A t \in Seq(Message) : Append(t, NextMessage) \in Seq(Message)
  BY <1>3 DEF NextMessage
<1>4. CASE AppendFamily
  <2>1. datagram' \in Seq(Message) /\ families' \in Seq(Message) /\ out' \in Seq(Message)
    BY <1>3, <1>4 DEF AppendFamily, Reading
  <2>2. QED
    BY <1>4, <2>1 DEF AppendFamily
<1>5. CASE PopulateError
  BY <1>5 DEF PopulateError
<1>6. CASE PopulateDone
  BY <1>6 DEF PopulateDone
<1>7. CASE Render
  <2>1. datagram' \in Seq(Message)
    <3>1. datagram' \in {Tail(datagram), << >>}
      BY <1>7 DEF Render
    <3>2. datagram # << >>
      BY <1>7 DEF Render, Reading
    <3>3. << >> \in Seq(Message) /\ Tail(datagram) \in Seq(Message)
      BY <1>3, <3>2
    <3>4. QED
      BY <3>1, <3>3
  <2>3. out' \in Seq(Message)
    BY <1>3, <1>7 DEF Render, Reading
  <2>2. QED
    BY <1>7, <2>1, <2>3 DEF Render
<1>8. CASE RenderErrno \/ RenderDone
  <2>1. datagram' = << >> /\ << >> \in Seq(Message)
    BY <1>8 DEF RenderErrno, RenderDone
  <2>2. QED
    BY <1>8, <2>1 DEF RenderErrno, RenderDone
<1>9. CASE RecvFails
  BY <1>9 DEF RecvFails
<1>10. CASE RecvNothing
  BY <1>10 DEF RecvNothing
<1>11. CASE FamilyFails
  BY <1>11 DEF FamilyFails
<1>12. QED
  BY <1>1, <1>2, <1>4, <1>5, <1>6, <1>7, <1>8, <1>9, <1>10, <1>11 DEF LoopStep, Failure

\* A program that starts has opened no socket.
LEMMA InitType == Init => TypeOK
<1>1. SUFFICES ASSUME Init PROVE TypeOK
  OBVIOUS
<1>2. << >> \in Seq(Message) /\ << >> \in Seq(Kind)
  OBVIOUS
<1>3. seq \in [Socket -> Nat] /\ \A s \in Socket : seq[s] <= MaxSeq[s]
  BY <1>1, BoundAssumption DEF Init
<1>4. stream \in [Socket -> Seq(Message)]
  BY <1>1, <1>2 DEF Init
<1>5. asked \in [call : {"none", "populate", "dump", "do"}, socket : Socket,
                 seq : Nat, answer : Seq(Kind), clean : BOOLEAN]
  BY <1>1, <1>2 DEF Init, Socket
<1>6. fd \in [Socket -> BOOLEAN] /\ failed \in [Socket -> BOOLEAN]
  BY <1>1 DEF Init
<1>7. datagram \in Seq(Message) /\ out \in Seq(Message) /\ families \in Seq(Message)
  BY <1>1, <1>2 DEF Init
<1>8. QED
  BY <1>1, <1>3, <1>4, <1>5, <1>6, <1>7 DEF Init, TypeOK

\* Every variable keeps its type, and the numbers of a socket stay in their bound.
THEOREM TypeCorrect == Spec => []TypeOK
<1>1. Init => TypeOK
  BY InitType
<1>2. TypeOK /\ [Next]_vars => TypeOK'
  <2>1. CASE UNCHANGED vars
    BY <2>1 DEF TypeOK, vars, sockets, tree
  <2>2. QED
    BY <2>1, ClientType, LoopType DEF Next
<1>3. QED
  BY <1>1, <1>2, PTL DEF Spec

-----------------------------------------------------------------------------
(* Every step keeps the invariant.                                         *)

\* The request in progress was given an answer the kernel may give.
LEMMA InFlightAnswer ==
  ASSUME SessionInv, ~Idle
  PROVE  /\ call \in {"populate", "dump", "do"}
         /\ asked.answer \in Answers(call) /\ asked.answer \in Seq(Kind)
         /\ asked.seq \in Nat /\ asked.socket \in Socket
         /\ Pending \in Seq(Message)
<1>1. call \in {"populate", "dump", "do"} /\ asked.answer \in Seq(Kind)
      /\ asked.seq \in Nat /\ asked.socket \in Socket
  BY DEF SessionInv, TypeOK, Idle
<1>2. asked.answer \in Answers(call)
  BY DEF SessionInv, InFlight
<1>3. datagram \in Seq(Message) /\ stream[asked.socket] \in Seq(Message)
  BY <1>1 DEF SessionInv, TypeOK
<1>4. QED
  BY <1>1, <1>2, <1>3 DEF Pending

\* Sending on an idle connection: the answer goes behind what an earlier call may
\* have left, and that is nothing unless one failed.
LEMMA SendInv ==
  ASSUME SessionInv, Idle, NEW c \in {"populate", "dump", "do"}, NEW s \in Socket,
         NEW a \in Answers(c), Send(c, s, a), c = "populate" => s = "genl" /\ ~populated
  PROVE  SessionInv'
<1> DEFINE n == NextSeq(s)
           p == stream[s]
<1>1. TypeOK /\ TypeOK'
  BY SendType DEF SessionInv
<1>2. p \in Seq(Message) /\ n \in Nat /\ n = seq[s] + 1 /\ a \in Seq(Kind) /\ seq[s] \in Nat
  <2>1. a \in Seq(Kind)
    BY AnswersType
  <2>2. seq[s] \in Nat /\ p \in Seq(Message)
    BY <1>1 DEF TypeOK
  <2>3. QED
    BY <2>1, <2>2 DEF NextSeq
<1>18. /\ Messages(n, a) \in Seq(Message) /\ Len(Messages(n, a)) = Len(a) /\ Len(a) \in Nat
       /\ \A j \in 1..Len(a) : Messages(n, a)[j].seq = n
  <2>1. n \in Nat /\ a \in Seq(Kind) /\ Len(a) \in Nat
    BY <1>2
  <2> HIDE DEF n
  <2>2. /\ Messages(n, a) \in Seq(Message) /\ Len(Messages(n, a)) = Len(a)
        /\ \A j \in 1..Len(a) : Messages(n, a)[j] = [seq |-> n, kind |-> a[j]]
    BY <2>1, MessagesType
  <2>3. ASSUME NEW j \in 1..Len(a) PROVE Messages(n, a)[j].seq = n
    <3>1. Messages(n, a)[j] = [seq |-> n, kind |-> a[j]]
      BY <2>2
    <3>2. QED
      BY <3>1
  <2>4. QED
    BY <2>1, <2>2, <2>3
<1>3. \A i \in 1..Len(p) : p[i].seq <= seq[s] /\ p[i].seq \in Nat
  <2>1. \A i \in 1..Len(p) : p[i].seq <= seq[s]
    BY DEF SessionInv, NoneNewer
  <2>2. \A i \in 1..Len(p) : p[i] \in Message
    BY <1>2
  <2>3. QED
    BY <2>1, <2>2 DEF Message
<1>4. \A i \in 1..Len(p) : p[i].seq < n
  BY <1>2, <1>3
<1>5. /\ asked'.call = c /\ asked'.socket = s /\ asked'.seq = n /\ asked'.answer = a
      /\ asked'.clean = ~failed[s] /\ call' = c /\ out' = << >>
      /\ UNCHANGED <<datagram, populated, families, failed>>
  BY DEF Send, tree
<1>6. /\ seq' = [seq EXCEPT ![s] = n]
      /\ stream' = [stream EXCEPT ![s] = p \o Messages(n, a)]
  BY DEF Send, Draw
<1>7. /\ stream'[s] = p \o Messages(n, a) /\ seq'[s] = n
      /\ \A t \in Socket \ {s} : stream'[t] = stream[t] /\ seq'[t] = seq[t]
  BY <1>1, <1>6 DEF TypeOK
<1>8. datagram = << >>
  BY DEF SessionInv, InSync
<1>9. Pending' = p \o Messages(n, a) /\ Pending' \in Seq(Message)
  <2>1. Pending' = << >> \o (p \o Messages(n, a))
    BY <1>5, <1>7, <1>8 DEF Pending
  <2>2. Messages(n, a) \in Seq(Message)
    BY <1>2, MessagesType
  <2>3. p \o Messages(n, a) \in Seq(Message)
    BY <1>2, <2>2
  <2>4. QED
    BY <2>1, <2>3
<1> HIDE DEF n, p
<1>10. NoneNewer'
  <2>1. ASSUME NEW t \in Socket, NEW i \in 1..Len(stream'[t])
        PROVE  stream'[t][i].seq <= seq'[t]
    <3>1. CASE t # s
      BY <3>1, <1>7, <2>1 DEF SessionInv, NoneNewer
    <3>2. CASE t = s
      <4>1. i \in 1..Len(p) + Len(a)
            /\ stream'[s][i] = IF i <= Len(p) THEN p[i] ELSE Messages(n, a)[i - Len(p)]
        <5>1. /\ Len(stream'[s]) = Len(p) + Len(Messages(n, a))
              /\ \A j \in 1..Len(p) + Len(Messages(n, a)) : stream'[s][j] =
                   IF j <= Len(p) THEN p[j] ELSE Messages(n, a)[j - Len(p)]
          BY <1>2, <1>7, <1>18, ConcatProperties
        <5>2. QED
          BY <1>18, <2>1, <3>2, <5>1
      <4>2. Len(p) \in Nat
        BY <1>2
      <4>3. CASE i <= Len(p)
        <5>1. i \in 1..Len(p) /\ p[i].seq \in Nat /\ p[i].seq < n
          BY <1>3, <1>4, <4>1, <4>2, <4>3
        <5>2. stream'[t][i] = p[i] /\ seq'[t] = n
          BY <1>7, <3>2, <4>1, <4>3
        <5>3. n \in Nat
          BY <1>2, <1>3, <1>18, <5>1
        <5>4. QED
          BY <5>1, <5>2, <5>3
      <4>4. CASE ~ (i <= Len(p))
        <5>1. i - Len(p) \in 1..Len(a) /\ stream'[s][i] = Messages(n, a)[i - Len(p)]
          BY <1>18, <4>1, <4>2, <4>4
        <5>2. stream'[t][i].seq = n /\ seq'[t] = n
          BY <1>7, <1>18, <3>2, <5>1
        <5>3. QED
          BY <1>2, <5>2
      <4>5. QED
        BY <4>3, <4>4
    <3>3. QED
      BY <3>1, <3>2
  <2>2. QED
    BY <2>1 DEF NoneNewer
<1>11. Aligned(Pending', n, a)
  BY <1>2, <1>4, <1>9, AlignedSend
<1>12. ~Idle'
  BY <1>5 DEF Idle
<1>13. InFlight'
  BY <1>5, <1>7, <1>11 DEF InFlight, Aligned, Answers, Idle
<1>14. InSync'
  <2>1. ASSUME NEW t \in Socket, ~failed[t]
        PROVE  IF t # s THEN stream'[t] = << >> ELSE Len(Pending') <= Len(a)
    <3>1. stream[t] = << >>
      BY <2>1 DEF SessionInv, InSync
    <3>2. CASE t # s
      BY <3>1, <3>2, <1>7
    <3>3. CASE t = s
      <4>1. p = << >>
        BY <3>1, <3>3 DEF p
      <4>2. Len(Pending') = Len(a)
        BY <4>1, <1>9, <1>18
      <4>3. QED
        BY <3>3, <4>2, <1>18
    <3>4. QED
      BY <3>2, <3>3
  <2>2. QED
    BY <2>1, <1>5, <1>12 DEF InSync
<1>15. Progress' /\ Grown'
  <2>1. Lists(0)' /\ IsSuffix(out', families')
    BY <1>1, <1>5, NothingListed DEF TypeOK
  <2>2. Taken(Pending', a) = 0
    <3>1. Len(Pending') >= Len(a)
      BY <1>2, <1>9, <1>18
    <3>2. QED
      BY <3>1 DEF Taken
  <2>3. Taken(Pending, asked.answer)' = 0
    BY <1>5, <2>2 DEF Taken
  <2>4. QED
    BY <2>1, <2>3 DEF Progress, Grown
<1>16. PopulateExact' /\ InvokeExact'
  BY <1>12 DEF PopulateExact, InvokeExact, Idle
<1>17. QED
  BY <1>1, <1>10, <1>13, <1>14, <1>15, <1>16 DEF SessionInv

\* What the client does between two calls that reach a socket.
LEMMA IdleInv ==
  ASSUME SessionInv,
         \/ InvokeRefused \/ OpenFails \/ SendFails
         \/ RefreshGenl \/ RefreshNetlink \/ DestroyTransport
  PROVE  SessionInv'
<1>1. TypeOK /\ TypeOK'
  BY ClientType DEF ClientCall, SessionInv
<1>2. Idle /\ Idle' /\ datagram = << >> /\ datagram' = << >>
  BY DEF SessionInv, InSync, InvokeRefused, OpenFails, SendFails, RefreshGenl, RefreshNetlink,
         DestroyTransport, Idle
<1>3. CASE InvokeRefused \/ OpenFails \/ SendFails
  <2>1. /\ UNCHANGED <<stream, out, populated, families, failed>>
        /\ asked' = [asked EXCEPT !.call = "none"]
    BY <1>3 DEF InvokeRefused, OpenFails, SendFails, tree
  <2>2. asked'.call = "none"
    BY <1>1, <2>1 DEF TypeOK
  <2>3. \A s \in Socket : seq'[s] \in Nat /\ seq[s] \in Nat /\ seq'[s] >= seq[s]
    <3>1. (UNCHANGED seq) \/ \E t \in Socket : Draw(t)
      BY <1>3 DEF InvokeRefused, OpenFails, SendFails, Socket
    <3>2. \A s \in Socket : seq[s] \in Nat
      BY <1>1 DEF TypeOK
    <3>3. ASSUME NEW t \in Socket, Draw(t), NEW s \in Socket
          PROVE  seq'[s] \in Nat /\ seq'[s] >= seq[s]
      <4>1. seq'[s] = IF s = t THEN seq[s] + 1 ELSE seq[s]
        BY <1>1, <3>3 DEF Draw, NextSeq, TypeOK
      <4>2. QED
        BY <3>2, <4>1
    <3>4. QED
      BY <3>1, <3>2, <3>3
  <2>4. NoneNewer'
    <3>1. ASSUME NEW s \in Socket, NEW i \in 1..Len(stream[s]) PROVE stream[s][i].seq <= seq'[s]
      <4>1. stream[s] \in Seq(Message)
        BY <1>1 DEF TypeOK
      <4>2. stream[s][i] \in Message
        BY <4>1
      <4>3. stream[s][i].seq <= seq[s] /\ stream[s][i].seq \in Nat
        BY <4>2 DEF SessionInv, NoneNewer, Message
      <4>4. QED
        BY <2>3, <4>3
    <3>2. QED
      BY <2>1, <3>1 DEF NoneNewer
  <2>5. InSync'
    BY <1>2, <2>1 DEF SessionInv, InSync
  <2>6. QED
    BY <1>1, <1>2, <2>2, <2>4, <2>5 DEF SessionInv, InFlight, Progress, Grown, PopulateExact, InvokeExact
<1>4. CASE RefreshGenl \/ RefreshNetlink \/ DestroyTransport
  <2>1. /\ UNCHANGED <<out, asked, result>>
        /\ populated' = FALSE
    BY <1>4 DEF RefreshGenl, RefreshNetlink, DestroyTransport, Unlisted
  <2>2. \A s \in Socket :
          \/ stream'[s] = << >>
          \/ stream'[s] = stream[s] /\ seq'[s] = seq[s] /\ (failed[s] => failed'[s])
    <3>1. CASE RefreshGenl
      BY <3>1 DEF RefreshGenl, sockets
    <3>2. ASSUME NEW socks, Close(socks), NEW s \in Socket
          PROVE  \/ stream'[s] = << >>
                 \/ stream'[s] = stream[s] /\ seq'[s] = seq[s] /\ (failed[s] => failed'[s])
      BY <3>2 DEF Close
    <3>3. QED
      BY <1>4, <3>1, <3>2 DEF RefreshNetlink, DestroyTransport
  <2>3. NoneNewer'
    BY <2>2 DEF SessionInv, NoneNewer
  <2>4. InSync'
    BY <1>2, <2>2 DEF SessionInv, InSync
  <2>5. Grown' /\ InFlight' /\ Progress'
    BY <1>2, <2>1 DEF Grown, InFlight, Progress
  <2>6. PopulateExact' /\ InvokeExact'
    BY <1>2, <2>1 DEF SessionInv, PopulateExact, InvokeExact, Lists, KeptUpTo, Kept
  <2>7. QED
    BY <1>1, <2>3, <2>4, <2>5, <2>6 DEF SessionInv
<1>5. QED
  BY <1>3, <1>4

\* recv leaves what is pending, and everything else, as it is.
LEMMA RecvInv ==
  ASSUME SessionInv, Recv
  PROVE  SessionInv'
<1>1. TypeOK /\ TypeOK'
  BY LoopType DEF LoopStep, SessionInv
<1>2. Pending' = Pending
  BY <1>1, PendingRecv
<1>3. UNCHANGED <<fd, seq, call, asked, out, result, populated, families, failed>> /\ ~Idle /\ ~Idle'
  BY DEF Recv, tree, Idle
<1> DEFINE q == stream[asked.socket]
<1>4. q \in Seq(Message) /\ asked.socket \in Socket
  BY <1>1 DEF TypeOK
<1>5. PICK n \in 1..Len(q) : stream' = [stream EXCEPT ![asked.socket] = SubSeq(q, n + 1, Len(q))]
  BY DEF Recv
<1>6. \A s \in Socket \ {asked.socket} : stream'[s] = stream[s]
  BY <1>1, <1>5 DEF TypeOK
<1>7. NoneNewer'
  <2>1. ASSUME NEW s \in Socket, NEW i \in 1..Len(stream'[s]) PROVE stream'[s][i].seq <= seq[s]
    <3>1. CASE s # asked.socket
      BY <2>1, <3>1, <1>6 DEF SessionInv, NoneNewer
    <3>2. CASE s = asked.socket
      <4>1. stream'[s] = SubSeq(q, n + 1, Len(q))
        BY <1>1, <1>4, <1>5, <3>2 DEF TypeOK
      <4>2. n + i \in 1..Len(q) /\ stream'[s][i] = q[n + i]
        BY <1>4, <2>1, <4>1
      <4>3. QED
        BY <3>2, <4>2 DEF SessionInv, NoneNewer
    <3>3. QED
      BY <3>1, <3>2
  <2>2. QED
    BY <1>3, <2>1 DEF NoneNewer
<1>8. InFlight'
  BY <1>2, <1>3 DEF SessionInv, InFlight, Answers
<1>9. InSync'
  BY <1>2, <1>3, <1>6 DEF SessionInv, InSync
<1>10. Progress' /\ Grown'
  BY <1>2, <1>3 DEF SessionInv, Progress, Grown, Lists, KeptUpTo, Kept
<1>11. PopulateExact' /\ InvokeExact'
  BY <1>3 DEF PopulateExact, InvokeExact
<1>12. QED
  BY <1>1, <1>7, <1>8, <1>9, <1>10, <1>11 DEF SessionInv

\* What the next message is, while the rest of the answer is all that is pending;
\* a terminator is its last message, and leaves the socket empty.
LEMMA NextIsOwn ==
  ASSUME SessionInv, ~Idle, datagram # << >>
  PROVE  LET a == asked.answer
             t == Taken(Pending, a)
         IN  /\ t \in Nat
             /\ Own => Len(Pending) <= Len(a)
             /\ Len(Pending) <= Len(a) =>
                  /\ t + 1 \in 1..Len(a)
                  /\ NextMessage = [seq |-> asked.seq, kind |-> a[t + 1]]
                  /\ Taken(Tail(Pending), a) = t + 1
                  /\ \/ call = "populate" /\ NextMessage.kind \in {"done", "error", "ack"}
                     \/ call = "dump" /\ NextMessage.kind \in {"done", "error"}
                     \/ call = "do" /\ NextMessage.kind # "ack"
                     => t + 1 = Len(a) /\ stream[asked.socket] = << >>
             /\ Len(Pending) > Len(a) => t = 0 /\ Taken(Tail(Pending), a) = 0
<1> DEFINE a == asked.answer
           t == Taken(Pending, a)
<1>1. /\ Pending \in Seq(Message) /\ Pending # << >> /\ Head(Pending) = NextMessage
      /\ Len(Pending) \in Nat
  BY PendingTail DEF SessionInv
<1>2. call \in {"populate", "dump", "do"} /\ a \in Answers(call) /\ a \in Seq(Kind) /\ Len(a) \in Nat
      /\ asked.seq \in Nat
  BY InFlightAnswer
<1>3. Aligned(Pending, asked.seq, a)
  BY DEF SessionInv, InFlight
<1>4. t \in Nat
  BY <1>1, <1>2 DEF Taken
<1>5. /\ Own => Len(Pending) <= Len(a)
      /\ Len(Pending) <= Len(a) =>
           /\ t + 1 \in 1..Len(a)
           /\ NextMessage = [seq |-> asked.seq, kind |-> a[t + 1]]
           /\ Taken(Tail(Pending), a) = t + 1
      /\ Len(Pending) > Len(a) => t = 0 /\ Taken(Tail(Pending), a) = 0
  BY <1>1, <1>2, <1>3, AlignedOwn DEF Own
<1>6. ASSUME Len(Pending) <= Len(a),
             \/ call = "populate" /\ NextMessage.kind \in {"done", "error", "ack"}
             \/ call = "dump" /\ NextMessage.kind \in {"done", "error"}
             \/ call = "do" /\ NextMessage.kind # "ack"
      PROVE  t + 1 = Len(a) /\ stream[asked.socket] = << >>
  <2>1. t + 1 \in 1..Len(a) /\ NextMessage.kind = a[t + 1]
    BY <1>5, <1>6
  <2>2. t + 1 = Len(a)
    <3>1. /\ call = "populate" => (a[t + 1] \in {"done", "error", "ack"} <=> t + 1 = Len(a))
          /\ call = "dump" => (a[t + 1] \in {"done", "error"} <=> t + 1 = Len(a))
          /\ call = "do" => (t + 1 < Len(a) => a[t + 1] = "ack")
      BY <1>2, <2>1, AnswersType
    <3>2. QED
      BY <1>2, <1>4, <1>6, <2>1, <3>1
  <2>3. Len(Pending) = 1
    <3>1. Len(Pending) \in Nat \ {0}
      BY <1>1, EmptySeq
    <3>2. t = Len(a) - Len(Pending)
      BY <1>1, <1>2, <1>6 DEF Taken
    <3>3. \A x, y, z \in Nat : x = y - z /\ x + 1 = y => z = 1
      OBVIOUS
    <3> HIDE DEF t, a
    <3>4. QED
      BY <1>2, <1>4, <2>2, <3>1, <3>2, <3>3
  <2>4. datagram \in Seq(Message) /\ stream[asked.socket] \in Seq(Message)
    BY InFlightAnswer DEF SessionInv, TypeOK
  <2>5. Len(Pending) = Len(datagram) + Len(stream[asked.socket]) /\ Len(datagram) \in Nat \ {0}
    BY <2>4, EmptySeq DEF Pending
  <2>6. Len(stream[asked.socket]) = 0
    <3>1. Len(stream[asked.socket]) \in Nat
      BY <2>4
    <3>2. \A x, y \in Nat : x # 0 /\ x + y = 1 => y = 0
      OBVIOUS
    <3>3. QED
      BY <2>3, <2>5, <3>1, <3>2
  <2>7. QED
    BY <2>2, <2>4, <2>6
<1>7. QED
  BY <1>4, <1>5, <1>6

\* A loop that goes on after a message: what was to be kept of it, was.
LEMMA GoOnInv ==
  ASSUME SessionInv, TypeOK', ~Idle, datagram # << >>, datagram' = Tail(datagram),
         UNCHANGED <<seq, stream, call, asked, populated, failed>>, Progress', Grown'
  PROVE  SessionInv'
<1>1. /\ Pending' = Tail(Pending) /\ Pending \in Seq(Message) /\ Pending # << >>
      /\ Len(Pending) \in Nat \ {0} /\ Len(Tail(Pending)) = Len(Pending) - 1
  BY PendingTail, EmptySeq DEF SessionInv
<1>2. ~Idle'
  BY DEF Idle
<1>3. NoneNewer'
  BY DEF SessionInv, NoneNewer
<1>4. InFlight'
  <2>1. Aligned(Tail(Pending), asked.seq, asked.answer)
    BY <1>1, InFlightAnswer, AlignedTail DEF SessionInv, InFlight
  <2>2. Aligned(Pending', asked'.seq, asked'.answer)
    BY <1>1, <2>1
  <2>3. QED
    BY <1>2, <2>2 DEF SessionInv, InFlight, Answers, Aligned, Idle
<1>5. InSync'
  <2>1. Len(asked.answer) \in Nat
    BY InFlightAnswer
  <2>2. \A s \in Socket : ~failed[s] =>
          IF s # asked.socket THEN stream[s] = << >> ELSE Len(Pending) <= Len(asked.answer)
    BY DEF SessionInv, InSync
  <2>3. \A s \in Socket : ~failed[s] =>
          IF s # asked.socket THEN stream[s] = << >> ELSE Len(Pending') <= Len(asked.answer)
    BY <1>1, <2>1, <2>2
  <2>4. QED
    BY <1>2, <2>3 DEF InSync
<1>6. PopulateExact' /\ InvokeExact'
  BY <1>2 DEF PopulateExact, InvokeExact
<1>7. QED
  BY <1>3, <1>4, <1>5, <1>6 DEF SessionInv

\* Skipping takes a message that is not to be kept.
LEMMA SkipInv ==
  ASSUME SessionInv, SkipStray \/ SkipOther \/ SkipAck
  PROVE  SessionInv'
<1>1. /\ ~Idle /\ datagram # << >> /\ datagram' = Tail(datagram)
      /\ UNCHANGED <<seq, stream, call, asked, out, populated, families, failed>>
  BY DEF SkipStray, SkipOther, SkipAck, Reading, Skip, Idle, sockets, tree
<1>2. TypeOK /\ TypeOK'
  BY LoopType DEF LoopStep, SessionInv
<1>3. Pending' = Tail(Pending)
  BY <1>1, <1>2, PendingTail
<1>4. Progress'
  <2>1. SUFFICES ASSUME call = "populate" \/ asked.clean
                 PROVE  Lists(Taken(Pending, asked.answer))'
    BY <1>1 DEF Progress
  <2>2. PICK t \in Nat : t = Taken(Pending, asked.answer)
    BY <1>1, NextIsOwn
  <2>3. Lists(t)
    BY <1>1, <2>1, <2>2 DEF SessionInv, Progress
  <2>4. Taken(Pending, asked.answer)' = Taken(Tail(Pending), asked.answer)
    BY <1>1, <1>3 DEF Taken
  <2>5. CASE Len(Pending) <= Len(asked.answer)
    <3>1. NextMessage = [seq |-> asked.seq, kind |-> asked.answer[t + 1]]
          /\ Taken(Tail(Pending), asked.answer) = t + 1
      BY <1>1, <2>2, <2>5, NextIsOwn
    <3>2. Own
      BY <3>1 DEF Own
    <3>3. asked.call = call
      BY <1>1 DEF SessionInv, InFlight
    <3>4. NextMessage.kind \notin Kept
      BY <3>2, <3>3 DEF SkipStray, SkipOther, SkipAck, Reading, Kept
    <3>5. asked.answer[t + 1] \notin Kept
      BY <3>1, <3>4
    <3>6. Lists(t + 1)'
      BY <1>1, <1>2, <2>3, <3>5, ListsSkip
    <3>7. Taken(Pending, asked.answer)' = t + 1
      BY <2>4, <3>1
    <3>8. QED
      BY <3>6, <3>7
  <2>6. CASE ~ (Len(Pending) <= Len(asked.answer))
    <3>1. Len(Pending) > Len(asked.answer)
      <4>1. Len(Pending) \in Nat /\ Len(asked.answer) \in Nat
        BY <1>1, InFlightAnswer
      <4>2. QED
        BY <2>6, <4>1
    <3>2. t = 0 /\ Taken(Pending, asked.answer)' = 0
      BY <1>1, <2>2, <2>4, <3>1, NextIsOwn
    <3>3. Lists(0)'
      BY <1>1, <2>3, <3>2 DEF Lists, KeptUpTo, Kept
    <3>4. QED
      BY <3>2, <3>3
  <2>7. QED
    BY <2>5, <2>6
<1>5. Grown'
  BY <1>1 DEF SessionInv, Grown, Idle
<1>6. QED
  BY <1>1, <1>2, <1>4, <1>5, GoOnInv

\* A message that is kept makes the listing one longer, while it is of the answer.
LEMMA KeptProgress ==
  ASSUME SessionInv, ~Idle, datagram # << >>, Len(Pending) <= Len(asked.answer),
         call = "populate" \/ asked.clean, NextMessage.kind \in Kept,
         out' = Append(out, NextMessage), UNCHANGED asked
  PROVE  \A t \in Nat : t = Taken(Pending, asked.answer) => Lists(t + 1)'
<1>1. SUFFICES ASSUME NEW t \in Nat, t = Taken(Pending, asked.answer)
               PROVE  Lists(t + 1)'
  OBVIOUS
<1>2. Lists(t)
  BY <1>1 DEF SessionInv, Progress
<1>3. NextMessage = [seq |-> asked.seq, kind |-> asked.answer[t + 1]]
  BY <1>1, NextIsOwn
<1>4. asked.answer[t + 1] \in Kept
  BY <1>3
<1>5. QED
  BY <1>2, <1>3, <1>4, ListsAppend DEF SessionInv

\* get_children appends a family, and a dump goes on after a reply.
LEMMA AppendInv ==
  ASSUME SessionInv, AppendFamily \/ (Render /\ call # "do")
  PROVE  SessionInv'
<1>1. /\ ~Idle /\ datagram # << >> /\ datagram' = Tail(datagram)
      /\ out' = Append(out, NextMessage)
      /\ UNCHANGED <<seq, stream, call, asked, populated, failed>>
  BY DEF AppendFamily, Render, Reading, Idle, sockets, tree
<1>2. TypeOK /\ TypeOK'
  BY LoopType DEF LoopStep, SessionInv
<1>3. Pending' = Tail(Pending)
  BY <1>1, <1>2, PendingTail
<1>4. asked.call = call /\ asked.clean = ~failed[asked.socket] /\ asked.socket \in Socket
      /\ call \in {"populate", "dump"}
  BY <1>1, InFlightAnswer DEF SessionInv, InFlight, AppendFamily, Render, Reading
<1>5. NextMessage.kind \in Kept
  BY <1>4 DEF AppendFamily, Render, Reading, Kept
<1>6. Progress'
  <2>1. SUFFICES ASSUME call = "populate" \/ asked.clean
                 PROVE  Lists(Taken(Pending, asked.answer))'
    BY <1>1 DEF Progress
  <2>2. PICK t \in Nat : t = Taken(Pending, asked.answer)
    BY <1>1, NextIsOwn
  <2>3. Len(Pending) <= Len(asked.answer)
    <3>1. CASE AppendFamily
      BY <1>1, <3>1, NextIsOwn DEF AppendFamily
    <3>2. CASE Render /\ call # "do"
      <4>1. asked.clean
        BY <2>1, <3>2 DEF Render, Reading
      <4>2. QED
        BY <1>1, <1>4, <4>1 DEF SessionInv, InSync
    <3>3. QED
      BY <3>1, <3>2
  <2>4. Lists(t + 1)'
    BY <1>1, <1>5, <2>1, <2>2, <2>3, KeptProgress
  <2>5. Taken(Tail(Pending), asked.answer) = t + 1
    BY <1>1, <2>2, <2>3, NextIsOwn
  <2>6. Taken(Pending, asked.answer)' = t + 1
    BY <1>1, <1>3, <2>5 DEF Taken
  <2>7. QED
    BY <2>4, <2>6
<1>7. Grown'
  <2>1. SUFFICES ASSUME asked.call = "populate" PROVE IsSuffix(out', families')
    BY <1>1 DEF Grown
  <2>2. AppendFamily
    BY <1>4, <2>1 DEF Render, Reading
  <2>3. families' = Append(families, NextMessage)
    BY <2>2 DEF AppendFamily
  <2>4. NextMessage \in Message /\ out \in Seq(Message) /\ families \in Seq(Message)
    BY <1>1, <1>2, PendingTail DEF TypeOK
  <2>5. IsSuffix(out, families)
    BY <1>1, <2>1 DEF SessionInv, Grown
  <2>6. QED
    BY <1>1, <2>3, <2>4, <2>5, SuffixAppend
<1>8. QED
  BY <1>1, <1>2, <1>6, <1>7, GoOnInv

\* A call that returns leaves what it did not read on its socket, and that socket
\* counts as half read unless nothing is left.
LEMMA ReturnInv ==
  ASSUME SessionInv, TypeOK', ~Idle, NEW r, Return(r), UNCHANGED <<seq, stream, asked>>,
         \A s \in Socket \ {asked.socket} : failed'[s] = failed[s],
         ~failed'[asked.socket] => stream[asked.socket] = << >>,
         Grown', PopulateExact', InvokeExact'
  PROVE  SessionInv'
<1>1. Idle' /\ datagram' = << >>
  BY DEF Return, Idle
<1>2. NoneNewer'
  BY DEF SessionInv, NoneNewer
<1>3. InFlight' /\ Progress'
  BY <1>1 DEF InFlight, Progress
<1>4. \A s \in Socket \ {asked.socket} : ~failed[s] => stream[s] = << >>
  BY DEF SessionInv, InSync
<1>5. InSync'
  BY <1>1, <1>4 DEF InSync
<1>6. QED
  BY <1>2, <1>3, <1>5 DEF SessionInv

\* What Grown says holds of a listing that goes on or returns.
LEMMA GrownReturn ==
  ASSUME SessionInv, ~Idle, UNCHANGED <<asked, out, families>>
  PROVE  Grown'
BY DEF SessionInv, Grown

\* A failure returns in the middle of an answer; recv returning nothing is taken for
\* its end by get_children.
LEMMA FailureInv ==
  ASSUME SessionInv, Failure
  PROVE  SessionInv'
<1>1. TypeOK /\ TypeOK'
  BY LoopType DEF SessionInv
<1>2. ~Idle /\ UNCHANGED <<seq, stream, asked, out, families>>
  BY DEF Failure, RecvFails, RecvNothing, FamilyFails, Idle, Reading, sockets, tree
<1>3. call \in {"populate", "dump", "do"} /\ asked.socket \in Socket /\ asked.call = call
      /\ (call = "populate" => asked.socket = "genl")
  BY <1>2, InFlightAnswer DEF SessionInv, InFlight
<1>4. Grown'
  BY <1>2, GrownReturn
<1>5. failed' = [failed EXCEPT ![asked.socket] = TRUE]
  BY <1>3 DEF Failure, RecvFails, RecvNothing, FamilyFails, Reading
<1>6. /\ \A s \in Socket \ {asked.socket} : failed'[s] = failed[s]
      /\ failed'[asked.socket]
  BY <1>1, <1>3, <1>5 DEF TypeOK
<1>7. CASE RecvFails \/ FamilyFails
  <2>1. Return("error")
    BY <1>7 DEF RecvFails, FamilyFails
  <2>2. PopulateExact' /\ InvokeExact'
    BY <2>1 DEF Return, PopulateExact, InvokeExact
  <2>3. QED
    BY <1>1, <1>2, <1>4, <1>6, <2>1, <2>2, ReturnInv
<1>8. CASE RecvNothing
  <2>1. Return("short") /\ call = "populate"
    BY <1>8 DEF RecvNothing
  <2>2. InvokeExact'
    BY <2>1 DEF Return, InvokeExact
  <2>3. PopulateExact'
    <3>1. PICK t : t = Taken(Pending, asked.answer)
      OBVIOUS
    <3>2. t \in 0..Len(asked.answer)
      BY <1>2, <3>1, InFlightAnswer DEF Taken
    <3>3. Lists(t)
      BY <1>2, <2>1, <3>1 DEF SessionInv, Progress
    <3>4. Lists(t)'
      BY <1>2, <3>3 DEF Lists, KeptUpTo, Kept
    <3>5. result' = "short" /\ (populated' => IsSuffix(out', families'))
      BY <1>2, <1>3, <1>4, <2>1 DEF Return, Grown
    <3>6. QED
      BY <1>2, <3>2, <3>4, <3>5 DEF PopulateExact
  <2>4. QED
    BY <1>1, <1>2, <1>4, <1>6, <2>1, <2>2, <2>3, ReturnInv
<1>9. QED
  BY <1>7, <1>8 DEF Failure

\* A terminator ends the loop, and a first reply ends that of a plain request: with
\* the whole answer taken, if it was the call's own.
LEMMA EndInv ==
  ASSUME SessionInv,
         \/ PopulateError \/ PopulateDone \/ RenderErrno \/ RenderDone
         \/ Render /\ call = "do"
  PROVE  SessionInv'
<1>1. TypeOK /\ TypeOK'
  BY LoopType DEF LoopStep, SessionInv
<1>2. ~Idle /\ datagram # << >> /\ UNCHANGED <<seq, stream, asked, families>>
  BY DEF PopulateError, PopulateDone, RenderErrno, RenderDone, Render, Idle, Reading, sockets, tree
<1>3. call \in {"populate", "dump", "do"} /\ asked.socket \in Socket /\ asked.call = call
      /\ (call = "populate" => asked.socket = "genl") /\ asked.clean = ~failed[asked.socket]
  BY <1>2, InFlightAnswer DEF SessionInv, InFlight
<1>4. ~failed[asked.socket] => Len(Pending) <= Len(asked.answer)
  BY <1>2, <1>3 DEF SessionInv, InSync
<1>5. PICK t \in Nat : t = Taken(Pending, asked.answer)
  BY <1>2, NextIsOwn
<1>6. \/ call = "populate" /\ NextMessage.kind \in {"done", "error", "ack"}
      \/ call = "dump" /\ NextMessage.kind \in {"done", "error"}
      \/ call = "do" /\ NextMessage.kind # "ack"
  BY <1>3 DEF PopulateError, PopulateDone, RenderErrno, RenderDone, Render, Reading
<1>7. Len(Pending) <= Len(asked.answer) =>
        /\ t + 1 = Len(asked.answer)
        /\ NextMessage = [seq |-> asked.seq, kind |-> asked.answer[t + 1]]
        /\ stream[asked.socket] = << >>
  BY <1>2, <1>5, <1>6, NextIsOwn
<1>8. CASE PopulateError \/ RenderErrno
  <2>1. PICK r \in {"error", "text"} : Return(r)
    BY <1>8 DEF PopulateError, RenderErrno
  <2>2. UNCHANGED <<out, failed>>
    BY <1>8 DEF PopulateError, RenderErrno
  <2>3. PopulateExact' /\ InvokeExact'
    BY <2>1 DEF Return, PopulateExact, InvokeExact
  <2>4. Grown'
    BY <1>2, <2>2, GrownReturn
  <2>5. QED
    BY <1>1, <1>2, <1>4, <1>7, <2>1, <2>2, <2>3, <2>4, ReturnInv
<1>9. CASE PopulateDone
  <2>1. Return("ok") /\ UNCHANGED out /\ call = "populate" /\ Own /\ NextMessage.kind = "done"
        /\ failed' = [failed EXCEPT !["genl"] = FALSE]
    BY <1>9 DEF PopulateDone, Reading
  <2>2. Len(Pending) <= Len(asked.answer)
    BY <1>2, <2>1, NextIsOwn
  <2>3. \A s \in Socket \ {asked.socket} : failed'[s] = failed[s]
    BY <1>1, <1>3, <2>1 DEF TypeOK
  <2>4. Lists(t)
    BY <1>2, <1>5, <2>1 DEF SessionInv, Progress
  <2>5. asked.answer[t + 1] \notin Kept
    BY <1>3, <1>7, <2>1, <2>2 DEF Kept
  <2>6. Lists(t + 1)'
    BY <1>1, <1>2, <2>1, <2>4, <2>5, ListsSkip
  <2>7. Grown'
    BY <1>2, <2>1, GrownReturn
  <2>8. InvokeExact'
    BY <1>2, <1>3, <2>1 DEF InvokeExact
  <2>9. PopulateExact'
    <3>1. t + 1 \in 0..Len(asked.answer) /\ t + 1 = Len(asked'.answer)
      BY <1>2, <1>7, <2>2
    <3>2. populated' => IsSuffix(out', families')
      BY <1>2, <1>3, <2>1, <2>7 DEF Grown
    <3>3. QED
      BY <1>2, <2>6, <3>1, <3>2 DEF PopulateExact
  <2>10. QED
    BY <1>1, <1>2, <1>7, <2>1, <2>2, <2>3, <2>7, <2>8, <2>9, ReturnInv
<1>10. CASE RenderDone \/ (Render /\ call = "do")
  <2>1. Return("ok") /\ UNCHANGED failed /\ call \in {"dump", "do"}
    BY <1>10 DEF RenderDone, Render, Reading, Return
  <2>2. Grown' /\ PopulateExact'
    BY <1>2, <1>3, <2>1 DEF Grown, PopulateExact
  <2>3. InvokeExact'
    <3>1. SUFFICES ASSUME asked.clean PROVE Lists(Len(asked.answer))'
      BY <1>2 DEF InvokeExact
    <3>2. Len(Pending) <= Len(asked.answer) /\ t + 1 = Len(asked.answer)
      BY <1>3, <1>4, <1>7, <3>1
    <3>3. Lists(t + 1)'
      <4>1. CASE RenderDone
        <5>1. Lists(t)
          BY <1>2, <1>5, <3>1 DEF SessionInv, Progress
        <5>2. UNCHANGED <<asked, out>> /\ NextMessage.kind = "done"
          BY <4>1 DEF RenderDone
        <5>3. asked.answer[t + 1] \notin Kept
          BY <1>7, <3>2, <5>2 DEF Kept
        <5>4. QED
          BY <1>1, <5>1, <5>2, <5>3, ListsSkip
      <4>2. CASE Render /\ call = "do"
        <5>1. out' = Append(out, NextMessage) /\ NextMessage.kind \in Kept
          BY <1>3, <4>2 DEF Render, Kept
        <5>2. QED
          BY <1>2, <1>5, <3>1, <3>2, <5>1, KeptProgress
      <4>3. QED
        BY <1>10, <4>1, <4>2
    <3>4. Len(asked.answer)' = t + 1
      BY <1>2, <3>2
    <3>5. QED
      BY <3>3, <3>4
  <2>4. QED
    BY <1>1, <1>2, <1>4, <1>7, <2>1, <2>2, <2>3, ReturnInv
<1>11. QED
  BY <1>8, <1>9, <1>10

\* The invariant is inductive.
THEOREM SessionInductive == Spec => []SessionInv
<1>1. Init => SessionInv
  <2>1. SUFFICES ASSUME Init PROVE SessionInv
    OBVIOUS
  <2>2. TypeOK
    <3>1. Init => TypeOK
      BY InitType
    <3>2. QED
      BY <2>1, <3>1
  <2>3. Idle /\ asked.call = "none" /\ datagram = << >> /\ \A s \in Socket : stream[s] = << >>
    BY <2>1 DEF Init, Idle
  <2>4. NoneNewer
    BY <2>3 DEF NoneNewer
  <2>5. QED
    BY <2>2, <2>3, <2>4
       DEF SessionInv, InFlight, InSync, Progress, Grown, PopulateExact, InvokeExact
<1>2. SessionInv /\ [Next]_vars => SessionInv'
  <2>1. SUFFICES ASSUME SessionInv, [Next]_vars PROVE SessionInv'
    OBVIOUS
  <2>2. CASE UNCHANGED vars
    <3>1. UNCHANGED <<fd, seq, stream, datagram, call, asked, out, result, populated, families, failed>>
      BY <2>2 DEF vars, sockets, tree
    <3>2. TypeOK' /\ NoneNewer' /\ InSync'
      BY <2>1, <3>1 DEF SessionInv, TypeOK, NoneNewer, InSync, Idle, Pending
    <3>3. InFlight'
      BY <2>1, <3>1 DEF SessionInv, InFlight, Idle, Pending, Answers, Aligned
    <3>4. Progress' /\ Grown'
      <4>1. Pending' = Pending
        BY <3>1 DEF Pending
      <4>2. Progress'
        BY <2>1, <3>1, <4>1 DEF SessionInv, Progress, Idle, Lists, KeptUpTo, Kept
      <4>3. Grown'
        BY <2>1, <3>1 DEF SessionInv, Grown, Idle
      <4>4. QED
        BY <4>2, <4>3
    <3>5. PopulateExact' /\ InvokeExact'
      BY <2>1, <3>1 DEF SessionInv, PopulateExact, InvokeExact, Idle, Lists, KeptUpTo, Kept
    <3>6. QED
      BY <3>2, <3>3, <3>4, <3>5 DEF SessionInv
  <2>3. CASE Populate
    <3>1. PICK a \in PopulateAnswers : Send("populate", "genl", a)
      BY <2>3 DEF Populate
    <3>2. Idle /\ ~populated /\ a \in Answers("populate") /\ "genl" \in Socket
      BY <2>3 DEF Populate, Answers, Socket
    <3>3. QED
      BY <2>1, <3>1, <3>2, SendInv
  <2>4. CASE InvokeDump
    <3>1. PICK s \in Socket, a \in DumpAnswers : Send("dump", s, a)
      BY <2>4 DEF InvokeDump
    <3>2. Idle /\ a \in Answers("dump")
      BY <2>4 DEF InvokeDump, Answers
    <3>3. QED
      BY <2>1, <3>1, <3>2, SendInv
  <2>5. CASE InvokeDo
    <3>1. PICK a \in DoAnswers : Send("do", "genl", a)
      BY <2>5 DEF InvokeDo
    <3>2. Idle /\ a \in Answers("do") /\ "genl" \in Socket
      BY <2>5 DEF InvokeDo, Answers, Socket
    <3>3. QED
      BY <2>1, <3>1, <3>2, SendInv
  <2>6. CASE \/ InvokeRefused \/ OpenFails \/ SendFails
             \/ RefreshGenl \/ RefreshNetlink \/ DestroyTransport
    BY <2>1, <2>6, IdleInv
  <2>7. CASE LoopStep
    BY <2>1, <2>7, RecvInv, SkipInv, AppendInv, EndInv DEF LoopStep
  <2>8. CASE Failure
    BY <2>1, <2>8, FailureInv
  <2>9. QED
    BY <2>1, <2>2, <2>3, <2>4, <2>5, <2>6, <2>7, <2>8 DEF Next, ClientCall
<1>3. QED
  BY <1>1, <1>2, PTL DEF Spec

\* As long as no call has left a socket half read, every call on it, however it
\* ends, leaves nothing behind for the next; and a get_children of /netlink/genl
\* that succeeds empties the genl socket of whatever an earlier one left.
THEOREM NothingLeftBehind == Spec => []SyncUntilFailure
<1>1. SessionInv => SyncUntilFailure
  BY DEF SessionInv, InSync, SyncUntilFailure
<1>2. QED
  BY <1>1, SessionInductive, PTL

\* A get_children of /netlink/genl that succeeds has made its families from its own
\* request's answer, in order and from all of it unless recv returned nothing,
\* whatever was queued before it: its loop looks at sequence numbers.
THEOREM ListingIsOwn == Spec => []PopulateExact
<1>1. SessionInv => PopulateExact
  BY DEF SessionInv
<1>2. QED
  BY <1>1, SessionInductive, PTL

\* On a socket that no call has left half read an invoke renders exactly what
\* answers it, although its loop looks at no sequence number.
THEOREM ReplyIsOwn == Spec => []InvokeExact
<1>1. SessionInv => InvokeExact
  BY DEF SessionInv
<1>2. QED
  BY <1>1, SessionInductive, PTL
=============================================================================
