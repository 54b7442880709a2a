---------------------------- MODULE FsTransport ----------------------------
(***************************************************************************)
(* One directory of the /sys or /proc transport (ysys.c, yproc.c): listing *)
(* it into child nodes, and invoking a leaf of the listing.                *)
(*                                                                         *)
(* The directory is the kernel's: entries appear, vanish and change kind   *)
(* between the readdir that names one, the lstat and the stat that look at *)
(* it, and the open that reads it.  readdir, lstat, stat and readlink can  *)
(* fail on what is there, and a read may wait for data that never comes.   *)
(* Names are numbers, so that < is strcmp and every name is strdup'ed and  *)
(* freed once or not at all.                                               *)
(***************************************************************************)
EXTENDS Integers, Sequences, FiniteSets, SequencesExt

CONSTANTS Names,        \* entry names
          TooLong,      \* those whose path does not fit PATH_MAX
          Disks,        \* what the directory may hold at first
          Contents,     \* what a regular file may hold, sequences of bytes
          Cap,          \* bytes file_invoke reads at most: 65535 in the code
          MaxChanges,   \* bound on the changes made by the kernel
          MaxAttempts,  \* bound on the calls of populate_from_dir
          MayFail       \* whether allocations and system calls can fail

Byte == {"text", "newline", "nul"}

\* What a name leads to.  A "file" is one that is read without waiting, a
\* "stream" may block: a FIFO, a character device, /proc/kmsg.  A link to "none"
\* dangles.
Target == {"none", "dir", "file", "stream", "socket"}
Readable == {"file", "stream"}
Entry == [link : BOOLEAN, target : Target]
Absent == [link |-> FALSE, target |-> "none"]

ASSUME EntryAssumption ==
  /\ Names \subseteq Nat /\ IsFiniteSet(Names) /\ TooLong \subseteq Names
  /\ Disks \subseteq [Names -> Entry] /\ Contents \subseteq Seq(Byte)

ASSUME BoundAssumption ==
  /\ Cap \in Nat \ {0} /\ MaxChanges \in Nat /\ MaxAttempts \in Nat
  /\ MayFail \in BOOLEAN

VARIABLES disk,      \* the entry behind each name
          content,   \* bytes of the file being read
          changes,   \* changes made so far
          doubtful,  \* history: names that changed since the last opendir, or
                     \* that a failing readdir, lstat or stat did not show
          steady,    \* history: content unchanged since the last open
          pc,        \* where the call in progress is; "idle" when none is
          unread,    \* names of the open directory readdir still owes
          names,     \* names[]: read so far, sorted once all are
          freed,     \* freed[n]: how often the copy of n was freed
          i,         \* the loop's index into names
          isLink,    \* is_link
          descriptor,\* a DIR or a file is open
          children,  \* the node's children
          first,     \* how many of them an earlier, failed attempt left
          attempts,  \* calls of populate_from_dir
          populated, \* children_populated
          leaf,      \* the child being invoked
          buf,       \* bytes read from it
          blocks,    \* what is open may keep a read waiting
          text       \* what the last invoke returned

kernel == <<disk, content, changes, doubtful, steady>>
listing == <<unread, names, freed, i, isLink, children, first, attempts, populated>>
reading == <<leaf, buf, blocks, text>>
vars == <<kernel, pc, descriptor, listing, reading>>

Child == [name : Names, node : {"dir", "file"}, link : BOOLEAN]
Answer(what) == [what |-> what, bytes |-> << >>, read |-> 0]
NoText == Answer("none")
NoLeaf == [name |-> 0, node |-> "dir", link |-> FALSE]

Present == {n \in Names : disk[n] # Absent}

Init == /\ disk \in Disks /\ content = << >>
        /\ changes = 0 /\ doubtful = {} /\ steady = TRUE
        /\ pc = "idle" /\ descriptor = FALSE
        /\ unread = {} /\ names = << >> /\ freed = [n \in Names |-> 0]
        /\ i = 0 /\ isLink = FALSE
        /\ children = << >> /\ first = 0 /\ attempts = 0 /\ populated = FALSE
        /\ leaf = NoLeaf /\ buf = << >> /\ blocks = FALSE /\ text = NoText

-----------------------------------------------------------------------------
(* The kernel.                                                             *)

Change(n) ==
  /\ changes < MaxChanges
  /\ \E e \in Entry \ {disk[n]} : disk' = [disk EXCEPT ![n] = e]
  /\ changes' = changes + 1
  /\ doubtful' = doubtful \cup {n}
  /\ UNCHANGED <<content, steady, pc, descriptor, listing, reading>>

Rewrite ==
  /\ changes < MaxChanges /\ pc = "read"
  /\ \E c \in Contents \ {content} : content' = c
  /\ changes' = changes + 1
  /\ steady' = FALSE
  /\ UNCHANGED <<disk, doubtful, pc, descriptor, listing, reading>>

-----------------------------------------------------------------------------
(* populate_from_dir: the names first, then one child per name.            *)

StartListing ==
  /\ pc = "idle" /\ ~populated /\ attempts < MaxAttempts
  /\ attempts' = attempts + 1
  /\ first' = Len(children)

OpenDirFails ==
  /\ MayFail /\ StartListing
  /\ UNCHANGED <<kernel, pc, descriptor, unread, names, freed, i, isLink, children,
                 populated, reading>>

OpenDir ==
  /\ StartListing
  /\ pc' = "readdir" /\ descriptor' = TRUE
  /\ unread' = Present /\ doubtful' = {}
  /\ names' = << >> /\ freed' = [n \in Names |-> 0]
  /\ UNCHANGED <<disk, content, changes, steady, i, isLink, children, populated, reading>>

\* readdir returns every name that was there all along once; one that came or
\* went meanwhile it may return or not.
Returnable == (unread \cup Present) \ ToSet(names)

ReadName(n) ==
  /\ pc = "readdir" /\ n \in Returnable
  /\ names' = Append(names, n)
  /\ unread' = unread \ {n}
  /\ UNCHANGED <<kernel, pc, descriptor, freed, i, isLink, children, first, attempts,
                 populated, reading>>

\* free() of the copies of the names in N.
Freeing(N) == [n \in Names |-> freed[n] + (IF n \in N THEN 1 ELSE 0)]

\* realloc or strdup fails: everything read is freed and the directory closed.
NameFails ==
  /\ MayFail /\ pc = "readdir" /\ Returnable # {}
  /\ freed' = Freeing(ToSet(names))
  /\ pc' = "idle" /\ descriptor' = FALSE
  /\ UNCHANGED <<kernel, unread, names, i, isLink, children, first, attempts, populated,
                 reading>>

\* qsort: the same elements, in the order of dirent_cmp.
Reordered(s) == {[k \in DOMAIN s |-> s[p[k]]] : p \in Bijection(DOMAIN s, DOMAIN s)}
InOrder(s) == \A j, k \in DOMAIN s : j < k => s[j] <= s[k]

\* readdir returns NULL at the end and when it fails; nobody looks at errno, so
\* that what it still owed is missing without an error.
EndOfDir ==
  /\ pc = "readdir"
  /\ \/ unread \subseteq doubtful /\ UNCHANGED doubtful
     \/ MayFail /\ doubtful' = doubtful \cup unread
  /\ \E s \in Reordered(names) : InOrder(s) /\ names' = s
  /\ i' = 1
  /\ pc' = "lstat" /\ descriptor' = FALSE
  /\ UNCHANGED <<disk, content, changes, steady, unread, freed, isLink, children, first,
                 attempts, populated, reading>>

\* Mutant: stat, which follows the link, instead of lstat.
LstatFollows ==
  /\ pc = "lstat" /\ i <= Len(names) /\ names[i] \notin TooLong
  /\ isLink' = FALSE
  /\ pc' = "stat"
  /\ UNCHANGED <<kernel, descriptor, unread, names, freed, i, children, first, attempts,
                 populated, reading>>

\* An absent name, a plain entry and a failure all leave is_link 0.
Lstat ==
  /\ pc = "lstat" /\ i <= Len(names) /\ names[i] \notin TooLong
  /\ \/ isLink' = disk[names[i]].link /\ UNCHANGED doubtful
     \/ MayFail /\ isLink' = FALSE /\ doubtful' = doubtful \cup {names[i]}
  /\ pc' = "stat"
  /\ UNCHANGED <<disk, content, changes, steady, descriptor, unread, names, freed, i,
                 children, first, attempts, populated, reading>>

\* free(names[i]); continue
NextName ==
  /\ freed' = Freeing({names[i]})
  /\ i' = i + 1
  /\ pc' = "lstat"
  /\ UNCHANGED <<disk, content, changes, steady, descriptor, unread, names, isLink, first,
                 attempts, populated, reading>>

SkipLong ==
  /\ pc = "lstat" /\ i <= Len(names) /\ names[i] \in TooLong
  /\ NextName /\ UNCHANGED <<doubtful, children>>

\* spawn_dir, spawn_file; a directory node does not know of the link.
NodeOf(target) == IF target = "dir" THEN "dir" ELSE "file"
Spawn(node) ==
  children' = Append(children, [name |-> names[i], node |-> node,
                                link |-> IF node = "dir" THEN FALSE ELSE isLink])

\* stat fails: a leaf all the same, and no matter if it cannot be made.
SpawnUnreachable ==
  /\ pc = "stat"
  /\ \/ disk[names[i]].target = "none" /\ UNCHANGED doubtful
     \/ MayFail /\ doubtful' = doubtful \cup {names[i]}
  /\ Spawn("file") \/ (MayFail /\ UNCHANGED children)
  /\ NextName

\* Mutant: whatever stat finds is spawned, sockets too.
SpawnAnything ==
  /\ pc = "stat" /\ disk[names[i]].target # "none"
  /\ Spawn(disk[names[i]].target)
  /\ NextName /\ UNCHANGED doubtful

Found == disk[names[i]].target \in {"dir"} \cup Readable

SpawnReachable ==
  /\ pc = "stat" /\ Found
  /\ Spawn(NodeOf(disk[names[i]].target))
  /\ NextName /\ UNCHANGED doubtful

SkipSocket ==
  /\ pc = "stat" /\ disk[names[i]].target = "socket"
  /\ NextName /\ UNCHANGED <<doubtful, children>>

\* Mutant: the name in use is not freed.
SpawnFailsKeepsName ==
  /\ MayFail /\ pc = "stat" /\ Found
  /\ freed' = Freeing({names[j] : j \in i + 1 .. Len(names)})
  /\ pc' = "idle"
  /\ UNCHANGED <<kernel, descriptor, unread, names, i, isLink, children, first, attempts,
                 populated, reading>>

\* A reachable entry whose node cannot be made ends the call; the children
\* made so far stay.
SpawnFails ==
  /\ MayFail /\ pc = "stat" /\ Found
  /\ freed' = Freeing({names[j] : j \in i .. Len(names)})
  /\ pc' = "idle"
  /\ UNCHANGED <<kernel, descriptor, unread, names, i, isLink, children, first, attempts,
                 populated, reading>>

Listed ==
  /\ pc = "lstat" /\ i > Len(names)
  /\ pc' = "idle" /\ populated' = TRUE
  /\ UNCHANGED <<kernel, descriptor, unread, names, freed, i, isLink, children, first,
                 attempts, reading>>

-----------------------------------------------------------------------------
(* file_invoke.  What goes wrong with the file is the text of an ok.       *)

\* The text, or an error when text_format has no memory for it.
Show(t) == text' = t \/ (MayFail /\ text' = Answer("error"))

StartInvoke(c) ==
  /\ pc = "idle" /\ populated /\ c \in ToSet(children) /\ c.node = "file"
  /\ leaf' = c
  /\ UNCHANGED <<disk, changes, doubtful, listing>>

\* readlink fails on what is no link, and on a link it may not follow, as those of
\* another user's process.
ShowTarget(c) ==
  /\ StartInvoke(c) /\ c.link
  /\ \/ disk[c.name].link /\ Show(Answer("target"))
     \/ (MayFail \/ ~disk[c.name].link) /\ Show(Answer("failed"))
  /\ UNCHANGED <<content, steady, pc, descriptor, buf, blocks>>

Openable(c) == disk[c.name].target \in {"dir"} \cup Readable

OpenFails(c) ==
  /\ StartInvoke(c) /\ ~c.link
  /\ MayFail \/ ~Openable(c)
  /\ Show(Answer("failed"))
  /\ UNCHANGED <<content, steady, pc, descriptor, buf, blocks>>

\* malloc fails: the file is closed and the call an error.
NoBuffer(c) ==
  /\ MayFail /\ StartInvoke(c) /\ ~c.link /\ Openable(c)
  /\ text' = Answer("error")
  /\ UNCHANGED <<content, steady, pc, descriptor, buf, blocks>>

\* open takes a directory too, read will not.
Opened(c) ==
  /\ pc' = IF disk[c.name].target = "dir" THEN "eisdir" ELSE "read"
  /\ blocks' = (disk[c.name].target = "stream")
  /\ content' \in Contents
  /\ buf' = << >> /\ steady' = TRUE /\ descriptor' = TRUE
  /\ UNCHANGED text

\* Mutant: a link is opened like a file.
OpenFileThroughLink(c) == StartInvoke(c) /\ Openable(c) /\ Opened(c)

\* Waiting for the other end of a FIFO is taken as waiting for its data.
OpenFile(c) == StartInvoke(c) /\ ~c.link /\ Openable(c) /\ Opened(c)

Remaining == Len(content) - Len(buf)

\* read is asked for Cap - total bytes and returns some of them; a read that is
\* interrupted (EINTR) is made again and changes nothing.
Read ==
  /\ pc = "read" /\ Len(buf) < Cap
  /\ \E k \in 1 .. Remaining :
       /\ k <= Cap - Len(buf)
       /\ buf' = buf \o SubSeq(content, Len(buf) + 1, Len(buf) + k)
  /\ UNCHANGED <<kernel, pc, descriptor, listing, leaf, blocks, text>>

CloseFile ==
  /\ pc' = "idle" /\ descriptor' = FALSE /\ blocks' = FALSE
  /\ UNCHANGED <<kernel, listing, leaf, buf>>

\* Mutant: every errno is taken for EINTR.
ReadFailsRetries ==
  /\ MayFail /\ pc = "read" /\ Len(buf) < Cap
  /\ Show(Answer("failed"))
  /\ CloseFile

ReadFails ==
  /\ pc = "eisdir" \/ (MayFail /\ pc = "read" /\ Len(buf) < Cap)
  /\ Show(Answer("failed"))
  /\ CloseFile

\* One trailing newline goes.
Trimmed(s) == IF s # << >> /\ Last(s) = "newline" THEN Front(s) ELSE s

\* What %s prints of a buffer: it stops at the first NUL.
UpToNul(s) ==
  LET nuls == {k \in DOMAIN s : s[k] = "nul"}
  IN  IF nuls = {} THEN s
      ELSE SubSeq(s, 1, (CHOOSE k \in nuls : \A m \in nuls : k <= m) - 1)

\* The number of bytes is given with them.
TextOf(bytes) ==
  IF bytes = << >> THEN Answer("empty")
  ELSE [what |-> "bytes", bytes |-> UpToNul(bytes), read |-> Len(bytes)]

\* Mutant: one read is taken for the whole file.
ReadEndsEarly ==
  /\ pc = "read"
  /\ Show(TextOf(Trimmed(buf)))
  /\ CloseFile

ReadEnds ==
  /\ pc = "read" /\ (Len(buf) >= Cap \/ Remaining <= 0)
  /\ Show(TextOf(Trimmed(buf)))
  /\ CloseFile

-----------------------------------------------------------------------------
Populating == \/ \E n \in Names : ReadName(n)
              \/ NameFails \/ EndOfDir
              \/ Lstat \/ SkipLong
              \/ SpawnUnreachable \/ SpawnReachable \/ SkipSocket \/ SpawnFails
              \/ Listed

Reading == Read \/ ReadFails \/ ReadEnds

Next == \/ \E n \in Names : Change(n)
        \/ Rewrite
        \/ OpenDir \/ OpenDirFails
        \/ Populating
        \/ \E c \in ToSet(children) : ShowTarget(c) \/ OpenFails(c) \/ NoBuffer(c) \/ OpenFile(c)
        \/ Reading

\* A call that began goes on, unless what it reads makes it wait.
Spec == Init /\ [][Next]_vars
FairSpec == Spec /\ WF_vars(Populating \/ (~blocks /\ Reading))

-----------------------------------------------------------------------------
(* Properties.                                                             *)

\* Every variable keeps its type.
TypeOK ==
  /\ disk \in [Names -> Entry] /\ content \in Contents \cup {<< >>}
  /\ changes \in 0 .. MaxChanges /\ doubtful \subseteq Names /\ steady \in BOOLEAN
  /\ pc \in {"idle", "readdir", "lstat", "stat", "read", "eisdir"}
  /\ unread \subseteq Names /\ names \in Seq(Names)
  /\ freed \in [Names -> Nat] /\ i \in Nat /\ isLink \in BOOLEAN
  /\ descriptor \in BOOLEAN
  /\ children \in Seq(Child) /\ first \in Nat /\ attempts \in 0 .. MaxAttempts
  /\ populated \in BOOLEAN
  /\ leaf \in Child \cup {NoLeaf} /\ buf \in Seq(Byte) /\ blocks \in BOOLEAN
  /\ text.what \in {"none", "target", "failed", "error", "bytes", "empty"}
  /\ text.bytes \in Seq(Byte) /\ text.read \in Nat

\* Every copy of a name is freed once on every way out of populate_from_dir,
\* and never before the loop has used it; no way out leaves a descriptor open.
FreedOnce ==
  /\ \A n \in Names : freed[n] <= 1
  /\ pc = "idle" => (\A n \in ToSet(names) : freed[n] = 1) /\ ~descriptor
  /\ pc \in {"lstat", "stat"} => \A j \in i .. Len(names) : freed[names[j]] = 0

\* The children an attempt adds.
Added == SubSeq(children, first + 1, Len(children))

\* In strict alphabetical order whatever order readdir used, so each name once.
Ordered == \A j, k \in DOMAIN Added : j < k => Added[j].name < Added[k].name

AddedFor(n) == {c \in ToSet(Added) : c.name = n}

ListedAs(n) == [name |-> n, node |-> NodeOf(disk[n].target),
                link |-> IF disk[n].target = "dir" THEN FALSE ELSE disk[n].link]

LeftOut(n) == disk[n] = Absent \/ disk[n].target = "socket" \/ n \in TooLong

ListedRight(n) ==
  IF LeftOut(n) THEN AddedFor(n) = {}
  ELSE \/ AddedFor(n) = {ListedAs(n)}
       \/ AddedFor(n) = {} /\ disk[n].target = "none" /\ MayFail

\* A listing is in order, and each entry that stayed as it was while the
\* directory was walked is in it as what it is: a directory or link to one as a
\* directory, the rest that can be reached as a leaf with its link flag.  Sockets
\* and long paths are left out; a dangling link is lost only when its node cannot
\* be allocated.  Of an entry the kernel refused to show nothing is said: when
\* readdir fails, what it still owed is missing from a listing that counts as
\* complete, and when lstat or stat fails, a link may be taken for a file and a
\* directory for a leaf.
StableListed ==
  (pc = "idle" /\ populated) => Ordered /\ \A n \in Names \ doubtful : ListedRight(n)

\* However the reads split a file, its text is the beginning of what it holds, up
\* to the cap, short of one trailing newline and of all that is behind a NUL, with
\* the number of bytes read, and the terminator has room in the buffer; "(empty)"
\* stands for no byte read.  A leaf is never read through a link: as long as the
\* entry is the one that was listed, a link shows its target, or that it could not
\* be read, and nothing else shows a target.
FileShown ==
  /\ Len(buf) <= Cap
  /\ (text.what \in {"bytes", "empty"} /\ pc = "idle" /\ steady) =>
       /\ text = TextOf(Trimmed(SubSeq(content, 1, Len(buf))))
       /\ Len(buf) = Cap \/ Len(buf) = Len(content)

LinkShown ==
  (pc = "idle" /\ text.what # "none" /\ leaf \in ToSet(Added) /\ leaf.name \notin doubtful) =>
    IF leaf.link THEN text.what = "target" \/ (MayFail /\ text.what \in {"failed", "error"})
    ELSE text.what # "target"

TextIsContent == FileShown /\ LinkShown

\* A listing ends, however often the directory changes under it, and so does an
\* invoke, unless it reads what can make it wait.
CallsEnd == pc # "idle" ~> pc = "idle" \/ blocks

-----------------------------------------------------------------------------
(* The inductive invariant.                                                *)

InLoop == pc \in {"lstat", "stat"}

\* Names whose copies have been freed.
Gone == IF pc = "readdir" THEN {}
        ELSE IF InLoop THEN {names[j] : j \in 1 .. i - 1}
        ELSE ToSet(names)

\* A name is read once; its copy is freed when the loop has passed it.
CopiesOK ==
  /\ \A j, k \in DOMAIN names : names[j] = names[k] => j = k
  /\ \A n \in Names : freed[n] = IF n \in Gone THEN 1 ELSE 0
  /\ InLoop => i \in 1 .. Len(names) + 1 /\ InOrder(names)
  /\ pc = "stat" => i <= Len(names) /\ names[i] \notin TooLong

\* Which call may be where; nothing is read before the directory is listed,
\* and never through a link.
CallOK ==
  /\ descriptor <=> pc \in {"readdir", "read", "eisdir"}
  /\ pc = "readdir" \/ InLoop => ~populated
  /\ ~populated => text = NoText
  /\ pc \in {"read", "eisdir"} => ~leaf.link /\ populated
  /\ blocks => pc = "read"

\* What readdir returned of the entries that stayed is what is there.
ReadOK ==
  /\ pc = "readdir" =>
       \A n \in Names \ doubtful : n \in unread \cup ToSet(names) <=> disk[n] # Absent
  /\ InLoop => \A n \in Names \ doubtful : n \in ToSet(names) <=> disk[n] # Absent
  /\ pc = "stat" /\ names[i] \notin doubtful => isLink = disk[names[i]].link

\* What the loop has passed is listed, and nothing else.
AddedOK ==
  /\ first <= Len(children)
  /\ pc = "readdir" => first = Len(children)
  /\ InLoop => \A c \in ToSet(Added) : c.name \in Gone
  /\ InLoop \/ populated => Ordered
  /\ InLoop => \A n \in (Names \ doubtful) \cap Gone : ListedRight(n)
  /\ populated => \A n \in Names \ doubtful : ListedRight(n)

\* The buffer holds the beginning of the file.
BufferOK ==
  pc = "read" /\ steady => Len(buf) <= Len(content) /\ buf = SubSeq(content, 1, Len(buf))

FsInv == TypeOK /\ CopiesOK /\ CallOK /\ ReadOK /\ AddedOK /\ BufferOK /\ TextIsContent
=============================================================================
