# TLA+ models of ykern

ykern shows the Linux kernel's interfaces as one tree of objects. A node is a
transport, a netlink namespace, a family, an operation, an attribute, a
multicast group, or a directory or file of sysfs or procfs. Nodes are listed
lazily, and operations and files can be invoked. This directory holds TLA+
specifications of its parts, the TLC configurations that model-check them, and
proofs of the main safety properties for all values of the constants.

Paths below are relative to the repository.

## 1. The system

| Part | Source | State | Operations |
|---|---|---|---|
| Object tree | `src/ykern/ycore/object.c`, `root.c` | per object: parent, array of children with count and capacity, `children_populated`; the root's pending transports | `get_children`, `append_child`, `refresh`, `destroy`, `root_create`, `get_path`, `invoke` |
| Netlink sessions | `src/ykern/ynetlink/ynetlink.c`, receive loops of `genl-namespace.c`, `genl-operation.c`, `rtnl.c` | a genl and an rtnl socket, a sequence counter for each, what the kernel has queued | open on demand, draw a number, send, receive until an end, close |
| Request packing | `genl-operation.c` (`attr_buf`, `invoke_ethtool_get`, `invoke_generic_genl`) | a fixed buffer, its write offset, the offset of the open nested attribute | begin, put, end, refuse, send |
| Family metadata | `genl-overlay.c` | arrays of operations, multicast groups and attribute sets, the strings in them | read two YAML files into the same arrays, merge, look up, destroy |
| Family enumeration | `genl-namespace.c` (`process_family_msg`, `parse_*`), `genl-family.c` | arrays of operations and groups of the message being parsed, then of the family | parse, hand over, attach the metadata |
| Trace points | `include/ykern/ycore/trace.h`, `src/ykern/ycore/ytrace.c` | two static bools per call site, the table of points, a mutex | register on first execution, `init`, `shutdown`, `set_*_enabled` |
| sysfs and procfs | `src/ykern/ysys/ysys.c`, `src/ykern/yproc/yproc.c` | none between calls but the node's path and link flag | list a directory, show a link, read a file |
| Command line | `tools/ykern/main.c` | the options, the tree, the object reached | resolve a path, print, recurse, invoke, tear down |
| Nodes of a family | `genl-operation.c` (`op_populate_children`), `genl-attribute.c`, `genl-mcast-group.c` | copies of the texts each was made from | list the attributes an operation takes |
| Reply rendering | `genl-operation.c` (`render_attrs_recursive`, `render_scalar`), `rtnl.c` | a growing text | guess the schema and the type of each attribute, format it |
| Results, texts, path helper | `result.c`, `text.c`, `path.c` | none shared | chain errors, format |

How they interact:

- `get_children` of any object calls its `populate_children`, which creates
  objects and hands each to `append_child`; the base caches the array and hands
  out a pointer into it. From then on the parent owns the child: `refresh` and
  `destroy` free it with everything below.
- The netlink transport lists the namespaces genl and rtnl. `get_children` of
  genl sends a dump request on the socket of the transport and makes a family of
  each answer; on the way it loads the family's metadata. Invoking an operation
  climbs the parent chain to its family and transport and uses the *same*
  socket. rtnl has a socket of its own.
- The command line builds the tree, walks it along a path, and is done after one
  command. Everything but the trace points runs in one thread.
- Any function may contain trace points, and these may run in any thread.

What is hard, and where:

- *Ownership under failure.* Any allocation and any kernel call may fail half
  way through a listing, a move of the pending transports, a merge or a parse.
  Everything that exists must still have one owner. (ObjectTree, FamilyBuild,
  OverlayLoader, FsTransport)
- *State left on a socket.* A call that returns before the end of its answer
  leaves messages for the next call. (NetlinkSession)
- *Interleavings* of threads at a trace point, whose two bools no mutex covers.
  (Ytrace)
- *A changing file system* between readdir, lstat, stat, open and read.
  (FsTransport)
- *Layout arithmetic*: nested, padded attributes in a fixed buffer. (AttrRequest)
- *Names as keys*: the attribute set of an operation is derived from the name of
  the operation, in two places; the schema of a nested attribute from the name of
  the attribute, and the type of a scalar from its length. (AttrSets, FamilyBuild,
  Invoke)
- *Names that are not unique*, and listings that fail on the way. (CliSession)

## 2. The modules

Each specification module says in its head what it abstracts. `MC<Module>.tla`
gives the small sets of an instance, `<Module>*.cfg` the constants and
properties of a run, `<Name>Proofs.tla` the theorems and their proofs (section 5).
ObjectTree with its abstract specification (Forest, TreeRefinement), and
AttrSets, which FamilyBuild and Invoke extend, are the modules that others build
on; Invoke extends AttrRequest too. A definition whose comment starts with
"Mutant:" is a plausible mistake in the definition that follows it; no
specification uses it. Put in its place, it must break a property: that is how
the properties were tried out.

### ObjectTree: object.c, root.c

Objects are heap cells. `children`, `capacity`, `populated`, `parent` are the
fields of `struct ykern_ycore_object`, `pending` those of the root. A vtable is
abstracted to `Listing`, the children its populate makes one by one unless it
stops with an error. `call`, `target`, `made` and `stack` are the API call in
progress, which takes a step per child and per object destroyed, so that what a
failing allocation leaves is a state of the model. `cursor` is the loop index of
`drop_children`: entries up to it are dead, and still in the array.

| Action | Code |
|---|---|
| CreateTransport, RootCreate, ReleaseTransport | the constructors, `root_create`, and main giving up |
| GetChildren, PopulateNext, PopulateError, PopulateDone | `get_children` and any `populate_children` with its `append_child` |
| RootPopulateNext, RootPopulateError, Surrender, SurrenderDone, RootPopulateDone | `root_populate_children`; on a failure it destroys what it did not move |
| Refresh, RefreshDone, DestroyRoot | `refresh`, `destroy` |
| DropNext, DestroyPending, Free | `drop_children`, `root_destroy_impl`, `free` |

Properties: no pointer still to be followed leads to a freed cell
(NoDanglingPointer); one owner (SingleOwner) and at least one (NoLeak); a list
handed out stays as it is until refresh or destroy (ViewStable); a populated
object lists all it should (CompleteListing). OwnershipInv and, on top of it,
ListingInv are the inductive invariants of the proofs.

#### Forest, TreeRefinement: what the tree promises

Forest is the tree as its client sees it: every call happens at once, a listing
that fails leaves a beginning of its children, what is destroyed is gone with
everything below it. A listing of the root that fails loses the transports it did
not get to, and a refreshed root has none to list: Forest says so, because the
code does so. TreeRefinement maps ObjectTree to it. What the call in progress has
made or is about to destroy is hidden, with everything below it; so a populate
happens at its last step and a destruction at its first. ImplementsForest is
checked in every state of the ObjectTree run, and proved. `Apart`, what is left when a
set of objects goes with everything below it, is said without recursion, by the sets
that nothing outside of them has a child in, so that it can be proved about.

CallShrinks is why calls end: every step inside a call makes `Work` smaller, a
number that counts the children to be made, the entries of the arrays, and the
objects on the destroy path. That it does, and is a natural number, is proved for
every tree. As deadlock is checked in the same run and the other
steps start a call, populate, refresh and destroy return under weak fairness of
the steps inside a call.

### NetlinkSession: ynetlink.c and four receive loops

`stream[s]` is what the kernel has queued on a socket, `datagram` the unread
rest of the buffer of the call in progress. Messages are their sequence number
and what the loops tell apart: data, a control message of another kind, done,
error, ack. `Populate` filters by number as `genl-namespace.c:417` does, the
`invoke` loops do not. The kernel answers when the request is sent and batches
its answer as it likes, one answer per datagram (`Recv`). Every early return is
an action of its own. `RefreshGenl`, `RefreshNetlink` and `DestroyTransport` close
what the code closes. `failed` and `asked.clean` are history, for the properties.

Properties: calls leave an empty socket unless one
failed half way, and a successful listing empties it again (SyncUntilFailure);
a listing is made of its own answer, all of it, whatever was there before
(PopulateExact); an invoke on a socket in sync renders its own answer, all of it
(InvokeExact); listings and dumps return (DumpsReturn). The two Exact properties
say by positions (`Lists`) that what was kept is the answer's messages of the kinds
the loop keeps, in order: `out` is related to the answer, not to what the loop did.
That an answer ends where the loops stop, and not before, is AnswerAssumption: the
terminator of a dump, the ack of a family dump, one message for a plain request.

### Ytrace: trace.h, ytrace.c

The macro and `ytrace_register` are cut where the mutex is taken or given up and
where a bool outside it is read or written: `Trace`, `Enter`, `Release`,
`Initialize` (the call of `ytrace_init` outside the mutex), `Reenter`,
`AppendPoint`, `ReadBack`, `Assign`, `Mark`. A `set_*` call takes a step per entry
of the table. `want` is history: what the last write under the mutex said. The
four `set_*` functions differ in the points they name, `Selections`. Reading and
writing the two bools of a call site without the mutex is a data race in C; the
model takes each access as atomic, in any order the threads can produce.

Properties: an entry is made only after the environment was read
(EntriesAfterInit); a `set_*` call has reached every point listed (SetReachesAll);
a registered point is listed, or the table was full (RegisteredListed); no thread
waits for ever (CallsReturn). TableInv is the inductive invariant of the proofs.

### OverlayLoader: genl-overlay.c

A file is the sequence of entries libyaml delivers, an operation, a multicast
group, an attribute set or an attribute, with a key, a name and a description;
"bad" is anything the readers refuse. Each string copied is a token, so that the
model sees who frees it and how often. `alloc` is what an array was really given,
`cap` what the loader believes; the array of attributes of a set has its own of both,
which start from nothing with each set (`OpenAttrs`, the set opened last, is the only
one that still grows). The merge goes row by row (`Keep`, `Fold`,
`Drop`) as the code moves them up in place. The loader of the second file takes the
count of operations and of groups for their capacity, so these arrays grow early,
never late. Its capacity for attribute sets is 0, which is right only because
curated files have none ("contain only descriptions", `docs/metadata-schema.md:31`);
the curated files of the run have none either.

Properties: no array, those of the sets included, is written past what was allocated
(WithinAllocation); whatever the order of the curated entries, each
command ends up with its own name and description (DescribedByName); a loaded
overlay owns each string once and has freed the others, none is freed twice, and
destroying frees them all (StringsOwned).

What the files are assumed to be is what `docs/metadata-schema.md` says of them: a
generated file names each operation, once, and describes none
(GeneratedAssumption); a curated one has no attribute sets (CuratedAssumption).
Attributes are read inside a set (FileAssumption): the reader keeps the set it is
in, and there is no other way to it. OverlayInv and Described are the inductive
invariants of the proofs.

### FsTransport: ysys.c, yproc.c

One directory. The kernel changes an entry or the file (`Change`, `Rewrite`)
between any two system calls. readdir may or may not return a name that comes or
goes meanwhile. Names are copied, sorted, then each is looked at by lstat and
stat and becomes a node. Invoking a leaf shows the target of a link or reads a
file in pieces of any size.

The calls fail as the code lets them. A readdir that fails is the end of the
directory, and what it still owed is missing from a listing that counts as complete
(`EndOfDir`); a failing lstat makes a link a file, a failing stat a directory a leaf.
`doubtful` is history: the entries that changed, and those the kernel refused to
show. readlink fails on a link that is there (`ShowTarget`), open, malloc, read and the
formatting of the text too. Some errors are the text of an ok, others an error; `text`
keeps them apart. Content has NULs, and what is shown of it is what `%s` shows
(`UpToNul`). A file may be a "stream": a FIFO, a character device or a file like
/proc/kmsg, whose read may never return; `blocks` says that one is open.

Properties: each name is freed once on every way out (FreedOnce); a listing is
sorted and without duplicates, and an entry that is not doubtful is in it as what
it is (StableListed); the text of a file is a prefix of its content up to the cap and
to the first NUL, with the number of bytes read, and links are not read through
(TextIsContent); calls end, but those that wait for a stream (CallsEnd). FsInv is the
inductive invariant of the proofs.

### CliSession: main.c

One run: the mode and path are chosen in Init; the transports and root are made;
`Descend` is one turn of `resolve_path`; then an invoke, or a listing, or
`recurse_subtree` (`Visit`, with `agenda` for its recursion), and the teardown.
Each `get_children` may fail and leave part of a list, which a second one repeats.
So may each `get_name`: `find_child` then takes the child for one of another name.
`Descend` passes over any of the elder namesakes that way, `NoMatch` over all of the
name; `nameless` is history, the nodes passed over.

Properties: the path printed for an object leads back to it, and what a path
finds is what was asked for; `nameless` is what it may miss or be led past
(RoundTrip); nothing off the path is listed
(LazyListing); listings are exact, and the recursion prints in depth-first order
(ListingExact); nothing is left at the exit, with one exception the code has
(TornDown). CliInv is the inductive invariant of the proofs. TreeAssumption says
what a tree of objects is: no node is listed twice, the root by nobody, and each can
be reached from the root. It says nothing about names.

### AttrRequest: the packing half of genl-operation.c

`at` maps offsets to the attribute headers written there. `Walk` is the kernel's
own walk over the message (`NLA_OK`, `NLA_NEXT`), the reference the packing is
checked against: KernelReads says that what is unpacked is what the user gave.
WithinRequest says that nothing is written past the end or over another
attribute. PackInv is the inductive invariant behind WithinRequest, ReadInv (which
adds ReadingOK, that the headers lie one behind the other and say the arguments
packed so far) the one behind KernelReads. The module has no run of its own: Invoke
extends it and runs it with the attribute sets found as the code finds them.

### AttrSets: look-ups in the metadata

The functions of genl-overlay.c that search an overlay, and the two searches of
genl-operation.c for the attribute set of an operation: `OpAttrSet`, for what is
listed, and `InvokeSet`, for what is sent. A name is the sequence of its words, so
that prefixes and suffixes are those of sequences.

### FamilyBuild: genl-namespace.c, genl-family.c and the nodes

One family message from its arrival to the last attribute of its operations.
`live` is the heap. `ops` and `groups` are the locals of `process_family_msg`,
`built` the blocks of the object under construction, `family` what the family owns.
`ReadPlain`, `ReadOps`, `ReadGroups`, `ReadGroupName`, `NextGroup` and
`GroupsDone` are the walk over the message and its two parsers; `Construct`
allocates one block of a constructor; `HandOver`, `LoadOverlay`, `WithoutOverlay`
and `Attach` are the end of `process_family_msg`; `List`, `AppendNode` and
`Listed` a `get_children` of the family or of an operation. Each has its failure.

That the kernel sends each of the two lists at most once per message is an
assumption (ListAssumption): a second one would overwrite the pointer to the
first. So is that the names in an attribute set differ (OverlayAssumption): they
are made of C enumerators.

Properties: every block has one owner at every moment (HeapOwned); the children
of a listed family are the operations and groups of the message, in order, under
their names (FamilyAsSent); the attributes listed under an operation are those its
invoke accepts (AcceptedAsListed). FamilyInv is the inductive invariant behind
HeapOwned, SentInv the one behind the other two.

### Invoke, InvokeText, ReplyText: from the arguments to the text

Invoke composes the request of AttrRequest, the attribute sets of AttrSets and the
values of ReplyText to one call, for operations of three styles: a get of ethtool,
any other generic netlink operation, and rtnl. `Reply`, `Done`, `KernelError` and
`SocketFails` are the receive loop, on a socket in sync and without acks (both are
NetlinkSession's subject). `frames` is the stack of `render_attrs_recursive`; its
actions are `RenderBit` (a bit on one line), `RenderNest`, `RenderLost` (no schema
known), `RenderScalar`, `RenderRtnl`, `Leave` and `LeaveReply`. A text is a sequence
of lines; wording and layout are left out.

ReplyText has the functions of one attribute: the guess of a scalar's type, the
schema aliases, the folded bit, the value of an rtnl attribute.

InvokeText has what the text should say, `SentText`, and TextIsReply, which compares
the text with that. It is read off the reply from the kernel's side, where each nested
attribute is known to belong to a set: every attribute in its order, at its depth,
under its name in that set, with a value from which the payload can be read off (of a
long one, the beginning). It is a recursive function over `Sent`, a constant: the
attributes of an operation's replies at any depth, each with its set.

Two assumptions say for which replies the text can be right. ReplyAssumption: the
metadata, the table of aliases and the tables of rtnl tell of a reply what the kernel
sends. A nested attribute comes with the set its alias stands for, or, where ykern
knows no set, with NLA_F_NESTED; the attributes of a folded bit come once, the index
with four bytes; a number of rtnl has its width. Where a set happens to be called like
an attribute, ykern reads the attribute with that set whatever the kernel meant; the
reference does too (`Namesake`), as the code cannot know better. NestingAssumption:
nesting ends. InvokeInv is the inductive invariant of the call, TextInv that of its
text.

## 3. The runs

| Run | What it shows | Bounds |
|---|---|---|
| ObjectTree | ownership, views and listings in every order of calls and failures; that Forest is implemented and calls end | 6 cells for 6 entities of a tree three deep; first capacity 1, so that two-element arrays grow. Listings that fail and are repeated fill the cells and stop there |
| ObjectTreeListedOnce | *violated*: a retried listing repeats what the failed one left | as ObjectTree |
| NetlinkSession | the properties above | three requests on genl (one that fails, one that meets what it left, one more), two on rtnl; answers of up to four messages, in every batching |
| NetlinkSessionStale | *violated*: an invoke prints an earlier call's messages | the same |
| Ytrace | the properties above | two threads, two points, a table of two, one `set_*`, one shutdown. Two threads registering one point fill the table before the other point |
| YtraceLostControl | *violated*: a `set_*` call is undone | the same |
| OverlayLoader | the properties above | generated files of up to two operations, curated files of up to three entries, and files with sets of up to three attributes; first capacity 1 |
| OverlayLoaderZero | *violated*: a command with id 0 loses its name | the one file |
| FsTransport | the properties above | three names, one of them too long, two directories (a file, nothing, a link; a dangling link, a file, a stream), four contents around a cap of three bytes, one with a NUL; one change by the kernel, two attempts |
| CliSession | the properties above | eleven nodes, eight paths, four modes, a failure anywhere |
| FamilyBuild | the properties above | five messages: both orders of the lists, a group named twice, not at all and with an empty name, a missing name or id, an operation without an id; three overlays or none; 32 blocks, four listings |
| Invoke | packing and rendering | argument lists of up to two, and three of one key; texts around word boundaries; buffers two or three of them fill; ten operations, each way to find a set and to find none; dumps of up to two replies, nested three deep |

Deadlock is checked where a client can always go on. `CHECK_DEADLOCK FALSE` is
set where the modelled thing ends: a load, a run of the command, an invoke, and
the listing of one directory within its bounds.

Bounds and why they suffice. Each hazard needs at most two actors and one failure
before it shows; the instances allow every order of these and one more of each.
Capacities, caps and tables are as small as the code's branches allow, so that
growing, overflowing and being full are common, not rare.

Fairness. `FairSpec` asks for weak fairness of the steps inside a call
(`LoopStep`, `Step(t)`, `Populating` and `~blocks /\ Reading`), because a single
thread that has entered a loop goes on with it, and the kernel terminates a dump
it has started. That a read returns is assumed of files only: yproc.c:15-17 and
:374-376 say that some block, and sysfs and procfs may show FIFOs and devices. No fairness is assumed of clients starting calls, of failures or
of changes by the kernel. For Ytrace weak fairness per thread is enough as long
as the mutex is not held for ever by another, which is what CallsReturn shows;
the two calls of `set_*` and shutdown are bounded, so a waiting thread cannot be
overtaken without end.

## 4. What disagrees with the documentation

Four runs end in a counterexample, each against a sentence of the repository:

- **ListedOnce**, `object.c:147`. A `populate_children` that fails half way leaves
  its children in the array; the next `get_children` lists them again. `object.h`
  promises that the base layer manages the caching.
- **PrintsTheReply**, `genl-operation.c:1114`. The loops of invoke do not compare
  sequence numbers. After a call that stopped half way, an invoke prints what
  that call left. The command makes one call per process and does not run into
  this; a client of the library does.
- **ControlHolds**, `ytrace.c:135`. `*enabled` is read after the unlock, and the
  macro assigns it: a `set_*` call in between is lost.
- **GeneratedNamed**, `genl-overlay.c:791`. The merge takes `cmd_id == 0` for
  "curated", and drops `GET_TXSC` of `macsec.yaml`.

Smaller observations, made while modelling and without a run of their own:

- `refresh` of the root loses its transports: `pending` is empty after the first
  listing (`root.c:65-67`). `object.h:20` only says that it "invalidates the cache".
- When `root_create` fails, main destroys one of three transports (`main.c:760`). On
  each of the early returns from there (`main.c:730-761`) it also leaves what the
  options allocated.
- `docs/metadata-schema.md:117-121` says that `/netlink/genl/ethtool/cmd-1` "still
  resolves" after the metadata have named the operation STRSET_GET, and that "ykern
  accepts either at the CLI". `find_child` compares with `get_name` only
  (`main.c:143-169`), so the second form is not found. In CliSession a node has one
  name, the one `get_name` returns; RoundTrip is about that one.
- A `get_name` that fails counts as no match (`main.c:145-149`): the path is reported
  as not found, or, when there is a younger namesake, leads to that one, which is then
  the operation that is invoked.
- The same file says that groups without a name are matched by `group-<id>`
  (`:108-110`); the overlay is searched by the name the kernel gave
  (`genl-overlay.c:720-731`).
- A listing that fails on the way of a path is reported as "segment has no match",
  and the hint printed after it runs the listing again (`main.c:157`, `774`, `788`).
- `browse` is announced as "no kernel I/O" (`main.c:90`), yet listing
  `/netlink/genl` asks the kernel for its families.
- A request with arguments that the kernel does not answer blocks in `recv`.
- `read_attr_entries_into_set` forgets the type hint when it has no memory
  (`genl-overlay.c:449-451`); StringsOwned names this exception.
- The comment at `genl-overlay.c:759` says that the second file resumes at the
  current array sizes; the array of attribute sets does not. Curated files are
  documented to have no such section, and nothing checks that they do not.
- The node of a dangling link is dropped silently when it cannot be allocated
  (`ysys.c:188`).
- readdir's NULL is taken for the end, whatever errno says (`ysys.c:146`,
  `yproc.c:145`): a directory that cannot be read to its end is listed in part, and
  the part is cached as the whole.
- What is behind a NUL is read and counted, and not shown (`ysys.c:447-449`,
  `yproc.c:443-445`): of `/proc/<pid>/cmdline` one sees the first argument. The head
  of `yproc.c` says that invoke "returns its contents" (`:11-12`).
- Reading a file that blocks hangs the command (`yproc.c:15-17` says so of /proc/kmsg).
- A link whose target may not be read, as `/proc/<pid>/exe` of another user, gives
  "readlink failed" as the text of a call that succeeds (`ysys.c:396-399`).
- `ysys.c:56` says of `is_symlink` that it does not change invoke; it does
  (`ysys.c:393`).
- An empty `ifindex` counts as 0 (`genl-operation.c:872-876`).
- Directories reached through links are directories: `browse -r /ysys` goes round
  cycles until the path is too long.
- A call site run by two threads at once is registered twice.
- What browsing shows under an ethtool `*_GET` are the attributes of its reply;
  invoke takes `ifname` and `ifindex` and ignores every other key, so that a wrong
  key makes a dump of all interfaces (`genl-operation.c:335-336`, `:841-843`). Under
  an ethtool operation without a set it shows those of HEADER, while
  `invoke_generic_genl` refuses them. Attributes of rtnl are described as "Pass
  via: --arg" (`genl-attribute.c:70`), and `rtnl_op_invoke` ignores all arguments.
- The table of aliases is said to cover "every BITSET-shaped attribute in the
  ethtool family" (`genl-operation.c:570-571`). It lacks some (those of EEE, for
  instance), which are then "schema not declared", and sends the table of RSS.INDIR,
  which is binary, through the walk over attributes.
- PAUSE.STATS, FEC.STATS and MM.STATS are decoded with the set STATS, which is
  another one: an attribute is taken to have the schema that bears its name.
- A u16 between 32 and 255, 127 excepted, is shown as a text of one character
  (`genl-operation.c:522`): its bytes are a printable one and a NUL.
- The comment in `render_attr_value` promises a MAC for six bytes (`rtnl.c:338`);
  the code goes by the name of the attribute first. An IPv4 ADDRESS of GETADDR comes
  out as hex bytes, and so does a value of six bytes with another name.
- rtnl cuts a value after 16 bytes without a sign of it (`rtnl.c:351-352`), where
  `render_scalar` writes dots; NDA_PORT is printed in host order.
- A text that grows past the memory there is loses lines silently: nobody looks
  at the result of `tb_appendf` (`genl-operation.c:474`).
- The errno inside the NLMSG_DONE of a dump is not read (`genl-operation.c:1115`),
  though "The kernel error is surfaced as-is" (`:985`).

## 5. What is proved

The theorems hold for every value of the constants that satisfies the module's
assumptions: any number of cells, any listing, any number of threads and points,
any buffer size. The assumptions are the `ASSUME`s of the modules, which say only
of what kind each constant is (for instance `NoAddr \notin Addr`; a request buffer
has room for the two headers, and for HEADER in `invoke_ethtool_get`).

**ObjectTree** (`ObjectTreeProofs`). TypeCorrect first. Then
`Ownership == Spec => []OwnershipInv`, from which NoDanglingPointer
(PointersLive), SingleOwner (OneOwner), NoLeak (NothingLeaks) and ViewStable
(ViewsStay) follow. None of these is inductive alone:

- SingleOwner and NoLeak depend on each other: a cell that is freed must have had
  one owner, or a dead pointer remains.
- `CellsOK`: a free cell has no parent and no children, and a cursor moves only on
  the destroy path; otherwise an allocated object could inherit either.
- `TopLevelOK`: who owns the transports before and after `root_create`.
- `CallOK` ties the stack to the call, `PathOK` says that the stack follows the
  parent chain, so that what is returned to after a `free` is its parent.
- `ParentOutlivesChild`: the parent is freed last.
- `Acyclic`: any set of live objects has one whose parent is outside of it. It is
  what shows that the child `drop_children` turns to is not already on the
  destroy path, and that a fresh object is nobody's ancestor.

There is one lemma per action. `Push` and `Pop` are the two movements of the
recursive destroy: entering a child, and freeing the innermost object.
`FreeOwns` and `ToDestroyOwns` use them. ListingInv, on top of it, gives
ListingsComplete (CompleteListing).

`Implements == Spec => ImplementsForest` is the refinement. It needs InProgress, what
the call in progress has done so far: that the root's last children are the transports
taken, that what a populate has made is bare, and that the root, when it is destroyed,
is at the end of the destroy path. What the client sees is defined by a recursion up
the parent chain, and `VisibleIsLargest` does away with it: it is the largest set of
objects that are not hidden and whose parents are in it. That there is such a set needs
no induction, and that the recursion finds it follows from Acyclic. `Apart`, what Forest
keeps, is the largest set nothing outside of which has a child in it; `ApartIs` shows
that the two agree when what a call gives up is what it hides. Then there is one lemma
per step: eight steps are steps of Forest (the one that ends a populate may be an error
or not), the others show the client nothing, because what they make was hidden before
(PopulateNextMaps), goes on being so (PushMaps), or was out of sight when it was freed
(`DoomedUnseen`).

`CallsShrink` is CallShrinks, and that `Work` is a natural number, from OwnershipInv
(no cursor and no count is past its end) and ListingInv (no more is made than is
listed). The sum in `Work` is a fold over the cells, a recursive function. Of it the
proof needs that it exists and how it changes with one of its terms; both follow from
what it counts, the pairs of `Units`: `TotalsExist` exhibits a solution, and
`TotalsCount` takes a least set of cells on which another would differ, in place of an
induction. Then each of the steps takes more from one part than it adds to another
(`OneLess`), or from one and adds to none (`NoneMore`). HeapAssumption: memory is finite.

**Ytrace** (`YtraceProofs`). TypeCorrect, then `TableSafe == Spec => []TableInv` with
`Exclusion` (who is inside holds the mutex), `EnvRead` (past the second lock the
environment has been read), `SetProgress` (the loop's invariant) and `PointsListed`;
from it EntriesAfterInit, SetReachesAll and RegisteredListed.

**AttrRequest and Invoke** (`AttrRequestProofs`). `Packed == Spec => []PackInv` first:
every header written is complete, and HEADER is the first attribute and its ids are
known. The arithmetic is in `AlignUp` and `AlignedSum`. `Lookup` chooses the first
argument of a key; that there is one is `LookupFinds`, by the least element of a set
of numbers (`LeastNatural`, from the library's well-foundedness of `<`).

ReadInv adds that the headers follow each other without a gap from the start of the
values to the write offset, and say in order what the steps so far had to pack
(`LaidOut`). A value appended goes on with that (`PutLays`), and patching HEADER leaves
alone what is behind it. What the kernel reads of such headers is `WalkFinds`. `Walk`
is a recursive function over the offsets: a solution of its equation is exhibited,
and every solution gives the headers from each place on, by the place nearest to the
end where it would not. So ReadInv implies KernelReads (`ReadInvReads`).

InvokeInv is ReadInv, InvokeTypeOK and CountingOK: the replies received are those
counted and the one being rendered, `frames` is a stack, and only one that has been
sent is answered. Building is a step of AttrRequest, rendering leaves the request
alone. From it `InvokeTyped`, `NoOverrun`, `ReadByKernel` (InvokeTypeOK, WithinRequest
and KernelReads of InvokeSpec) and `Counted`, the part of TextIsReply that is not about
the lines.

TextInv adds TextOK, about the lines: what has been said tells the beginning of what
was sent, and what the frames on the stack still hold (`Todo`, the innermost first) is
the rest (`Telling`). A reply received puts its own lines at the end of `SentSoFar` and
its attributes into the first frame (ReplySays). Each step of the rendering takes the
first attribute of the innermost frame off `Todo` and says its lines: a scalar one
(ScalarText), a bit one (BitText), an attribute without a schema two (LostText); a
nested one says its heading and leaves the rest as a new frame in front (NestText). To
leave an empty frame changes nothing (LeaveText). So a call that returns has nothing
left and has said everything (DoneText), which gives TextInductive and, from it,
TextTold (TextIsReply). What makes a line right is where ReplyAssumption comes in: the
schema found is the one meant, `Scalar`, `RtnlValue` and `Bit` show what the payload
was. The lines of an attribute are a solution of a recursive equation (`SentLines`); by
NestingAssumption there is one, made of the solutions on the sets closed under nesting,
so the equation may be used. That a flattened sequence can be taken apart at its front
and its end (FlattenFirst, FlattenLast) is proved as for FamilyBuild.

**NetlinkSession** (`NetlinkProofs`). TypeCorrect; then SessionInductive, about what
is still to be read on the socket of the call in progress, the datagram and the
queue. Counted from its end it is the answer to the last request, and whatever is
before that is older (`Aligned`): to receive, to skip and to render take from the
front and leave this alone. So a message that bears the request's number tells how
much of the answer is left, and the terminator that nothing is; `Progress` says that
`out` is what was taken of it, `NoneNewer` that a number was not used before. On a
socket no call has left half read nothing older is there (`InSync`). From it
NothingLeftBehind (SyncUntilFailure), ListingIsOwn (PopulateExact) and ReplyIsOwn
(InvokeExact). That the terminator comes, and comes last, is AnswerAssumption.

**OverlayLoader** (`OverlayProofs`). LoaderInductive and TypeCorrect: OverlayInv
gives ArraysFit (WithinAllocation) and StringsHaveOwners (StringsOwned). Its heart is
`CustodyOK`: while the merge moves rows up in place, the rows up to `kept` and from
`i` on own their strings and those in between own nothing, though they still bear the
pointers. `MergeOK` is why a search for a namesake does no harm by starting at row 1:
a name found in a row left behind is found in a kept row before. `CapsOK` says that
the counts of the four kinds of array are within the loader's capacities and these
within what was allocated (`AppendFits`), with the exception of the sets of a curated
file, which CuratedAssumption excludes.
DescriptionsFound (DescribedByName) has an invariant of its own, Described. Each
row with a name is the one of its entry and the rows are in the order of the files
(`OriginOK`), every entry read has its row (`PresentOK`), and during the merge each
generated row has the last description given to its name by the curated rows passed
so far (`DescribedOK`).

**FamilyBuild** (`FamilyProofs`). FamilyInductive, TypeCorrect, and NothingLeaks
(HeapOwned). `PhaseOK` ties each phase to the locals that may hold a block; a list is
read into an empty local because ListAssumption says that each comes once. The other
half is about sets of pointers: what an action adds or moves, and that no two of them
then hold the same block (`OpsBlocks`, `NameBlocks`, and one lemma per owner).
SentInductive adds what the data is. `MessageRead` says of the walk over the message
what it has read: the ids once their list is passed, and of each group the last of the
names seen so far, in the middle of `parse_mcast_attr` too. `ListingOK` says of a
listing in progress that what it has appended, after what earlier failed listings left,
is made of the plans it no longer has to do, and of a complete one that it is made of
all of them. From it ListsWhatWasSent (FamilyAsSent) and ListsWhatIsAccepted
(AcceptedAsListed). For the latter two searches are shown to be one, in any metadata:
`find_op_attr_set` and the one written out in `invoke_generic_genl` (SameSearch);
AcceptedAsListed leaves out ethtool, where they disagree (section 4).
FlattenSeq is a recursive function; that it has a value is shown by exhibiting it, and
what it is by looking at the least place where two solutions could differ (FlattenIs),
as induction is not to be had.

**FsTransport** (`FsProofs`). FsInductive and TypeCorrect: FsInv gives CopiesFreedOnce
(FreedOnce), StableEntriesListed (StableListed) and TextOfFile (TextIsContent). A name
is freed exactly when it is in `Gone` (`CopiesOK`). `ReadOK` says what the names read so
far tell of the entries that are not doubtful, `AddedOK` what the loop has made of those
it has passed: that the names are in order and distinct is why it adds none twice. A
readdir that fails makes what it owed doubtful, so `ReadOK` goes through it; lstat and
stat do so with one name.

**CliSession** (`CliProofs`). CliInductive and TypeCorrect: CliInv gives PathsLeadBack
(RoundTrip), NothingListedInVain (LazyListing), ListingsExact (ListingExact) and
NothingLeftAlive (TornDown). The lemmas are about trees: two nodes' subtrees are apart
or one contains the other, an addressable node is determined by its path, a child is
below its parent and no other sibling. All this is for any set of hidden nodes, and
`HidingChildren` says why a name that could not be got hides nobody who was reached: it
was a child of the object reached, so below it (`WalkOK`). TreeAssumption says that the tree is reached
from the root by a set closed under children; `Lineage`, a recursive function, is
shown to be defined on all nodes by this alone. The recursion of `recurse_subtree` is
in `AgendaOK`: the subtrees still to be printed are apart from each other and from what
is printed, and those of one object are next to each other and to its own line.

The inductive invariants OwnershipInv, ListingInv, InProgress, TableInv, PackInv, ReadInv,
InvokeInv, TextInv, OverlayInv,
Described, FamilyInv, SentInv, FsInv, CliInv and SessionInv are in no run's list of
properties: what they are for follows from them for all constants. TLC found
each of them to hold on the instance of its run before it was proved.

Every safety property of the passing runs is stated by a theorem. Only model-checked is
liveness: DumpsReturn, CallsReturn, CallsEnd. Temporal reasoning with fairness and
ENABLED is out of the prover's reach.

## 6. What is not modelled

- Wording and layout: get_name and the descriptions of all nodes, the headings of
  a reply, what `render_msg_header` prints of an rtnl header (one line of Invoke).
- Running out of memory while a text grows.
- The four tables of rtnl.c and the metadata of real families: the runs have small
  ones with an entry of each kind.
- A reply whose lengths are wrong: what NLA_OK would cut off is never sent.
- `result.c`, `text.c`, `path.c` (which nothing calls): no shared state. An error is
  a branch of the action it ends.
- libyaml, libc and the kernel, except as far as the code sees them.
- A `get_path` that fails in `recurse_subtree` skips a line (`main.c:597`): `printed`
  has the objects whose turn it was. The options and what main leaks of them.
- Path bounds and cyclic directories: a name too long is an input
  (`FsTransport.SkipLong`), a cycle of directories is not.

## 7. Plan

Written so far, in this order: ObjectTree, NetlinkSession, Ytrace, OverlayLoader,
FsTransport, CliSession, AttrRequest; proofs of ObjectTree, Ytrace, AttrRequest;
then AttrSets, FamilyBuild, Forest with TreeRefinement, ReplyText and Invoke; then the
proofs of NetlinkSession, OverlayLoader, FamilyBuild, FsTransport and CliSession, and
of CompleteListing, ImplementsForest, KernelReads, FamilyAsSent, AcceptedAsListed,
CallShrinks and TextIsReply.

Next, in order of importance:

1. **Mailbox**, an abstract request/reply channel that NetlinkSession implements as
   long as no call fails half way.
2. Texts that lose lines for lack of memory, as a step of Invoke that drops what
   `Say` would append, with the property that is left.
