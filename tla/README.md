# IvoryScript in TLA+

IvoryScript is a small functional language with a compiler (`ivorysc`), an
interpreter (`iss`), a server that gives web clients interactive sessions with
interpreters (`isss`), and the run-time libraries below them: allocators with a
garbage collector, persistent name and segment tables, an object store and
serialisation.

This directory models the parts in which the order of events matters most: the
**session server**, the **garbage-collecting allocator**, the **environments**
(tables of names, types and byte-code segments between which code and data
move), and the core of the **type checker** (unification and the sets of
constraints). TLC checks each on small instances; TLAPS proves the safety
invariants of the server, and that it implements its abstract specification, for
every number of clients, workers, descriptors, processes and session ids; those
of the allocator for blocks and requests of every length and every number of
them; those of the environments, with the refinement of their abstract
specification, for all scripts, hash functions and builds of the program; and
those of the constraint sets for every set of type variables and constraints.

Paths below are relative to the repository; `isss/` is `source/app/ivory/isss/`,
`MSA/` is `source/API/MSA/`, `common/` is `source/API/ivory/common/`, and
`type.cpp` is `source/API/ivory/compiler/type.cpp`.

## Inventory

| Component | State | Operations | Interacts with | Hard behaviour | Here |
|---|---|---|---|---|---|
| Session server `isss/server.cpp` | client table, worker table, pollfd array, child processes, session directories | one handler per ready descriptor; START, SESSION, END, SEND, RECEIVE, STATUS | peers over TCP, workers over pipes, the kernel through poll, signalfd, timerfd | interleaving of peers, workers and handlers within one scan; reuse of descriptors, pids and ids; partial sends; exits | modelled but for set-up and shut-down |
| Worker `source/app/ivory/iss/main.cpp` | input buffer | prompt, evaluate the lines it reads, exit | server's pipes | exit at any time | as the server sees it |
| MSA `MSA/*.cpp` | list of blocks, each with segments and a free list; use counters | `alloc`, `free` | used by all data structures of the interpreter | long sequences of calls, counts in several places | modelled |
| MSA_GC `MSA/*_GC.cpp, mark, sweep` | the above, mark count, two switches | `allocGC`, `mark`, `sweep` | frame descriptors mark; drivers retry | sweep edits the lists it walks | modelled |
| Collector drivers `memAlloc_GC.cpp`, `exec_GC.cpp` | none | allocate, collect, allocate again | MSA_GC, machine stack | failure paths | allocation protocol modelled, frame walk external |
| Tables `source/API/nameTable`, `segmentTable`, `common/type` | vector of entries, hash chains, alternates, reference counts | look up, add, drop, store, load | environments | one key reached by several routes; vacant integers after drops | modelled but for the callers of drop |
| Environments `common/{name,type,interpreter,env}` | name, type and segment tables; descriptors of types with the segments of their methods | enter, map, copy, insert into and extract from an archive | tables, compiled code, archive | mutual recursion of copying; archives read by another program | modelled in part |
| Type checker: unification, `type.cpp` | set of substitutions with an index of references, type variables of each scope, list of a constraint on trial | unify (two modes), apply substitutions, open and close scopes | inference over terms | in-place substitution everywhere at once; cycles | modelled |
| Type checker: constraints, `type.cpp` | unresolved list and work list of sets, flags of schemes | add, merge, check, substitute, notify, `fixCoercions`, remove schemes | unification, inference | lists edited while they are walked | modelled; what a check answers is left open |
| Rest of the compiler `source/API/ivory/compiler` | terms, code | parse, translate, infer, search instances, generate | type checker, environments | unbounded recursion on data | not modelled |
| Abstract machine `common/machine`, bytecode interpreter `common/interpreter` | stack, closures, segments | enter, evaluate, update; one case per instruction | compiled code, segment table | the discipline is that of the generated code | not modelled |
| Streams and serial contexts `common/streams` | name and address tables | insert, extract | serialised values | sharing is up to each type's functions | not modelled |
| Modules and linkage, built-in types, script library | - | - | - | none of their own | not modelled |
| Generic functions, archive, generic hash table, MSA diagnostics | - | pack, unpack, read, write, print | everything | boundaries of encodings | not modelled |
| Object store `source/API/objStore` | clusters of object ids | alloc, free, lock, iterate | nothing allocates from it | - | not modelled |
| `ivorysc` and its suite runner | results of a suite | run, compare | files | none | not modelled |

What makes each modelled part correct:

* **Session server.** Every descriptor in the pollfd array is open and belongs
  to exactly one client or worker; POLLOUT is requested exactly while output is
  pending; no client points to a deleted worker; a worker's pid is that of its
  own process; ids of active sessions differ; a running worker is listened to;
  the fixed arrays never overflow; ended sessions go away; pending output is
  sent.
* **Allocator.** The segments of a block cover it without gaps; the free list
  has exactly the free ones, in order and with no two adjacent; nothing the
  program holds is released; the counters agree with the segments; a limit on
  the memory is kept; a request that starts a collection is answered.
* **Environments.** An identifier and a signature has one integer in each
  environment, whichever route entered it, and a segment is not copied again and
  again; whatever moved to another environment or through an archive still means
  what its script said; a type keeps its methods; what an archive has to contain
  is in the tables when it is written; copying ends.
* **Type checker.** A call of unify finds the most general unifier or says
  rightly that there is none; no variable with a substitution is left in another
  substitution, a scope or a set; sets of constraints share no variable and lose
  no constraint; unification, the work list and the walk over unresolved sets
  end.

`PROJECT.json` lists, under `hazards`, each place in the code where one of these
can go wrong, and the property that watches it.

## Modules

| Module | Content |
|---|---|
| `PollTable` | the pollfd array and its operations: add, `unsetPollFD`, set POLLOUT, `::poll` |
| `SessionServer` | the server, its peers, its workers and the kernel objects between them |
| `Sessions` | abstract: sessions started, joined, left, ended and removed |
| `MCSessionServer` | instances for TLC: which lines peers send |
| `SessionServerProofs` | the inductive invariant `Core`; lemmas about the poll table's operations; session ids and pids; which steps touch the worker table; every step of the server is one of `Sessions`, or none; descriptors, POLLOUT, polled pipes and the complete type invariant |
| `MSA` | blocks, segments and `alloc`, `addBlk`, `fstFit`, `free` as operators on a heap record |
| `MSAGC` | the state machine around it: allocating, marking, sweeping |
| `MSAProofs` | lemmas about lists of offsets, blocks and heaps: what `alloc` and `free` keep |
| `MSAGCProofs` | the inductive invariant of the allocator and its proof |
| `MCMSA` | instances for TLC |
| `Loops` | a loop over a list, as a function of what it starts with |
| `IdTable` | the table behind names, types and segments: look up, add, drop, store, load |
| `Environments` | environments, what moves between them, archives and later runs of the program |
| `Registry` | abstract: bindings of keys to integers in each environment |
| `ThroughProofs` | what one turn of a loop over a sequence keeps holds when the loop ends |
| `EnvironmentsProofs` | the inductive invariant of the environments, its proof, and the refinement of `Registry` |
| `EnvironmentsMethods` | the methods of a type, from that invariant and one of their own |
| `MCEnvironments` | two scripts, a pair of types whose methods are alike and mention both, two programs |
| `TypeSigs` | type signatures, substitution and class `Subst` as operators |
| `TypeCheck` | unify, `SubstSet`, `TypeEnv` |
| `TypeCheckProofs` | what substitution does to variables and to values, the inductive invariant of the type checker and its proof, what unify answers |
| `MCTypeCheck` | signatures for TLC |
| `ConstraintSets` | class `Predicates`: the sets of constraints |
| `MCConstraintSets` | instance for TLC |
| `ConstraintSetsProofs` | the inductive invariant of the sets and its proof |

### The session server

The server is one thread around `::poll`. After poll returns it visits the ready
entries of the array from the highest index down, and most handlers change the
array they are being visited from: `unsetPollFD` moves the last entry over the
freed one. `pc` says where the thread is and `i` is the loop's index. Between
any two steps of the thread peers and processes move.

| State | Code |
|---|---|
| `clients`, `workers` | `_clients`, `_workers`; a place is `NULL` or the object |
| `poll` | `_pollFDs` from index 3 on and `_nPollFDs`; `base` is the revents of the first three |
| `cur`, `closing` | `client`, `closeClient` in the client branch of `poll()` |
| `open` | descriptors the process has open, the base ones apart |
| `dirs` | session directories that exist |
| `procs`, `sigchld` | children with their pipes, and the pending SIGCHLD |
| `sock`, `backlog` | the peers' sides of the sockets, connections not yet accepted |
| `reply` | what the last step sent to clients; observed only |

The actions follow the branches of `SocketServer::poll`: `Accept*`; `Signal` and
one `Reap*` for each child `waitpid` returns; `Timer` and one `TimeoutWorker`
for each worker `checkInactivity` returns; `ClientHangup` and `ClientReady` for
a client's socket, then one action per iteration of the loop over its input;
`PipeNoClient` and `PipeRead` for a worker's pipe. Each iteration or system call
is a step of its own, so that peers and children can move in between, as they
can in the code; each step is the whole handler, with its cleanup.

Abstractions. Input is a sequence of lines, a line its command and session id;
the text after SEND is one line. A worker's pipes and a client's pending output
are counted, not spelled out. Time is one flag per worker, "inactive for
workerTimeout seconds". Descriptors are numbered as the kernel does, lowest
first. The descriptors the three base objects hold are outside `FD`. A session
directory is its id. Messages split over reads are not modelled: a line arrives
whole; what happens to a command without its newline is the loop's exit in
`InputDone`, reached through `STUCK` lines. A worker writes a prompt before each
read, and waits while its pipe is full; it takes the lines that are there, any
number, at once. It writes nothing but prompts on its error stream (`cerr` in
`iss/main.cpp:370` only), so that whatever the server reads there begins with
one, as the test in `isss/server.cpp:1196-1206` asks.

`Sessions` states what the server promises about sessions with no mention of
sockets or processes. The mapping reads the state of a place from its worker
(`NULL` is free, id 0 is ended) and a client's attachment from its pointer.

### The allocator

A heap is a record: the sequence of blocks in list order, the current block and
the counters. A block has a descriptor at each offset where a segment starts and
the free list as a sequence of offsets, so that a wrong link shows as a wrong
list or a gap. Lengths are in quanta. `MSA::alloc`, `addBlk` and `free` run to
completion and are operators; `sweep` is one action per segment it visits, since
the order in which it edits the list it walks is what can go wrong. `sw` holds
its locals. The program is external: it may hold, drop, free and mark what it
was given.

Abstractions. A block's address is a small number; a released one's may be used
again. `_maxUse`, `_nGC_Segs` and `_errCode` are not read by anything and are
left out. `_limit` is the constant `Limit`: `preEval` sets it while the heap is
new. Lengths are unsigned and wrap at `SizeRange`. What is left under the limit
may be at least a request and still too short for it and a block header
(`MSA/addBlk.cpp:84`): `Alloc` then finds no room in the block it added. Below
the header the length of the free segment wraps; the instances exclude that. A
quantum holds a `FreeSeg`, as with 4-byte pointers: with longer ones `fstFit`
may leave a remainder too short for its link (`MSA/alloc.cpp:185`). All of the
program's frames mark what it holds, in an order that makes no difference.
`memAlloc_GC` may meet a code point without a frame descriptor, and then does
not collect.

### Environments

Names, types and segments are integers of one environment. A script is compiled
in an environment without a segment table (`Sources`); `mkEnv` and archives make
others (`Targets`).

| State | Code |
|---|---|
| `env[e].names`, `.types`, `.segs` | the tables `_nameTable`, `_typeTable`, `_segmentTable` of an `Env` |
| `code` | compiled byte-code segments, outside any table |
| `held` | names that data of the program contains |
| `work` | nested calls of `copySegment`, with the type constant `mapData` is at |
| `archive` | the file `insertBinEnv` wrote |
| `program` | which build of the program runs |

`Compile` enters the constants of a script's segments; `MapHeldName` is `MAP_N`;
`CopyCode` and `CopyBetween` are `copySegment` called from outside;
`MapBuiltInType`, `MapKnownType`, `EnterType` and `EnterTypeAndCopyMethods` are
the branches of `mapType` for one type constant, the last of which calls
`copySegment` again; `Store` and `Load` are `insertBinEnv` and `extractBinEnv`
with `postLoad`; `Restart` is another run of the program, with another table of
built-in names. `Registry` is what the tables promise: bindings are one to one,
never changed or forgotten in a run, and restored from an archive as they were
saved.

Abstractions. A segment is its name constants, its type constants and the hash
value in its header, which `eqSegment` compares with the rest; a signature is
the sequence of its constructors' identifiers. A type has one method segment of
the several in its descriptor: `mapType` treats each by the same lines
(`common/interpreter/mapType.cpp:108-232`), and one is enough for the recursion
through `copySegment`. The type a descriptor denotes, which `mapType` maps by
calling itself, the child segments of a segment, which `copySegment` copies with
it, and `initSegment` are left out. A type that is not in use has the signature
`<<>>`, where `TypeTable::typeSig` reports it and goes on with `ERROR`: a half
mapped segment can have one. After loading, the next id is one above the last;
`ISegmentTable::load` takes the number of records
(`common/interpreter/segmentTable.cpp:108`), which is the same while the table
has no vacant id, and no segment of the model is ever dropped. Hash values are
parameters, so that equal values are met.

### The type checker

`TypeCheck` is one call of unify after another on shared state. A signature is a
value: the code substitutes in place and shares nodes, which the occurs checks
make safe. It is the set of its leaves, each a variable or a constructor with
the way to it from the root, no way leading on from another's end; so what the
code does by recursion on a signature is said of its leaves, and the prover can
reason about it. An action is one branch of the loop over the stack of
equations. The branch for instances of schemes (`type.cpp:4400-4410`) is left
out: the one call that would take it, at `type.cpp:4735`, is in a comment. When
a call in fixed mode finds no unifier, the program is rejected; inference goes
on for the sake of more messages (`type.cpp:4496-4506`), on signatures that are
half substituted, and the model stops.

| State | Code |
|---|---|
| `equations`, `ext`, `fixed` | `typeEquationList`, `extSubsts`, whether a list was given |
| `index`, `refs` | `SubstSet::_index`, `_refIndex` |
| `scopes` | the chain of `TypeEnv`s: `_typeVars`, named variables, and the assumptions made (history) |
| `trial` | `*substs`, the list of the constraint being tried |
| `supply` | `newTypeVar` |

Between calls, inference opens and closes scopes, makes assumptions, and unifies
any two signatures: over-approximating the terms that would. `Constrain` is a
term with a written type; `Spec` has it for names the scope does not know,
`SpecScoped` for all, which is how the finding is kept apart from everything
else.

`ConstraintSets` is class `Predicates`. A constraint is its kind and the
variables of its signatures. A set on a list is in `unresolved` or `workList`;
`current` is the one taken off to be checked; `pending`, `then` and `fresh` are
where `addConstraintToSet`, called in loops, is. `visit` is the pointer with
which `fixCoercions` walks the unresolved list. What a check answers, the
substitutions it finds and the constraints its transformations make are any that
the types allow: `CheckSatisfied` stands for the six kinds of check. Which sets
`fixCoercions` puts back is left open too, but for their having a constraint
that is no scheme's: the range of sequence numbers and the tests for occurrences
elsewhere (`type.cpp:4255-4277`) only make it put back fewer. Lists are sets:
the order is left open. While `fixCoercions` walks, any substitution may be
applied, which is more than deferred unification does. If the set its pointer
stands in leaves the list, the walk goes on in memory that belongs to no list,
and the model stops (`OnList`).

## Runs

| Run | Instance | Question |
|---|---|---|
| `ServerFaults` | 1 client, 1 worker, 7 descriptors, 4 connections, 2 lines, every fault but a stalled peer, time passes | types and soundness of the poll array, polled pipes; refinement of `Sessions` under faults and timeouts |
| `ServerWorkers` | 2 clients, 2 workers, 2 pids, 2 ids, 12 descriptors, 3 lines with every command a session knows, peers close | pointers, ownership of descriptors, pids and ids; refinement of `Sessions` with sessions shared and ended |
| `ServerLive` | 1 client, 1 worker, 2 connections, 3 lines, peers close and stall | POLLOUT is armed while output is pending; sessions ended by END are reaped, output drains |
| `ServerPersist` | 1 client, 1 worker | counterexample: a running session is discarded |
| `ServerSend` | 2 clients, 1 worker that may crash | counterexample: SEND without an answer |
| `MSACollect` | blocks of 4 quanta with a header of 1, requests of 0 to 3, 2 blocks, limit 7 | soundness of the heap, counts, the limit; a collection ends |
| `MSAEmptyBlk` | as `MSACollect`, requests of 1 or 2, no limit | counterexample: an empty block is kept |
| `Environments` | 2 scripts of 2 segments, 2 other environments, 2 programs | one entry for each key, copies of a segment bounded, meaning kept, archives complete, methods kept; copying ends; refinement of `Registry` |
| `TypeCheck` | 3 type variables, 3 calls, 2 scopes, 6 signatures with cycles | most general unifiers, solved form, scopes; unify and `substSubsts` end |
| `TypeScoped` | the same, types written with a variable of the scope | counterexample: a variable is substituted twice |
| `ConstraintSets` | 2 type variables, 3 constraints, 1 of them a scheme | sets stay apart and complete; the work list runs empty |
| `FixCoercions` | the same | counterexample: `fixCoercions` does not end |

**Bounds.** `MaxConns` and `MaxLines` bound how many connections peers make and
lines they send; `PipeCap` and `MaxCommandLen` are the code's limits, measured
in lines; `MaxBlks` is the memory there is; `MaxCount` stops the program of the
allocator from asking for more when a block's segment count, which the code lets
grow, has reached it. Every constant is chosen so that its limit is met: a full
client table and a full worker table, no descriptor left, a full pipe, a command
that is too long, no block left. Three lines are what END needs: once a
connection has sent START or SESSION its later lines go to the worker, so one
connection starts the session and another joins and ends it, or sends, receives
and asks for the status. Where `ServerFaults` sends two, sessions end by the
timeout or by the worker's exit. Two pids for two workers force reuse of pids,
as do two ids for ids and the lowest-first rule for descriptors. Two clients are
what sharing a session needs, two workers what sharing of ids, pids and
descriptors needs, two blocks what unlinking first, last and current needs. The
proofs remove these bounds for the server's invariants.

The limit of `MSACollect` leaves 3 quanta for the second block, header included.
`Environments` has two scripts that number the same identifiers differently, two
types whose methods mention each other and themselves and are alike, two chains
in each table so that keys collide, and a name that is built in only in the
second program. While the methods of one of the types are mapped, those of the
other are looked up and meet a segment that is equal to them but half mapped:
`lookUpSegment` can miss it, and the segment gets into the table twice.
`CopiesBounded` says that it goes no further than that; `WorkBound` is deeper
than any chain of calls these need, `MaxSegs` lets every segment be in one
environment or be spread over both, and `MaxHeld` is 1 because held names do not
affect each other. In `TypeCheck` three calls are what a cycle through the
shared list needs (two that bind, one that closes it or is accepted), `NFresh`
leaves one variable to `newTypeVar`, and the second scope is what a variable
moving outwards needs. Two variables and three constraints are what
`ConstraintSets` needs for a constraint that merges two sets and for a set that
is taken apart; the proofs remove the bound.

**Deadlock** is not checked: a server with nothing to do waits in poll for good,
and a program may stop allocating.

**Fairness.** `FairSpec` of the server: its thread takes a step when it can (it
is a runnable process), a worker prompts, evaluates and prints while its output
has room, and exits when it is terminated or out of input. Nothing is assumed of
peers, crashes or the clock. `EndedReaped` and `OutputDrains` are stated for
runs in which the server returns to poll again and again: `ServerSend` shows
that it may not, and two findings would otherwise hide everything else.
`OutputDrains` also assumes that the peer reads from some time on. `FairSpec` of
the allocator: a call that was made runs on. `Environments`, `TypeCheck` and
`ConstraintSets` are single threads, too: `MappingGoesOn` (calls of
`copySegment` and `mapType` run on; stated without ENABLED),
`WF_vars(UnifyStep)`, `WF_vars(Check)` and `WF_vars(Fix)` say that a call that
was made goes on, and nothing of what calls it. `WorkEnds` presumes that
transformations make finitely many constraints, which `Constraint` being finite
says.

## Where code and documentation differ

1. **A session does not survive without a receiver** (`ServerPersist`). When a
   worker's pipe becomes readable and no attached client receives, the server
   frees the worker although its process runs (`isss/server.cpp:1160`). The
   prompt is enough. `isss/PROTOCOL.md:242`: "Sessions are persistent across TCP
   connections until explicitly ended or timed out."
2. **A SEND may never be answered** (`ServerSend`). The loop around `write` at
   `isss/server.cpp:1133` goes round for ever when the worker has exited or does
   not read, and serves no other client meanwhile. `isss/PROTOCOL.md:126`
   promises SENT.
3. **sweep keeps empty blocks** (`MSAEmptyBlk`). `_nAllocSeg` is decremented for
   the first segment released in a block only (`MSA/sweep.cpp:116`), although
   the comment above the loop says a block is freed "if none remain".
   `CountNotLow` shows that the count is never too low, so nothing in use is
   lost.
4. **A variable is substituted twice** (`TypeScoped`). A type written in a term
   has the scope's variables in it, which are not brought up to date before
   `inferTriple` unifies (`type.cpp:5431`). `type.cpp:1473` asserts that the
   variable has none ("Substitution already present").
5. **fixCoercions may not end** (`FixCoercions`). Until it has passed over a
   set, its pointer is the head of the unresolved list, where `checkConstraints`
   puts a set that is still unresolved back (`type.cpp:5158`); so the same set
   is fixed again (`type.cpp:4298`). The comment at `type.cpp:4242` says it
   "Fixes any local coercions".

Other behaviour of the code that the models contain but no property is stated
about is listed in `PROJECT.json` under `hazards` with a note.

## Proofs

The first proofs are about `SessionServer` under its assumptions on constants
(`SizeAssumption`, `FDAssumption`, `ServerAssumption`, `NullAssumption`:
positive sizes, descriptors and pids are naturals, ids are not 0, `NULL` is
neither a client nor a worker). The sets of descriptors, pids and ids may be
infinite, and so may what peers send.

| Theorem | States |
|---|---|
| `CoreInvariant` | `Core` holds in every reachable state |
| `NoPointerDangles` | `NoDanglingPointer` |
| `SessionsKnown` | `SessionIdsDiffer` and `PidOwned` |
| `DescriptorsOwned` | `PollTableSound`, `FDsOwnedOnce` and `WritePollArmed` |
| `RunningHeard` | `RunningWorkerPolled` |
| `Types` | `TypeOK`, and so that the pollfd array is never overrun |
| `ServerRefines` | `RefinesSessions`: the server implements `Sessions` |

The argument is in layers, each an invariant relative to those before it.

1. `Core` is the type invariant of every variable but the poll array, with the
   pointers: without knowing that a client's pointer is a worker in the table,
   the steps that follow it cannot be typed.
2. `SessionIdsDiffer` and `PidOwned` depend on the worker table and the
   processes only. `WorkerSteps` collects how a step may change the table: leave
   ids and pids alone, end a session, remove a worker together with reaping its
   process, or add one with a fresh id and a fresh pid.
3. `FDInv` joins the poll array's type with `PollTableSound`, `FDsOwnedOnce`,
   `WritePollArmed` and `OwnedOpen`: every descriptor in the tables is open.
   None of them is inductive alone. A descriptor the kernel hands out is new to
   the tables because of `OwnedOpen`; `unsetPollFD` removes the right entry
   because each is polled once; clearing a client's entry leaves
   `WritePollArmed` true because no other object has its number. That the array
   has room for another entry (`RoomFor`) is a pigeonhole: each polled
   descriptor maps to the place of its owner, and a free place of the tables has
   no entry.
4. `RunningWorkerPolled` needs all of this: a pipe leaves the array only at end
   of file, which it reaches when the process is gone (`PipesKept`), and by
   `PidOwned` that process does not come back under its pid.

5. `ServerRefines` needs `Core` only. A step of the server changes the session
   table of `Sessions` in one of the ways in which it changes the worker table
   and the clients' pointers. Most steps do neither and stutter. What has to be
   shown of the others is that a start finds a place that is free with an id no
   active session has, and that removing a worker clears the pointer of every
   client that had it, in the same step.

The lemmas on `AddPollFD`, `UnsetPollFD`, `SetWritePoll` and `SetRevents` in
`SessionServerProofs` say what each operation does to the set of polled descriptors
and to those with POLLOUT; the steps of the server use nothing else of them.

The proofs about the allocator assume `LengthAssumption` and `CountAssumption`:
a block is longer than its header, and what the limit or the default length of a
block allows can be counted in an unsigned length. Requests may be of any
length, 0 too. Where the limit leaves less than a header (see the abstractions
above) the theorems speak of the block as the code counts it, not of the memory
it has.

| Theorem | States |
|---|---|
| `AllocTypeOK` | `TypeOK` |
| `AllocHeapSound` | `HeapSound` |
| `AllocHeldKept` | `HeldKept` |
| `AllocCountNotLow` | `CountNotLow` |
| `AllocUseCounted` | `UseCounted` |
| `AllocMarksCounted` | `MarksCounted` |
| `AllocLimitKept` | `LimitKept` |

All seven follow from one inductive invariant, `IInv` (`InvHolds`), which TLC
checked over all states of `MSACollect` before it was proved.

* `BlkInv` is soundness of one block, in a form that can be reasoned about:
  segments start at 0, each ends where the next one starts or at the end
  (`Tiled`), no two free ones touch (`Apart`), the free list has the offsets of
  the free ones in ascending order (`Lists`), `_nAllocSeg` is no less than the
  number in use, and only segments of `allocGC` are marked. `fstFit`, and the
  linking that `free` and `sweep` share, are each shown to keep it once, in
  `MSAProofs`.
* `HeapInv` has this of every block, at every step: `sweep` leaves a block whole
  after each segment it visits. Addresses differ, the limit is kept and `curr`
  is a block of the list.
* `Balanced` says that `_nSeg`, `_currUse` and `_totUse` are the number and the
  lengths of the segments in use and the lengths of the blocks. `alloc`, `free`,
  the two branches of `sweep` that release and both places that release a block
  update them by differences. A total is a fold over a function, and what it
  gives when one element is added, or when the same values stand elsewhere (the
  blocks behind one that is released move up), is not in the library:
  `SumsExist` shows that the fold's equations have a solution, `SumsAny` that
  any order of adding gives the same, and `TotalMore` and `TotalMoved` are what
  the steps use.
* `HeldInv` says that what the program holds is in use. To keep it, what `sweep`
  releases must not be held: `MarkInv` says that while it runs marks are only
  ahead of it, and everything ahead of it that the program holds of `allocGC`
  has one. It becomes true when every frame has marked (`SweepStart`), and a
  step of `sweep` only moves the border. Where a block is released because its
  count is 0, `BlkInv` gives that nothing in it is in use.
* `SweepInv` says that `sweep` is at the start of a segment and that its two
  pointers are next to each other in the free list, the first behind it. It is
  what makes the linking right: the walk along the list from there ends at the
  neighbours of the segment, also after the segment before was joined to one
  that the pointers were at.

`HeapSound` as TLC checks it counts lengths, `IInv` compares borders; the last
lemmas derive one from the other.

The proofs about the environments assume `EnvironmentsAssumption`: built-in
names and signatures are listed once in each build, hash values are naturals,
and constants of scripts are identifiers and signatures. The scripts, the hash
functions, the number of chains and the builds are arbitrary, so any two keys
may collide and any build may have other built-in tables than the one before.

| Theorem | States |
|---|---|
| `EnvironmentsTypeOK` | `TypeOK` |
| `OneEntry` | `OneEntryEach` |
| `MeaningKept` | `SameMeaning` |
| `AlwaysStorable` | `Storable` |
| `EnvironmentsRefine` | `RefinesRegistry`: the tables of names and of types implement `Registry` |
| `MethodsStay` | `MethodsKept`, under `MethodsAssumption` |

All but the last follow from one inductive invariant, `EInv` (`Invariant`), which
TLC checked over all states of `Environments` before it was proved.

* `EnvsOK` is about the tables of one environment: chains and free list are
  sound, each entry has the hash value of its key and the alternate of the build
  that runs, a key has one entry, the constructors of a type are entered names,
  and a type's method segment is in the segment table or absent.
* `CodeOK` and `HeldOK` say that a constant of compiled code, or a name that
  data holds, stands for what the script said in its own environment: it is
  `Says` there, a built-in's position or an entry that is not built in. `Kept`
  adds that there is an entry, which is what storing looks up.
* `WorkOK` is about the nested calls of `copySegment`. The types of a segment
  before the one its call is at are those of the environment it moves to, the
  rest still those of the environment it came from (`Copying`). Different calls
  are at different segments. `SegsOK` says that every segment no call is at has
  all its constants from its own environment.
* `ArchiveOK` says the same of the file: every integer in it is the id of a
  record of the file, and, read through these, the segments say what the scripts
  said. It mentions no build, so that it survives `Restart` and `Load` can rely
  on it with other built-in tables.

Every action but `Restart` makes environments grow (`GrowsEnv`): entries stay,
with their keys. What a constant stands for is decided by entries that are
there, so `Says`, `Kept` and `Copying` survive growth, which disposes of all
parts of the state that an action does not touch. What an action does touch is
often a loop over names, types or records: `Through`. `ThroughProofs` shows once
that what a turn keeps holds at the end, as the least number of turns at which
it would not contradicts the turn before; `Op` and `Holds` are CONSTANT
operators of that module, and each loop is an INSTANCE with its own.

The refinement maps an environment to the bindings of its keys. A step that
enters entries binds keys that had none to integers no key had; `Load` restores
exactly the saved bindings into an environment that has none; `Restart` clears
them all.

`MethodsStay` needs more. `lookUpSegment`, which `mapType` uses to see whether
the methods of a type are in the destination already, may meet a segment that is
being copied, in which the types still to be mapped are integers of the
environment it came from. `eqSegment` reads them in the destination, so it can
take such a segment for another one with the same hash value, the same names and
as many types. What keeps the types of the methods right is only that hash
values differ where types do. `hashSegment.cpp:22-26` says that they do ("unique
byte code segment hash value", "unique for name and type constants regardless of
mapping"), but the code computes a number of fixed width. `MethodsAssumption`
asks no more than the proof uses: a segment with the hash value, the names and
the number of types of a type's methods has the types of these, too. Any other
segments may collide, and in the instance TLC checks some do. It also says that
a built-in type has no methods among the compiled segments.

The invariant added to `EInv` is `MInv`, which TLC checked over the same states.
The method segment of a type has the header and the names of the methods the type
was compiled with (`HeaderIn`), from the moment `mapType` enters the type, while
its segment is still being copied; in the archive it has the types as well. Names
are mapped before anything else sees the segment, so they can be trusted when its
types cannot. When nothing is being copied, `EInv` gives that the segment says
what some code says, and `Told` that this code is the methods.

The other proofs are about `ConstraintSets`, under `KindAssumption` only (the
kinds of constraints are disjoint). Type variables and constraints may be
infinite sets.

| Theorem | States |
|---|---|
| `TypeCorrect` | `TypeOK` |
| `SetsApart` | `Partition` |
| `NothingLost` | `NoneLost` |
| `SetsUpToDate` | `UpToDate` |

`Inv` joins the first three with `Clean` and `Phase`; `UpToDate` follows from it
and is not inductive. `Clean` says that neither the sets nor what is on its way
into them has a variable of `Gone`: those that have a substitution already and
those that are about to get one (`substs`). It holds when a check is satisfied,
because the substitutions are for variables of `current` and by `Partition` no
other set has these; it holds when inference applies substitutions, because the
unresolved sets are substituted and by `Phase` the work list, which is not
searched, has no variable at that time. `Phase` also says that nothing is
pending and no substitution open unless constraints are being added. `Partition`
is kept because a constraint is added by merging every set that has one of its
variables, and because what is merged, taken apart or put back brings no
variable with it that another set has. `Walk` bounds the sets `fixCoercions`
still has to visit by the unresolved list. TLC checked `Inv` and `Walk` before
they were proved.

The last proofs are about `TypeCheck`, under its assumptions on constants: the
bounds are naturals, and the signatures the program has are signatures, finite
and not empty. There may be any number of them, and of variables, names, calls
and scopes.

| Theorem | States |
|---|---|
| `TypeCheckInv` | `Inv` holds in every reachable state |
| `TypeCheckTypeOK` | `TypeOK` |
| `TypeCheckSolvedForm` | `SolvedForm` |
| `TypeCheckScopeVars` | `ScopeVars` |
| `TypeCheckAcceptEnds` | `AcceptEnds` |
| `TypeCheckAnswersRight` | `AnswersRight`: unify finds the most general unifier, or there is none |

What a substitution does to a signature matters to all of these but the last
through the variables that are in it afterwards only: `ReplaceVars` and its consequences say
which (`Moved`), for one substitution, for all of a list at once
(`SubstTypeVars`) and one after the other (`SubstEach`), which for a list in
solved form come to the same. The parts of `Inv`:

* `Solved`: each variable has one substitution, none occurs in another's, and
  the reference index has every occurrence (`Indexed`). The index may have more:
  `preSubst` then only substitutes where there is nothing to. Without `Indexed`
  solved form is not inductive.
* `BoundApart`: what a call is about, and what the lists have, speaks of no
  variable that is bound in the set; a variable is bound by one of the lists. It
  holds when a call starts because both sides are brought up to date, and it is
  what makes the finding `TypeScoped` the one exception: there a side is not.
* `FixedApart`: in fixed mode the list found so far is in solved form as well,
  and the equations do not speak of it, because each substitution is made in all
  of both at once.
* `NoCycle`: in trial mode nothing is substituted, and the lists are not in
  solved form. What holds is that the variables can be ranked by naturals so
  that each is above all it stands for. When a variable is bound, the occurs
  check has looked through everything below the other side; the proof ranks
  the variable anew, with all that is above it raised over all others
  (`Raised`), and the check is what keeps the variable itself out of what is
  below. `extSubsts` in front of the list of earlier calls keeps the ranks, so
  the cycle that two calls could make together does not come about.
* `ScopesRight`: `ScopeVars`, and that no two scopes hold a variable, without
  which `substTypeVars`, which stops at the innermost scope that has one, would
  leave it in another.

`AcceptEnds` is the rank argument again: in each pass of `substSubsts` the entry
of the least rank has nothing left of the list in it and is fixed, so there are
as many passes as entries at most (`FixPassIs`, `SubstSubstsIs`), and what comes
of them is a list in solved form, which `Accept` applies.

`TypeCheckAnswersRight` is about values: `Valuations` gives each variable any of
the signatures without variables, and a valuation solves an equation when both
sides have the same value under it. `Answer`, next to `Inv`, says that while a
call runs, what it has left and what it has found have, among the valuations that
solve the caller's list, the same solutions as the two signatures it was called
with. Each branch of the loop keeps it:

* Replacing a variable by what has its value changes no value (`ValueSubst`),
  because replacing twice is replacing once by what was replaced
  (`ReplaceTwice`). So binding a variable keeps the solutions, whether it is
  substituted everywhere at once or only put on the list; so does looking one up
  (`ValueLookedUp`).
* Two applications are equal when their functions and their arguments are
  (`ValueParts`), so that leaving out the functions when these are the same
  signature loses nothing. Of two signatures that are not both applications and
  neither of which is a variable, no valuation makes one (`ValueClash`).
* Where the occurs check finds the variable there is no solution
  (`OccursNoSolution`). A signature without variables is finite and has a height;
  the value of a variable is as high as that of every variable in what it stands
  for, and higher unless it stands for just that variable (`Higher`). In trial
  mode the variables of lesser height than the one to be bound are closed under
  what the lists say of them, so that it would be among them.

When the call ends, what it found is in the set or in the caller's list.
Substituting it in what the set had keeps the solutions (`AppliedSolved`), and
by `Indexed` what `preSubst` leaves alone had nothing to be replaced in it.

**Only model-checked.**

* Liveness (`EndedReaped`, `OutputDrains`, `Answered`, `CopyEnds`, `UnifyEnds`,
  `WorkEnds`): the prover does not handle fairness here.
* `CopiesBounded`. The bound rests on counting: a type is entered once, its
  methods are copied only then, and a closure only when no equal segment is in
  the table. How many copies there are depends on the order in which types are
  met.

## Not modelled

* `init` and `terminate` of the server, the tmpfs mounts, system calls whose
  failure the code only logs.
* A read that ends within a line. The server keeps an incomplete line, as
  `InputDone` shows; bytes add nothing but states.
* The frame descriptors that mark, and the closures marked through them: they
  are produced by the compiler. What the model assumes of them is that
  everything held is marked.
* Environments: `destroyEnv`, cell info maps, denoted types, child segments, the
  methods of a type beyond the first. `copyName$`, which adds the names inside
  copied data without looking them up and under the hash of another entry: what
  data does with them is up to each type's copy function. `Drop` is an operator
  of `IdTable`, but its callers are in the compiler's data structures.
* Type checker: inference over terms, the six check methods, and unification
  nested inside a transformation.
* The life cycle of a script in the worker. After a run time error the
  interpreter runs no `postEval` (`compiler.cpp:282`); what the next script may
  expect is not documented.
* Serial contexts: whether sharing survives is decided by each type's insert and
  extract functions, which are generated for script types.
* The object store, from which nothing allocates.
* The components marked so in the inventory, for the reasons given in
  `PROJECT.json`.

## Plan

1. The life cycle of a script: `preEval`, `run`, `postEval` and run time errors
   over the stack, heap and environments.
2. Serial contexts: sharing across insert and extract, with the addresses of
   collected objects in the table.
