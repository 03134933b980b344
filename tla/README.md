# CSS-lab: specifications, model checking and proofs

The repository is a collection of systems programs written for a course: a small
compiler and a libc-free C library (lab1), a shell (lab2), network servers and packet
tools (lab3) and concurrent data structures with their test programs (lab4).  This
directory holds TLA+ modules of them, the TLC configurations that check the modules, and
proofs checked by TLAPS.

`PROJECT.json` lists the components, the runs, which source lines each definition
stands for, the hazards and the theorems.  All paths below are relative to `src/`.

## 1. Inventory

| Part | Where | State it keeps | Operations | What is hard | What makes it correct |
|---|---|---|---|---|---|
| lock-free stack | `lab4/lab4-out/partE/lf-stack.c` | atomic `top`, plain `size`, nodes | `lf_stack_push/pop/size` | CAS on stale data, lock-free reads of nodes, racy `size` | linearizable LIFO; the list is never broken; `size` counts |
| lock-free queue | `partE/lf-queue.c` | atomic `front`, `rear`, plain `size`, nodes | `lf_queue_enqueue/dequeue/size` | links written before the CAS, two loads that are not one, dummy node | linearizable FIFO, no dead link followed |
| mutex stack | `partD/concur-stack.c` | mutex, `top`, `size`, nodes | `concur_stack_push/pop/size` | early return under the lock, free and reuse | linearizable LIFO, no leak, no dangling node |
| hash table | `partD/concur-hash.c` | mutex, bucket array, `size`, nodes | `hash_insert/lookup/delete/size` | value read after the unlock, delete's search condition | the table owns its nodes; lookup and delete answer for their key |
| semaphore | `partC/sema.c` | one atomic int | `sema_wait`, `sema_post` | load and CAS are two steps; spinning | permits conserved |
| spinlock | `partC/spinlock.c` | one atomic int | `spinlock_lock/unlock` | CAS overwrites its expected value | mutual exclusion |
| producers and consumers | `partB/producer-consumer.c` | mutex, two conditions, ring | the two thread loops | lost and spurious wakeups, wrap-around | FIFO, nobody starves the ring |
| counters | `partB/{race_condition,mutex,spinlock}.c`, `partC/atomic.c` | one counter, or two | threads of increments and decrements | lost updates | final value |
| parallel pi, squares | `partA/pi.c`, `partA/square.c` | thread ids, sum | create, run, join | `pthread_create` may fail and is not checked | the sum |
| sbuf | `lab3/lab3-out/partA_server/sbuf.c` | ring, `front`, `rear`, three semaphores | `sbuf_insert/remove/init` | waits in sequence, int overflow | bounded FIFO, drained |
| web server | `partA_server/web-server.c` | client sockets, files; sbuf and its workers, which nobody feeds | accept loop, `serve_client` | clients that leave, sockets never closed, a body without an end | who asks is answered, and with what it asked for; sockets are closed |
| square services | `partA_server/square-*.c` | one socket, one buffer | request and response over TCP and UDP | lost, repeated and late datagrams, one client at a time | the answer is that to the question |
| ICMP tunnel | `partB_tunneling/*.c` | a packet buffer, duplicated by `fork` | send, receive and filter | encryption in place, checksum over the wrong bytes | a line reaches its addressee only |
| sniffer | `partC_sniffing/*.c` | one frame buffer, counters | receive, classify, filter | stale bytes behind a short frame | frames are counted and filtered as they are |
| packet forgers | `partD_spoofing/*.c` | a frame under construction | layout, checksum, send | carries of the checksum | what is sent verifies |
| shell scanner, parser | `lab2/{scanner.l,lex.yy.c,parser.y,parser.tab.c}` | input buffer, parser stacks | `yylex`, `yyparse` | refills that move a token, growing stacks, precedences | tokens and trees are those of the grammar |
| shell | `lab2/{main,ast}.c` | processes, descriptors, pipes | `Cmd_run` per command kind | `wait(0)` between the two sides of a pipe, inherited descriptors | foreground commands are waited for; the prompt comes back |
| mcc scanner, parser | `lab1/mcc/{scanner.l,lex.yy.c,parser.y,parser.tab.c}` | as the shell's, and a line number | `yylex`, `yyparse`, the printers of `ast.c` | as the shell's | as the shell's; a printed tree reads as itself |
| mcc back ends | `lab1/mcc/{compile-x64,compile-riscv,set}.c` | variable set, stack offset, output | `compile`, `riscv_compile` | operand order, stack and frame discipline | the code prints what the program means |
| mcc driver | `lab1/mcc/main.c` | options, files | `main` | uninitialised mode, unchecked `system` | the file asked for is made, and nothing else |
| mini-lib | `lab1/syscall/{mini-lib,notmain}.c` | none | `printf`, `printint`, `notmain` | `INT_MIN`, zero, a lone % | prints what it is given |
| compare-and-swap by hand | `partC/cas.c` | none | one locked instruction | - | - |
| lecture snippets | `lec4` to `lec6` | none | stand-alone demos | - | - |

How they interact.  The test programs of lab4 call their data structure from several
threads and from `main`, which creates and joins them.  `web-server.c` was meant to hand
sockets to its workers through `sbuf`; the insert is commented out, so `main` serves
every client itself.  The square clients and servers, and the two ends of the tunnel,
talk over the network.  The compiler and the shell call `yyparse`, which calls `yylex` for
each token, and walk the tree it leaves in `root`; the shell's processes share
descriptors and pipes.  Nothing is persisted, so there is no crash recovery.

The hazards - interleavings between a read and the write that relies on it, locks given
up early or never, wakeups lost, datagrams lost or repeated, children reaped by the wrong
`wait`, buffers and stacks at their limit, values read after they went stale - are
listed line by line in `PROJECT.json`, each with the properties that watch it.

## 2. Modules and how they correspond to the code

All the modules use the same conventions.  A thread's program counter `pc[t]` names the
next access to memory that other threads use; thread-local statements before and after it
belong to the same action.  Plain `x++` on shared memory is a load into `tmp[t]` and a
store.  `malloc` succeeds and takes an address of a finite set; `heap` is what it has
handed out.  Variables marked *history* hold the abstract contents and are read by no
guard.  Definitions under a comment that begins with *Mutant* are not part of the system:
they are faulty variants of a definition, kept to show that each property can fail.

### Concurrent data structures

| Module | Models | State | Actions |
|---|---|---|---|
| `AbstractStack` | the promise of both stacks: each call takes effect in one step between call and return | `stack`, `op` | `CallPush`, `CallPop`, `DoPush`, `DoPop`, `Return` |
| `LfStack` | `lf-stack.c` | `top`, `size`, `next`, `value`, locals | `PushLoad` 27-28, `PushCas` 29, `SizeLoad`/`IncStore` 30, `PopLoad` 41-43, `PopNext` 44, `PopCas` 45, `SizeLoad`/`DecStore` 46, `PopValue` 47 |
| `LfStackTest` | `partE/test-stack.c` on top of `LfStack` | `left`: calls still to make | `TestCall`, `TestStep` |
| `ConcurStack` | `concur-stack.c`; critical sections are two steps, so that it is the mutex that makes them one | `mu`, `top`, `size`, nodes | `Lock`, `PushLink`, `PushTop`, `PopRead`, `PopUnlink`, `Unlock` |
| `AbstractQueue` | what `lf-queue.c` promises with one enqueuer: a FIFO that starts with the dummy's 0 and keeps its last element | `queue`, `op` | as `AbstractStack` |
| `LfQueue` | `lf-queue.c` | `front`, `rear`, `size`, nodes, locals | one per shared access; `crash` when a link that was never written is followed |
| `LfQueueTest` | `test-queue.c` on top of `LfQueue` | `left` | as `LfStackTest` |
| `ConcurHash` | `concur-hash.c`; bucket = sequence of nodes; insert, delete and lookup's search are under the mutex throughout and are one step each, lookup's read of the value a second one; its second half is `test-hash.c`, the phases of `main` | `buckets`, `size`, nodes; `phase`, `done` | `Insert`, `Find`, `Read`, `Delete`; `Work`, `Finish`, `NextPhase` |
| `BoundedFifo` | the promise of both bounded buffers | `queue`, `got` | `Put`, `Get` |
| `ProducerConsumer` | `producer-consumer.c` | `mutex`, `buffer_t`, `item` | `Lock`, `Test`, `Relock`, `SpuriousWakeup`, `Produce`, `Consume`, `Unlock` |
| `Sbuf` | `sbuf.c` | `sbuf_t`, its semaphores | one action per `sem_wait`, `sem_post` and ring access |
| `AtomicCounter` | the promise of the counter programs: every change is one step | `count`, `left` | `Change` |
| `Sema` | `sema.c` with its `start` and `main` | `value`, `num`, locals | `WaitLoad`, `WaitCas`, `NumLoad`, `NumStore`, `Post` |
| `Spinlock` | `partC/spinlock.c` with its `start` and `main` | `n`, `num`, `locked` | `Enter`, `Cas`, `NumLoad`, `NumStore`, `Unlock` |
| `Counters` | the four counting programs; `program` says which | counters, `holder` of the lock | `Lock`, `FetchAdd`, `Load`, `Store`, `Unlock` |
| `ForkJoin` | `square.c`, `pi.c` and `lec5/test.c`: create, run, join, sum; a create past the system's limit leaves its id unset | `tids`, `running`, `finished`, `sum` | `Create`, `Run`, `Join` |

### Network programs

| Module | Models | State | Actions |
|---|---|---|---|
| `WebServer` | `main` and `serve_client`, and clients that connect, ask and leave | sockets held, backlog, files, who is served, the bytes in `body`, the number of descriptors | `Accept`, `Read`, `ReadFails`, one per kind of answer, `Close`; `Connect`, `Send`, `Leave` |
| `SquareReply` | what the servers answer to a text: an int, a float, or *flase* | - | - |
| `SquareTcp` | the TCP server, which serves one client to its end, and its clients | buffers, bytes under way, backlog | `Connect`, `Ask`, `AskAgain`, `Receive`, `Interrupt`; `Accept`, `Answer`, `HangUp` |
| `SquareUdp` | the UDP server and clients over a network that loses, repeats and reorders | bags of datagrams | `Ask`, `SayBye`, `Receive`, `Answer`, `Lose`, `Repeat` |
| `Tunnel` | both processes of each user: the header encrypted in place, the checksums over the wrong 20 bytes, the filter | each parent's header, packets under way, parents that have ended | `senddata`, `SendFails`, `Receive`, `Lose` |
| `Sniffer` | `main`'s loop over one buffer it never clears, the counters, the filters by protocol, MAC and IP address | the buffer's fields, counters | `Receive`, `ReceiveFails` |
| `Forger` | the ICMP forger, failed `ioctl`s included | headers as 16-bit words | `get_eth_index`, `get_mac`, `get_ip`, `Send`, `SendFails` |

### Shell and compiler

| Module | Models | State | Actions |
|---|---|---|---|
| `Flex` | the driver flex generates: matching through compressed tables, backing up, `yy_get_next_buffer` and its moves, the NULs and the saved character | the buffer and its pointers | the match, its actions and the refill |
| `ShellScanner`, `MccScanner` | the tables and rules of `lab2/lex.yy.c`, `lab1/mcc/lex.yy.c`: `Flex` instantiated with them | as `Flex` | as `Flex` |
| `Bison` | the parser loop bison generates: shift, reduce, goto, growing stacks, errors | the two stacks, lookahead | one per label of `yyparse` |
| `ShellParser`, `MccParser` | tables, actions and trees of the two grammars: `Bison` instantiated with them; `MccParser` has the tree printers too | as `Bison`; `root` | as `Bison` |
| `Shell` | `main`'s loop for one line and `Cmd_run`: a process table with parents and what each waits for, descriptors 0 and 1, pipes of bounded capacity, programs that write or copy | `procs`, `pipes`, `cwd`, `screen` | one per fork, wait, read, write and exit; what a line should write, a recursion over its tree, is in `MCShell` |
| `MccCode` | both generators as operators from trees to instructions, and the two machines that run them | registers, stack or frame, variables, output | one instruction at a time |
| `MccMain` | the driver: options, parse, assembly file, gcc and cp, which may fail unnoticed | files and what they hold | one per stage |
| `MiniLib` | `printf` with `printint`, and `notmain`'s loop under the alarm | the memory from the format on, position in it, output, clock | `Literal`, `Convert`, `Return`, `Hello`, `Sleep`, `Alarm` |

### Composition

`LfStackTest` extends `LfStack` and restricts it to the calls of the test program;
`LfQueueTest` and the second half of `ConcurHash` do the same.  `LfStack`, `ConcurStack`, `LfQueue`,
`Sema`, `Counters`, `ProducerConsumer` and `Sbuf` each instantiate their abstract
specification with a refinement mapping.  The scanners and parsers instantiate one
driver each; the parser modules also build the trees that `Shell` and `MccCode` are given.

The stacks and queues of partE, and their tests, are checked as they are.  Programs of one
lab that do not interact share an `MC` module that instantiates them (`MCPartD`,
`MCThreads`, `MCNetwork`, `MCShell`, `MCMcc`): a variable `prog` (`part` in `MCMcc`), chosen
in the initial state and never changed, says which of them a behaviour runs, and the
variables of the others stay at one initial value.  Such a run checks each program by
itself; its properties are conjunctions of the programs' own, defined and commented in
their modules.

Proof modules: `ProofFacts` (induction over sets, sums over threads, remainders, lemmas on
sequences), and `LfStackProofs`, `LfQueueProofs`, `HashProofs` and `ShellProofs`, each about
the module it extends; `ThreadsProofs`, `NetworkProofs` and `ConcurStackProofs` prove what
`MCThreads`, `MCNetwork` and `MCPartD` check: the first two about the instances in those
modules, the third about `ConcurStack`, instantiating `HashProofs` for the rest.

## 3. The runs

| Run | Instance | Shows |
|---|---|---|
| `lf_stack` | 3 threads calling freely, 2 pushes, 2 values | `ListRep` (the pointers spell the contents), `PopOwnsNode` (one pop per node), `PublishedFrozen` (published nodes are never written: what makes the unlocked reads safe), `ImplementsStack` (linearizability) |
| `lf_stack_test` | 1 pusher, 1 popper, `TESTSIZE` 2 | no pop misses a value, the list holds what it should, the retry loops end |
| `lf_stack_test_size` | 2 + 2 threads, `TESTSIZE` 1 | **violation**: the assertion of `partE/test-stack.c:48` fails when two plain `size++`/`size--` (`lf-stack.c:30`, `:46`) overlap |
| `spinlock_num` | 3 threads, 2 iterations | **violation**: the assertion of `partC/spinlock.c:60`.  `locked` is set once (line 17), the failing compare-and-swap stores 1 into it and the next turn (line 18) expects a locked lock |
| `part_d` | stack: 3 threads, 3 addresses, 2 values; hash test: 2 threads, 2 keys each, 1 bucket, 4 addresses | mutex discipline, `size` agrees with the list, no dangling node and no leak, linearizability while addresses are freed and reused; the table owns exactly the allocated nodes and the test's assertions hold |
| `concur_hash_delete` | 2 threads calling freely, 4 keys in 1 bucket | **violation**: `hash_delete` answers 1 for a key that is there (`concur-hash.c:74` against the comment of line 65) |
| `threads` | producers and consumers: 2 and 3, 2 slots; sbuf: 2 and 2, 2 slots, 4 inserts; counting programs: 3 threads, 2 iterations, 1 of them counting down; 1 permit; 4 threads to create with room for 3 or 4 | both buffers are FIFO queues of bounded size, no lost wakeup (`NotAllAsleep`), the semaphores' promises and the comments on `front` and `rear`, items flow for ever, everything inserted is removed; permits conserved; what the joins leave is right under a lock, an atomic and the semaphore, and within its bounds where it races; counting under a lock is atomic counting; the mains end |
| `lf_queue` | 1 producer, 2 consumers calling freely, 2 enqueues, 2 values | with one producer the list is whole and every call linearizable |
| `lf_queue_test` | main, 2 enqueuers, 2 dequeuers, `TESTSIZE` 1 | although two threads enqueue at once, no dequeue crashes or misses a value: they take the dummy and all but the last of main's nodes |
| `network` | 2 web clients, 2 files, one shorter than `body` (2 bytes) and one longer, 1 or 2 descriptors; 2 TCP clients; 1 UDP client asking 3 times, 2 faults; a tunnel of 2 users, 2 lines each, 1 loss; 3 frames of 10 kinds; 4 values for each word of the forger's address | answers belong to the question and the client they are for, with stale bytes at most behind a file; a socket leaks only with a client that was told nothing; frames are counted, filtered by address and forged as their bytes say; who asks is answered, save in the cases each module names |
| `shell` | texts of up to 3 characters of 7 kinds, one of 5, buffers of 2 or 4, reads of 3; stacks of 2 to 6, lines of 7 tokens; 4 programs in every kind of command, pairs of these in sequence and in pipes, some triples; pipes of 2 items | tokens are longest matches, trees those of the grammar; `wait(0)` reaps the child just forked, and never fails; at the prompt the foreground is done and its output on the screen; the prompt returns exactly when no pipe is overfilled |
| `mcc` | texts of up to 3 characters of 8 kinds and words around `print`; stacks of 2 to 9, programs of 8 tokens; expressions of depth 2, some of 3 and 4, 5-bit ints, both machines; every combination of options; 6 formats, with and without another string behind them, every 5-bit int | tokens and trees as above, trees print back; the code prints what the program means (x64 with each subtraction reversed, section 5), on a level stack and inside the frame; with `-S` or `-c` the output promised is the only file made, whichever tool fails, and is there if none does; `printf` prints its arguments (nothing is claimed of `%d` with 0 or the least int) and reads past its format only after a % at the end |

### Bounds

Threads: two contending threads produce every race on one compare-and-swap or one
mutex; the third covers a step of somebody else between the two.  Pushes and enqueues are
bounded by the number of addresses (two nodes are enough to have a stale top that is not
NULL, three to have a queue in which front, rear and a middle differ).  Iterations,
`TESTSIZE` and inserts are bounded at two or four: the second iteration is the one that
finds the state the first one left.  `N = 2` makes full, empty and in-between ring states,
and wrap-around, all reachable; three consumers over two slots make more sleepers than
signals.  In `sbuf` `IntMax = 7` is beyond the four inserts; with `IntMax` below them TLC
finds `FrontAndRear` and `ImplementsFifo` violated, as the ring really is corrupted after
2^31 inserts (section 5).

The scanners' buffers start at two or four characters and the parsers' stacks at two
entries, where the code has 16384 and 200, so that every refill, move and growth happens
on inputs of three to five characters and seven or eight tokens, and a stack overflow is
reached too.  With one web
descriptor a single leak uses up the server, and a GET finds none left for its file;
with two a file can be sent, and a second one after it into the same `body`: the body of
two bytes is filled by one file and not by the other, so `strlen` ends in it or runs on.
`body` starts with any bytes, and between two answers other calls may overwrite any of
them (they share the stack); `Junk` stands for every byte they leave, and a length of
`BodySize + 1` for every length beyond the array.  Frames of 20, 24 and 33 bytes end
before the IP protocol, behind it, and inside the addresses.  A UDP client that asks three times
and suffers two faults can be answered late, twice, and in the wrong order.  Five-bit
ints make the arithmetic of the generated code and of `printint` wrap and meet the least
int.  A pipe of two items is overfilled by a program that writes three and not by one
that writes one.

Symmetry is used in `part_d` only, over the stack's threads and over addresses, and no
liveness property is checked there.  `CHECK_DEADLOCK FALSE`
stands where programs end or may wait for a user who says nothing; what must not stop
is then a liveness property.

### Fairness

Weak fairness for every thread, as a whole (`WF_vars(Step(t))`): the scheduler does not
stop a runnable thread for ever.  No lock is assumed to be fair, so nothing is claimed
for an individual waiter; the liveness properties are about the whole program.  In
`ProducerConsumer` spurious wakeups may happen at any time and are not fair; `ItemsFlow`
is claimed for the executions in which they do not recur for ever.

The web server and the TCP server are fair, and so is a client that has been sent an
answer; connecting, asking, leaving and interrupting are up to the users and are not.  In
`SquareUdp` and `Tunnel` what is under way is received in the end unless it is lost: a
loss is a step that may or may not happen, and its number is bounded.  The
scanners, the parsers and `MiniLib` run alone, and the shell's processes run as one
program: each is fair as a whole (`WF_vars(Next)`).  In `ForkJoin` the created threads run
in the end, and so does `main`.

## 4. What is proved

Every safety property that a run checks of lab4 and of lab3, every refinement, and what is
checked of the shell's waits is also a theorem: for any sets of threads, addresses, keys and
values, any number of slots, permits, iterations and calls, any clients, users, frames and
faults, any line.  What is assumed of the constants stands as a named
assumption in the module that declares them, and the runs evaluate it: NULL is no address,
the roles are disjoint, sets that are counted are finite, sizes are naturals.  A theorem
that needs more says so in its statement, and the need is argued below.

Each proof goes by an inductive invariant, which TLC checked before it was proved.  What
the runs check is seldom one: it says nothing of a thread between its read of shared
memory and the write that relies on it.

* **`LfStackProofs`** - `TypeCorrect`, `ListIsStack` (`[]ListRep`), `PopsOwnTheirNodes`
  (`[]PopOwnsNode`), `NodesFrozen` (`PublishedFrozen`) and `Linearizable`
  (`Spec => ImplementsStack`).  `IInv` adds to `ListRep` that a push's node is its own and off
  the stack (`PrivateOK`), that it is linked to the top the thread saw (`LinkOK`), that a
  pop only holds published nodes (`OldOK`), that what it is about to install is still that
  node's link (`NextOK`, which is where "published nodes are frozen" enters) and that the
  stack is made of published nodes (`StackOK`).  For the refinement the swaps that hit are
  the points at which calls take effect, and so is the load that finds the stack empty.

  Of the test program: `NeverEmpty` (`[]NoPopComesBackEmpty`) and `NothingLost`
  (`[]ContentsAtJoin`).  The argument is a balance (`BalanceOK`): the length of the list and
  the pushes due are main's share and the pops due.  Sums over the threads are sizes of sets
  (`Units` in `ProofFacts`), so that a step changes them by one element.

* **`ConcurStackProofs`**, the mutex stack - `CriticalSections` (`[]MutexDiscipline`),
  `SizeAgrees` (`[]SizeIsLength`), `HeapOwned` (`[]HeapIsOwned`) and `Linearizable`.  `IInv`
  adds that what a thread has read in its critical section still holds when it acts on it
  (`LinkOK`, `UnlinkOK`), because nobody else is inside (`Alone`), and that two pushes never
  fill the same node (`MadeApart`), which is what reuse of freed addresses puts at risk.

* **`HashProofs`**, the hash table - `OwnsHeap`: for any callers the chains hold the
  allocated nodes, each once and in its key's chain.  Of `test-hash.c`, whose keys are apart
  (`Setting`): `TestOwnsHeap`, `LookupsAnswer`, `SizesAgree`, and `DeletesEmpty`, the assertion
  at the end.  That one is the surprise, as `hash_delete` frees the first node of the chain
  whose key is *not* the one asked for.  The reason it holds: in each bucket there are as
  many nodes as deletes due (`DueOK`), and the last node of a chain, the first inserted, is
  one whose key's thread has another key of the same bucket still to delete (`EndsOK`), so no delete
  finds a chain made of its own key only.  This needs `BucketsShared`: a thread has at
  least two keys in every bucket it uses, as it has in the test, with 10000 keys for 128
  buckets.  It is not there for the proof's convenience: with a key alone in its bucket, or
  with three threads of one key each in one bucket, the assertion fails.

  `TableOwned` and `HashTestRight` in `ConcurStackProofs` state this for `MCPartD`:
  `[]TableOwnsHeap`, and `[]HashTestPasses` when `HashTestSize >= 2 * NumBuckets`, where
  keys go to buckets by their number.

* **`LfQueueProofs`** - with one producer (`OneProducer`, what the properties are claimed
  for): `TypeCorrect`, `ListIsQueue` (`[]ListRep`), `NeverCrashes` and `Linearizable`
  (`Spec => ImplementsQueue`).  The base of the invariant holds whoever enqueues: front and
  rear are the ends of the queue (`EndsOK`), a node being enqueued is its thread's own
  (`PrivateOK`), and as long as what a dequeue took for the front is the front, what it
  read after it is in the queue (`SeenOK`).  One producer adds that links are written
  in time (`LinkOK`, `ListRep`).

  Of the test program, with any number of producers: `TestNeverCrashes` (`[]NoCrash`) and
  `TestNeverEmpty` (`[]NoDequeueComesBackEmpty`).  Producers may overwrite each other's
  links, but only behind the nodes the dequeues to come will follow (`LinksOK`, `SafeOK`),
  of which main has made one more than there are dequeues (`EnoughOK`).

* **`ThreadsProofs`** - `ProducerConsumer`: `TypeCorrect`, `OneInside` (`[]MutexDiscipline`),
  `NobodyLeftAsleep` (`[]NotAllAsleep`) and `RingIsQueue` (`Spec => ImplementsFifo`).
  `SomeAwake` is stronger than `NotAllAsleep`: a consumer is awake whenever there is an item,
  a producer whenever there is a slot; `BodyOK` says that a thread past its `while` loop still
  finds what it found there.  `Sema`: `PermitsKept` for any number of permits - a swap that
  hits has seen a permit (`SawPermit`) - and, for one, `CountedAtomically`, as the only
  holder's loaded `num` is still `num` when it stores (`LoadedOK`).  `ForkJoin`: the sum at the
  join, for any number of jobs (`ForkSum`); that the recursive function `SumTo` exists is
  proved by induction there.

  `Counters`: `JoinedRight`, the assertions after the joins, and `CountsAtOnce`: the locking
  programs implement `AtomicCounter`.  Under a lock the counter is what has been stored
  (`CountOK`), since nobody changes it between a load and a store (`LockOK`); without one, no
  update counts twice.  The plain counter of `atomic.c` ends at 2 or more (`TwoOK`: with two
  iterations or more, the last store is some thread's last).

  `Sbuf`: `SbufTypeCorrect`, `Exclusion`, `PromisesKept`, `CommentsHold` and `BufferIsFifo`.
  `SbufIInv` accounts for every slot and every item: free, promised to a thread by a
  `sem_wait`, in the ring, or not yet announced (`ItemsOK`, `SlotsOK`); the ring spells the
  queue from `front` on (`SbufRingOK`).  All of it assumes `FewInserts`: no more inserts than
  an int can count, after which the ring really is corrupted (section 5).

  For `MCThreads`, from these: `SbufKeepsPromises`, `TwoQueues` (both assume
  `MaxInserts <= IntMax`, as above), `NoPermitLost`, `AssertionsHold` (`[]JoinedWithTheSum`)
  and `PlainCountsAtomically` (`CountsAtomically`, with the one permit that `main` of `sema.c`
  gives).  `EveryProgram` reduces the composed specification to each program's own.
  (`ConcurStackProofs` instantiates `HashProofs` instead, and `HashByName` shows that the
  definitions of the two instances are equal.)

* **`NetworkProofs`** - what `MCNetwork` checks, for any clients, paths, lines, frames and
  number of lost or repeated datagrams: `SocketsLeakOnlySo` (`[]OnlyUnansweredLeak`),
  `AnswersAlwaysBelong` (`[]AnswersBelong`) and `FramesAlwaysAre` (`[]FramesAreWhatTheySay`).
  They combine one invariant per program:
  - the web server (`WebIInv`): where `main` stands says what it has read from the client it
    serves and told it (`ServingOK`), whoever is in the backlog holds no descriptor and has
    been told nothing (`BacklogOK`), who has sent nothing has no request (`SilentOK`), and
    every byte of `body` is a NUL, junk or at its place in a file that somebody asked for
    (`BodyOK`): what may follow the file that is sent;
  - the TCP service: `AnswersMatch` is inductive with the variables' types (`TcpIInv`), as a
    client that asks has nothing of an earlier question under way;
  - the UDP service (`UdpIInv`): what is under way for a client was asked by it or answers
    what it asked (`OwnQuestions`, `OwnAnswers`), and as long as none of its datagrams was
    repeated it is at most one datagram about the latest question (`OnlyLatest`), which is
    why a late answer needs a repetition;
  - the tunnel (`TunIInv`): for each line and addressee, those shown and those under way that
    will pass the filter are no more than those typed by users who can reach it (`Budget`);
  - the sniffer (`SnIInv`): the counters count the frames received, and the buffer holds
    the latest frame as far as that was long enough (`LatestFrame`): its Ethernet header
    always, its protocol from 24 bytes on, its addresses from 34 on;
  - the forger (`LayoutOK`): `AddCarries` is the remainder modulo 65535, with 65535 for 0,
    so a checksummed header adds up to all ones, whatever the addresses.

  The sums over a packet's words are recursive functions; that they exist is shown by
  induction over the length (as for `SumTo`).

* **`ShellProofs`** - for any line: `WaitsForItsOwn` (`WaitReapsOwn`), `WaitsHaveAChild`
  (`[]NoWaitFails`) and `NothingLeftInForeground` (`[]ForegroundDone`).  Of all children of a
  live process at most the last one forked is not reaped, and then the process waits for it
  or is about to end (`ChildrenOK`), so `wait(0)` has no choice although the code gives it one;
  who waits has that child (`WaitersOK`); and the parent of a process in the foreground is in
  the foreground and waits for it (`ForegroundOK`).  A foreground process alive at the prompt
  would have a parent alive and waiting, older than itself (`ParentsOK`), and so on down to
  `main`, which is not waiting: `NothingLeftInForeground` is that induction over the process
  table.

Induction over finite sets and over the naturals is stated in `ProofFacts` for membership
in a set (`SetInduction`, `NatInductionOnSet`), from the well-foundedness theorems of the
library: the provers do not instantiate theorems that take an operator.

Only model-checked:

* liveness, which needs fairness and ENABLED, out of the prover's reach: `Terminates`,
  `BuffersFlow`, `MainsEnd`, `AnswersArrive`, `ShellGoesOn`, `PartsEnd`;
* of `LineIsDone`, that the line's output reaches the screen (`OutputArrives`): what a line
  should write is a recursion over its tree;
* scanners, parsers, printers, the generated code and `printf` (`LinesAreRead`,
  `ProgramsAreRead`, `CodeIsRight`, `PrintfIsRight`): recursive operators over trees and
  texts, whose correctness for every input would take an induction the prover cannot do
  here;
* `OutputAsAsked` of the driver: its model has no parameters, and the run visits every
  state there is, so a proof would say no more;
* the assertions that fail (section 5).

## 5. Divergences found

With a run that exhibits them:

1. `partE/lf-stack.c:30,46` (and in the same way `lf-queue.c:35,54`): `size` is a plain
   int changed outside the compare-and-swap, while the tests assert its exact value.
2. `partC/spinlock.c:17-18`: the lock excludes only on its first try.
3. `partD/concur-hash.c:74`: delete's search runs while the key matches.  The last
   assertion of `test-hash.c` still holds in the test because each call removes some node.

Stated by the models, and allowed for in their properties:

* `sbuf.c:7,17`: `front` and `rear` are never reduced, overflow after `INT_MAX` inserts
  and then give negative indexes.  No run counts that far; the model has the width.
* `lf-queue.c:31`: an enqueue writes `old_rear->next` before it knows that it is the one
  to follow, so with two enqueuers a late one overwrites the winner's link.  `LfQueue`
  models it (any number of `Producers`); the properties are claimed for one, and for the
  test program, which never gets that far.
* `lab1/mcc/parser.y:38`: the start rule returns before the end of the file; what follows
  a complete program is dropped in silence.
* `lab1/lab1.md:9` says that `-c` makes an executable; it makes an object file
  (`main.c:146`), as the option's own text says (`main.c:36`).  Without `-c` and `-S`
  the mode is never set (`main.c:133`): `lab1.md:149-153` makes an executable that way,
  the code as well an assembly or an object file.  `OutputAsAsked` therefore goes by
  the option given, and promises no kind where none is.  The status of `gcc` and `cp`
  is never looked at (`main.c:141`, `:154`, `:160`, `:173`, `:176`): when one fails -
  for `-S` and `-c` it is enough that `-o`'s name is absolute, since `./` is put before
  it - the exit status is 0 and there is no output.  Without `-o` the output may be
  named as the source is (`-S` of a file ending in s), and replaces it.
* `lab1/mcc/compile-x64.c:68`: `subq %rbx, %rax` subtracts the left operand from the right
  one; `CodeComputes` claims that and nothing else of it.
* `lab1/syscall/mini-lib.c:50`: `printint` prints nothing for 0, although `%d` is among
  what `lab1.md:3` and the comment of `mini-lib.c:61` say is implemented, and characters
  below "0" for the least int; `PrintfIsRight` claims nothing of either.
  `mini-lib.c:67-78`: after a lone % at the end of its format `printf` steps over the
  NUL and writes what lies behind, conversions included.
* `web-server.c:59`, `:67`, `:70-72`: `body` is not cleared, `fread` ends it with no NUL
  and `strlen(body)` bytes are sent, so bytes of an earlier answer, or of whatever else
  used that memory, may follow the file; and a file that holds a NUL is cut there.
* `web-server.c:65`: a GET for a file that cannot be opened is not answered and its
  socket never closed, which includes a file that is there when the client's socket is
  the last descriptor; a `read` that fails (`:33-36`) leaves the socket open as well.
  A client that leaves early may kill the server with SIGPIPE; one
  that says nothing keeps all the others waiting.
* `square-client.c:54`: an empty line sends no byte, and both sides wait for ever.
* `send_icmp.c:96`: the receiver's checksum is that of its own zero buffer, so only
  senders whose addressee has a name of one or two letters get through.
* `filter.c:167-183`: `filterByPort` compares the bytes as the network orders them with
  its argument, which `filter.c:144` calls the port value, answers false for a match
  where its comment (`:146`) has true, and looks behind 20 bytes of IP header whatever
  its length.  Nothing calls it, and it is not modelled.
* `packet-process.c:222`: an ARP frame is counted as "other" too.
* `lab2/ast.c:208`: the left side of a pipe is waited for before the right one starts; if
  it writes more than the pipe holds the shell never comes back.  `ast.c:227`: the right
  side of `>` is taken for a word whatever it is.
* `partA/square.c:26`: an unchecked `pthread_create` leaves an id unset, and the join adds
  an earlier result once more.  What a join of an unset id does is undefined; the model
  takes it to fail at once.

## 6. Not modelled

* The web server's workers: the line that feeds them is commented out
  (`web-server.c:157`), so they stay in `sbuf_remove`, which `Sbuf` models.
* `filterByPort` (section 5), the sniffer's printers (formatting), `packet_analyze`, which `main` no longer calls,
  and the empty functions of `promiscuous_main.c`.
* The TCP, UDP and ARP forgers: exercises with blanks, which do not compile.
* `partC/cas.c`: one locked instruction in assembly that no file calls; the lecture
  snippets, stand-alone demonstrations of language features.
* The floating-point sum of `pi.c`: what a thread computes is a table in `ForkJoin`.
* Of the generated scanners and parsers, the functions nobody calls (buffer switching,
  scanning strings, destruction) and bison's recovery after an error, which neither
  grammar asks for: an error ends the parse.
* Lengths in bytes: a command of more than nine words (`arg[10]`, `ast.c:147`), long
  names in `binPath[50]` and `cdPath[20]`, more than 256 variables (`set.c:24`), the NUL
  that `square-server-udp.c:61` writes behind a full datagram, the copies `strdup`
  makes in the hash table and delete never frees, `djb_hash`'s fixed modulus of 128
  (the callers pass at least as many buckets).  Words, names and payloads are values here.
* The prompt that a forked child prints a second time from the buffer of `stdio` it
  inherits (`lab2/main.c:13`): wording on the screen.
* Files that change by anything but a DELETE, and the wording of the web server's
  headers: its `Content-Length` is the number of bytes `GetBody` then sends.
* Time other than in `notmain.c`'s sleeps, each of which takes exactly its second:
  the five greetings or six of `AlarmEnds` are claimed for that.
* Directives around the generated code, logging and messages.  The tree printers of
  `lab1/mcc/ast.c`, which `main.c` does not call, are modelled: `PrintsBack` says that
  what they print reads as the same tree, and carries that little weight.

What would come next: the shell's lines composed with its parser, so that `Shell` runs what
`ShellParser` accepts; and a proof that a line's output arrives, with what a command still
has to write as the quantity that the pipes and the screen share.
