# Formal models of bjtu_projects

The repository is a collection of course projects in C and C++. This directory
holds TLA+ specifications of the ones that carry state, concurrency or
protocols, the TLC configurations that check them, and TLAPS proofs.

## 1. Inventory

| Component | State | Operations | Interaction | What is hard | What makes it correct |
|---|---|---|---|---|---|
| go-back-N (`network_theory`) | window, sequence counters, `num_active` at the sender; expected number and last acknowledgement at the receiver | `sendMessage`, `add_to_window`, `accept_acks`, `resend_window`; `receiveMessage`, `send_ack` | UDP datagrams both ways, a 5 s receive timeout | loss, late and duplicate acknowledgements, numbers reused modulo N, the full window | bytes delivered once and in order; the window drains; slots freed only when acknowledged |
| UDP connection, shells | socket, timeout | `connect`, `send`, `blocking_receive`, prompt loops | below and above gbn | timeouts | — (thin wrappers) |
| OS 1, transfer loop (`project_1`, `_1_1`, `_1_2`) | two accounts, a mutex or flags, loop counters | one turn: read, read, write, write, test | two threads on shared memory | interleavings of loads and stores, store buffers, starvation | turns are atomic; accounts balance; both threads finish |
| OS 2, memory managers (first, best, worst fit) | a byte array with boundary tags, a free list | `mm_request_*`, `mm_release_*` | one caller | long call sequences, coalescing, off-by-one remainders | blocks disjoint, user bytes untouched, maximal free blocks, the policy's choice |
| OS 3, page replacement | reference string, memory frames | OPT, LRU, CLOCK, FIFO, RAND | none | ties, edge of the string | each does what its name says |
| OS 4, simplefs | disk blocks, bitmap, cached descriptor block, open files | mkfs, load, store, create, destroy, open, close, read, write, lseek | a shell | caches, leaks, limits | files independent; blocks neither leaked nor shared |
| simplelog | log file, index file, fcntl locks, per-process buffers | `log_add_unit`, `log_write`, `log_view` | several processes share files | interleaved appends, lock release, crashes | records whole, in time order; views consistent; no deadlock |
| simplemonitor | lists of watched processes, timers | register, heartbeat, time request, restart, log | threads, Unix socket, signals, simplelog | races of heartbeat and timeout, failures between `connect` and `send`, the shell between a pid and its program, zombies, two timer threads | a lost process is replaced, a healthy one never killed, one copy at a time; who asks to be woken is |
| byyl compilers (scanner, recursive descent, LL(1), operator precedence, LR(0), infix to postfix) | grammars, tables, stacks, a queue of symbols that survives between files | one token, expansion, match, shift or reduction | none | table conflicts, ends of input, what one file leaves for the next | accept exactly their languages; end |
| k-means; red-black tree of the LR(0) generator; build trees | — | — | — | floating point; third-party; generated | not modelled |

The hazards that follow from this table, each at its line, are listed in
`PROJECT.json` with the properties that cover them.

## 2. What is modelled

| Module | Code | State | Actions |
|---|---|---|---|
| `GBN` | `network_theory/gbn_client`, `gbn_server` (`gobackn_protocol.cpp` twice the same, the shells, `udp_connection`) | the members of the sender's and of the receiver's `gbn_protocol`, `sendMessage`'s place in its loops, one queue per direction | one per turn of a loop or call that ends in the network: `BeginLine`, `add_to_window`, `listen_for_ack` (with `remove_from_window`), `timeout` (with `resend_window`), `sendMessageReturns`, `AcceptDatagram` and `RejectDatagram` (`receiveMessage` and `send_ack`), `LoseData`, `LoseAck` |
| `ByteStream` | what GBN promises | bytes submitted and delivered | submit, deliver the next byte |
| `Memory` | the processors the OS 1 programs run on | memory, one store buffer per thread | `Load`, `Store`, `Flush` |
| `TransferLoop` | the loop body of `project_1`, `project_1_1`, `project_1_2` | program counters, `tmp1`, `tmp2`, `r`, `count` | every load and store |
| `Peterson`, `MutexTransfer` | `project_1_1` and `project_1` | + flags and `will_wait`; + the mutex | every load and store of the entry and exit, every mutex call |
| `AtomicTransfer` | what they promise | the two accounts | one whole transfer |
| `SimpleLog` | `libsimplelog.c`, `index_func.c`, `log_func.c` | the two files, fcntl locks, the clock, each process's place and buffers | every file and lock call of `log_write` and `log_view`, `Crash`, `Tick` |
| `AtomicLog` | what it promises | committed records, views | commit, view |
| `BoundaryTags` | `mem_mgr_def.h` | — (operators on a memory) | the tag and list macros |
| `MemMgr` | `mem_mgr_ff.c`, `_bf.c`, `_wf.c`, `main.c`'s `test` | the managed memory, the user's blocks, the last answer | `mm_request_*`, `mm_release_*`, a refused request |
| `Allocator` | what they promise | the used blocks | serve, refuse, release |
| `ListHead` | `list_head.h` | — (operators on links) | `list_add_tail`, `list_del`, the cursor of `list_for_each_safe` |
| `Monitor` | `monitor_server.c`, `monitor_client.c`, `main.c`, `controled_proc/main.c` | the connections not yet accepted, the processes, the two lists and their threads, the main thread and its last message, the ring of time requests, its lock, the two time service threads | `start_client`, the heartbeat and time service threads of a program, each as a `connect` and a `send`; `crash`, `hang`, `client_fault`; every step of the server's threads between two accesses to what they share; `Tick` |
| `MCMonitor` | — | — | (a bound for each command) |
| `SimpleFs` | `simplefs.c`, `io.c`, `simple_shell.c` | the disk, the bitmap, the cached block of descriptors, the open files, the stored image | one per call of `simplefs.h`, `restart` |
| `FileSystem` | what SimpleFs promises | contents by name, handles, the stored contents | create, destroy, open, close, write, move, store, load, format, restart |
| `Grammar`, `ParserState` | the shapes the six compiler exercises share | files, queue, stack, output, verdicts | begin a file, give a verdict |
| `Scanner` | 实验一 | | one call of `scanner` |
| `Descent` | 实验二 | | one file (the `check_` functions are operators) |
| `LL1` | 实验三 | | begin, expand, match |
| `Precedence` | 实验四 | | begin, reduce, shift |
| `LR0` | 实验五 | | begin, shift, reduce, end |
| `Postfix` | 实验六 | | one symbol of `transform`, one quadruple |
| `Parsers`, `MCParsers` | the six `main`s | which exercise runs, on which files | the above |
| `GBNProofs`, `PetersonProofs`, `MutexProofs`, `MemMgrProofs`, `SimpleLogProofs`, `MonitorProofs`, `SimpleFsProofs` | — | — | theorems |
| `NumberLemmas` | — | — | lemmas on `%` and `\div`, on least and greatest elements, and induction up to a number |

A definition whose name ends in `_` and a fault (`add_to_window_NoWrap`) is the
definition after it with a plausible bug; each is used to see that a property
notices it, and none occurs in a specification.

### What is abstracted

- **GBN.** A byte is its position in everything typed, so a duplicate, a gap and
  a swap are all visible. `parse_valid_ack` and `parse_valid_datagram` are
  modelled by their verdict: what the two programs print for each other always
  parses. The draw `rand() % 5` that declares a datagram corrupt may reject any
  datagram (`rand` is never seeded, so a real run makes one fixed sequence of
  draws; the model makes all of them). The network loses messages and keeps
  their order. A datagram for which a queue has no room (`MaxFlight`) is lost.
- **The MOD macro** does not parenthesise its argument: `MOD(a + b, N)` takes
  `b % N` first. For the arguments the code passes the result is the same.
- **OS 1.** `int` values are `0 .. W-1` with wrapping; the width does not matter
  to the argument and the theorems hold for every `W`. `volatile` is what
  `main.c:7` says and no more: the compiler keeps program order, the processor
  may delay stores (x86-TSO). `mutex2`, which guards only `printf`, is left out.
- **simplelog.** A unit is one cell of description and one of content, so
  lengths are counted in cells; the four fields of an index record are four
  writes, as in the code. A viewer that meets a torn index reads fields, not
  bytes, out of step. Writes that fail (disk full) are not modelled. The
  processes are single-threaded.
- **Memory managers.** Every field of a tag is one cell (8, 1, 4, 4 and 8 bytes
  in the code); addresses, links and sizes are numbers kept in the cells, where
  the user's writes could overwrite them. `get_ratio_*` only reads; step counts,
  `randn` and the printed ratios are left out. The test never asks for
  `n <= 0` and never releases `NULL`, so those early returns are not steps.

- **simplemonitor.** Time is counted in ticks. What the code compares with the
  clock is kept as the ticks since (`age`) or until (`left`, `due`, `nap`). A
  thread that can run does so before the clock ticks: what the programs do
  between two `sleep`s takes no time worth counting beside seconds. The thread
  number that the duplicate check compares was never written into the entries, so
  whether it matches is nondeterministic. `sendto` to a process that has died raises
  SIGPIPE, which nobody handles: it ends the server, or the program that sends to a
  server that has ended.

  A message is a `connect` and a `send`, with a queue of `QLEN` connections before
  `accept`, and the process or the client can fail between the two. If it hangs, the
  connection is stuck and the main thread waits in `recvfrom` for ever. If it dies,
  `recvfrom` returns 0, which nobody looks at (`monitor_server.c:245`), and `msg` says
  what it happens to say: the message before, which is handled again, or, as it is
  never initialised, nothing known (`unknown_msg`). The history variable `cut`
  remembers that such a failure has occurred.

  `exec_cmdline` runs `sh -c` (`monitor_common.c:15`). For most commands the shell
  becomes the program. For those of `Wrapped` it forks and waits: the pid that the
  server watches and kills is the shell's, which the program survives, and the
  heartbeats name the program's own pid, which is in no entry. A shell that ends
  when its program does is one step with it.

  Left out: the log thread, `daemonize`, `already_running`, system calls of the server
  that fail, the 128th entry of a list, and descriptors that children inherit. A
  client's program keeps its client's connection open, so that a client that dies
  behind its fork leaves the main thread waiting (`stuck`) where one that dies
  before it gives the end of a connection; both are modelled for a program that
  has been started, so the second leaves one unwatched program more than in the code.
  The server's children hold its listening socket after its end, so that a program
  may then wait where the model's `connect` fails.
- **simplefs.** A byte is the write it came from and its place in it; a block is
  zeros, descriptors, directory items, data or the bitmap. `FD_CNT`,
  `DIR_ITEM_CNT_PER_BLOCK` and the sizes are constants. The client keeps the
  discipline of the shell, with more freedom (`lseek`, handles that stay open):
  one handle per file, closed before `rm` and before `storefs`; `loadfs` after
  `mkfs` (`mkfs` alone leaves the bitmap, the cached block and the handles of
  the system before); a write inside one block, beginning at most at the end of
  the file and ending before `MAX_FILE_LEN`. Outside it the code is wrong, see
  section 5. A `touch` may find the disk full: its item then goes to block 0 and
  the file is lost, and a search for any missing name meets the state the code
  calls impossible. `sf_root_find_file` returns `unsigned`, so to `touch` that
  error is a descriptor and the name exists; opening or removing such a name would
  go on with a descriptor that is none, and is left out. Reads ask for any count.
  `sf_directory` only prints.
- **Compiler exercises.** A token is its symbol, `12` any number, `do` any reserved
  word. What the scanner writes for the parsers is kept line by line: a class and a
  value, and after `/` and the reserved words no value. `fscanf("%d, %s")` reads
  those lines as C does: it takes the next line's class for a missing value, and a
  value where it looks for a class is read when it is a number, loses its sign, or
  stops the reading there for ever. Characters, class codes and formatting are left
  out otherwise. A parser reads its whole file in one step, as it writes nothing
  and asks nobody meanwhile; a program that goes round one loop for ever has
  `ForEver` on its stack. A state of the LR(0) automaton is its set of items, so
  the numbering of states is left out; the goto table is `state_go`. A quadruple's
  temporary is the tree it names. Of a single operand the quadruple's search passes
  the terminator, and what lies behind it is not modelled (`"undefined"`). The
  scanner's texts end with or without a newline; its characters are one or two of
  each kind the code tells apart. Reading the LR(0) grammar and printing tables are
  left out.

## 3. The runs

| Run | Property | What it shows |
|---|---|---|
| `gbn_short` | `WindowHoldsActive` | the `num_active` slots after the last acknowledged one hold the right bytes and the others are free |
| | `WindowCount` | `num_active` and the sequence numbers agree modulo N |
| | `AcksWithinWindow` | no acknowledgement in flight, however old, covers a slot that is not in the window |
| | `OnlyFirstByteDisowned` | the only byte the sender can free without the receiver having it is the very first |
| | `DeliversStream` | refinement of `ByteStream`: once and in order |
| | `LineReturns` | every line returns to the prompt unless that first byte was disowned |
| `gbn_full_window` | `AnnouncedWindowIsEmpty` (violated) | a line of exactly N bytes is announced as sent while nothing is acknowledged |
| `peterson` | `MutualExclusion`, `NobodySeesImbalance`, `TurnsAreAtomic`, `BothFinish` | correct on a sequentially consistent machine |
| `peterson_buffered` | `NobodySeesImbalance` (violated) | with store buffers both threads enter and an update is lost |
| `mutex_transfer` | `OwnerAlone`, `NobodySeesImbalance`, `TurnsAreAtomic`, `AllFinish` | the mutex version is correct with store buffers too, the loop's test included |
| `simplelog` | `IndexLeadsToRecords` | each index record finds its own description and content |
| | `ImplementsAtomicLog` | refinement of `AtomicLog`: whole records in time order, views that are a range at one instant |
| | `ViewFailsOnlyBeforeFirstRecord`, `NobodyWaitsForever` | a view exits for a missing file only before anything was logged; nobody blocks, although the "unlock" is a request for a read lock |
| `simplelog_killed` | `IndexIsWholeRecords` (violated) | a writer killed inside an index record shifts all later ones |
| `mem_mgr` | `UserDataIntact` | no tag, link or other user's block ever lands in a user's cells |
| | `RingIsFreeBlocks` | the ring holds exactly the free blocks, both ways, in the policy's order |
| | `ImplementsAllocator` | refinement of `Allocator`: no free neighbours stay apart, each request is served from the first, shortest or longest stretch, and refused only when none is long enough |

| `monitor` | `OneCopy` | of a submitted command at most one process executes: the silent one is killed before the next is started. Of commands that are not behind a shell and, by a message handled again, not watched twice |
| | `HealthyNeverKilled` | a process that has not failed is never killed, whatever beats, registrations and restarts do to its time, while the server is up and nothing has failed between its `connect` and its `send` |
| | `LostIsReplaced` | a watched process that ended, or a controlled one that hangs, is replaced although zombies look alive, unless the server ends or the command is watched twice |
| | `CursorsAreLinked` | neither time service thread stands on a freed entry |
| | `SleeperIsWoken` | who asks to be woken is, in spite of the gap between the duplicate check and the insertion, unless the server ends or something fails between its `connect` and its `send` |
| `monitor_two` | `EntryIsItsThreads` (violated) | with two programs both watching threads work on entry 0 |
| `simplefs` | `BlocksDisjoint` | no block belongs to two files, or twice to one, or is free in the bitmap while used |
| | `DirMatchesFds` | directory, its length and the descriptors agree, with one of them always in the cache only |
| | `ImpossibleMeansLost` | every listed name is found, and the search meets the state the code calls impossible only on a full disk where a `touch` has lost its file |
| | `ReadsWhatIsThere` | a read of any count returns as many bytes as there are, those of its first two blocks out of buffer and disk as the file has them |
| | `ImplementsFileSystem` | refinement of `FileSystem`: every file reads as what was written to it, through store, load and restart |
| `parsers` | `OutputIsRight` | what each tool says of its first file, against its rules: maximal munch; the languages by derivation; operator precedence keeps every relation of its matrix in `f` and `g`, accepts every sentence and nothing unbalanced; quadruples that compute the expression |
| | `EveryParseEnds` | no loop of a tool goes round for ever on a text with a final newline or a file whose lines have values |

Every passing run but `parsers` also checks `TypeOK` of its module.

### Bounds, and why they are enough

- `gbn_short`: N = 4, lines of 0, 1 and 3 bytes, 7 bytes in all, 4 messages each
  way, 8 deliveries (60,628 states). Seven bytes wrap the numbers of four; a
  window of three can be sent, resent and have its copies in flight beside those
  of the next line. Lines stay below N: with lines of N or more the properties
  are false, which `gbn_full_window` shows at its smallest.
- Peterson and mutex: two threads as in the code, `Count` = 1 (two turns each, so
  that a thread comes back while the other waits), W = 3, store buffers of two
  where the machine has them (a turn makes two stores between fences).
- `simplelog`: two writers, one viewer, one crash anywhere, records of one or
  two units, three times (252,510 states): one record can be torn or orphaned
  before another is written and a view can overlap both.
- `mem_mgr`: 33 cells, requests of 1 and 9, all three policies (604,080 states).
  Five smallest blocks fit, so a block can be released between two free ones
  with a third free block elsewhere in the ring, before or after the place the
  grown block has to go; remainders of 0 to 3 cells are given away with the
  block; a request of 9 is refused while several smaller blocks are free. With
  fewer cells the worst-fit manager never has to move a grown block past another.

- `monitor`: one of four programs is submitted: one that beats and asks to be woken,
  one that only beats, one that beats behind a shell, and a normal one. It is
  started two or three times, with two failures, or one and a message taken twice
  (210,863 states): the process can crash or hang, its successor too, before, between and
  after `connect` and `send`, and a second thread can come to watch its entry. The
  ring has `MaxPid + MaxFaults` entries, as many as requests can stand in it. Time
  limits of three ticks with sleeps of one (three for the normal programs' thread)
  keep the order of the code's 10, 2, 10 and 1 s. Two programs are left to
  `monitor_two`: `INDEX_OF` makes the second one unwatched, so nothing of the above
  holds of it.
- `simplefs`: three names, a disk of seven blocks of two bytes of which three are
  reserved, files of three blocks, two descriptors in a block, one directory item
  in a block, two handles, counts of 1, 2 and 5, four changes (19,106 states): the
  cached block of descriptors changes, the directory grows and shrinks, a read goes
  through three blocks, and with the disk full a `touch` loses its file and the
  search meets the state of line 293.
- `parsers`: words of up to five tokens over `i ( ) + * 12` and of up to four over
  `i + * / 12 do`, each followed by a second file `i` where the queue is not cleared;
  words of up to five over the alphabet of the LR(0) grammar; all sentences of up to
  seven symbols; texts of up to three characters over twelve and of up to six over
  `d / *`, long enough for a comment with something in it, each with and without a
  newline at its end (211,891 states). Every production, table entry and kind of
  lexeme is used, and a line without value stands before every other line.
  `OutputIsRight` judges inputs for which the rules say one thing. It says nothing of
  texts with `**` in a comment, of words with an operand behind an operand or a `)` too
  many given to recursive descent, and of files with a line without value; of
  operator precedence it asks that it accept every sentence and nothing unbalanced,
  as `i+` and `()` it does accept. `EveryParseEnds` leaves out the texts and files on
  which the code does not end. Section 5 lists what happens there.

`MaxDelivered`, `MaxBytes`, `MaxFlight`, `MaxRecords`, `MaxUnits`, `MaxTime`, `MaxCrashes`,
`MaxPid`, `MaxStarts`, `MaxSubmitted`, `MaxFaults` and `MaxChanges` only cut behaviours short, each in the
guard of the actions it bounds.
Deadlock is not checked for GBN, which really stops: the client at its prompt and
the server in `recvfrom`, nor for the compiler exercises, which end. The other
systems have a step for their normal end or never stop.

### Fairness

- GBN: the client's and server's code runs by itself and the 5 s receive timeout
  always comes (weak fairness of `add_to_window`, `sendMessageReturns`, `timeout`).
  Strong fairness of the receptions says that a message sent again and again
  arrives at last and that the corruption draw does not hit every copy: without
  either, go-back-N promises nothing. The timeout is not fair to the receptions:
  it may come while an answer is under way.
- Threads: weak fairness of each thread's steps, store flushes included. Nothing
  is assumed of the order in which a mutex or a processor serves the threads.
- simplelog: weak fairness of each process; a lock is granted when it stays free.
  Crashes and the beginnings of views are never forced.
- simplemonitor: weak fairness of `Goes`, all that goes on by itself: something does
  while it can. The clock ticks when every thread that can run has done so, and what
  a thread does between two sleeps is finite, so each thread gets its turn. Clients
  and failures are never forced. The rwlock is granted when it is free.
- The compiler exercises are single-threaded and never wait: weak fairness of the
  next step.
- The memory managers and simplefs have no liveness property: every call returns.

## 4. What is proved

| Theorem | For | States |
|---|---|---|
| `GBNProofs!TypeCorrect` | every N >= 2, lines, bounds | `Spec => []TypeOK` |
| `GBNProofs!WindowCountCorrect` | every N >= 2, lines of any length, bounds | `Spec => []WindowCount` |
| `GBNProofs!WindowHoldsActiveCorrect` | every N >= 2, lines shorter than N, bounds | `Spec => []WindowHoldsActive` |
| `GBNProofs!AcksWithinWindowCorrect` | the same | `Spec => []AcksWithinWindow` |
| `GBNProofs!OnlyFirstByteDisownedCorrect` | the same | `Spec => []OnlyFirstByteDisowned` |
| `GBNProofs!DeliversStreamCorrect` | the same | `Spec => DeliversStream`, the refinement of `ByteStream` |
| `PetersonProofs!PetersonTypeOK` | every W and Count, store buffers of any size | `Spec => []TypeOK` |
| `PetersonProofs!PetersonExcludes` | every W and Count, no store buffers | `Spec => []MutualExclusion` |
| `PetersonProofs!PetersonBalances` | the same | `Spec => []NobodySeesImbalance` |
| `PetersonProofs!PetersonImplementsAtomicTransfer` | the same | `Spec => TurnsAreAtomic`, the refinement of `AtomicTransfer` |
| `MutexProofs!MutexTypeOK` | any threads, store buffers of any size, W, Count | `Spec => []TypeOK` |
| `MutexProofs!MutexExcludes` | the same | `Spec => []OwnerAlone` |
| `MutexProofs!MutexBalances` | the same | `Spec => []NobodySeesImbalance` |
| `MutexProofs!MutexImplementsAtomicTransfer` | the same | `Spec => TurnsAreAtomic` |
| `MemMgrProofs!MemMgrTypeOK` | every `MEM_SIZE` > 5, any requests `main.c` can make | `Spec => []TypeOK` |
| `MemMgrProofs!MemMgrKeepsData` | the same | `Spec => []UserDataIntact` |
| `MemMgrProofs!MemMgrRing` | the same | `Spec => []RingIsFreeBlocks` |
| `MemMgrProofs!MemMgrAllocates` | the same | `Spec => ImplementsAllocator`, the refinement of `Allocator` |
| `SimpleLogProofs!LockExcludes` | any writers, viewers, units, records, kills | `Spec => [](TypeOK /\ LocksExclude)` |
| `SimpleLogProofs!IndexLeads` | the same | `Spec => []IndexLeadsToRecords` |
| `SimpleLogProofs!ViewFailsEarly` | the same | `Spec => ViewFailsOnlyBeforeFirstRecord` |
| `SimpleLogProofs!LogIsAtomic` | the same | `Spec => ImplementsAtomicLog`, the refinement of `AtomicLog` |
| `MonitorProofs!MonitorTypeOK` | any programs, periods, clients, failures | `Spec => []TypeOK` |
| `MonitorProofs!CursorsStayLinked` | the same | `Spec => []CursorsAreLinked` |
| `MonitorProofs!AtMostOneCopy` | the same, and each watching thread on an entry of its own command (`Lone`) | `Lone => (Spec => []OneCopy)` |
| `MonitorProofs!HealthySurvive` | the same | `Lone => (Spec => HealthyNeverKilled)` |
| `MonitorProofs!PidsChangedByTheirThreads` | the same, and `INDEX_OF` as it was meant | `EntrySize = 1 => (Spec => EntryIsItsThreads)` |

| `SimpleFsProofs!Soundness` | every disk, directory and descriptor layout, any names, handles, counts (`FsAssumption`) | `Spec => []IInv` |
| `SimpleFsProofs!Typing` | the same | `Spec => []TypeOK` |
| `SimpleFsProofs!SearchFinds` | the same | `Spec => []ImpossibleMeansLost` |
| `SimpleFsProofs!BlocksAreDisjoint` | the same | `Spec => []BlocksDisjoint` |
| `SimpleFsProofs!DirectoryMatches` | the same | `Spec => []DirMatchesFds` |
| `SimpleFsProofs!ReadsAreRight` | the same | `Spec => []ReadsWhatIsThere` |
| `SimpleFsProofs!IsAFileSystem` | the same | `Spec => ImplementsFileSystem`, the refinement of `FileSystem` |

**GBN, any lines.** `TypeOK` is inductive. Its only arithmetic is that `MOD`
returns a sequence number, from `NumberLemmas`. `WindowCount` is inductive given
`TypeOK`: a line's byte adds one to both sides, an acknowledgement subtracts the
same `num_deleting` from both, and the rest leaves them alone; the work is in
`x % N` of sums and differences, whose lemmas are in `NumberLemmas`.

**GBN, lines shorter than N.** The code keeps remainders and the properties are
about bytes, so the invariant reads every number as the remainder of a count
(`NumbersAreCounts`): of the bytes freed, sent, taken. Two numbers then mean the
same byte when their counts are less than N apart, and the rest of the invariant
says that those the code compares are. `LineFits`: a line begins with an empty
window and leaves it below N. `NoneTooOld`: no datagram in flight is N - 1 or more
bytes behind what the receiver has by then, or behind a datagram sent before it;
the bound is not on time, it follows from the order of the queue, because what
is sent again is at most a window behind what was sent before. So a datagram with the expected
number is the next byte, and `Deliver` is a step of `ByteStream`. `AcksCount`: the
acknowledgements in flight are remainders of counts that never decrease from what
is freed to what is taken; the counts are a witness function, as the code does not
keep them. `remove_from_window` then computes the difference of two counts and
not only of two numbers. The hypothesis `LineLengths \subseteq 0 .. N-1` cannot
go: `gbn_full_window` is the counterexample.

**Peterson.** `TypeOK` says nothing of what a buffer holds back, so it needs
`StoresFit`: every pending store fits its location; it holds for buffers of any
size. Neither safety property is inductive. `LockInv` adds that no store
is buffered, that a thread's flag is up between `raise` and the next `lower`, and
that past `yield` `will_wait` names the *other* thread when `t` uses the accounts
and the other is past `yield` too: two threads in the body would need
`will_wait` to name both. `IInv` adds to it, for the balance, that the copies
the thread in its turn holds are still what memory holds (which mutual exclusion
keeps true), that the accounts add up to zero modulo W, through the store under
way, and that a thread that has left did so by its counter. The refinement maps
the accounts to memory, with the store still to come of a thread in the middle
of its transfer counted as made: its first store is the atomic step, its second a
stutter. The hypothesis `BufferSize = 0` cannot go: `peterson_buffered` is the
counterexample.

**Mutex.** With store buffers memory is not what the owner sees. `OwnerAlone` says
that only the owner has anything pending; `PendingOnce` that it has at most one
store to each account pending, so that what a load returns (`Seen`) is that store
or memory, whichever the buffers' size and the flushes so far. The balance and the
refinement are then Peterson's, with `Seen` for memory: a flush changes neither
account as the owner sees it, and `pthread_mutex_unlock` drains the buffer, so
the next owner sees the same.

**Memory managers.** The memory is one array of numbers and nothing in it says
where a block begins; what is invariant is that it can be *read* as blocks.
`MemInv` says that there are fronts `T`, sizes `sz` and a set `R` such that (`Tiled`)

- `Layout`: a block ends where the next one begins, the first at `MEM_START`, the last
  at `MEM_END`, and the anchor's block of size 0 lies outside; `Tagged`: the four tags
  and links of each block are where the macros look for them, and every cell of a
  user holds his data and is no tag's;
- `Ranked`: `R` and the anchor are one ring, next and prev inverse to each other,
  along which a numbering grows. Without the numbering the links could form several
  rings, and a search that starts at the anchor would miss blocks. `Sorted`: along
  the numbering the policy's key (address or size) never falls; worst fit's ring, whose
  sizes shrink, is read backwards for that;
- `FreeTags` and `Users`: `R` is the set of blocks tagged free, the others are the
  users', one each and long enough;
- `Joined`: no two neighbours are free. A request does not need it, a release does:
  it looks at one neighbour on each side only, and the refinement needs the
  stretches of free memory to be single blocks.

The lemmas follow the program from the macros up: what one `SET_` does to `Tagged`,
what `LIST_ADD_` and `LIST_DEL` do to the numbering, splitting and joining to `Layout`,
then requests and releases of the three managers. While a grown block waits to be
moved to its place `Sorted` holds of the others only, which its last two
arguments say. The searches of the code are `Walk`s of `MaxBlocks` steps: blocks
are at least six cells apart, so the ring has fewer and the walk has arrived
(`WalksOn`). The refinement reads used blocks and free stretches off `T`, `sz` and
`R`; the three searches end at the first, shortest and longest fitting stretch by
`Sorted`.

**simplelog.** `LocksExclude` says who holds which lock at every line: a writer
holds the write lock from the lock to the close or its death, the failing
"unlock" included, and then nobody else holds one. So between `log_write`'s two
writes to the log nobody appends to it, and between the four to the index nobody
appends to that: `LogShape` and `IndexShape` say what the writer at work has
written so far, and that the index is otherwise four fields to each committed record. `Committed` is
`IndexLeadsToRecords` with what makes it inductive, that a record ends within the
log: files only grow, and a piece of a sequence does not change when something is
appended (`SubSeqOfPrefix`). `FilesExist` orders the creation of the two files
against the first commit. Descriptions and contents that a killed writer leaves in
the log are in nobody's way; part of an index record is, hence `torn`.

For the refinement, a record enters the abstract log with the last of its index
fields, and a view happens at its last step. `TimesGrow`: the clock never goes
back and one writer at a time is between the reading of the clock and the commit,
so times grow along the records. A view needs several steps, and `ViewShape` says
what it has at each: it skipped the records `1 .. m`, all before its range, shows
`m + 1 .. n`, all in it, and stands before or inside the next one. No writer changes
that under it, because a view keeps its read lock from `ropen` to its end
(`ViewLocks`) and a writer at work would hold the write lock. At the end of the index,
or at a record after the range, `TimesGrow` then makes the stretch `m + 1 .. n` all the
records of the range, which is how `AtomicLog!View` says it.

**simplemonitor.** The inductive invariant has two parts. `ServiceInv` holds
whatever `INDEX_OF` computes. A cursor that is on an entry of the ring is not
enough: the other thread, or the main thread, must not be able to unlink it, so
`CursorsHoldLock` says that a thread that goes through the ring holds the lock and
that its two pointers are neighbours. Unlinking leaves the rest a ring only if
next and prev are inverse to each other and there is one ring and not several
(`RingIsWhole`, by a rank that grows up to `HEAD`). What the other parts say is what
the steps need to be typed: that pids are given out in order and a connection's was
(`PidsInOrder`, `SendersStarted`, `MainKnows`, `NewIsKnown`).

`CopyInv` is the second part: at most one copy (`AtMostOne`), and while the server is
up what makes it so. An entry's thread and the entry agree on what they watch
(`EntriesMatch`, with the pid that only the thread knows between `fork` and the
store); a command whose registration is under way has no entry yet, and no second
registration (`AnnouncedDiffer`); whatever executes is registered, or about to be,
unless its command is behind a shell or watched twice (`Owned`); and the registration
that the main thread had last has its entry (`LastHasEntry`), so that handling it
again gives its command a second entry, and then `OneCopy` says nothing of it. As long as nothing is `cut`, the rest holds too:
every connection will have its message (`AllSend`), so that no command is watched
twice (`EntriesDiffer`). For the killing, `Fresh` bounds an age by what its
process still has to its next beat: the two add up to a heartbeat's period unless
a beat is on its way, between `connect` and the main thread's search, so an age
never reaches the timeout while the process runs. All of it needs that a thread
works on an entry of its own command, which `Lone` says of the constants: the
difference of the pointers is not divided by an entry's size again (`EntrySize = 1`,
the code as it was meant), or each list has one command (the code as it is). It cannot
go: `monitor_two` is the counterexample. TLC checked both parts on the 210,863
states of `monitor`, and on 180,606 with `EntrySize = 1`, before they were proved.

**simplefs.** One descriptor is read through a cached block of descriptors, one byte
of an open file perhaps through the buffer of its handle. The proof first looks
through the cache: the `Views` of a state are the descriptors `F` as the cache makes
them, the data blocks `D` and the taken ones `B`; a change of the cached block
(`sf_get_fd`) changes none of the three, which is what `sf_get_fd`'s write-back is for.
`IInv` says of the views

- `BlocksOwned`: the blocks of the directory and of the descriptors in use are taken,
  each once, and a block that is not taken is still zero, so a new directory block is
  empty. Blocks of a destroyed file stay taken (336), which is why this is not an
  equality;
- `Directory`: the directory's blocks come first, its items name descriptors in use, no
  one twice, by different names, and its length counts the descriptors in use. With it a
  search, which stops after as many items as the length says, has met every item;
- `Complete`: a descriptor in use that no item names (`Lost`) is there only while no
  block is free and the directory lacks one, as `touch` left them;
- `Covers`: a descriptor in use has a block for every byte of its length, and of the
  length its handle has, which the descriptor only gets at `close`;
- `Handles`: no two handles on one descriptor, and in a buffer one of its blocks or
  nothing;

and it says the same of the image of the last store, since `loadfs` makes that the
state. `OpenListed` adds that the file of an open handle is listed: a lost file is never
opened. `ImpossibleMeansLost`, `BlocksDisjoint` and `DirMatchesFds` follow from it.

What each operation does is said once, of the views: `Added` and `Dropped` of `touch`
and `rm`, `OpensAs`, `ClosedAs`, `ReadDone`, `WriteDone`. A write takes as many of the free
blocks as it finds, so it is shown to end where the first missing block would begin
(`WritePlan`), and nobody else's blocks are among those it took. `FileOf` reads a
file's bytes through the buffer of a handle; a file that is not open is read through one
that holds nothing (`Idle`). Moving a handle from block to block writes the buffer back
and so changes no byte of any file (`OnlyFile`); a write changes its file to
`Overwritten`, and no other. For the refinement the files are named by the directory,
and each command is the one step of `FileSystem` with its name, a refused one and a
`touch` that loses its file a stutter; `storefs` keeps all files because no handle is open then. TLC checked `IInv` on the
19,106 states of `simplefs` before it was proved.

Assumptions: `NAssumption`, `BoundAssumption`, `PetersonAssumption`,
`MutexAssumption`, `LoopAssumption`, `AccountsAssumption`, `BufferAssumption`,
`MemSizeAssumption`, `RequestAssumption` (`main.c:73` draws again until it holds),
`LogAssumption`, `MonitorAssumption`, `FsAssumption` (sizes are positive;
there is a reserved block for descriptors besides the bitmap's, and no file has more
blocks than are reserved, as `sf_destroy` clears the marks of that many; the directory's
length, at most the number of descriptors, fits in a file, as in the code; the
mark for no name is no name), each stated in the module that declares the constants and
evaluated by TLC in the runs, and the hypotheses named above.

**Only model-checked.** Liveness (`LineReturns`, `BothFinish`, `AllFinish`,
`NobodyWaitsForever`, `LostIsReplaced`, `SleeperIsWoken`, `EveryParseEnds`): the
prover does no liveness. The compiler exercises' `OutputIsRight` is about recursive
operators. Every other property of a passing run is a theorem, for all values of the
constants its module allows or under the hypotheses named above.

## 5. Findings

1. `gbn_full_window`: `window_empty()` and a full window are the same
   comparison; `sendMessage` says "WINDOW EMPTY & ALL BYTES SENT" for a line of N
   bytes of which none is acknowledged: after one round of waiting, which times out
   and sends the N datagrams once more, it ends, and what is lost then is not sent
   again.
2. `peterson_buffered`: `project_1_1` needs a barrier between raising its flag
   and reading the other's.
3. `simplelog_killed`: an index record is written by four calls and read as one
   unit of `INDEX_RECORD_SIZE`; a writer killed between them shifts the index.
4. `monitor_two`: `INDEX_OF` (`monitor_def.h:52`) divides the difference of two
   element pointers by the element's size once more, so every watching thread
   (`monitor_def.h:115-118`) gets index 0: the second program is not watched, and two
   threads watch the first.

Defects met while modelling, which the models leave outside their clients'
discipline or reproduce without a property against them:

- **simplefs.c.** A write of several blocks never advances in the caller's memory
  (494), and reads and writes of several blocks ask for `blk_idx + 1` without
  advancing it (442, 492): `ss_cat`, which asks for 256 bytes, gets the second block
  again in place of the third. A write that ends at `MAX_FILE_LEN` asks for a fourth
  block (466), one beyond the end wraps an unsigned difference (470). On a full disk
  `sf_create` writes the directory item to block 0 and the next search finds the
  state it calls impossible (215-224, 293). `sf_destroy` frees blocks 0 to 2
  instead of the file's (336). A free slot in the last directory block is refused
  (228) and a file there is not found to be deleted (269). `mkfs` keeps the bitmap, the
  cached block and the handles of the system before.
- **simplemonitor.** `sendto` to a dead process raises SIGPIPE, which ends the
  server (`monitor_server.c:383`), and likewise a program that sends to an ended
  server. A connection that ends without a message makes the server handle the one
  before again (`monitor_server.c:245`): a `NEW_PROC` gives the command a second entry
  and thread, and after the next failure each starts a copy. A peer that hangs
  after `connect` keeps the main thread in `recvfrom` for ever; nobody's heartbeat
  is seen any more and healthy processes are killed. What is killed is the shell of
  `sh -c` (`monitor_common.c:15`, `monitor_server.c:438`): where it has forked, the
  program goes on, its heartbeats name a pid that is in no entry, and every
  timeout starts another copy. Children inherit the server's and the client's
  sockets. A normal process that the server restarted and
  that dies again stays a zombie, looks alive and is not restarted. A refused
  duplicate gets no answer. The lists' 128 entries are not checked.
- **Parsers.** The scanner writes `/` and the reserved words without a value and the
  parsers read it with `fscanf("%d, %s")` (`project_1/main.cpp:78, 136`,
  `project_3/main.cpp:235`): a scanned `i/i` is rejected by recursive descent, and LL(1)
  and operator precedence read it for ever (`while (!feof(ifp))`). LL(1) and operator
  precedence do not clear `sym_queue` between files: what follows an accepted file
  is rejected. Recursive descent accepts `i)` and `i i`. Operator precedence accepts
  every non-empty balanced word, `i+` and `()` too, and reads below its stack on a
  closing bracket too many. The scanner seeks back from the end of a file without a
  final newline for ever when its last lexeme is a name, a number or one of
  `< > : /`, and `**/` does not end a comment. The postfix translation groups
  operators of one rank to the right (`a-b-c` becomes `a-(b-c)`), runs past `#` on a
  single operand, and its temporaries' names can be identifiers of the source.
  LR(0) reads `V_list` one place past its end, takes an unknown symbol as column
  -1, and overwrites a table entry in conflict silently. The first turn of its loop
  at `LR0_parser.c:306` reads `p->n` through a container that holds a production and
  no item; only the layout of the heap makes that the number it should be.

## 6. What is not modelled, and the plan

Not to be modelled: k-means (floating point), the red-black tree of the LR(0)
generator (third-party), page replacement (five independent loops over a random
string, each of which leaves only a count), build trees and generated files,
socket set-up and printing, the monitor's log thread and its start as a daemon,
system calls that fail other than as said in section 2. `project_1_2`, the loop
without a lock, loses updates on purpose: its loop body is `TransferLoop` and no
property is stated of it.

Of what the passing runs check, only liveness and `OutputIsRight` are not proved: the
prover does no liveness, and `OutputIsRight` is about operators that recurse over
trees and sentential forms.
