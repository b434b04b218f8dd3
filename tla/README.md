# Verification of the COMP304 assignments

The repository holds three independent programs. This directory holds TLA+
models of them, the TLC configurations that check the models, and proofs that
TLAPS checks.

1. [The system](#the-system)
2. [Modules](#modules)
3. [The metro simulation](#the-metro-simulation)
4. [The allocator](#the-allocator)
5. [The shell](#the-shell)
6. [What is not modelled](#what-is-not-modelled)
7. [Plan](#plan)

Every module is checked with `tlasany M.tla`, every run of `PROJECT.json` with
`tlc -config X.cfg M`, every proof with `tlapm M.tla`.

## The system

| Program | Part | State | Operations | Interaction |
|---|---|---|---|---|
| metro | `sectionFunction`, four threads (main.cpp:185) | local `overload` | test `clearance`, gauge the load, declare an overload, create a train | queues, `train_id`, `trainsHashMap` under `trainMutex`; `clearance` and `controlLogQueue` without a common lock |
| metro | `controlCenter`, one thread (main.cpp:101) | the train in the tunnel | end clearance mode, pick a train, log, sleep, break down, set the arrival time | the same data; `tunnelMutex`, which nobody else takes |
| metro | `controlLogQueue` (main.cpp:48) | a `std::queue<Event>` | push, front, pop | pushed to by five threads, popped by `controlLog` |
| metro | `main`, `controlLog`, `trainLog` (main.cpp:268-447) | the two log files | cancel the threads, write the logs, join, destroy the mutexes | read everything without a lock |
| allocator | `kumalloc`, `kufree`, `kucalloc`, `kurealloc` (alloc.c) | `head` (free list threaded through the free blocks), `block_end`, `available_memory`, the program break | first fit, split, extend the heap; trim, merge, push; resize | the client's memory is the allocator's memory |
| allocator | test framework (`test_framework/`) | `allocs`, `freed_allocs`, `cur_brk` | wrappers that fill and check each allocation, an `sbrk` of its own, 20 tests | calls the allocator, is called by it (`sbrk`) |
| shell | `main`, `process_command`, `kbhit` (shell-skeleton.c) | terminal settings, working directory, `kernel_module_loaded`, the child processes | built-in commands, fork and exec with redirection, background commands, the clock | the terminal and the kernel outlive the shell; children share the terminal and may set it |
| shell | `prompt`, `check_for_aliases`, `parse_command` | `buf`, `index`, `oldbuf`; `alias.txt`; the command structure | edit a line, recall the last one, replace aliases, split into words and redirections | called by `main`; `alias` appends to the file that the next line is looked up in |
| shell | `mymodule.c` | none | on insertion, print the process tree below a pid to the kernel log | inserted by `psvis` through `insmod`, read through `dmesg > tree.txt`, removed by `main` |
| shell | `plot.py` | the directory `process_trees` | number the processes, find the eldest children, draw | called by `psvis`, reads `tree.txt` |
| scripts | `check.py` | none | build and grade the allocator | runs the test framework |

Hard behaviours, by program:

* **metro**: the interleavings of five threads. Data that is tested under
  `trainMutex` and used after its release (main.cpp:108-115, 108-139, 199-251),
  a flag that is read and written without a lock (`clearance`), a queue of
  events with unsynchronised pushes, threads that are cancelled and not joined
  while the log threads read what they write.
* **allocator**: sequential, but a long sequence of legal calls reaches states
  no test has: back pointers that are not kept up to date, splits that leave
  less than a list entry, merges of three blocks, reads of a block that has
  been given back to the kernel, arithmetic at the limits of `size_t`.
* **shell**: the order of `fork`, `exec`, `waitpid` and the settings of the
  terminal; what a failed step or a Ctrl+C leaves behind (working directory,
  terminal mode, `kernel_module_loaded`, an old `tree.txt`, children nobody
  waits for), for the same shell and for the next one; arrays that are used as
  strings before anybody terminated them.

What makes each correct: trains are neither lost nor duplicated, the tunnel is
single-lane, sections are served in order, clearance mode ends and means what
the report says, the logs are complete; allocations are disjoint and keep their
contents, the free list and the live blocks tile the heap, `brk` never falls
below a live allocation, calls return; the shell restores what it changes, a
picture shows the tree it is asked for, and a command is what its line says.

## Modules

| Module | Models | Kind |
|---|---|---|
| `MetroLine` | what the simulation promises about trains | abstract specification |
| `EventQueue` | `controlLogQueue` under racing pushes | component |
| `Metro` | section threads, control center, cancellation | component; instantiates `EventQueue`, refines `MetroLine` |
| `MetroMain` | the end of `main`, `controlLog`, `trainLog` | composition, extends `Metro` |
| `MetroLineProofs`, `MetroProofs`, `MetroImplementsLine`, `MetroMainProofs` | theorems and proofs | proofs |
| `MCMetro`, `MCMetroMain` | constants, views and constraints for TLC | model checking |
| `Heap` | what an allocator promises the program that calls it | abstract specification |
| `Alloc` | `alloc.c` over `sbrk`, called in any way | component |
| `Memlist` | the sorted region lists of `memlist.c` | algorithms |
| `AllocClient` | a client that avoids named kinds of call, the test framework's checks, and what the allocator promises | composition, extends `Alloc` and `Memlist`, refines `Heap` |
| `AllocProofs` | the steps of `Alloc`: types and accounting for any client, what each does to blocks and list for a careful one | proofs |
| `AllocClientProofs` | theorems about `AllocClient` and `Memlist`, the refinement of `Heap` | proofs |
| `MCAlloc`, `MCAllocClient` | a view for TLC | model checking |
| `ProcessTree` | the listing of `mymodule.c` and the picture of `plot.py` | algorithms |
| `Shell` | the main loop, commands, children, terminal, kernel module | component, instantiates `ProcessTree` |
| `ShellText` | aliases, `parse_command`, redirections | algorithms |
| `ShellLine` | the line editor, and what becomes of the line | component, extends `ShellText` |
| `ShellProofs`, `ShellLineProofs` | theorems and proofs about `Shell` and `ShellLine` | proofs |
| `MCShell`, `MCShellLine` | directories, trees, texts and a view for TLC | model checking |

Operators whose name ends in `Fault` are plausible errors in the definition
that follows them; `PROJECT.json` pairs each with the property that it breaks.
They are not used by any specification.

## The metro simulation

### From the code to the model

A thread's program counter `pc[t]` names the next access to shared data. A step
is what a thread does between two such accesses; a critical section of
`trainMutex` is one step where all that it touches is protected by the mutex,
and several where it is not.

| Code | Model |
|---|---|
| `section1Queue`..`section4Queue` | `queue[1]`..`queue[4]`, sequences of train numbers |
| `trainsHashMap` | a function from numbers to rows; a row has the section and whether `arrival_time` is set |
| `trainMutex` | the section thread that holds it, or 0; the control center's own critical sections are single steps |
| `tunnelMutex` | a Boolean: only the control center takes it |
| `clearance`, `train_id`, `overload`, `train` | the same names |
| `controlLogQueue` | `cells`, `tail`, `seen` of `EventQueue` |
| the arguments of a push in the control center | `entry`, which `Copy` completes: `trainsWaiting()` copies the four queues one after the other, without the mutex |
| `pthread_cancel` | `cancels`, the last thread cancelled; `Sleep` is the only cancellation point (no other call of a thread is one, without debug output) |

A push is two steps (`Construct`, `Advance`), because libstdc++ constructs the
element and then increments the finish pointer. `seen[t]` holds the values of
the pointer since the push of `t` began: the increment may store the successor
of any of them. Chance (`rand`) is nondeterminism: `Recheck` may create a train
or not, `Front` may break down or not.

Left out: times, lengths, destinations, debug output, and what the model does
not distinguish (see the comments of the modules): a copy of a deque torn inside
a push at the border of a chunk, an event mixed from the strings of two, the
reallocation of the deque's chunks, the buckets of `unordered_map`. They can
only add behaviours to those in which a violation is reported.

### Runs

`T` is the threshold (10 in the code), `n` the bound on trains (`MaxTrains`,
checked before a thread decides to create one).

| Run | Instance | Checks |
|---|---|---|
| `safety` | sections A and B, T=0, n=5 | `TypeOK`, `OverloadBound`, `PickNonEmpty`, `Recorded`, `ListedTrainsWait`, `LineSpec` |
| `liveness` | A and B, T=2, no end of arrivals, with fairness | `ClearanceEnds`, `NoStarvation` |
| `shutdown` | A, T=0, n=2, log threads, fairness of main | `MTypeOK`, `PassingOrder`, `NoLateArrival`, `Terminates` |
| `log_race` | A and B, T=0, n=2 | `LogComplete` is violated |
| `clearance_held` | A and B, T=0, n=3 | `ClearanceHeld` is violated |

*Why these bounds.* With T=0 one waiting train is an overload, so that a
handful of trains reaches every state of clearance mode; no guard of the code
depends on the value of the threshold. Two section threads are needed for one
to pass the test that another invalidates; the other two only add queues, and
`NumRunning` keeps the bound of `OverloadBound` parametric. `liveness` has T=2, so
that trains wait without an overload and one queue can stay behind a longer one,
and trains arrive for ever: its `MaxTrains` is far above the number of trains that
are created on the way to any state of the run. `OverloadBound` is
4 for the run, five trains could exceed it, and with a test that is off by one
they do (the mutant of `Overloaded`). A thread outside `Running` is never
scheduled. `MaxTrains` bounds `train_id`, nothing else.

*View and constraint.* `WithoutLog` removes the log from the states of `safety`:
no step reads it and no property of the run names it. `Lengths`, of `liveness`,
keeps of the queues only how long they are: no step depends on the number of a
train but through `MaxTrains`, and without the numbers the run has finitely many
states although arrivals do not end.
`WithoutWaiting` keeps of the log in `shutdown` what `PassingOrder` and the log
threads read. `Simulating` ends a behaviour at the first cancellation, in the
runs whose properties are about the simulation; `liveness` and `shutdown`
include the cancellation.

`OnePlace` and `QueueOrder` are not in `safety`: `LineSpec` implies them, which
`MetroImplementsLine` proves.

*Fairness.* `liveness` assumes weak fairness of each thread: a thread that could
take a step for ever takes one. The kernel schedules every runnable thread and
a `sleep` ends. A thread that waits for `trainMutex` is enabled only while the
mutex is free, so weak fairness does not promise that it ever gets it; the
properties hold without that promise, because in clearance mode the section
threads stop taking the mutex. `shutdown` assumes only that main and the two
log threads run.

### What the runs show

* Trains: none is lost, duplicated or overtaken in its section, the tunnel has
  one at a time, and the most crowded section is served (`LineSpec`). The
  control center releases `trainMutex` between its test and its choice, which
  is harmless, since nobody else removes trains (`PickNonEmpty`).
* Overload: the number of waiting trains can exceed the threshold by two for
  each section thread: once because the test precedes the push by a critical
  section, once more when the control center takes back a clearance mode that
  was declared after its own test.
* Clearance mode: it ends (`ClearanceEnds`), and in it every section is emptied,
  however short its queue beside the others (`NoStarvation`), unless the control
  center is already past its test of the queues (`StaleEmpty`): then line 115 takes
  the clearance back, and without clearance mode a train in a short queue can wait
  for ever while lines 124-139 serve longer ones. Nothing in the repository denies
  that. Clearance mode does *not* last until the tunnel is
  clear, as the report says (Part II), because the control center resets it on
  an old test (`ClearanceHeld`, run `clearance_held`); and a section thread that
  has passed its test of `clearance` still adds its train, which is why
  `OverloadBound` has room for one train of each.
* Logs: events are lost when pushes overlap (`LogComplete`, run `log_race`). The
  passings that the log has are in order, even then (`PassingOrder`).
* The end: the program terminates whatever the cancelled threads do, and no
  train that waits after the control center has been cancelled arrives later,
  although that thread is not joined: its next sleep comes first.

### Proofs

`MetroProofs` proves `Spec => []IInv` for every set of section threads, every
threshold and every bound on the trains. `IInv` is

* `TypeOK`;
* `LockInv`: `trainMutex` is held by exactly the thread whose program counter
  is in a critical section, so that two threads never create trains at a time;
* `TunnelInv`: `train` is set exactly from `Pick` to `Exit`;
* `Recorded`: the map has the numbers `0 .. Newest`, where `Newest` is
  `train_id`, or one less while a thread is between `Number` and `Record`;
* `OverloadInv`, the strengthening of `OverloadBound`: the trains that wait and
  those that threads are *committed* to add are at most `Threshold +
  NumRunning`, and `NumRunning` more while the control center is not between
  its test and its `Reset`. `Total <= Threshold + 2 * NumRunning` alone is not
  inductive: it does not say how many threads have passed their tests. The case
  that needs the second part is `Reset`, which turns every thread that was held
  back by `clearance` alone into a committed one (`PendingReset`), and the case
  that restores it is `Top` with empty queues (`PendingFew`);
* `PickNonEmpty`.

Each conjunct has a lemma for the steps of a section thread and one for the
steps of the control center (`TypeOK` for example: `SectionTypeStep`,
`ControlCenterTypeStep`); `NextIInv` combines them. `MetroTypeCorrect`,
`MetroOverloadBound`, `MetroPickNonEmpty` and `MetroRecorded` follow.

`MetroImplementsLine` proves `Spec => LineSpec`: under the mapping `waiting <-
queue`, `tunnel <- train`, `arrived <- Arrived`, `Enqueue` is `Arrive`, `Pick`
is `Enter`, `Exit` is `Leave`, and every other step is a stutter. `born` changes
when a train is queued, not when it is numbered; that no other number is given
out in between is `LockInv`, and that the row of a new train cannot already
exist is `Recorded`.

`MetroLineProofs` proves of the abstract specification that every number is in
one place and that the queues are sorted. `MetroImplementsLine` instantiates it
with the refinement mapping, and `MetroOnePlace` and `MetroQueueOrder` say the
same of the threads.

The same module proves `PassingOrder` and `ListedTrainsWait`. That the log has
the passings of a section in order, although five threads push to it without a
common lock and lose events, rests on four facts, the conjuncts of `LogInv`:

* `SeenInv`: only one section thread pushes at a time, since its push is inside
  `trainMutex`, and none had begun one when the control center begins a passing,
  since `Pick` takes `trainMutex`; a thread that begins one while the passing is
  copied has seen nothing but the present finish pointer.
* `BehindFinish`: so no increment leaves a passing behind the finish pointer,
  where the next push would overwrite it.
* `Ahead`: a logged train, and the one in the tunnel, comes before every train
  that waits in its section. That queues are sorted comes from the refinement.
* `OwnSection`: a train waits in the queue that its row names, also in the two
  steps in which it has a place in the queue and no row.

`MetroMainProofs` carries all of this to the end of the program. The only effect
of main and of the log threads on the variables of `Metro` are the rows that
`trainLog` inserts when it looks up a train that has none. Without them
(`MadeRows`) every step of `MetroMain` is a step of `Metro` or a stutter
(`MetroMainImplementsMetro`), so every theorem about `Metro` holds of the whole
program. `MTypeOK` follows, and so does `NoLateArrival`, with `LateInv`: trains
are late only when the control center has been cancelled, none of them has
arrived, and while one is in the tunnel nothing but the push of its event comes
before the control center's next sleep, where it ends.

The assumptions are those of the modules: `Running` is a set of sections,
`Threshold` and `MaxTrains` are natural numbers.

Model-checked only: the liveness properties (TLAPS does not do fairness), and
the two violations.

## The allocator

### From the code to the model

Memory is an array of words (`mem`), because the free list lives inside the
blocks it lists and the interesting errors are words of one structure written
into another. A word is 8 bytes: `size_align` rounds every request to words and
`BLOCK_SIZE` is one. The first three words of a free block are `size`, `next`
and `prev`; a block in use has `size` and its payload.

| Code | Model |
|---|---|
| `head`, `block_end`, `available_memory` | the same names |
| the program break, the failure of `sbrk` | `brk`, `refused` (whether it ever failed) |
| locals and arguments of the call in progress | the record `call` |
| where the call stands | `pc` |
| `kumalloc` | `Enter`; `Fit` (one step for each block looked at); `Grow`, or `TakeHead`, or `TakeOther` and `Unlink` (one step for each predecessor looked at) |
| `kucalloc` | `CallCalloc`, `kumalloc`'s steps, `Return` clears |
| `kurealloc` | `CallRealloc` (stays in place), or `kumalloc`'s steps and `Return` copies |
| `kufree` | `CallFree`; `LastBlock`; `Trim` (one step for each listed block), `Trimmed`; `Merge`, `Above`, `Below` (one step for each listed block), which end in `MergeThree`, `MergeAbove`, `MergeBelow` or `Push` |
| `sbrk` of `test_framework/intercept.c`, or of the C library | `Sbrk`, `Unmap`, `Aborts`: whole pages are mapped; the constant `Intercepted` says whose it is (below) |
| a wild dereference | `Touched` lists the words a step dereferences; `Faults` if one is not mapped, and then the only step is `Crash`. The page at address 0 is not mapped |
| the client (`test_framework/checked_alloc.c`) | `live`; `Fill` writes a pattern into what was handed out, `CallFree` overwrites what is freed |

The allocator runs over two versions of `sbrk`. The tests have that of
`intercept.c` (`Intercepted = TRUE`): a move of the break that it refuses fails an
assertion and ends the program (`Aborts`, intercept.c:36-39), and pages given back
lose their access but not what is in them (intercept.c:58-59). A program that is
run with the library in the place of its own `malloc` (alloc.c:387-391) has that of
the C library: it fails and leaves the break, and a page that is taken again holds
zeros. `alloc_any` has the second, where `sbrk` can fail and the code goes on; the
other runs have the first. The proofs are for both.

Loops are sequences of steps so that a call that never returns is a behaviour.
The client's writes stay inside its blocks, so every word that a list entry is
written over and every header that changes is the allocator's doing.

`Alloc!Spec` lets the client make any call with a block it holds. That is
enough for `TypeOK` and `Accounting`, which hold in spite of every error. The
other properties fail for some clients: eleven kinds of call go wrong.
`AllocClient` names them (`Kinds`) and states for each, in terms of the list and
the request, when a call is of that kind; its client makes such a call only if
the constant `Unsafe` holds the name. The runs with `Unsafe = {}` show that avoiding them
is enough.

| Kind | The call | What it breaks |
|---|---|---|
| `tight_fit` | takes a free block and leaves less than a list entry of it | `Intact` (run `tight_fit`): the two words after the block are written |
| `three_way` | frees a block between two that do not stand next to each other in the list | `Returns` (run `three_way`): the list becomes a cycle |
| `resize_by_moving` | resizes to more | `Tiled`: the old block is never freed (alloc.c:375) |
| `last_fit` | takes the last block of a list of several | `NoCrash`: `temp->next->next->prev` is written through `NULL` (alloc.c:124, 130) |
| `stale_prev` | splits the head of a longer list; merges with a block above, or gives back one, that has a successor | `Linked`: the successor's `prev` is left behind (alloc.c:107, 201, 337) |
| `unmapped_read` | gives back a listed block together with the page its pointers are in | `NoCrash`: `temp->next` is read after `sbrk` (alloc.c:204) |
| `small_block` | asks for one word | `Tiled`: `prev` of a free block overwrites the next header (alloc.c:351) |
| `resize_in_place` | resizes to the words of the block, header included | `Roomy`: the block is a word too short (alloc.c:369) |
| `resize_at_end` | resizes the block that ends where the mapped memory does | `NoCrash`: `memcpy` reads a word too many (alloc.c:377) |
| `calloc_overflow` | a product that wraps | `Roomy` (alloc.c:152) |
| `heap_exhausted` | needs more than `sbrk` has | `NoCrash` under the framework's `sbrk`, which ends the program; for the C library's nothing in the repository says what should happen |

The first two have a run of their own. The others are seen by putting their
name into `Unsafe` in the configuration of one of these and checking the
property of the table (small heaps and two or three sizes are enough).

### Runs

| Run | Instance | Checks |
|---|---|---|
| `alloc_any` | any client, the C library's `sbrk`, two frames of one page each, small requests, a product that wraps, `sbrk` that fails | `TypeOK`, `Accounting` |
| `alloc_client` | careful client, the framework's `sbrk`, three frames of two pages, eight blocks of two sizes | `NoCrash`, `Tiled`, `Linked`, `Coalesced`, `Intact`, `Drained` |
| `alloc_resize` | the same with four blocks, `kucalloc` and `kurealloc`, moves allowed, three pages of four words, requests larger than what is left of a frame; weak fairness of `Step` | `Roomy`, `ChecksPass`, `ImplementsHeap`, `Returns` |
| `tight_fit`, `three_way` | a client with the one kind in `Unsafe` | `Intact`, `Returns` are violated |

*Why these bounds.* The code branches on the order of sizes, on addresses being
equal and on pointers being `NULL`, never on an absolute size other than the
frame. Eight blocks give every case of the list: four entries can be free at a
time with a block in use between them, so there is a first, a last and two
inner entries in every order of freeing, and an inner one can be large enough
to be split (the mutant of `UnlinkSplit` needs that). Several frames give
requests smaller and larger than what is available and than a frame. Pages of
four words put the border of a page inside a block, in front of it and after
it, which is what `unmapped_read` and `resize_at_end` depend on. `Width` is the
size at which `size_t` wraps; it is 100 where no product should wrap.

*View.* `MCAllocClient!View` hides, between calls, the words of no block and
those of a listed block past its entry. No step reads such a word before
writing it: whatever is allocated is filled first, and headers and entries are
written before they are linked. It is used in `alloc_client` only, not for
`ImplementsHeap` or `Returns`.

*Deadlock.* The configurations do not check it: a careful client may have no
allowed call left, and a program that crashed has stopped.

*Fairness.* `Step` is weakly fair: a call, once made, keeps executing. Nothing
is assumed of the client.

### What the runs show

* For a client that keeps clear of the eleven kinds, `alloc.c` is an allocator:
  blocks in use and listed blocks cover the heap without gap or overlap, their
  contents are kept, the list is doubly linked and fully merged, what is freed
  is given back to `sbrk` when nothing is in use above it, and every call
  returns. With `Unsafe = {"resize_by_moving"}` it still implements `Heap`: the
  old block is lost, which `Heap` does not see and `Tiled` does.
* Each of the two runs that end in a violation is a short sequence of legal
  calls; the findings in `PROJECT.json` quote what the repository says instead.
  In `alloc_resize` a crash would violate `Returns`.
* The framework's own checks pass for such a client and are worth something
  (`ChecksPass`): its list stays sorted, and the search for a pointer, which
  stops early, finds it. One check is weaker than its message says. When the
  break is lowered, `do_brk` asks `memlist_find_overlap` for an allocation that
  is cut off, but that search gives up at the first region that lies before the
  one it looks for (memlist.c:83), so that it sees an overlap with the lowest
  allocation only (theorem `OverlapWithFirst`). `ChecksPass` therefore looks at
  all of them.
* `available_memory` is exact for every client until `sbrk` fails, even when
  the list is damaged. When `sbrk` fails it counts words that do not exist.

### Proofs

`AllocProofs` proves `Spec => []TypeOK` and `Spec => []Accounting` for every
frame of more than one word, page, heap, request size and number of blocks, and
for every client. The inductive invariant is `IInv == TypeOK /\ Requested /\
Accounting`. `Requested` is needed because the sizes and `available_memory` are
natural numbers only if two subtractions are: that of `Split` and `TakeOther`
needs that the block found is large enough, which `Fit` established a step
before; that of `Grow` needs `CapacityCovers` (the frames asked for cover the
request). That the new `block_end` is not `NULL`, and that a block given back is
not, follow from the step not being a fault (`Dereferenced`): this is where the
proof uses that a crash stops the program. `GivenBack` is the argument for both
places that shrink the heap, `KeptIInv` for all steps that leave it alone.

The rest of `AllocProofs`, and `AllocClientProofs`, prove what the runs check of
the careful client, for every size of heap, page, frame and request:
`ClientNoCrash`, `ClientLinked`, `ClientCoalesced`, `ClientIntact`,
`ClientRoomy`, `ClientImplementsHeap` and `ClientChecksPass` for `Unsafe
\subseteq {"resize_by_moving"}`, and for `Unsafe = {}` `ClientTiled` and
`ClientDrained`, which a client that resizes by moving does break. So the kinds
of call in the table above are all that a program has to avoid.

*The invariant.* None of the properties is inductive, and the list that memory
describes is defined by a recursion along memory, which no prover unfolds. `CInv`
says instead that there are a set `F` of listed blocks, a number `r[x]` for each
of them that falls by one along the list (`Chain`), and a set of lost blocks,
such that the call in progress is at a `Stage`. `Chain` and `Tiles` (blocks of
at least three words cover the heap, each word once) are stated of sets, so that
a step that changes the list changes `F` and a few numbers: `ChainPush`,
`ChainPop`, `ChainDrop`, `ChainReplace`, `TilesSplit`, `TilesJoin`, `TilesGrow`
and `TilesDrop` are these changes. What adds the strength:

* `Stage` has a case for each place where a call can stand: what the client made sure of
  before the call and a later step relies on (`Promised`, `FreesLast`,
  `FreesInner`), what a search has left behind (`Passed`), and whose hands the
  block is in that is neither listed nor in use. `FreesInner`, for example, is
  why `MergeThree` unlinks the right entry;
* `Break`: until `sbrk` fails the break is where blocks and `available_memory`
  end, so that a block that ends below it is mapped;
* `Holds`: allocations are different blocks and fit in them;
* `Loses`: with `Unsafe = {}` no block is lost.

*The argument.* A lemma for each step shows that the next stage follows
(`FitStep`, `TakeOtherStep`, `UnlinkFoundStep`, `MergeThreeStep`,
`LastBlockStep`, `GrowStep`...), another that it dereferences mapped words only
(`FitSafe`...`MergeSafe`). `Listing` is the one lemma that unfolds the
recursion: the i-th block that `Walk` reaches is the one with the i-th highest
number, so what the client looks at is what the stages say of it
(`RequestPromised`, `FreePromised`). `StepKeepsCInv` combines them.

*The refinement.* `Owning`, which `CInv` implies before and after each step,
says that payloads are disjoint, lie in the heap and hold their owner's pattern,
but for one that is handed out and not yet filled. So a step of the allocator is a stutter of `Heap`, `Fill` a `Store` or
the new words of a `Grant`, and the copy of `kurealloc` a `Resize` that keeps
what the old block had (`NewAdds`, `ContentMoves`, `InPlaceResizes`,
`ReturnGives`, `FreeReleases`; `HeapStep` combines them).

*The test framework.* `AddKeepsSorted`, `FindFinds` and `OverlapWithFirst` are
about every sorted list and region: `memlist_add_region` keeps the list sorted
whichever of its three ways it takes, `memlist_find` finds the region with a
word in spite of stopping early, and `memlist_find_overlap` sees an overlap with
the first region only. `OrderUnique` says that a set of regions that do not
overlap has one sorted list, hence `AddInOrder`: adding a region to the list of
the others gives the list of all. With `Passing` (regions are disjoint, and
below the break) `ClientChecksPass` follows, for any number of allocations. The
assumption that regions are not empty holds of the client: allocations of size
zero are kept in a list of their own.

The assumptions are those of the modules: a frame and a page have more than one
word, the heap is a positive number of pages, requests are positive, and
`Unsafe` is a set of kinds.

Model-checked only: `Returns`, which is liveness, and the two violations.

## The shell

### From the code to the model

`Shell` is the loop of `main`; `at` says where the shell is, and a step is what
it does between two moments at which a child, the user or the kernel can come in
between. Any command can be entered at any prompt. `ShellLine` is the part that
turns keys into a command, which nothing else depends on, and `ProcessTree` the
part that turns a process into a picture; both are modules of their own so that
neither multiplies the states of the other.

| Code | Model |
|---|---|
| `tcgetattr`, `tcsetattr` in `prompt` and `kbhit` | `term` (`"line"` or `"raw"`, the two that differ), `backup` for `backup_termios` and `oldt` |
| `O_NONBLOCK` in `kbhit` | `blocking` |
| working directory, `chdir` | `cwd`; `chdir("module")` where there is none stays (`PsvisEnter`) |
| `kernel_module_loaded`, `insmod`, `rmmod` | `loaded`, `inserted` |
| `dmesg -C`, `printk`, `dmesg > tree.txt` | `log`, `tree[d]`: which `psvis` wrote the listing, and of which tree |
| `os.mkdir("../process_trees")` in `plot.py` | `plotted`; where it exists already `plot.py` fails |
| `fork`, `waitpid`, zombies | `child[p]`, `back`, `waitfor`; a failed fork is `AnyChild`, since -1 is the pid that means any child |
| the child's loop over redirections, `execv` | `Exec(p)`, and `Streams` of `ShellText` for the order of the redirections |
| a program that a child runs (external) | `Ends`, `SetsTerminal`, `RemovesPictures` |
| Ctrl+C (external) | `Interrupt` outside of `system()`, where the shell ignores it; inside it cuts the command line that runs (`n` in `PsvisInsmod`, the directory without a picture and the second case of `PsvisPlot`, the second case of `Leave`) |
| commands that crash on a file or an argument that is not there | `Segfault` |
| a later shell in the same kernel and files | `Restart` |
| `buf`, `index`, `oldbuf` of `prompt` | the same names; `Prompt` finds in `buf` what an earlier call left on the stack |
| `alias` of `check_for_aliases`, never terminated | `left` in `TryAlias`: what the stack held (`Stacks`), written over by each entry in turn; `fits` while no entry has run past its end |
| `alias.txt` | `file`; the line that the command `alias` writes (`AliasEntry`) is split at its first `;` (`Entry`) |
| `parse_command` | `ParseCommand`, a fold of `ParseWord` over the words |
| `dfs`, `simple_init` of `mymodule.c` | `Listing`, `Inserts` |
| `nodes`, `eldest_childs` and the drawing in `plot.py` | `Nodes`, `Eldest`, `Drawable`, `Picture` |

The variables `number`, `shells`, `wanted`, `from`, `cut`, `pictures`, `legacy`,
`how` record what happened, for the properties; the code has no such state.

### Runs

| Run | Instance | Checks |
|---|---|---|
| `shell` | three commands in at most two shells, two children, three directories, three process trees, up to two matches of a `repl`; fairness below | `TypeOK`, `TerminalKept`, `InputBlocks`, `ForegroundDone`, `ModuleRemoved`, `PictureCurrent`, `PsvisMoves`, `PictureShows`, `CommandReturns`, `ForkRecovers` |
| `shell_line` | five keys or chunks of text over any number of prompts, a line buffer of 15 characters and an alias array of 7, two files of aliases, contents of the stack with terminators in different places | `ScreenIsLine`, `RecallAlternates`, `AliasesAreWords`, `ParsesWords`, `LastStreams`, `AliasRoundTrip` |

*Why these bounds.* Three commands are enough for one to leave something behind,
one to change it and one to trip over it (a picture of an old listing needs two
`psvis` with a failing `insmod` in the second). Two shells, for what the first
leaves to the second. Two children: one in the background while a fork fails is
two processes held and none free. The directories are one above, one with a
`module` in it, and that one; the trees have threads beside
children, a child of a thread that is not the first, children listed out of the order
of their start and older than their parent, and a pid that is also the number of a
vertex. In `ShellLine` the
chunks have each sign of the parser with and without its file, words that end in
an alias, and one that fills the buffer; five of them make lines with two
redirections and prompts that recall each other's lines.

*View.* `MCShell!View` hides what is overwritten before any step or property
reads it: `backup` outside a prompt and a poll, the command at the prompt, and
so on.

*Deadlock* is not checked: after the last shell has ended nothing happens.

*Fairness.* `ShellStep` is weakly fair: the kernel runs the shell. A step of
`Child(p)` that ends a program is fair for each child: programs end. The user
need not press a key, and a program need not touch the terminal. A clock in
which nobody presses `e` runs for ever, an `xdd` without a file waits for a word
(`Scan`, which is a step of the user), and a `repl` whose replacement holds what it
replaces does not end: `CommandReturns` is about the other commands.

### What the runs show

* Every way through a prompt or a poll of the clock gives the terminal back as
  the last program left it, even if a background program sets it meanwhile
  (`TerminalKept`). Ctrl+D and Ctrl+C are the exceptions: `prompt` returns, or
  the process ends, with the terminal raw (lines 586-588).
* `kernel_module_loaded` is set whatever becomes of `insmod` (line 811), and
  that is what removes a module that an earlier shell left behind
  (`ModuleRemoved`).
* `psvis` ends where it began if there is a directory `module`; where there is
  none it ends one directory up (`PsvisMoves`).
* A picture shows the tree of the `psvis` it belongs to, although log, module
  and `tree.txt` outlive it, because `dmesg -C` comes first; a Ctrl+C in that
  command line leaves the old file, and `plot.py` draws it (`PictureCurrent`).
* A picture that is drawn has, once each, the processes that the first threads'
  lists of children lead to, and their threads, and the edges between
  (`PictureShows`). Children that another thread has started are not listed
  (mymodule.c:47) and not drawn. No picture is drawn of a tree with a pid that is a
  number of a vertex: there `plot.py` fails (`Drawable`). What is orange is not
  always the eldest child: it is the last listed of the children older than their
  parent, or else what is listed first, which is a thread if the process has one
  beside its first (`ShowsOrange`).
* A fork that fails makes the shell wait for any child, which is how zombies of
  background programs get reaped at all (`ForkRecovers`); no prompt appears
  before the program in the foreground has ended (`ForegroundDone`).
* The line editor shows what it has, and the up arrow alternates between the
  last line and nothing, in spite of the missing terminators. Only `buf[0]` is
  cleared (line 539), so that typing can overwrite the last terminator in `buf`;
  the `strcpy` of the up arrow then reads past it (state `"overrun"`).
* An alias is found if its name meets a terminator in the array `alias`
  (`Lengthening`). One name a character longer than the one before ends where that
  one's terminator is; a shorter one keeps the tail of the one before, and a longer
  one has overwritten the terminator and needs another from the uninitialised
  array (line 86): `a` and then `abc` may work or not. Where the names stand alone,
  aliases work on words, except that only
  the first occurrence of the name is looked at (line 111), even if it is the
  end of another word (`AliasesAreWords`). Under the same condition an alias that
  was defined gives its definition back behind all older ones, unless there is a
  `;` in its name, where `alias.txt` is split (`AliasRoundTrip`).
* The parser does what the words say, the file of a redirection being the next
  word whatever it is; of several output redirections the last counts, up to
  three (`ParsesWords`, `LastStreams`).

### Proofs

`ShellProofs` proves `Spec => []IInv` for all directories, processes and trees
and any number of commands and shells, and from it the five safety invariants of
`shell`, its type invariant, and `Spec => PsvisMoves`. The invariants are not
inductive as they stand; `IInv` adds

* `HowInv`: the shell has ended in some way exactly outside its loop, so that
  `TerminalKept` cannot lose its exceptions;
* `TerminalSaved`: while a line or a key is read, `backup` is what the last
  program set;
* `ForegroundWaited`: a child that is not in the background is the one in
  `waitfor`. That `AnyChild` is no child is what excludes a foreground child
  beside a failed fork;
* `ModuleKnown`: a module that no earlier shell inserted is known to this one;
* `TreeCurrent`: before `plot.py` runs, `tree.txt` is empty or from this
  `psvis`, or the command line was cut;
* `InModule`: during `psvis` the shell is in the directory `module`, or has not
  moved, so that `chdir("..")` leads where `PsvisMoves` says.

There is a lemma for each group of conjuncts (`TypeStep`, `TerminalStep`,
`ChildStep`, `KernelStep`) with one step for each action. The assumptions are
those of `Shell`: `None` and `AnyChild` are different from everything else, and
the parent of a directory's `module` is that directory.

`ShellLineProofs` proves `ScreenIsLine` and `RecallAlternates` for a buffer of
any size, any keys and chunks of text, any alias files and any contents of the
stack. `LineInv` says that while a line is edited the next key has a place in
`buf`, that what is shown is what stands before the cursor, and that as long as
only the up arrow was pressed `buf` and `oldbuf` are the line entered last and an
empty one; between two prompts `oldbuf` is that line, which always fits back into
`buf`. It says nothing of a terminator in `buf`: there need not be one. What
`strcpy` copies is the text up to the first `NUL`: that there is a first one, if
there is any, is proved from the well-founded order of the natural numbers.
`LineOverrun` is an action property: arrays are overrun by three kinds of step
only, a key behind a recalled line that fills `buf` but for the terminator, the up
arrow in a prompt in which another key was pressed and no terminator is left, and
the end of a line when a name in `alias.txt` does not stand alone in the array
`alias`.

The rest of `ShellLineProofs` is about what becomes of the line, and proves
`ParsesWords`, `LastStreams`, `AliasesAreWords` and `AliasRoundTrip` for lines,
alias files and definitions of any length. `LineMeant` joins `LineInv` to an
invariant of the specification (`LineMeaning`): `alias.txt` has only entries of a
name without a blank and a text, and from the end of a prompt to the run of the command the
command is `ParseCommand` of the expanded line. What is left are statements about
`ShellText`, whose operators are folds. The provers cannot do an induction over a
sequence, so each fold is first given its trace:

* *Folds.* `FoldLeft` is defined by a function over the sets of places.
  `FoldExists` shows that there is one, built place by place, and from it
  `ScanOf`, `ParseOf`, `OpeningOf`, `ExpansionOf`, `TrialOf` and `JoiningOf` take
  the states the fold goes through, one for each prefix (`IsScan`, `IsParse`,
  `IsOpening`, ...). An invariant of a trace is then proved by `Steps`, which
  is induction over `0 .. n` by a smallest counterexample.
* *Words.* `WordsApart`: around a blank a text splits into the words before and the
  words behind. `WordsStand`: each word of a split stands in the text with a blank
  behind it.
* *The parser.* `HasRead` says what `parse_command` has after the first `i` words
  in terms of their places only: `Takes` is whether a word is a sign that waits for
  its file, `Body` what stands before the first free `|`, `Plain` the arguments,
  `SignsOf` the redirections of a kind. It is preserved by each of the five kinds
  of word (`WordIsFile`, `WordIsPipe`, `WordIsSign`, `WordIsArgument`,
  `WordIsDropped`), and at the last word it is `ParsesWords`. `Takes` looks back
  over a row of signs, `>` `>` `<`, whose files alternate with them: that is the
  case in which the state `pending` and the places are hard to relate.
* *Redirections.* `FilesNamed`: a kind that `redirect_idxs` does not name has no
  file. From it follows that the input of a command without `<` is none and that
  the kind of the last output names its own file.
* *Aliases.* Along the entries the array holds the name tried last, a blank and a
  terminator, and behind them what the stack held. If `Lengthening` holds, the text
  in it after `strncpy` is the next name, so that the key is the name and a blank. `KeyFound`: the first place of the key is the first blank
  before which the text ends with the name. `ReplacedWords`: that is the first
  word that ends with the name, and replacing the text replaces that word, or
  nothing if it is longer than the name. `ExpandedWords` adds the entries up.
* *Round trip.* The definition is joined with blanks, split again and found whole,
  since no argument has a blank in it. Older entries leave a line of that one name
  alone: their names are shorter, so that a key is found in it at its end only, which
  is not where the word begins.

The assumptions are those of `ShellLine`: the buffer has room for a terminator,
keys and the leftovers of the stack are arrays of characters of the right length,
and `alias.txt` at the start is one
that the command `alias` may have written, with words for names
(`FilesAssumption`).

Model-checked only: `PictureShows` (its operators are recursions and folds over
a tree) and the liveness properties.

### Known, and covered by no property

These are defects that the models leave out, because a C program that has one
has no further defined behaviour, or that concern single statements:
`read_from_file` appends to memory that it has not initialised (line 70); the
child appends the directory to the string `getenv` gave it (line 869); a command after `|` is filled in but never cleared or run (line 427);
`getchar` at end of file is taken for a key (line 542); the terminator of a line
that is full is written behind `buf` (line 596), a line without a terminator is read
past it (line 573), and a long name is written behind `alias` (lines 100 and 108, all
three the state `"overrun"` of `ShellLine`); a `|` at the end of a line has what
lies behind the line parsed as a command (lines 429-434, `EndsInPipe`: the shell may
go on or end); the fourth redirection is written behind `redirect_idxs`; a
program that is not found ends the child with status 0, and one given by an
absolute path is not found (line 882); the script that `good_morning` writes is
not made executable (line 182).

## What is not modelled

* **shell**: what commands print (`xdd`, the faces of the clock, the prompt with
  its user and host), the files that `repl` and `good_morning` write, and the
  lengths of the buffers other than `buf` and `alias` (the text of a line, a
  definition in `comm`, the result of `replace`). Processes that change while
  `mymodule.c` walks them: its walk takes no lock, and what it then meets
  depends on the kernel. The layout of the picture. `large_digits.h` is a table
  of text.
* **allocator**: sizes that pass through `int` (alloc.c:100, 253, 283, 299,
  337) and requests near the limit of `size_t`, which `size_align` wraps: the
  sizes of the model are far from both. Threads that allocate at the same time
  when the library replaces `malloc` (alloc.c:387-391): the repository's tests
  are sequential. What a client sees after `sbrk` has failed. Of the framework,
  allocations of size zero, which have a list of their own, the links and the
  reuse of list entries, the comparison of a signed `char` with the pattern
  (checked_alloc.c:230), the option parsing and the twenty tests.
* **metro**: times, lengths and destinations, debug output (with it, a thread
  cancelled while it writes would keep the lock of `cout`, main.cpp:144), the
  format of the logs, the parsing of arguments. `clearance` is a plain `bool`
  that one thread polls and others write (main.cpp:191), and `time_to_clear` is
  written by each thread that sees an overload (main.cpp:204): the model reads
  and writes the flag atomically and has no times.
* `check.py`: builds the allocator and runs its tests, no state of its own.

## Plan

Done: the metro simulation with its abstract specification and proofs; the
allocator with its abstract specification, the checks of its test framework, and
the proof of its safety and of the refinement; the shell with its line editor, its
parser and the process tree, and the proof of its safety and of what the aliases
and the parser make of a line.

Left: allocations of size zero in `AllocClient`, with the list
`zero_sized_allocs`.
