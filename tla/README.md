# A specification of the sandbox programs

This directory specifies and verifies the programs of `src/sandbox/solutions/`,
the worked solutions of the book *Data Structures in Practice*, the benchmark
harness `src/sandbox/exercises/common/` they run under, and the scripts that
build and run the exercises. The rest of the repository is the book's text and
the scripts that typeset it.

The programs are small C programs. What makes them worth specifying is that
most of their statements are claims about *every* schedule, order of calls or
size, while each program only executes one: a lock-free queue whose memory
ordering an x86 test cannot falsify, counters that wrap after 2^32 calls, a
B-tree that must survive any order of splits, an allocator at its last byte.

- `PROJECT.json` lists the components, the runs, the hazards and, for every
  definition that models code, the source lines it models.
- Check a run with `tlc -config <run>.cfg <module>.tla`, a proof with
  `tlapm <module>.tla`.

Source paths below are relative to `src/sandbox/solutions/`, those that begin
with `exercises/` and the scripts to `src/sandbox/`.

## 1. Inventory

| Part | State | Operations | Interaction and what is hard |
|---|---|---|---|
| Lock-free SPSC queue, `ch13` | `head`, `tail` (atomic, 64 bit), `data[1 << 12]`; per thread the loop counter and local copies | `spsc_enqueue`, `spsc_dequeue`, `lf_producer`, `lf_consumer`, `run_lockfree` | Two threads without locks. Stale reads of the other's index; acquire/release must order the plain accesses to `data`; both loops spin; `main` resets the indices between runs |
| Mutex queue, `ch13` | the same plain, and `mutex` | `mtq_enqueue`, `mtq_dequeue`, the thread functions, `run_mutex` | Two threads that contend for one lock; early returns must unlock; reset and destroy outside the lock |
| Ring buffer, `ch06` | `head`, `tail` (32 bit), `data[1 << 14]` | `rb_enqueue`, `rb_dequeue`, the reset in `workload` | Sequential; counters overflow |
| B-tree, `ch10` | nodes with `keys[]`, `children[]`, `n_keys`, `is_leaf`; `root`, `order` | `btree_insert` with `bt_split_child` and `btree_insert_nonfull`, `btree_search`, `bt_new_node` | Sequential; long sequences of splits; arrays that are exactly large enough; a failing `calloc` |
| d-ary heap, `ch12` | `data[]`, `size`, `cap`, `d` | `heap_insert`, `heap_extract_min` | Sequential; index arithmetic for two arities |
| Arena allocator and parser, `ch17` | `arena[]`, `arena_offset`; the list it builds | `arena_alloc`, `arena_reset`, `arena_parse` | Exhaustion in the middle of a node; reuse after reset; integer widths |
| malloc device tree, `ch17` | heap nodes with `props` and `next` | `linked_list_parse`, its free loops | Order of frees; failure half way |
| BST and sorted array, `ch09` | tree nodes, `sorted[]` | `setup`, `bst_insert`, `bst_search`, `arr_search` | Every order of insertion; half-open interval |
| Device tables, `ch01/ex1_1` | `sorted_table`, `hash_table` of chains | `setup`, `bsearch_lookup`, `hash_lookup` | Colliding chains; boundaries of the bisection |
| Bloom filter, `ch16` | `filter[]`, `fp` | `bloom_insert`, `bloom_query`, the loops of `main` | Keys share bits; refilled after `memset` |
| Stacks, `ch05` | `arr_stack`, `arr_top`; `list_head` and nodes | `arr_push/pop`, `list_push/pop` | Use after free; two implementations of one thing |
| Dynamic array, `ch08` | `size`, `cap`, `reallocs` | `da_init`, `da_push`, `da_free` | Growth policy |
| Sweeps, `ch01/ex1_2`, `ch02/ex2_1`, `ch04` | arrays, `rand_idx`, loop counters, sums | `sequential_sum`, `random_sum`, `stride_access`, `row_major_sum`, `col_major_sum`, `update_aos`, `update_soa` | Different orders of access must do the same work and differ only in the lines they fetch |
| Benchmark harness, `exercises/common` | `_t0`, samples, statistics; the platform's counter | `BENCH_RUN`, `read_counter` for three platforms, `bench_stats` | A counter that is read in halves and wraps; warmup turns; a body that is interrupted |
| False sharing, `ch02/ex2_2` | two counters, two threads, the cache | `inc_*`, `run_adjacent`, `run_padded` under `BENCH_RUN` | Two threads; placement of the counters |
| List microbenchmark, `ch03` | the list, loop counters | the three workloads of `main`, `build_list` | What a timed region contains; two nested reads of the counter |
| Hash quality, `ch07` | generator state, `keys[]`, bucket counts | `setup`, `hash_sum`, `hash_fnv1a`, `hash_murmur3`, `bucket_variance` | 32-bit arithmetic; a generator that must not reach zero |
| Exercises and their scripts, `exercises/`, `Makefile`, `run.sh` | binaries built, the one that runs, its exit status | `make run`, `./run.sh`; per exercise what can fail or not return | One failing or endless program among seventeen; stubs of ch13 that spin |

What is correct about each part, in words: the queues and the ring are the
bounded FIFO queue, the B-tree is an index of keys, the heap is a priority queue,
both stacks are *the* stack, both lookups of a program agree, both device-tree
parsers build *the* device list; allocators hand
out disjoint, aligned blocks inside their memory, leak nothing and leave no
dangling pointer; loops end; measured regions measure what they claim; hash
functions lose nothing of what they read; scripts stop at the first failure and
otherwise reach their end.

### Not modelled

- **Book build** (`src/scripts`) and the workflows: they concatenate chapters
  and call pandoc and mermaid; there is no state of their own between two calls.
- **Manuscript**: text in two languages. Its listings illustrate; what runs are
  the programs modelled here.
- **What the exercises compute** (hence *partly*): as shipped they are the
  solutions with the interesting operations left to the reader, or the same
  code. Modelled is what the scripts can see of each: the allocations that may
  fail, the computations that return and print a line, and the threads of ch13.
- **Scripts**: `run.sh` with the name of one exercise, `make clean`, and that
  `make` does not rebuild what is up to date. These touch files only.
- **Of the solutions**: the timing loops of
  ch07's `main`, which call the hash functions again; the formatting of results;
  and floating point (a mean is modelled by its sum and count, a variance by its
  integer numerator, a position by the number of its updates).

## 2. Modules

Each component is a module with its state as VARIABLES and one action per
operation or, where steps of several actors or levels of a descent matter, one
action per access. Faulty variants of a definition, marked `\* faulty`, stand
next to the definition they vary: each property is shown to be sensitive by
replacing a definition by its faulty form.

| Module | Code | Grain of a step |
|---|---|---|
| `FIFOQueue` | – | abstract bounded FIFO queue |
| `SPSCQueue` | ch13, lock-free part | one memory access of a thread |
| `MutexQueue` | ch13, mutex part | one statement inside the critical section |
| `RingBuffer` | ch06 | one call |
| `KeyIndex` | – | abstract bag of keys with insertion and lookup |
| `BTree` | ch10 | one level of a descent |
| `PriorityQueue` | – | abstract multiset with extract-min |
| `DaryHeap` | ch12 | one turn of a sift loop |
| `Arena` | ch17 `arena_alloc`, `arena_reset` | one call |
| `DeviceTree` | ch17 `arena_parse`; extends `Arena` | one allocation |
| `MallocTree` | ch17 `linked_list_parse` and free | one malloc or free |
| `DeviceList` | – | abstract device list, built newest first or cut off |
| `BstSearch`, `DeviceLookup`, `BloomFilter` | ch09, ch01/ex1_1, ch16 | one turn of a loop |
| `Stack`, `Stacks` | ch05; `Stack` is the abstract one | one call on both stacks |
| `DynamicArray` | ch08 | one resize or store |
| `Sweeps` | ch01/ex1_2, ch02/ex2_1, ch04 | one turn of a loop |
| `HashQuality` | ch07 | one letter of a key, one key counted |
| `Benchmark` | `benchmark.h/.c` | one read of the counter around a body |
| `FalseSharing`, `Microbenchmark` | ch02/ex2_2, ch03; extend `Benchmark` | one load or store of a counter; one timed operation |
| `ExerciseRun` | `Makefile`, `run.sh`, `exercises/ch*` | one command of a script, one step of a program that may fail |
| `MC…` | – | the instances TLC checks |
| `CommonTheorems`, `…Proofs` | – | the proofs; `DeviceTreeProofs` is also about `Arena`, `DaryHeapProofs` about the stacks of ch05, `ProgramProofs` about all other programs and the scripts |

`MCPrograms` and `MCHarness` put programs side by side that never run
together: a behaviour picks one (`program`) and runs it alone. `MCHarness`
shares one `Benchmark` between the two programs that are measured, as the
header is included in both.

### How the state corresponds to the code

**SPSCQueue.** `head`, `tail`, `data` are the last values stored. `pc` says
where `main` and the two threads are; `own` is the thread's local copy of its
own index (lines 67 and 92), `seen` the last value it loaded of the other's.
The memory model is in two places. An acquire load of the other thread's index
returns *any* value of its modification order that is not older than the one
last seen (`EnqLoadHead(h)` with `h \in seen["prod"] .. head`): as each index
is stored by one thread in steps of one, its modification order is just the
integers from 0 to its value. And happens-before is counted: `made[t]` numbers
the `data[]` accesses of `t`, `last[t][s]` is the last one on slot `s`, a
release store attaches `made[t]` to the value stored (`view`), an acquire load
of that value adds it to `knows`. An access to a slot is a race when the other
thread's last access to it is not known; a racing read returns anything
(`ReadValues`). `pthread_create` and `pthread_join` order everything. Of these
`received`, `made`, `last`, `view` and `knows` are history: the program does not
have them. This is the release/acquire fragment of C11, which also covers the
RISC-V build; without a
race, no reordering of plain accesses by the compiler is visible.

**MutexQueue.** `lock` names the holder. Statements inside the section are
separate steps so that a missing lock would show; everything the section does
is a plain access (`Reads`, `Writes`).

**RingBuffer.** `MOD` is 2^32. `count` is the true number of items (history).
`Outstanding` is `(uint32_t)(tail - head)`. `CAP` divides `MOD`, as the powers
of two of the code do.

**BTree.** `node` is the heap: a node is a record of the sequences `keys` and
`kids` instead of arrays with `n_keys`, so that writing behind the end of an
array shows as a sequence that is too long (`Occupancy`). `Descend` includes the split of
a full child and the choice of the half, as one turn of `btree_insert_nonfull` does.
`bt_new_node` has three `calloc`s, each of which may fail (`CallocFails`): the
program then ends in `exited` or, as line 53 is before line 56, in `crashed`.
`KeyIndex` counts how often a key was inserted: the tree keeps every copy.

**DaryHeap.** `i` is the index that is sifted. `Index` is the allocated array;
the content of the unused part is arbitrary (`malloc`).

**Arena, DeviceTree.** `SIZE` is 2^64 (`size_t`) and `UINT` is 2^32: the mask
`~7u` is an `unsigned int`, and `Aligned` computes what the C expression does.
`blocks` (history) are the blocks handed out since the last reset. The list of
`arena_parse` is a sequence, newest first. As a `DeviceList` it consists of the
devices and their properties; a `limit` of it is `n_nodes`, and it is `cut` when
an allocation of it has failed. An address is an offset into
`arena[]`, a static `char` array without an alignment attribute: that the
addresses are aligned like the offsets is left to the compiler, which places an
array of this size at a multiple of 8 at least.

**MallocTree.** `used` is the set of live blocks; `malloc(a)` may return any
free block or fail. As a `DeviceList` it is what follows from `head` through
`next`, with the lists at `props`; the frees together are one `Discard`. A freed
block loses its content, and the next `malloc` may return it: whoever still follows a
pointer into it reads `NULL` and 0 or what the next owner wrote. `NoDangling`
excludes that any such pointer is left.

**BstSearch, DeviceLookup, BloomFilter.** The shuffle of ch09 is the
Fisher-Yates loop with any random numbers, so every order of insertion occurs.
The ids of ch01 are `i * 7 + 3`, as in `setup`; a chain is a sequence. The hash
of ch16 is left open: `hash` assigns any values to keys and seeds, since no
property may depend on it. `qsort` sorts.

**Stacks.** Each push and pop goes to both implementations, which the program
runs one after the other on the same sequence of calls.

**DynamicArray.** A growth factor is a fraction. For the factors of `main` and
every capacity that occurs, the conversion from `double` gives the exact
quotient rounded down.

**Sweeps.** `Read` is a load: it misses unless it is on the line of the load
before it, which is what a cache does that is far smaller than the array.
`array_base` is where in a line the array begins. `calls` records of each call
the function, its stride, its sum and what it cost. Positions of particles are
counted in updates. `SweepAssumption` says of the sizes what those of the
programs satisfy: arrays of whole lines, rows of at least one line, strides that
divide the array.

**Benchmark.** The body is supplied by the module that extends it: the steps
from `bench_pc` `body` to `end`. `clock` is the ticks so far, modulo `COUNTER`,
and goes on only while a body runs; `read_counter` is what each platform's code
makes of it (one register, two halves of `WORD`, seconds and nanoseconds modulo
2^64). `WORD` is 2^32, `COUNTER` 2^64 and `NSEC` 10^9. `stats.var` is the
integer numerator of the variance.

**FalseSharing.** `copies` is a minimal invalidation-based cache: who has a valid copy of
each line. `base` is where the structure lies, any multiple of 8 in a line.

**Microbenchmark.** Every operation of a body takes one tick, and up to
`INTERRUPTS` more go by while it runs: the preemptions that the program takes
many samples for. The nodes of the list may be any blocks.

**HashQuality.** A `uint32_t` is the set of its one bits, so the functions are
evaluated with all their 32 bits (TLC's integers end at 2^31); `Times` is long
multiplication modulo 2^WIDTH. The letters are drawn by `XorShift` from the
seed of the program. `NeverStuck` says that no turn of it leads to zero, which is
all it says: it holds for other shift distances as well, and the length of the
generator's cycle is not checked.

**ExerciseRun.** An exercise is the sequence of what it does that may fail or
not return: `malloc` (checked everywhere), `calloc` (that of ch10, checked too
late), `print`, and `spsc` or `mtq`, the bodies that start a producer and a
consumer. `todo` says which operations of ch13 are still stubs; a stub answers
0, and its caller tries again. `status` is the exit status a script sees; make
turns any failure into 2.

## 3. Runs

| Run | Shows | Instance, and why it is enough |
|---|---|---|
| `spsc` | no race, no overwriting, stale checks are safe, complete runs; refinement of `FIFOQueue`, which includes the order; the consumer drains what is published even if the producer stops; both finish | 4 slots, 9 messages, 2 runs: the ring wraps twice, is full and empty at each offset, and the second run meets the first one's data |
| `mutex` | the same claims for the lock, and that nobody keeps it | as above |
| `ring_wrap` | full/empty exact and FIFO for any calls | 4 slots, counters modulo 16: they wrap while items are in the ring |
| `btree` | shape, order, refinement of `KeyIndex` (an insertion counts once, no copy of a key is lost, lookups are right), every call returns | order 4, ten insertions of three keys: splits at two levels, repeated keys equal to a median |
| `btree_calloc` | **violated**, see 4 | as above, `calloc` fails at any of its three places |
| `heap` | least at root; refinement of the priority queue, whose content only calls change | arity 2 and 4, seven places, repeated values: three levels of the binary and an incomplete last group of the quaternary heap |
| `arena_mask` | **violated**, see 4 | an 8-bit `size_t` with a 6-bit `unsigned` |
| `arena_parse` | what is allocated is consecutive and as much as possible; refinement of `DeviceList` | the program's own numbers (64 KiB, 256 × (48 + 16 × 72) bytes), which exhaust the arena, and three nodes, which do not; two parses |
| `malloc_tree` | no dangling pointer, no leak; refinement of `DeviceList` | two nodes of two properties, seven blocks (one more than needed), every choice of block, two parses so that blocks are reused |
| `programs` | ch01 and ch09: answers agree and are right; ch16: no false negatives; ch05: both stacks are the same stack; ch08: growth is cheap; ch01/ch02/ch04 sweeps: the same work and the lines the comments say; ch17: blocks are sound for any client; ch07: the generator does not get stuck, the hashes lose nothing, the variance counts collisions; everything ends | five keys in all orders; seven devices in three buckets; two Bloom keys with hashes that collide across and within bytes; a stack of three over four blocks; 3000 pushes, at least eight resizes by each factor; all shuffles of five elements, a 3 × 4 matrix of two lines per row, strides from below to above the line; 64 bytes of arena and requests around multiples of 8 and around its size; twelve keys of ten letters at full width, in four buckets, so that some collide |
| `harness` | ch02: no false sharing with padding; ch02 and ch03: samples are of whole bodies, on all three platforms; the scripts stop at the first failure and end | three increments each, all eight alignments, two timed turns after one warmup, a counter that wraps after 16 inside the bodies; three nodes over four blocks, one interruption per body; all 16 sets of stubs, three messages through a queue of two |
| `make_run` | **violated**, see 4 | the exercises as shipped, three messages |

Deadlock is checked in every run: programs that end do so in a state with an
explicit stuttering step (`Finished`, `Stopped`, `Exited`, `Rests`).

All other constants are the ones of the code scaled down; each module names its
bounds (`MSG_COUNT`, `RUNS`, `MAX_INSERTS`, `PARSES`, `PUSH_COUNT`, `NUM_KEYS`,
`INTERRUPTS`), and each of these is a real bound of the program except
`MAX_INSERTS` and `INTERRUPTS`. Where a proof below covers a property, the bound
matters to TLC only.

### Fairness

- **Threads.** Weak fairness for each thread and for `main`: the scheduler runs
  every runnable thread. `spsc` assumes it for the consumer alone; the two
  others appear as a premise of `TerminatesIfFair`, and not at all in
  `DrainsWithoutProducer`.
- **Visibility of stores** (`EnqVisible`, `DeqVisible`): strong fairness of the
  load that returns the latest value. A store becomes visible in finite time
  (C11 7.17.3 p16), so a loop that loads for ever sees it. Without it a spinning thread
  could read the same stale index for ever.
- **The mutex**: strong fairness of its acquisition for each thread. A thread
  that finds it free again and again gets it in the end. POSIX does not promise
  it; the default schedulers and futexes deliver it, and the termination of
  `run_mutex` really depends on it, since both loops take the lock without pause.
- **Sequential programs**: weak fairness of the step that is next. `SearchesEnd`
  leaves out the stacks and the arena, which are given calls without end, and
  ch07, which only counts; no fairness is assumed of them.
- **Scripts** (`RunSpec`): weak fairness of whatever can run next, which is what
  a running machine gives. The threads of ch13 are inside it: one of them can
  always go on unless both wait for a stub, so there is no unfair choice to
  exclude. Nothing obliges an allocation or a build to fail.

## 4. Findings and observations

Three runs show the code doing what its text denies.

- `arena_mask` (`ExcessIsRefused`): `(sz + 7u) & ~7u` in ch17 line 148 clears
  the upper half of a 64-bit size, so a request of 2^32 bytes or more is
  truncated and granted although line 140 says that a request that exceeds the
  arena returns NULL. The program's own requests are 48 and 72 bytes.
  `BlocksAreSound` does not show this: in the run `programs`, as in the theorem
  `SoundBlocks` (`Fitting`), all requests are narrower than the mask.
- `btree_calloc` (`FailureIsReported`): `bt_new_node` of ch10 writes through `n`
  on lines 53–55 and checks it on line 56. When the first `calloc` fails the
  program crashes instead of printing and leaving with 1. The exercise has the
  same order.
- `make_run` (`MakeRunEnds`): `make run` is to "Build then run all exercises"
  (`README.md` line 173), but as shipped both stubs of the ch13 exercise answer 0
  for ever, its threads spin and are never joined, and the exercises of chapters
  16 and 17 are not reached. `ExercisesEnd` shows that this is the only reason:
  with the stubs implemented both scripts end.

Met on the way, in text or outside the checked properties:

- `ch10` needs an even order: with an odd one `t = order / 2` drops a key at
  a split. `BTreeAssumption` says so; `main` uses 4 to 32. Its header speaks of
  order `t` with `t-1` to `2t-1` keys, the code of order `2t`.
- `ch12` `heap_insert` has no bounds check and `heap_extract_min` answers 0 on
  an empty heap; the callers respect the first, and the abstract queue has the second.
- `ch17` `arena_parse` leaves only the inner loop when a property cannot be
  allocated. It stops "when the arena is exhausted" only because, with the real
  sizes, what is left is then too small for a node as well. `CutOnce` says so of
  the sizes; that it is a `DeviceList`, which adds nothing after the cut, is
  proved from it, and `ProgramSizes` proves it of the real numbers. The comment's
  sizes (96-byte properties, about 420 KB) are not the ones of the structures.
- `ch07` line 60: the buckets that byte sums never reach are those outside
  431..806, more than the 44 % the comment says; lines 117–118: anagrams need
  not differ before the mix ("abba" and "baab" do not). What holds, and
  `MixLosesNothing` states, is that exchanging two different *neighbours* always changes
  the sum before the mix.
- `ch08`: factor 1.5 makes 27 reallocations against 16, not about 50 % more.
- `ch04/ex4_2` line 61: four 16-byte particles fit a 64-byte line, not two.
- `ch02`: adjacent counters share a line unless their structure starts 8 bytes
  before its end, which its alignment allows.
- `run.sh` with nothing built runs nothing and exits with 0.
- The CI job's name promises the solutions too; `make all` builds the exercises only.

## 5. Proofs

TLAPS proves, for all values of the constants that satisfy the named
assumptions:

- `SPSCQueueProofs` (for every `CAP`, `MSG_COUNT`, `RUNS` > 0): the inductive
  invariant `IndInv`, from it type correctness, `NoDataRace`, `InOrder`,
  `QueueIntact`, `ChecksStayTrue`, `RunDelivers`, and that every step is a step
  of `FIFOQueue` or a stutter (`Refinement`).
- `MutexQueueProofs`: its `IndInv`, `NoDataRace`, in-order delivery,
  `QuietWhenReset`, and the refinement of `FIFOQueue`.
- `BTreeProofs` (every even order from 4, every set of keys, any number of
  insertions): the invariant `BTreeInv`, from it `Shape` and `SearchOrder`
  (`AlwaysBalanced`, `AlwaysSearchable`), and with what a search has not yet
  passed by (`SearchInvariance`) the refinement of `KeyIndex`
  (`IndexRefinement`): no split loses or doubles a copy of a key, an insertion
  counts once, and a lookup answers rightly.
- `DaryHeapProofs` (every arity ≥ 2, capacity and set of values): `IndInv`, types, the
  heap property, `MinAtRoot`, and the refinement of `PriorityQueue`
  (`QueueRefinement`). Of the stacks of ch05, `BothAreStacks` (every size, every
  finite heap, every choice of blocks).
- `DeviceTreeProofs`: for requests narrower than the mask (`Fitting`) and any
  arena and client, `BlocksAreSound` and the statement that `arena_mask` violates
  otherwise; that `arena_parse` is such a client (`ParserIsClient`); and for
  structures of aligned sizes (`AlignedSizes`, `CutOnce`) in any arena,
  `Consecutive`, `AsManyAsPossible` and the refinement of `DeviceList`.
  `ProgramSizes` proves that the numbers of the program satisfy both.
- `MallocTreeProofs` (any heap, any limits, any number of parses, any choice of
  blocks): `NoDangling`, `NothingLeaked`, and the refinement of `DeviceList`.
- `ProgramProofs`, on the smaller programs. ch01: `LookupsAgree` (every number of
  devices and buckets, every id looked up). ch06, every `CAP` and `MOD` with `CAP` a
  proper divisor of `MOD`: types, `CountsAreExact` and the refinement of `FIFOQueue`.
  ch16: `NoFalseNegatives` of the Bloom filter (every size, number of
  hashes and hash function). ch07: that a turn of the key generator is injective
  (`GeneratorInjective`) and that it never reaches zero (`NeverStuck`), for every
  width of a word and every seed but zero; `VarianceCountsCollisions` (every
  table, every number of keys, whatever the hashes compute); that `Times` is the
  product modulo 2^WIDTH (`TimesMultiplies`, every width); and `MixLosesNothing`
  (any number of keys of any length, any seed; words of 32 bits). ch09: `SearchesAgree` (every number of
  keys, every order of insertion, every key looked up). ch08: `GrowthIsCheap`
  (every factor above 1). ch02: `NoFalseSharing` (every line size above 8, every
  alignment, every number of increments). ch02 and ch03: `SamplesAreWhole` (every
  number of turns, operations, nodes and interrupts, each of the three counters).
  ch01, ch02 and ch04: `SameWorkOtherLines` (all sizes of arrays, lines and
  strides that satisfy `SweepAssumption`). The scripts: `StopsAtFirstFailure`
  (whichever stubs are left, whatever fails).
- `CommonTheorems`: division with remainder, distinct slots of a window of
  `CAP` indices, the least element of a non-empty set of naturals.

**The argument for the lock-free queue.** `NoDataRace` is not inductive: that a
thread knows of an access depends on what the value it loaded stood for. The
invariant ties the counts together. `OrderInv`: the producer has made `tail`
accesses (one more between its write and its publication), value `n` of `tail`
carries exactly the first `n`, and a thread knows as many as the index it saw.
`LocalInv`: a stale index errs on the safe side, `seen["prod"] <= head` and
`seen["cons"] <= tail`, and the checks bound the distance. `SlotInv`: the window
from `head` to `made["prod"]` holds its messages; as the window is at most `CAP`
long, its slots are distinct. When the consumer touches slot `head % CAP`, the
producer's last access to that slot has a number ≤ `seen`, or else it would lie
a turn ahead, outside the window. `IndexInv` and `PhaseInv` connect this with
the loops and with `main`'s resets.

**The argument for the mutex queue** is the usual one: `LockInv` says that the
holder is the thread inside its section, so a check made inside stays true.

**The argument for the ring.** `tail = (head + count) % MOD`, from which the
wrapped difference is `count`; slots go on consistently across the wrap because
`CAP` divides `MOD`.

**The argument for the B-tree.** The code stores neither the set of nodes below
a node nor its height, so `BTreeInv` says that both *exist*: `D[n]`, the nodes of
the subtree of `n`, and `H[n]`, with which the nodes are a `Tree`. Every node but
the root is one child of one node (`Placed`), a child is one lower than its
parent (`Leveled`), nodes are filled as the order demands (`Filled`), and a key
anywhere in `D` of child `i` lies between the keys `i - 1` and `i` of the
parent (`Ordered`, `Fits`). An insertion on its way stands in a node that is not full and in
which, seen from every node above, its key belongs (`Entered`). The heart is
`bt_split_child` (`SplitTree`): the new node takes over part of the full one's
subtree, so that `D` is regrouped (`Regrouping`), heights stay, and the order is
shown place by place, for the parent, the two halves and all others. A
new root is the same split below a root without keys. `Shape` and `SearchOrder` are
stated with recursive functions of the model, `Heights` and `KeysUnder`; that
these agree with `H` and `D` is shown without induction, by looking at the lowest
node where they would not.

**The argument for the index.** `KeyIndex` counts copies. The copies of a key
are the places that hold it, pairs of a node and a position, and a split moves
the places one to one (`SplitMoves`, a bijection), so that their number stays
(`SplitCounts`); a leaf that takes a key has one place more (`LeafCounts`). For
a lookup that ends at a leaf, `SearchInv` says that every node that holds the
key is in the subtree of `cur`: true at the root because all nodes are
below it (`AllBelow`, which takes the highest node that is not), and kept by a
descent as the key fits in no other child (`SeekDown`).

**The argument for the heap.** While an element is sifted up, every element but
it is not less than its parent, and its children are not less than its parent;
while one is sifted down, the same holds with the roles exchanged. Between calls
there is no exception, and the root is least by following parents, an induction
replaced by the least index that violates the claim. For the refinement, the
abstract bag counts the places of a value: exchanging two places is a
bijection between the places before and after, so a sift changes no count.

**The argument for the arena** is that the offset is a multiple of 8 and that
neither rounding up nor the sum wraps; the blocks then lie below it in order.
`Fitting` is exactly what the program's 48 and 72 bytes satisfy.

**The argument for `arena_parse`.** Its list is determined by two numbers, the devices
so far and the properties of the newest, and so is the offset: a device with all
its properties takes `DeviceBytes`, and property `p` of device `m` begins at
`Offset(m, p)`. `ParseInv` states list and offset in these numbers, from which
`Consecutive` follows and, as the offset of one more would exceed the arena when the
parse stops, `AsManyAsPossible`. `CutOnce` enters where the inner loop is left.

**The argument for the malloc tree.** `HeapInv` says that a *numbering* exists of
the live blocks: block `<<m, l>>` is device `m` for `l = 0` and otherwise its property
number `l`, no two have the same address, and `next` and `props` lead from each block to
the one allocated before it. An allocation extends the numbering by one, a free
takes the last one away: the walk of `free_tree` frees in the reverse order of
allocation, so what remains is always a numbering again. A pointer that is
followed is the address of a live block (`NoDangling`), and when the head is
`NULL` no block is left (`NothingLeaked`). The sequence that `DeviceList` sees is
the one the numbering spells.

**The argument for the Bloom filter** is `FilterInv`: at every moment of a
filling, a bit is set if and only if a hash that has been inserted since the
`memset` maps to it; and a query has seen only set bits up to its current seed.

**The argument for the generator** is that each of its three steps has the form
`x ^ (x << s)` or `x ^ (x >> s)`. If two words differ, take the lowest (or
highest) bit in which they do: the shifted word cannot differ there yet, so the
results differ too. As zero maps to zero, nothing else does.

**The argument for the device table** (`TableInv`, `ChainInv`, `LookupInv`). Of
`qsort` only this is used: what it returns is a rearrangement in ascending order.
The array then holds every device, every device inserted so far is in the chain of
its bucket, and neither lookup has passed by the device that is asked for: it is in
the interval that is left, or in what is left of the chain.

**The argument for the two stacks** (`StackInv`) is again a numbering that *exists*:
block `k` of the list holds what place `k - 1` of the array does, and points to
block `k - 1`. The walk from `list_head` that the property speaks of meets the blocks from the
last to the first (`WalkIs`), so both spell the same sequence, and a step of one
as an abstract stack is a step of the other.

**The argument for the two searches** (`SetupInv`, `NodesInv`, `TreeInv`,
`IntervalInv`). The code has neither parent pointers nor the set of nodes below
a node, so `TreeInv` claims that sets `D[n]` *exist* with: `D[n]` is `n` and the
sets of its children, keys on the left are less and on the right greater, and
children come after their parents. That the order holds above the leaf that is
appended follows from what the descent has seen, `InsertPath`: wherever `cur` is
in the left subtree of `n`, the key was less than that of `n`. For the next step
of a descent this needs that a node has one parent, which is in every subtree
that the node is not the root of (`HasParents`). An insertion extends the sets
that hold `cur` by the new leaf (`InsertTree`). A search keeps its key below
`cur` if it is in the tree at all (`SearchPath`), and the bisection keeps it
inside `lo .. hi - 1` (`IntervalInv`).

**The argument for the dynamic array** is the potential behind the geometric
series as an invariant: with factor `p / q`, `copied * (p - q) <= cap * q`. A resize
at size `s` copies `s` elements more and makes the capacity more than `s * p / q`, so the
bound is restored (`ResizeArithmetic`).

**The argument for false sharing**: a padded structure is a line long, so that
its counters lie on different lines wherever it begins (`LineFacts`); a line
then holds no copies but those of the thread that counts there (`LinesInv`).

**The argument for the sums.** Several properties speak of sums over a function,
defined with the fold of the community modules. That such a fold over a finite
set has a value, and which, needs no induction scheme: of the subsets for which a
claim fails take a least one (`SubsetInduction`); as it is not empty, one
element can be taken out, and the claim holds of the rest. `Total` is then
additive in each place (`TotalAdds`), bounded by the bounds of its terms
(`TotalBetween`), and independent of the order in which the fold visits them.

**The argument for the samples.** While a body runs, the difference between the
clock and `t0` is the number of operations and interrupts of the body so far;
`clock` may wrap once in between, and the platform's arithmetic wraps with it
(32-bit halves that are joined, seconds and nanoseconds modulo 2^64). A body
ends with all its operations done, so a sample is at least their number and at
most that and `INTERRUPTS`. In ch02 the operations are the loads and stores of
two threads, in ch03 the steps of a walk over a list for which, as for the
stacks, a numbering *exists*. The bounds on the statistics follow from those on
the samples by `TotalBetween`.

**The argument for the variances.** A key that falls into a bucket of `c` keys
raises the square of its count by `2 * c + 1` and the pairs that share a bucket by
`c`: so the sum of the squares is twice the pairs plus the number of keys, after
every key, and the printed numerator is a linear function of it.

**The argument for the hash functions.** A word stands for a number, `NumberOf`, the
sum of the powers of two at its bits; distinct words stand for distinct numbers
below `Power[WIDTH]` (`ValuesTellApart`). `Times` adds columns with carries: what is
carried out of the last column is a multiple of `Power[WIDTH]` (`CarriedOut`), and
the columns are the rows `y` shifted by the bits of `x`, added up one row after the
other (`RowShifts`, `ManyRows`). So `Times` is the product modulo 2^WIDTH
(`TimesMultiplies`), and two factors whose product is 1 more than a multiple of
it undo each other (`TimesUndone`). That the factors of FNV-1a and Murmur3 have
such partners is a computation with their literals (`Literals`, `InverseFactors`), which
is why the theorem `NothingLostInMixing` assumes `WIDTH = 32`, the width of a
`uint32_t` and of the run: the inverses belong to this width. `h ^= h >> s` is undone by
the same step with `s`, then with `2 * s` (`XorShrUndone`, for 13 and 16 in 32 bits).
The two folds over the letters, forwards and back, are chains of values, one per
letter (`FnvAlong`, `UndoAlong`), that agree at every place as each step is undone. For two
neighbours `a`, `b` that change places at any place, the sums before the mix differ by
exactly `a - b` (`PremixTellsOrder`). The inductive invariant is that the keys are
sequences of numbers (`KeysInv`); it implies the property in every state, also
for keys that are already filled. In the model that sum does not wrap; with the 15
letters of the program's keys it is below 2^14.

**The argument for the sweeps** (`ReadsInv`, `ParticleInv`). An access pattern
is either a *walk* whose steps are not longer than a line, which has missed once on
every line from the first to the one it is on (`Walking`), or a sequence of *jumps* of
at least a line, each of which misses (`Jumping`). The shuffled sum is the
sequential one because a swap does not change the sum of `rand_idx`
(`SwapKeepsSum`); the partial sums of the two matrix loops have closed forms,
which agree at the end (`ColumnSums`).

**The argument for the scripts** (`RunInv`, `NeighboursInv`). Every exercise ends with
a line that it prints, so an exercise that is left without its last line has
failed; a script goes on only from status 0, so all exercises before the current one have
printed all of theirs.

**Recursion without an induction scheme.** Folds, sums and recursive functions are
functions on a finite set of indices. That such a function exists is shown by
extending one from `0 .. n` to `0 .. n + 1`, and what holds of it by the least index at
which it would not (`StepByStep`, `SubsetInduction`, `FoldExists`); a claim is then a
set of indices that contains 0 and with each index the next.

**Only model-checked:** liveness under fairness, which is outside the prover's reach:
`DrainsWithoutProducer`, `TerminatesIfFair`, `Termination`, `Returns`, `SearchesEnd`
and `ExercisesEnd`. That the inductive invariants hold in the small instances is not
checked by runs of its own, since they are proved.

## 6. Plan

Done: all programs of `sandbox/solutions`, the harness, and the scripts with the
exercises they run; every refinement and every other safety property that a
run checks is proved.

Open: liveness, which stays with TLC.
