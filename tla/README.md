# TLA+ verification of mailib

mailib is a small C/C++ library (`src/Include`, `src/src`): a job system over
OS threads, a semaphore, a hash table and an array on an allocator interface,
reference-counted strings, file streams behind one interface with search
paths, and a registry of unit tests. This directory holds TLA+ models of the
parts that keep state, the TLC configurations that check them, and TLAPS
proofs about them. Paths below are relative to the root of the library.

## 1. Inventory

| Component (source) | State | Operations | Hard behaviour | Correct when |
|---|---|---|---|---|
| Job system (`src/threading/job_system.cpp`) | a ring of jobs per worker with `queue_index` and `running_index`, `current_worker_index`, `idle_worker_count`, `running`, one mutex, two condition variables | `job_system_setup`, `_shutdown`, `_queue`, `_is_idle`, `_wait_idle`; `main_loop` in each worker | ring indices read and written outside the mutex (lines 70-71, 88-89, 180); broadcasts after unlock; idle counting around waits; jobs that queue or wait; shutdown while workers drain; a second setup on used state | a queued job runs once, in the order of its ring; an idle answer means all have run; every ring has one worker; setup, wait and shutdown return; nothing is released in use |
| Threads, mutex, signal (`src/threading/Windows/thread_functions_windows.cpp` 85-175) | the OS's | lock, try_lock, unlock, wait, broadcast, run, join | spurious wakeups, thread creation that fails | used as the OS asks; modelled where they are used |
| Semaphore (same file, 177-233) | `count`, mutex, signal | init, post, wait, try_wait, release | post blocks at 1, nobody signals | units are conserved, binary stays binary |
| Hash table (`Include/container/hash_table_functions.h`) | `count`, `capacity`, `hashs`, `nexts`, `keys`, `values`; the last three in one block | new, init, free, detach, clear, index_of, contains, get, set, erase, remove | erase moves the last entry; growth moves arrays that overlap; reuse after clear | a map from keys to values; every lookup ends |
| Array (`Include/container/array_functions.h`) | `capacity`, `count`, elements behind the header | new, free, ensure_size(_or_new), push, push_expand, pop, clear | growth replaces the block | a stack; elements fit the block |
| Strings (`src/text/string_functions.cpp`) | `StringBuffer` with `memtag`, `memref` and `length` before the text | new, from, ref, free, length, format, format_argv, format_buffer | counts changed from several threads; lengths that are not the text's; missing terminators | freed once, when the last reference is gone; no byte read or written outside |
| Atomics (`Include/threading/atomic_ops.h`) | - | add, sub, get, set in three branches by compiler | the Windows branch is two steps and answers the old value | indivisible |
| Memory stream (`src/fs/fs_memory_stream.cpp`) | buffer, `length`, `cursor` | open, read, write, seek, is_eof, close, flush | seek's range test, requests beyond the end | stays inside its buffer |
| Stdio files (`src/fs/stdio/fs_stdio.cpp`), Windows files (`src/fs/windows/fs_windows.cpp`) | the OS's handle, its place and rights; on stdio the end-of-file flag and the direction of the last transfer | open by mode, close, read, write, seek, get_size, is_eof, flush | three meanings of the end; a size query that clears the flag; a seek that counts the other way | short transfers mean the end; a reader stops, having read all |
| Search paths (`src/fs/fs.cpp`) | 16 rows of 1024 bytes and a count | add, remove, exists, get_exists_path | `memmove` by count of rows | lists what was added |
| Unit tests (`src/misc/testing.cpp`, `Include/Misc/Testing.h`) | head, tail and `next` links of static objects | constructor, `testing_run_all_cases` | order of constructors is not fixed | every case runs once |
| Hash indexor (`Include/container/hash_indexor_*.h`) | - | declared, not implemented | - | - |
| Allocators (`Include/memory`, `src/memory`) | the C library's | alloc, realloc, free | moved, in place, or null | modelled where they are used |

Interactions. The job system calls the thread layer; its callers are any
threads, and its jobs may call it back. Hash table and array call an allocator
that may refuse, move, or grow a block in place. `string_ref` and
`string_free` meet other threads only in the atomic operations. `fs.h`
dispatches through the `inteface` of a stream to a buffer, a C library file or
a Windows file; stdio finds the file through the search paths.

Some headers cannot be compiled as they stand (templates nobody instantiates
in full, arguments that are missing, `array.count` for `array->count`). The
models read each such place as the only thing it can mean and say so in the
heading of the module.

## 2. Modules

| Module | Models | State and actions |
|---|---|---|
| `JobSystem` | job system with mutex, signals, thread start and join | variables are the fields of `JobSystemState` plus the local variables of `main_loop` (`worker_index`, `job`, `reg`), the place of every thread (`pc`) and a history of jobs. Lifecycle: `BeginSetup`, `ResetQueueIndex`, `ResetRunningIndex`, `RunThread`, `BeginShutdown`, `BroadcastShutdown`, `JoinWorker`, `ReleaseSync`. Calls, from a thread or from inside a job: `QueueStore`, `QueueLoad`, `QueueAdvance`, `QueueBroadcast`, `WaitSleep`, `WaitReturn`. Worker: `CallNullEntry`, `ClaimRing`, `TestRunning`, `BecomeIdle`, `TestQueue`, `CompareIdle`, `WakeUp`, `LoadQueue`, `CompareDrain`, `TakeJob`, `PopLoad`, `PopAdvance`, `FinishJob`, `CallNullJob`, `ExitLoop` |
| `JobPool` | what the job system promises: a pool of jobs, each run once, and waits that end when it is empty | `JobSystem!IsJobPool` is the refinement |
| `JobSystemProofs` | threads, locks, idle count and lifecycle; then, on top of it, what is in the rings | theorems |
| `MCJobSystem` | instances of `JobSystem` for TLC | sees the inductive invariants of the proofs |
| `ThreadSemaphore`, `ThreadSemaphoreProofs` | semaphore | `count`, the mutex's holder, the sleepers, the call each thread is in |
| `HashTable`, `MCHashTable`, `HashTableProofs` | hash table | the fields of the table; an action per call that changes it, with the failures of the allocator; a record `use` says which calls a caller makes, what the allocator does and whether the model follows the table after it got out of order |
| `KeyMap` | what the table promises: a partial function | `HashTable!IsMap` ties each call to the action of `KeyMap` that its name promises, `map` being what lookups find |
| `GrowableArray`, `GrowableArrayProofs`, `Stack` | array, and the stack it promises | `IsStack` ties each call to the action of `Stack` of its name |
| `StringRef`, `StringRefProofs`, `MCStringRef` | one heap string and its references over two branches of `atomic_ops.h` | each reference is an actor: it begins one call and goes through the steps of the atomic operation |
| `StringText`, `StringTextProofs` | lengths, terminators and buffers of strings | a record per variable of the caller; an action per function, each with the bytes it reads and writes |
| `MemoryStream` | buffer behind a stream | `length`, `cursor`, and as history the last transfer and whether a seek or an overflow led outside |
| `FileSystem`, `MCFileSystem`, `FileSystemProofs` | extends `MemoryStream` with stdio files, Windows files and search paths, and a caller that reads to the end | the length of the file in each place (`disk`), the rows (`search`), the open handle, its rights, the flag of the C library, what the last seek or flush answered; an action per call |
| `TestRegistry`, `TestRegistryProofs` | test registry | constructors in any order, then the run |

Grain of atomicity in `JobSystem`. A critical section that only touches what
is always touched under the mutex is one action. The ring indices are not:
workers read them on line 180, and `init()` and `deinit()` write them, without
the mutex. So each load and store of an index is a step, also inside the
sections (line 145, `x = (x + 1) % n`, is a load and a store), and a
comparison of two indices is two loads. A load in `reg` is the compiler's
register.

In the code, `init()` starts each thread with `worker_threads[i].func`, a
field `thread_run` itself fills afterwards; it is null, and the first worker
that reads it crashes (`CallNullEntry`). Every worker may do so in every run.
`ClaimRing` follows a worker that was handed `thread_func`, as the comment and
the rest of the code intend, or nothing behind line 72 could be studied.

Where the code does something that nothing it promises survives, the model
takes the step and remembers it in a history variable; the properties say
that nothing but such a step breaks them. These are `refused` (an array that
could not grow), `torn` (an update lost in the Windows branch of the
atomics), `orderly` and `lost` (a hash table whose chains were cut, or whose
buckets could not be had), `strayed` (a stream led outside by a seek or an
overflow) and the `fate` of a text. After a write or a read through memory
the program does not own, the model stops: there is nothing known to follow.

`StringRef` and `StringText` are two views of the same functions: which thread
frees a string does not depend on its text, and what is written into it does
not depend on its count. `FileSystem` follows one stream and one file name;
what the C library and Windows do is taken from their documentation, as the
code uses it.

Definitions named `...Mutant` stand before the definition they alter, as a
plausible bug would; no specification uses them. They show that each property
can fail.

## 3. Runs

| Run | Question | Result |
|---|---|---|
| `js_use` | One setup; a client, the main thread and jobs queue 6 jobs into 2 rings of 3 entries, jobs may wait, spurious wakeups: is a job lost, doubled, reordered or taken though none was queued, is an idle answer ever wrong, does a job that waits ever come back, and is it all a `JobPool`? | holds (515,813 states) |
| `js_restart` | Two setups and shutdowns, thread creation may fail, entries may be null: has every worker its own ring, is nothing released in use, does setup return only with all workers, do calls come back and jobs get run? Also `IInv` of the proofs. | holds (30,817 states), fair |
| `js_stop_race` | Does a worker only take a job that was queued and has not run (line 33, "The current running job")? | violated: see section 6 |
| `sem_use` | Units conserved, binary stays binary, does `try_wait` return? | holds (10,052 states), fair |
| `ht_use` | Keys that collide and memory that may be refused, in two uses: with any removals, does each call do to the map what it should until the table is out of order; cleared, reused and grown, does the table keep to its block and does every lookup end? | holds (114,137 states) |
| `ht_hang` | Does every lookup end after any sets and removes? | violated: see section 6 |
| `arr_use` | Is each call that of a stack, across growth, and do elements stay in the block until a growth is refused? | holds (177 states) |
| `str_use` | 5 references, overlapping calls in both branches: is the count exact, the string freed once, never used after, until an update is torn? Is none torn and nothing left behind in the GNU branch? | holds (110,469 states up to symmetry) |
| `str_text` | Strings of every origin handed to every function, buffers of any size: is a string read behind its room, and does `string_length` answer what is there? | holds (58,743 states) |
| `fs_use` | Buffers, stdio files and Windows files behind one interface, found through search paths, seeks anywhere: does it take a seek outside or an overflow to leave the buffer, to be short before the end or to read for ever; has a caller that reads until `fs_is_eof` read all? | holds (652,456 states), fair |
| `test_order` | 5 constructors in any order: is a case dropped, do the links lead in a circle? | holds (686 states) |
| `test_all_run` | "Run all unit test cases" (`Include/Misc/Testing.h:26`) | violated: see section 6 |

Bounds, and why they are enough.

* `JobSystem`: two workers are the least that can take each other's ring or
  wake for each other's job; 6 jobs go round a ring of 3 entries once
  (3 jobs each), so indices wrap and `BoundedUse` bites. One client beside the
  main thread gives two callers that compete. `ran` stops at 2 ("more than
  once"). `js_restart` has two cycles, since a third finds the same kinds of
  remains as the second. The theorems drop these bounds for what they cover.
* `ThreadSemaphore`: one thread inside, one asleep, one about to call; counts
  start below, at and above the bound of 1; 3 posts.
* `HashTable`: 2 buckets for 4 keys give two chains of two; 4 entries are the
  least in which an erase moves an entry that has a successor. The first
  capacity is part of a use, 32 in the code: 4 in the use that removes
  (`Tidy`), so that it need not grow first, and 2 in the one that clears,
  reuses and grows (`Reused`). `Tidy` is followed until it is out of order, the
  first such step included; `Reused` also behind it. The circle of `ht_hang`
  needs a chain of three (5 keys, 2 buckets).
* `GrowableArray`: initial capacities 0, 1 and 3 around a limit of 4 elements.
* `StringRef`: a buffer ends when freed, so the number of references alive
  bounds everything; three already give two that free while one refers.
* `StringText`: every function takes at most one string and makes one, so two
  variables show each pair of calls; lengths 0, 1 and 3 are cut, fit or leave
  room in sizes from 0 to 7, which lie on both sides of a header of 2 bytes
  and of header, text and terminator together. `SIZE_RANGE` 16 is larger than
  every sum of them, as 2^64 is.
* `FileSystem`: files and buffers of 0 and 3 bytes, files that may grow to 4
  (`MaxLength`), past which no file is sought either; seek counts of -2, 0, 1
  and 3 lead before the start, inside, to the end and past it from every
  cursor. `INT32_MAX` is scaled down to 8: requests of 0, 2, 4 and 8 bytes lie
  below, at and above what is left, and the last overflows the sum of line 90
  from any cursor but 0. Two directories and `SEARCH_PATH_MAX_COUNT` 2 (16 in
  the code) give a row with one behind it. The theorems drop all of these.
* `TestRegistry`: all 120 orders of 5 cases.

`CHECK_DEADLOCK FALSE` is set where the system may really stop: a setup whose
thread could not be created waits for ever (`js_restart`), all callers may be
asleep on the semaphore (`sem_use`), a string ends when it is freed
(`str_use`), the test run ends (`test_order`, `test_all_run`).

## 4. Fairness

* `JobSystem!FairSpec`: weak fairness of every worker's next step and of every
  caller's next step inside a call; nobody has to begin a call. This is what
  an OS scheduler gives. Locks are acquired under weak fairness only: every
  critical section is finite and a finite number of jobs competes for it.
  Jobs return: `FinishJob` is a step of the worker.
* `ThreadSemaphore!FairSpec`: a thread that can go on inside a call does.
  Wakeups are not fair: nothing obliges the OS to make spurious ones.
* `FileSystem!Spec`: weak fairness of the loop `while (!fs_is_eof) fs_read`
  (`~Lost /\ (ReadOn \/ EndLoop)`), which is straight-line code of one caller,
  as long as no copy outside the buffer ended what is known. No other call has
  to be made.

No strong fairness is used anywhere.

## 5. Proofs

All proofs are checked by `tlapm` with Z3, Zenon and LS4.

* **Job system, threads** (`JobSystemProofs`), for every number of cores,
  clients, jobs, ring sizes and setups. `IInv` is inductive: the types
  (`TypeOK`), who has a ring (`ClaimInv`), the mutex is held exactly by the
  thread in a locked section (`LockInv`), who may sleep (`SignalInv`), what
  each phase of `init()` and `deinit()` implies for every thread (`LifeInv`),
  and the exact idle count. The type of `queue_index` and the count are not
  inductive alone: `idle_worker_count` is right only because it changes under
  the mutex and because a worker that leaves main_loop counts itself only
  after `running` is false, which is what `LockInv` and `LifeInv` say. From it
  follow `TypeCorrect`, `IdleCountCorrect`, `ReleasedCorrect` (the mutex is
  released only when every thread is done) and `UpCorrect` (a setup that
  returns has all its workers, because `is_idle` needs each of them in the
  waiting section). `DistinctRingsCorrect` adds `RingsInv`: during a setup
  `current_worker_index` has not come back to a ring it handed out. It assumes
  `QuietSetups`: jobs queue no jobs, or there is one setup. That assumption is
  necessary (section 6); in the first cycle `RingsInv` holds without it.
  One frame lemma per group of variables lists the actions that may change
  it, so that each conjunct is proved only for those.
* **Job system, jobs** (the second part of `JobSystemProofs`), for the time from the first setup
  to the moment a shutdown begins (`Active`), if callers never queue into a
  ring with `RingSize - 1` jobs (`BoundedUse`). After that moment `deinit()`
  clears the indices under the feet of the workers and none of it holds
  (`js_stop_race`); without `BoundedUse` a job is written over (section 6).
  The invariant says which entries of a ring are live: those from
  `running_index` up to `queue_index`, with the one just being added and
  without the one just being taken, because line 145 and line 185 move an
  index some steps after the entry was written or read. On top of that:
  `IndexInv`, what each thread between a load and a store of an index may
  rely on, and that a worker about to take a job finds its ring not empty
  though it looked without the mutex; `LiveInv` and `OrderInv`, that the live
  entries are jobs of this ring which have not run, in the order they were
  queued; `HeldInv`, that a job in a worker's hands came before all that wait
  in its ring; `KnownInv`, that each queued job has run once, is held, or is
  live; `PastInv`, that what has run came before both. A ring has one worker
  (`RingsInv`), or two of them would take the same entry. It follows
  `RingOrderCorrect`, `IdleCorrect`, `ConservationCorrect`, `TakesCorrect`
  (what a worker takes was queued and has not run) and the refinement `PoolCorrect`:
  storing a job maps to `Submit`, the end of a job to `Run`, and a wait that
  returns finds `Pending` empty because an idle answer is right.
  `WaitInVainCorrect` needs none of these assumptions.
* **Semaphore** (`ThreadSemaphoreProofs`): `BalanceCorrect` and
  `BinaryCorrect`, for any threads, counts and posts.
* **Hash table** (`HashTableProofs`), for any keys, buckets and entries.
  `MapCorrect` says of each call what it does to the map from keys to values
  (`CallsOnMap`): a set puts the value it was given at its key and nowhere
  else, a removal deletes its key, also when it moves the last entry into the
  gap, a set that fails changes nothing. It holds as long as the table is
  `orderly`: until an entry with a successor is removed, a table with entries
  is cleared, or a block with entries grows. Its invariant
  (`Chained`) has to say what a chain is without recursion: every set of
  entries has one whose successor is outside the set (`Acyclic`, so a walk
  cannot stay) and one that its bucket or an entry outside leads to (`Rooted`,
  so a walk finds every entry); no entry has two predecessors (`OnePred`) and
  each is in the chain of its own key (`OwnChain`). None of these is inductive
  alone: adding at the end keeps `Acyclic` only because the walk for a missing
  key ended in its own chain, and renaming the moved entry keeps `Rooted` only
  because it has one predecessor. `TypeCorrect` and `LookupsEndCorrect` go further:
  a table from which nothing is removed may be cleared, reused and grown in or
  out of order; one from which something is, up to the first step that gets it
  out of order. `ht_hang` shows that this cannot be dropped.
* **Strings, references** (`StringRefProofs`), for any finite set of
  references, both branches of `atomic_ops.h` and any overlap of calls:
  `CountCorrect`, `NoUseAfterFreeCorrect`, `FreedOnceCorrect`,
  `NoLeakCorrect`. The invariant says that, until an exchange writes over a
  count that has changed since it was read (`torn`), the count is the number
  of references, the buffer is live while it is positive, and at most one call
  has seen 0 and not freed yet; and that nothing in the GNU branch reads before
  it writes, so that nothing there is ever torn.
* **Strings, text** (`StringTextProofs`), for all lengths, sizes and header
  sizes: `ReadsInsideCorrect`, `LengthHonestCorrect`. The invariant says of
  every string that it has a terminator in its room, or is a copy on the heap
  whose length stays inside its room, or was made by a format with no byte to
  write to. A length may exceed the text; the reads then stop at the
  terminator.
* **Array** (`GrowableArrayProofs`), for every capacity and whatever the
  allocator grants: `FitsBlockCorrect` and `StackCorrect`, which ties each call
  to the operation of a stack, up to the push whose growth is refused. The
  elements up to the capacity that `pop` and `clear` leave behind are mapped
  away.
* **Streams** (`FileSystemProofs`), for all files, requests and seeks:
  `TypeCorrect`, `TransfersInsideCorrect`, `ShortOnlyAtEndCorrect` and the
  action property `LoopReadsAllCorrect`. The cursor of a buffer and of a
  Windows file stays inside until a seek or an overflow leads it out
  (`CursorInRange`), that of a stdio file need not; there the flag, set only by
  a read that came up short, carries the argument. `LoopReadsAllCorrect` holds
  wherever the cursor has been: all three notions of the end are at or past it.
* **Test registry** (`TestRegistryProofs`), for any number of cases:
  `NoCaseDropped`, and `NoCircle`: from every case the links come to an end. The
  invariant (`Chain`) names the cases in the order of the links, the last
  constructed first.

Each assumption on constants is named in the module that declares them, and
TLC evaluates it in the runs. The conditions written `ASSUME` in a theorem of
the job system (`BoundedUse`, `QuietSetups`) are hypotheses of that theorem
alone; the instances of the passing runs that check the property satisfy them.
No other theorem has one.

Walks along links are functions that recur (`Walk` of `HashTable` and of
`TestRegistry`). The proofs first show that such a function satisfies its
equation, then argue by the least place at which a claim would fail (`Least`,
from the well-foundedness of `<`), which takes the place of an induction
principle.

Only model-checked: everything temporal under fairness (`SetupReturns`,
`ShutdownReturns`, `QueuedJobsRun`, `WaitersReturn`, `TryWaitReturns`,
`ReaderEnds`), since the prover does no liveness. Every invariant of the
passing runs and every property of single steps is also a theorem.

## 6. What the code does differently

The violation runs:

* `js_stop_race`: `deinit()` sets both indices of a ring to 0 without the
  mutex and before it joins the worker. A worker between its test (line 180)
  and its load (line 183) takes whatever entry 0 holds: a job that ran
  before, or nothing, which it calls (line 189).
* `ht_hang`: `hash_table_erase` writes -1 where it should write the successor
  of the erased entry (lines 246, 250), so entries behind it drop out of the
  chain. One of them may later be the last entry, which an erase moves into a
  gap with the successor it had: the chain can become a circle, in which
  `hash_table_index_of` does not end for a missing key.
* `test_all_run`: the constructor links a case to the one before it, the run
  starts at the first; only that case runs.

What the job system breaks when its callers do what nothing keeps them from:

| Change | Broken | Why |
|---|---|---|
| `js_use`: `BoundedUse = FALSE` | `JobConservation` | a full ring is written over, `job_system.cpp:144` |
| `js_restart`: `JobsMayQueue = TRUE`, `RingSize = 2`, `JobLimit = 8` | `DistinctRings` | a stale job in a ring not yet cleared queues a job during the second setup, `:70` |

Steps of the code that the passing runs take and the properties name as the
only exception to what they say:

| Step | Exception | Why |
|---|---|---|
| `PushExpand` whose growth is refused | `refused` in `FitsBlock`, `IsStack` | a full array is returned as if grown, `array_functions.h:59`; the value goes behind the block |
| `Exchanged` over a count that has changed | `torn` in `CountExact`, `NoUseAfterFree`, `FreedOnce` | read and exchange are two steps, `atomic_ops.h:22` |
| `Remove` of an entry with a successor | not `orderly` in `IsMap` | erase cuts the chain, `hash_table_functions.h:246` |
| `Clear` of a table with entries | not `orderly` in `IsMap` | the buckets stay, `:58`, and lead to entries no longer counted |
| `SetNew` into a block that grows | not `orderly` in `IsMap` | in place, keys are moved over values that are moved after them, `:181`; moved, both are read from the freed block |
| `Seek` of a buffer outside of it | `strayed` in `TransfersInside`, `ShortOnlyAtEnd`, `ReaderEnds` | the range test joins its halves with `&&`, `fs_memory_stream.cpp:133` |
| `Transfer` whose sum overflows | `strayed`, as above | the comparison of lines 90 and 101 fails and nothing is clamped |
| `SeekFile` past the end on Windows | `strayed` in `ShortOnlyAtEnd`, `ReaderEnds` | `is_eof` compares with equality, `fs_windows.cpp:338`: a reader never stops |
| a reader that asks for the size | loop `"asking"`, not in `ReaderEnds` | `fs_get_size` clears the flag of the C library, `fs_stdio.cpp:154`; it may read for ever |
| `Vsnprintf` with a limit of 0 | fate `"blank"` in `ReadsInside`, `LengthHonest` | nothing is written, not even a terminator, and the length is stored, `string_functions.cpp:106` |

Steps after which the models stop, and about which no property is stated:
`From` and `FormatBuffer` that write behind the buffer (`Lost` of `StringText`:
`string_functions.cpp:90` asserts less room than is needed, and does so only in
a debug build; line 135 subtracts from an unsigned size), a `memcpy` outside
the buffer (`Lost` of `MemoryStream`), buckets that could not be allocated
(`BucketsFail`, `hash_table_functions.h:150`).

Also read in the code, and visible in the models: a null entry function in
every thread (`CallNullEntry`, `job_system.cpp:72`); a successful
`hash_table_new` returns null (`hash_table_new` in `HashTable`);
`JOB_SYSTEM_MAX_WORKERS` does not bound the worker count that setup asks for
(`WorkersFor`); a setup hangs when a thread cannot be created
(`ThreadMissing`); a job that calls `job_system_wait_idle` waits for itself,
until a shutdown (`JobsWaitInVain`); jobs queued when a shutdown begins may be
dropped; `post` and `wait` of the semaphore never signal, so only a spurious
wakeup ends a sleep on it (`Post`, `Wait`); the Windows branch answers the old
count, so the last `string_free` does not free (`NoLeak` is stated for the
other branch); a cut text keeps the length it would have had (fate `"cut"` in
`StringText`); a copy made by `string_new` lacks its terminator (`stray` in
`New`); from the end, a buffer counts back and a file onwards (`FileTarget`);
a `"w"` after an `"r"` is ignored by the C library and refused by the Windows
open (`StdioAccess`, `OpenWindows`); `stdio_seek` answers false whatever
happens, since it tests `fseek(...) > 0` and `fseek` answers 0 or -1
(`fs_stdio.cpp:147`, `answer` in `SeekFile` and `SeekFails`), and
`windows_io_seek` answers true whatever happens; `stdio_flush` answers true
when it failed (`fs_stdio.cpp:168`, `Flush`); `memmove` counts rows where it
should count bytes, so removing any search path but the last mangles the list
(`fs.cpp:49`, `Moved`).

Read in the code and outside the models: `string_is_heap` reads the bytes
before any string, also a literal's (`string_functions.cpp:28`);
`string_get_buffer` calls itself (`string_functions.h:85`); the 17th search
path is written behind the rows (`fs.cpp:34`, a guard of `AddSearchPath`); a
file that was found may be gone when it is opened (`fs_stdio.cpp:87`); opening
over an open stream drops the handle (`:98`, the guard `MayOpen`); a pointer
kept across `array_push_expand` dangles (`array_functions.h:53`).

## 7. Not modelled

* Shutdown while a client is inside a call, and `thread_semaphore_release`
  while the semaphore is in use: both destroy a mutex others are about to use,
  and the model lets them begin only when nobody is (`BeginShutdown`).
* Clock, sleep and main-thread id: a call each to the operating system.
* The hash indexor and the page allocator: declared, not implemented. The
  Unix threads: not in the repository. Build files.
* The C11 branch of `atomic_ops.h`, which tests a misspelt macro, and get and
  set, which have no caller.
* Literals and stack strings in `string_is_heap` (above), and the contents of
  strings and files.
* What the interface of streams neither documents nor checks is a guard on the
  caller: a write after a read without a seek or a flush (undefined in C), a
  second open without a close, more than 16 search paths. I/O
  errors, which the code hands through, and files that others change while
  they are open.
* Memory models: accesses to `queue_index` and `running_index` outside the
  mutex are single steps in program order; what a compiler or a weak memory
  makes of these data races beyond the interleavings is not explored.

## 8. Plan

Done: the modules above, in the order job system, semaphore, hash table,
strings, streams, array, tests; then the pool, the proofs about jobs, string
texts, the file system; then the proofs about chains (hash table, test
registry) and the Windows branch of the strings; then the failing steps of
allocators, streams, tables and atomics inside the models.

Left, in this order:

1. A shutdown that may begin while a client sleeps in `wait_idle`
   (`job_system.cpp:95`), switched on by a parameter as `BoundedUse` is, with a
   line in the first table of section 6.
2. A use of the hash table that removes after a clear, which finds a key that
   is no longer counted (`hash_table_functions.h:271`).
3. `TakesQueuedJob` for a variant of `deinit()` that joins first, should the
   code change that way.
