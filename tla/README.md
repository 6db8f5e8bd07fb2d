# CZet: a TLA+ verification project

CZet is a C dialect: a fork of GCC, packed with two C libraries into one
self-extracting executable (`src/src/czet.c`), and a header-only standard
library (`src/stdlib/utils/`). This project models the code that is CZet's own
and keeps state: the library, concurrent and sequential; the driver, from its
toolchain cache to the arguments it hands to `xgcc`; and the extensions of the C
front end that carry state from one statement to the next. Safety, liveness and
refinement are checked by TLC on small instances; every safety property that a
passing run checks, and the safety part of both refinements, is also proved by
TLAPS for every value of the constants.

Run everything inside this directory: `tlc -config X.cfg MCModule`, and
`tlapm XProofs.tla`.

## 1. Inventory

| Part | State | Operations | Interacts with | What is hard | What makes it correct |
|---|---|---|---|---|---|
| `thread_pool.h` | ring (`queue`, `head`, `tail`, `count`), `active`, `shutdown`, a mutex, three condition variables, worker threads | `pool_create`, `pool_submit`, `pool_try_submit`, `pool_wait`, `pool_destroy`, `pool_worker` | clients and workers through the mutex | lost wakeups, wrap-around, shutdown with queued work, partial failure, joins | no lost wakeup, FIFO, exactly once, drain before free, every call returns |
| `double_buffering.h` | two slots, an atomic `front` byte | `dbuf_write`, `dbuf_read` | one producer and one consumer, no lock | the producer laps the copy | whole and recent frames |
| `triple_buffering.h` | three slots, an atomic byte that packs `front`, `shared`, `dirty` | `tbuf_write`, `tbuf_read` | same | a stale `front`, the compare-exchange loop | newest frame kept, whole frames, reads end |
| `czet.c`, cache | `<cache>/czet/<hash>/`, its `.done` stamp, temporary directories | `ensure_cache`, `mkdirs`, `remove_tree`, `extract_tar` | other invocations, through the file system only | overlapping cold starts, kills, failing system calls | the stamp means complete, nothing half written, leftovers harmless |
| `czet.c`, `main` after the cache | the argument vector, counters of the first pass | libc selection, the two passes over `argv`, `execv` | the cache; `xgcc` | two passes that must agree, two variables for one option | the array is large enough, arguments keep their meaning, one libc |
| `czet.c`, the rest | none between calls | `read_trailer`, `extract_tar`'s header loop | `embed.py` | archive parsing | what is read is what `embed.py` wrote |
| `hashmap.h` | open-addressed table, `count`, `tombs` | `hmap_init/put/get/del/free`, `hmap_rehash` | - | unbounded probe loop, tombstones, growth that fails or nests | behaves as a dictionary |
| `arena.h` | `base`, `ptr`, `end` | `arena_init/alloc/calloc/reset/free` | - | pointer arithmetic at the end, products that wrap | blocks inside and apart |
| `aco.h` | task array, `current`, each task's `done` | `co_sched_init`, `co_spawn`, `co_yield`, `co_run`, `co_sched_free` | libaco | spawning while the loop walks the array | round robin; returns exactly when all are done |
| `str.h` | buffer, length, capacity | `str_init/reserve/push_*/cstr/clear/free` | - | lengths that wrap, a loop that may not end | shows the concatenation, room as promised |
| `slice.h` | pointer, length | `slice_make/at/sub` | the lender's array | offsets up to the largest `unsigned long` | views stay inside |
| `save_memory.h` | a file, a type descriptor | save, load | `_Reflect` | recursion, failed reads half way | load after save is the identity |
| `ipc.h`, `server.h` | descriptors, a socket path | open, close, send all, receive all | peers | short transfers, `EINTR`, a failed open that leaves a closed number behind | bytes once and in order; each descriptor closed once |
| front end: generic functions | registry of instances, list of pending ones, kept token streams, the binding of the parameter | `czet_instantiate`, `czet_flush_instances`, `czet_replay` | the parser calls it and is called by it | instances asked for by instances, after their own definition, under one key | every call defined, once, for its type |
| front end: `defer` | a vector of bodies per open block | `defer { }`, `defer;`, the end of a block | the gimplifier runs the cleanup | parse order against execution order | each body once, last first, on every exit |
| front end: `_Macro` | injected tokens, the stack of interrupted expansions, look-ahead, a depth counter | `c_czet_try_invoke`, push and serve | every grammar rule that reads a token | look-ahead behind an injection, rollback, nesting | replaced in place, bounded depth |

`PROJECT.json` lists the same parts with their status, and the hazards line by
line with the properties that would notice them going wrong.

## 2. Modules and how they correspond to the code

Each component `X` has `X.tla` (state, actions, properties). Proofs are in modules
of their own: `ThreadPoolProofs`, `CacheExtractProofs`, `CoSchedProofs` and
`DriverArgsProofs` extend their component; `ConcurrentProofs` (the two buffers,
`Sockets`, `ByteStream`), `LibraryProofs` (`Arena`, `Slice`, `StrBuilder`), `HashMapProofs`
and `FrontendProofs` (`Generics`, `MacroStream`, `Defer`) extend the MC module that
instantiates the components, and state each result of an instance about the
specification of that instance (`V!Spec => []ViewInside`), never about the MC
module's behaviours. Actions keep the names of the functions they come from;
a definition just before an action with a name such as `StoreKeepsOldValue` is
the action with a plausible mistake, used to see that a property notices it. It
is never part of a specification.

The MC modules join components that share no state, so that one run explores
them side by side: a variable `part`, chosen in `MCInit`, says which of them the
behaviour exercises, the others keep their initial state, and the state space is
the union of theirs. `MCThreadPool` is the pool alone; `MCConcurrent` the two
buffers, `CoSched`, `Sockets` and `ByteStream`; `MCDriver` `CacheExtract` and
`DriverArgs`; `MCLibrary` `Arena`, `HashMap`, `StrBuilder` and `Slice`;
`MCFrontend` `Generics`, `Defer` and `MacroStream`. The components whose theorems
are about checked properties are extended (`TripleBuffer` and `DriverArgs` carry
their own prefix on `Init`, `Next` and `Spec` for that), the others are instances,
and a property of an instance has a one-line wrapper in the MC module: `BufferReads`
holds the two properties of `DoubleBuffer` and `UnlappedReadComplete`.

**ThreadPool** (implements **TaskPool**). Every shared field is accessed under
`pool->mutex`, so one action is one critical section: from taking the mutex
(or being woken with it) to releasing it or sleeping. A condition variable is
the set of threads asleep on it; a signal removes any one of them, a broadcast
all. A woken thread tests its `while` condition in a later action. `pool_create`
is one action per acquisition, each with its failing twin. `SpuriousWakeups`
and `QuietDestroy` are switches of the environment. `status`, `snap` and
`waits` are history variables. `TaskPool` is a sequence, a set of running tasks
and a flag.

**DoubleBuffer, TripleBuffer.** A frame is a function from words to the number
of the frame that wrote the word; `memcpy` copies words one by one in any order,
interleaved with the other side. The two atomic bytes are read and written in
single steps in the order of the code: the acquire and release orders used make
the word copies happen between them. The race on the slots is formally undefined
in C; the interleaving of whole words is what the build does on x86-64 and is
the weakest outcome that a repair would have to exclude.

**CacheExtract.** An invocation is a process; every system call that other
processes can observe is an action, and may fail or be followed by a kill. Most
failures make `ensure_cache` return NULL (`"call"` in `failed`). Three pass unseen:
a stamp that cannot be opened or read counts as none (`CheckFail`), a tar header that
cannot be read counts as the end of the archive (`ExtractShort`; both are `"read"`), and
`remove_tree` returns nothing, whatever `lstat`, `opendir`, `unlink` or `rmdir` said
(`RemoveTreeFail`, `UnlinkFail`, `RmdirFail`, and `DropWorkFail` for the temporary
directory, which is `"drop"`).
`remove_tree` lists the directory (`RemoveTree`) and unlinks *by path*, entry by
entry, whatever directory has that path by then. What happens inside the
temporary directory is private until the rename and is one step per phase.
Directories below the cache are flattened to a set of paths, and `readdir` sees
the entries present at `opendir`. `mode` is how the compiler is used: whether
invocations overlap, and whether the cache is there already. A failing write leaves a
part of the file. After `ensure_cache`, `main` rewrites the linker script `libc.so` in
place (`czet.c:634-653`); it is no member of `Files`, and no property speaks of it.

**HashMap** (implements **Dictionary**). The table, both counters and the probe
sequence are those of the code; the FNV hash is any function of the key, chosen
at the start. The probe loop is "the first step that stops", together with the
invariant that there is one. Masking by `cap - 1` is `% cap`, which needs the
capacity to be a power of two (assumed of the initial one, kept by doubling).
`call` and `ret` are the interface both modules share.

**Arena.** Pointers and `unsigned long` are numbers below `2^Width`; the room is
the pointer difference taken modulo that, as the cast in the code does.

**CoSched.** One action per turn of `co_run`'s loop; a resumed task has control
until it yields or finishes and may spawn in between. `seen` is a history
variable. A task never calls `co_run` or `co_sched_free` (libaco resumes only
from the main coroutine).

**Sockets.** Threads open and close sockets with `ipc.h` and `server.h` while
other code of the process opens and closes descriptors: a number is reused at
once. One action per system call that takes or gives back a descriptor or the
socket path, except that `close` and the `unlink` after it are one. An ipc call leaves the number in the caller's variable when it fails;
a tcp call returns -1. `foreign` remembers who closed what was not his.

**ByteStream.** `send_all` and `recv_all` of two peers that follow plans of calls:
the kernel moves any positive number of bytes, `EINTR` repeats the call, a peer may
go away (its own failure, its process dying, or `SIGPIPE`, which `send` without
`MSG_NOSIGNAL` raises).

**StrBuilder, Slice.** Lengths are below `Word`; `need`, `ncap` and offsets wrap as
in the code, and the doubling of `str_reserve` is one step per turn. `fresh` marks a
string that nothing has been stored in since `str_init`: `str_reserve` alone leaves
it unterminated (`ReservedOnly`). `wanted` is what the last `slice_sub` asked for, and
`inplace` says that source and target were the same slice, which is cleared first.

**Arguments, DriverArgs.** A command line is a sequence of kinds of argument (the
ones `main` tells apart, and two that only `xgcc` does). One action per turn of the
three loops of `main`; items of the vector remember which argument they come from.
`need`, what the first pass had counted before each argument, is a history variable
and is what the proof compares the second pass with.

**Generics.** A type is what the registry reads of it and `rest`, what it does not read
(a qualifier), a template body the generic calls in it. Parsing a body once with the placeholder and replaying it per instance
both go through `Instantiate`. A definition emitted twice is recorded in
`redefined`; `late` says which instances were asked for after their definition.

**Defer.** One pass over a function body does parsing and execution: the parser goes
on in textual order while control may have jumped ahead, to be met again at its
target: in a block it stays in, or in one opened since (`visited` holds the blocks
control has been in; a goto into a block is `t_goto_past_reg` of `tests/defer.czet`).
Bodies are numbered; all that is kept of one is whether it ends by leaving its block
(`to`), which cuts off those emitted after it (`Execute`). Loops run once, jumps go
forward, and a body does not jump within its own block.

**MacroStream.** The look-ahead buffer, the current expansion and the stack are those
of the parser; the grammar is abstracted to the places where it tries an invocation,
and which arm matches is left open.

## 3. Runs

| Run | Instance | Shows |
|---|---|---|
| `pool_safety` | 3 clients, 2 workers, 2 slots, 5 tasks; spurious wakeups; calls overlapping `pool_destroy` | `NoLostWakeup`, `RingConsistent`, `DrainedBeforeRelease`, `NothingLeaked`, `WaitCovers` |
| `pool_live` | 1 slot, 3 tasks, no spurious wakeups, deadlock checked | `CallsReturn`, `NoUseAfterRelease`, `ImplementsTaskPool` |
| `concurrent` | frames of 3 words, 5 frames; 3 tasks that spawn one another; 2 threads, 3 descriptors, 2 addresses; 3 plans of two peers, 2 bytes on the way, 2 signals | the newest frame is kept, which reads are whole, none is old, reads end; round robin, `co_run` returns exactly at the end and does return; descriptors go back to the process and only the callers' own; bytes arrive once and in order |
| `driver` | 4 invocations, overlapping or not, cold or warm, 3 kills, 2 faults; every command line of up to 4 of 10 kinds of argument | without overlap and silent read errors: the stamp tells the truth, what is returned is complete; without overlap: leftovers never block; in any case: nothing half written, a temporary directory is left only where its removal failed, a complete cache is not touched until a read of its stamp fails. The vector is large enough, arguments arrive once, in order, next to their operands and in their language, and one `-libc` option decides everything |
| `library` | 8-bit arenas with capacities on the alignments used; 3 keys, all 512 hash functions into 0..7, tables of 2 to 8 slots; 5-bit lengths for strings, 3-bit ones for slices of 5 elements | blocks inside and apart, nothing that fits is refused; probing ends, growth never nests, entries reachable, dictionary refinement; text and room of the string builder; views inside the array, showing what was asked for unless narrowed in place |
| `frontend` | 2 templates, 3 types (`int`, `volatile int`, `float`), 4 declarations of up to 2 generic calls; 3 blocks, 2 bodies; token streams of up to 7 tokens, 3 invocations, depth 2 | every call defined, integers get code for their name and width, an instance is defined again exactly after a late call, the flush ends; bodies once, in reverse, on every exit, unless a later body leaves first; invocations replaced in place, the depth counter covers the nesting |

Bounds and why they are enough to be interesting. Three clients let two block
on different condition variables while the third destroys; five tasks over two
slots take the ring round twice. One slot and two workers is where a signal can
reach the wrong sleeper. Five frames lap either buffer more than once. Three
invocations is the least with which the stamp can lie (see below). Three keys
and a first table of two slots give collisions, wrap-around probes, tombstone
reuse and two growths. Two threads and three descriptors let a number be reused
between a failed open and the close after it. Four arguments hold an output, its
name, a source and one option in any order; the proof has no such bound. Four
declarations are two templates, one of which calls the other, and two functions
that use them early and late. Three blocks nest and follow each other around a
`defer;`, a jump out and a jump in; two bodies show an order and one cutting off the
other, and the proofs have no bound. Every bound is a named constant (`MaxWaits`,
`MaxFrames`, `MaxCrashes`, `MaxFaults`, `MaxCap`, `MaxBlocks`, `MaxArgs`, `MaxMem`,
`MaxSignals`, `Room`, `Addresses`, `MaxDecls`, `MaxCalls`, `MaxBodies`, `MaxTries`...). Symmetry is used in safety
runs only, over sets no action orders.

### Disagreements between the code and what it says

Each is a run whose property states the sentence quoted and is violated.

- `dbuf_torn`: "one consumer always reads the latest complete one". A read
  overtaken by one publication and the next copy returns words of two frames.
- `tbuf_step`: "the producer never steps on the slot being read". A `tbuf_write`
  under way while the reader picks its slot stores a stale `front`; the next one
  fills the slot being read. `QuietPickComplete` is the part that holds.
- `cache_stamp_lies`: "If that version is already present and marked, extraction
  is skipped". The replacement is not atomic, whatever the comment at `czet.c:472`
  says: `remove_tree` unlinks by path. Three overlapping cold starts, none of them
  failing, can leave a stamp with files missing for good. Without overlap and
  without silent read errors, `MarkedMeansComplete` is proved.
- `arena_overrun`: "NULL when it does not fit". When rounding up passes `end`,
  the negative room is read as a huge one. The run `library` shows that arenas
  ending on every alignment used are safe.
- `defer_lost`: "`defer { ... };` ejecuta el bloque al salir del bloque" (runs on
  leaving the block). `defer;` empties the block's vector when it is *parsed*; on a
  path that does not execute it the bodies before it are lost. `RunsOnEveryExit` is
  the part that holds.
- `generics_shared`: "Each instantiation emits dedicated concrete code". The
  registry key holds name and width of integers only, so `f<float>` and `f<double>`
  are one instance. For named integers `IntegersGetOwnCode` is proved, up to qualifiers.

Found on the way, stated in the modules and not run: `CapIsForNesting` and
`RollbackKeepsStream` of `MacroStream` do not hold. Invocations in blocks never
give back their count, so that 200 of them exhaust the cap of
`docs/CZET_MACRO_GUIDE.md:162` without any nesting; and a macro's name without `<`
is put back *behind* the look-ahead token, although `c-parser.cc:3888-3890` says that
nothing observable changes. A template body with a macro invocation keeps the
tokens of both the invocation and its expansion (`c-parser.cc:1056`); the two models
are not composed, so this is listed as a hazard only.

In the following the checked property states what the code does, and its comment the
sentence it contradicts:

- `extract_tar` promises "-1 on error" (`czet.c:292`) and returns 0 when the read of a
  header fails with nothing read (298-300): the short tree is stamped and returned
  (`ExtractShort`; `Misread` in `MarkedMeansComplete` and `ReturnsComplete`).
- "If that version is already present and marked, extraction is skipped"
  (`README.md:105-106`): not when the read of `.done` fails. The good cache is removed and
  extracted again, and a kill in between can leave its stamp with files missing
  (`CheckFail`; `WarmStays`).
- `str_cstr` is "NUL-terminated pointer ("" when empty or after a past OOM)"
  (`str.h:115`): after running out of memory it shows the earlier text, and an empty
  string that was only reserved is not terminated (`TextAndRoom`).
- `slice_sub` gives "[off, off+len) into *out, clamped to fit" (`slice.h:58`): nothing,
  when `out` is the source (`ViewInside`).
- "a given <template,types> is only instantiated once" (`c-decl.cc:446-447`),
  "scheduling its definition body on first use" (`c-parser.cc:5693`): two functions that
  call `f<int>` define it twice (`LateCallsRedefine`).
- `f<int>` and `f<volatile int>` are one instance, against the sentence of
  `generics_shared`: qualified variants keep name and width (`IntegersGetOwnCode`).
- A deferred body that jumps out of its block cuts off those registered before it,
  against the sentence of `defer_lost`; `tests/defer.czet:38-44` returns from a body
  without another one to lose (`RunsOnEveryExit`).

### Fairness

`ThreadPool`: weak fairness of each worker, of each call already started and of
the owner's create and destroy steps: started threads are scheduled, the mutex
is not held for ever, and task functions return. Nobody is assumed to call the
API. `TripleBuffer`: weak fairness of a started read, strong fairness of a
succeeding compare-exchange: a weak one may fail spuriously but not for ever, and
the producer, bounded by `MaxFrames`, does not hit the window between load and
exchange for ever. `CoSched`: the loop and the task in control run on, and no
task yields for ever; the number of tasks is finite, as a program that spawns
without end never returns from `co_run`. `ByteStream`: a peer inside
a transfer goes on, signals are finitely many (`MaxSignals`), and plans fit
together, so that nobody waits for bytes nobody sends. `Generics` and `MacroStream`:
the parser, a sequential program, does not stop in the middle of a flush or of an
invocation. The other modules assume none: `CacheExtract` has no loop that could
fail to end, and the sequential modules state safety only.

## 4. Proofs

All are inductions over steps, one step of the proof per action. `PROJECT.json` lists
the theorems and the properties they state; this is the argument of each.

- **ThreadPoolProofs**, for any number of workers, clients, tasks and slots.
  `WakeupsKept`: `NoLostWakeup` alone is not inductive; that `active` counts running
  workers, and that counts of awake threads change by one when a thread goes to sleep
  or is woken, is what carries it. The conjuncts compare a count with the cardinality
  of a set of threads, so the lemmas are about adding and removing one element.
  `RingAlwaysConsistent`, `ReleasedDrained`, `EverythingReleased`, `WaitsCover` rest on
  `PoolInv`, which adds to that who holds a task (the ring, a worker, a submitter, or
  nobody any more) and that `tail` is `count` places behind `head`; "one turn of the
  ring" is used instead of remainders, so that no modular arithmetic is left to the
  prover. `NobodyInsideReleased` holds when clients are quiet before `pool_destroy`
  (`QuietDestroy`). `ImplementsTaskPoolSafety` shows that every step maps to a step of
  `TaskPool` or a stutter; the ring as a sequence changes at one end only because
  `PoolInv` says which slots are in use.
- **ConcurrentProofs**. Triple buffer: `NewestAlwaysKept`, `QuietPicksComplete`,
  `ReadsNeverOlder`, from which slot the writer fills in terms of the byte it loaded, and
  that the shared slot is not it. Double buffer: every word of both slots is related to
  the latest frame, the words already read to the publications since. `ReadsWhole` joins
  both. `DescriptorsStayBalanced`: the numbers a thread is answerable for follow from its
  program counter; until somebody closes what is not his it owns all of them, and only a
  failed ipc open leads there. `BytesInOrder`: what was received followed by what is on
  the way is what was sent, and what a peer has and what its calls still ask for add up
  to its goal; nothing is assumed of how the plans fit together.
- **CacheExtractProofs**: `TypeCorrect`, `NothingHalfWritten`,
  `TempLeftOnlyByFailedRemoval` and `WarmCacheStays` for any number of overlapping
  processes and failures, seen or not (`SharedInv`: who has a temporary directory, and that
  its files are whole once extracted; of a warm cache, that nobody gets past the check
  until a read fails); when they do not overlap (`mode.serial`),
  `StampTellsTruth`, `NullOnlyOnFault` and `ReturnedCacheComplete`. The serial invariant
  says that at most one process runs and what its private tree and its list hold at each
  program counter; what it says of stamps holds until a `Misread`, which is for good.
- **CoSchedProofs**: `AllDoneOnReturn`, `TurnsAreFair`, for any number of tasks.
  The invariant says that a pass without a resumption met only finished tasks, and
  whom a waiting task can have seen, from the position of the loop.
- **LibraryProofs**. Arena: `BlocksStayInside` and `NeverRefusesWhatFits`, for any width,
  capacities and requests, of arenas that end on every alignment asked of them
  (`Rounded`; `arena_overrun` shows why this is needed). Every block ends at or before
  the bump pointer; the lemma `RoundUp`, that rounding up below a multiple of the
  alignment stays below it, keeps the room from going negative. Slice: `ViewsStayInside`
  for every offset and length of any width. String builder: `TextAndRoomKept` for
  requests whose length does not wrap.
- **HashMapProofs**, for any keys, values, hash function and power-of-two capacity.
  `MapInv`: every used entry is reached by its own probe before an empty slot, keys are
  distinct, `count` and `tombs` are the numbers of used and deleted slots, and their sum is
  below the capacity, so that every probe ends. A rehash inserts the entries one by one
  and is a recursive function; that what it returns has the same contents is an induction
  over the slots. `MapIsDictionary` is the refinement of `Dictionary`: growth, tombstone
  reuse and failing memory included, every operation is the abstract one.
  `RequestsAlwaysServed` joins it with the arena's theorem.
- **DriverArgsProofs**, for command lines of any length. `ArgsAlwaysFit`: the array bound
  alone is not inductive. The invariant ties the second pass to the history of the first
  (`need`): before argument `a` it has stored at most twelve items, the dialect option and
  what the first pass had counted before `a`, and both had the same `skip_next` there. The
  history is monotonic, so what is left suffices. `AlwaysOneLibc`: what the loop over the
  options has chosen, and which of main's own arguments mark it. `MeaningAlwaysKept`:
  items of the user are in order, each next to the option it is an operand of, each in its
  language; for the next argument, that the option before it is the last item and that no
  language of a CZet source is left open. That an argument names the output exactly when
  the pass skips it (`OutputSkipped`) comes from the same history.
- **FrontendProofs**. Generic functions (`CallsAreDefined`, `IntegersOwnTheirCode`,
  `RedefinedExactlyWhenLate`), for any templates, types and numbers of declarations: whatever
  was asked for is on the list or defined, entries of the list have different keys, each the
  key of its own template and type, an entry already defined was asked for late, and what
  was asked for late is on the list or redefined.
  `_Macro`: `DepthAlwaysCovers`, and `InvocationsReplacedInPlace`, from the fact that the
  look-ahead, the current expansion and the interrupted ones, joined, are the stream that
  is still to be read while an invocation is scanned. `defer`: `BodiesRunOnEveryExit` and
  `BodiesRunLastFirst`, from where each body is: waiting in the vector of its open block,
  taken by a `defer;`, or settled with its block, and then it had its turn (ran, or one
  behind it in the same list left) if control was ever in the block. That control enters
  only open blocks keeps a settled body settled; what `Execute` runs is the tail of the
  vector (`PrefixEmitted`), so the one that leaves is later than those cut off.

Induction over data (totals, concatenations, a rehash, the history of a pass) is done by
the least counterexample: the lemma `LeastNumber`, that a non-empty set of numbers has a
least element, comes from the library's theorem on well-founded relations. The
library's induction theorems take an operator as a parameter and are not used.

Assumptions are those named in the modules, and TLC evaluates them on every run:
positive sizes, distinct null values and a finite set of clients; a table capacity that is
a power of two (`CapAssumption`); threads and descriptors distinct from the special values
(`SocketsAssumption`); two peers that plan calls for at least one byte over a socket of some
room (`BytesAssumption`); what malloc returns and arguments of the word width
(`MallocAssumption`, `ArgsAssumption`); texts and requests below the width
(`StrAssumption`, `SliceAssumption`); a depth cap that is a number (`MacroAssumption`).

Only model-checked: liveness, which is beyond the prover used. That is `CallsReturn` and
the fairness part of `ImplementsTaskPool`, `ReadReturns`, `RunReturns`, `ParserReturns`, and
that transfers end (`BytesArrive`; what has arrived by then is `BytesInOrder`). `BytesArrive`
also needs plans that fit together, which the theorem does not.

## 5. Not modelled

Vendored GCC and the third-party libraries; of the front end `_Operator`, `_Reflect`,
`constexpr`, struct templates, and the matcher, repetition and hygiene of `_Macro`
(functions of one expression or one invocation, over trees and token texts); of the
driver the trailer, the tar headers and the informational options (functions of
bytes); `save_memory.h` (a recursive format over type descriptors); logging, messages and exit codes;
the contents of files; power loss; weak memory beyond the interleaving above;
calls outside the documented contract (`hmap_put` on a freed map, `pool_wait`
from inside a task, `co_yield` outside one).

## 6. Plan

1. *Done:* ThreadPool and TaskPool, the two buffers, CacheExtract, HashMap and
   Dictionary, Arena, CoSched; then StrBuilder, Slice, Sockets, ByteStream,
   DriverArgs, Generics, Defer and MacroStream.
2. *Done:* the safety properties of all of them and the safety of both refinements
   proved. *Next proofs:* what holds of the disagreements above under the
   conditions a repair would establish.
3. *Next modules:* the composition of `Generics` and `MacroStream` (macros in
   template bodies); `TarReader` (the header loop of `extract_tar`, composed with
   CacheExtract's extraction step); the sharing of `libc.so` between glibc
   invocations.
