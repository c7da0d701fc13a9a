# TriadLang in TLA+

TLA+ models of the stateful parts of TriadLang, TLC instances that check them,
and TLAPS proofs about seven of them: scheduler, heap, ledger, chain endpoints,
debugger, package registry, request pool. Paths below are relative to the repository.

## 1. The system

TriadLang is a language whose programs evolve fields; most of the code is
numerical (solvers, observables, machine learning) or pure (lexer, parser, type
checker, code generators). The state that several actors share, or that long
sequences of calls shape, sits in fewer places:

| component | state it keeps | operations | what is hard | what makes it correct |
|---|---|---|---|---|
| kernel scheduler `native/kernel/triad_sched.c`, timer path of `triad_isr.c` | thread slots, current slot, switch request, count | spawn, exit, yield, block, unblock, tick, switch | the timer falls between any two stores of spawn and exit; a request and its switch are apart | one owner of the processor; round robin; bounded waiting; a thread starts with its own context |
| kernel heap `triad_mm.c` | block list, `heap_ptr`, `heap_used` | alloc, alloc_aligned, free, realloc | long sequences of splits and merges; two limits that move apart | nothing handed out overlaps; inside the heap; full coalescing |
| paging `triad_paging.c` | frame bitmap, tables | map, unmap, alloc_page, address spaces | frames are numbered from the heap's base | a frame has one owner |
| VFS, disk `triad_vfs.c`, `triad_disk.c` | node table, offsets by node; block bitmap | create, open, read, write, remove, rename | a descriptor is the node slot | a descriptor names one file |
| signals, keyboard, audit `triad_signal.c`, `triad_keyboard.c`, `triad_audit.c` | pending sets, rings | raise, deliver; push, pop | interrupt handler against shell; full rings | nothing is read twice |
| network, firewall, sandbox | sockets, rules, quotas | bind, send, receive; check | limits | quota never exceeded |
| TriadChain `src/stdlib/chain.py` | list of blocks | mine, validate, balances, difficulty | what each check sees; median with rounding; mutable blocks | money conserved, no overdraft, no replay, tamper-evidence |
| chain endpoints `src/api/routes/chain.py` | lazily made chain, mempool | submit, mine, read | requests run in threads, no lock | the chain validates; an accepted transaction is kept |
| requests on the executor `src/api/routes/lang.py`, `solver.py`, `adapter.py` | the pool's queue, `sys.stdout`, a bounded queue for each stream | run, check, compile, solve, stream | one `sys.stdout` for all threads; timeouts that leave the thread running; clients that leave | a program is answered with its own output; a stream is whole; requests are answered |
| native tier `src/runtime/jit_native.py`, `jit_tiered.py`, the wrappers of `compiler_runtime.py` | kernels by loop and signature | specify, infer types, compile, run, fall back | integers that do not fit, lists under two names, variables that change type | a native run leaves what Python leaves |
| IR optimiser `src/compiler/ir_passes.py` | none | fold, eliminate dead code | chains of elif, errors that must stay | the program's outcome stays |
| debugger `src/runtime/debugger.py` | breakpoints, step mode, frame, stack, one Event | DAP requests; the hook: stop, wait, go on | two threads and one Event | every stop takes its own resume; no acknowledged breakpoint is passed |
| package registry `src/stdlib/registry.py` | version directories, `triad_modules`, staging directories | publish, install from git, path or registry, resolve | two commands on the same files; kills between files | an install leaves its source; a manifest means a whole package |
| equilibrium monitor `src/runtime/equilibrium.py` | measurements with lifetimes, behind one RLock; a decision field | measure, read, persist by `os.replace` | lifetimes | a reading is not older than its lifetime |

The kernel's parts meet in the timer interrupt (scheduler), in `triad_mm_alloc`
(thread stacks, page tables, files, driver buffers) and in the system-call gate.
The chain endpoints call the ledger, the ledger calls the field solver for its
seals. The API's other routes put their work on the event loop's executor. The
compiled program calls the native tier at each loop and the debugger's hook at
each line. All other components (front end, compilers, interpreter, VM, physics, ML,
C runtime, CLI, TUI, other API routes) are sequential or numerical; PROJECT.json
lists each with the reason it is left out.

## 2. Plan

Order: what everything else stands on first, then what runs concurrently.

1. `Sched` (+ `SchedWait`, `SchedTorn`, proofs): done.
2. `Memory`, `Heap` (+ proofs, refinement): done.
3. `Chain`, `Ledger`, `Bank`, `ChainApi` (+ proofs, refinement): done.
4. `Debugger` (+ proofs): done.
5. `Lang`, `Jit`, `Optimizer`: done.
6. `Semver`, `Packages` (+ proofs): done.
7. `Workers` (+ proofs): done.

What could still be modelled, and why it comes last: the frame bitmap (one
client, straight-line code), the VFS node table (its risky operations have no
caller in the shipped kernel), the keyboard and audit rings (one writer, one
reader), the lock file of the registry, the debugger's terminal mode. Section 7
says more.

## 3. The modules

| module | models |
|---|---|
| `Sched` | scheduler, timer interrupt, the system calls that reach it |
| `SchedWait` | `Sched` with a clock of how long each thread has waited, and the fair timer |
| `SchedTorn` | `Sched` with the struct copy of spawn cut in two |
| `SchedProofs` | theorems about `Sched`, `SchedWait` and `SchedTorn` |
| `Memory` | what an allocator promises (abstract) |
| `Heap` | `triad_mm.c`, with `Memory` as the specification it implements |
| `HeapProofs` | theorems about `Heap` |
| `Chain` | what `chain.py` computes: checks, difficulty, seal, validation (no state) |
| `Ledger` | one chain mined on, and written into, by one program |
| `Bank` | what the chains promise the holders of accounts (abstract) |
| `ChainApi` | the endpoints: lazy chain, mempool, concurrent requests, with `Bank` as the specification they implement |
| `ChainProofs` | lemmas about `Chain`: sums, numbers and medians, and what a chain that validates says about money |
| `LedgerProofs`, `ChainApiProofs` | theorems about `Ledger`, `ChainApi` |
| `Workers` | the executor's queue and threads, captured output, streams, timeouts |
| `WorkersProofs` | theorems about `Workers` |
| `Debugger` | the DAP loop and the program's thread |
| `DebuggerProofs` | theorems about `Debugger` |
| `Lang` | the part of the language the native tier takes, run as Python and as C (no state) |
| `Jit` | specification, type inference, signatures, kernels, fallback, loops turned into sums |
| `Optimizer` | the passes of `ir_passes.py` (no state) |
| `Semver` | versions and constraints (no state) |
| `Packages` | an author who publishes and a user who installs, on one registry |
| `PackagesProofs` | theorems about `Packages` |
| `MCLedger`, `MCChainApi`, `MCJit`, `MCPackages` | instances for TLC; `MCJit` also states what is checked of the tiers |

### Sched

`state`, `id`, `quantum` are `threads[].state`, `.id`, `.quantum_ticks`; `current`,
`nThreads`, `needsSwitch` are `current_tid`, `n_threads`,
`needs_context_switch`. `pc[t]` is what the saved context of slot `t` resumes:
its own code, or the store inside spawn or exit where the timer caught it.

A step is what cannot be interrupted: a whole timer interrupt (`TimerIrq`: tick,
then the switch if one is wanted), a whole system call (interrupt gate), one
store of `triad_sched_spawn` (`SpawnStart`, `ScanOn`, `SpawnCopy`, `SpawnIdent`,
`SpawnFix`, `SpawnReload`, `SpawnCount`) or of `triad_sched_exit` from the entry
wrapper (`ExitMark`, `ExitDrop`, `ExitFlag`). A new thread may so run, and
exit, before Main rewrites its slot. The descriptor that is copied is an
uninitialised local variable (`triad_kernel_main.c:244`) whose `id` nothing sets
before the copy: until `SpawnIdent` the slot's id is any slot, or none
(`NoThread`). `SysExit` and `SysSleep` act on the slot the caller's id names, as
`triad_syscall_dispatch` does; the entry wrapper exits `current_tid`.

Left out: `total_ticks`, `global_ticks`, stacks and registers (but for
`SchedTorn`), `triad_eq_update`, keyboard and serial interrupts (which do not
touch the scheduler). Assumptions: thread 0 alone creates threads and makes no
system call (so in `kernel_main`), though another thread's may hit it;
`triad_sched_unblock` has no caller in the kernel and is offered to Main, for
the threads it created.

In `SchedTorn`, the copy first publishes the low 16 bytes of the `TriadThread`
(with `state`), then the rest (with `ctx`); `framed` says whose context has
arrived. The shipped `kernel.bin` copies in this order. The model stops where
the processor would resume a frame that is not there.

### Heap and Memory

Everything is counted in granules of 16 bytes from `heap_base`; a header fills
one. `size` maps each header to its block's size, `freed` are the headers with
`free_flag`; list order is address order, so the links are derived (`After`,
`Before`). `regions` is what `alloc_aligned` handed out; the code keeps no
record of it, the properties need one. `pinned` is the rule the callers keep:
the block last carved before an aligned region is never freed. Without it, a
free could merge two list neighbours across the region (section 6).

`Memory` says: what is owned lies in the arena and apart, an owner gives back
its own or cuts it short. `Heap!Mem` maps owned extents to the payloads of
blocks in use, and regions.

A growing `realloc` is an alloc, a copy and a free, each an action already.
One call is one step: all heap calls of the shipped kernel come from Main.

### Chain, Ledger, ChainApi

Hashes are the content hashed, signatures the payload signed, a seal the header
it was computed from with a crystallinity in units of the sixth decimal. So a
hash collision, a forged signature or two headers with one seal do not occur.
Index and timestamp of a block are left out: they enter the hash, no check reads
them. `RoundsUp` picks for each odd sum of two middle seals whether `round` goes
up: in floating point it depends on the neighbours of the half.

`CheckTxs` is declarative where `_check_txs` loops: transfer `i` is checked
against the chain followed by the block's transfers ahead of `i` (`Seen`); the
block's own reward counts as nothing there (`Skipped`), for the loop passes over
it. A balance is the sum (`Total`) of what each transaction brings the account
(`Gain`); the k-th smallest seal (`Kth`) is described, not sorted for. What is
wanted of a chain's books is said once, of any list of blocks: `AddsUp`,
`NeverOverdrawn`, `InSequence`. `Ledger` checks them as `Conserved`,
`NoOverdraft` and `NoReplay`, of the chains that validate.

`Ledger` has a few programs to choose from at the start (`Programs`): who mines,
what transactions are offered, what crystallinities the field gives, how long
the chain gets and how often it is written into. It has the whole of `mine` as an action (`Mine`, `MineRaises`), and two
ways to write into a block that any holder of a `Chain` has: assign to a
transaction in place (`Edit`, as in `examples/blockchain/demo.tri`), and set a
hash to what `compute_hash` returns (`Rehash`). `mined` is the chain without
such writes. The genesis block has no transactions to write into; of it,
`validate` looks at the hash only, which a program that appends to its list and
rehashes it could use. `validate(deep=True)`, which also looks for a smaller
nonce, is left out: the nonce is not in the model. `from_json` does not validate; a chain read from a file
is one more that only `validate` can speak about.

`ChainApi` cuts the handlers where they call out. `_chain()` finds a chain, or
finds none and makes one, which integrates a field (`FindNone`, `Install`).
`mine` takes and empties the pool (`Take`), checks (`Check`), reads head and
difficulty (`ReadHead`), seals and appends (`AppendBlock`), or restores the pool
(`MineRaises`). `submit` is one step. Between two calls CPython with its global
lock does not switch threads, so take-and-empty is one step; a build without
that lock could cut it too. `Places` is where a transaction can be: the pool, a
miner's hands, a chain; `NeverTwice` counts it, `KeptMeanwhile` asks for one.

`Bank` knows no blocks, seals, pools or requests: a set of books is opened with
nothing in it, and a list of signed transfers is settled at a time, each possible
after those ahead of it, with one reward. `ChainApi!B` maps each chain made to
the balances and next sequence numbers of its accounts (`BookOf`) and to its
number of mined blocks. `StuckForGood` is about the other side of the checks: a
refused list goes back to the pool in front of what comes later, so nothing is
mined again until the process restarts.

### Workers

A job is a request whose handler calls `run_in_executor`. `queue` is the work
queue of the executor, `at[j]` the place a job's thread has come to, `reply[j]`
what its client has. `Programs` are `/lang/run` and `/adapter/run`: their thread
reads `sys.stdout` (`Find`), sets it (`Redirect`), prints, sets what it found
(`Leave`) and takes its buffer's content (`Return`); `out` is `sys.stdout`,
`written[b][p]` the lines of `p` in the buffer of `b`. `Streams` are
`/solver/run/adaptive`: the thread puts each checkpoint through
`run_coroutine_threadsafe(...).result()` and so waits for room in `fifo`; the
sentinel goes the same way. `Tasks` are the requests that share nothing, `Timed`
those of them that `wait_for` guards; `Timeout` answers 504, which cancels a job
that waits and leaves one that runs alone. A cancelled job stays in the queue
until a thread drops it.

`met`, `outer` and `spoilt` are history. Left out: what the jobs compute, the
adapter's choice of a framework; `sys.stderr` goes the way of `sys.stdout`; a
call of `print` is one step; the rate limiter, which only the event loop's own
thread touches.

### Debugger

`loop` is where `run_dap` is, `at` where the program's thread is in `_bp_hook`
and `_dap_stopped`; `_breakpoints`, `_step_mode`, `_stopped`, `_current_frame`,
`_call_stack` have the code's names. Each read or write of one of them is a step.
The client is any client: every request at any time, with one request in the
pipe. `manner`, `pending`, `acked`, `stepping`, `due` record what a client may
hold the debugger to; no guard reads them but through what the client sends.
`next` stands for stepIn, `continue` for stepOut, `look` for stackTrace,
variables and evaluate. Left out: the terminal mode, which has one thread, the
hook between solver steps, which waits in the same way, a second launch.

### Lang, Jit, Optimizer

A program is a tree of records and `Lang` runs it twice: as the Python the
compiler emits, and as the C of `emit_c`. `Jit` adds what decides between them:
`Walk` and `HasSpec` (`_walk_vars`, `build_spec` and its variants), `InferTypes` (passes until nothing
changes, at most 8), `Signature`, the table of kernels, `CopiedBack`, and the
sums `compiler_runtime.py` makes of one-statement loops. A process runs units
from entry states; whether gcc can build a kernel is a choice. The threshold of
the code is 1, so a unit is hot at once.

`_walk_vars` never looks at the condition of an elif clause, and `Walk` does not
either. A name that only such a condition takes from outside is not handed over:
it starts at 0 if the unit also writes it; if not, writing the C code raises a
KeyError that `_crystallize` does not catch and the program sees (`RunUnknown`);
a list of which only the length is asked there makes C code that gcc refuses
(`Compiles`).

`MCJit` contains such units and says of a native run (`NativeAgrees`): it leaves
what Python leaves, or its unit is one of three named kinds. `Overlooks`: the
name of an elif condition. `Narrows`: a float goes where the kernel has an
integer, that is an assignment the type inference did not reach, the variable of
an inner loop over a list, an element of an integer list, an index, a bound of a
range. `Chooses`: `and` or `or` gives a value, not only a truth. Each of the
three, and each part of `Narrows`, does disagree in this instance when its name
is taken out. `TypesSettled` compares the passes with the least set of variables
that is closed under assignment of floats (`Floats`): a kernel's floats are just
those, or more than `MaxPasses` variables had to turn. `SumsAgree` is about loops
whose accumulator is not in the right operand (`Carried`).

A number is a count of halves: 0.5 exists and truncation shows, floats are
exact. `MaxInt` is 7 for 2^63 - 1; `Fuel` rounds make a loop endless. A bail-out
ends the kernel at once, where the C code goes on with a sticky flag and throws
the results away. Left out: mathematical functions (their results are floats of
the C library in both worlds), time measurement, the LRU of loaded libraries (a
kernel keeps its handle), and node kinds the tier refuses. `Optimizer` works on
the same trees.

### Semver, Packages

A place gives for each file name the edition it was copied from, and which
files are torn; `editions` are the author's project over time. `shutil.copy2`
truncates its destination and then writes it, so a file published is two steps
(`PublishFile` or `PublishManifest`, `PublishWritten`) with the file torn in
between, and for good if the command is killed there. A file installed is two
steps as well: `CopyFile` takes what its source holds when it is opened, and
`CopyEnds` chooses between that, what the source holds at the end, and, if the
two are not the same whole file, a beginning of one with an end of the other; a
kill in between leaves it torn. One file removed, a rename, a link and the end
of a clone are one step each, and a kill (`PublishKilled`, `InstallKilled`) or a
lost connection (`CloneFails`) can fall between any two.
The manifest is published last, as in the code. `again` holds the editions
published once more over their own manifest: there a torn file lies beside the
manifest until the copy is over. A project is not edited while it is being
published (`publish_package` reads the manifest once for the version and copies
the file at the end). `install_registry` without a
version takes the last by name (`NameOrder`). Left out: file contents, the lock
file and project initialisation (each a single write by one command), several
packages (directories of different packages never meet). A version is four
numbers, the last the place of its pre-release's text among all texts, zero for
a release; `Above` is the order `resolve_version` sorts by.

## 4. Runs

| run | cfg | checks | bounds |
|---|---|---|---|
| `sched` | `Sched.cfg` | `TypeOK`, `OneOwner`, `BoundedWait`, `NoOvertaking`, `NoStarvation` | 3 slots, slices of 2 ticks, no spawn from 3 threads up |
| `sched_torn` | `SchedTorn.cfg` | `StartsAtItsEntry`: violated | same |
| `heap` | `Heap.cfg` | `TypeOK`, `NoOverlap`, `WithinHeap`, `NoFreeNeighbours`, `Implements` | 12 granules, pages of 2, requests of 1 and 3 |
| `ledger` | `Ledger.cfg` | `Conserved`, `NoOverdraft`, `NoReplay`, `TamperEvident`, `MinedValidates`, `DifficultyNeverFalls` | two kinds of program: 2 accounts, 3 mined blocks, 2 offered transactions each, 2 writes; or 1 miner, 6 mined blocks, 4 crystallinities |
| `api_one` | `ChainApi.cfg` | `ChainsValid`, `NeverTwice`, `KeptMeanwhile`, `ActsAsBank`, `StuckForGood` | 1 miner, 1 reader, 4 submitters, 3 mined blocks |
| `api_two` | `ChainApiTwo.cfg` | `ChainsValid`: violated | 2 miners |
| `api_lost` | `ChainApiLost.cfg` | `AcceptedKept`: violated | as `api_one` |
| `workers` | `Workers.cfg` | `OwnOutput`, `ConsoleBack`, `StreamWhole`, `Served` | 2 programs, 1 task, 1 stream, 3 threads, room for 1 checkpoint, 2 checkpoints, 1 line |
| `debugger` | `Debugger.cfg` | `TypeOK`, `OneResumeEach`, `Honoured`, `LooksAtTheStop`, `ComesToAnEnd` | 2 lines, 2 hooks |
| `jit` | `Jit.cfg` | `NativeAgrees`, `TypesSettled`, `SumsAgree`, `OptimizerAgrees` | bodies of 2 statements out of 14 and of 3 out of 11, in 4 kinds of loop or function; chains of 8 to 10 temporaries; 16 units over lists; up to 3 runs |
| `jit_kind` | `JitKind.cfg` | `ReturnsSameKind`: violated | a function of the reference |
| `packages` | `Packages.cfg` | `TypeOK`, `ManifestLast`, `ResolvesHighest`, `LeavesItsSource`, `ManifestMeansWhole`, `GitComesThrough` | a file and the manifest, 2 editions, 2 versions in use and 4 on the shelf (2 of them pre-releases of one release), 2 faults |

Why the bounds are enough. Three slots are the fewest where a thread can be
passed over by two others, and two ticks the fewest where a slice has a middle.
Twelve granules hold three blocks with a merge on both sides, a split with a
remainder, an aligned region with padding and a heap that is full; requests of 1
and 3 differ by just what decides whether a remainder is worth a header. Two
accounts and three blocks are enough to be paid, spend, and spend again in the
same and in a later block; two writes are an edit and its cover-up. Six blocks
give medians of one to six seals, rounding down (1, 5) and up (3). In `api_one`
the submissions include two that must come in order, one whose money may not be
there yet (so pools that are refused, with more submitted behind) and one with a
wrong signature. In `workers`, two programs can end in
either order, one thread more than programs is what `Served` asks for, and a
second checkpoint has to wait for the first; tasks that time out behave like
programs that do, so none is timed. Two hooks of the debugger are a stop and the
next stop, which is where a lost or left-over resume shows; two lines are a
breakpoint and another line. Two statements of a loop body can feed each other
and the next round, a third carries a temporary between them; chains of 8, 9 and
10 temporaries lie on both sides of the limit of 8 passes; the entry states
have each type a variable can come with, a value that does not fit, an unbound
name, lists that are empty, mixed or the same. Two editions of a version, or of
two versions, and two faults are a half-done publication on top of another and
an install that meets it; a file and the manifest are what a reader can fall between.

Deadlock is checked but in `api_*`, where the requests and the chain's length
run out, in `workers`, where all requests may have been answered, and in `sched_torn`, which stops at the torn switch. `Ledger` uses the
symmetry of its two accounts (no liveness is checked there).

Fairness.
- `NoStarvation`: a ready thread runs, or is `Struck`: put to sleep or ended by a
  new thread that made a system call before its id was stored. Weak fairness of
  the timer interrupt. The PIT fires at
  TIMER_HZ whatever the code does, and no code of a thread masks it for good. No
  thread is assumed to make progress: others may loop, halt, sleep or yield for
  ever.
- `ComesToAnEnd`: weak fairness of the debugger's two threads (the operating
  system runs both) and of the client's reading; strong fairness of its resuming
  a stop it was told of: a user goes on in the end, but may ask other things in
  between, over and over.
- `GitComesThrough`: weak fairness of the user's command in progress, strong
  fairness of giving the git command again. Faults are bounded, so they stop.
- `Served`: weak fairness of a free thread taking the next job, of tasks, of
  solvers (an integration has an end) and of the generator that reads a stream.
  Nothing is assumed of programs, which may run for ever, nor of timers.

## 5. Proofs

For all values of the constants (their ASSUMEs: at least one slot, a positive
slice; a natural heap, positive page and request sizes; finite,
disjoint sets of requests and at least one thread; positive reward, finitely
many accounts and submitters, natural seals, transactions of the form `sign_tx` gives them,
submissions of different transactions; finitely many versions; a natural number
of hooks, editions and faults).

`SchedProofs`: `TypesHold`, `OwnerUnique`, `RoundRobin`, `WaitIsBounded`. The
invariant is `SchedInv`: types and `OneOwner`, strengthened by `SlotIsOther`
(the slot being filled is not Main's, else the rewrite would relabel the running
thread), `IdsAreOwn` (a wrong id is in a slot nobody runs in or wakes, or in the
one being filled), `SliceNotOver` (whoever may run has ticks left, else the
count-down would wrap) and `MainRuns`. `WaitInv` adds what bounds the waiting: a
waiting thread's clock is at most the slices of the slots the scan meets before it.

How far the late store of the id reaches: `OnlyNewcomersMisfire` (a system call
acts on another slot only when its caller was started between the copy and the
store), `QueueKeepsItsThreads` (nothing but such a call takes a waiting thread
out of the queue: the safety half of `NoStarvation`), `MaskingTheIdIsEnough`
(with the timer kept out of those stores, every call acts on its caller).

Of `SchedTorn`, where a run finds `StartsAtItsEntry` violated, the module proves
the same of the context. `OnlyTheCopyTears`: whenever a slot is without its
context, it is dead or blocked, off the processor and never to be woken, or it
is the one that spawn is copying at that moment; all other stores of spawn and
exit may be interrupted. Hence `MaskingTheCopyIsEnough`: if the timer is kept
out of the struct copy alone (`CopyMasked`), every thread starts at its entry.

`HeapProofs`: `HeapTypes`, `HeapApart`, `HeapBounded`, `HeapCoalesced`,
`HeapImplementsMemory`. No property is inductive alone: a merge keeps blocks apart
only because list neighbours do not overlap, a split only because the remainder
fits, and coalescing stays complete only because it was complete before. The
invariant `HeapInv` is their conjunction and `PinRule`: between any block in
front of a region and that region there is a pinned block (possibly the block
itself), so no merge reaches across. The refinement is proved
action by action: every step of `Heap` is a step of `Memory` or leaves what is
owned unchanged.

`LedgerProofs`: `MineAgreesWithValidate`, `WritesShow`. They need one fact of the
chain (`ValidAppend` in `ChainProofs`): a block sealed for the head, at the
difficulty, with transactions checked against the chain, keeps it valid; the
checks of the blocks below look at prefixes that did not change. `Alike`
is what tampering cannot reach: a write leaves the seal and the previous hash as
they were, and in the mined chain the seal's header and the hash fit. Validation
makes them fit in the written chain too, so the two are equal.

`LedgerProofs` also: `MoneyIsConserved`, `NobodyOverdraws`, `NothingIsReplayed`.
The code checks each transfer when its block is mined or validated; the theorems
say what that is worth for the whole chain. The argument goes by chains, not by
steps, and is in `ChainProofs` (`ValidBooks`): if a chain validates, then so does
each of its prefixes, and block by block, transfer by transfer, `Sound` passes
on: every balance so far is at least zero and every account has used the numbers
0 to its last one, once each. One more transfer that passes the checks keeps
that, because what it is checked against (`Seen`, where the block's own reward
counts nothing) never shows more money than there is, and shows
the same numbers (`SeenEnough`). Conservation sums over the accounts what each
transaction gains: zero for a transfer, one reward for the coinbase, of which
each validated block has exactly one. That a sum over a flattened list of lists
is the sum of the sums, and the like, is proved there by induction on
prefixes of one given sequence. All that the steps of the program contribute is
`HeldInv`: the chain starts with the genesis block, which holds nothing, and all
transactions in it have the form of one, edited or not.

`TargetNeverFalls`: a seal at least the median leaves the next median at least as
high. `Kth` is characterised by counting (`KthAtLeast`: enough elements are that
high), an insertion moves each count by at most one (`MedianGrows`), and half a
sum, rounded either way, lies between its two halves (`RoundedHalfBounds`).
`SealsInv` says that all seals are natural numbers.

`ChainApiProofs`: `ApiTypes`, `SerialMinesValidate`, `SerialMinesBooks`. `api_two`
shows that two mine requests break a chain; these theorems say what is enough to
prevent it. `Serial`: no two miners are past their checks and not yet at an end on the
same chain. As long as that holds, for any number of threads, every chain
validates and its books are in order (`BooksInOrder`, by `ValidBooks`), at all
times and not only when somebody validates. So a lock held from the check to the
append would do; taking the pool, making the chain and restoring the pool may
stay outside it. A single thread keeps `Serial` by itself (`OneMinerValidates`,
`OneMinerBooks`). The invariant (`WorkInv`) says of each miner that what was
checked, and the head and difficulty read, are still those of the chain it works
on; a request that makes a second chain puts it beside the first.

`SerialMinesActAsBank`, `OneMinerActsAsBank`: the endpoints implement `Bank`. The
steps that matter are two. `Install` opens books (`InstallOpens`). `AppendBlock`
settles (`AppendSettles`): by `WorkInv` the list was checked against the very
chain it is appended to; what the check of transfer `i` looks at is the book
after `i - 1` transfers (`AlongIs`, an induction on the batch), where the block's
own reward counts nothing; so each transfer is possible there, moves its amount
(`TransferMoves`) and the reward comes last (`RewardPays`). That a batch is a list
of signed transfers no longer than there are submitters needs `Short`: a pool or
a miner's list holds at most as many transactions as requests were answered.
All other steps leave every book alone.

`RefusedEndsMining` (`StuckForGood`), for one thread that mines: a list the check
refuses is refused with anything appended to it (`RefusesMore`: the check of a
transfer looks only at those ahead of it), the chain it is refused by stays, and
the list only moves between pool and miner.

`TransfersAreNeverTwice` and `AnsweredAreKept` need no such assumption: however
many threads mine and fail, a transfer is never in two places, and is somewhere
unless a mine failed or a second chain was made. The invariant (`PlaceInv`) is
stronger in two ways: it counts the blocks of every chain ever made, so that
putting another in place of the current one shows nothing twice, and it says
that what no request has answered lies nowhere yet. Each action then moves one
list into another (`MovesOnce`): the pool into a miner's hands, the hands into
the chain, or back into the pool, over what arrived there in the meantime.

`DebuggerProofs`: `DebuggerTypes`, `StopsTakeOneResume`, `BreakpointsHonoured`,
`StopsShownTrue`. The invariant is a balance: resumes in the pipe, in the loop's
hands and in the Event are together as many as the stop still needs, none if
there is no stop; with it come what the loop and the thread have read so far.

`PackagesProofs`: `PackagesTypes`, `ManifestComesLast`, `InstallsLeaveTheirSource`,
`CopiesWithManifestsAreWhole`. The invariant: what lies in the registry is
genuine (a file of an edition whose publication began), editions under a version
only grow file by file, and what a copy in progress has lies between what was
listed and what the registry holds now. For torn files it adds what a publication
has written so far, and that an edition which is the only one of its version, not
published over its manifest (`Quiet`), has no torn file below a manifest, so that
a copy that listed the manifest reads none. `ConstraintsResolveHighest` is about the
choice of a version: `Above` is a total order on fourfold numbers, so a finite
set of candidates that is not empty has one greatest, and `resolve_version` gives it.

`WorkersProofs`: `WorkersTypes`, `AloneMeansOwn`, `OutputComesBack`,
`StreamsComeWhole`. `Undisturbed`: while a program that met no other captures,
`sys.stdout` is its buffer, and only its own lines are there. `Outermost`: the
capture that began among no others found the console. `WholeSoFar`: what a client
got, then what waits in the queue, then what the thread is putting, are the
checkpoints made, in order.

Only model-checked: the liveness properties `NoStarvation`, `ComesToAnEnd`,
`GitComesThrough`, `Served` (fairness speaks of ENABLED, which the provers do not
handle); everything about `Jit` and `Optimizer`, that is `NativeAgrees`,
`TypesSettled`, `SumsAgree`, `OptimizerAgrees` (recursive operators over
programs: an induction over data); the four disagreements below.

## 6. What the checks showed

- `sched_torn`: a slot is READY before its context is copied. With 256 slots
  and slices of 10 ticks the window is a few instructions, once per spawn.
- `api_two`: overlapping mine requests break the chain for good.
- `api_lost`: an accepted transaction is lost when a mine request fails; the
  same property also fails when two first requests each make a chain.
- `jit_kind`: a function that returns a comparison returns 1 or 0 from its first
  call on, where the reference prints true and false.

Seen while modelling, not stated as properties:

- A thread preempted in exit after it is marked DEAD never lowers `n_threads`; a
  second SYS_EXIT of the same thread lowers it twice. Only the shell's status
  line reads it.
- Between the copy of a descriptor and the store of its id (`triad_sched.c:43-44`)
  the new thread may already run, and its SYS_EXIT or SYS_SLEEP then ends or
  blocks whichever slot the uninitialised id names. A waiting thread so struck
  never runs again (nobody calls `triad_sched_unblock`); if it is thread 0, the
  spawn is never finished and the shell is gone. Without `Struck`,
  `NoStarvation` fails in the same run. `test_thread_a` and `_b`, the only
  threads the shipped kernel creates, make no system call.
- `SpawnFix` can revive a thread that ran and exited between the copy and the
  rewrite; it then resumes in the entry wrapper's halt loop.
- A thread that calls SYS_SLEEP is never woken: `triad_sched_unblock` has no
  caller. The stack of an exited thread is never freed.
- `heap_used` does not fall on free, nor does the heap count a guard page in
  `heap_used` for plain blocks though it asks room for one.
- The heap is correct under the pin rule only. All callers of the shipped kernel
  keep it; nothing in `triad_mm.c` enforces it.
- One transaction the chain refuses (a later sequence number that came first,
  money not there, a hand-made reward) stays in the mempool and ends all mining:
  `StuckForGood`, checked in `api_one` and proved. Nothing in the repository
  promises otherwise.
- A transaction whose fields have the wrong types makes `mine` raise a TypeError
  or a KeyError, which the handler does not catch (`api/routes/chain.py:73`): the
  pool it took is dropped. The transactions of `ChainApi` are well formed.
- Debugger: the program starts with `launch`, before configurationDone
  (`debugger.py:386`); setVariable writes into a copy of the locals (`:497`); a
  breakpoint in a file whose path is spelled otherwise is answered as verified
  and never met (`:392`); a second launch shares the one Event; both threads
  write messages without a lock (`:315`).
- Native tier, all of it met in `MCJit`'s instance and excepted by name: a
  variable that a branch writes, and that this run does not write, comes back as
  0 (`jit_native.py:669`; `Unwritten`); a name that only an elif condition reads
  is 0 in the kernel, or a KeyError in the program (`:131`, `:382`, `:732`;
  `Overlooks`); in a chain of more than 8 float temporaries the ninth is
  truncated (`:323`), an inner loop over a list of floats is typed as integers
  (`:258`), a float stored into a list of integers is truncated (`:479`), and so
  are a float index (`:413`) and the float bounds of a range (`:535`), where
  Python raises (`Narrows`); `and` and `or` give 0 or 1 (`:447`; `Chooses`); a
  loop `x = x + x * i` is summed with the old `x` (`compiler_runtime.py:1347`;
  `Carried`).
- Native tier, not in the instance: two modules with a unit of the same name at
  the same place share a kernel (`jit_native.py:656`); `compile_function` names
  its library by a hash modulo 99991 (`jit_native.py:718`). A loop that was
  turned into a sum leaves its variable unbound (`compiler_runtime.py:1347`).
- Registry: after an installation from a path, one from the registry fails each
  time (`registry.py:160`, rmtree of a link); without a version the last by name
  is taken, 0.9 over 0.10 (`:154`); a pre-release sorts above its release
  (`:370`); the lock file's integrity is never compared (`:296`); manifest and
  lock file are truncated in place (`:42`, `:267`); a killed removal leaves half
  the old package (`:114`). Publishing an edition once more truncates its files
  below its own manifest (`:199`): killed there, or read meanwhile, the manifest
  stands beside a torn file, in the registry and in what is installed from it.
  `ManifestMeansWhole` leaves these editions out by name (`again`); without that
  it fails.
- Requests: answers of `/lang/run` requests that overlap mix their outputs, and
  captures that end out of order leave `sys.stdout` on a buffer that was read
  already; after 504 the program keeps its thread and `sys.stdout`; a client
  that leaves a stream strands a thread once the queue is full; a solver that
  raises ends its stream like a whole one; `/lang/check`, `/lang/compile` and
  `/lang/format` have no timeout.
- Kernel: frames are numbered from the heap's base and the first one handed out
  lies 15 MB into the heap, so a heap that has grown that far shares memory with
  user programs; a file on disk has one allocated block and its writes run on
  into the next ones (`triad_disk.c:340`), the block bitmap does not reserve the
  metadata's own blocks, and nothing formats a disk.

## 7. Not modelled

Numerical code (physics core, solvers, machine learning, codec, memory, C
runtime, 3D engine, plotting) is most of the repository: its correctness is a
matter of floating-point error, which TLC cannot say anything about. Lexer,
parser, type checker, code generators and the interpreter are sequential
functions over a large language; a model of them would be a second
implementation. Of the language, `Lang` has the part for which two
implementations have to agree. So the share of the source the modules stand for
is small, and it is the part where steps of several actors, long histories or
two implementations meet.

Kernel: paging serves one client, the loader of user programs, and says nothing
of where its frames end and the heap begins; removing, renaming and seeking in
the VFS have no caller; no signal is ever sent; the rings have one writer and
one reader; firewall, quotas and capabilities are checks on single calls; the
rest is set-up of devices. The equilibrium monitor guards its cache by one lock
and replaces its file atomically. Command line, TUI, language server and
adapters are user interface around the parts above.
