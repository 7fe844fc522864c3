# Verification of detour-rs

TLA+ models of the detour library, TLC runs on small instances of them, and
TLAPS proofs of all four models for every value of their constants. Paths are
relative to the repository; `detour.rs` is `src/arch/detour.rs`.

## The system

| component | state | operations | talks to |
|---|---|---|---|
| base detour (`arch/detour.rs`) | relay, trampoline, patcher, `enabled` flag of each object; the bytes and the page protection of the target | `new`, `enable`/`disable` (`toggle`), `is_enabled`, `trampoline`, drop | POOL, the backend's `Trampoline` and `Patcher`, the `region` crate |
| POOL (`arch/memory.rs`) | one mutex for the whole process, around the allocator; its poison | `lock().unwrap()` in `new` and `toggle`, `allocate_pic` | allocator, emitter |
| instruction cache (`arch/mod.rs`) | none (the processor's) | `flush_instruction_cache`, `is_within_range` | |
| raw and generic detour (`detours/raw.rs`, `generic.rs`) | the base detour | forward every operation | base detour |
| static detour (`detours/statik.rs`) | two atomic pointers: closure and `GenericDetour` | `initialize`, `set_detour`, `enable`, `disable`, `call`, `__detour` | generic detour, the hooked function's callers |
| macros (`macros.rs`) | none | generate `__ffi_detour`, `call`, trait implementations | static detour |
| allocator (`alloc/`) | list of page pools, slices, the process's address space | `allocate`, drop of `ExecutableMemory` (`release`, then the slice) | `region`, `mmap`, `slice-pool` crates |
| PIC emitter (`pic/`) | list of thunks | `add_thunk`, `emit`, `len` | backends |
| backends (`arch/x86`, `aarch64`, `arm`, `riscv`) | none | `Trampoline::new` (decode and relocate the prolog), `Patcher::new`/`toggle`, `relay_builder`, thunks | emitter |
| errors, utilities (`error.rs`, `util.rs`) | none | | |

What is hard here:

* **Threads.** Any thread may create, toggle or drop any detour; all of them
  write the same code bytes and change the protection of the same pages. POOL
  serialises them; `is_enabled`, the drop of the memory blocks and the static
  detour's pointers are outside of it.
* **Overlap.** Two detours may patch the same bytes. Each saves the bytes
  under it once, in `new`, and puts them back in `disable`, whatever has
  happened to the other one in between.
* **Failure.** `new` can fail in six places after it has locked POOL, and an
  assertion of an emitter panics with POOL locked and poisons it for the whole
  process. `toggle` can fail at `protect_with_handle`.
* **Destruction.** Fields are dropped in declaration order; the `disable` of
  `Drop` is inside `debug_assert!`.
* **Lock-free publication.** `StaticDetour` publishes a box and a closure with
  two atomic operations, and frees the previous closure while others may run
  it.
* **Relocation.** Instructions grow when they are moved, and branches and
  operands that are relative to where they are must still mean the same.
* **Numeric edges.** Reach of branches, ends of the range the allocator
  searches.
* **A loop under two locks.** The search for a free page runs with POOL and the
  allocator's mutex held: it must end, whatever is mapped.

The hazards, each with its line and the properties aimed at it, are in
`PROJECT.json`.

## Modules

`Detour.tla` models `Detour::new`, `toggle` and `Drop`, one action per step
between two points where another thread can observe something:

| action | code |
|---|---|
| `NewSameAddress`, `NewCall`, `NewLock` | `detour.rs` 22-27 |
| `NewPrepare` | the address checks and `Trampoline::new`, 29-35: the builder reads the code |
| `NewRelay` | 37-48: a relay is allocated if the detour is `Far` |
| `NewPatcher` | 51-55: evaluated before the trampoline is allocated, as the struct expression is written |
| `NewTrampoline` | 56-60: the object is complete, POOL is unlocked |
| `NewError`, `NewPanic` | every `?` and every assertion between 27 and 60; `NewFail` drops the relay, then the guard |
| `ToggleCall` ... `ToggleEnd` | `toggle`, 87-113: lock, check, protect, one `ToggleCopy` per cell, store, flush, `_handle`, `_guard` |
| `DropCall`, `DropRelay`, `DropTrampoline` | 116-121 and the field order of 12-18 |

The memory is a set of cells. A cell holds `Orig` or the jump of one detour;
`Area[d]` is what d's patcher overwrites and `Prolog[d]` what its trampoline
relocates, in any overlapping arrangement. `icache` is what is executed: with
`Coherent = FALSE` it follows `code` only when it is flushed or, at any time,
by itself (`Refill`). `older[d]` is a history variable: the overlapping
detours there were when d saved its bytes. What clients may do is a parameter:
with `ClientNests = FALSE` anything; with `ClientNests = TRUE` a client undoes
overlapping detours in the reverse of the order in which it made them, as the
library needs but nowhere says.

`DetourInv.tla` holds the inductive invariants, `DetourProofs.tla` and
`DetourHomeProofs.tla` the proofs, `MCDetour.tla` the layouts for TLC. The other
models are laid out in the same way: `StaticInv`, `AllocatorInv` and `BackendInv`
hold the invariants, `StaticProofs`, `AllocatorProofs` and `BackendProofs` the
proofs, and the MC modules extend the former so that TLC can check the invariants
too.

`StaticDetour.tla` models one `StaticDetour` at the grain of one atomic access
(`compare_exchange`, `swap`, `load`), with heap cells that are never reused so
that a use after free is a state. A closure may panic when `initialize` drops
it (`DropPreviousPanics`): the unwinding then drops the box that has just been
published. What the clients do that the library does not expect, but does not
say either, is not ruled out but recorded, in the history variable `misuse`:
a toggle before any `initialize` has returned ("early"), a `set_detour` beside a
hooked call ("beside"), and that panic. A property that needs a client to
behave says which misuse it excludes. An operation of the `GenericDetour` beneath
is one step: that is what POOL gives, and what `Detour` shows. The call of the
hooked function (`CallTarget`, `LoadClosure`, `ClosureReturns`) is the
generated `__ffi_detour`. `NotInitialized` results change nothing and have no
action.

`ProximityAllocator.tla` models the allocator over a small address space in
which every page may be free, code or data, in every combination;
`region::query` and `SlicePool` are external and modelled by what the code relies
on. An allocation that an existing pool serves is one step (`AllocateMemory`: it
holds the allocator's mutex). One that needs a new pool is a search
(`AllocatePool` starts it), one turn of `FreeRegionIter::next` a step:
`SkipRegion` leaves a mapped region behind, `MapPool` and `MapRefused` are what
`allocate_fixed_pool` makes of an address that is yielded, `ChainBefore` goes on
before the origin, `AllocateFails` ends in `OutOfMemory` or in the error of a
query. `search.tried` is a history: the addresses that were tried in vain. Nobody but
the allocator maps pages, so that a query and the mapping of what it found free
are one step. The drop of a handle is two steps: `Release` waits for the mutex, and `FreeSlice`
does not, so that slices come back in the middle of a search.
`BlockAllocator.tla` is what the allocator
promises to its users: a block in reach of its origin, shared with no other
handle and not with the program, that stays where it is until it is given back.
The refinement mapping forgets pools and pages; a handle holds its block until
its slice is back in the pool.

The backends are eight modules. `Original.tla` is the abstract specification:
the function running as it was written. `X86.tla`, `AArch64.tla`, `RiscV.tla`
(RV64 and RV32) and `Arm.tla` have the thunks, the builder's treatment of one
instruction (`process`), the patch and the test for a relay as operators, under
the names they have in the source; `CodeLayout.tla` has what they share, and
lays sequences of instructions out in memory. `Backend.tla` detours one
function as `Detour::new` does (`BuildInstruction` is one turn of
`Builder::build`, whose loop is the same in the four; then `NewPatcher`,
`EmitTrampoline`) and runs the result: `Call` enters the trampoline or the
hooked function, `Run` executes one instruction of trampoline, patch, relay or
function. `world.arch` selects the backend, as `arch/mod.rs` does when it is
compiled. `Processor.tla` says what an instruction does, for `Original` and
`Backend` alike. `EmitTrampoline` relies on `BlockAllocator`: the memory that it
gets is not the function's, the patch's, the detour's or the relay's. What else is
assumed of a case is `Placed`, in `BackendAssumption`: the detour and the relay are
not inside the function or the patch, the relay is where the allocator puts it, and
where addresses have 32 bits the detour's has no more.

An instruction is what it does, its length and how its operand is encoded;
conditions come out either way, and each test is an observable event that names
what was tested and the outcome. Of the registers only the one that the thunks
overwrite is in the model (`scratch`: X16 or X17, t1). Every generated
instruction carries `home`, the address at which the original function is when
it is executed: that is the refinement mapping (`OriginalAt`); `Lost` is
everything that is no such place (literals, the end of the trampoline, patched
bytes).

## Runs

| run | instance | shows |
|---|---|---|
| `detour_any` | 2 threads, 2 overlapping detours over 3 cells and 2 pages, incoherent cache, every failure, any client, weak fairness | `WriteNeverFaults`, `PagesRestoredAtRest`, `SnapshotsAgree`, `ICacheCoherentAtRest`, `NothingLeaks`, `FlagFollowsCode`, `PoisonFreezesCode`, `DropLeavesJump`; liveness: `PoolReleased`, `PoisonedReturns` |
| `detour_chain` | 2 threads, 4 detours (3 overlapping in a chain, 1 beside them), release build, incoherent cache, every failure, nesting client | `Faithful`, `SavedStaysValid`, `JumpsLeadHome` |
| `detour_release` | 1 thread, 1 detour, no debug assertions | violation of `DropDisables`: a dropped detour stays installed |
| `static_any` | 3 threads, 3 closures, 2 calls of `initialize`, any client, weak fairness | `PublishedAlive`, `OneWinner`, `ClosureAccounted`, `NoUseAfterFree`, `HookedHasClosure`; liveness: `InitializeEnds` |
| `static_set_detour` | 2 threads, 2 closures | violation of `ReplacedSafely`: `set_detour` frees a closure that runs |
| `allocator` | 6 pages of 2 units, 2 origins with overlapping ranges, one of which ends inside a page, 3 handles, every initial layout, weak fairness of the search | `GivesBlocks` (refinement of `BlockAllocator`), `EachInItsPool`, `SearchIsComplete`, `SearchAdvances`; liveness: `SearchEnds` |
| `allocator_unique` | the same with 1 handle, no refusals | violation of `UniquePoolReleased`: no pool is ever unmapped |
| `backend` | every function of up to five instructions (at most one of the rarer kinds) on x86 and x86-64, of up to four on AArch64, RV64, RV32 and ARM; two or three surroundings each; detours at the ends of the range | `RunsAsOriginal` (refinement of `Original`), `HookLeadsToDetour`, `NeighboursKept` |
| `backend_call` | AArch64 and RISC-V functions that begin with a call | violation of `StaysInCode`: the call returns into a literal |
| `backend_scratch` | RISC-V tail calls through t1 | violation of `ScratchKept` |
| `backend_reach` | RV64, every detour around the range, overflow unchecked | violation of `HookLeadsToDetour` |
| `backend_immediate` | RIP operands with an immediate behind them | violation of `OperandsKept` |

Bounds. Two threads meet in every pair of steps of two operations; a third
thread adds waiters for POOL only, which the proofs cover. Two detours in
`detour_any` suffice for a shared cell and a shared page; three in
`detour_chain` give a detour that rests on two others. `Capacity` is chosen so
that the allocator can run out while a relay is held. In `allocator` three
handles and two units a page give pools that are full, half full and emptied in
either order while a search for another goes on; above the origins and below them
are two pages each, which are mapped, free, alike or different. In `static_any` three
threads are needed for an `initialize`, a `set_detour` and a hooked call at a
time. Heap cells are used once, so the static runs end, and their deadlock
check is off, as it is for the backend, whose run ends when the function
returns; the others never stop. In `backend` three free instructions and an end
make prologs of one to four instructions, the most a five-byte prolog has with
a branch in it. Where instructions have four bytes a prolog has one (AArch64) or
two of them, and two free instructions and an end give all of its shapes.
Lengths are the real ones, in bytes; only `DETOUR_RANGE` (256) and the unit of
`AUIPC` (`Page`, 16) are scaled down, so that literals, relays, the rounding of
`hi20` and the ends of the range are reached.

`RunsAsOriginal` is checked for the functions of `Supported`, which says what
the builders take for granted:

* `KnownEncodings`. x86: no undecodable bytes in the prolog, no immediate behind
  a RIP operand, no `jrcxz` to the outside. AArch64 and RISC-V: no call in the
  prolog. AArch64: no `B.cond` to the outside, which is copied as it is.
  RISC-V: no jump forward inside the prolog, which ends the trampoline early.
  ARM: no call inside the prolog, no conditional branch to the outside (it loses
  its condition), no conditional return (it ends the trampoline), none of
  the operands relative to PC that the builder does not recognise (`LDR PC`,
  `VLDR`, PC as a second operand).
* `BackwardSafe`: nothing grows between a backward branch or read and its
  target.
* `NotReentered`: nothing after the prolog branches into or reads the patched
  bytes.
* `ScratchFree`: what the prolog puts into the scratch register is not used
  after it.

Without any one of these TLC finds a violation. `HookLeadsToDetour` and
`NeighboursKept` are checked for all functions.

Fairness. `FairSpec` assumes weak fairness of each thread's steps inside an
operation: a thread that runs keeps running. It assumes nothing of which waiter
gets POOL, and so no thread is shown to get it; what is shown is that POOL is
always released. No fairness is assumed for calls, nor for `Refill`. The
`FairSpec` of `ProximityAllocator` assumes weak fairness of a search under way
(`SearchStep`): it runs in one thread, and waits for nobody. Neither the success
of a mapping nor the failure of a query is assumed: a search that stood still could
be ended by such an error only, and is not taken to be.

Each property has a mutant: a definition changed as a plausible bug would
change it (the operators with an underscore in their name), for which TLC finds
the property violated.

## Proofs

Every invariant and every action property of the passing runs is proved, and one
of the two refinements. Each proof has the same shape: an inductive invariant,
which TLC has checked on the run's instance, one lemma or step per action, and
then the properties as consequences.

### Detour

`DetourProofs.tla`, for any sets of threads, detours, cells and pages, any
layout, any failures, from `DetourAssumption` only (the constants have their
types, `NoThread`, `NoDetour` and `Orig` are fresh):

* `AnyClient`: `Spec => []AnyInv`. `AnyInv` is `TypeOK` and
  * `ControlInv`: POOL's owner is the one thread between its lock and its
    unlock; a thread works on an object in the state its step is for; an object
    two threads share is live;
  * `ProtInv`: the writable pages are exactly those of the area being written,
    and the protection a toggle will restore is the first one. Without this
    form `PagesRestoredAtRest` is not inductive: a toggle restores what it
    saved;
  * `SnapInv`: between `NewPrepare` and `NewPatcher` the code does not change;
  * `ICacheInv`: the cache lags only in the area of a toggle that has yet to
    flush.

  From it: `TypeCorrect`, `PagesRestored`, `NoWriteFaults`, `OneSnapshot`,
  `ICacheCoherent`.
* `PoisonFreezes`: with `PoisonInv` (nobody owns a poisoned POOL) added to
  `AnyInv`, `Spec => PoisonFreezesCode`: only a thread that owns POOL writes to
  the code (`OnlyOwnerWrites`).
* `NestingClient`: with `ClientNests`, `Spec => [](AnyInv /\ NestInv)`.
  `NestInv` is the stack argument. `OrderInv`: `older` orders the overlapping
  detours. `QuietInv`: what is being toggled or dropped is the newest and
  overlaps nothing else that is worked on. `CodeInv` and `SavedInv`: every cell
  holds the jump of the newest detour that is *on* over it, and every detour
  has saved the jump of the newest one on beneath it. *On* is the `enabled`
  flag, except that a cell which the toggle under way has already copied is
  ahead of it: this makes the invariant hold in the middle of a toggle. From
  it: `StackOfDetours` (`Faithful`) and `SavedCodeValid` (`SavedStaysValid`).

The proofs have one step per action; the stack part has one lemma per action
that moves the stack (`StackPatcher`, `StackTrampoline`, `StackForget`,
`StackCopy`) and two frame lemmas for all others.

`DetourHomeProofs.tla`, from the same assumption:

* `AnyObject`: `Spec => [](AnyInv /\ ObjectInv)`, for every client. `ObjectInv` is
  `FlagInv` and `OrderedInv` (the flag differs from what a toggle wants until the
  store, and by then every cell of the area has been copied; a toggle that a drop
  has called disables) and `HeldInv` (the blocks that each object has in every
  state of its life, and that each step of `new` and drop has got to). From it:
  `FlagAfterCode` (`FlagFollowsCode`), `DropLeavesJumpOnlyByPanic`
  (`DropLeavesJump`) and `BlocksAreOwned` (`NothingLeaks`).
* `HomeClient`, with `ClientNests` and `DropsDisabled`: adds `HomeInv`. Nothing
  dangles (`TidyInv`); the instruction cache is at most one toggle behind, and what
  it still holds is what that toggle replaces (`StaleInv`); a jump that a
  trampoline has relocated is that of an older detour, which stays enabled
  (`BuiltInv`). From it: `EveryJumpHome` (`JumpsLeadHome`). `DropsDisabled` says
  that no failure makes the disable of `Drop` panic where `Drop` disables at all
  (builds with debug assertions); in a release build the nesting client disables
  first. `detour_chain` is an instance; without it `JumpsLeadHome` is false, which
  is what `DropLeavesJump` allows.

### StaticDetour

`StaticProofs.tla`, for any sets of threads, closures and calls of `initialize`:
`StaticInductive` proves `StaticInvariant`: who owns a box (`OwnerInv`, `BoxInv`),
who owns a closure (`ClosureInv`), that there is a closure from the first swap on
(`SetInv`), and what a hooked call relies on as long as the history of misuse is
clean (`EarlyInv`, `BesideInv`). From it: `StaticTypeCorrect`,
`PublishedStaysAlive`, `InitializeOnce`, `ClosuresAccounted` (which counts
holders), `RunsLiveClosure`, `HookHasClosure`.

### The allocator

`AllocatorProofs.tla`, for any address space, page size, distance, origins, sizes
and handles. `AllocatorAssumption` excludes pages of one unit, and a function that
starts at the very last address, where the saturated range does not hold its own
origin. `AllocatorInductive` proves `AllocatorInvariant`: pools are on pages of
their own (`PoolInv`), slices in pools of the list and apart (`HandleInv`,
`ApartInv`), origins in code and the null page free (`PlaceInv`), and `SearchInv`:
a search stands at its origin or at the start of a page and has tried exactly the
free pages that it has left behind. The last needs the page arithmetic of a region
(`Beyond`): nothing free is between where the search is and where it goes on. From
it: `AllocatorTypeCorrect`, `SlicesInPools` (`EachInItsPool`),
`OutOfMemoryIsTrue` (`SearchIsComplete`), `SearchProgresses` (`SearchAdvances`), and
`ImplementsBlocks` (`GivesBlocks`): each action maps to an action of
`BlockAllocator` or to none.

### The backends

`BackendProofs.tla`, for any `DETOUR_RANGE` above 16, any `Page`, any function and
any place of detour, relay and trampoline as far as `BackendAssumption` goes.
`BackendInductive` proves `BackendInvariant`: what the builders make of any
instruction is code (one lemma per backend, `ProcessTyped`), and the builder goes
on only below the margin (`BuildInv`); patch and hook are those of the prolog that
it left (`HookInv`); the trampoline is in memory of its own (`CodeInv`). From it:

* `BackendTypeCorrect`: the types, the shapes of the patch, and that no code is
  written that still needs an address.
* `OnlyPaddingPatched` (`NeighboursKept`).
* `CallsReachDetour` (`HookLeadsToDetour`). The argument is about displacements:
  one that is in range fits (`FitsWhenInRange`); where addresses have 32 bits, one
  that does not fit wraps around with them (`WrapsAround`); and the two parts of
  RISC-V's displacement add up to it (`RoundedSum`). `HookLeads` puts that together
  for the hook of every architecture, the hot patch of x86 included. The theorem
  assumes `RoundingChecked`: on RV64 the rounding of the upper part is checked for
  overflow or stays in range. The instance of the run `backend` satisfies it;
  `backend_reach` shows that it is needed.

### Only model-checked

* The liveness properties `PoolReleased`, `PoisonedReturns`, `InitializeEnds` and
  `SearchEnds`: fairness is out of the prover's reach. Of `SearchEnds` the safety
  part is proved: by `SearchProgresses` each turn of a search decreases `Left`, a
  number, so that only finitely many turns are left.
* `RunsAsOriginal`, the refinement of `Original`. It rests on sums over the lengths
  of a sequence of instructions of any length, which take an induction over
  sequences that the installed provers cannot apply. The hooks have one or two
  instructions, so that their layout could be computed (`LayoutOfOne`,
  `LayoutOfTwo`).
* The properties of the runs that find violations, which are false.

## What the runs found

* Drop disables only in builds with debug assertions (`detour_release`).
* `set_detour` frees the previous closure while a hooked call may run it
  (`static_set_detour`).
* `release` compares a byte length with 1, so that no pool is unmapped
  (`allocator_unique`).
* A RIP operand with an immediate behind it is relocated wrongly
  (`backend_immediate`).
* A relocated call on AArch64 and RISC-V returns into the literal behind it
  (`backend_call`).
* RISC-V's jump back to the function may overwrite t1 while it is in use
  (`backend_scratch`).
* On RV64 the patch misses a detour within 2 KiB of +2 GiB, or the creation of
  the detour panics (`backend_reach`).

Found with the same models, where the repository says nothing to the contrary:
detours of one function must be disabled in the reverse of their order, or the
function stays hooked with every hook disabled (`ClientNests`); `initialize`
publishes the detour before its closure, so that an `enable` in between lets a
hooked call panic ("early" in `misuse`); a closure that panics while
`initialize` drops it leaves a dangling pointer ("panic"); and the assumptions
of `Supported`.

## Not modelled

* A thread that executes the target while its bytes are copied: the repository's
  README says the library does not halt threads.
* Panics of client closures, other than of one that `initialize` drops.
* Mappings that others make between `region::query` and the fixed mapping: what
  becomes of a page that is taken then is up to the `mmap` crate and the system.
* A system that refuses to restore the protection of a page when the handle of
  `toggle` is dropped (`detour.rs` 95): `ToggleRestore` always succeeds, and
  `PagesRestoredAtRest` and `WriteNeverFaults` are to be read with that.
* The drop of a `StaticDetour`: statics are not dropped.
* The flush of freshly emitted blocks: it follows the copy in one function, on
  memory that no other thread has yet (`GivesBlocks`).
* Callees that look at their return address (a position-independent function on
  x86 that calls the next instruction): the trampoline's calls return to the
  trampoline.
* Prefixes before a conditional jump, and the bytes of instructions in general.
* Where a RISC-V call copied inside the prolog links, and X16 and X17 apart: the
  scratch register is one.
* The types and trait implementations that the macros generate, error types,
  formatting, and the wrappers' function pointers: there is no state in them.

## Plan

What is left: the part of `RunsAsOriginal` that needs no layout (what one thunk of
each backend does, compared with the instruction it stands for), and that the
builder never emits a copy of an instruction inside a tracked branch at another
length (`Misplaced`), for every function.
