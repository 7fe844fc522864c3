------------------------------- MODULE Detour -------------------------------
(***************************************************************************)
(* The architecture-independent base detour (src/src/arch/detour.rs) and   *)
(* the process-wide POOL mutex every one of its operations takes           *)
(* (src/src/arch/memory.rs).                                               *)
(*                                                                         *)
(* Threads create detours (`new'), enable and disable them (`toggle') and  *)
(* drop them.  All of them patch one memory of code cells, that another    *)
(* detour may have patched before.  What is kept is the control: the lock  *)
(* and its poisoning, the order of the steps, every early return, every    *)
(* failure and every panic.  What is abstracted is the bytes: a cell holds *)
(* its pristine content or the jump of one detour.                         *)
(***************************************************************************)
EXTENDS Naturals, FiniteSets

CONSTANTS
  Threads,          \* threads that use the library
  Detours,          \* Detour objects (a fixed target and detour each)
  Cells,            \* code cells of the detoured program
  Pages,            \* memory pages
  PageOf,           \* the page of each cell
  Area,             \* the cells each detour's patcher overwrites
  Prolog,           \* the cells each detour's trampoline relocates
  Far,              \* detours out of reach of a branch: they need a relay
  Capacity,         \* how many code blocks the allocator can provide
  Failures,         \* the kinds of failure that may happen
  Coherent,         \* does the instruction cache follow writes (x86)?
  DebugAssertions,  \* is debug_assert! compiled in?
  ClientNests,      \* does the client undo overlapping detours in LIFO order?
  Orig, NoThread, NoDetour

FailureKinds == {"decode", "alloc", "emit", "patch", "protect"}

ASSUME DetourAssumption ==
  /\ NoThread \notin Threads
  /\ NoDetour \notin Detours
  /\ Orig \notin Detours
  /\ PageOf \in [Cells -> Pages]
  /\ Area \in [Detours -> SUBSET Cells]
  /\ Prolog \in [Detours -> SUBSET Cells]
  /\ Far \subseteq Detours
  /\ Capacity \in Nat
  /\ Failures \subseteq FailureKinds
  /\ Coherent \in BOOLEAN
  /\ DebugAssertions \in BOOLEAN
  /\ ClientNests \in BOOLEAN

VARIABLES
  pc,        \* where each thread is
  cur,       \* the detour each thread works on
  want,      \* the argument of toggle
  todo,      \* the cells a toggle has yet to write
  saved,     \* the protection a toggle's _handle will restore
  lock,      \* the owner of POOL
  poisoned,  \* has a thread panicked while it owned POOL?
  state,     \* the life of each detour object
  enabled,   \* Detour::enabled
  built,     \* the code the trampoline builder of a detour read
  original,  \* the code the patcher of a detour saved
  older,     \* the overlapping detours there were when it was saved
  held,      \* the ExecutableMemory values that are alive
  code,      \* the code cells
  icache,    \* what is executed, cell by cell
  prot       \* the protection of each page

locals  == <<pc, cur, want, todo, saved>>
objects == <<state, enabled, built, original, older, held>>
memory  == <<code, icache, prot>>
vars    == <<pc, cur, want, todo, saved, lock, poisoned, state, enabled,
             built, original, older, held, code, icache, prot>>

NewSteps    == {"newPrepare", "newRelay", "newPatcher", "newTrampoline"}
ToggleSteps == {"toggleCheck", "toggleProtect", "toggleCopy", "toggleStore",
                "toggleFlush", "toggleRestore", "toggleUnlock"}
Critical    == NewSteps \cup ToggleSteps
PCs         == Critical \cup {"idle", "newLock", "toggleLock", "dropRelay",
                              "dropTrampoline"}

States      == {"none", "building", "live", "dropping", "dangling"}
Protections == {"rx", "rwx"}
Content     == Detours \cup {Orig}
Pristine    == [c \in Cells |-> Orig]
Kinds       == {"relay", "trampoline"}

TypeOK ==
  /\ pc \in [Threads -> PCs]
  /\ cur \in [Threads -> Detours \cup {NoDetour}]
  /\ want \in [Threads -> BOOLEAN]
  /\ todo \in [Threads -> SUBSET Cells]
  /\ saved \in [Threads -> [Pages -> Protections]]
  /\ lock \in Threads \cup {NoThread}
  /\ poisoned \in BOOLEAN
  /\ state \in [Detours -> States]
  /\ enabled \in [Detours -> BOOLEAN]
  /\ built \in [Detours -> [Cells -> Content]]
  /\ original \in [Detours -> [Cells -> Content]]
  /\ older \in [Detours -> SUBSET Detours]
  /\ held \in SUBSET (Detours \X Kinds)
  /\ code \in [Cells -> Content]
  /\ icache \in [Cells -> Content]
  /\ prot \in [Pages -> Protections]

Init ==
  /\ pc = [t \in Threads |-> "idle"]
  /\ cur = [t \in Threads |-> NoDetour]
  /\ want = [t \in Threads |-> FALSE]
  /\ todo = [t \in Threads |-> {}]
  /\ saved = [t \in Threads |-> [p \in Pages |-> "rx"]]
  /\ lock = NoThread
  /\ poisoned = FALSE
  /\ state = [d \in Detours |-> "none"]
  /\ enabled = [d \in Detours |-> FALSE]
  /\ built = [d \in Detours |-> Pristine]
  /\ original = [d \in Detours |-> Pristine]
  /\ older = [d \in Detours |-> {}]
  /\ held = {}
  /\ code = Pristine
  /\ icache = Pristine
  /\ prot = [p \in Pages |-> "rx"]

-----------------------------------------------------------------------------
(***************************************************************************)
(* What the client may do.  The library asks for nothing; a client that    *)
(* nests its overlapping detours (ClientNests) toggles and drops the       *)
(* newest of them only, does not work on two of them at a time, and, where *)
(* debug_assert! is compiled out, disables a detour before it drops it.    *)
(***************************************************************************)
Touched(d)    == Area[d] \cup Prolog[d]
Overlap(d, e) == /\ d # e
                 /\ \/ Area[d] \cap Touched(e) # {}
                    \/ Area[e] \cap Touched(d) # {}

\* The object exists, or its jump outlived it.
Present(d) == state[d] \in {"live", "dropping", "dangling"}

Undisturbed(d) == \A u \in Threads : cur[u] # NoDetour => ~Overlap(d, cur[u])
Newest(d)      == \A e \in Detours : d \notin older[e]

MayNew(d)    == ClientNests => Undisturbed(d)
MayToggle(d) == ClientNests => Undisturbed(d) /\ Newest(d)
MayDrop(d)   == ClientNests => /\ Undisturbed(d) /\ Newest(d)
                               /\ DebugAssertions \/ ~enabled[d]

-----------------------------------------------------------------------------
(***************************************************************************)
(* Helpers: moving a thread on, returning to the client, POOL's guard.     *)
(***************************************************************************)
Goto(t, l) == pc' = [pc EXCEPT ![t] = l]

\* The operation returns to the client.
Return(t) ==
  /\ Goto(t, "idle")
  /\ cur' = [cur EXCEPT ![t] = NoDetour]
  /\ want' = [want EXCEPT ![t] = FALSE]

\* Mutants of NewFail: the relay is forgotten; the guard is forgotten.
NewFail_LeaksRelay(t, panics) ==
  LET d == cur[t] IN
  /\ Return(t)
  /\ lock' = NoThread
  /\ poisoned' = (poisoned \/ panics)
  /\ state' = [state EXCEPT ![d] = "none"]
  /\ UNCHANGED <<todo, saved, enabled, built, original, older, held, memory>>
NewFail_KeepsLock(t, panics) ==
  LET d == cur[t] IN
  /\ Return(t)
  /\ poisoned' = (poisoned \/ panics)
  /\ state' = [state EXCEPT ![d] = "none"]
  /\ held' = held \ {<<d, "relay">>}
  /\ UNCHANGED <<todo, saved, lock, enabled, built, original, older, memory>>

\* Detour::new leaves with an error or a panic: the relay built so far is
\* dropped before the guard, and a panic poisons POOL.
NewFail(t, panics) ==
  LET d == cur[t] IN
  /\ Return(t)
  /\ lock' = NoThread
  /\ poisoned' = (poisoned \/ panics)
  /\ state' = [state EXCEPT ![d] = "none"]
  /\ held' = held \ {<<d, "relay">>}
  /\ built' = [built EXCEPT ![d] = Pristine]
  /\ original' = [original EXCEPT ![d] = Pristine]
  /\ older' = [older EXCEPT ![d] = {}]
  /\ UNCHANGED <<todo, saved, enabled, memory>>

Exhausted == Cardinality(held) >= Capacity

-----------------------------------------------------------------------------
(***************************************************************************)
(* Detour::new                                                             *)
(***************************************************************************)
\* A target that equals its detour is refused before POOL is even locked.
NewSameAddress(t) == pc[t] = "idle" /\ UNCHANGED vars

\* The call.
NewCall(t, d) ==
  /\ pc[t] = "idle"
  /\ state[d] = "none"
  /\ MayNew(d)
  /\ Goto(t, "newLock")
  /\ cur' = [cur EXCEPT ![t] = d]
  /\ state' = [state EXCEPT ![d] = "building"]
  /\ UNCHANGED <<want, todo, saved, lock, poisoned, enabled, built, original,
                 older, held, memory>>

NewLock(t) ==
  /\ pc[t] = "newLock"
  /\ lock = NoThread /\ ~poisoned
  /\ lock' = t
  /\ Goto(t, "newPrepare")
  /\ UNCHANGED <<cur, want, todo, saved, poisoned, objects, memory>>

\* The addresses are checked and the trampoline builder reads the prolog.
NewPrepare(t) ==
  /\ pc[t] = "newPrepare"
  /\ built' = [built EXCEPT ![cur[t]] = code]
  /\ Goto(t, "newRelay")
  /\ UNCHANGED <<cur, want, todo, saved, lock, poisoned, state, enabled,
                 original, older, held, memory>>

\* A relay is allocated and emitted if the detour is out of reach.
NewRelay(t) ==
  LET d == cur[t] IN
  /\ pc[t] = "newRelay"
  /\ d \in Far => ~Exhausted
  /\ held' = IF d \in Far THEN held \cup {<<d, "relay">>} ELSE held
  /\ Goto(t, "newPatcher")
  /\ UNCHANGED <<cur, want, todo, saved, lock, poisoned, state, enabled,
                 built, original, older, memory>>

\* Mutant of NewPatcher: the pristine code is saved, not the present one.
NewPatcher_Pristine(t) ==
  LET d == cur[t] IN
  /\ pc[t] = "newPatcher"
  /\ original' = [original EXCEPT ![d] = Pristine]
  /\ older' = [older EXCEPT ![d] = {e \in Detours : Overlap(d, e) /\ Present(e)}]
  /\ Goto(t, "newTrampoline")
  /\ UNCHANGED <<cur, want, todo, saved, lock, poisoned, state, enabled, built,
                 held, memory>>

\* Patcher::new finds the patch area, renders the jump and saves the code
\* under it; it is evaluated before the trampoline is allocated.
NewPatcher(t) ==
  LET d == cur[t] IN
  /\ pc[t] = "newPatcher"
  /\ original' = [original EXCEPT ![d] = code]
  /\ older' = [older EXCEPT ![d] = {e \in Detours : Overlap(d, e) /\ Present(e)}]
  /\ Goto(t, "newTrampoline")
  /\ UNCHANGED <<cur, want, todo, saved, lock, poisoned, state, enabled, built,
                 held, memory>>

\* Mutant of NewTrampoline: the block is recorded after the return.
NewTrampoline_AfterReturn(t) ==
  LET d == cur[t] IN
  /\ pc[t] = "newTrampoline"
  /\ ~Exhausted
  /\ Return(t)
  /\ held' = held \cup {<<cur'[t], "trampoline">>}
  /\ state' = [state EXCEPT ![d] = "live"]
  /\ lock' = NoThread
  /\ UNCHANGED <<todo, saved, poisoned, enabled, built, original, older, memory>>

\* The trampoline is allocated and emitted; the object is complete.
NewTrampoline(t) ==
  LET d == cur[t] IN
  /\ pc[t] = "newTrampoline"
  /\ ~Exhausted
  /\ held' = held \cup {<<d, "trampoline">>}
  /\ state' = [state EXCEPT ![d] = "live"]
  /\ enabled' = [enabled EXCEPT ![d] = FALSE]
  /\ lock' = NoThread
  /\ Return(t)
  /\ UNCHANGED <<todo, saved, poisoned, built, original, older, memory>>

\* The errors of new, and the unwrap of a poisoned POOL, which panics
\* without owning it.
NewError(t) ==
  /\ \/ pc[t] = "newLock" /\ lock = NoThread /\ poisoned
     \/ pc[t] = "newPrepare" /\ "decode" \in Failures
     \/ pc[t] = "newRelay" /\ cur[t] \in Far /\ (Exhausted \/ "alloc" \in Failures)
     \/ pc[t] = "newPatcher" /\ "patch" \in Failures
     \/ pc[t] = "newTrampoline" /\ (Exhausted \/ "alloc" \in Failures)
  /\ NewFail(t, FALSE)

\* The panics of new inside POOL: an assertion of an emitter, for the code of
\* the relay, of the jump or of the trampoline.
NewPanic(t) ==
  /\ "emit" \in Failures
  /\ \/ pc[t] = "newRelay" /\ cur[t] \in Far /\ ~Exhausted
     \/ pc[t] = "newPatcher"
     \/ pc[t] = "newTrampoline" /\ ~Exhausted
  /\ NewFail(t, TRUE)

-----------------------------------------------------------------------------
(***************************************************************************)
(* Detour::toggle, for enable, disable and drop                            *)
(***************************************************************************)
\* enable (w = TRUE) or disable through a shared reference: any number of
\* threads may do so at a time.
ToggleCall(t, d, w) ==
  /\ pc[t] = "idle"
  /\ state[d] = "live"
  /\ MayToggle(d)
  /\ Goto(t, "toggleLock")
  /\ cur' = [cur EXCEPT ![t] = d]
  /\ want' = [want EXCEPT ![t] = w]
  /\ UNCHANGED <<todo, saved, lock, poisoned, objects, memory>>

\* toggle returns or panics; in drop the fields are dropped in either case.
ToggleReturn(t) ==
  IF state[cur[t]] = "dropping"
  THEN Goto(t, "dropRelay") /\ UNCHANGED <<cur, want>>
  ELSE Return(t)

\* Mutants of ToggleLock: POOL is not taken; its poison is ignored.
ToggleLock_Unguarded(t) ==
  /\ pc[t] = "toggleLock"
  /\ Goto(t, "toggleCheck")
  /\ UNCHANGED <<cur, want, todo, saved, lock, poisoned, objects, memory>>
ToggleLock_IgnoresPoison(t) ==
  /\ pc[t] = "toggleLock"
  /\ lock = NoThread
  /\ lock' = t
  /\ Goto(t, "toggleCheck")
  /\ UNCHANGED <<cur, want, todo, saved, poisoned, objects, memory>>

ToggleLock(t) ==
  /\ pc[t] = "toggleLock"
  /\ lock = NoThread /\ ~poisoned
  /\ lock' = t
  /\ Goto(t, "toggleCheck")
  /\ UNCHANGED <<cur, want, todo, saved, poisoned, objects, memory>>

\* Something is to be done only if the detour is not as wanted already.
ToggleCheck(t) ==
  /\ pc[t] = "toggleCheck"
  /\ enabled[cur[t]] # want[t]
  /\ Goto(t, "toggleProtect")
  /\ UNCHANGED <<cur, want, todo, saved, lock, poisoned, objects, memory>>

PagesOf(d) == {PageOf[c] : c \in Area[d]}

\* Mutant of ToggleProtect: only the first page of the area is unprotected.
ToggleProtect_OnePage(t) ==
  LET d == cur[t]
      first == CHOOSE p \in PagesOf(d) : TRUE IN
  /\ pc[t] = "toggleProtect"
  /\ saved' = [saved EXCEPT ![t] = prot]
  /\ prot' = [prot EXCEPT ![first] = "rwx"]
  /\ todo' = [todo EXCEPT ![t] = Area[d]]
  /\ Goto(t, "toggleCopy")
  /\ UNCHANGED <<cur, want, lock, poisoned, objects, code, icache>>

\* region::protect_with_handle: the pages of the area become writable.
ToggleProtect(t) ==
  LET d == cur[t] IN
  /\ pc[t] = "toggleProtect"
  /\ saved' = [saved EXCEPT ![t] = prot]
  /\ prot' = [p \in Pages |-> IF p \in PagesOf(d) THEN "rwx" ELSE prot[p]]
  /\ todo' = [todo EXCEPT ![t] = Area[d]]
  /\ Goto(t, "toggleCopy")
  /\ UNCHANGED <<cur, want, lock, poisoned, objects, code, icache>>

\* Mutant of ToggleCopy: disable writes the pristine code, not the saved one.
ToggleCopy_Pristine(t, c) ==
  /\ pc[t] = "toggleCopy"
  /\ c \in todo[t]
  /\ code' = [code EXCEPT ![c] = IF want[t] THEN cur[t] ELSE Orig]
  /\ icache' = IF Coherent THEN [icache EXCEPT ![c] = code'[c]] ELSE icache
  /\ todo' = [todo EXCEPT ![t] = @ \ {c}]
  /\ UNCHANGED <<pc, cur, want, saved, lock, poisoned, objects, prot>>

\* Patcher::toggle: one cell of the area is overwritten, in no given order.
ToggleCopy(t, c) ==
  LET d == cur[t] IN
  /\ pc[t] = "toggleCopy"
  /\ c \in todo[t]
  /\ code' = [code EXCEPT ![c] = IF want[t] THEN d ELSE original[d][c]]
  /\ icache' = IF Coherent THEN [icache EXCEPT ![c] = code'[c]] ELSE icache
  /\ todo' = [todo EXCEPT ![t] = @ \ {c}]
  /\ UNCHANGED <<pc, cur, want, saved, lock, poisoned, objects, prot>>

\* Mutant of ToggleStore: the flag is stored while the copy goes on.
ToggleStore_Early(t) ==
  /\ pc[t] = "toggleCopy"
  /\ enabled' = [enabled EXCEPT ![cur[t]] = want[t]]
  /\ pc' = IF todo[t] = {} THEN [pc EXCEPT ![t] = "toggleFlush"] ELSE pc
  /\ UNCHANGED <<cur, want, todo, saved, lock, poisoned, state, built, original,
                 older, held, memory>>

\* The flag follows the last cell.
ToggleStore(t) ==
  /\ pc[t] = "toggleCopy"
  /\ todo[t] = {}
  /\ enabled' = [enabled EXCEPT ![cur[t]] = want[t]]
  /\ Goto(t, "toggleFlush")
  /\ UNCHANGED <<cur, want, todo, saved, lock, poisoned, state, built, original,
                 older, held, memory>>

\* Mutant of ToggleFlush: nothing is flushed.
ToggleFlush_Nothing(t) ==
  /\ pc[t] = "toggleFlush"
  /\ Goto(t, "toggleRestore")
  /\ UNCHANGED <<cur, want, todo, saved, lock, poisoned, objects, memory>>

\* flush_instruction_cache over the patched area.
ToggleFlush(t) ==
  /\ pc[t] = "toggleFlush"
  /\ icache' = [c \in Cells |-> IF c \in Area[cur[t]] THEN code[c] ELSE icache[c]]
  /\ Goto(t, "toggleRestore")
  /\ UNCHANGED <<cur, want, todo, saved, lock, poisoned, objects, code, prot>>

\* Mutant of ToggleRestore: the protection is never restored.
ToggleRestore_Never(t) ==
  /\ pc[t] = "toggleRestore"
  /\ Goto(t, "toggleUnlock")
  /\ UNCHANGED <<cur, want, todo, saved, lock, poisoned, objects, memory>>

\* _handle is dropped before _guard, which ToggleEnd drops; the system does not
\* refuse to take back the rights that it gave.
ToggleRestore(t) ==
  /\ pc[t] = "toggleRestore"
  /\ prot' = [p \in Pages |-> IF p \in PagesOf(cur[t]) THEN saved[t][p] ELSE prot[p]]
  /\ Goto(t, "toggleUnlock")
  /\ UNCHANGED <<cur, want, todo, saved, lock, poisoned, objects, code, icache>>

\* Mutant of ToggleEnd: an early return keeps POOL.
ToggleEnd_KeepsLock(t) ==
  /\ \/ pc[t] = "toggleCheck" /\ enabled[cur[t]] = want[t]
     \/ pc[t] = "toggleUnlock"
  /\ ToggleReturn(t)
  /\ lock' = IF pc[t] = "toggleUnlock" THEN NoThread ELSE lock
  /\ UNCHANGED <<todo, saved, poisoned, objects, memory>>

\* Every way out of toggle: the unwrap of a poisoned POOL panics, there is
\* nothing to do, the system refuses the protection, or all is done.
ToggleEnd(t) ==
  /\ \/ pc[t] = "toggleLock" /\ lock = NoThread /\ poisoned
     \/ pc[t] = "toggleCheck" /\ enabled[cur[t]] = want[t]
     \/ pc[t] = "toggleProtect" /\ "protect" \in Failures
     \/ pc[t] = "toggleUnlock"
  /\ ToggleReturn(t)
  /\ lock' = NoThread
  /\ UNCHANGED <<todo, saved, poisoned, objects, memory>>

-----------------------------------------------------------------------------
(***************************************************************************)
(* Drop.  The drop needs the object for itself.  `disable' is called       *)
(* inside debug_assert!, so only a build with debug assertions calls it.   *)
(***************************************************************************)
\* Mutant of DropCall: the fields are dropped without a disable, in any build.
DropCall_Skips(t, d) ==
  /\ pc[t] = "idle"
  /\ state[d] = "live"
  /\ \A u \in Threads : cur[u] # d
  /\ MayDrop(d)
  /\ state' = [state EXCEPT ![d] = "dropping"]
  /\ Goto(t, "dropRelay")
  /\ cur' = [cur EXCEPT ![t] = d]
  /\ want' = [want EXCEPT ![t] = FALSE]
  /\ UNCHANGED <<todo, saved, lock, poisoned, enabled, built, original, older,
                 held, memory>>

\* The drop of the object.
DropCall(t, d) ==
  /\ pc[t] = "idle"
  /\ state[d] = "live"
  /\ \A u \in Threads : cur[u] # d
  /\ MayDrop(d)
  /\ state' = [state EXCEPT ![d] = "dropping"]
  /\ Goto(t, IF DebugAssertions THEN "toggleLock" ELSE "dropRelay")
  /\ cur' = [cur EXCEPT ![t] = d]
  /\ want' = [want EXCEPT ![t] = FALSE]
  /\ UNCHANGED <<todo, saved, lock, poisoned, enabled, built, original, older,
                 held, memory>>

\* The fields are dropped in declaration order, without POOL.
DropRelay(t) ==
  /\ pc[t] = "dropRelay"
  /\ held' = held \ {<<cur[t], "relay">>}
  /\ Goto(t, "dropTrampoline")
  /\ UNCHANGED <<cur, want, todo, saved, lock, poisoned, state, enabled, built,
                 original, older, memory>>

\* The object is gone; if it was still enabled its jump dangles.
DropTrampoline(t) ==
  LET d == cur[t] IN
  /\ pc[t] = "dropTrampoline"
  /\ held' = held \ {<<d, "trampoline">>}
  /\ Return(t)
  /\ IF enabled[d]
     THEN /\ state' = [state EXCEPT ![d] = "dangling"]
          /\ UNCHANGED <<built, original, older>>
     ELSE /\ state' = [state EXCEPT ![d] = "none"]
          /\ built' = [built EXCEPT ![d] = Pristine]
          /\ original' = [original EXCEPT ![d] = Pristine]
          /\ older' = [older EXCEPT ![d] = {}]
  /\ UNCHANGED <<todo, saved, lock, poisoned, enabled, memory>>

-----------------------------------------------------------------------------
\* A processor without a coherent instruction cache fetches a cell again.
Refill(c) ==
  /\ icache[c] # code[c]
  /\ icache' = [icache EXCEPT ![c] = code[c]]
  /\ UNCHANGED <<locals, lock, poisoned, objects, code, prot>>

\* The steps of an operation that has been called.
Step(t) ==
  \/ NewLock(t) \/ NewPrepare(t) \/ NewRelay(t) \/ NewPatcher(t)
  \/ NewTrampoline(t) \/ NewError(t) \/ NewPanic(t)
  \/ ToggleLock(t) \/ ToggleCheck(t) \/ ToggleProtect(t)
  \/ \E c \in Cells : ToggleCopy(t, c)
  \/ ToggleStore(t) \/ ToggleFlush(t) \/ ToggleRestore(t) \/ ToggleEnd(t)
  \/ DropRelay(t) \/ DropTrampoline(t)

Call(t) ==
  \/ NewSameAddress(t)
  \/ \E d \in Detours : \/ NewCall(t, d)
                        \/ \E w \in BOOLEAN : ToggleCall(t, d, w)
                        \/ DropCall(t, d)

Next == \/ \E t \in Threads : Call(t) \/ Step(t)
        \/ \E c \in Cells : Refill(c)

Spec == Init /\ [][Next]_vars

\* A called operation keeps running; nothing is assumed of the order in
\* which the mutex serves its waiters, nor of the instruction cache.
FairSpec == Spec /\ \A t \in Threads : WF_vars(Step(t))

-----------------------------------------------------------------------------
(***************************************************************************)
(* Properties for every client                                             *)
(***************************************************************************)
\* A write to the code never faults: while toggle copies, every cell it has
\* yet to write is on a writable page, whatever other toggles restore on the
\* page they share (detour.rs, toggle: protect_with_handle before the copy).
WriteNeverFaults ==
  \A t \in Threads : pc[t] = "toggleCopy" =>
    \A c \in todo[t] : prot[PageOf[c]] = "rwx"

\* Whenever POOL is free every page has its first protection: no order of
\* toggles, errors and panics leaves code writable (_handle goes before
\* _guard, detour.rs, toggle).
PagesRestoredAtRest ==
  lock = NoThread => \A p \in Pages : prot[p] = "rx"

\* The trampoline and the patcher of a detour saw the same code: what the
\* trampoline runs is what disable puts back, though they read it in two
\* places of new and other threads patch it (detour.rs, new holds POOL).
SnapshotsAgree ==
  \A d \in Detours : Present(d) =>
    \A c \in Area[d] \cap Prolog[d] : built[d][c] = original[d][c]

\* Whenever POOL is free the processor executes what was last written, on a
\* processor whose instruction cache does not follow writes too
\* (detour.rs, toggle: the flush is inside the lock and after the copy).
ICacheCoherentAtRest == lock = NoThread => icache = code

\* A block of executable memory belongs to an object that exists: an error
\* or a panic of new gives back the relay, a drop gives back both blocks,
\* and a live detour has all it needs (detour.rs, new and the field order).
NothingLeaks ==
  /\ \A m \in held : state[m[1]] \in {"building", "live", "dropping"}
  /\ \A d \in Detours : state[d] = "live" =>
       /\ <<d, "trampoline">> \in held
       /\ <<d, "relay">> \in held <=> d \in Far

\* The enabled flag of a detour changes only once its whole area holds the
\* jump, or what was saved (detour.rs, toggle: the copy before the store).
FlagFollowsCode ==
  [][\A d \in Detours : enabled'[d] # enabled[d] =>
       \A c \in Area[d] :
         code[c] = IF enabled'[d] THEN d ELSE original[d][c]]_vars

\* A panic inside POOL freezes every hook: from then on no operation of any
\* thread changes the code (the unwrap of a poisoned lock, new and toggle).
PoisonFreezesCode == [][poisoned => code' = code]_vars

\* Where debug_assert! is compiled in, a drop begins to free the blocks of a
\* detour that is still enabled in two cases only: the system refused the
\* protection, or POOL was poisoned (the two panics of Drop).  No race with
\* the enable of another thread is a third.
DropLeavesJump ==
  [][\A t \in Threads :
       /\ DebugAssertions
       /\ pc[t] # "dropRelay" /\ pc'[t] = "dropRelay"
       /\ enabled'[cur'[t]]
       => \/ pc[t] = "toggleProtect"
          \/ pc[t] = "toggleLock" /\ poisoned]_vars

-----------------------------------------------------------------------------
(***************************************************************************)
(* Properties for a client that nests its overlapping detours              *)
(***************************************************************************)
\* Among the detours D that cover a cell, x is the content that the newest
\* of them put there (the pristine code if there is none).
TopOf(D, x) ==
  \/ D = {} /\ x = Orig
  \/ x \in D /\ \A e \in D : e = x \/ e \in older[x]

EnabledOver(D, c) == {d \in D : c \in Area[d] /\ Present(d) /\ enabled[d]}

\* Whenever POOL is free, every cell holds the jump of the newest enabled
\* detour that covers it, and its pristine code if none does: enable, disable
\* and drop compose like a stack, through errors and panics.
Faithful ==
  lock = NoThread => \A c \in Cells : TopOf(EnabledOver(Detours, c), code[c])

\* What a detour saved stays what disabling it must bring back: the jump of
\* the newest enabled detour beneath it, for as long as it exists
\* (Patcher::new's copy, made once, used by every later disable).
SavedStaysValid ==
  \A d \in Detours : Present(d) =>
    \A c \in Area[d] : TopOf(EnabledOver(older[d], c), original[d][c])

\* No jump leads nowhere: whatever detour's jump is in the code, in the
\* instruction cache or relocated in a trampoline, that detour exists and
\* still owns the relay the jump goes through (the drop of Detour).
JumpsLeadHome ==
  LET Home(d) == /\ state[d] \in {"live", "dropping"}
                 /\ d \in Far => <<d, "relay">> \in held
  IN /\ \A c \in Cells : \A d \in {code[c], icache[c]} \ {Orig} : Home(d)
     /\ \A e \in Detours : \A c \in Prolog[e] :
          built[e][c] # Orig => Home(built[e][c])

-----------------------------------------------------------------------------
(***************************************************************************)
(* Liveness                                                                *)
(***************************************************************************)
\* POOL is free again and again: no operation keeps it, through any error
\* or panic, and none waits for it while it owns it.
PoolReleased == []<>(lock = NoThread)

\* Once POOL is poisoned every operation under way returns to its client.
PoisonedReturns ==
  \A t \in Threads : poisoned /\ pc[t] # "idle" ~> pc[t] = "idle"

-----------------------------------------------------------------------------
(***************************************************************************)
(* What the repository says, and the code does not do                      *)
(***************************************************************************)
\* "Disables the detour, if enabled." (detour.rs:117, on Drop): no object is
\* gone while its jump is still installed.
DropDisables == \A d \in Detours : state[d] # "dangling"

=============================================================================
