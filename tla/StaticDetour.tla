---------------------------- MODULE StaticDetour ----------------------------
(***************************************************************************)
(* One static detour (src/src/detours/statik.rs): two atomic pointers, to  *)
(* a heap-allocated closure and to a heap-allocated GenericDetour, that    *)
(* any number of threads use through a shared reference, while others call *)
(* the hooked function.                                                    *)
(*                                                                         *)
(* Every atomic access is a step of its own; heap cells are allocated once *)
(* and never reused, so that a use after free is visible.  An operation of *)
(* the GenericDetour is one step here: module Detour shows that POOL       *)
(* serialises them.                                                        *)
(***************************************************************************)
EXTENDS Naturals, FiniteSets

CONSTANTS
  Threads,
  Closures,        \* closures the clients pass, one heap cell each
  Boxes,           \* Box<GenericDetour>, one for each call of initialize
  NewFails,        \* may GenericDetour::new and the toggles fail?
  Null

ASSUME StaticAssumption ==
  /\ Null \notin Closures \cup Boxes
  /\ NewFails \in BOOLEAN

VARIABLES
  closure,    \* StaticDetour::closure
  detour,     \* StaticDetour::detour
  heap,       \* the life of each closure: unused, owned, freed
  box,        \* the life of each GenericDetour: unused, owned, static, freed
  enabled,    \* is the hook of this GenericDetour installed?
  pc,
  arg,        \* the closure a thread is to publish, to drop or to run
  own,        \* the box a thread works on
  outcome,    \* how initialize ended for the owner of each box
  misuse      \* what the clients have done that the library does not expect
              \* (history): "early", a toggle before any initialize returned;
              \* "beside", a set_detour beside a hooked call; "panic", a closure
              \* that panics when initialize drops it

vars == <<closure, detour, heap, box, enabled, pc, arg, own, outcome, misuse>>

InitSteps == {"initPublish", "initSwap", "initDrop", "initForget"}
SetSteps  == {"setSwap", "setDrop"}
RunSteps  == {"ffi", "running"}
PCs       == {"idle", "toggle", "original", "panicked"}
               \cup InitSteps \cup SetSteps \cup RunSteps

TypeOK ==
  /\ closure \in Closures \cup {Null}
  /\ detour \in Boxes \cup {Null}
  /\ heap \in [Closures -> {"unused", "owned", "freed"}]
  /\ box \in [Boxes -> {"unused", "owned", "static", "freed"}]
  /\ enabled \in [Boxes -> BOOLEAN]
  /\ pc \in [Threads -> PCs]
  /\ arg \in [Threads -> Closures \cup {Null}]
  /\ own \in [Threads -> Boxes \cup {Null}]
  /\ outcome \in [Boxes -> {"pending", "ok", "error"}]
  /\ misuse \subseteq {"early", "beside", "panic"}

\* StaticDetour::__new
Init ==
  /\ closure = Null
  /\ detour = Null
  /\ heap = [f \in Closures |-> "unused"]
  /\ box = [b \in Boxes |-> "unused"]
  /\ enabled = [b \in Boxes |-> FALSE]
  /\ pc = [t \in Threads |-> "idle"]
  /\ arg = [t \in Threads |-> Null]
  /\ own = [t \in Threads |-> Null]
  /\ outcome = [b \in Boxes |-> "pending"]
  /\ misuse = {}

Goto(t, l) == pc' = [pc EXCEPT ![t] = l]
Leave(t) ==
  /\ Goto(t, "idle")
  /\ arg' = [arg EXCEPT ![t] = Null]
  /\ own' = [own EXCEPT ![t] = Null]

Initialized == \E b \in Boxes : outcome[b] = "ok"

\* The client does something that counts as misuse if `unexpected' holds.
Note(what, unexpected) == misuse' = IF unexpected THEN misuse \cup {what} ELSE misuse

-----------------------------------------------------------------------------
(***************************************************************************)
(* initialize and set_detour                                               *)
(***************************************************************************)
\* GenericDetour::new has succeeded, and the detour is boxed.
InitializeNew(t, f, b) ==
  /\ pc[t] = "idle" /\ heap[f] = "unused" /\ box[b] = "unused"
  /\ heap' = [heap EXCEPT ![f] = "owned"]
  /\ box' = [box EXCEPT ![b] = "owned"]
  /\ arg' = [arg EXCEPT ![t] = f]
  /\ own' = [own EXCEPT ![t] = b]
  /\ Goto(t, "initPublish")
  /\ UNCHANGED <<closure, detour, enabled, outcome, misuse>>

\* GenericDetour::new fails: the closure is dropped with the call.
InitializeError(t, f, b) ==
  /\ NewFails
  /\ pc[t] = "idle" /\ heap[f] = "unused" /\ box[b] = "unused"
  /\ heap' = [heap EXCEPT ![f] = "freed"]
  /\ box' = [box EXCEPT ![b] = "freed"]
  /\ outcome' = [outcome EXCEPT ![b] = "error"]
  /\ UNCHANGED <<closure, detour, enabled, pc, arg, own, misuse>>

\* Mutants of InitializePublish: a store in place of the exchange; the wrong
\* pointer; the closure never set; a loop until the exchange succeeds.
InitializePublish_Store(t) ==
  /\ pc[t] = "initPublish"
  /\ detour' = own[t]
  /\ Goto(t, "initSwap")
  /\ UNCHANGED <<closure, heap, box, enabled, arg, own, outcome, misuse>>
InitializePublish_WrongPointer(t) ==
  /\ pc[t] = "initPublish"
  /\ detour' = IF detour = Null THEN arg[t] ELSE detour
  /\ Goto(t, "initSwap")
  /\ UNCHANGED <<closure, heap, box, enabled, arg, own, outcome, misuse>>
InitializePublish_NoClosure(t) ==
  /\ pc[t] = "initPublish"
  /\ detour = Null
  /\ detour' = own[t]
  /\ Goto(t, "initForget")
  /\ UNCHANGED <<closure, heap, box, enabled, arg, own, outcome, misuse>>
InitializePublish_Spins(t) ==
  /\ pc[t] = "initPublish"
  /\ detour = Null
  /\ detour' = own[t]
  /\ Goto(t, "initSwap")
  /\ UNCHANGED <<closure, heap, box, enabled, arg, own, outcome, misuse>>

\* The compare_exchange.  The loser drops its box and its closure and
\* returns AlreadyInitialized.
InitializePublish(t) ==
  /\ pc[t] = "initPublish"
  /\ IF detour = Null
     THEN /\ detour' = own[t]
          /\ Goto(t, "initSwap")
          /\ UNCHANGED <<heap, box, arg, own, outcome>>
     ELSE /\ heap' = [heap EXCEPT ![arg[t]] = "freed"]
          /\ box' = [box EXCEPT ![own[t]] = "freed"]
          /\ outcome' = [outcome EXCEPT ![own[t]] = "error"]
          /\ Leave(t)
          /\ UNCHANGED detour
  /\ UNCHANGED <<closure, enabled, misuse>>

\* set_detour, called by a client: its closure is boxed ...
SetDetour(t, f) ==
  /\ pc[t] = "idle" /\ heap[f] = "unused"
  /\ heap' = [heap EXCEPT ![f] = "owned"]
  /\ arg' = [arg EXCEPT ![t] = f]
  /\ Goto(t, "setSwap")
  /\ Note("beside", \E u \in Threads : pc[u] \in RunSteps)
  /\ UNCHANGED <<closure, detour, box, enabled, own, outcome>>

\* Mutant of Swap: exchanges with null only, and drops the old one all the same.
Swap_KeepsOld(t) ==
  /\ pc[t] \in {"initSwap", "setSwap"}
  /\ closure' = IF closure = Null THEN arg[t] ELSE closure
  /\ arg' = [arg EXCEPT ![t] = closure]
  /\ Goto(t, IF pc[t] = "initSwap" THEN "initDrop" ELSE "setDrop")
  /\ UNCHANGED <<detour, heap, box, enabled, own, outcome, misuse>>

\* ... and swapped with the previous one ...
Swap(t) ==
  /\ pc[t] \in {"initSwap", "setSwap"}
  /\ closure' = arg[t]
  /\ arg' = [arg EXCEPT ![t] = closure]
  /\ Goto(t, IF pc[t] = "initSwap" THEN "initDrop" ELSE "setDrop")
  /\ UNCHANGED <<detour, heap, box, enabled, own, outcome, misuse>>

\* Mutant of DropPrevious: the previous closure is leaked.
DropPrevious_Leak(t) ==
  /\ pc[t] \in {"initDrop", "setDrop"}
  /\ IF pc[t] = "initDrop"
     THEN Goto(t, "initForget") /\ arg' = [arg EXCEPT ![t] = Null] /\ UNCHANGED own
     ELSE Leave(t)
  /\ UNCHANGED <<closure, detour, heap, box, enabled, outcome, misuse>>

\* ... which is dropped, unless it is null.
DropPrevious(t) ==
  /\ pc[t] \in {"initDrop", "setDrop"}
  /\ heap' = IF arg[t] = Null THEN heap ELSE [heap EXCEPT ![arg[t]] = "freed"]
  /\ IF pc[t] = "initDrop"
     THEN Goto(t, "initForget") /\ arg' = [arg EXCEPT ![t] = Null] /\ UNCHANGED own
     ELSE Leave(t)
  /\ UNCHANGED <<closure, detour, box, enabled, outcome, misuse>>

\* The drop panics inside initialize: unwinding drops the box too, though it is
\* published.  Its drop disables the hook in a build with debug assertions only.
DropPreviousPanics(t) ==
  /\ pc[t] = "initDrop" /\ arg[t] # Null
  /\ heap' = [heap EXCEPT ![arg[t]] = "freed"]
  /\ box' = [box EXCEPT ![own[t]] = "freed"]
  /\ enabled' \in {enabled, [enabled EXCEPT ![own[t]] = FALSE]}
  /\ outcome' = [outcome EXCEPT ![own[t]] = "error"]
  /\ Leave(t)
  /\ Note("panic", TRUE)
  /\ UNCHANGED <<closure, detour>>

\* Mutant of InitializeForget: the box goes out of scope.
InitializeForget_Drops(t) ==
  /\ pc[t] = "initForget"
  /\ box' = [box EXCEPT ![own[t]] = "freed"]
  /\ outcome' = [outcome EXCEPT ![own[t]] = "ok"]
  /\ Leave(t)
  /\ UNCHANGED <<closure, detour, heap, enabled, misuse>>

\* mem::forget: the static keeps the box from here on.
InitializeForget(t) ==
  /\ pc[t] = "initForget"
  /\ box' = [box EXCEPT ![own[t]] = "static"]
  /\ outcome' = [outcome EXCEPT ![own[t]] = "ok"]
  /\ Leave(t)
  /\ UNCHANGED <<closure, detour, heap, enabled, misuse>>

-----------------------------------------------------------------------------
(***************************************************************************)
(* enable, disable, is_enabled, call                                       *)
(***************************************************************************)
\* enable or disable loads the pointer; without a detour it returns
\* NotInitialized.
ToggleLoad(t) ==
  /\ pc[t] = "idle"
  /\ detour # Null
  /\ own' = [own EXCEPT ![t] = detour]
  /\ Goto(t, "toggle")
  /\ Note("early", ~Initialized)
  /\ UNCHANGED <<closure, detour, heap, box, enabled, arg, outcome>>

\* GenericDetour::enable (w = TRUE) or disable.
Toggle(t, w) ==
  /\ pc[t] = "toggle"
  /\ enabled' = [enabled EXCEPT ![own[t]] = w]
  /\ Leave(t)
  /\ UNCHANGED <<closure, detour, heap, box, outcome, misuse>>

ToggleError(t) ==
  /\ NewFails
  /\ pc[t] = "toggle"
  /\ Leave(t)
  /\ UNCHANGED <<closure, detour, heap, box, enabled, outcome, misuse>>

\* StaticDetour::call: the trampoline of the detour is run, or the call
\* panics, as its documentation says.
CallOriginal(t) ==
  /\ pc[t] = "idle"
  /\ detour # Null
  /\ own' = [own EXCEPT ![t] = detour]
  /\ Goto(t, "original")
  /\ UNCHANGED <<closure, detour, heap, box, enabled, arg, outcome, misuse>>

OriginalReturns(t) ==
  /\ pc[t] = "original"
  /\ Leave(t)
  /\ UNCHANGED <<closure, detour, heap, box, enabled, outcome, misuse>>

-----------------------------------------------------------------------------
(***************************************************************************)
(* A call of the hooked function: __ffi_detour, then __detour              *)
(***************************************************************************)
CallTarget(t) ==
  /\ pc[t] = "idle"
  /\ \E b \in Boxes : enabled[b]
  /\ Goto(t, "ffi")
  /\ Note("beside", \E u \in Threads : pc[u] \in SetSteps)
  /\ UNCHANGED <<closure, detour, heap, box, enabled, arg, own, outcome>>

\* The closure is loaded and called; `expect' panics on a null pointer.
LoadClosure(t) ==
  /\ pc[t] = "ffi"
  /\ Goto(t, IF closure = Null THEN "panicked" ELSE "running")
  /\ arg' = [arg EXCEPT ![t] = closure]
  /\ UNCHANGED <<closure, detour, heap, box, enabled, own, outcome, misuse>>

ClosureReturns(t) ==
  /\ pc[t] = "running"
  /\ Leave(t)
  /\ UNCHANGED <<closure, detour, heap, box, enabled, outcome, misuse>>

Step(t) ==
  \/ InitializePublish(t) \/ Swap(t) \/ DropPrevious(t) \/ DropPreviousPanics(t)
  \/ InitializeForget(t)
  \/ \E w \in BOOLEAN : Toggle(t, w)
  \/ ToggleError(t) \/ OriginalReturns(t)
  \/ LoadClosure(t) \/ ClosureReturns(t)

Call(t) ==
  \/ \E f \in Closures, b \in Boxes : InitializeNew(t, f, b) \/ InitializeError(t, f, b)
  \/ \E f \in Closures : SetDetour(t, f)
  \/ ToggleLoad(t) \/ CallOriginal(t) \/ CallTarget(t)

Next == \E t \in Threads : Call(t) \/ Step(t)

Spec == Init /\ [][Next]_vars

\* An operation that has been called keeps running (a closure returns).
FairSpec == Spec /\ \A t \in Threads : WF_vars(Step(t))

-----------------------------------------------------------------------------
(***************************************************************************)
(* Properties                                                              *)
(***************************************************************************)
\* The pointer to the detour is to a detour that is alive, from the moment it
\* is published, and so is the one a thread has loaded: that is what
\* initialize's one exchange and its forget are for, and only a closure that
\* panics in between can defeat them (statik.rs, initialize).
PublishedAlive ==
  "panic" \notin misuse =>
    /\ detour # Null => box[detour] \in {"owned", "static"}
    /\ \A t \in Threads :
         pc[t] \in {"toggle", "original"} => box[own[t]] \in {"owned", "static"}

\* However many threads race to initialize, one wins: every other one is told
\* so and its detour is gone, and a detour that is alive is the published one
\* or still in the hands of the thread that made it.
OneWinner ==
  /\ \A b \in Boxes : outcome[b] = "ok" => detour = b
  /\ \A b \in Boxes : outcome[b] = "error" => box[b] = "freed"
  /\ \A b \in Boxes : box[b] \in {"owned", "static"} =>
       detour = b \/ \E t \in Threads : pc[t] = "initPublish" /\ own[t] = b

\* A closure is neither leaked nor dropped twice, through panics too: one that
\* is alive is the current one or in the hands of exactly one thread, which
\* will publish or drop it (set_detour's swap).
ClosureAccounted ==
  LET Holders(f) == {t \in Threads : pc[t] \in InitSteps \cup SetSteps /\ arg[t] = f}
  IN \A f \in Closures :
       Cardinality(Holders(f)) + (IF closure = f THEN 1 ELSE 0)
         = IF heap[f] = "owned" THEN 1 ELSE 0

\* The closure that a hooked call runs is alive.
RunsAlive == \A t \in Threads : pc[t] = "running" => heap[arg[t]] = "owned"

\* A hooked call runs a closure that is alive, if the clients neither replace
\* closures beside hooked calls nor enable the hook before initialize has
\* returned (__detour's transient reference).
NoUseAfterFree == misuse \cap {"early", "beside"} = {} => RunsAlive

\* A hooked call finds a closure to run and does not panic, if the clients
\* enable the hook only once an initialize has returned (__detour's expect).
HookedHasClosure == "early" \notin misuse => \A t \in Threads : pc[t] # "panicked"

\* An initialize that is under way ends: it takes effect or is refused, whatever
\* the other threads do.  The static has no lock of its own; the detour beneath
\* takes POOL in new and, where the drop of a loser's detour disables, there
\* (builds with debug assertions), and these are steps here: that POOL is
\* released again by everyone is PoolReleased of Detour.
InitializeEnds ==
  \A b \in Boxes : box[b] # "unused" ~> outcome[b] # "pending"

\* "Changes the detour, regardless of whether the hook is enabled or not."
\* (statik.rs:155, on set_detour): replacing a closure is safe beside hooked
\* calls too.
ReplacedSafely == misuse \cap {"early", "panic"} = {} => RunsAlive
=============================================================================
