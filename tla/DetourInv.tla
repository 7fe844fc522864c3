----------------------------- MODULE DetourInv ------------------------------
(***************************************************************************)
(* The inductive invariants behind the properties of Detour.  The first    *)
(* group holds for every client; NestInv needs a client that nests its     *)
(* overlapping detours.                                                    *)
(***************************************************************************)
EXTENDS Detour

-----------------------------------------------------------------------------
(***************************************************************************)
(* For every client                                                        *)
(***************************************************************************)
\* POOL is owned by the thread that is inside an operation.
LockInv == \A t \in Threads : pc[t] \in Critical <=> lock = t

\* A thread is at work on an object in the state its step is for, and shares
\* it with another thread only if the object is live.
WorkInv ==
  \A t \in Threads :
    /\ cur[t] = NoDetour <=> pc[t] = "idle"
    /\ pc[t] \in NewSteps \cup {"newLock"} => state[cur[t]] = "building"
    /\ pc[t] \in ToggleSteps \cup {"toggleLock"} => state[cur[t]] \in {"live", "dropping"}
    /\ pc[t] \in {"dropRelay", "dropTrampoline"} => state[cur[t]] = "dropping"

AloneInv ==
  \A t, u \in Threads :
    t # u /\ cur[t] = cur[u] /\ cur[t] # NoDetour => state[cur[t]] = "live"

ControlInv == LockInv /\ WorkInv /\ AloneInv

\* The pages of an area are writable from the protect to the restore, and
\* no other page ever is.
Writing(t) == pc[t] \in {"toggleCopy", "toggleFlush", "toggleRestore"}
ProtInv ==
  /\ \A t \in Threads : Writing(t) =>
       /\ todo[t] \subseteq Area[cur[t]]
       /\ \A p \in Pages : saved[t][p] = "rx"
       /\ \A p \in Pages : prot[p] = IF p \in PagesOf(cur[t]) THEN "rwx" ELSE "rx"
  /\ (\A t \in Threads : ~Writing(t)) => \A p \in Pages : prot[p] = "rx"

\* The trampoline builder and the patcher read the same code.
SnapInv ==
  /\ \A t \in Threads : pc[t] \in {"newRelay", "newPatcher"} => built[cur[t]] = code
  /\ \A t \in Threads : pc[t] = "newTrampoline" => built[cur[t]] = original[cur[t]]
  /\ \A d \in Detours : Present(d) => built[d] = original[d]

\* The instruction cache lags only under a toggle that has yet to flush.
ICacheInv ==
  \A c \in Cells : icache[c] = code[c] \/
    \E t \in Threads : pc[t] \in {"toggleCopy", "toggleFlush"} /\ c \in Area[cur[t]]

\* Nobody owns POOL once it is poisoned: the panic gave it up, and no thread
\* gets it again.
PoisonInv == poisoned => lock = NoThread

\* A toggle that copies has written what it wants wherever it is done, and from
\* the store on the flag is as wanted; what is dropped is to be disabled.
CopyInv ==
  \A t \in Threads : pc[t] = "toggleCopy" =>
    \A c \in Area[cur[t]] \ todo[t] :
      code[c] = IF want[t] THEN cur[t] ELSE original[cur[t]][c]
StoreInv ==
  \A t \in Threads :
    pc[t] \in {"toggleFlush", "toggleRestore", "toggleUnlock"} => enabled[cur[t]] = want[t]
DropInv ==
  \A t \in Threads : cur[t] # NoDetour /\ state[cur[t]] = "dropping" => ~want[t]

\* The blocks that each object has, in every state of its life.
Relay(d)      == <<d, "relay">> \in held
Trampoline(d) == <<d, "trampoline">> \in held
Complete(d)   == Trampoline(d) /\ (Relay(d) <=> d \in Far)
ObjectHeld(d) ==
  /\ state[d] \in {"none", "dangling"} => ~Relay(d) /\ ~Trampoline(d)
  /\ state[d] = "live" => Complete(d)
  /\ state[d] = "dropping" =>
       Complete(d) \/ \E t \in Threads : cur[t] = d /\ pc[t] = "dropTrampoline"
ThreadHeld(t) ==
  /\ pc[t] \in NewSteps \cup {"newLock"} => ~Trampoline(cur[t])
  /\ pc[t] \in {"newLock", "newPrepare", "newRelay"} => ~Relay(cur[t])
  /\ pc[t] \in {"newPatcher", "newTrampoline"} => (Relay(cur[t]) <=> cur[t] \in Far)
  /\ pc[t] = "dropTrampoline" => ~Relay(cur[t])
HeldInv == (\A d \in Detours : ObjectHeld(d)) /\ \A t \in Threads : ThreadHeld(t)

AnyInv == TypeOK /\ ControlInv /\ ProtInv /\ SnapInv /\ ICacheInv

\* A toggle as its flag sees it.
OrderedInv == CopyInv /\ StoreInv /\ DropInv

\* The flag differs from what a toggle wants until the store, and is set for present
\* detours only.
WantInv == \A t \in Threads :
             pc[t] \in {"toggleProtect", "toggleCopy"} => enabled[cur[t]] # want[t]
FlagInv == WantInv /\ \A d \in Detours : enabled[d] => Present(d)

\* The flags, the toggles under way and the blocks.
ObjectInv == FlagInv /\ OrderedInv /\ HeldInv

-----------------------------------------------------------------------------
(***************************************************************************)
(* For a client that nests                                                 *)
(***************************************************************************)
\* In the middle of a toggle a cell that has been copied is ahead of the flag.
Copied(d, c) == \E t \in Threads : /\ pc[t] = "toggleCopy" /\ cur[t] = d
                                   /\ c \notin todo[t]
On(d, c)     == IF Copied(d, c) THEN ~enabled[d] ELSE enabled[d]
OnOver(D, c) == {d \in D : c \in Area[d] /\ Present(d) /\ On(d, c)}

\* A detour has saved the code: it is present, or about to be.
Captured(d) == Present(d) \/ \E t \in Threads : pc[t] = "newTrampoline" /\ cur[t] = d

\* `older' orders the overlapping detours.
OrderInv ==
  /\ \A d \in Detours : \A e \in older[d] :
       Captured(d) /\ Present(e) /\ Overlap(d, e) /\ d \notin older[e]
  /\ \A d, e \in Detours :
       Captured(d) /\ Present(e) /\ Overlap(d, e) => e \in older[d] \/ d \in older[e]

\* What is being worked on overlaps nothing else that is, and what is being
\* toggled or dropped is the newest.
QuietInv ==
  /\ \A t, u \in Threads :
       cur[t] # NoDetour /\ cur[u] # NoDetour => ~Overlap(cur[t], cur[u])
  /\ \A t \in Threads :
       pc[t] \in ToggleSteps \cup {"toggleLock", "dropRelay", "dropTrampoline"}
         => Newest(cur[t])

CodeInv  == \A c \in Cells : TopOf(OnOver(Detours, c), code[c])
SavedInv == \A d \in Detours : Captured(d) =>
              \A c \in Area[d] : TopOf(OnOver(older[d], c), original[d][c])

\* The stack of overlapping detours, in every state of every toggle: each
\* cell holds the jump of the newest detour that is on over it, and each
\* detour has saved the jump of the newest one beneath.
StackInv == OrderInv /\ CodeInv /\ SavedInv
NestInv  == FlagInv /\ QuietInv /\ StackInv

\* Where every drop disables: the build has no debug assertions, so that the
\* nesting client disables first; or it has, and nothing makes the disable fail.
DropsDisabled == DebugAssertions => Failures \cap {"protect", "emit"} = {}

\* Nothing dangles: a drop frees the blocks of a disabled detour only.
TidyObject(d) ==
  /\ state[d] # "dangling"
  /\ state[d] = "dropping" => \E t \in Threads : cur[t] = d
TidyThread(t) ==
  /\ pc[t] \in {"dropRelay", "dropTrampoline"} => ~enabled[cur[t]]
  /\ pc[t] \in ToggleSteps \cup {"toggleLock"} /\ state[cur[t]] = "dropping"
       => DebugAssertions
TidyInv ==
  /\ poisoned => "emit" \in Failures
  /\ \A d \in Detours : TidyObject(d)
  /\ \A t \in Threads : TidyThread(t)

\* The instruction cache holds the code as it is or, under a toggle that has yet
\* to flush, as it was before.
StaleInv ==
  \A c \in Cells : icache[c] = code[c] \/
    \E t \in Threads : /\ pc[t] \in {"toggleCopy", "toggleFlush"}
                       /\ c \in Area[cur[t]]
                       /\ icache[c] \in {cur[t], original[cur[t]][c]}

\* A jump that a trampoline has relocated is that of an older detour, which is
\* enabled and stays so.
Building(e)      == \E t \in Threads : cur[t] = e /\ pc[t] \in {"newRelay", "newPatcher"}
Beneath(x, e, c) == /\ x \in Detours /\ x # e /\ c \in Area[x]
                    /\ enabled[x] /\ state[x] = "live"
                    /\ x \in older[e] \/ Building(e)
BuiltInv ==
  \A e \in Detours : \A c \in Prolog[e] :
    built[e][c] # Orig => Beneath(built[e][c], e, c)

HomeInv == TidyInv /\ StaleInv /\ BuiltInv
=============================================================================
