----------------------------- MODULE StaticInv ------------------------------
(***************************************************************************)
(* The inductive invariants behind the properties of StaticDetour: who     *)
(* owns a box, who owns a closure, and what a hooked call can rely on.     *)
(***************************************************************************)
EXTENDS StaticDetour

Winning == {"initSwap", "initDrop", "initForget"}

\* A thread inside initialize owns a box that nobody has judged yet; it is the
\* published one from the exchange on.  What the others have loaded is the
\* published one too.
OwnerInv ==
  \A t \in Threads :
    /\ pc[t] \in InitSteps =>
         own[t] \in Boxes /\ box[own[t]] = "owned" /\ outcome[own[t]] = "pending"
    /\ pc[t] \in Winning => detour = own[t]
    /\ pc[t] = "initPublish" => detour # own[t]
    /\ pc[t] \in {"toggle", "original"} => own[t] = detour /\ detour # Null

\* A box has one owner while it is owned, and the static keeps only what is
\* published.
BoxInv ==
  /\ \A t, u \in Threads :
       pc[t] \in InitSteps /\ pc[u] \in InitSteps /\ own[t] = own[u] => t = u
  /\ \A b \in Boxes :
       /\ box[b] = "owned" => \E t \in Threads : pc[t] \in InitSteps /\ own[t] = b
       /\ box[b] = "static" => detour = b
       /\ box[b] = "unused" => detour # b /\ outcome[b] = "pending"
       /\ outcome[b] = "ok" => box[b] = "static"
       /\ outcome[b] = "error" => box[b] = "freed"
  /\ "panic" \notin misuse /\ detour # Null => box[detour] \in {"owned", "static"}

\* A closure that is alive is the current one or in the hands of one thread.
Holds(t, f) == pc[t] \in InitSteps \cup SetSteps /\ arg[t] = f
ClosureInv ==
  /\ \A t \in Threads : pc[t] \in {"initPublish", "initSwap", "setSwap"} => arg[t] # Null
  /\ \A t \in Threads : pc[t] = "initForget" => arg[t] = Null
  /\ \A f \in Closures : heap[f] = "owned" <=> closure = f \/ \E t \in Threads : Holds(t, f)
  /\ \A f \in Closures, t \in Threads : Holds(t, f) => closure # f
  /\ \A f \in Closures, t, u \in Threads : Holds(t, f) /\ Holds(u, f) => t = u

\* Once there has been a closure there always is one.
SetInv ==
  /\ \A t \in Threads : pc[t] \in {"initDrop", "initForget", "setDrop"} => closure # Null
  /\ Initialized => closure # Null

\* Unless a client enables it early, the hook waits for initialize to return.
EarlyInv ==
  "early" \notin misuse =>
    /\ \A b \in Boxes : enabled[b] => Initialized
    /\ \A t \in Threads : pc[t] \in RunSteps \cup {"toggle"} => Initialized
    /\ \A t \in Threads : pc[t] # "panicked"

\* Unless a client sets closures beside hooked calls, a call runs the current one.
BesideInv ==
  /\ "beside" \notin misuse =>
       \A t, u \in Threads : ~(pc[t] \in SetSteps /\ pc[u] \in RunSteps)
  /\ misuse \cap {"early", "beside"} = {} =>
       \A t \in Threads : pc[t] = "running" => arg[t] = closure /\ closure # Null

PointerInv == TypeOK /\ OwnerInv /\ BoxInv /\ ClosureInv
StaticInvariant == PointerInv /\ SetInv /\ EarlyInv /\ BesideInv
=============================================================================
