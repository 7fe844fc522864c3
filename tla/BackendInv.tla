---------------------------- MODULE BackendInv ----------------------------
(***************************************************************************)
(* The inductive invariant behind what is proved of the backends.          *)
(***************************************************************************)
EXTENDS Backend

CodeType ==
  [op : Ops, len : Nat, mode : {"abs", "rel", "dest", "moved", "spoilt"}, val : Int,
   flag : Flags, sense : BOOLEAN, home : Int \cup {Lost}, copy : BOOLEAN]

\* The builder goes on only below the margin; what it has made is code.
BuildInv ==
  /\ phase \in {"build", "patch", "emit", "ready", "run", "failed", "panicked"}
  /\ total \in 0 .. prolog_margin + 14
  /\ phase = "build" => total < prolog_margin
  /\ branch \in -1 .. prolog_margin - 1
  /\ finished \in BOOLEAN
  /\ thunks \in Seq(CodeType)

\* The patch and the hook are those of the prolog that the builder left.
HookInv ==
  \/ area = {} /\ hook = <<>> /\ phase \notin {"emit", "ready", "run"}
  \/ /\ phase \notin {"build", "patch"}
     /\ area = PatchArea /\ area # {}
     /\ Hooks /\ hook = X86!emit(Template, PatchStart)

\* The trampoline is in memory of its own.
CodeInv ==
  \/ code = <<>> /\ phase \notin {"ready", "run"}
  \/ /\ phase \in {"ready", "run"}
     /\ code = X86!emit(thunks, world.base)
     /\ DOMAIN code \cap {world.detour, world.relay} = {}

\* The function is called only when it is hooked.
CallInv ==
  /\ hooked \in BOOLEAN /\ entry \in {"none", "trampoline", "function"}
  /\ phase = "run" /\ entry = "function" => hooked
  /\ scratch \in {"none", "set", "junk"}

BackendInvariant ==
  Placed(world, text) /\ BuildInv /\ HookInv /\ CodeInv /\ CallInv

\* What HookLeadsToDetour needs on RV64, see the run BackendReach: rounding the
\* upper part of the displacement up is checked, or stays in range.
Rounding(w) ==
  w.arch = "rv64" =>
    w.checked \/ \A d \in {w.detour, w.relay} : is_within_range(d) => RV!rounds(d)
RoundingChecked == \A c \in Cases : \A w \in c.worlds : Rounding(w)
=============================================================================
