------------------------------ MODULE Backend ------------------------------
(***************************************************************************)
(* A function is detoured and called: Trampoline::new one instruction at a *)
(* time, Patcher::new, the emission of the trampoline, all as Detour::new  *)
(* calls them, and then the processor running what they made: from the     *)
(* trampoline, hooked or not, or from the hooked function itself.  The     *)
(* builder's loop is much the same in the four backends; what differs is   *)
(* in their modules.                                                       *)
(*                                                                         *)
(* The function starts at address 0.  What the compiler made of it, what   *)
(* surrounds it, and where the client and the allocator put things is any  *)
(* of `Cases'.                                                             *)
(***************************************************************************)
EXTENDS CodeLayout, FiniteSets

CONSTANTS
  Caller,
  Page,        \* see RiscV
  Cases,       \* records of a set of worlds and a set of texts, see below
  Relocatable  \* are only trampolines called that the builder relocates right?

VARIABLES
  world,     \* the architecture (arch), what is above and below the function,
             \* the addresses of the detour, the relay and the trampoline (base),
             \* and whether the build checks for overflow (checked)
  text,      \* the function, from addresses to instructions
  phase,     \* build, patch, emit, ready, run; failed and panicked are ends
  total,     \* Builder::total_bytes_disassembled, then prolog_size
  branch,    \* Builder::branch_address, -1 for None
  finished,  \* Builder::finished
  thunks,    \* CodeEmitter::thunks, flat
  area,      \* Patcher::patch_area
  hook,      \* Patcher::detour_prolog
  code,      \* the trampoline's bytes, from addresses to instructions
  hooked,    \* is the detour enabled?
  entry,     \* what was called: the trampoline or the function
  pc, event, \* see Processor
  scratch    \* the register that thunks use: "none", "set" by the function, or
             \* "junk", overwritten by generated code since

INSTANCE Processor
X86 == INSTANCE X86
A64 == INSTANCE AArch64
RV  == INSTANCE RiscV
A32 == INSTANCE Arm

built == <<total, branch, finished, thunks>>
made  == <<area, hook, code>>
cpu   == <<pc, event, scratch>>
vars  == <<world, text, phase, built, made, hooked, entry, cpu>>

(***************************************************************************)
(* What is assumed of the cases.  A function's instructions are no longer  *)
(* than x86's.  The detour and the relay are elsewhere; the relay is where *)
(* the allocator puts it (BlockAllocator!Reaches), and where addresses     *)
(* have 32 bits the detour's has no more.                                  *)
(***************************************************************************)
Narrow == {"x86", "rv32", "arm", "thumb"}
WorldType ==
  [arch : {"x64", "a64", "rv64"} \cup Narrow, above : {"pad", "data", "code"},
   below : {"pad", "code"}, base : Int, detour : Int, relay : Int, checked : BOOLEAN]
Ops ==
  {"plain", "nop", "prefetch", "read", "jmpmem", "addr", "call", "jmp", "test", "ret",
   "retif", "data", "bad"}
Flags ==
  {"none", "cc", "ae", "loop", "rcxz", "cb", "tb", "cond", "simd", "br", "rm",
   "compressed", "sets", "uses", "clobbers"}
InstructionType ==
  [op : Ops, len : 1 .. 15, to : Int, flag : Flags, sense : BOOLEAN, imm : Nat]

Placed(w, t) ==
  /\ w \in WorldType
  /\ DOMAIN t \subseteq Nat /\ t \in [DOMAIN t -> InstructionType]
  /\ {w.detour, w.relay} \cap (DOMAIN t \cup -X86!JumpRel .. 16) = {}
  /\ is_within_range(w.relay)
  /\ w.arch \in Narrow => is_within_range(w.detour)

ASSUME BackendAssumption ==
  /\ DETOUR_RANGE \in Nat /\ DETOUR_RANGE > 16
  /\ Page \in 1 .. DETOUR_RANGE
  /\ Caller \notin Int /\ Lost \notin Int
  /\ \A c \in Cases : \A w \in c.worlds, t \in c.texts : Placed(w, t)

X64   == world.arch = "x64"
Intel == world.arch \in {"x64", "x86"}
Riscv == world.arch \in {"rv64", "rv32"}
Word  == IF world.arch = "rv64" THEN 8 ELSE 4

\* What the backend of the architecture does; a Thumb function is refused.
prolog_margin ==
  CASE Intel -> X86!prolog_margin [] world.arch = "a64" -> A64!prolog_margin
    [] Riscv -> RV!prolog_margin  [] OTHER -> A32!prolog_margin
process(i, ip, br, tot) ==
  CASE Intel -> X86!process_instruction(X64, i, ip, br, tot)
    [] world.arch = "a64" -> A64!process(i, ip, br)
    [] Riscv -> RV!process(Word, i, ip, br)
    [] world.arch = "arm" -> A32!process(i, ip, br)
    [] world.arch = "thumb" -> UnsupportedInstruction
jmp(dest, home) ==
  CASE Intel -> X86!jmp(X64, dest, home) [] world.arch = "a64" -> A64!jmp_abs(dest, home)
    [] Riscv -> RV!jmp_abs(Word, dest, home) [] OTHER -> A32!jmp_abs(dest, home)

Prolog    == {a \in DOMAIN text : a < total}
Branches  == {a \in DOMAIN text : text[a].op \in {"jmp", "test"}}
Reads     == {a \in DOMAIN text : text[a].op \in {"read", "jmpmem"}}

Init ==
  /\ \E c \in Cases : world \in c.worlds /\ text \in c.texts
  /\ phase = "build"
  /\ total = 0 /\ branch = -1 /\ finished = FALSE /\ thunks = <<>>
  /\ area = {} /\ hook = <<>> /\ code = <<>>
  /\ hooked = FALSE /\ entry = "none"
  /\ pc = Caller /\ event = <<"start">> /\ scratch = "none"

-----------------------------------------------------------------------------
(***************************************************************************)
(* Builder::build                                                          *)
(***************************************************************************)
End == CHOOSE e \in {a + text[a].len : a \in DOMAIN text} :
         \A a \in DOMAIN text : a + text[a].len <= e

\* What follows the function is padding or some other code.
Decoded(a) ==
  IF a \in DOMAIN text THEN text[a]
  ELSE [op |-> IF world.below = "pad" THEN "nop" ELSE "plain",
        len |-> IF Intel THEN 1 ELSE 4, to |-> 0, flag |-> "none", sense |-> TRUE, imm |-> 0]

\* Mutant: an instruction inside a branch may grow.
Misplaced_Never(p, i, ip) == FALSE
Misplaced(p, i, ip) ==
  /\ world.arch # "arm"
  /\ is_in_branch(ip, p.branch) /\ Size(p.thunk) # i.len

BuildInstruction ==
  LET i    == Decoded(total)
      next == total + i.len
      p    == process(i, total, branch, next)
  IN  /\ phase = "build"
      /\ i.op # "bad"
      /\ p.ok /\ ~Misplaced(p, i, total)
      /\ total' = next
      /\ branch' = p.branch
      /\ finished' = (p.finished \/ next >= prolog_margin)
      /\ thunks' = thunks \o p.thunk
                     \o IF next >= prolog_margin /\ ~p.finished
                        THEN jmp(next, next) ELSE <<>>
      /\ phase' = IF finished' THEN "patch" ELSE "build"
      /\ UNCHANGED <<world, text, made, hooked, entry, cpu>>

\* An instruction that cannot be decoded ends the loop, not the building.  Only
\* x86 decodes.
BuildInvalid ==
  /\ phase = "build"
  /\ Decoded(total).op = "bad"
  /\ phase' = "patch"
  /\ UNCHANGED <<world, text, built, made, hooked, entry, cpu>>

BuildUnsupported ==
  LET i == Decoded(total)
      p == process(i, total, branch, total + i.len)
  IN  /\ phase = "build"
      /\ i.op # "bad"
      /\ ~p.ok \/ Misplaced(p, i, total)
      /\ phase' = "failed"
      /\ UNCHANGED <<world, text, built, made, hooked, entry, cpu>>

-----------------------------------------------------------------------------
(***************************************************************************)
(* Patcher::new, with the relay if there is one.                           *)
(***************************************************************************)
Nops == UNION {a .. a + text[a].len - 1 : a \in {b \in DOMAIN text : text[b].op = "nop"}}
Padding ==
  (IF world.above \in {"pad", "data"} THEN X86!HotPatch ELSE {})
    \cup Nops
    \cup (IF world.below = "pad" THEN End .. End + prolog_margin ELSE {})
Executable == IF world.above = "data" THEN {} ELSE X86!HotPatch
PatchArea  ==
  CASE Intel -> X86!patch_area(total, Padding, Executable)
    [] world.arch = "a64" -> A64!patch_area(total, Padding)
    [] Riscv -> RV!patch_area(total, Padding)
    [] OTHER -> A32!patch_area(total, Padding)

NeedsRelay ==
  CASE Intel -> X86!needs_relay(X64, world.detour)
    [] world.arch = "a64" -> A64!needs_relay(world.detour)
    [] Riscv -> RV!needs_relay(world.detour)
    [] OTHER -> FALSE
HookTarget == IF NeedsRelay THEN world.relay ELSE world.detour
Template ==
  CASE Intel -> X86!hook_template(HookTarget, PatchArea)
    [] world.arch = "a64" -> A64!branch_bytes(HookTarget)
    [] Riscv -> RV!branch_bytes(HookTarget)
    [] OTHER -> A32!hook_bytes(HookTarget)
PatchStart == IF Intel /\ X86!uses_hot_patch(PatchArea) THEN -X86!JumpRel ELSE 0

\* Is the hook generated without a failed assertion or a checked overflow?
Hooks ==
  /\ X86!emits(X64, Template, PatchStart)
  /\ Riscv /\ world.checked => RV!rounds(HookTarget)

NoPatchArea ==
  /\ phase = "patch"
  /\ PatchArea = {}
  /\ phase' = "failed"
  /\ UNCHANGED <<world, text, built, made, hooked, entry, cpu>>

NewPatcher ==
  /\ phase = "patch"
  /\ PatchArea # {}
  /\ Hooks
  /\ area' = PatchArea
  /\ hook' = X86!emit(Template, PatchStart)
  /\ phase' = "emit"
  /\ UNCHANGED <<world, text, built, code, hooked, entry, cpu>>

\* allocate_pic; the memory it gets is nobody else's (BlockAllocator).
EmitTrampoline ==
  /\ phase = "emit"
  /\ DOMAIN X86!emit(thunks, world.base)
       \cap (DOMAIN text \cup area \cup {world.detour, world.relay}) = {}
  /\ X86!emits(X64, thunks, world.base)
  /\ code' = X86!emit(thunks, world.base)
  /\ phase' = "ready"
  /\ UNCHANGED <<world, text, built, area, hook, hooked, entry, cpu>>

\* With POOL locked.
Panic ==
  /\ \/ phase = "patch" /\ PatchArea # {} /\ ~Hooks
     \/ phase = "emit" /\ ~X86!emits(X64, thunks, world.base)
  /\ phase' = "panicked"
  /\ UNCHANGED <<world, text, built, made, hooked, entry, cpu>>

-----------------------------------------------------------------------------
(***************************************************************************)
(* The functions that the backend relocates right: what it does not check, *)
(* and its client cannot either.                                           *)
(***************************************************************************)
Thunk(a)    == process(text[a], a, -1, a + text[a].len).thunk
Grows(a)    == Size(Thunk(a)) # text[a].len
Internal(a) == text[a].to \in 0 .. prolog_margin - 1

\* x86: no undecodable bytes in the prolog; no RIP operand with an immediate
\* behind it; no jrcxz to the outside.  The others: no call in the prolog (its
\* copy returns into the literal, or calls the copy); no jump forward inside
\* the prolog (it ends the trampoline).  AArch64: no B.cond to the outside.
\* ARM: no conditional branch to the outside, no conditional return, and none
\* of the operands relative to PC that the builder does not recognise.
Known(i, a) ==
  CASE Intel ->
         /\ i.op \in {"read", "jmpmem"} => i.imm = 0 \/ i.to \in 0 .. a
         /\ i.flag = "rcxz" => Internal(a)
    [] world.arch = "a64" -> i.op # "call" /\ (i.flag = "cond" => Internal(a))
    [] Riscv -> i.op # "call" /\ (i.op = "jmp" /\ Internal(a) => i.to <= a)
    [] OTHER -> i.op \in {"plain", "nop", "jmp", "ret"} \/ (i.op = "test" /\ Internal(a))
KnownEncodings == finished /\ \A a \in Prolog : Known(text[a], a)

\* Nothing grows between a backward branch, or a read of the prolog, and what
\* it refers to.
BackwardSafe ==
  \A a \in Prolog : \A b \in Prolog :
    /\ text[a].op \in {"jmp", "test", "read", "jmpmem"}
    /\ text[a].to \in 0 .. a /\ b < a /\ text[a].to < b + text[b].len
    => ~Grows(b)

\* What remains of the function does not use the bytes that are patched.
NotReentered ==
  /\ \A a \in Branches \ Prolog : text[a].to \notin area
  /\ \A a \in Reads : text[a].to \in area =>
       Intel /\ a \in Prolog /\ text[a].to < a + text[a].len

\* What the prolog puts into the scratch register is not used after it.
ScratchFree ==
  \A a \in Prolog : \A b \in DOMAIN text \ Prolog :
    ~(text[a].flag = "sets" /\ text[b].flag = "uses")

Supported == KnownEncodings /\ BackwardSafe /\ NotReentered /\ ScratchFree

\* The client enables the detour or not, and calls the trampoline or, if it
\* is enabled, the function.
Call ==
  /\ phase = "ready"
  /\ hooked' \in BOOLEAN
  /\ entry' \in {"trampoline"} \cup IF hooked' THEN {"function"} ELSE {}
  /\ Relocatable /\ entry' = "trampoline" => Supported
  /\ pc' = IF entry' = "trampoline" THEN world.base ELSE 0
  /\ phase' = "run"
  /\ UNCHANGED <<world, text, built, made, event, scratch>>

-----------------------------------------------------------------------------
(***************************************************************************)
(* The processor (external) and the memory it runs from.                   *)
(***************************************************************************)
Block == world.base .. world.base + Size(thunks)

\* The code at an address: the patch hides what is under it.
Fetchable(a) ==
  \/ hooked /\ a \in DOMAIN hook
  \/ ~(hooked /\ a \in area) /\ a \in DOMAIN code \cup DOMAIN text
  \/ NeedsRelay /\ a = world.relay
Fetch(a) ==
  IF hooked /\ a \in DOMAIN hook THEN hook[a]
  ELSE IF a \in DOMAIN code THEN code[a]
  ELSE IF a \in DOMAIN text THEN Copied(text[a], a)[1]
  ELSE jmp(world.detour, Lost)[1]

\* Where addresses have 32 bits the program counter wraps around.
Wrapped(a) == IF world.arch \in {"x64", "a64", "rv64"} THEN a ELSE Truncated(a)
Operand(c, a) == IF c.mode = "abs" THEN c.val ELSE Wrapped(a + c.len + c.val)

\* What a memory operand denotes: a copied byte is as good as the original.
Load(c, a) ==
  LET x    == Operand(c, a)
      from == {b \in DOMAIN code : b <= x /\ x < b + code[b].len /\ code[b].copy}
  IN  IF c.mode = "spoilt" THEN <<"unknown", 0>>
      ELSE IF hooked /\ x \in area THEN <<"patch", x>>
      ELSE IF from # {} THEN <<"byte", code[CHOOSE b \in from : TRUE].home
                                         + x - (CHOOSE b \in from : TRUE)>>
      ELSE <<"byte", x>>

\* What an instruction does with a register that is not the function's is not
\* what the function does.
Spoilt(c) == c.flag = "uses" /\ scratch = "junk"
Done(c)   == IF Spoilt(c) THEN Lost ELSE c.home

Run ==
  /\ phase = "run"
  /\ pc # Caller /\ Fetchable(pc)
  /\ Execute(Fetch(pc), Done(Fetch(pc)), pc, Operand(Fetch(pc), pc), Load(Fetch(pc), pc))
  /\ scratch' = CASE Fetch(pc).flag = "sets" -> "set"
                  [] Fetch(pc).flag = "clobbers" /\ scratch = "set" -> "junk"
                  [] OTHER -> scratch
  /\ UNCHANGED <<world, text, phase, built, made, hooked, entry>>

Next ==
  \/ BuildInstruction \/ BuildInvalid \/ BuildUnsupported
  \/ NoPatchArea \/ NewPatcher \/ EmitTrampoline \/ Panic
  \/ Call \/ Run

Spec == Init /\ [][Next]_vars

-----------------------------------------------------------------------------
(***************************************************************************)
(* Properties                                                              *)
(***************************************************************************)
\* The builder stops within an instruction of the margin (build); the patch
\* has one of the shapes of patch_area; the hook and the trampoline are
\* code that has been given its address.
TypeOK ==
  /\ phase \in {"build", "patch", "emit", "ready", "run", "failed", "panicked"}
  /\ total \in 0 .. prolog_margin + 14
  /\ branch \in -1 .. prolog_margin - 1
  /\ finished \in BOOLEAN /\ hooked \in BOOLEAN
  /\ entry \in {"none", "trampoline", "function"}
  /\ scratch \in {"none", "set", "junk"}
  /\ area \in {{}, 0 .. prolog_margin - 1, -X86!JumpRel .. X86!JumpShort - 1}
  /\ \A a \in DOMAIN hook : hook[a].mode \in {"abs", "rel"}
  /\ \A a \in DOMAIN code : code[a].mode \in {"abs", "rel", "spoilt"}

\* Where the original function is while the trampoline runs.
OriginalAt ==
  IF phase # "run" \/ entry = "function" THEN 0
  ELSE IF pc = Caller THEN Caller
  ELSE IF pc \in DOMAIN code THEN code[pc].home
  ELSE IF pc \in Block \/ (hooked /\ pc \in area) THEN Lost
  ELSE pc

O == INSTANCE Original WITH
       at <- OriginalAt, event <- IF entry = "function" THEN <<"start">> ELSE event

\* Called through the trampoline, hooked or not, a function does what it does
\* unhooked: the same instructions on the same operands, the same calls, the
\* same branches on the same conditions, and it never leaves the code (the
\* trampoline of Detour::trampoline, README.md: "allows the original function
\* to be called using a trampoline whilst hooked").
RunsAsOriginal == O!Spec

\* A memory operand that is relative to RIP denotes in the trampoline what it
\* denotes in the function (handle_rip_relative_instruction; lib.rs lists
\* "RIP relative operands" among the edge cases that are handled).
OperandsKept ==
  phase = "run" /\ event[1] \in {"read", "jump"} =>
    event[3] = <<"byte", text[event[2]].to>>

\* Called while it is hooked, a function runs nothing but the patch, and the
\* relay if there is one, on its way to the detour (Patcher::hook_template,
\* relay_builder).
HookLeadsToDetour ==
  phase = "run" /\ entry = "function" =>
    \/ pc \in DOMAIN hook \cup {world.detour}
    \/ NeedsRelay /\ pc = world.relay

\* Whatever the trampoline runs is code of the function or stands for it; it
\* never runs into a literal or past its end (arch/mod.rs: the trampoline is a
\* "callable stub to the original target").
StaysInCode == OriginalAt # Lost

\* An instruction that uses the scratch register of the thunks finds what the
\* function put there (riscv/thunk/mod.rs: "clobbering it is always ABI-safe").
ScratchKept == phase = "run" /\ pc # Caller /\ Fetchable(pc) => ~Spoilt(Fetch(pc))

\* The patch covers nothing but instructions of which the trampoline has a copy,
\* and padding: no byte of a neighbour, whatever the length of the function
\* (Patcher::patch_area of every backend).
NeighboursKept ==
  \A b \in area :
    \/ b \in 0 .. total - 1
    \/ b < 0 /\ world.above = "pad"
    \/ b >= End /\ world.below = "pad"
    \/ \E a \in DOMAIN text : text[a].op = "nop" /\ b \in a .. a + text[a].len - 1
=============================================================================
