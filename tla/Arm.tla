-------------------------------- MODULE Arm --------------------------------
(***************************************************************************)
(* The ARM backend (src/src/arch/arm), ARM state.  `flag' tells what the   *)
(* builder tells apart: a read is LDR Rd, [PC] or "simd" (VLDR), an addr   *)
(* is data processing on PC as its first operand or as its second ("rm");  *)
(* a jmpmem is LDR PC, [PC]; ret and retif are BX, MOV PC and LDM with PC. *)
(***************************************************************************)
EXTENDS CodeLayout

prolog_margin == 8
JUMP_SIZE     == 8

\* LDR PC, [PC, #-4]; .word dest
jmp_abs(dest, home) == <<Code("jmp", 4, "abs", dest, home), Literal(4)>>

track_branch(branch, dest) == IF dest > branch THEN dest ELSE branch

\* A branch to the outside loses its condition.
process(i, pc, branch) ==
  LET internal == i.to \in 0 .. prolog_margin - 1
  IN  CASE i.op \in {"jmp", "test", "call"} /\ internal ->
             Processed(Copied(i, pc), track_branch(branch, i.to), FALSE)
        [] i.op = "call" /\ ~internal -> UnsupportedInstruction
        [] i.op \in {"jmp", "test"} /\ ~internal ->
             Processed(jmp_abs(i.to, pc), branch, FALSE)
        [] i.op \in {"ret", "retif"} ->
             Processed(Copied(i, pc), branch, ~is_in_branch(pc, branch))
        [] i.op = "read" /\ i.flag # "simd" -> UnsupportedInstruction
        [] i.op = "addr" /\ i.flag # "rm" -> UnsupportedInstruction
        [] OTHER -> Processed(Copied(i, pc), branch, FALSE)

\* Mutant: the padding is not looked at.
patch_area_Always(prolog_size, padding) == 0 .. JUMP_SIZE - 1
patch_area(prolog_size, padding) ==
  IF prolog_size .. JUMP_SIZE - 1 \subseteq padding THEN 0 .. JUMP_SIZE - 1 ELSE {}

hook_bytes(detour) == jmp_abs(detour, Lost)
=============================================================================
