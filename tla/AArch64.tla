------------------------------ MODULE AArch64 ------------------------------
(***************************************************************************)
(* The AArch64 backend (src/src/arch/aarch64), with the same interface as  *)
(* RiscV and Arm: process, jmp_abs, patch_area, branch_bytes, needs_relay. *)
(* Pure operators; Backend puts them to work.                              *)
(*                                                                         *)
(* Of an instruction's encoding, `flag' tells what the builder tells       *)
(* apart: a test is "cb" (CBZ, CBNZ), "tb" (TBZ, TBNZ) or "cond" (B.cond), *)
(* a read (LDR literal) may be "simd", a ret may be "br" (BR).  The        *)
(* scratch register of the thunks is X16 or X17; they are not told apart.  *)
(***************************************************************************)
EXTENDS CodeLayout

prolog_margin == 4
JUMP_SIZE     == 4

\* LDR X16, #8; BR X16 (or BLR X16); .quad dest
jmp_abs(dest, home) ==
  <<[Code("jmp", 8, "abs", dest, home) EXCEPT !.flag = "clobbers"], Literal(8)>>
call_abs(dest, home) ==
  <<[Code("call", 8, "abs", dest, home) EXCEPT !.flag = "clobbers"], Literal(8)>>

\* MOVZ and three MOVK
mov_imm64(i, home) == <<[Code("addr", 16, "abs", i.to, home) EXCEPT !.flag = i.flag]>>

nop(home) == <<Code("prefetch", 4, "abs", 0, home)>>

\* cbz_far and tbz_far: the inverted condition skips the jump.
cbz_far(i, home) ==
  <<[Code("test", 4, "rel", 16, home) EXCEPT !.flag = i.flag, !.sense = ~i.sense]>>
    \o jmp_abs(i.to, i.to)

\* ldr_literal_64, ldr_literal_32, ldrsw_literal: the address goes through the
\* scratch register.
ldr_literal(i, home) == <<[Code("read", 20, "abs", i.to, home) EXCEPT !.flag = "clobbers"]>>

-----------------------------------------------------------------------------
track_branch(branch, dest) == IF dest > branch THEN dest ELSE branch

process(i, pc, branch) ==
  LET internal == i.to \in 0 .. prolog_margin - 1
      ends     == ~is_in_branch(pc, branch)
  IN  CASE i.op = "jmp" /\ internal ->
             Processed(Copied(i, pc), track_branch(branch, i.to), ends)
        [] i.op = "jmp" /\ ~internal -> Processed(jmp_abs(i.to, pc), branch, ends)
        [] i.op = "call" -> Processed(call_abs(i.to, pc), branch, FALSE)
        [] i.op = "test" /\ i.flag # "cond" /\ internal ->
             Processed(Copied(i, pc), track_branch(branch, i.to), FALSE)
        [] i.op = "test" /\ i.flag # "cond" /\ ~internal ->
             Processed(cbz_far(i, pc), branch, FALSE)
        [] i.op = "addr" -> Processed(mov_imm64(i, pc), branch, FALSE)
        [] i.op = "read" /\ i.flag = "simd" -> UnsupportedInstruction
        [] i.op = "read" /\ i.flag # "simd" -> Processed(ldr_literal(i, pc), branch, FALSE)
        [] i.op = "prefetch" -> Processed(nop(pc), branch, FALSE)
        [] i.op = "ret" /\ i.flag # "br" -> Processed(Copied(i, pc), branch, ends)
        [] OTHER -> Processed(Copied(i, pc), branch, FALSE)

-----------------------------------------------------------------------------
(***************************************************************************)
(* patcher.rs and meta.rs, for a function at address 0.                    *)
(***************************************************************************)
patch_area(prolog_size, padding) ==
  IF prolog_size .. JUMP_SIZE - 1 \subseteq padding THEN 0 .. JUMP_SIZE - 1 ELSE {}

\* B imm26: the displacement is from the branch itself, in as many bits as fit.
branch_bytes(detour) == <<Code("jmp", 4, "rel", Truncated(detour) - 4, Lost)>>

needs_relay(detour) == ~is_within_range(detour)
=============================================================================
