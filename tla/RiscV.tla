------------------------------- MODULE RiscV -------------------------------
(***************************************************************************)
(* The RISC-V backend (src/src/arch/riscv).  `word' is the size of an      *)
(* address: 8 on RV64, 4 on RV32.  The scratch register of the thunks is   *)
(* t1.  JAL is a jmp, or a call if it links; AUIPC is an addr; a ret is    *)
(* any JALR that does not link.                                            *)
(***************************************************************************)
EXTENDS CodeLayout

CONSTANT Page   \* what AUIPC counts in (4 KiB), scaled down

prolog_margin == 8
JUMP_SIZE     == 8

\* AUIPC t1, 0; LD t1, 12(t1); JALR rd, t1, 0; dest
jmp_abs(word, dest, home) ==
  <<[Code("jmp", 12, "abs", dest, home) EXCEPT !.flag = "clobbers"], Literal(word)>>
call_abs_rd(word, dest, home) ==
  <<[Code("call", 12, "abs", dest, home) EXCEPT !.flag = "clobbers"], Literal(word)>>

\* JAL rd over the literal, which links its address; LD rd, 0(rd)
li_abs(word, i, home) ==
  <<[Code("addr", 8 + word, "abs", i.to, home) EXCEPT !.flag = i.flag]>>

\* The inverted condition skips the jump.
branch_far(word, i, home) ==
  <<[Code("test", 4, "rel", 12 + word, home) EXCEPT !.flag = i.flag, !.sense = ~i.sense]>>
    \o jmp_abs(word, i.to, i.to)

-----------------------------------------------------------------------------
track_branch(branch, dest) == IF dest > branch THEN dest ELSE branch

process(word, i, pc, branch) ==
  LET internal == i.to \in 0 .. prolog_margin - 1
      ends     == i.op \in {"jmp", "ret"} /\ ~is_in_branch(pc, branch)
  IN  CASE i.flag = "compressed" -> UnsupportedInstruction
        [] i.op \in {"jmp", "call", "test"} /\ internal ->
             Processed(Copied(i, pc), track_branch(branch, i.to), ends)
        [] i.op = "jmp" /\ ~internal -> Processed(jmp_abs(word, i.to, pc), branch, ends)
        [] i.op = "call" /\ ~internal -> Processed(call_abs_rd(word, i.to, pc), branch, FALSE)
        [] i.op = "test" /\ ~internal -> Processed(branch_far(word, i, pc), branch, FALSE)
        [] i.op = "ret" -> Processed(Copied(i, pc), branch, ends)
        [] i.op = "addr" -> Processed(li_abs(word, i, pc), branch, FALSE)
        [] OTHER -> Processed(Copied(i, pc), branch, FALSE)

-----------------------------------------------------------------------------
(***************************************************************************)
(* patcher.rs and meta.rs, for a function at address 0.                    *)
(***************************************************************************)
patch_area(prolog_size, padding) ==
  IF prolog_size .. JUMP_SIZE - 1 \subseteq padding THEN 0 .. JUMP_SIZE - 1 ELSE {}

\* AUIPC t1, hi20; JALR x0, t1, lo12.  Rounding hi20 up may leave the range of
\* an i32, which panics if overflow is checked, and wraps around if not.
rounds(detour) == is_within_range(detour + Page \div 2)
branch_bytes(detour) ==
  LET offset32 == Truncated(detour)
      hi20     == Truncated(offset32 + Page \div 2) \div Page
      lo12     == Truncated(offset32 - hi20 * Page)
  IN  <<Code("jmp", 8, "rel", hi20 * Page + lo12 - 8, Lost)>>

\* DETOUR_RANGE is i32::MAX here, one less than half the reach.
needs_relay(detour) == detour \notin 1 - DETOUR_RANGE .. DETOUR_RANGE - 2
=============================================================================
