-------------------------------- MODULE X86 --------------------------------
(***************************************************************************)
(* The x86 and x86-64 backends (src/src/arch/x86) and the emitter          *)
(* (src/src/pic): thunks, the builder's treatment of one instruction, and  *)
(* the patch.  Pure operators; Backend puts them to work.                  *)
(***************************************************************************)
EXTENDS CodeLayout, FiniteSets

\* mem::size_of::<JumpRel>() and ::<JumpShort>().
JumpRel   == 5
JumpShort == 2
prolog_margin == JumpRel

-----------------------------------------------------------------------------
(***************************************************************************)
(* thunk/x64.rs: absolute branches through a literal.                      *)
(***************************************************************************)
jmp_abs(dest, home) == <<Code("jmp", 6, "abs", dest, home), Literal(8)>>

call_abs(dest, home, next) ==
  <<Code("call", 6, "abs", dest, home), Code("jmp", 2, "rel", 8, next), Literal(8)>>

\* The inverted condition skips the jump.
jcc_abs(dest, flag, home) ==
  <<[Code("test", 2, "rel", 14, home) EXCEPT !.flag = flag, !.sense = FALSE]>>
    \o jmp_abs(dest, dest)

(***************************************************************************)
(* thunk/x86.rs: relative branches, encoded where they are generated.      *)
(***************************************************************************)
jmp_rel32(dest, home)       == <<Code("jmp", JumpRel, "dest", dest, home)>>
call_rel32(dest, home)      == <<Code("call", JumpRel, "dest", dest, home)>>
jcc_rel32(dest, flag, home) == <<[Code("test", 6, "dest", dest, home) EXCEPT !.flag = flag]>>
\* Mutant of jmp_rel8: the size of the jump itself is forgotten.
jmp_rel8_FromStart(displacement) == <<Code("jmp", JumpShort, "rel", displacement, Lost)>>
jmp_rel8(displacement) == <<Code("jmp", JumpShort, "rel", displacement - JumpShort, Lost)>>

\* thunk/mod.rs: the default architecture.
jmp(x64, dest, home) == IF x64 THEN jmp_abs(dest, home) ELSE jmp_rel32(dest, home)
call(x64, dest, home, next) ==
  IF x64 THEN call_abs(dest, home, next) ELSE call_rel32(dest, home)
jcc(x64, dest, flag, home) ==
  IF x64 THEN jcc_abs(dest, flag, home) ELSE jcc_rel32(dest, flag, home)

-----------------------------------------------------------------------------
(***************************************************************************)
(* pic: a thunk is generated at an address; the emitter lays thunks out    *)
(* one after the other.                                                    *)
(***************************************************************************)
displacement_at(c, a) ==
  IF c.mode = "dest" THEN c.val - (a + c.len) ELSE c.val - a

\* calculate_displacement and handle_rip_relative_instruction assert that
\* the displacement is in range, whatever the latter then writes it over; on
\* x86 it wraps around instead.
generates(x64, c, a) ==
  x64 /\ c.mode \in {"dest", "moved", "spoilt"} => is_within_range(displacement_at(c, a))

\* Mutant of generate: the code is taken as it was made, wherever it goes.
generate_Anywhere(c, a) == c
generate(c, a) ==
  IF c.mode \in {"dest", "moved"}
  THEN [c EXCEPT !.mode = "rel", !.val = Truncated(displacement_at(c, a))]
  ELSE c

emits(x64, s, base) ==
  \A a \in DOMAIN Layout(s, base) : generates(x64, Layout(s, base)[a], a)
emit(s, base) ==
  LET l == Layout(s, base) IN [a \in DOMAIN l |-> generate(l[a], a)]

-----------------------------------------------------------------------------
(***************************************************************************)
(* Builder: what becomes of instruction `i' at `ip'; `total' includes it.  *)
(***************************************************************************)
\* The displacement is written over the last four bytes of the instruction.
\* They hold it unless an immediate follows: then operand and immediate are
\* both spoilt, and what is read is nobody's.
Adjusted(i, ip) ==
  <<[Code(i.op, i.len, IF i.imm = 0 THEN "moved" ELSE "spoilt", i.to - i.len, ip)
       EXCEPT !.flag = i.flag]>>

handle_rip_relative_instruction(i, ip, branch, total) ==
  LET displacement == i.to - ip - i.len
      finished     == i.op = "jmpmem"
  IN  IF displacement \in -total .. -1
      THEN Processed(Copied(i, ip), branch, finished)
      ELSE Processed(Adjusted(i, ip), branch, finished)

\* The condition is the low nibble of the first byte that is not 0x0F; the
\* opcode of jrcxz (0xE3) passes for `above or equal'.
condition(flag) == IF flag = "rcxz" THEN "ae" ELSE flag

handle_relative_branch(x64, i, ip, branch) ==
  CASE i.op = "call" ->
         Processed(call(x64, i.to, ip, ip + i.len), branch, FALSE)
    [] i.op # "call" /\ i.to \in 0 .. prolog_margin - 1 ->
         Processed(Copied(i, ip), i.to, FALSE)
    [] i.op = "test" /\ i.flag = "loop" /\ i.to \notin 0 .. prolog_margin - 1 ->
         UnsupportedInstruction
    [] i.op = "jmp" /\ i.to \notin 0 .. prolog_margin - 1 ->
         Processed(jmp(x64, i.to, ip), branch, ~is_in_branch(ip, branch))
    [] OTHER ->
         Processed(jcc(x64, i.to, condition(i.flag), ip), branch, FALSE)

process_instruction(x64, i, ip, branch, total) ==
  CASE i.op \in {"read", "jmpmem"} ->
         handle_rip_relative_instruction(i, ip, branch, total)
    [] i.op \in {"call", "jmp", "test"} ->
         handle_relative_branch(x64, i, ip, branch)
    [] i.op = "ret" ->
         Processed(Copied(i, ip), branch, ~is_in_branch(ip, branch))
    [] OTHER -> Processed(Copied(i, ip), branch, FALSE)

-----------------------------------------------------------------------------
(***************************************************************************)
(* patcher.rs and meta.rs, for a function at address 0.  `padding' are the *)
(* addresses around it that hold 0x00, 0x90 or 0xCC.                       *)
(***************************************************************************)
is_patchable(prolog_size, patch_size, padding) ==
  prolog_size .. patch_size - 1 \subseteq padding

HotPatch == -JumpRel .. -1

\* The patch area, or nothing (NoPatchArea).
patch_area(prolog_size, padding, executable) ==
  IF is_patchable(prolog_size, JumpRel, padding) THEN 0 .. JumpRel - 1
  ELSE IF /\ is_patchable(prolog_size, JumpShort, padding)
          /\ HotPatch \subseteq padding
          /\ HotPatch \subseteq executable
       THEN -JumpRel .. JumpShort - 1
       ELSE {}

uses_hot_patch(area) == Cardinality(area) > JumpRel
hook_template(detour, area) ==
  jmp_rel32(detour, Lost) \o IF uses_hot_patch(area) THEN jmp_rel8(-JumpRel) ELSE <<>>

\* relay_builder: is a relay required?
needs_relay(x64, detour) == x64 /\ ~is_within_range(0 - detour)
=============================================================================
