--------------------------- MODULE BackendProofs ---------------------------
(***************************************************************************)
(* What is proved of the backends: for every reach of the patch, every     *)
(* function and every place of the detour, the relay and the trampoline.   *)
(***************************************************************************)
EXTENDS BackendInv, FiniteSetTheorems, TLAPS

-----------------------------------------------------------------------------
(***************************************************************************)
(* The margin of each architecture                                         *)
(***************************************************************************)
Margins == 4 .. 8

\* The prolog is at least a branch long, and no longer than the longest.
LEMMA MarginType ==
  ASSUME world \in WorldType
  PROVE  /\ prolog_margin \in Margins /\ prolog_margin \in Nat
         /\ Intel => prolog_margin = 5
         /\ world.arch = "a64" => prolog_margin = 4
         /\ Riscv \/ world.arch \in {"arm", "thumb"} => prolog_margin = 8
  BY DEF prolog_margin, Margins, Intel, Riscv, WorldType, Narrow, X86!prolog_margin,
         X86!JumpRel, A64!prolog_margin, RV!prolog_margin, A32!prolog_margin

-----------------------------------------------------------------------------
(***************************************************************************)
(* What the builders make of an instruction is code                        *)
(***************************************************************************)
\* The records that the builders return.
ProcessedType(margin) ==
  [ok : BOOLEAN, thunk : Seq(CodeType), branch : -1 .. margin - 1, finished : BOOLEAN]

\* An instruction that is made at an address of the function, or nowhere, is code.
LEMMA CodeTyped ==
  ASSUME NEW op \in Ops, NEW len \in Nat, NEW val \in Int, NEW home \in Int \cup {Lost},
         NEW mode \in {"abs", "rel", "dest", "moved", "spoilt"}
  PROVE  Code(op, len, mode, val, home) \in CodeType
  BY DEF Code, CodeType, Flags

\* A copy of an instruction is code.
LEMMA CopiedTyped ==
  ASSUME NEW i \in InstructionType, NEW ip \in Int
  PROVE  Copied(i, ip) \in Seq(CodeType)
<1>1. i.op \in Ops /\ i.len \in Nat /\ i.to \in Int /\ i.flag \in Flags /\ i.sense \in BOOLEAN
  BY DEF InstructionType
<1>2. Code(i.op, i.len, "rel", i.to - (ip + i.len), ip) \in CodeType
  BY <1>1, CodeTyped
<1>3. [Code(i.op, i.len, "rel", i.to - (ip + i.len), ip)
         EXCEPT !.flag = i.flag, !.sense = i.sense, !.copy = TRUE] \in CodeType
  BY <1>1, <1>2 DEF CodeType
<1> QED BY <1>3 DEF Copied

\* A literal is code, of the kind that is not to be executed.
LEMMA LiteralTyped ==
  ASSUME NEW word \in {4, 8}
  PROVE  Literal(word) \in CodeType
  BY DEF Literal, Code, CodeType, Ops, Flags

\* Short sequences.
LEMMA Sequences3 ==
  ASSUME NEW S, NEW a \in S, NEW b \in S, NEW c \in S
  PROVE  /\ <<>> \in Seq(S) /\ <<a>> \in Seq(S) /\ <<a, b>> \in Seq(S)
         /\ <<a, b, c>> \in Seq(S) /\ <<a>> \o <<b, c>> \in Seq(S)
  OBVIOUS

\* The backends' modules mean the same by code.
LEMMA SameCode ==
  ASSUME NEW op, NEW len, NEW mode, NEW val, NEW home
  PROVE  /\ X86!Code(op, len, mode, val, home) = Code(op, len, mode, val, home)
         /\ A64!Code(op, len, mode, val, home) = Code(op, len, mode, val, home)
         /\ RV!Code(op, len, mode, val, home) = Code(op, len, mode, val, home)
         /\ A32!Code(op, len, mode, val, home) = Code(op, len, mode, val, home)
         /\ X86!Literal(len) = Literal(len) /\ A64!Literal(len) = Literal(len)
         /\ RV!Literal(len) = Literal(len) /\ A32!Literal(len) = Literal(len)
  BY DEF Code, X86!Code, A64!Code, RV!Code, A32!Code,
         Literal, X86!Literal, A64!Literal, RV!Literal, A32!Literal

\* The jumps and calls of the x86 backends are code.
LEMMA X86Typed ==
  ASSUME NEW x64 \in BOOLEAN, NEW dest \in Int, NEW home \in Int \cup {Lost},
         NEW next \in Int \cup {Lost}, NEW flag \in Flags
  PROVE  /\ X86!jmp(x64, dest, home) \in Seq(CodeType)
         /\ X86!call(x64, dest, home, next) \in Seq(CodeType)
         /\ X86!jcc(x64, dest, flag, home) \in Seq(CodeType)
<1> DEFINE skip == [Code("test", 2, "rel", 14, home) EXCEPT !.flag = flag, !.sense = FALSE]
           test == [Code("test", 6, "dest", dest, home) EXCEPT !.flag = flag]
<1>1. /\ Code("jmp", 6, "abs", dest, home) \in CodeType
      /\ Code("jmp", 6, "abs", dest, dest) \in CodeType
      /\ Code("call", 6, "abs", dest, home) \in CodeType
      /\ Code("jmp", 2, "rel", 8, next) \in CodeType
      /\ Code("jmp", 5, "dest", dest, home) \in CodeType
      /\ Code("call", 5, "dest", dest, home) \in CodeType
  BY DEF Code, CodeType, Ops, Flags
<1>6. skip \in CodeType /\ test \in CodeType
  <2>1. /\ Code("test", 2, "rel", 14, home) \in CodeType
        /\ Code("test", 6, "dest", dest, home) \in CodeType
    BY DEF Code, CodeType, Ops, Flags
  <2> QED BY <2>1 DEF CodeType
<1>2. Literal(8) \in CodeType
  BY LiteralTyped
<1>3. X86!jmp(x64, dest, home) \in Seq(CodeType)
  <2>1. X86!jmp_abs(dest, home) = <<Code("jmp", 6, "abs", dest, home), Literal(8)>>
    BY SameCode DEF X86!jmp_abs
  <2>2. X86!jmp_rel32(dest, home) = <<Code("jmp", 5, "dest", dest, home)>>
    BY SameCode DEF X86!jmp_rel32, X86!JumpRel
  <2> QED BY <1>1, <1>2, <2>1, <2>2, Sequences3 DEF X86!jmp
<1>4. X86!call(x64, dest, home, next) \in Seq(CodeType)
  <2>1. X86!call_abs(dest, home, next)
          = <<Code("call", 6, "abs", dest, home), Code("jmp", 2, "rel", 8, next), Literal(8)>>
    BY SameCode DEF X86!call_abs
  <2>2. X86!call_rel32(dest, home) = <<Code("call", 5, "dest", dest, home)>>
    BY SameCode DEF X86!call_rel32, X86!JumpRel
  <2>3. X86!call_abs(dest, home, next) \in Seq(CodeType)
    BY <1>1, <1>2, <2>1, Sequences3
  <2>4. X86!call_rel32(dest, home) \in Seq(CodeType)
    BY <1>1, <2>2, Sequences3
  <2> QED BY <2>3, <2>4 DEF X86!call
<1>5. X86!jcc(x64, dest, flag, home) \in Seq(CodeType)
  <2>1. X86!jmp_abs(dest, dest) = <<Code("jmp", 6, "abs", dest, dest), Literal(8)>>
    BY SameCode DEF X86!jmp_abs
  <2>2. X86!jcc_abs(dest, flag, home) = <<skip>> \o X86!jmp_abs(dest, dest)
    <3>1. X86!Code("test", 2, "rel", 14, home) = Code("test", 2, "rel", 14, home)
      BY SameCode
    <3> QED BY <3>1 DEF X86!jcc_abs
  <2>3. X86!jcc_rel32(dest, flag, home) = <<test>>
    BY SameCode DEF X86!jcc_rel32
  <2> HIDE DEF skip, test
  <2>4. X86!jcc_abs(dest, flag, home) \in Seq(CodeType)
    BY <1>1, <1>2, <1>6, <2>1, <2>2, Sequences3
  <2> QED BY <1>6, <2>3, <2>4, Sequences3 DEF X86!jcc
<1> QED BY <1>3, <1>4, <1>5

\* The thunks of the AArch64 backend are code.
LEMMA A64Typed ==
  ASSUME NEW i \in InstructionType, NEW home \in Int
  PROVE  /\ A64!jmp_abs(i.to, home) \in Seq(CodeType)
         /\ A64!call_abs(i.to, home) \in Seq(CodeType)
         /\ A64!mov_imm64(i, home) \in Seq(CodeType)
         /\ A64!nop(home) \in Seq(CodeType)
         /\ A64!cbz_far(i, home) \in Seq(CodeType)
         /\ A64!ldr_literal(i, home) \in Seq(CodeType)
<1> DEFINE jump(h) == [Code("jmp", 8, "abs", i.to, h) EXCEPT !.flag = "clobbers"]
           link == [Code("call", 8, "abs", i.to, home) EXCEPT !.flag = "clobbers"]
           move == [Code("addr", 16, "abs", i.to, home) EXCEPT !.flag = i.flag]
           skip == [Code("test", 4, "rel", 16, home) EXCEPT !.flag = i.flag, !.sense = ~i.sense]
           load == [Code("read", 20, "abs", i.to, home) EXCEPT !.flag = "clobbers"]
<1>1. i.to \in Int /\ i.flag \in Flags /\ i.sense \in BOOLEAN /\ "clobbers" \in Flags
  BY DEF InstructionType, Flags
<1>2. /\ \A h \in Int : Code("jmp", 8, "abs", i.to, h) \in CodeType
      /\ Code("call", 8, "abs", i.to, home) \in CodeType
      /\ Code("addr", 16, "abs", i.to, home) \in CodeType
      /\ Code("test", 4, "rel", 16, home) \in CodeType
      /\ Code("read", 20, "abs", i.to, home) \in CodeType
      /\ Code("prefetch", 4, "abs", 0, home) \in CodeType
  BY <1>1 DEF Code, CodeType, Ops, Flags
<1>3. (\A h \in Int : jump(h) \in CodeType) /\ link \in CodeType /\ move \in CodeType
  BY <1>1, <1>2 DEF CodeType
<1>4. load \in CodeType /\ skip \in CodeType
  BY <1>1, <1>2 DEF CodeType
<1>5. Literal(8) \in CodeType
  BY LiteralTyped
<1>6. /\ \A h : A64!Code("jmp", 8, "abs", i.to, h) = Code("jmp", 8, "abs", i.to, h)
      /\ A64!Code("call", 8, "abs", i.to, home) = Code("call", 8, "abs", i.to, home)
      /\ A64!Code("addr", 16, "abs", i.to, home) = Code("addr", 16, "abs", i.to, home)
      /\ A64!Code("test", 4, "rel", 16, home) = Code("test", 4, "rel", 16, home)
      /\ A64!Code("read", 20, "abs", i.to, home) = Code("read", 20, "abs", i.to, home)
      /\ A64!Code("prefetch", 4, "abs", 0, home) = Code("prefetch", 4, "abs", 0, home)
      /\ A64!Literal(8) = Literal(8)
  BY SameCode
<1>7. /\ \A h \in Int : A64!jmp_abs(i.to, h) = <<jump(h), Literal(8)>>
      /\ A64!call_abs(i.to, home) = <<link, Literal(8)>>
      /\ A64!mov_imm64(i, home) = <<move>> /\ A64!ldr_literal(i, home) = <<load>>
      /\ A64!nop(home) = <<Code("prefetch", 4, "abs", 0, home)>>
  BY <1>6 DEF A64!jmp_abs, A64!call_abs, A64!mov_imm64, A64!ldr_literal, A64!nop
<1>8. A64!cbz_far(i, home) = <<skip>> \o A64!jmp_abs(i.to, i.to)
  BY <1>6 DEF A64!cbz_far
<1> HIDE DEF jump, link, move, skip, load
<1>9. /\ \A h \in Int : A64!jmp_abs(i.to, h) \in Seq(CodeType)
      /\ A64!call_abs(i.to, home) \in Seq(CodeType)
      /\ A64!mov_imm64(i, home) \in Seq(CodeType) /\ A64!ldr_literal(i, home) \in Seq(CodeType)
      /\ A64!nop(home) \in Seq(CodeType)
  BY <1>2, <1>3, <1>4, <1>5, <1>7, Sequences3
<1>10. A64!cbz_far(i, home) \in Seq(CodeType)
  BY <1>1, <1>3, <1>4, <1>5, <1>7, <1>8, Sequences3
<1> QED BY <1>9, <1>10

\* The thunks of the RISC-V backend are code.
LEMMA RVTyped ==
  ASSUME NEW i \in InstructionType, NEW home \in Int, NEW word \in {4, 8}
  PROVE  /\ RV!jmp_abs(word, i.to, home) \in Seq(CodeType)
         /\ RV!call_abs_rd(word, i.to, home) \in Seq(CodeType)
         /\ RV!li_abs(word, i, home) \in Seq(CodeType)
         /\ RV!branch_far(word, i, home) \in Seq(CodeType)
<1> DEFINE jump(h) == [Code("jmp", 12, "abs", i.to, h) EXCEPT !.flag = "clobbers"]
           link == [Code("call", 12, "abs", i.to, home) EXCEPT !.flag = "clobbers"]
           load == [Code("addr", 8 + word, "abs", i.to, home) EXCEPT !.flag = i.flag]
           skip == [Code("test", 4, "rel", 12 + word, home)
                      EXCEPT !.flag = i.flag, !.sense = ~i.sense]
<1>1. i.to \in Int /\ i.flag \in Flags /\ i.sense \in BOOLEAN /\ "clobbers" \in Flags
  BY DEF InstructionType, Flags
<1>2. /\ \A h \in Int : Code("jmp", 12, "abs", i.to, h) \in CodeType
      /\ Code("call", 12, "abs", i.to, home) \in CodeType
      /\ Code("addr", 8 + word, "abs", i.to, home) \in CodeType
      /\ Code("test", 4, "rel", 12 + word, home) \in CodeType
  BY <1>1 DEF Code, CodeType, Ops, Flags
<1>3. (\A h \in Int : jump(h) \in CodeType) /\ link \in CodeType
  BY <1>1, <1>2 DEF CodeType
<1>4. load \in CodeType /\ skip \in CodeType
  BY <1>1, <1>2 DEF CodeType
<1>5. Literal(word) \in CodeType
  BY LiteralTyped
<1>6. /\ \A h : RV!Code("jmp", 12, "abs", i.to, h) = Code("jmp", 12, "abs", i.to, h)
      /\ RV!Code("call", 12, "abs", i.to, home) = Code("call", 12, "abs", i.to, home)
      /\ RV!Code("addr", 8 + word, "abs", i.to, home) = Code("addr", 8 + word, "abs", i.to, home)
      /\ RV!Code("test", 4, "rel", 12 + word, home) = Code("test", 4, "rel", 12 + word, home)
      /\ RV!Literal(word) = Literal(word)
  BY SameCode
<1>7. /\ \A h \in Int : RV!jmp_abs(word, i.to, h) = <<jump(h), Literal(word)>>
      /\ RV!call_abs_rd(word, i.to, home) = <<link, Literal(word)>>
      /\ RV!li_abs(word, i, home) = <<load>>
  BY <1>6 DEF RV!jmp_abs, RV!call_abs_rd, RV!li_abs
<1>8. RV!branch_far(word, i, home) = <<skip>> \o RV!jmp_abs(word, i.to, i.to)
  BY <1>6 DEF RV!branch_far
<1> HIDE DEF jump, link, load, skip
<1>9. /\ \A h \in Int : RV!jmp_abs(word, i.to, h) \in Seq(CodeType)
      /\ RV!call_abs_rd(word, i.to, home) \in Seq(CodeType)
      /\ RV!li_abs(word, i, home) \in Seq(CodeType)
  BY <1>3, <1>4, <1>5, <1>7, Sequences3
<1>10. RV!branch_far(word, i, home) \in Seq(CodeType)
  BY <1>1, <1>3, <1>4, <1>5, <1>7, <1>8, Sequences3
<1> QED BY <1>9, <1>10

\* The jump of the ARM backend is code.
LEMMA A32Typed ==
  ASSUME NEW dest \in Int, NEW home \in Int \cup {Lost}
  PROVE  A32!jmp_abs(dest, home) \in Seq(CodeType)
<1>1. A32!jmp_abs(dest, home) = <<Code("jmp", 4, "abs", dest, home), Literal(4)>>
  BY SameCode DEF A32!jmp_abs
<1>2. Code("jmp", 4, "abs", dest, home) \in CodeType
  BY DEF Code, CodeType, Ops, Flags
<1>3. Literal(4) \in CodeType
  BY LiteralTyped
<1> QED BY <1>1, <1>2, <1>3, Sequences3

-----------------------------------------------------------------------------
(***************************************************************************)
(* The builders' treatment of one instruction                              *)
(***************************************************************************)
\* What the builders return, given code, a branch and whether to go on.
LEMMA ProcessedTyped ==
  ASSUME NEW m \in Margins, NEW t \in Seq(CodeType), NEW b \in -1 .. m - 1,
         NEW f \in BOOLEAN
  PROVE  /\ Processed(t, b, f) \in ProcessedType(m)
         /\ X86!Processed(t, b, f) = Processed(t, b, f)
         /\ A64!Processed(t, b, f) = Processed(t, b, f)
         /\ RV!Processed(t, b, f) = Processed(t, b, f)
         /\ A32!Processed(t, b, f) = Processed(t, b, f)
<1>1. Processed(t, b, f) \in ProcessedType(m)
  BY DEF Processed, ProcessedType
<1> QED
  BY <1>1 DEF Processed, X86!Processed, A64!Processed, RV!Processed, A32!Processed

\* And when they refuse the instruction.
LEMMA UnsupportedTyped ==
  ASSUME NEW m \in Margins
  PROVE  /\ UnsupportedInstruction \in ProcessedType(m)
         /\ X86!UnsupportedInstruction = UnsupportedInstruction
         /\ A64!UnsupportedInstruction = UnsupportedInstruction
         /\ RV!UnsupportedInstruction = UnsupportedInstruction
         /\ A32!UnsupportedInstruction = UnsupportedInstruction
<1>1. -1 \in -1 .. m - 1 /\ <<>> \in Seq(CodeType)
  BY DEF Margins
<1>2. UnsupportedInstruction \in ProcessedType(m)
  BY <1>1 DEF UnsupportedInstruction, ProcessedType
<1> QED
  BY <1>2 DEF UnsupportedInstruction, X86!UnsupportedInstruction, A64!UnsupportedInstruction,
     RV!UnsupportedInstruction, A32!UnsupportedInstruction

\* The backends' modules mean the same by a copy.
LEMMA SameCopy ==
  ASSUME NEW i \in InstructionType, NEW ip \in Int
  PROVE  /\ X86!Copied(i, ip) = Copied(i, ip) /\ A64!Copied(i, ip) = Copied(i, ip)
         /\ RV!Copied(i, ip) = Copied(i, ip) /\ A32!Copied(i, ip) = Copied(i, ip)
<1> DEFINE v == i.to - (ip + i.len)
<1>1. /\ X86!Code(i.op, i.len, "rel", v, ip) = Code(i.op, i.len, "rel", v, ip)
      /\ A64!Code(i.op, i.len, "rel", v, ip) = Code(i.op, i.len, "rel", v, ip)
      /\ RV!Code(i.op, i.len, "rel", v, ip) = Code(i.op, i.len, "rel", v, ip)
      /\ A32!Code(i.op, i.len, "rel", v, ip) = Code(i.op, i.len, "rel", v, ip)
  BY SameCode
<1> QED BY <1>1 DEF Copied, X86!Copied, A64!Copied, RV!Copied, A32!Copied

\* x86: RIP operands.
LEMMA X86Rip ==
  ASSUME NEW i \in InstructionType, NEW ip \in Nat, NEW br \in -1 .. 4, NEW tot \in Nat
  PROVE  X86!handle_rip_relative_instruction(i, ip, br, tot) \in ProcessedType(5)
<1>0. /\ i.op \in Ops /\ i.len \in Nat /\ i.to \in Int /\ i.flag \in Flags
      /\ 5 \in Margins /\ (i.op = "jmpmem") \in BOOLEAN /\ br \in -1 .. 5 - 1
  BY DEF InstructionType, Margins
<1>1. X86!Copied(i, ip) \in Seq(CodeType)
  BY SameCopy, CopiedTyped
<1>2. X86!Adjusted(i, ip) \in Seq(CodeType)
  <2> DEFINE mode == IF i.imm = 0 THEN "moved" ELSE "spoilt"
             c    == Code(i.op, i.len, mode, i.to - i.len, ip)
  <2>1. mode \in {"moved", "spoilt"}
    OBVIOUS
  <2>2. c \in CodeType
    BY <1>0, <2>1, CodeTyped
  <2>3. [c EXCEPT !.flag = i.flag] \in CodeType
    BY <1>0, <2>2 DEF CodeType
  <2>4. X86!Code(i.op, i.len, mode, i.to - i.len, ip) = c
    BY <2>1, SameCode
  <2> QED BY <2>3, <2>4, Sequences3 DEF X86!Adjusted
<1>3. /\ X86!Processed(X86!Copied(i, ip), br, i.op = "jmpmem") \in ProcessedType(5)
      /\ X86!Processed(X86!Adjusted(i, ip), br, i.op = "jmpmem") \in ProcessedType(5)
  BY <1>0, <1>1, <1>2, ProcessedTyped
<1> QED BY <1>3 DEF X86!handle_rip_relative_instruction

\* x86: relative branches.
LEMMA X86Branch ==
  ASSUME NEW x64 \in BOOLEAN, NEW i \in InstructionType, NEW ip \in Nat, NEW br \in -1 .. 4
  PROVE  X86!handle_relative_branch(x64, i, ip, br) \in ProcessedType(5)
<1>0. /\ i.op \in Ops /\ i.len \in Nat /\ i.to \in Int /\ i.flag \in Flags
      /\ 5 \in Margins /\ br \in -1 .. 5 - 1
      /\ X86!prolog_margin = 5 /\ (~X86!is_in_branch(ip, br)) \in BOOLEAN
      /\ X86!condition(i.flag) \in Flags
  BY DEF InstructionType, Margins, X86!prolog_margin, X86!JumpRel, X86!condition, Flags,
         X86!is_in_branch
<1>1. /\ X86!Copied(i, ip) \in Seq(CodeType)
      /\ X86!call(x64, i.to, ip, ip + i.len) \in Seq(CodeType)
      /\ X86!jmp(x64, i.to, ip) \in Seq(CodeType)
      /\ X86!jcc(x64, i.to, X86!condition(i.flag), ip) \in Seq(CodeType)
  <2>1. X86!Copied(i, ip) \in Seq(CodeType)
    BY SameCopy, CopiedTyped
  <2>2. ip \in Int \cup {Lost} /\ ip + i.len \in Int \cup {Lost}
    BY <1>0
  <2> QED BY <1>0, <2>1, <2>2, X86Typed
<1>2. /\ X86!Processed(X86!call(x64, i.to, ip, ip + i.len), br, FALSE) \in ProcessedType(5)
      /\ X86!Processed(X86!jcc(x64, i.to, X86!condition(i.flag), ip), br, FALSE)
           \in ProcessedType(5)
      /\ X86!UnsupportedInstruction \in ProcessedType(5)
  BY <1>0, <1>1, ProcessedTyped, UnsupportedTyped
<1>3. X86!Processed(X86!jmp(x64, i.to, ip), br, ~X86!is_in_branch(ip, br)) \in ProcessedType(5)
  BY <1>0, <1>1, ProcessedTyped
<1>4. i.to \in 0 .. 5 - 1 => X86!Processed(X86!Copied(i, ip), i.to, FALSE) \in ProcessedType(5)
  <2>1. i.to \in 0 .. 5 - 1 => i.to \in -1 .. 5 - 1
    OBVIOUS
  <2> QED BY <1>0, <1>1, <2>1, ProcessedTyped
<1> QED
  BY <1>0, <1>2, <1>3, <1>4 DEF X86!handle_relative_branch

\* x86: any instruction.
LEMMA X86Process ==
  ASSUME NEW x64 \in BOOLEAN, NEW i \in InstructionType, NEW ip \in Nat, NEW br \in -1 .. 4,
         NEW tot \in Nat
  PROVE  X86!process_instruction(x64, i, ip, br, tot) \in ProcessedType(5)
<1>0. /\ 5 \in Margins /\ br \in -1 .. 5 - 1 /\ (~X86!is_in_branch(ip, br)) \in BOOLEAN
  BY DEF Margins, X86!is_in_branch
<1>1. X86!Copied(i, ip) \in Seq(CodeType)
  BY SameCopy, CopiedTyped
<1>2. /\ X86!Processed(X86!Copied(i, ip), br, ~X86!is_in_branch(ip, br)) \in ProcessedType(5)
      /\ X86!Processed(X86!Copied(i, ip), br, FALSE) \in ProcessedType(5)
  BY <1>0, <1>1, ProcessedTyped
<1>3. /\ X86!handle_rip_relative_instruction(i, ip, br, tot) \in ProcessedType(5)
      /\ X86!handle_relative_branch(x64, i, ip, br) \in ProcessedType(5)
  BY X86Rip, X86Branch
<1> QED BY <1>2, <1>3 DEF X86!process_instruction

\* The destination of the farthest branch inside the prolog is inside the prolog.
LEMMA TrackBranch ==
  ASSUME NEW m \in Margins, NEW b \in -1 .. m - 1, NEW d \in 0 .. m - 1
  PROVE  /\ A64!track_branch(b, d) \in -1 .. m - 1 /\ RV!track_branch(b, d) \in -1 .. m - 1
         /\ A32!track_branch(b, d) \in -1 .. m - 1
<1>1. d \in -1 .. m - 1
  BY DEF Margins
<1> QED BY <1>1 DEF A64!track_branch, RV!track_branch, A32!track_branch

\* AArch64: any instruction.
LEMMA A64Process ==
  ASSUME NEW i \in InstructionType, NEW ip \in Nat, NEW br \in -1 .. 4 - 1
  PROVE  A64!process(i, ip, br) \in ProcessedType(4)
<1> DEFINE ends == ~A64!is_in_branch(ip, br)
           inside == i.to \in 0 .. A64!prolog_margin - 1
           P(t, b, f) == A64!Processed(t, b, f)
           R == ProcessedType(4)
<1>0. 4 \in Margins /\ ends \in BOOLEAN /\ A64!prolog_margin = 4
  BY DEF Margins, A64!is_in_branch, A64!prolog_margin
<1>1. \A t \in Seq(CodeType) : P(t, br, FALSE) \in R /\ P(t, br, ends) \in R
  <2> HIDE DEF ends
  <2> QED BY <1>0, ProcessedTyped
<1>2. inside => \A t \in Seq(CodeType) :
                  /\ P(t, A64!track_branch(br, i.to), FALSE) \in R
                  /\ P(t, A64!track_branch(br, i.to), ends) \in R
  <2>1. inside => A64!track_branch(br, i.to) \in -1 .. 4 - 1
    BY <1>0, TrackBranch
  <2> HIDE DEF ends
  <2> QED BY <1>0, <2>1, ProcessedTyped
<1>3. A64!UnsupportedInstruction \in R
  BY <1>0, UnsupportedTyped
<1>4. /\ A64!Copied(i, ip) \in Seq(CodeType) /\ A64!jmp_abs(i.to, ip) \in Seq(CodeType)
      /\ A64!call_abs(i.to, ip) \in Seq(CodeType) /\ A64!mov_imm64(i, ip) \in Seq(CodeType)
      /\ A64!nop(ip) \in Seq(CodeType) /\ A64!cbz_far(i, ip) \in Seq(CodeType)
      /\ A64!ldr_literal(i, ip) \in Seq(CodeType)
  BY SameCopy, CopiedTyped, A64Typed
<1>5. /\ P(A64!jmp_abs(i.to, ip), br, ends) \in R
      /\ P(A64!call_abs(i.to, ip), br, FALSE) \in R
      /\ P(A64!cbz_far(i, ip), br, FALSE) \in R
      /\ P(A64!mov_imm64(i, ip), br, FALSE) \in R
      /\ P(A64!ldr_literal(i, ip), br, FALSE) \in R
      /\ P(A64!nop(ip), br, FALSE) \in R
      /\ P(A64!Copied(i, ip), br, ends) \in R
      /\ P(A64!Copied(i, ip), br, FALSE) \in R
  BY <1>1, <1>4
<1>6. inside => /\ P(A64!Copied(i, ip), A64!track_branch(br, i.to), FALSE) \in R
                /\ P(A64!Copied(i, ip), A64!track_branch(br, i.to), ends) \in R
  BY <1>2, <1>4
<1>7. CASE i.op = "jmp"
  BY <1>5, <1>6, <1>7 DEF A64!process
<1>8. CASE i.op = "test"
  BY <1>5, <1>6, <1>8 DEF A64!process
<1>9. CASE i.op \notin {"jmp", "test"}
  BY <1>3, <1>5, <1>9 DEF A64!process
<1> QED BY <1>7, <1>8, <1>9

\* RISC-V: any instruction.
LEMMA RVProcess ==
  ASSUME NEW i \in InstructionType, NEW ip \in Nat, NEW br \in -1 .. 8 - 1, NEW word \in {4, 8}
  PROVE  RV!process(word, i, ip, br) \in ProcessedType(8)
<1> DEFINE ends == i.op \in {"jmp", "ret"} /\ ~RV!is_in_branch(ip, br)
           inside == i.to \in 0 .. RV!prolog_margin - 1
           P(t, b, f) == RV!Processed(t, b, f)
           R == ProcessedType(8)
<1>0. 8 \in Margins /\ ends \in BOOLEAN /\ RV!prolog_margin = 8
  BY DEF Margins, RV!is_in_branch, RV!prolog_margin
<1>1. \A t \in Seq(CodeType) : P(t, br, FALSE) \in R /\ P(t, br, ends) \in R
  <2> HIDE DEF ends
  <2> QED BY <1>0, ProcessedTyped
<1>2. inside => \A t \in Seq(CodeType) : P(t, RV!track_branch(br, i.to), ends) \in R
  <2>1. inside => RV!track_branch(br, i.to) \in -1 .. 8 - 1
    BY <1>0, TrackBranch
  <2> HIDE DEF ends
  <2> QED BY <1>0, <2>1, ProcessedTyped
<1>3. RV!UnsupportedInstruction \in R
  BY <1>0, UnsupportedTyped
<1>4. /\ RV!Copied(i, ip) \in Seq(CodeType)
      /\ RV!jmp_abs(word, i.to, ip) \in Seq(CodeType)
      /\ RV!call_abs_rd(word, i.to, ip) \in Seq(CodeType)
      /\ RV!li_abs(word, i, ip) \in Seq(CodeType)
      /\ RV!branch_far(word, i, ip) \in Seq(CodeType)
  BY SameCopy, CopiedTyped, RVTyped
<1>5. /\ P(RV!jmp_abs(word, i.to, ip), br, ends) \in R
      /\ P(RV!call_abs_rd(word, i.to, ip), br, FALSE) \in R
      /\ P(RV!branch_far(word, i, ip), br, FALSE) \in R
      /\ P(RV!li_abs(word, i, ip), br, FALSE) \in R
      /\ P(RV!Copied(i, ip), br, ends) \in R
      /\ P(RV!Copied(i, ip), br, FALSE) \in R
  BY <1>1, <1>4
<1>6. inside => P(RV!Copied(i, ip), RV!track_branch(br, i.to), ends) \in R
  BY <1>2, <1>4
<1> QED BY <1>3, <1>5, <1>6 DEF RV!process

\* ARM: any instruction.
LEMMA A32Process ==
  ASSUME NEW i \in InstructionType, NEW ip \in Nat, NEW br \in -1 .. 8 - 1
  PROVE  A32!process(i, ip, br) \in ProcessedType(8)
<1> DEFINE ends == ~A32!is_in_branch(ip, br)
           inside == i.to \in 0 .. A32!prolog_margin - 1
           P(t, b, f) == A32!Processed(t, b, f)
           R == ProcessedType(8)
<1>0. 8 \in Margins /\ ends \in BOOLEAN /\ A32!prolog_margin = 8 /\ i.to \in Int
  BY DEF Margins, A32!is_in_branch, A32!prolog_margin, InstructionType
<1>1. \A t \in Seq(CodeType) : P(t, br, FALSE) \in R /\ P(t, br, ends) \in R
  <2> HIDE DEF ends
  <2> QED BY <1>0, ProcessedTyped
<1>2. inside => \A t \in Seq(CodeType) : P(t, A32!track_branch(br, i.to), FALSE) \in R
  <2>1. inside => A32!track_branch(br, i.to) \in -1 .. 8 - 1
    BY <1>0, TrackBranch
  <2> QED BY <1>0, <2>1, ProcessedTyped
<1>3. A32!UnsupportedInstruction \in R
  BY <1>0, UnsupportedTyped
<1>4. A32!Copied(i, ip) \in Seq(CodeType) /\ A32!jmp_abs(i.to, ip) \in Seq(CodeType)
  <2>1. ip \in Int /\ ip \in Int \cup {Lost}
    OBVIOUS
  <2> QED BY <1>0, <2>1, SameCopy, CopiedTyped, A32Typed
<1>5. /\ P(A32!jmp_abs(i.to, ip), br, FALSE) \in R
      /\ P(A32!Copied(i, ip), br, ends) \in R
      /\ P(A32!Copied(i, ip), br, FALSE) \in R
  BY <1>1, <1>4
<1>6. inside => P(A32!Copied(i, ip), A32!track_branch(br, i.to), FALSE) \in R
  BY <1>2, <1>4
<1> QED BY <1>3, <1>5, <1>6 DEF A32!process

\* Whatever the architecture, what becomes of an instruction is code, and the
\* branch that is kept in mind leads into the prolog.
LEMMA ProcessTyped ==
  ASSUME world \in WorldType, NEW i \in InstructionType, NEW ip \in Nat,
         NEW br \in -1 .. prolog_margin - 1, NEW tot \in Nat
  PROVE  process(i, ip, br, tot) \in ProcessedType(prolog_margin)
<1>1. CASE Intel
  <2>1. /\ prolog_margin = 5 /\ br \in -1 .. 4 /\ X64 \in BOOLEAN
        /\ ~Riscv /\ world.arch \notin {"a64", "arm", "thumb"}
    BY <1>1, MarginType DEF X64, Intel, Riscv
  <2>2. X86!process_instruction(X64, i, ip, br, tot) \in ProcessedType(5)
    BY <2>1, X86Process
  <2> QED BY <1>1, <2>1, <2>2 DEF process
<1>2. CASE world.arch = "a64"
  <2>1. prolog_margin = 4 /\ br \in -1 .. 4 - 1 /\ ~Intel /\ ~Riscv
    BY <1>2, MarginType DEF Intel, Riscv
  <2> QED BY <1>2, <2>1, A64Process DEF process
<1>3. CASE Riscv
  <2>1. /\ prolog_margin = 8 /\ br \in -1 .. 8 - 1 /\ ~Intel /\ Word \in {4, 8}
        /\ world.arch \notin {"a64", "arm", "thumb"}
    BY <1>3, MarginType DEF Intel, Riscv, Word
  <2> QED BY <1>3, <2>1, RVProcess DEF process
<1>4. CASE world.arch \in {"arm", "thumb"}
  <2>1. /\ prolog_margin = 8 /\ br \in -1 .. 8 - 1 /\ 8 \in Margins
        /\ ~Intel /\ ~Riscv /\ world.arch # "a64"
    BY <1>4, MarginType DEF Intel, Riscv, Margins
  <2> QED BY <1>4, <2>1, A32Process, UnsupportedTyped DEF process
<1> QED BY <1>1, <1>2, <1>3, <1>4 DEF WorldType, Narrow, Intel, Riscv

-----------------------------------------------------------------------------
(***************************************************************************)
(* The emitter                                                             *)
(***************************************************************************)
\* What is laid out is what was in the sequence.
LEMMA LaidOut ==
  ASSUME NEW S, NEW s \in Seq(S), NEW base, NEW a \in DOMAIN X86!Layout(s, base)
  PROVE  X86!Layout(s, base)[a] \in S
<1> DEFINE o == X86!Offsets(s)
<1>1. X86!Layout(s, base) = [x \in {base + o[k] : k \in DOMAIN s} |->
                               s[CHOOSE k \in DOMAIN s : base + o[k] = x]]
  BY DEF X86!Layout
<1> HIDE DEF o
<1>2. PICK k \in DOMAIN s : a = base + o[k]
  BY <1>1
<1>3. (CHOOSE j \in DOMAIN s : base + o[j] = a) \in DOMAIN s
  BY <1>2
<1>4. X86!Layout(s, base)[a] = s[CHOOSE j \in DOMAIN s : base + o[j] = a]
  BY <1>1
<1> QED BY <1>3, <1>4

\* An instruction that has been generated has an address or a displacement.
LEMMA GeneratedMode ==
  ASSUME NEW c \in CodeType, NEW a
  PROVE  /\ X86!generate(c, a).mode \in {"abs", "rel", "spoilt"}
         /\ c.mode # "spoilt" => X86!generate(c, a).mode \in {"abs", "rel"}
  BY DEF X86!generate, CodeType

\* And so has all that is emitted.
LEMMA EmittedModes ==
  ASSUME NEW s \in Seq(CodeType), NEW base, NEW a \in DOMAIN X86!emit(s, base)
  PROVE  X86!emit(s, base)[a].mode \in {"abs", "rel", "spoilt"}
<1>1. X86!emit(s, base) = [x \in DOMAIN X86!Layout(s, base) |->
                             X86!generate(X86!Layout(s, base)[x], x)]
  BY DEF X86!emit
<1>2. a \in DOMAIN X86!Layout(s, base)
  BY <1>1
<1>3. X86!Layout(s, base)[a] \in CodeType
  BY <1>2, LaidOut
<1> QED BY <1>1, <1>2, <1>3, GeneratedMode

-----------------------------------------------------------------------------
(***************************************************************************)
(* The patch                                                               *)
(***************************************************************************)
\* patch_area has one of three shapes, the last of them on x86 only, and
\* reaches past the prolog only into padding.
LEMMA AreaShape ==
  ASSUME world \in WorldType, total \in Nat
  PROVE  /\ \/ PatchArea = {}
            \/ PatchArea = 0 .. prolog_margin - 1
            \/ Intel /\ PatchArea = -5 .. 1
         /\ \A b \in PatchArea :
              \/ b \in 0 .. total - 1
              \/ b >= 0 /\ b \in Padding
              \/ b < 0 /\ b \in Padding /\ b \in Executable
<1>1. CASE Intel
  <2>1. PatchArea = X86!patch_area(total, Padding, Executable) /\ prolog_margin = 5
    <3>1. ~Riscv /\ world.arch \notin {"a64", "arm", "thumb"}
      BY <1>1 DEF Intel, Riscv
    <3> QED BY <1>1, <3>1, MarginType DEF PatchArea
  <2>2. CASE total .. 4 \subseteq Padding
    <3>1. PatchArea = 0 .. 4
      BY <2>1, <2>2 DEF X86!patch_area, X86!is_patchable, X86!JumpRel
    <3>2. \A b \in 0 .. 4 : b \in 0 .. total - 1 \/ b \in total .. 4
      OBVIOUS
    <3> QED BY <2>1, <2>2, <3>1, <3>2
  <2>3. CASE ~(total .. 4 \subseteq Padding)
    <3>1. \/ PatchArea = {}
          \/ /\ PatchArea = -5 .. 1 /\ total .. 1 \subseteq Padding
             /\ -5 .. -1 \subseteq Padding /\ -5 .. -1 \subseteq Executable
      BY <2>1, <2>3 DEF X86!patch_area, X86!is_patchable, X86!HotPatch, X86!JumpRel,
         X86!JumpShort
    <3>2. \A b \in -5 .. 1 : b \in 0 .. total - 1 \/ b \in total .. 1 \/ b \in -5 .. -1
      OBVIOUS
    <3>3. (\A b \in -5 .. -1 : b < 0) /\ (\A b \in total .. 1 : b >= 0)
      OBVIOUS
    <3> QED BY <1>1, <3>1, <3>2, <3>3
  <2> QED BY <2>2, <2>3
<1>2. ASSUME NEW m \in Margins, prolog_margin = m,
             PatchArea = IF total .. m - 1 \subseteq Padding THEN 0 .. m - 1 ELSE {}
      PROVE  /\ PatchArea = {} \/ PatchArea = 0 .. prolog_margin - 1
             /\ \A b \in PatchArea : b \in 0 .. total - 1 \/ (b >= 0 /\ b \in Padding)
  <2>1. \A b \in 0 .. m - 1 : b \in 0 .. total - 1 \/ (b >= 0 /\ b \in total .. m - 1)
    BY DEF Margins
  <2> QED BY <1>2, <2>1
<1>3. CASE world.arch = "a64"
  <2>1. ~Intel /\ ~Riscv /\ prolog_margin = 4 /\ 4 \in Margins
    BY <1>3, MarginType DEF Intel, Riscv, Margins
  <2>2. PatchArea = IF total .. 4 - 1 \subseteq Padding THEN 0 .. 4 - 1 ELSE {}
    BY <1>3, <2>1 DEF PatchArea, A64!patch_area, A64!JUMP_SIZE
  <2> QED BY <1>2, <2>1, <2>2
<1>4. CASE Riscv
  <2>1. ~Intel /\ world.arch # "a64" /\ prolog_margin = 8 /\ 8 \in Margins
    BY <1>4, MarginType DEF Intel, Riscv, Margins
  <2>2. PatchArea = IF total .. 8 - 1 \subseteq Padding THEN 0 .. 8 - 1 ELSE {}
    BY <1>4, <2>1 DEF PatchArea, RV!patch_area, RV!JUMP_SIZE
  <2> QED BY <1>2, <2>1, <2>2
<1>5. CASE world.arch \in {"arm", "thumb"}
  <2>1. ~Intel /\ ~Riscv /\ world.arch # "a64" /\ prolog_margin = 8 /\ 8 \in Margins
    BY <1>5, MarginType DEF Intel, Riscv, Margins
  <2>2. PatchArea = IF total .. 8 - 1 \subseteq Padding THEN 0 .. 8 - 1 ELSE {}
    BY <2>1 DEF PatchArea, A32!patch_area, A32!JUMP_SIZE
  <2> QED BY <1>2, <2>1, <2>2
<1> QED BY <1>1, <1>3, <1>4, <1>5 DEF WorldType, Narrow, Intel, Riscv

-----------------------------------------------------------------------------
(***************************************************************************)
(* Displacements                                                           *)
(***************************************************************************)
\* Quotient and remainder of any integer.
LEMMA Division ==
  ASSUME NEW m \in Nat, m > 0, NEW x \in Int
  PROVE  /\ x \div m \in Int /\ x % m \in Int /\ 0 <= x % m /\ x % m < m
         /\ x = m * (x \div m) + (x % m) /\ m * (x \div m) \in Int
<1>1. x \div m \in Int /\ x % m \in Int
  OBVIOUS
<1>2. 0 <= x % m /\ x % m < m
  OBVIOUS
<1>3. x = m * (x \div m) + (x % m)
  OBVIOUS
<1> QED BY <1>1, <1>2, <1>3

\* Multiples of a number are that number apart.
LEMMA MultiplesApart ==
  ASSUME NEW m \in Nat, m > 0, NEW p \in Int, NEW q \in Int, p < q
  PROVE  m * p + m <= m * q
<1>1. PICK k \in Nat : q = p + 1 + k
  <2>1. q - p - 1 \in Nat /\ q = p + 1 + (q - p - 1)
    OBVIOUS
  <2> QED BY <2>1
<1>2. m * q = m * p + m + m * k
  BY <1>1
<1>3. m * k >= 0 /\ m * k \in Nat /\ m * p \in Int
  OBVIOUS
<1> QED BY <1>2, <1>3

\* The remainder is the one number in range that differs by a multiple.
LEMMA RemainderUnique ==
  ASSUME NEW m \in Nat, m > 0, NEW q \in Int, NEW r \in Int, 0 <= r, r < m, NEW x \in Int,
         x = m * q + r
  PROVE  x % m = r
<1> DEFINE p == x \div m
           s == x % m
<1>1. p \in Int /\ s \in Int /\ 0 <= s /\ s < m /\ x = m * p + s /\ m * p \in Int
  BY Division
<1> HIDE DEF p, s
<1>2. m * q \in Int
  OBVIOUS
<1>3. ~(p < q)
  BY <1>1, <1>2, MultiplesApart
<1>4. ~(q < p)
  BY <1>1, <1>2, MultiplesApart
<1>5. p = q
  BY <1>1, <1>3, <1>4
<1>6. s = r
  BY <1>1, <1>2, <1>5
<1> QED BY <1>6 DEF s

\* A displacement that is in range fits.
LEMMA FitsWhenInRange ==
  ASSUME DETOUR_RANGE \in Nat, DETOUR_RANGE > 0, NEW d \in Int, is_within_range(d)
  PROVE  Truncated(d) = d
<1>1. 2 * DETOUR_RANGE \in Nat /\ 2 * DETOUR_RANGE > 0 /\ (2 * DETOUR_RANGE) * 0 = 0
  OBVIOUS
<1>2. d + DETOUR_RANGE \in Int /\ 0 <= d + DETOUR_RANGE /\ d + DETOUR_RANGE < 2 * DETOUR_RANGE
  BY DEF is_within_range
<1>3. (d + DETOUR_RANGE) % (2 * DETOUR_RANGE) = d + DETOUR_RANGE
  BY <1>1, <1>2, RemainderUnique
<1> QED BY <1>3 DEF Truncated

\* Where addresses wrap around as displacements do, a displacement that does
\* not fit leads to its destination nevertheless.
LEMMA WrapsAround ==
  ASSUME DETOUR_RANGE \in Nat, DETOUR_RANGE > 0, NEW x \in Int, NEW y \in Int,
         is_within_range(x + y)
  PROVE  Truncated(x + Truncated(y)) = x + y
<1> DEFINE m == 2 * DETOUR_RANGE
           q == (y + DETOUR_RANGE) \div m
           r == (y + DETOUR_RANGE) % m
<1>1. m \in Nat /\ m > 0 /\ y + DETOUR_RANGE \in Int
  OBVIOUS
<1>2. /\ q \in Int /\ r \in Int /\ 0 <= r /\ r < m /\ m * q \in Int
      /\ y + DETOUR_RANGE = m * q + r
  BY <1>1, Division
<1>3. Truncated(y) = r - DETOUR_RANGE
  BY DEF Truncated
<1>4. m * (0 - q) = 0 - m * q /\ 0 - q \in Int
  BY <1>1, <1>2
<1> DEFINE t == x + Truncated(y) + DETOUR_RANGE
           w == x + y + DETOUR_RANGE
           n == 0 - q
<1> HIDE DEF q, r
<1>5. 0 <= w /\ w < m /\ w \in Int
  BY DEF is_within_range
<1>6. t = m * n + w /\ t \in Int /\ n \in Int
  BY <1>1, <1>2, <1>3, <1>4
<1>7. Truncated(x + Truncated(y)) = (t % m) - DETOUR_RANGE
  BY DEF Truncated
<1>8. x + y = w - DETOUR_RANGE
  OBVIOUS
<1> HIDE DEF m, t, w, n
<1>9. t % m = w
  BY <1>1, <1>5, <1>6, RemainderUnique
<1> QED BY <1>7, <1>8, <1>9

-----------------------------------------------------------------------------
(***************************************************************************)
(* The layout of the hooks, which have one instruction or two              *)
(***************************************************************************)
\* A single instruction is where the sequence starts.
LEMMA LayoutOfOne ==
  ASSUME NEW c, c.len \in Nat, NEW base \in Int
  PROVE  X86!Layout(<<c>>, base) = [a \in {base} |-> c]
<1> DEFINE s == <<c>>
           g == [k \in 1 .. 2 |-> IF k = 1 THEN 0 ELSE c.len]
           P(o) == o = [k \in 1 .. Len(s) + 1 |-> IF k = 1 THEN 0 ELSE o[k - 1] + s[k - 1].len]
<1>1. X86!Offsets(s) = CHOOSE o : P(o)
  BY DEF X86!Offsets
<1>2. 1 .. Len(s) + 1 = {1, 2} /\ 1 .. 2 = {1, 2} /\ s[1] = c /\ DOMAIN s = {1}
  OBVIOUS
<1>3. P(g)
  <2>1. g[1] = 0 /\ g[2] = c.len
    BY <1>2
  <2> QED BY <1>2, <2>1
<1>4. \A o : P(o) => o[1] = 0
  BY <1>2
<1> HIDE DEF P
<1>5. P(CHOOSE o : P(o))
  BY <1>3, Zenon
<1>6. X86!Offsets(s)[1] = 0
  BY <1>1, <1>4, <1>5
<1>7. X86!Layout(s, base) =
        [a \in {base + X86!Offsets(s)[k] : k \in {1}} |->
           s[CHOOSE k \in {1} : base + X86!Offsets(s)[k] = a]]
  BY <1>2 DEF X86!Layout
<1>8. {base + X86!Offsets(s)[k] : k \in {1}} = {base}
  BY <1>6
<1>9. (CHOOSE k \in {1} : base + X86!Offsets(s)[k] = base) = 1
  BY <1>6
<1> QED BY <1>2, <1>7, <1>8, <1>9

\* The second instruction follows the first.
LEMMA LayoutOfTwo ==
  ASSUME NEW c, c.len \in Nat, c.len > 0, NEW d, d.len \in Nat, NEW base \in Int
  PROVE  /\ DOMAIN X86!Layout(<<c, d>>, base) = {base, base + c.len}
         /\ X86!Layout(<<c, d>>, base)[base] = c
         /\ X86!Layout(<<c, d>>, base)[base + c.len] = d
<1> DEFINE s == <<c, d>>
           g == [k \in 1 .. 3 |-> CASE k = 1 -> 0 [] k = 2 -> c.len [] OTHER -> c.len + d.len]
           P(o) == o = [k \in 1 .. Len(s) + 1 |-> IF k = 1 THEN 0 ELSE o[k - 1] + s[k - 1].len]
<1>1. X86!Offsets(s) = CHOOSE o : P(o)
  BY DEF X86!Offsets
<1>2. /\ 1 .. Len(s) + 1 = {1, 2, 3} /\ 1 .. 3 = {1, 2, 3}
      /\ s[1] = c /\ s[2] = d /\ DOMAIN s = {1, 2}
  OBVIOUS
<1>3. P(g)
  <2>1. g[1] = 0 /\ g[2] = c.len /\ g[3] = c.len + d.len
    BY <1>2
  <2> QED BY <1>2, <2>1
<1>4. \A o : P(o) => o[1] = 0 /\ o[2] = c.len
  BY <1>2
<1> HIDE DEF P
<1>5. P(CHOOSE o : P(o))
  BY <1>3, Zenon
<1>6. X86!Offsets(s)[1] = 0 /\ X86!Offsets(s)[2] = c.len
  BY <1>1, <1>4, <1>5
<1>7. X86!Layout(s, base) =
        [a \in {base + X86!Offsets(s)[k] : k \in {1, 2}} |->
           s[CHOOSE k \in {1, 2} : base + X86!Offsets(s)[k] = a]]
  BY <1>2 DEF X86!Layout
<1>8. {base + X86!Offsets(s)[k] : k \in {1, 2}} = {base, base + c.len}
  BY <1>6
<1>9. /\ (CHOOSE k \in {1, 2} : base + X86!Offsets(s)[k] = base) = 1
      /\ (CHOOSE k \in {1, 2} : base + X86!Offsets(s)[k] = base + c.len) = 2
  BY <1>6
<1> QED BY <1>2, <1>7, <1>8, <1>9

-----------------------------------------------------------------------------
(***************************************************************************)
(* Where the hooks lead                                                    *)
(***************************************************************************)
\* The backends' modules mean the same by a range.
LEMMA SameRange ==
  ASSUME NEW d
  PROVE  /\ X86!Truncated(d) = Truncated(d) /\ A64!Truncated(d) = Truncated(d)
         /\ RV!Truncated(d) = Truncated(d)
         /\ X86!is_within_range(d) <=> is_within_range(d)
         /\ A64!is_within_range(d) <=> is_within_range(d)
         /\ RV!is_within_range(d) <=> is_within_range(d)
  BY DEF Truncated, X86!Truncated, A64!Truncated, RV!Truncated,
         is_within_range, X86!is_within_range, A64!is_within_range, RV!is_within_range

\* What a single instruction is emitted as.
LEMMA EmitOne ==
  ASSUME NEW c, c.len \in Nat, NEW base \in Int
  PROVE  /\ X86!emit(<<c>>, base) = [a \in {base} |-> X86!generate(c, base)]
         /\ \A x64 : X86!emits(x64, <<c>>, base) => X86!generates(x64, c, base)
<1>1. X86!Layout(<<c>>, base) = [a \in {base} |-> c]
  BY LayoutOfOne
<1>2. X86!emit(<<c>>, base) =
        [a \in DOMAIN X86!Layout(<<c>>, base) |-> X86!generate(X86!Layout(<<c>>, base)[a], a)]
  BY DEF X86!emit
<1>3. \A x64 : X86!emits(x64, <<c>>, base) =>
        \A a \in DOMAIN X86!Layout(<<c>>, base) :
          X86!generates(x64, X86!Layout(<<c>>, base)[a], a)
  BY DEF X86!emits
<1> QED BY <1>1, <1>2, <1>3

\* Two sequences of one.
LEMMA Joined ==
  ASSUME NEW c, NEW d
  PROVE  <<c>> \o <<d>> = <<c, d>>
<1> DEFINE s == <<c>> \o <<d>>
<1>1. <<c>> \in Seq({c, d}) /\ <<d>> \in Seq({c, d}) /\ <<c, d>> \in Seq({c, d})
  OBVIOUS
<1>2. s \in Seq({c, d}) /\ Len(s) = 2 /\ s[1] = c /\ s[2] = d
  BY <1>1
<1> HIDE DEF s
<1>3. s = <<c, d>>
  BY <1>1, <1>2
<1> QED BY <1>3 DEF s

\* And two, the second from `next'.
Two(s, c, d, base, next) ==
  /\ s = <<c, d>> /\ c.len \in Nat /\ c.len > 0 /\ d.len \in Nat
  /\ base \in Int /\ next = base + c.len
Emitted(h, c, d, base, next) ==
  /\ DOMAIN h = {base, next}
  /\ h[base] = X86!generate(c, base) /\ h[next] = X86!generate(d, next)

LEMMA EmitTwo ==
  ASSUME NEW c, NEW d, NEW base, NEW next, NEW s, Two(s, c, d, base, next)
  PROVE  /\ Emitted(X86!emit(s, base), c, d, base, next)
         /\ \A x64 : X86!emits(x64, s, base) => X86!generates(x64, c, base)
<1> DEFINE l == X86!Layout(s, base)
<1>1. DOMAIN l = {base, next} /\ l[base] = c /\ l[next] = d
  <2>1. /\ DOMAIN X86!Layout(<<c, d>>, base) = {base, base + c.len}
        /\ X86!Layout(<<c, d>>, base)[base] = c
        /\ X86!Layout(<<c, d>>, base)[base + c.len] = d
    BY LayoutOfTwo DEF Two
  <2> QED BY <2>1 DEF Two
<1>2. X86!emit(s, base) = [a \in DOMAIN l |-> X86!generate(l[a], a)]
  BY DEF X86!emit
<1>3. \A x64 : X86!emits(x64, s, base) => \A a \in DOMAIN l : X86!generates(x64, l[a], a)
  BY DEF X86!emits
<1> HIDE DEF l
<1>4. Emitted(X86!emit(s, base), c, d, base, next)
  BY <1>1, <1>2 DEF Emitted
<1> QED BY <1>1, <1>3, <1>4

\* The hook's destination is in reach wherever the code relies on that.
LEMMA TargetType ==
  ASSUME Placed(world, text)
  PROVE  /\ HookTarget \in Int /\ HookTarget \in {world.detour, world.relay}
         /\ ~X64 => is_within_range(HookTarget)
<1>1. world \in WorldType /\ world.detour \in Int /\ world.relay \in Int
  BY DEF Placed, WorldType
<1>2. is_within_range(world.relay)
  BY DEF Placed
<1>3. CASE X64
  BY <1>1, <1>3 DEF HookTarget
<1>4. CASE world.arch \in Narrow
  BY <1>1, <1>2, <1>4 DEF HookTarget, Placed
<1>5. CASE world.arch = "a64"
  <2>1. NeedsRelay = ~is_within_range(world.detour)
    BY <1>5, SameRange DEF NeedsRelay, A64!needs_relay, Intel, Riscv
  <2> QED BY <1>1, <1>2, <2>1 DEF HookTarget
<1>6. CASE world.arch = "rv64"
  <2>1. NeedsRelay = (world.detour \notin 1 - DETOUR_RANGE .. DETOUR_RANGE - 2)
    BY <1>6 DEF NeedsRelay, RV!needs_relay, Intel, Riscv
  <2>2. ~NeedsRelay => is_within_range(world.detour)
    <3>1. DETOUR_RANGE \in Nat
      BY BackendAssumption
    <3>2. \A d \in 1 - DETOUR_RANGE .. DETOUR_RANGE - 2 : is_within_range(d)
      BY <3>1 DEF is_within_range
    <3> QED BY <2>1, <3>2
  <2> QED BY <1>1, <1>2, <2>2 DEF HookTarget
<1> QED BY <1>1, <1>3, <1>4, <1>5, <1>6 DEF WorldType, X64

\* A hook is jumps and literals, none of them far from the function's start,
\* and the jumps lead to each other or to the destination.
Leads(h) ==
  /\ 0 \in DOMAIN h /\ DOMAIN h \subseteq -5 .. 4
  /\ \A a \in DOMAIN h :
       /\ h[a].mode \in {"abs", "rel"}
       /\ h[a].op = "data" \/ (h[a].op = "jmp" /\ Operand(h[a], a) \in DOMAIN h \cup {HookTarget})

\* The x86 backends: an area of five bytes, or the hot patch.
LEMMA AreaSize ==
  /\ ~X86!uses_hot_patch(0 .. 4)
  /\ X86!uses_hot_patch(-5 .. 1)
<1>1. Cardinality(0 .. 4) = 5
  <2>1. 0 \in Int /\ 4 \in Int /\ ~(0 > 4) /\ 4 - 0 + 1 = 5
    OBVIOUS
  <2> QED BY <2>1, FS_Interval
<1>2. Cardinality(-5 .. 1) = 7
  <2>1. -5 \in Int /\ 1 \in Int /\ ~(-5 > 1) /\ 1 - (-5) + 1 = 7
    OBVIOUS
  <2> QED BY <2>1, FS_Interval
<1>3. \A S : X86!Cardinality(S) = Cardinality(S)
  BY DEF X86!Cardinality, Cardinality
<1> QED BY <1>1, <1>2, <1>3 DEF X86!uses_hot_patch, X86!JumpRel

\* The relative jump of five bytes, generated at `a', leads to `t': on x86-64
\* because the displacement is in range, on x86 because addresses wrap around.
LEMMA RelativeJump ==
  ASSUME Placed(world, text), Intel, NEW a \in {-5, 0}, NEW c,
         c = Code("jmp", 5, "dest", HookTarget, Lost), X86!generates(X64, c, a)
  PROVE  LET g == X86!generate(c, a)
         IN  g.mode = "rel" /\ g.op = "jmp" /\ Operand(g, a) = HookTarget
<1> DEFINE g == X86!generate(c, a)
           d == HookTarget - (a + 5)
<1>1. /\ HookTarget \in Int /\ d \in Int /\ a \in Int /\ a + 5 \in Int
      /\ a + 5 + d = HookTarget
  BY TargetType
<1>2. DETOUR_RANGE \in Nat /\ DETOUR_RANGE > 0
  BY BackendAssumption
<1>3. c.mode = "dest" /\ c.len = 5 /\ c.val = HookTarget /\ X86!displacement_at(c, a) = d
  BY DEF Code, X86!displacement_at
<1>4. g.mode = "rel" /\ g.op = "jmp" /\ g.len = 5 /\ g.val = Truncated(d)
  <2>1. g = [c EXCEPT !.mode = "rel", !.val = X86!Truncated(X86!displacement_at(c, a))]
    BY <1>3 DEF X86!generate
  <2>2. X86!Truncated(X86!displacement_at(c, a)) = Truncated(d)
    BY <1>3, SameRange
  <2>3. g = [c EXCEPT !.mode = "rel", !.val = Truncated(d)]
    BY <2>1, <2>2
  <2>4. /\ DOMAIN c = {"op", "len", "mode", "val", "flag", "sense", "home", "copy"}
        /\ c.op = "jmp" /\ c.len = 5
    BY DEF Code
  <2> HIDE DEF g, d
  <2> QED BY <2>3, <2>4
<1>5. Operand(g, a) = Wrapped(a + 5 + Truncated(d))
  BY <1>4 DEF Operand
<1> HIDE DEF g, d
<1>6. CASE X64
  <2>1. is_within_range(d)
    BY <1>3, <1>6, SameRange DEF X86!generates
  <2>2. Truncated(d) = d
    BY <1>1, <1>2, <2>1, FitsWhenInRange
  <2> QED BY <1>1, <1>4, <1>5, <1>6, <2>2 DEF Wrapped, X64, g
<1>7. CASE ~X64
  <2>1. is_within_range(a + 5 + d)
    BY <1>1, <1>7, TargetType
  <2>2. Truncated(a + 5 + Truncated(d)) = a + 5 + d
    BY <1>1, <1>2, <2>1, WrapsAround
  <2>3. world.arch \notin {"x64", "a64", "rv64"}
    BY <1>7 DEF Intel, X64
  <2> QED BY <1>1, <1>4, <1>5, <2>2, <2>3 DEF Wrapped, g
<1> QED BY <1>6, <1>7

\* Patcher::hook_template.
LEMMA X86Hook ==
  ASSUME Placed(world, text), Intel, total \in Nat, PatchArea # {}, Hooks
  PROVE  Leads(X86!emit(Template, PatchStart))
<1> DEFINE c == Code("jmp", 5, "dest", HookTarget, Lost)
           d == Code("jmp", 2, "rel", -7, Lost)
           h == X86!emit(Template, PatchStart)
<1>1. c.len = 5 /\ c.len \in Nat /\ d.len = 2 /\ d.len \in Nat /\ c.len > 0
  BY DEF Code
<1>2. world \in WorldType /\ prolog_margin = 5
  BY MarginType DEF Placed
<1>3. PatchArea = 0 .. 4 \/ PatchArea = -5 .. 1
  BY <1>2, AreaShape
<1>4. X86!emits(X64, Template, PatchStart)
  BY DEF Hooks
<1>5. /\ X86!jmp_rel32(HookTarget, Lost) = <<c>>
      /\ X86!jmp_rel8(-X86!JumpRel) = <<d>>
  BY SameCode DEF X86!jmp_rel32, X86!jmp_rel8, X86!JumpRel, X86!JumpShort
<1>6. Template = X86!hook_template(HookTarget, PatchArea)
  BY DEF Template, Intel, Riscv
<1>7. CASE PatchArea = 0 .. 4
  <2>1. ~X86!uses_hot_patch(PatchArea)
    BY <1>7, AreaSize
  <2>2. Template = <<c>> /\ PatchStart = 0
    BY <1>5, <1>6, <2>1 DEF X86!hook_template, PatchStart
  <2>3. h = [a \in {0} |-> X86!generate(c, 0)] /\ X86!generates(X64, c, 0)
    BY <1>1, <1>4, <2>2, EmitOne
  <2> HIDE DEF c, h
  <2>4. /\ X86!generate(c, 0).mode = "rel" /\ X86!generate(c, 0).op = "jmp"
        /\ Operand(X86!generate(c, 0), 0) = HookTarget
    BY <2>3, RelativeJump DEF c
  <2>5. DOMAIN h = {0} /\ h[0] = X86!generate(c, 0)
    BY <2>3
  <2>6. Leads(h)
    BY <2>4, <2>5 DEF Leads
  <2> QED BY <2>6 DEF h
<1>8. CASE PatchArea = -5 .. 1
  <2>1. X86!uses_hot_patch(PatchArea)
    BY <1>8, AreaSize
  <2>2. Template = <<c, d>> /\ PatchStart = -5
    <3> HIDE DEF c, d
    <3>1. <<c>> \o <<d>> = <<c, d>>
      BY Joined, Zenon
    <3> QED BY <1>5, <1>6, <2>1, <3>1 DEF X86!hook_template, PatchStart, X86!JumpRel
  <2>3. /\ DOMAIN h = {-5, 0} /\ h[-5] = X86!generate(c, -5) /\ h[0] = X86!generate(d, 0)
        /\ X86!generates(X64, c, -5)
    <3>1. -5 \in Int /\ -5 + c.len = 0
      BY <1>1
    <3> HIDE DEF c, d
    <3>2. /\ DOMAIN X86!emit(Template, -5) = {-5, 0}
          /\ X86!emit(Template, -5)[-5] = X86!generate(c, -5)
          /\ X86!emit(Template, -5)[0] = X86!generate(d, 0)
          /\ X86!emits(X64, Template, -5) => X86!generates(X64, c, -5)
      <4>1. Two(Template, c, d, -5, 0)
        BY <1>1, <2>2, <3>1 DEF Two
      <4>2. /\ Emitted(X86!emit(Template, -5), c, d, -5, 0)
            /\ X86!emits(X64, Template, -5) => X86!generates(X64, c, -5)
        BY <4>1, EmitTwo, Zenon
      <4> QED BY <4>2 DEF Emitted
    <3> QED BY <1>4, <2>2, <3>2
  <2>4. X86!generate(d, 0) = d
    BY DEF X86!generate, Code
  <2>5. d.mode = "rel" /\ d.op = "jmp" /\ Operand(d, 0) = -5
    <3>1. d.mode = "rel" /\ d.op = "jmp" /\ d.len = 2 /\ d.val = -7
      BY DEF Code
    <3>2. Operand(d, 0) = Wrapped(-5)
      BY <3>1 DEF Operand
    <3>3. Truncated(-5) = -5
      <4>1. is_within_range(-5) /\ DETOUR_RANGE \in Nat /\ DETOUR_RANGE > 0
        BY BackendAssumption DEF is_within_range
      <4> QED BY <4>1, FitsWhenInRange
    <3> QED BY <3>1, <3>2, <3>3 DEF Wrapped
  <2> HIDE DEF c, d, h
  <2>6. /\ X86!generate(c, -5).mode = "rel" /\ X86!generate(c, -5).op = "jmp"
        /\ Operand(X86!generate(c, -5), -5) = HookTarget
    BY <2>3, RelativeJump DEF c
  <2>7. Leads(h)
    BY <2>3, <2>4, <2>5, <2>6 DEF Leads
  <2> QED BY <2>7 DEF h
<1> QED BY <1>3, <1>7, <1>8

\* One instruction at the function's start.
LEMMA OneLeads ==
  ASSUME NEW c, c.len \in Nat, c.op = "jmp", c.mode = "rel", Operand(c, 0) = HookTarget
  PROVE  Leads(X86!emit(<<c>>, 0))
<1> DEFINE h == X86!emit(<<c>>, 0)
<1>1. h = [a \in {0} |-> X86!generate(c, 0)]
  BY EmitOne
<1>2. DOMAIN h = {0} /\ h[0] = c
  <2>1. X86!generate(c, 0) = c
    BY DEF X86!generate
  <2> HIDE DEF h
  <2> QED BY <1>1, <2>1
<1> HIDE DEF h
<1>3. Leads(h)
  BY <1>2 DEF Leads
<1> QED BY <1>3 DEF h

\* AArch64's branch.
LEMMA A64Hook ==
  ASSUME Placed(world, text), world.arch = "a64"
  PROVE  Leads(X86!emit(Template, PatchStart))
<1> DEFINE c == Code("jmp", 4, "rel", HookTarget - 4, Lost)
<1>1. HookTarget \in Int /\ is_within_range(HookTarget)
  BY TargetType DEF X64
<1>2. Truncated(HookTarget) = HookTarget
  BY <1>1, FitsWhenInRange, BackendAssumption
<1>3. Template = <<c>> /\ PatchStart = 0
  BY <1>2, SameCode, SameRange DEF Template, PatchStart, Intel, Riscv, A64!branch_bytes
<1>4. c.len \in Nat /\ c.op = "jmp" /\ c.mode = "rel" /\ Operand(c, 0) = HookTarget
  BY <1>1 DEF Operand, Code, Wrapped
<1> HIDE DEF c
<1> QED BY <1>3, <1>4, OneLeads

\* ARM's load of the program counter, and the literal that it loads.
LEMMA A32Hook ==
  ASSUME Placed(world, text), world.arch \in {"arm", "thumb"}
  PROVE  Leads(X86!emit(Template, PatchStart))
<1> DEFINE c == Code("jmp", 4, "abs", HookTarget, Lost)
           d == Literal(4)
           h == X86!emit(Template, PatchStart)
<1>1. Template = <<c, d>> /\ PatchStart = 0
  BY SameCode DEF Template, PatchStart, Intel, Riscv, A32!hook_bytes, A32!jmp_abs
<1>2. /\ c.len = 4 /\ c.op = "jmp" /\ c.mode = "abs" /\ c.val = HookTarget
      /\ d.len = 4 /\ d.op = "data" /\ d.mode = "abs"
  BY DEF Code, Literal
<1> HIDE DEF c, d
<1>3. DOMAIN h = {0, 4} /\ h[0] = X86!generate(c, 0) /\ h[4] = X86!generate(d, 4)
  <2>1. 0 \in Int /\ 0 + c.len = 4 /\ c.len \in Nat /\ c.len > 0 /\ d.len \in Nat
    BY <1>2
  <2>2. Two(Template, c, d, 0, 4)
    BY <1>1, <2>1 DEF Two
  <2>3. /\ DOMAIN X86!emit(Template, 0) = {0, 4}
        /\ X86!emit(Template, 0)[0] = X86!generate(c, 0)
        /\ X86!emit(Template, 0)[4] = X86!generate(d, 4)
    <3>1. Emitted(X86!emit(Template, 0), c, d, 0, 4)
      BY <2>2, EmitTwo, Zenon
    <3> QED BY <3>1 DEF Emitted
  <2> QED BY <1>1, <2>3
<1>4. X86!generate(c, 0) = c /\ X86!generate(d, 4) = d
  BY <1>2 DEF X86!generate
<1>5. Operand(c, 0) = HookTarget
  BY <1>2 DEF Operand
<1> HIDE DEF h
<1>6. Leads(h)
  BY <1>2, <1>3, <1>4, <1>5 DEF Leads
<1> QED BY <1>6 DEF h

\* A displacement as it fits is a number.
LEMMA TruncatedType ==
  ASSUME DETOUR_RANGE \in Nat, DETOUR_RANGE > 0, NEW d \in Int
  PROVE  Truncated(d) \in Int
<1>1. (d + DETOUR_RANGE) % (2 * DETOUR_RANGE) \in Int
  OBVIOUS
<1> QED BY <1>1 DEF Truncated

\* RISC-V's pair of instructions: the upper part, rounded, and the lower part
\* make up the displacement, or do so where addresses wrap around.
LEMMA RoundedSum ==
  ASSUME DETOUR_RANGE \in Nat, DETOUR_RANGE > 16, Page \in 1 .. DETOUR_RANGE,
         NEW t \in Int, is_within_range(t), NEW k, NEW lo,
         k = (Truncated(t + Page \div 2) \div Page) * Page,
         lo = Truncated(t - k)
  PROVE  /\ k \in Int /\ lo \in Int /\ Truncated(k + lo) = t
         /\ is_within_range(t + Page \div 2) => k + lo = t
<1> DEFINE h == Page \div 2
           u == Truncated(t + h)
           q == u \div Page
           r == u % Page
<1>0. Page \in Nat /\ Page > 0 /\ Page <= DETOUR_RANGE /\ DETOUR_RANGE > 0
  OBVIOUS
<1>1. h \in Nat /\ h < DETOUR_RANGE
  BY <1>0
<1>2. t + h \in Int
  BY <1>1
<1>3. u \in Int
  BY <1>0, <1>2, TruncatedType
<1> HIDE DEF u
<1>4. q \in Int /\ r \in Int /\ 0 <= r /\ r < Page /\ u = Page * q + r /\ Page * q \in Int
  BY <1>0, <1>3, Division
<1>5. k = q * Page
  BY DEF u
<1> HIDE DEF q, r, h
<1>6. q * Page = Page * q
  BY <1>0, <1>4
<1>7. k \in Int /\ u = k + r /\ t - k \in Int /\ k + (t - k) = t
  BY <1>4, <1>5, <1>6
<1>8. lo \in Int
  BY <1>0, <1>7, TruncatedType
<1>9. Truncated(k + lo) = t
  BY <1>0, <1>7, WrapsAround
<1>10. ASSUME is_within_range(t + h)
       PROVE  k + lo = t
  <2>1. u = t + h
    BY <1>0, <1>2, <1>10, FitsWhenInRange DEF u
  <2>2. t - k = r - h
    <3>1. r \in Int /\ h \in Int
      BY <1>1, <1>4
    <3>2. t + h = k + r
      BY <1>7, <2>1
    <3> QED BY <1>7, <3>1, <3>2
  <2>3. is_within_range(t - k)
    BY <1>0, <1>1, <1>4, <2>2 DEF is_within_range
  <2>4. lo = t - k
    BY <1>0, <1>7, <2>3, FitsWhenInRange
  <2> QED BY <1>7, <2>4
<1> QED BY <1>7, <1>8, <1>9, <1>10 DEF h

\* The pair is one jump at the function's start.
LEMMA RVTemplate ==
  ASSUME Placed(world, text), Riscv
  PROVE  \E k \in Int, lo \in Int :
           /\ Template = <<Code("jmp", 8, "rel", k + lo - 8, Lost)>> /\ PatchStart = 0
           /\ Truncated(k + lo) = HookTarget
           /\ RV!rounds(HookTarget) => k + lo = HookTarget
<1> DEFINE t == HookTarget
           k == (Truncated(t + Page \div 2) \div Page) * Page
           lo == Truncated(t - k)
<1>1. t \in Int /\ is_within_range(t)
  BY TargetType DEF X64, Riscv
<1>2. DETOUR_RANGE \in Nat /\ DETOUR_RANGE > 16 /\ Page \in 1 .. DETOUR_RANGE
  BY BackendAssumption
<1>3. Truncated(t) = t
  BY <1>1, <1>2, FitsWhenInRange
<1>4. Template = RV!branch_bytes(t) /\ PatchStart = 0
  BY DEF Template, PatchStart, Intel, Riscv
<1>5. RV!branch_bytes(t) = <<Code("jmp", 8, "rel", k + lo - 8, Lost)>>
  BY <1>3, SameCode, SameRange DEF RV!branch_bytes
<1>6. RV!rounds(t) <=> is_within_range(t + Page \div 2)
  BY SameRange DEF RV!rounds
<1>7. /\ k \in Int /\ lo \in Int /\ Truncated(k + lo) = t
      /\ is_within_range(t + Page \div 2) => k + lo = t
  <2> HIDE DEF t
  <2> QED BY <1>1, <1>2, RoundedSum
<1> HIDE DEF k, lo
<1> QED BY <1>4, <1>5, <1>6, <1>7

\* RISC-V: where the rounding is checked, or addresses wrap around.
LEMMA RVHook ==
  ASSUME Placed(world, text), Riscv, Hooks, Rounding(world)
  PROVE  Leads(X86!emit(Template, PatchStart))
<1>1. PICK k \in Int, lo \in Int :
        /\ Template = <<Code("jmp", 8, "rel", k + lo - 8, Lost)>> /\ PatchStart = 0
        /\ Truncated(k + lo) = HookTarget
        /\ RV!rounds(HookTarget) => k + lo = HookTarget
  BY RVTemplate
<1> DEFINE c == Code("jmp", 8, "rel", k + lo - 8, Lost)
<1>2. c.len = 8 /\ c.op = "jmp" /\ c.mode = "rel" /\ c.val = k + lo - 8
  BY DEF Code
<1> HIDE DEF c
<1>3. Operand(c, 0) = Wrapped(k + lo)
  <2>1. 0 + 8 + (k + lo - 8) = k + lo
    OBVIOUS
  <2> QED BY <1>2, <2>1 DEF Operand
<1>4. Wrapped(k + lo) = HookTarget
  <2>1. CASE world.arch = "rv32"
    BY <1>1, <2>1 DEF Wrapped
  <2>2. CASE world.arch = "rv64"
    <3>1. RV!rounds(HookTarget)
      BY <2>2, TargetType DEF Hooks, Rounding, Riscv, X64
    <3> QED BY <1>1, <2>2, <3>1 DEF Wrapped
  <2> QED BY <2>1, <2>2 DEF Riscv
<1>5. Leads(X86!emit(<<c>>, 0))
  BY <1>2, <1>3, <1>4, OneLeads
<1> QED BY <1>1, <1>5 DEF c

\* Every architecture's hook leads to its destination.
LEMMA HookLeads ==
  ASSUME Placed(world, text), total \in Nat, PatchArea # {}, Hooks, Rounding(world)
  PROVE  Leads(X86!emit(Template, PatchStart))
<1>1. world \in WorldType
  BY DEF Placed
<1> QED BY <1>1, X86Hook, A64Hook, A32Hook, RVHook DEF WorldType, Narrow, Intel, Riscv

\* And is fit to be written, wherever it leads.
LEMMA HookModes ==
  ASSUME Placed(world, text), total \in Nat, PatchArea # {}, Hooks,
         NEW a \in DOMAIN X86!emit(Template, PatchStart)
  PROVE  X86!emit(Template, PatchStart)[a].mode \in {"abs", "rel"}
<1> DEFINE h == X86!emit(Template, PatchStart)
<1>1. CASE Leads(h)
  BY <1>1 DEF Leads
<1>2. CASE Riscv
  <2>1. PICK k \in Int, lo \in Int :
          Template = <<Code("jmp", 8, "rel", k + lo - 8, Lost)>> /\ PatchStart = 0
    BY <1>2, RVTemplate
  <2> DEFINE c == Code("jmp", 8, "rel", k + lo - 8, Lost)
  <2>2. c.len \in Nat /\ c.mode = "rel"
    BY DEF Code
  <2> HIDE DEF c
  <2>3. X86!emit(<<c>>, 0) = [x \in {0} |-> X86!generate(c, 0)]
    BY <2>2, EmitOne
  <2>4. X86!generate(c, 0) = c
    BY <2>2 DEF X86!generate
  <2>5. h = [x \in {0} |-> c]
    BY <2>1, <2>3, <2>4 DEF c
  <2> HIDE DEF h
  <2>6. a \in DOMAIN h => h[a].mode = "rel"
    BY <2>2, <2>5
  <2> QED BY <2>6 DEF h
<1>3. world \in WorldType
  BY DEF Placed
<1> QED BY <1>1, <1>2, <1>3, X86Hook, A64Hook, A32Hook DEF WorldType, Narrow, Intel, Riscv

-----------------------------------------------------------------------------
(***************************************************************************)
(* The invariant                                                           *)
(***************************************************************************)
\* What depends on the world alone.
LEMMA WorldFrame ==
  ASSUME world' = world
  PROVE  /\ prolog_margin' = prolog_margin /\ NeedsRelay' = NeedsRelay
         /\ HookTarget' = HookTarget /\ (Intel <=> Intel') /\ (Riscv <=> Riscv') /\ X64' = X64
<1>1. (Intel <=> Intel') /\ (Riscv <=> Riscv') /\ X64' = X64
  BY DEF Intel, Riscv, X64
<1>2. prolog_margin' = prolog_margin
  BY DEF prolog_margin, Intel, Riscv
<1>3. NeedsRelay' = NeedsRelay
  BY DEF NeedsRelay, Intel, Riscv, X64
<1>4. HookTarget' = HookTarget
  BY <1>3 DEF HookTarget
<1> QED BY <1>1, <1>2, <1>3, <1>4

\* What the patch depends on.
LEMMA PatchFrame ==
  ASSUME world' = world, text' = text, total' = total
  PROVE  /\ PatchArea' = PatchArea /\ Template' = Template /\ PatchStart' = PatchStart
         /\ Hooks' = Hooks
<1>1. Padding' = Padding
  BY DEF Padding, Nops, End, prolog_margin, Intel, Riscv
<1>2. Executable' = Executable
  BY DEF Executable
<1>3. PatchArea' = PatchArea
  BY <1>1, <1>2 DEF PatchArea, Intel, Riscv
<1>4. HookTarget' = HookTarget /\ X64' = X64
  BY WorldFrame
<1>5. Template' = Template
  BY <1>3, <1>4 DEF Template, Intel, Riscv
<1>6. PatchStart' = PatchStart
  BY <1>3 DEF PatchStart, Intel
<1>7. Hooks' = Hooks
  BY <1>4, <1>5, <1>6 DEF Hooks, Riscv
<1> QED BY <1>3, <1>5, <1>6, <1>7

\* The program starts with nothing built.
LEMMA InitInvariant ==
  ASSUME Init
  PROVE  BackendInvariant
<1>1. Placed(world, text)
  BY BackendAssumption DEF Init
<1>2. prolog_margin \in 4 .. 8
  BY <1>1, MarginType DEF Placed, Margins
<1>3. BuildInv
  <2>1. <<>> \in Seq(CodeType) /\ 0 \in 0 .. prolog_margin + 14 /\ 0 < prolog_margin
        /\ -1 \in -1 .. prolog_margin - 1
    BY <1>2
  <2> QED BY <2>1 DEF Init, BuildInv
<1>4. HookInv /\ CodeInv /\ CallInv
  BY DEF Init, HookInv, CodeInv, CallInv
<1> QED BY <1>1, <1>3, <1>4 DEF BackendInvariant

\* A step of the builder.
LEMMA BuildStep ==
  ASSUME BackendInvariant, BuildInstruction
  PROVE  BackendInvariant'
<1> DEFINE i == Decoded(total)
           next == total + i.len
           p == process(i, total, branch, next)
           rest == IF next >= prolog_margin /\ ~p.finished THEN jmp(next, next) ELSE <<>>
<1>1. /\ phase = "build" /\ total' = next /\ branch' = p.branch
      /\ finished' = (p.finished \/ next >= prolog_margin)
      /\ thunks' = thunks \o p.thunk \o rest
      /\ phase' = IF finished' THEN "patch" ELSE "build"
      /\ UNCHANGED <<world, text, made, hooked, entry, cpu>>
  BY DEF BuildInstruction
<1>2. Placed(world, text) /\ BuildInv /\ HookInv /\ CodeInv /\ CallInv
  BY DEF BackendInvariant
<1>3. /\ world \in WorldType /\ prolog_margin \in Margins /\ prolog_margin \in Nat
      /\ prolog_margin' = prolog_margin
  BY <1>1, <1>2, MarginType, WorldFrame DEF Placed
<1>4. /\ total \in Nat /\ total < prolog_margin /\ branch \in -1 .. prolog_margin - 1
      /\ thunks \in Seq(CodeType)
  BY <1>1, <1>2, <1>3 DEF BuildInv
<1>5. i \in InstructionType
  <2>1. CASE total \in DOMAIN text
    BY <1>2, <2>1 DEF Decoded, Placed
  <2>2. CASE total \notin DOMAIN text
    BY <2>2 DEF Decoded, InstructionType, Ops, Flags
  <2> QED BY <2>1, <2>2
<1>6. i.len \in 1 .. 15
  BY <1>5 DEF InstructionType
<1> HIDE DEF i
<1>7. next \in Nat /\ next <= prolog_margin + 14
  <2>1. \A t \in Nat, m \in Nat, n \in 1 .. 15 : t < m => t + n \in Nat /\ t + n <= m + 14
    OBVIOUS
  <2> QED BY <1>3, <1>4, <1>6, <2>1
<1> HIDE DEF next
<1>8. p \in ProcessedType(prolog_margin)
  BY <1>3, <1>4, <1>5, <1>7, ProcessTyped
<1> HIDE DEF p
<1>9. /\ p.thunk \in Seq(CodeType) /\ p.branch \in -1 .. prolog_margin - 1
      /\ p.finished \in BOOLEAN
  BY <1>8 DEF ProcessedType
<1>10. jmp(next, next) \in Seq(CodeType)
  <2>1. next \in Int /\ next \in Int \cup {Lost} /\ "none" \in Flags
    BY <1>7 DEF Flags
  <2> DEFINE j == [op |-> "nop", len |-> 4, to |-> next, flag |-> "none", sense |-> TRUE,
                   imm |-> 0]
  <2>6. j \in InstructionType /\ j.to = next
    BY <2>1 DEF InstructionType, Ops, Flags
  <2> HIDE DEF j
  <2>2. CASE Intel
    <3>1. X64 \in BOOLEAN
      BY DEF X64
    <3>2. X86!jmp(X64, next, next) \in Seq(CodeType)
      BY <2>1, <3>1, X86Typed
    <3> QED BY <2>2, <3>2 DEF jmp, Intel, Riscv
  <2>3. CASE world.arch = "a64"
    <3>1. A64!jmp_abs(next, next) \in Seq(CodeType)
      BY <2>1, <2>6, A64Typed
    <3> QED BY <2>3, <3>1 DEF jmp, Intel, Riscv
  <2>4. CASE Riscv
    <3>1. Word \in {4, 8}
      BY DEF Word
    <3>2. RV!jmp_abs(Word, next, next) \in Seq(CodeType)
      BY <2>1, <2>6, <3>1, RVTyped
    <3> QED BY <2>4, <3>2 DEF jmp, Intel, Riscv
  <2>5. CASE world.arch \in {"arm", "thumb"}
    <3>1. A32!jmp_abs(next, next) \in Seq(CodeType)
      BY <2>1, A32Typed
    <3> QED BY <2>5, <3>1 DEF jmp, Intel, Riscv
  <2> QED BY <1>3, <2>2, <2>3, <2>4, <2>5 DEF WorldType, Narrow, Intel, Riscv
<1>11. thunks' \in Seq(CodeType)
  <2>1. rest \in Seq(CodeType) /\ thunks \o p.thunk \in Seq(CodeType)
    BY <1>4, <1>9, <1>10
  <2> HIDE DEF rest
  <2>2. (thunks \o p.thunk) \o rest \in Seq(CodeType)
    BY <2>1
  <2> QED BY <1>1, <2>2
<1>12. /\ finished' \in BOOLEAN /\ phase' \in {"build", "patch"}
       /\ phase' = "build" => ~(next >= prolog_margin)
  BY <1>1, <1>9
<1>13. BuildInv'
  <2>1. total' \in 0 .. prolog_margin + 14 /\ (phase' = "build" => total' < prolog_margin)
    BY <1>1, <1>3, <1>7, <1>12
  <2> QED BY <1>1, <1>3, <1>9, <1>11, <1>12, <2>1 DEF BuildInv
<1>14. Placed(world, text)' /\ HookInv' /\ CodeInv' /\ CallInv'
  <2>1. Placed(world, text)'
    BY <1>1, <1>2 DEF Placed
  <2>2. HookInv' /\ CodeInv'
    BY <1>1, <1>2, <1>12 DEF HookInv, CodeInv, made
  <2>3. CallInv'
    BY <1>1, <1>2, <1>12 DEF CallInv, cpu
  <2> QED BY <2>1, <2>2, <2>3
<1> QED BY <1>13, <1>14 DEF BackendInvariant

\* What the builder has made stays when it is done.
LEMMA BuiltFrame ==
  ASSUME BackendInvariant, UNCHANGED <<world, text, built>>,
         phase' \in {"build", "patch", "emit", "ready", "run", "failed", "panicked"},
         phase' = "build" => phase = "build"
  PROVE  /\ Placed(world, text)' /\ BuildInv'
         /\ PatchArea' = PatchArea /\ Template' = Template /\ PatchStart' = PatchStart
         /\ Hooks' = Hooks
<1>1. Placed(world, text) /\ BuildInv
  BY DEF BackendInvariant
<1>2. world' = world /\ text' = text /\ total' = total /\ prolog_margin' = prolog_margin
  BY WorldFrame DEF built
<1>3. Placed(world, text)'
  BY <1>1, <1>2 DEF Placed
<1>4. BuildInv'
  BY <1>1, <1>2 DEF BuildInv, built
<1> QED BY <1>2, <1>3, <1>4, PatchFrame

\* A step that fails, and the end of the building.
LEMMA EndStep ==
  ASSUME BackendInvariant, BuildInvalid \/ BuildUnsupported \/ NoPatchArea \/ Panic
  PROVE  BackendInvariant'
<1>1. /\ UNCHANGED <<world, text, built, made, hooked, entry, cpu>>
      /\ phase' \in {"patch", "failed", "panicked"} /\ phase \in {"build", "patch", "emit"}
      /\ phase' = "patch" => phase = "build"
  BY DEF BuildInvalid, BuildUnsupported, NoPatchArea, Panic
<1>2. HookInv /\ CodeInv /\ CallInv
  BY DEF BackendInvariant
<1>3. /\ Placed(world, text)' /\ BuildInv'
      /\ PatchArea' = PatchArea /\ Template' = Template /\ PatchStart' = PatchStart
      /\ Hooks' = Hooks
  <2>1. UNCHANGED <<world, text, built>>
    BY <1>1
  <2>2. /\ phase' \in {"build", "patch", "emit", "ready", "run", "failed", "panicked"}
        /\ phase' # "build"
    BY <1>1
  <2> QED BY <2>1, <2>2, BuiltFrame
<1>4. HookInv'
  <2>1. area' = area /\ hook' = hook
    BY <1>1 DEF made
  <2>2. CASE area = {} /\ hook = <<>> /\ phase \notin {"emit", "ready", "run"}
    BY <1>1, <2>1, <2>2 DEF HookInv
  <2>3. CASE /\ phase \notin {"build", "patch"}
             /\ area = PatchArea /\ area # {}
             /\ Hooks /\ hook = X86!emit(Template, PatchStart)
    <3>1. phase' \notin {"build", "patch"}
      BY <1>1, <2>3
    <3>2. X86!emit(Template, PatchStart)' = X86!emit(Template, PatchStart)
      BY <1>3
    <3> QED BY <1>3, <2>1, <2>3, <3>1, <3>2 DEF HookInv
  <2> QED BY <1>2, <2>2, <2>3 DEF HookInv
<1>5. CodeInv' /\ CallInv'
  BY <1>1, <1>2 DEF CodeInv, CallInv, made, cpu
<1> QED BY <1>3, <1>4, <1>5 DEF BackendInvariant

\* Patcher::new.
LEMMA PatcherStep ==
  ASSUME BackendInvariant, NewPatcher
  PROVE  BackendInvariant'
<1>1. /\ phase = "patch" /\ PatchArea # {} /\ Hooks /\ area' = PatchArea
      /\ hook' = X86!emit(Template, PatchStart) /\ phase' = "emit"
      /\ UNCHANGED <<world, text, built, code, hooked, entry, cpu>>
  BY DEF NewPatcher
<1>2. CodeInv /\ CallInv
  BY DEF BackendInvariant
<1>3. /\ Placed(world, text)' /\ BuildInv'
      /\ PatchArea' = PatchArea /\ Template' = Template /\ PatchStart' = PatchStart
      /\ Hooks' = Hooks
  BY <1>1, BuiltFrame
<1>4. HookInv'
  <2>1. X86!emit(Template, PatchStart)' = X86!emit(Template, PatchStart)
    BY <1>3
  <2> QED BY <1>1, <1>3, <2>1 DEF HookInv
<1>5. CodeInv' /\ CallInv'
  BY <1>1, <1>2 DEF CodeInv, CallInv, cpu
<1> QED BY <1>3, <1>4, <1>5 DEF BackendInvariant

\* The hook stays as it is.
LEMMA HookFrame ==
  ASSUME BackendInvariant, UNCHANGED <<world, text, built, area, hook>>,
         phase \in {"emit", "ready", "run"}, phase' \in {"ready", "run"}
  PROVE  Placed(world, text)' /\ BuildInv' /\ HookInv'
<1>1. /\ Placed(world, text)' /\ BuildInv'
      /\ PatchArea' = PatchArea /\ Template' = Template /\ PatchStart' = PatchStart
      /\ Hooks' = Hooks
  <2>1. /\ phase' \in {"build", "patch", "emit", "ready", "run", "failed", "panicked"}
        /\ phase' # "build" /\ UNCHANGED <<world, text, built>>
    OBVIOUS
  <2> QED BY <2>1, BuiltFrame
<1>2. HookInv
  BY DEF BackendInvariant
<1>3. /\ area = PatchArea /\ area # {}
      /\ Hooks /\ hook = X86!emit(Template, PatchStart)
  BY <1>2 DEF HookInv
<1>4. X86!emit(Template, PatchStart)' = X86!emit(Template, PatchStart)
  BY <1>1
<1>5. HookInv'
  BY <1>1, <1>3, <1>4 DEF HookInv
<1> QED BY <1>1, <1>5

\* allocate_pic.
LEMMA EmitStep ==
  ASSUME BackendInvariant, EmitTrampoline
  PROVE  BackendInvariant'
<1>1. /\ phase = "emit" /\ phase' = "ready" /\ code' = X86!emit(thunks, world.base)
      /\ DOMAIN X86!emit(thunks, world.base)
           \cap (DOMAIN text \cup area \cup {world.detour, world.relay}) = {}
      /\ UNCHANGED <<world, text, built, area, hook, hooked, entry, cpu>>
  BY DEF EmitTrampoline
<1>2. Placed(world, text)' /\ BuildInv' /\ HookInv'
  BY <1>1, HookFrame
<1>3. CodeInv'
  <2>1. DOMAIN code' \cap {world.detour, world.relay} = {}
    BY <1>1
  <2>2. thunks' = thunks /\ world' = world
    BY <1>1 DEF built
  <2> QED BY <1>1, <2>1, <2>2 DEF CodeInv
<1>4. CallInv'
  BY <1>1 DEF CallInv, BackendInvariant, cpu
<1> QED BY <1>2, <1>3, <1>4 DEF BackendInvariant

\* The client's call, and the processor's steps.
LEMMA RunStep ==
  ASSUME BackendInvariant, Call \/ Run
  PROVE  BackendInvariant'
<1>1. /\ phase \in {"ready", "run"} /\ phase' = "run"
      /\ UNCHANGED <<world, text, built, area, hook, code>>
  BY DEF Call, Run, made
<1>2. CodeInv /\ CallInv
  BY DEF BackendInvariant
<1>3. Placed(world, text)' /\ BuildInv' /\ HookInv'
  BY <1>1, HookFrame
<1>4. CodeInv'
  <2>1. thunks' = thunks /\ world' = world /\ code' = code
    BY <1>1 DEF built
  <2> QED BY <1>1, <1>2, <2>1 DEF CodeInv
<1>5. CASE Call
  <2>1. /\ hooked' \in BOOLEAN /\ scratch' = scratch
        /\ entry' \in {"trampoline"} \cup IF hooked' THEN {"function"} ELSE {}
    BY <1>5 DEF Call
  <2>2. CallInv'
    BY <1>2, <2>1 DEF CallInv
  <2> QED BY <1>3, <1>4, <2>2 DEF BackendInvariant
<1>6. CASE Run
  <2>1. scratch' \in {"set", "junk", scratch} /\ UNCHANGED <<phase, hooked, entry>>
    BY <1>6 DEF Run
  <2>2. CallInv'
    BY <1>2, <2>1 DEF CallInv
  <2> QED BY <1>3, <1>4, <2>2 DEF BackendInvariant
<1> QED BY <1>5, <1>6

\* A step that changes nothing.
LEMMA StutterStep ==
  ASSUME BackendInvariant, UNCHANGED vars
  PROVE  BackendInvariant'
<1>1. UNCHANGED <<world, text, phase, built, area, hook, code, hooked, entry, cpu>>
  BY DEF vars, made
<1>2. Placed(world, text) /\ BuildInv /\ HookInv /\ CodeInv /\ CallInv
  BY DEF BackendInvariant
<1>3. /\ Placed(world, text)' /\ BuildInv'
      /\ PatchArea' = PatchArea /\ Template' = Template /\ PatchStart' = PatchStart
      /\ Hooks' = Hooks
  <2>1. phase' \in {"build", "patch", "emit", "ready", "run", "failed", "panicked"}
    BY <1>1, <1>2 DEF BuildInv
  <2> QED BY <1>1, <2>1, BuiltFrame
<1>4. X86!emit(Template, PatchStart)' = X86!emit(Template, PatchStart)
  BY <1>3
<1>5. HookInv'
  BY <1>1, <1>2, <1>3, <1>4 DEF HookInv
<1>6. CodeInv' /\ CallInv'
  BY <1>1, <1>2 DEF CodeInv, CallInv, built, cpu
<1> QED BY <1>3, <1>5, <1>6 DEF BackendInvariant

\* The invariant is inductive: it holds before the builder's first instruction,
\* and whatever the builder, the patcher, the emitter, the client and the
\* processor do next keeps it (Builder::build, Patcher::new, allocate_pic).
THEOREM BackendInductive == Spec => []BackendInvariant
<1>1. Init => BackendInvariant
  BY InitInvariant
<1>2. BackendInvariant /\ [Next]_vars => BackendInvariant'
  BY BuildStep, EndStep, PatcherStep, EmitStep, RunStep, StutterStep DEF Next
<1> QED BY <1>1, <1>2, PTL DEF Spec

-----------------------------------------------------------------------------
(***************************************************************************)
(* What follows                                                            *)
(***************************************************************************)
\* The builder stops within an instruction of the margin, the patch has one of
\* patch_area's shapes, and nothing is written that still needs an address.
THEOREM BackendTypeCorrect == Spec => []TypeOK
<1>1. ASSUME BackendInvariant
      PROVE  TypeOK
  <2>1. Placed(world, text) /\ BuildInv /\ HookInv /\ CodeInv /\ CallInv
    BY <1>1 DEF BackendInvariant
  <2>2. world \in WorldType /\ total \in Nat
    BY <2>1 DEF Placed, BuildInv
  <2>3. area \in {{}, 0 .. prolog_margin - 1, -5 .. 1}
    BY <2>1, <2>2, AreaShape DEF HookInv
  <2>4. -X86!JumpRel .. X86!JumpShort - 1 = -5 .. 1
    BY DEF X86!JumpRel, X86!JumpShort
  <2>5. \A a \in DOMAIN hook : hook[a].mode \in {"abs", "rel"}
    <3>1. CASE hook = <<>>
      BY <3>1
    <3>2. CASE PatchArea # {} /\ Hooks /\ hook = X86!emit(Template, PatchStart)
      BY <2>1, <2>2, <3>2, HookModes
    <3> QED BY <2>1, <3>1, <3>2 DEF HookInv
  <2>6. \A a \in DOMAIN code : code[a].mode \in {"abs", "rel", "spoilt"}
    <3>1. CASE code = <<>>
      BY <3>1
    <3>2. CASE code = X86!emit(thunks, world.base)
      <4>1. thunks \in Seq(CodeType)
        BY <2>1 DEF BuildInv
      <4> QED BY <3>2, <4>1, EmittedModes
    <3> QED BY <2>1, <3>1, <3>2 DEF CodeInv
  <2> QED BY <2>1, <2>3, <2>4, <2>5, <2>6 DEF TypeOK, BuildInv, CallInv
<1> QED BY <1>1, BackendInductive, PTL

\* No byte of a neighbour is patched: what the patch covers and the trampoline
\* has no copy of is padding (is_patchable, is_hot_patchable).
THEOREM OnlyPaddingPatched == Spec => []NeighboursKept
<1>1. ASSUME BackendInvariant
      PROVE  NeighboursKept
  <2>1. Placed(world, text) /\ BuildInv /\ HookInv
    BY <1>1 DEF BackendInvariant
  <2>2. world \in WorldType /\ total \in Nat /\ DOMAIN text \subseteq Nat
    BY <2>1 DEF Placed, BuildInv
  <2>3. X86!HotPatch = -5 .. -1
    BY DEF X86!HotPatch, X86!JumpRel
  <2>4. ASSUME NEW b \in area
        PROVE  \/ b \in 0 .. total - 1
               \/ b < 0 /\ world.above = "pad"
               \/ b >= End /\ world.below = "pad"
               \/ \E a \in DOMAIN text : text[a].op = "nop" /\ b \in a .. a + text[a].len - 1
    <3>1. \/ b \in 0 .. total - 1
          \/ b >= 0 /\ b \in Padding
          \/ b < 0 /\ b \in Padding /\ b \in Executable
      BY <2>1, <2>2, AreaShape DEF HookInv
    <3>2. b \in Int
      <4>1. \A m : m .. prolog_margin - 1 \subseteq Int /\ m .. 1 \subseteq Int
        OBVIOUS
      <4>2. b \in PatchArea
        BY <2>1 DEF HookInv
      <4> HIDE DEF NeighboursKept
      <4> QED BY <2>2, <4>1, <4>2, AreaShape
    <3>3. CASE b \in Padding
      <4>1. \/ b \in -5 .. -1 /\ world.above \in {"pad", "data"}
            \/ \E a \in DOMAIN text : text[a].op = "nop" /\ b \in a .. a + text[a].len - 1
            \/ world.below = "pad" /\ b \in End .. End + prolog_margin
        <5>1. b \in Nops =>
                \E a \in DOMAIN text : text[a].op = "nop" /\ b \in a .. a + text[a].len - 1
          BY DEF Nops
        <5> QED BY <2>3, <3>3, <5>1 DEF Padding
      <4>2. CASE b \in -5 .. -1 /\ world.above \in {"pad", "data"}
        <5>1. b < 0
          BY <4>2
        <5>2. CASE b \in 0 .. total - 1
          BY <5>2
        <5>3. CASE b \in Executable
          BY <4>2, <5>1, <5>3 DEF Executable
        <5> QED BY <3>1, <3>2, <5>1, <5>2, <5>3
      <4>3. ASSUME world.below = "pad", b \in End .. End + prolog_margin
            PROVE  b >= End
        BY <4>3
      <4> QED BY <4>1, <4>2, <4>3
    <3> QED BY <3>1, <3>3
  <2> QED BY <2>4 DEF NeighboursKept
<1> QED BY <1>1, BackendInductive, PTL

\* The first instruction of a jump to an absolute address.
LEMMA RelayJump ==
  ASSUME Placed(world, text), NeedsRelay
  PROVE  LET c == jmp(world.detour, Lost)[1]
         IN  c.op = "jmp" /\ \A a : Operand(c, a) = world.detour
<1> DEFINE c == jmp(world.detour, Lost)[1]
<1>1. X64 \/ world.arch = "a64" \/ Riscv
  BY DEF NeedsRelay, X86!needs_relay, Intel, X64, Riscv
<1>2. c.op = "jmp" /\ c.mode = "abs" /\ c.val = world.detour
  <2>1. CASE X64
    <3>1. c = X86!Code("jmp", 6, "abs", world.detour, Lost)
      <4>1. Intel /\ ~Riscv /\ world.arch # "a64"
        BY <2>1 DEF X64, Intel, Riscv
      <4>2. jmp(world.detour, Lost) = X86!jmp(X64, world.detour, Lost)
        BY <4>1 DEF jmp
      <4>3. X86!jmp(X64, world.detour, Lost) = X86!jmp_abs(world.detour, Lost)
        BY <2>1 DEF X86!jmp
      <4> QED BY <4>2, <4>3 DEF X86!jmp_abs
    <3> QED BY <3>1 DEF X86!Code
  <2>2. CASE world.arch = "a64"
    <3>1. c = [A64!Code("jmp", 8, "abs", world.detour, Lost) EXCEPT !.flag = "clobbers"]
      BY <2>2 DEF jmp, Intel, Riscv, A64!jmp_abs
    <3> QED BY <3>1 DEF A64!Code
  <2>3. CASE Riscv
    <3>1. c = [RV!Code("jmp", 12, "abs", world.detour, Lost) EXCEPT !.flag = "clobbers"]
      BY <2>3 DEF jmp, Intel, Riscv, RV!jmp_abs
    <3> QED BY <3>1 DEF RV!Code
  <2> QED BY <1>1, <2>1, <2>2, <2>3
<1> HIDE DEF c
<1>3. \A a : Operand(c, a) = world.detour
  BY <1>2 DEF Operand
<1> QED BY <1>2, <1>3 DEF c

\* A step of the processor on its way from the hooked function.
LEMMA OnTheWay ==
  ASSUME BackendInvariant, Rounding(world), HookLeadsToDetour, Run, entry = "function"
  PROVE  \/ pc' \in DOMAIN hook \cup {world.detour}
         \/ NeedsRelay /\ pc' = world.relay
<1>1. Placed(world, text) /\ BuildInv /\ HookInv /\ CodeInv /\ CallInv
  BY DEF BackendInvariant
<1>2. phase = "run" /\ hooked /\ total \in Nat
  BY <1>1 DEF Run, CallInv, BuildInv
<1>3. Leads(hook)
  <2>1. PatchArea # {} /\ Hooks /\ hook = X86!emit(Template, PatchStart)
    BY <1>1, <1>2 DEF HookInv
  <2> QED BY <1>1, <1>2, <2>1, HookLeads
<1>4. /\ world.detour \notin DOMAIN hook /\ world.relay \notin DOMAIN hook
      /\ world.detour \notin DOMAIN text /\ world.relay \notin DOMAIN text
  <2>1. {world.detour, world.relay} \cap (DOMAIN text \cup -5 .. 16) = {}
    BY <1>1 DEF Placed, X86!JumpRel
  <2>2. DOMAIN hook \subseteq -5 .. 16
    <3>1. -5 .. 4 \subseteq -5 .. 16
      OBVIOUS
    <3> QED BY <1>3, <3>1 DEF Leads
  <2> QED BY <2>1, <2>2
<1>5. world.detour \notin DOMAIN code /\ world.relay \notin DOMAIN code
  BY <1>1, <1>2 DEF CodeInv
<1>6. /\ Fetchable(pc)
      /\ Execute(Fetch(pc), Done(Fetch(pc)), pc, Operand(Fetch(pc), pc), Load(Fetch(pc), pc))
  BY DEF Run
<1>7. /\ Fetch(pc).op # "data"
      /\ Fetch(pc).op = "jmp" => pc' = Operand(Fetch(pc), pc)
  BY <1>6 DEF Execute
<1>8. CASE pc \in DOMAIN hook
  <2>1. Fetch(pc) = hook[pc]
    BY <1>2, <1>8 DEF Fetch
  <2>2. Operand(hook[pc], pc) \in DOMAIN hook \cup {HookTarget} /\ hook[pc].op = "jmp"
    BY <1>3, <1>7, <1>8, <2>1 DEF Leads
  <2>3. pc' \in DOMAIN hook \cup {HookTarget}
    BY <1>7, <2>1, <2>2
  <2> QED BY <2>3 DEF HookTarget
<1>9. CASE NeedsRelay /\ pc = world.relay
  <2>1. Fetch(pc) = jmp(world.detour, Lost)[1]
    BY <1>4, <1>5, <1>9 DEF Fetch
  <2>2. Fetch(pc).op = "jmp" /\ Operand(Fetch(pc), pc) = world.detour
    BY <1>1, <1>9, <2>1, RelayJump
  <2> QED BY <1>7, <2>2
<1>10. CASE pc = world.detour /\ ~(NeedsRelay /\ pc = world.relay)
  BY <1>4, <1>5, <1>6, <1>10 DEF Fetchable
<1> QED BY <1>2, <1>8, <1>9, <1>10 DEF HookLeadsToDetour

\* A function that is called while it is hooked reaches the detour, or waits in
\* the patch or the relay, wherever the detour is: the branch that the patcher
\* writes spans the distance, or goes through the relay, on every architecture
\* (hook_template, branch_bytes, relay_builder).
THEOREM CallsReachDetour ==
  ASSUME RoundingChecked
  PROVE  Spec => []HookLeadsToDetour
<1> DEFINE I == BackendInvariant /\ Rounding(world) /\ HookLeadsToDetour
<1>1. Init => Rounding(world) /\ HookLeadsToDetour
  BY DEF Init, RoundingChecked, HookLeadsToDetour
<1>2. ASSUME BackendInvariant, Rounding(world), HookLeadsToDetour, [Next]_vars
      PROVE  Rounding(world)' /\ HookLeadsToDetour'
  <2>1. world' = world
    BY <1>2 DEF Next, vars, BuildInstruction, BuildInvalid, BuildUnsupported, NoPatchArea,
       NewPatcher, EmitTrampoline, Panic, Call, Run
  <2>2. Rounding(world)'
    BY <1>2, <2>1
  <2>3. NeedsRelay' = NeedsRelay
    BY <2>1, WorldFrame
  <2>4. CASE BuildInstruction \/ BuildInvalid \/ BuildUnsupported \/ NoPatchArea
             \/ NewPatcher \/ EmitTrampoline \/ Panic
    <3>1. phase' # "run"
      BY <2>4 DEF BuildInstruction, BuildInvalid, BuildUnsupported, NoPatchArea, NewPatcher,
         EmitTrampoline, Panic
    <3> QED BY <2>2, <3>1 DEF HookLeadsToDetour
  <2>5. CASE Call
    <3>1. /\ phase = "ready" /\ hook' = hook
          /\ pc' = IF entry' = "trampoline" THEN world.base ELSE 0
      BY <2>5 DEF Call, made
    <3>2. Leads(hook)
      <4>1. Placed(world, text) /\ BuildInv /\ HookInv
        BY <1>2 DEF BackendInvariant
      <4>2. PatchArea # {} /\ Hooks /\ hook = X86!emit(Template, PatchStart) /\ total \in Nat
        BY <3>1, <4>1 DEF HookInv, BuildInv
      <4> QED BY <1>2, <4>1, <4>2, HookLeads
    <3>3. entry' = "function" => pc' \in DOMAIN hook'
      BY <3>1, <3>2 DEF Leads
    <3> QED BY <2>2, <3>3 DEF HookLeadsToDetour
  <2>6. CASE Run
    <3>1. hook' = hook /\ entry' = entry
      BY <2>6 DEF Run, made
    <3> QED BY <1>2, <2>1, <2>2, <2>3, <2>6, <3>1, OnTheWay DEF HookLeadsToDetour
  <2>7. CASE UNCHANGED vars
    <3>1. UNCHANGED <<phase, entry, pc, hook>>
      BY <2>7 DEF vars, made, cpu
    <3> QED BY <1>2, <2>1, <2>2, <2>3, <3>1 DEF HookLeadsToDetour
  <2> QED BY <1>2, <2>4, <2>5, <2>6, <2>7 DEF Next
<1> QED BY <1>1, <1>2, BackendInductive, PTL DEF Spec
=============================================================================
