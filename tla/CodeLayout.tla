----------------------------- MODULE CodeLayout -----------------------------
(***************************************************************************)
(* Generated code, and what the four backends say about it alike: the      *)
(* range test, what the builder makes of an instruction, and the layout of *)
(* a sequence of instructions.  Code is a sequence of records              *)
(*   op, len, sense  as in Processor                                       *)
(*   flag  as in Processor for a test; otherwise what the code does to the *)
(*         scratch register of the thunks: "sets", "uses", "clobbers"      *)
(*   mode  how the operand is encoded: "abs" a literal address, "rel" a    *)
(*         displacement from the end of the instruction; and, until the    *)
(*         thunk is generated at an address, "dest" a destination and      *)
(*         "moved" the address of a RIP operand less the length ("spoilt"  *)
(*         if it will be written over the immediate that follows it)       *)
(*   val   the operand                                                     *)
(*   home  where the original function is when this is executed: the       *)
(*         refinement mapping, not part of the code                        *)
(*   copy  are these the bytes of the original instruction?                *)
(***************************************************************************)
EXTENDS Integers, Sequences

CONSTANTS
  Lost,           \* no address of the original function
  DETOUR_RANGE    \* half the reach of the patch's displacement, scaled down

\* Where each instruction of a sequence starts, and where the sequence ends.
Offsets(s) ==
  LET o[k \in 1 .. Len(s) + 1] == IF k = 1 THEN 0 ELSE o[k - 1] + s[k - 1].len
  IN  o
Size(s) == Offsets(s)[Len(s) + 1]

\* The sequence laid out from `base': from addresses to instructions.
Layout(s, base) ==
  LET o == Offsets(s)
  IN  [a \in {base + o[k] : k \in DOMAIN s} |->
         s[CHOOSE k \in DOMAIN s : base + o[k] = a]]

is_within_range(displacement) ==
  -DETOUR_RANGE <= displacement /\ displacement < DETOUR_RANGE

\* A displacement as it fits into the instruction: two's complement.
Truncated(d) == ((d + DETOUR_RANGE) % (2 * DETOUR_RANGE)) - DETOUR_RANGE

Code(op, len, mode, val, home) ==
  [op |-> op, len |-> len, mode |-> mode, val |-> val, flag |-> "none",
   sense |-> TRUE, home |-> home, copy |-> FALSE]
Literal(size) == Code("data", size, "abs", 0, Lost)

\* The builder: instruction `i' at `pc' is copied, becomes `thunk', or fails.
Copied(i, pc) ==
  <<[Code(i.op, i.len, "rel", i.to - (pc + i.len), pc)
       EXCEPT !.flag = i.flag, !.sense = i.sense, !.copy = TRUE]>>
Processed(thunk, branch, finished) ==
  [ok |-> TRUE, thunk |-> thunk, branch |-> branch, finished |-> finished]
UnsupportedInstruction ==
  [ok |-> FALSE, thunk |-> <<>>, branch |-> -1, finished |-> TRUE]

\* `branch' is branch_address, -1 for None.
is_in_branch(pc, branch) == pc < branch
=============================================================================
