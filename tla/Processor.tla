----------------------------- MODULE Processor -----------------------------
(***************************************************************************)
(* The processor, as far as relocated code can tell (external to the       *)
(* repository): what one instruction does to the program counter, and what *)
(* of it a program can observe.                                            *)
(*                                                                         *)
(* An instruction is a record with at least                                *)
(*   op    plain, nop, prefetch, read (a memory operand), jmpmem (a jump   *)
(*         through one), addr (an address is loaded), call, jmp, test (any *)
(*         conditional branch), ret, retif (a conditional return); data    *)
(*         and bad are bytes that are no instruction                       *)
(*   len   its size in bytes                                               *)
(*   flag  what a test tests                                               *)
(*   sense the outcome on which it jumps                                   *)
(*                                                                         *)
(* The outcome of a test is any; the event records what was tested and how *)
(* it came out, so that code that tests something else is told apart.      *)
(***************************************************************************)
EXTENDS Integers

CONSTANT Caller   \* where ret, and a jump through memory, lead

VARIABLES
  pc,     \* the address of the next instruction, or Caller
  event   \* the last thing that was done that the program can observe

\* Instruction `i' at `here': `id' names it, `to' is where it branches to,
\* `cell' is what its memory operand denotes.
Execute(i, id, here, to, cell) ==
  \/ i.op \in {"plain", "nop", "prefetch"} /\ event' = <<"do", id>> /\ pc' = here + i.len
  \/ i.op = "read" /\ event' = <<"read", id, cell>> /\ pc' = here + i.len
  \/ i.op = "addr" /\ event' = <<"addr", id, to>> /\ pc' = here + i.len
  \/ i.op = "jmpmem" /\ event' = <<"jump", id, cell>> /\ pc' = Caller
  \/ i.op = "call" /\ event' = <<"call", to>> /\ pc' = here + i.len
  \/ i.op = "jmp" /\ pc' = to /\ UNCHANGED event
  \/ /\ i.op = "test"
     /\ \E v \in BOOLEAN :
          /\ event' = <<"test", i.flag, v>>
          /\ pc' = IF v = i.sense THEN to ELSE here + i.len
  \/ /\ i.op = "retif"
     /\ \E v \in BOOLEAN :
          event' = <<"test", i.flag, v>> /\ pc' = IF v THEN Caller ELSE here + i.len
  \/ i.op = "ret" /\ event' = <<"ret", id>> /\ pc' = Caller
=============================================================================
