------------------------------ MODULE Original ------------------------------
(***************************************************************************)
(* What a trampoline promises: to run the function as it was written.      *)
(* `text' is the function, from addresses to instructions, and starts at   *)
(* address 0; an instruction names what it refers to by absolute address   *)
(* (`to').  The run ends when control leaves the text.                     *)
(***************************************************************************)
CONSTANT Caller
VARIABLES text, at, event

LOCAL INSTANCE Processor WITH pc <- at

vars == <<text, at, event>>

Init == at = 0 /\ event = <<"start">>

Next ==
  /\ at \in DOMAIN text
  /\ Execute(text[at], at, at, text[at].to, <<"byte", text[at].to>>)
  /\ UNCHANGED text

Spec == Init /\ [][Next]_vars
=============================================================================
