----------------------------- MODULE PipelineIsa ----------------------------
(***************************************************************************)
(* The pipelined machine against the one-instruction machine: the VM's     *)
(* fields are the same variables in both, the pipeline's are hidden.       *)
(***************************************************************************)
EXTENDS PipelineInv

ISA == INSTANCE Isa

(* Prefetching is not observable: every behaviour of the cycles is one of  *)
(* the machine that fetches, charges and executes one instruction at a     *)
(* time; filling and the padding nops are stuttering steps.                *)
OneAtATime == ISA!Spec

(* What it takes: no logic function moves eip on its own, the decoder is   *)
(* never led into writeable or unmapped memory, and no rep is put on an    *)
(* opcode that reads arguments, which the decoder leaves undecoded.        *)
Transparent ==
  /\ NoEnter
  /\ Contained
  /\ Prefetchable
  /\ \A i \in Instrs : Code[i].function # "rep_mov"

=============================================================================
