----------------------------- MODULE PipelineInv ----------------------------
(***************************************************************************)
(* The inductive invariants of Pipeline: how the slots of a cycle are      *)
(* related to one another, to the machine and to code memory.  MCPipeline  *)
(* checks them and PipelineProofs proves them.                             *)
(***************************************************************************)
EXTENDS Pipeline

-----------------------------------------------------------------------------
(* Types                                                                   *)

(* Every slot whose function reads decoded arguments has some.  A rep may  *)
(* run with none, and a nop reads none.                                    *)
ArgsDecoded ==
  \A s \in Slot :
    slots[s].function \notin Rep \union {"nop"} => slots[s].args \in Instrs

TypeInv == TypeOK /\ ArgsDecoded

-----------------------------------------------------------------------------
(* Decoding ahead                                                          *)

(* No instruction moves eip by more than the decoder accounts for.         *)
NoEnter == \A i \in Instrs : Code[i].function # "enter"

(* The programs the machine is started on, and what a hypervisor writes    *)
(* into read-only memory, do not lead the decoder from read-only into      *)
(* writeable memory.                                                       *)
Contained ==
  /\ \A m \in Programs : StaysReadOnly(m)
  /\ \A i \in Instrs :
       LET a == Code[i].to
           v == Code[i].value
       IN  /\ Code[i].function = "interrupt"
           /\ a \in Loaded /\ ~Writeable(a)
           /\ Code[v].function \in Straight \union RelativeJump
           => ~Writeable(Follow(a, v))

(* The same for fetching: what the decoder follows is mapped.  A relative  *)
(* jump with an operand size prefix never decodes.                         *)
Prefetchable ==
  /\ \A m \in Programs : NoPrefetchError(m)
  /\ \A i \in Instrs : Code[i].function # "jmp_rel16"
  /\ \A i \in Instrs :
       LET a == Code[i].to
           v == Code[i].value
       IN  /\ Code[i].function = "interrupt"
           /\ a \in Loaded /\ ~Writeable(a)
           /\ Code[v].function \in Straight \union RelativeJump
           => Follow(a, v) \in Loaded

Continues(p) == p.function \in Straight \union {"jmp_rel"}

(* The slots of this cycle that have been filled.                          *)
Front == IF phase = "fill" THEN 0 .. n - 1 ELSE Slot

Live(s) == s \in Front /\ ~Padding(slots[s])

(* A padding slot does nothing, and only padding follows it.               *)
PaddingInv ==
  \A s \in Front : Padding(slots[s]) =>
    /\ slots[s].function = "nop"
    /\ slots[s].gas_cost = 0
    /\ \A t \in Front : t > s => Padding(slots[t])

(* A slot that execution continues after was decoded with its arguments.   *)
SlotInv ==
  \A s \in Front : Live(s) /\ Continues(slots[s]) =>
    /\ slots[s].args \in Instrs
    /\ Code[slots[s].args].function = slots[s].function
    /\ Code[slots[s].args].size = slots[s].eip_size

(* A slot was decoded where, and with the gas with which, the one before   *)
(* it leaves off; that one could be paid and left gas; and the cycle does  *)
(* not run in writeable memory.                                            *)
After(s, a, g) ==
  /\ Continues(slots[s])
  /\ plan[s].gas > slots[s].gas_cost
  /\ g = plan[s].gas - slots[s].gas_cost
  /\ a = Follow(plan[s].at, slots[s].args)
  /\ ~writeable

ChainInv ==
  \A s, t \in Front : t = s + 1 /\ Live(t) =>
    Live(s) /\ After(s, plan[t].at, plan[t].gas)

(* Where filling stands.                                                   *)
FillInv ==
  phase = "fill" =>
    /\ n = 0 => ~stop_filling /\ at = eip /\ running_gas = gas
                  /\ writeable = Writeable(eip)
    /\ n > 0 => /\ ~Padding(slots[0])
                /\ plan[0] = [at |-> eip, gas |-> gas]
    /\ n > 0 /\ ~stop_filling =>
         Live(n - 1) /\ After(n - 1, at, running_gas)

(* Where execution stands.                                                 *)
ExecInv ==
  phase = "exec" /\ Live(n) =>
    /\ gas = plan[n].gas
    /\ NoEnter => eip = plan[n].at

PlanInv == /\ PaddingInv /\ SlotInv /\ ChainInv
           /\ FillInv /\ ExecInv

(* execute() runs until it has something to return.                        *)
Running == phase # "stopped" => result = "Ok"

Inv == TypeInv /\ Running /\ (phase \in {"fill", "exec"} => PlanInv)

-----------------------------------------------------------------------------
(* Decoding from memory that execution changes                             *)

(* What has been decoded and not executed is what decoding memory now      *)
(* would give, and a cycle stays on its side of the address space.         *)
FreshInv ==
  Contained =>
    /\ \A s \in Front : Live(s) /\ (phase = "exec" => s >= n) =>
         /\ Writeable(plan[s].at) = writeable
         /\ Decodable(mem, plan[s].at)
         /\ slots[s] = Decoded(mem[plan[s].at], slots[s].args, writeable)
         /\ slots[s].function \notin Rep => slots[s].args = mem[plan[s].at]
    /\ phase = "fill" /\ ~stop_filling => Writeable(at) = writeable

CodeInv ==
  /\ Contained => StaysReadOnly(mem)
  /\ Contained /\ Prefetchable => NoPrefetchError(mem)
  /\ phase \in {"fill", "exec"} => FreshInv

(* The two together are inductive: what has been decoded and not executed  *)
(* is one paid run of instructions, and is what memory holds.              *)
Inductive == Inv /\ CodeInv

=============================================================================
