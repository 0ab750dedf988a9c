--------------------------------- MODULE Isa --------------------------------
(***************************************************************************)
(* What qx86 promises a program: instructions are fetched, decoded,        *)
(* charged and executed one at a time.  Every instruction is the one that  *)
(* memory holds at eip at that moment, and pays what it costs there; a     *)
(* fetch or decoding error is reported when execution reaches it; running  *)
(* out of gas leaves the machine at the instruction that could not be      *)
(* paid.  This is VM::cycle with a pipeline of one slot; Pipeline is shown *)
(* to implement it.                                                        *)
(***************************************************************************)
EXTENDS Vm

(* The slot a one-slot pipeline decodes at address a.                      *)
SlotAt(a) == Decoded(mem[a], IF Code[mem[a]].function \in Rep THEN NoArgs
                             ELSE mem[a], Writeable(a))

Step ==
  /\ result = "Ok"
  /\ Decodable(mem, eip)
  /\ LET p == SlotAt(eip)
     IN  \/ RunOutOfGas(p)
         \/ Nop(p) \/ Increment(p) \/ Mov(p) \/ Enter(p)
         \/ JmpRel(p) \/ JmpEcxIsZero(p) \/ JmpAbs(p)
         \/ Hlt(p) \/ OpUndefined(p) \/ Interrupt(p)
         \/ RepLods(p) \/ RepStos(p) \/ RepMov(p)

FetchError ==
  /\ result = "Ok"
  /\ ~Decodable(mem, eip)
  /\ result' = "ReadMemory"
  /\ UNCHANGED <<mem, eip, gas, ecx, error_eip>>

Resume == \E g \in Refills : HostResume(g)

Next == Step \/ FetchError \/ Resume

(* It may be started on any program and with any amount of gas.            *)
Init == VmTypeOK /\ result = "Ok"

Spec == Init /\ [][Next]_vmVars

=============================================================================
