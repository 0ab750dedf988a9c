------------------------------- MODULE RepSpec ------------------------------
(***************************************************************************)
(* What a repetition prefix promises: the string opcode is executed once   *)
(* for every count in ecx, or until the zero flag ends a conditional       *)
(* repetition, or until an element fails.  There is no gas here: however   *)
(* often a host lets it run out in the middle of a repetition and resumes, *)
(* nothing but this may happen.                                            *)
(***************************************************************************)
EXTENDS StringOps

VARIABLE result  \* "Ok" while it runs, then how it ended

specVars == <<opVars, dataVars, ecx, result>>

Repeat ==
  /\ result = "Ok" /\ Valid /\ Count # 0
  /\ Element
  /\ ecx' = Decremented
  /\ result' = IF EndsWith(zero') THEN "Done" ELSE "Ok"
  /\ UNCHANGED opVars

End(outcome) == result' = outcome /\ UNCHANGED <<opVars, dataVars, ecx>>

Exhausted == result = "Ok" /\ Valid /\ Count = 0 /\ End("Done")

Failed == result = "Ok" /\ Valid /\ Count # 0 /\ Faults /\ End(FaultKind)

Rejected == result = "Ok" /\ ~Valid /\ End("InvalidOpcodeEncoding")

Next == Repeat \/ Exhausted \/ Failed \/ Rejected

Init == OpTypeOK /\ DataTypeOK /\ result = "Ok"

Spec == Init /\ [][Next]_specVars

=============================================================================
