--------------------------------- MODULE Rep --------------------------------
(***************************************************************************)
(* repe and repne, from the moment VM::cycle charges their slot: an        *)
(* iteration of the loop is one action.  When gas runs out execute()       *)
(* returns in the middle of the repetition; a host may resume, and what is *)
(* at eip is then decoded and charged again.  That is the same instruction *)
(* unless its elements have overwritten its own bytes: then this           *)
(* repetition is over, and what comes next is another instruction.         *)
(***************************************************************************)
EXTENDS StringOps

CONSTANTS
  SlotCost,     \* gas of the slot
  ElementCost,  \* gas of the string opcode's tier
  Starts,       \* states a repetition may be started in
  InitialGas,   \* initial values of gas_remaining
  Refills,      \* amounts a host may add
  MaxResumes    \* bound on how often it does

VARIABLES
  phase,    \* "charge", "loop" or "stopped"
  gas,      \* gas_remaining
  result,   \* "Ok" while it runs, "Done" when the slot succeeded, the error,
            \* or "Replaced" when another instruction runs in its place
  resumes,  \* how often the host has resumed
  start,    \* history: memory and registers before the repetition
  began     \* history: gas and count when the loop was last entered

gasVars == <<phase, gas, result, resumes, start, began>>
vars == <<opVars, dataVars, ecx, gasVars>>

ASSUME GasAssumption ==
  /\ SlotCost \in Nat
  /\ ElementCost \in Nat \ {0}
  /\ InitialGas \subseteq Nat
  /\ Refills \subseteq Nat
  /\ MaxResumes \in Nat

ASSUME StartAssumption ==
  Starts \subseteq
    [op : StringOpcodes, unit : 1 .. WordSize, direction : BOOLEAN,
     prefix : {"repe", "repne"}, size_override : BOOLEAN,
     code : SUBSET Mapped, mem : [Mapped -> Byte], esi : Address, edi : Address,
     acc : Accumulator, zero : BOOLEAN, ecx : Address]

(* Mutant: the subtraction does not saturate.                              *)
SaturatingSub_Plain(a, b) == a - b

SaturatingSub(a, b) == IF a >= b THEN a - b ELSE 0

-----------------------------------------------------------------------------
(* VM::cycle and the entry of repe and repne                               *)

ChargeSlot ==
  /\ phase = "charge" /\ gas >= SlotCost
  /\ gas' = gas - SlotCost
  /\ phase' = "loop"
  /\ began' = [gas |-> gas - SlotCost, count |-> Count]
  /\ UNCHANGED <<opVars, dataVars, ecx, result, resumes, start>>

Stop(outcome) == phase' = "stopped" /\ result' = outcome

CannotPaySlot ==
  /\ phase = "charge" /\ gas < SlotCost
  /\ gas' = 0
  /\ Stop("OutOfGas")
  /\ UNCHANGED <<opVars, dataVars, ecx, resumes, start, began>>

RepneRejects ==
  /\ phase = "loop" /\ ~Valid
  /\ Stop("InvalidOpcodeEncoding")
  /\ UNCHANGED <<opVars, dataVars, ecx, gas, resumes, start, began>>

-----------------------------------------------------------------------------
(* One iteration of the loop                                               *)

Looping == phase = "loop" /\ Valid

CountIsZero ==
  /\ Looping /\ Count = 0
  /\ Stop("Done")
  /\ UNCHANGED <<opVars, dataVars, ecx, gas, resumes, start, began>>

OutOfGas ==
  /\ Looping /\ Count # 0 /\ gas = 0
  /\ Stop("OutOfGas")
  /\ UNCHANGED <<opVars, dataVars, ecx, gas, resumes, start, began>>

ElementFails ==
  /\ Looping /\ Count # 0 /\ gas > 0
  /\ Faults
  /\ Stop(FaultKind)
  /\ UNCHANGED <<opVars, dataVars, ecx, gas, resumes, start, began>>

(* Mutants: the gas is looked at again before the count is decremented;    *)
(* the element that ends a search is not paid; a plain rep continues before*)
(* it has counted and paid.                                                *)
Iterate_GasLast(Opcode) ==
  /\ Looping /\ Count # 0 /\ gas > 0
  /\ Opcode
  /\ gas' = SaturatingSub(gas, ElementCost)
  /\ IF gas' = 0 THEN Stop("OutOfGas") /\ UNCHANGED ecx
     ELSE /\ ecx' = Decremented
          /\ IF EndsWith(zero') THEN Stop("Done") ELSE UNCHANGED <<phase, result>>
  /\ UNCHANGED <<opVars, resumes, start, began>>

Iterate_Unpaid(Opcode) ==
  /\ Looping /\ Count # 0 /\ gas > 0
  /\ Opcode
  /\ ecx' = Decremented
  /\ gas' = IF EndsWith(zero') THEN gas ELSE SaturatingSub(gas, ElementCost)
  /\ IF EndsWith(zero') THEN Stop("Done") ELSE UNCHANGED <<phase, result>>
  /\ UNCHANGED <<opVars, resumes, start, began>>

Iterate_ContinuesEarly(Opcode) ==
  /\ Looping /\ Count # 0 /\ gas > 0
  /\ Opcode
  /\ IF op \in Compares
     THEN ecx' = Decremented /\ gas' = SaturatingSub(gas, ElementCost)
     ELSE UNCHANGED <<ecx, gas>>
  /\ IF EndsWith(zero') THEN Stop("Done") ELSE UNCHANGED <<phase, result>>
  /\ UNCHANGED <<opVars, resumes, start, began>>

Iterate(Opcode) ==
  /\ Looping /\ Count # 0 /\ gas > 0
  /\ Opcode
  /\ ecx' = Decremented
  /\ gas' = SaturatingSub(gas, ElementCost)
  /\ IF EndsWith(zero') THEN Stop("Done") ELSE UNCHANGED <<phase, result>>
  /\ UNCHANGED <<opVars, resumes, start, began>>

RepMovs == Iterate(Movs)
RepStos == Iterate(Stos)
RepLods == Iterate(Lods)
RepCmps == Iterate(Cmps)
RepScas == Iterate(Scas)

Loop == \/ RepneRejects \/ CountIsZero \/ OutOfGas \/ ElementFails
        \/ RepMovs \/ RepStos \/ RepLods \/ RepCmps \/ RepScas

(* The host adds gas and calls execute() again, which decodes what is at   *)
(* eip: eip is still at the instruction, and the bytes may have changed.   *)
HostResumes ==
  /\ result = "OutOfGas" /\ resumes < MaxResumes
  /\ \E g \in Refills : gas' = gas + g
  /\ resumes' = resumes + 1
  /\ UNCHANGED <<opVars, dataVars, ecx, start, began>>

Intact == \A a \in code : mem[a] = start.mem[a]

Resume ==
  /\ HostResumes /\ Intact
  /\ phase' = "charge"
  /\ result' = "Ok"

ResumeReplaced ==
  /\ HostResumes /\ ~Intact
  /\ Stop("Replaced")

Next == ChargeSlot \/ CannotPaySlot \/ Loop \/ Resume \/ ResumeReplaced

Init ==
  /\ \E s \in Starts :
       /\ op = s.op /\ unit = s.unit /\ direction = s.direction
       /\ prefix = s.prefix /\ size_override = s.size_override
       /\ code = s.code
       /\ mem = s.mem /\ esi = s.esi /\ edi = s.edi
       /\ acc = s.acc /\ zero = s.zero /\ ecx = s.ecx
  /\ gas \in InitialGas
  /\ phase = "charge"
  /\ result = "Ok"
  /\ resumes = 0
  /\ start = [mem |-> mem, esi |-> esi, edi |-> edi, ecx |-> ecx,
              count |-> Count]
  /\ began = [gas |-> 0, count |-> Count]

Spec == Init /\ [][Next]_vars

(* One thread runs the loop; nothing makes a host resume.                  *)
FairSpec == Spec /\ WF_vars(ChargeSlot \/ CannotPaySlot \/ Loop)

-----------------------------------------------------------------------------
(* Properties                                                              *)

Outcomes == {"Ok", "Done", "OutOfGas", "WroteReadOnlyMemory", "BadMemory",
             "InvalidOpcodeEncoding", "Replaced"}

(* Every variable has the type of the field or local it stands for, and    *)
(* the loop runs only while nothing has been returned.                     *)
TypeOK ==
  /\ OpTypeOK /\ DataTypeOK
  /\ phase \in {"charge", "loop", "stopped"}
  /\ gas \in Nat
  /\ result \in Outcomes
  /\ result = "Ok" <=> phase # "stopped"
  /\ resumes \in 0 .. MaxResumes
  /\ start \in [mem : [Mapped -> Byte], esi : Address, edi : Address,
                ecx : Address, count : Address]
  /\ began \in [gas : Nat, count : Address]

Executed == start.count - Count

(* At every moment, after an error and in the middle of an interrupted     *)
(* repetition too, ecx says how many elements have been executed and esi   *)
(* and edi have moved by exactly that many; with an operand size prefix    *)
(* the upper half of ecx is not touched (repe, repne, decrement_regw).     *)
RegistersAgree ==
  /\ Executed >= 0
  /\ ecx = start.ecx - Executed
  /\ esi = IF op \in Loads THEN Wrap(start.esi + Executed * Stride)
           ELSE start.esi
  /\ edi = IF op \in Compares \union Stores
           THEN Wrap(start.edi + Executed * Stride) ELSE start.edi

(* The i-th byte of what the elements executed so far cover, from a.       *)
Covered == 0 .. Executed * unit - 1
CellOf(a, i) ==
  Wrap((IF direction THEN a - (Executed - 1) * unit ELSE a) + i)

(* Where the j-th element of the block from a on is.                       *)
ElementOf(a, j) == Wrap(a + j * Stride)

(* No element executed so far has read a byte an earlier one had written.  *)
CopiesInOrder ==
  \A j \in 0 .. Executed - 1 : \A k \in 0 .. j - 1 :
    Cells(ElementOf(start.esi, j)) \cap Cells(ElementOf(start.edi, k)) = {}

(* The elements executed so far have copied (movs, in an order that does   *)
(* not overwrite its own source) or filled (stos) exactly the block that   *)
(* the registers say, and every other byte of memory is as it was, after   *)
(* an error or in the middle of an interrupted repetition too.             *)
BlockWritten ==
  op \in Stores =>
    /\ op = "stos" \/ CopiesInOrder =>
         \A i \in Covered :
           mem[CellOf(start.edi, i)] =
             IF op = "stos" THEN acc[i % unit]
             ELSE start.mem[CellOf(start.esi, i)]
    /\ \A c \in Mapped \ {CellOf(start.edi, i) : i \in Covered} :
         mem[c] = start.mem[c]

(* The same element by element: no destination has wrapped around, each is *)
(* mapped and writeable, each source was mapped, and no byte outside the   *)
(* destinations has changed.                                               *)
ElementsWritten ==
  op \in Stores =>
    /\ \A j \in 0 .. Executed - 1 :
         LET to   == ElementOf(start.edi, j)
             from == ElementOf(start.esi, j)
         IN  /\ to = start.edi + j * Stride
             /\ to >= WriteableMemory
             /\ Cells(to) \subseteq Mapped
             /\ op = "movs" => Cells(from) \subseteq Mapped
             /\ op = "stos" \/ CopiesInOrder =>
                  \A t \in 0 .. unit - 1 :
                    mem[to + t] =
                      IF op = "stos" THEN acc[t] ELSE start.mem[from + t]
    /\ \A c \in Mapped :
         \/ mem[c] = start.mem[c]
         \/ \E j \in 0 .. Executed - 1 : c \in Cells(ElementOf(start.edi, j))

(* Whether the j-th elements compared are equal.                           *)
ElementAt(a, j) == Load(ElementOf(a, j))
Matches(j) ==
  ElementAt(start.edi, j) =
    IF op = "scas" THEN AccLow ELSE ElementAt(start.esi, j)

Decides(j) == Matches(j) = (prefix = "repne")

(* A conditional repetition has gone on over elements that do not end it,  *)
(* stops right behind the first one that does, and leaves the zero flag of *)
(* the last comparison; resuming does not compare anything again.          *)
ScanStops ==
  op \in Compares =>
    /\ \A j \in 0 .. Executed - 2 : ~Decides(j)
    /\ Executed > 0 => zero = Matches(Executed - 1)
    /\ Executed > 0 /\ Decides(Executed - 1) => result = "Done"
    /\ result = "Done" =>
         Count = 0 \/ (Executed > 0 /\ Decides(Executed - 1))

(* Each element since the loop was entered has taken its gas, the last one *)
(* what was left of it, and the loop goes on exactly as long as there is   *)
(* any (Repeated of Vm states this for the whole loop in one step); when   *)
(* the host resumes, all of it had been used up.                           *)
GasPaid ==
  /\ result = "OutOfGas" => gas = 0
  /\ LET k    == began.count - Count
         left == SaturatingSub(began.gas, k * ElementCost)
     IN  /\ IF phase = "charge" \/ result = "Replaced" THEN left = 0
             ELSE gas = left
         /\ k > 0 => (k - 1) * ElementCost < began.gas

(* A repetition ends, whatever ecx is.                                     *)
Terminates == result = "Ok" ~> result # "Ok"

(* Gas cannot be noticed in what a repetition does while its own bytes are *)
(* what they were when a host resumes: interrupted anywhere and resumed,   *)
(* it is the uninterrupted repetition.  One that has overwritten itself is *)
(* resumed as another instruction, and has done a part of the whole.       *)
Whole == INSTANCE RepSpec
           WITH result <- IF result \in {"OutOfGas", "Replaced"} THEN "Ok"
                          ELSE result
Uninterrupted == Whole!Spec

=============================================================================
