------------------------------ MODULE RepProofs -----------------------------
(***************************************************************************)
(* Theorems about Rep, for every memory, every opcode and start, every     *)
(* amount of gas and every cost.                                           *)
(***************************************************************************)
EXTENDS Rep, Mathematics

(* Address arithmetic stays in the address space.                          *)
LEMMA WrapType == ASSUME NEW x \in Int PROVE Wrap(x) \in Address
  BY DivMod, StringAssumption DEF Wrap, Address

(* The count is a natural number no greater than ecx.                      *)
LEMMA CountType ==
  ASSUME OpTypeOK, DataTypeOK
  PROVE  Count \in 0 .. ecx /\ Count \in Address
<1>1. ecx \in Nat /\ ecx <= Space - 1
  BY StringAssumption DEF DataTypeOK, Address
<1>2. Low(ecx) \in 0 .. ecx
  BY <1>1, RemainderBelow, StringAssumption DEF Low
<1>3. Count \in 0 .. ecx BY <1>1, <1>2 DEF Count
<1> QED BY <1>1, <1>3, StringAssumption DEF Address

(* decrement_regw takes one from ecx and from the count, whichever half    *)
(* of the register the count is in.                                        *)
LEMMA CountsDown ==
  ASSUME OpTypeOK, DataTypeOK, Count # 0, ecx' = Decremented,
         UNCHANGED size_override
  PROVE  /\ ecx' = ecx - 1
         /\ ecx' \in Address
         /\ Count' = Count - 1
<1>1. ecx \in Nat BY DEF DataTypeOK, Address
<1>2. Low(ecx) \in 0 .. ecx
  BY <1>1, RemainderBelow, StringAssumption DEF Low
<1>3. ecx' = ecx - 1 BY <1>1, <1>2 DEF Decremented
<1>4. Count \in 0 .. ecx BY CountType
<1>5. ecx' \in Address
  <2>1. ecx \in 0 .. Space - 1 BY DEF DataTypeOK, Address
  <2>2. ecx - 1 \in 0 .. Space - 1 BY <1>1, <1>4, <2>1, StringAssumption
  <2> QED BY <1>3, <2>2 DEF Address
<1>6. CASE size_override
  <2>1. Low(ecx) # 0 BY <1>6 DEF Count
  <2>2. Low(ecx - 1) = Low(ecx) - 1
    BY <1>1, <2>1, Predecessor, StringAssumption DEF Low
  <2> QED BY <1>3, <1>5, <1>6, <2>2 DEF Count
<1>7. CASE ~size_override BY <1>3, <1>5, <1>7 DEF Count
<1> QED BY <1>3, <1>5, <1>6, <1>7 DEF OpTypeOK

(* An element leaves memory and registers with their types.                *)
LEMMA ElementType ==
  ASSUME OpTypeOK, DataTypeOK, Element
  PROVE  /\ mem' \in [Mapped -> Byte]
         /\ esi' \in Address /\ edi' \in Address
         /\ acc' \in Accumulator
         /\ zero' \in BOOLEAN
<1> USE DEF OpTypeOK, DataTypeOK
<1>1. unit \in Nat /\ Stride \in Int BY StringAssumption DEF Stride
<1>2. \A a \in Address : Next1(a) \in Address
  BY <1>1, WrapType DEF Next1, Address
<1>3. ASSUME NEW a \in Address, Accessible(a), NEW i \in 0 .. unit - 1
      PROVE  a + i \in Mapped /\ mem[a + i] \in Byte
  BY <1>1, <1>3 DEF Accessible, Cells, Mapped, Address
<1>4. ASSUME NEW a \in Address, NEW v \in [0 .. unit - 1 -> Byte]
      PROVE  Store(a, v) \in [Mapped -> Byte]
  <2>1. ASSUME NEW c \in Mapped, c \in Cells(a)
        PROVE  c - a \in 0 .. unit - 1
    BY <1>1, <2>1 DEF Cells, Address
  <2> QED BY <2>1 DEF Store
<1>5. ASSUME NEW a \in Address, Accessible(a)
      PROVE  Load(a) \in [0 .. unit - 1 -> Byte]
  BY <1>3, <1>5 DEF Load
<1>6. AccLow \in [0 .. unit - 1 -> Byte]
  <2>1. \A i \in 0 .. unit - 1 : i \in 0 .. WordSize - 1
    BY <1>1, StringAssumption
  <2> QED BY <2>1 DEF AccLow, Accumulator
<1>7. CASE Movs
  <2>1. Accessible(esi) BY <1>7 DEF Movs, Faults, BadRead, Loads
  <2> QED BY <1>2, <1>4, <1>5, <1>7, <2>1 DEF Movs
<1>8. CASE Stos BY <1>2, <1>4, <1>6, <1>8 DEF Stos
<1>9. CASE Lods
  <2>1. Accessible(esi) BY <1>9 DEF Lods, Faults, BadRead, Loads
  <2>2. \A i \in 0 .. WordSize - 1 : i < unit => mem[esi + i] \in Byte
    BY <1>1, <1>3, <2>1, StringAssumption
  <2>3. acc' \in Accumulator BY <1>9, <2>2 DEF Lods, Accumulator
  <2> QED BY <1>2, <1>9, <2>3 DEF Lods
<1>10. CASE Cmps BY <1>2, <1>10 DEF Cmps
<1>11. CASE Scas BY <1>2, <1>11 DEF Scas
<1> QED BY <1>7, <1>8, <1>9, <1>10, <1>11 DEF Element

(* The five repeated opcodes are one: an iteration that executes the       *)
(* element of whichever opcode it is.                                      *)
LEMMA Iterations ==
  ASSUME Loop
  PROVE  RepneRejects \/ CountIsZero \/ OutOfGas \/ ElementFails
           \/ Iterate(Element)
  BY DEF Loop, RepMovs, RepStos, RepLods, RepCmps, RepScas, Iterate, Element

-----------------------------------------------------------------------------

(* Every reachable state has its types (TypeOK).                           *)
THEOREM TypeCorrect == Spec => []TypeOK
<1>1. Init => TypeOK
  <2> SUFFICES ASSUME Init PROVE TypeOK
    OBVIOUS
  <2>1. OpTypeOK /\ DataTypeOK
    BY StartAssumption DEF Init, OpTypeOK, DataTypeOK
  <2>2. Count \in Address
    BY <2>1, CountType DEF DataTypeOK, Address
  <2>3. start \in [mem : [Mapped -> Byte], esi : Address, edi : Address,
                   ecx : Address, count : Address]
    BY <2>1, <2>2 DEF Init, DataTypeOK
  <2>4. began \in [gas : Nat, count : Address]
    BY <2>2 DEF Init
  <2> QED
    BY <2>1, <2>3, <2>4, GasAssumption DEF Init, TypeOK, Outcomes
<1>2. TypeOK /\ [Next]_vars => TypeOK'
  <2> SUFFICES ASSUME TypeOK, [Next]_vars PROVE TypeOK'
    OBVIOUS
  <2> USE DEF TypeOK
  <2>1. Count \in Address
    BY CountType DEF DataTypeOK, Address
  <2>2. FaultKind \in Outcomes
    BY DEF FaultKind, Outcomes
  <2>3. CASE ChargeSlot
    <3>1. gas - SlotCost \in Nat BY <2>3, GasAssumption DEF ChargeSlot
    <3> QED BY <2>1, <2>3, <3>1
         DEF ChargeSlot, opVars, dataVars, OpTypeOK, DataTypeOK
  <2>4. CASE CannotPaySlot
    BY <2>4 DEF CannotPaySlot, Stop, Outcomes, opVars, dataVars, OpTypeOK,
                DataTypeOK
  <2>5. CASE RepneRejects
    BY <2>5 DEF RepneRejects, Stop, Outcomes, opVars, dataVars, OpTypeOK,
                DataTypeOK
  <2>6. CASE CountIsZero
    BY <2>6 DEF CountIsZero, Looping, Stop, Outcomes, opVars, dataVars,
                OpTypeOK, DataTypeOK
  <2>7. CASE OutOfGas
    BY <2>7 DEF OutOfGas, Looping, Stop, Outcomes, opVars, dataVars,
                OpTypeOK, DataTypeOK
  <2>8. CASE ElementFails
    <3>1. FaultKind # "Ok" BY DEF FaultKind
    <3> QED BY <2>2, <2>8, <3>1
         DEF ElementFails, Looping, Stop, opVars, dataVars, OpTypeOK,
             DataTypeOK
  <2>9. CASE Iterate(Element)
    <3>1. DataTypeOK'
      BY <2>9, ElementType, CountsDown DEF Iterate, DataTypeOK, opVars
    <3>2. OpTypeOK'
      BY <2>9 DEF Iterate, opVars, OpTypeOK
    <3>3. gas' \in Nat
      BY <2>9, GasAssumption DEF Iterate, SaturatingSub
    <3>4. /\ phase' \in {"charge", "loop", "stopped"}
          /\ result' \in Outcomes
          /\ result' = "Ok" <=> phase' # "stopped"
      BY <2>9 DEF Iterate, Looping, Stop, Outcomes
    <3> QED BY <2>9, <3>1, <3>2, <3>3, <3>4 DEF Iterate
  <2>10. CASE Resume \/ ResumeReplaced
    <3>0. HostResumes BY <2>10 DEF Resume, ResumeReplaced
    <3>1. gas' \in Nat BY <3>0, GasAssumption DEF HostResumes
    <3>2. resumes' \in 0 .. MaxResumes BY <3>0, GasAssumption DEF HostResumes
    <3>3. /\ phase' \in {"charge", "loop", "stopped"}
          /\ result' \in Outcomes
          /\ result' = "Ok" <=> phase' # "stopped"
      BY <2>10 DEF Resume, ResumeReplaced, Stop, Outcomes
    <3> QED BY <3>0, <3>1, <3>2, <3>3
         DEF HostResumes, opVars, dataVars, OpTypeOK, DataTypeOK
  <2>11. CASE UNCHANGED vars
    BY <2>11 DEF vars, opVars, dataVars, gasVars, OpTypeOK, DataTypeOK
  <2> QED
    BY <2>3, <2>4, <2>5, <2>6, <2>7, <2>8, <2>9, <2>10, <2>11, Iterations
    DEF Next
<1> QED BY <1>1, <1>2, PTL DEF Spec

(* RepSpec speaks of the same opcodes: its operators are those of Rep.     *)
LEMMA SameOperators ==
  /\ Whole!opVars = opVars /\ Whole!dataVars = dataVars
  /\ Whole!OpTypeOK <=> OpTypeOK
  /\ Whole!DataTypeOK <=> DataTypeOK
  /\ Whole!Valid <=> Valid
  /\ Whole!Count = Count
  /\ Whole!Decremented = Decremented
  /\ Whole!Faults <=> Faults
  /\ Whole!FaultKind = FaultKind
  /\ Whole!EndsWith(zero') <=> EndsWith(zero')
  /\ Whole!Element <=> Element
<1>1. Whole!opVars = opVars /\ Whole!dataVars = dataVars
  BY DEF Whole!opVars, opVars, Whole!dataVars, dataVars
<1>2. /\ Whole!OpTypeOK <=> OpTypeOK
      /\ Whole!DataTypeOK <=> DataTypeOK
  BY DEF Whole!OpTypeOK, OpTypeOK, Whole!DataTypeOK, DataTypeOK,
         Whole!StringOpcodes, StringOpcodes, Whole!Loads, Loads,
         Whole!Compares, Compares, Whole!Stores, Stores, Whole!Mapped, Mapped,
         Whole!Address, Address, Whole!Accumulator, Accumulator
<1>3. /\ Whole!Valid <=> Valid
      /\ Whole!Count = Count
      /\ Whole!Decremented = Decremented
      /\ Whole!EndsWith(zero') <=> EndsWith(zero')
  BY DEF Whole!Valid, Valid, Whole!Count, Count, Whole!Decremented,
         Decremented, Whole!EndsWith, EndsWith, Whole!Low, Low,
         Whole!Compares, Compares
<1>4. /\ Whole!Faults <=> Faults
      /\ Whole!FaultKind = FaultKind
  BY DEF Whole!Faults, Faults, Whole!FaultKind, FaultKind, Whole!BadRead,
         BadRead, Whole!ReadOnlyWrite, ReadOnlyWrite, Whole!BadWrite,
         BadWrite, Whole!Accessible, Accessible, Whole!Cells, Cells,
         Whole!Loads, Loads, Whole!Compares, Compares, Whole!Stores, Stores
<1>5. /\ Whole!Next1(esi) = Next1(esi)
      /\ Whole!Next1(edi) = Next1(edi)
      /\ Whole!Load(esi) = Load(esi)
      /\ Whole!Load(edi) = Load(edi)
      /\ Whole!AccLow = AccLow
      /\ \A v : Whole!Store(edi, v) = Store(edi, v)
  BY DEF Whole!Next1, Next1, Whole!Wrap, Wrap, Whole!Stride, Stride,
         Whole!Load, Load, Whole!AccLow, AccLow, Whole!Store, Store,
         Whole!Mapped, Mapped, Whole!Cells, Cells
<1>6. Whole!Element <=> Element
  BY <1>4, <1>5 DEF Whole!Element, Element, Whole!Movs, Movs, Whole!Stos,
     Stos, Whole!Lods, Lods, Whole!Cmps, Cmps, Whole!Scas, Scas
<1> QED BY <1>1, <1>2, <1>3, <1>4, <1>6

(* Interrupted anywhere by the end of its gas and resumed, a repetition is *)
(* the uninterrupted one, unless a host resumes it after it has            *)
(* overwritten its own bytes, when it ends with a part of the whole done:  *)
(* every step of the loop is a step of RepSpec or leaves all that RepSpec  *)
(* speaks of alone (Uninterrupted).                                        *)
THEOREM Refinement == Spec => Uninterrupted
<1>1. Init /\ TypeOK => Whole!Init
  BY SameOperators DEF Init, TypeOK, Whole!Init
<1>2. TypeOK /\ [Next]_vars => [Whole!Next]_Whole!specVars
  <2> SUFFICES ASSUME TypeOK, [Next]_vars
               PROVE  Whole!Next \/ UNCHANGED Whole!specVars
    OBVIOUS
  <2> USE SameOperators DEF TypeOK, Whole!specVars, Whole!opVars, opVars,
                            Whole!dataVars, dataVars
  <2>1. CASE ChargeSlot BY <2>1 DEF ChargeSlot
  <2>2. CASE CannotPaySlot
    BY <2>2 DEF CannotPaySlot, Stop
  <2>3. CASE RepneRejects
    BY <2>3 DEF RepneRejects, Stop, Whole!Next, Whole!Rejected, Whole!End
  <2>4. CASE CountIsZero
    BY <2>4 DEF CountIsZero, Looping, Stop, Whole!Next, Whole!Exhausted,
                Whole!End
  <2>5. CASE OutOfGas
    BY <2>5 DEF OutOfGas, Looping, Stop
  <2>6. CASE ElementFails
    <3>1. FaultKind \notin {"OutOfGas", "Replaced"} BY DEF FaultKind
    <3> QED BY <2>6, <3>1
         DEF ElementFails, Looping, Stop, Whole!Next, Whole!Failed, Whole!End
  <2>7. CASE Iterate(Element)
    <3>1. result = "Ok"
      BY <2>7 DEF Iterate, Looping
    <3>2. result' = IF EndsWith(zero') THEN "Done" ELSE "Ok"
      BY <2>7, <3>1 DEF Iterate, Stop
    <3>3. Whole!Repeat
      BY <2>7, <3>1, <3>2 DEF Iterate, Looping, Whole!Repeat
    <3> QED BY <3>3 DEF Whole!Next
  <2>8. CASE Resume \/ ResumeReplaced
    BY <2>8 DEF Resume, ResumeReplaced, HostResumes, Stop
  <2>9. CASE UNCHANGED vars BY <2>9 DEF vars, gasVars
  <2> QED
    BY <2>1, <2>2, <2>3, <2>4, <2>5, <2>6, <2>7, <2>8, <2>9, Iterations
    DEF Next
<1> QED
  BY <1>1, <1>2, TypeCorrect, PTL DEF Spec, Uninterrupted, Whole!Spec

-----------------------------------------------------------------------------

(* Steps outside the loop body leave memory, registers and their history.  *)
LEMMA OtherSteps ==
  ASSUME [Next]_vars, ~Iterate(Element)
  PROVE  UNCHANGED <<opVars, dataVars, ecx, start>>
  BY Iterations DEF Next, vars, gasVars, ChargeSlot, CannotPaySlot, Resume,
     ResumeReplaced, HostResumes, RepneRejects, CountIsZero, OutOfGas, ElementFails

(* An iteration counts once and moves the index registers of its opcode.   *)
LEMMA IterationAdvances ==
  ASSUME TypeOK, Iterate(Element)
  PROVE  /\ ecx' = ecx - 1
         /\ Count' = Count - 1
         /\ esi' = IF op \in Loads THEN Next1(esi) ELSE esi
         /\ edi' = IF op \in Compares \union Stores THEN Next1(edi) ELSE edi
         /\ UNCHANGED <<opVars, start, began>>
<1>1. ecx' = ecx - 1 /\ Count' = Count - 1
  BY CountsDown DEF TypeOK, Iterate, opVars
<1>2. /\ esi' = IF op \in Loads THEN Next1(esi) ELSE esi
      /\ edi' = IF op \in Compares \union Stores THEN Next1(edi) ELSE edi
  BY DEF Iterate, Element, Movs, Stos, Lods, Cmps, Scas, Loads, Compares,
         Stores
<1> QED BY <1>1, <1>2 DEF Iterate

(* Moving an index register by a number of elements and then by one more.  *)
LEMMA NextElement ==
  ASSUME NEW a \in Int, NEW k \in Int, OpTypeOK
  PROVE  Next1(Wrap(a + k * Stride)) = Wrap(a + (k + 1) * Stride)
<1>1. Stride \in Int BY StringAssumption DEF OpTypeOK, Stride
<1> HIDE DEF Stride
<1> DEFINE s == Stride
           b == a + k * s
<1>2. s \in Int BY <1>1
<1> HIDE DEF s
<1>3. k * s \in Int /\ (k + 1) * s = k * s + s BY <1>2
<1>4. b \in Int BY <1>3
<1>5. b + s = a + (k + 1) * s BY <1>2, <1>3
<1> HIDE DEF b
<1>6. ((b % Space) + s) % Space = (b + s) % Space
  BY <1>2, <1>4, AddRemainder, StringAssumption
<1> QED BY <1>5, <1>6 DEF Next1, Wrap, s, b

(* At every moment ecx, esi and edi agree on how many elements have been   *)
(* executed (RegistersAgree).                                              *)
THEOREM Registers == Spec => []RegistersAgree
<1>1. Init /\ TypeOK => RegistersAgree
  <2> SUFFICES ASSUME Init, TypeOK PROVE RegistersAgree
    OBVIOUS
  <2>1. Count \in Int /\ Stride \in Int /\ ecx \in Int
    BY CountType, StringAssumption
    DEF TypeOK, DataTypeOK, OpTypeOK, Stride, Address
  <2>2. Executed = 0 BY <2>1 DEF Init, Executed
  <2>3. \A a \in Address : Wrap(a + 0 * Stride) = a
    <3> SUFFICES ASSUME NEW a \in Address PROVE Wrap(a + 0 * Stride) = a
      OBVIOUS
    <3>1. a \in 0 .. Space - 1 /\ a + 0 * Stride = Space * 0 + a
      BY <2>1, StringAssumption DEF Address
    <3> QED BY <3>1, RemainderOfSum, StringAssumption DEF Wrap
  <2> QED BY <2>1, <2>2, <2>3 DEF Init, TypeOK, DataTypeOK, RegistersAgree
<1>2. TypeOK /\ RegistersAgree /\ [Next]_vars => RegistersAgree'
  <2> SUFFICES ASSUME TypeOK, RegistersAgree, [Next]_vars
               PROVE  RegistersAgree'
    OBVIOUS
  <2>1. CASE Iterate(Element)
    <3>1. Count \in Int /\ start.count \in Int /\ start.ecx \in Int
          /\ start.esi \in Int /\ start.edi \in Int /\ ecx \in Int
      BY CountType, StringAssumption DEF TypeOK, DataTypeOK, Address
    <3>2. Executed' = Executed + 1 /\ Executed \in Int
      BY <2>1, <3>1, IterationAdvances DEF Executed
    <3>3. Stride' = Stride /\ op' = op
      BY <2>1, IterationAdvances DEF Stride, opVars
    <3>4. \A a \in Int : Next1(Wrap(a + Executed * Stride))
                            = Wrap(a + Executed' * Stride')
      BY <3>2, <3>3, NextElement DEF TypeOK
    <3>5. ecx' = start'.ecx - Executed'
      BY <2>1, <3>1, <3>2, IterationAdvances DEF RegistersAgree
    <3>6. esi' = IF op \in Loads
                 THEN Wrap(start.esi + Executed' * Stride') ELSE start.esi
      BY <2>1, <3>1, <3>4, IterationAdvances DEF RegistersAgree
    <3>7. edi' = IF op \in Compares \union Stores
                 THEN Wrap(start.edi + Executed' * Stride') ELSE start.edi
      BY <2>1, <3>1, <3>4, IterationAdvances DEF RegistersAgree
    <3>8. start' = start
      BY <2>1, IterationAdvances
    <3>9. Executed' >= 0
      BY <3>2 DEF RegistersAgree
    <3> QED BY <3>3, <3>5, <3>6, <3>7, <3>8, <3>9 DEF RegistersAgree
  <2>2. CASE ~Iterate(Element)
    <3>1. UNCHANGED <<opVars, dataVars, ecx, start>> BY <2>2, OtherSteps
    <3> QED
      BY <3>1 DEF opVars, dataVars, RegistersAgree, Executed, Count, Low,
                  Stride, Wrap
  <2> QED BY <2>1, <2>2
<1> QED BY <1>1, <1>2, TypeCorrect, PTL DEF Spec

(* The gas of a repetition (GasPaid): each element since the loop was      *)
(* entered has taken its cost, and the loop runs as long as gas is left.   *)
THEOREM Gas == Spec => []GasPaid
<1> DEFINE Done == began.count - Count
           Left == SaturatingSub(began.gas, Done * ElementCost)
<1>1. Init /\ TypeOK => GasPaid
  <2> SUFFICES ASSUME Init, TypeOK PROVE GasPaid
    OBVIOUS
  <2>1. Count \in Int BY CountType DEF TypeOK, Address
  <2>2. Done = 0 /\ began.gas = 0 BY <2>1 DEF Init
  <2>3. Left = 0 BY <2>2, GasAssumption DEF SaturatingSub
  <2> QED BY <2>2, <2>3 DEF Init, GasPaid
<1>2. TypeOK /\ GasPaid /\ [Next]_vars => GasPaid'
  <2> SUFFICES ASSUME TypeOK, GasPaid, [Next]_vars PROVE GasPaid'
    OBVIOUS
  <2>1. /\ Count \in Int /\ began.count \in Int /\ began.gas \in Nat
        /\ gas \in Nat /\ Done \in Int /\ ElementCost \in Nat
        /\ Done * ElementCost \in Int
    BY CountType, GasAssumption DEF TypeOK, Address
  <2>2. CASE Iterate(Element)
    <3>1. /\ Done' = Done + 1 /\ began' = began
          /\ phase = "loop" /\ phase' # "charge" /\ result' # "OutOfGas"
          /\ result # "Replaced" /\ result' # "Replaced"
          /\ gas > 0 /\ gas' = SaturatingSub(gas, ElementCost)
      BY <2>1, <2>2, IterationAdvances DEF TypeOK, Iterate, Looping, Stop
    <3>2. (Done + 1) * ElementCost = Done * ElementCost + ElementCost
      BY <2>1
    <3>3. gas = began.gas - Done * ElementCost
      BY <2>1, <3>1 DEF GasPaid, SaturatingSub
    <3>4. gas' = SaturatingSub(began.gas, (Done + 1) * ElementCost)
      BY <2>1, <3>1, <3>2, <3>3 DEF SaturatingSub
    <3>5. ((Done + 1) - 1) * ElementCost < began.gas
      <4>1. (Done + 1) - 1 = Done BY <2>1
      <4> QED BY <2>1, <3>1, <3>3, <4>1
    <3> QED BY <3>1, <3>4, <3>5 DEF GasPaid
  <2>3. CASE ChargeSlot
    <3>1. /\ Count' = Count /\ phase' = "loop"
          /\ result' \notin {"OutOfGas", "Replaced"}
          /\ gas' = gas - SlotCost /\ gas' \in Nat
          /\ began' = [gas |-> gas', count |-> Count']
      BY <2>1, <2>3, GasAssumption
      DEF TypeOK, ChargeSlot, Count, Low, opVars
    <3>2. Done' = 0 /\ began'.gas = gas' BY <2>1, <3>1
    <3>3. SaturatingSub(began'.gas, Done' * ElementCost) = gas'
      BY <2>1, <3>1, <3>2 DEF SaturatingSub
    <3> QED BY <3>1, <3>2, <3>3 DEF GasPaid
  <2>4. CASE ~Iterate(Element) /\ ~ChargeSlot
    <3>1. UNCHANGED <<opVars, ecx>> BY <2>4, OtherSteps
    <3>2. Count' = Count BY <3>1 DEF Count, Low, opVars
    <3>3. began' = began
      BY <2>4, Iterations
      DEF Next, vars, gasVars, CannotPaySlot, Resume, ResumeReplaced,
          HostResumes, RepneRejects, CountIsZero, OutOfGas, ElementFails
    <3>4. Done' = Done /\ Left' = Left BY <3>2, <3>3
    <3>5. CASE CannotPaySlot
      BY <3>2, <3>3, <3>5 DEF GasPaid, CannotPaySlot, Stop
    <3>6. CASE Resume \/ ResumeReplaced
      <4>1. result = "OutOfGas"
        BY <3>6 DEF Resume, ResumeReplaced, HostResumes
      <4>2. phase = "stopped" /\ gas = 0
        BY <4>1 DEF TypeOK, GasPaid
      <4>3. phase' = "charge" \/ result' = "Replaced"
        BY <3>6 DEF Resume, ResumeReplaced, Stop
      <4>4. result' # "OutOfGas"
        BY <3>6 DEF Resume, ResumeReplaced, Stop
      <4> QED BY <3>2, <3>3, <4>1, <4>2, <4>3, <4>4 DEF GasPaid
    <3>7. CASE \/ RepneRejects \/ CountIsZero \/ OutOfGas \/ ElementFails
               \/ UNCHANGED vars
      <4>1. /\ gas' = gas
            /\ phase' = "charge" <=> phase = "charge"
            /\ result' = "Replaced" <=> result = "Replaced"
            /\ result' = "OutOfGas" => gas' = 0
        BY <3>7
        DEF TypeOK, GasPaid, RepneRejects, CountIsZero, OutOfGas, ElementFails,
            FaultKind, Looping, Stop, vars, gasVars
      <4> QED BY <3>2, <3>3, <4>1 DEF GasPaid
    <3> QED BY <2>4, <3>5, <3>6, <3>7, Iterations DEF Next
  <2> QED BY <2>2, <2>3, <2>4
<1> QED BY <1>1, <1>2, TypeCorrect, PTL DEF Spec

(* A search goes on over elements that do not decide it and stops right    *)
(* behind the first one that does, however often it is interrupted         *)
(* (ScanStops).                                                            *)
THEOREM Search == Spec => []ScanStops
<1>1. Init /\ TypeOK => ScanStops
  <2> SUFFICES ASSUME Init, TypeOK PROVE ScanStops
    OBVIOUS
  <2>1. Executed = 0
    BY CountType DEF Init, TypeOK, Executed, Address
  <2> QED BY <2>1 DEF Init, ScanStops
<1>2. TypeOK /\ RegistersAgree /\ ScanStops /\ [Next]_vars => ScanStops'
  <2> SUFFICES ASSUME TypeOK, RegistersAgree, ScanStops, [Next]_vars,
                      op' \in Compares
               PROVE  ScanStops'
    BY DEF ScanStops
  <2>1. CASE Iterate(Element)
    <3>1. op \in Compares /\ UNCHANGED <<opVars, start>>
      BY <2>1 DEF Iterate, opVars
    <3>2. UNCHANGED <<mem, acc>>
      BY <2>1, <3>1
      DEF Iterate, Element, Movs, Stos, Lods, Cmps, Scas, Compares
    <3>3. Executed \in Int /\ Executed' = Executed + 1
      BY <2>1, CountType, IterationAdvances DEF TypeOK, Executed, Address
    <3>4. \A j : (Matches(j) <=> Matches(j)') /\ (Decides(j) <=> Decides(j)')
      BY <3>1, <3>2 DEF opVars, Matches, Decides, ElementAt, ElementOf, Load,
                        AccLow, Stride, Wrap
    <3>5. PICK e \in Nat : e = Executed
      BY <3>3 DEF RegistersAgree
    <3>6. zero' <=> Matches(e)
      <4>1. CASE op = "cmps"
        <5>1. zero' = (Load(esi) = Load(edi))
          BY <2>1, <4>1 DEF Iterate, Element, Movs, Stos, Lods, Cmps, Scas
        <5>2. Load(esi) = ElementAt(start.esi, e)
          BY <3>5, <4>1 DEF RegistersAgree, ElementAt, ElementOf, Loads
        <5>3. Load(edi) = ElementAt(start.edi, e)
          BY <3>5, <4>1 DEF RegistersAgree, ElementAt, ElementOf, Compares
        <5> QED BY <4>1, <5>1, <5>2, <5>3 DEF Matches
      <4>2. CASE op = "scas"
        <5>1. zero' = (AccLow = Load(edi))
          BY <2>1, <4>2 DEF Iterate, Element, Movs, Stos, Lods, Cmps, Scas
        <5>2. Load(edi) = ElementAt(start.edi, e)
          BY <3>5, <4>2 DEF RegistersAgree, ElementAt, ElementOf, Compares
        <5> QED BY <4>2, <5>1, <5>2 DEF Matches
      <4> QED BY <3>1, <4>1, <4>2 DEF Compares
    <3>7. result = "Ok" /\ (result' = "Done" <=> EndsWith(zero'))
      BY <2>1 DEF Iterate, Looping, Stop, TypeOK
    <3>8. zero' \in BOOLEAN /\ Matches(e) \in BOOLEAN
      BY <2>1, ElementType DEF TypeOK, Iterate, Matches
    <3>9. EndsWith(zero') <=> Decides(e)
      BY <3>1, <3>6, <3>8 DEF EndsWith, Decides
    <3>10. \A j \in 0 .. e - 1 : ~Decides(j)
      <4> SUFFICES ASSUME NEW j \in 0 .. e - 1 PROVE ~Decides(j)
        OBVIOUS
      <4>1. CASE j = e - 1
        BY <3>1, <3>5, <3>7, <4>1 DEF ScanStops
      <4>2. CASE j # e - 1
        <5>1. j \in 0 .. Executed - 2 BY <3>5, <4>2
        <5> QED BY <3>1, <5>1 DEF ScanStops
      <4> QED BY <4>1, <4>2
    <3>11. Executed' = e + 1 /\ Executed' - 1 = e /\ Executed' - 2 = e - 1
      BY <3>3, <3>5
    <3>12. \A j \in 0 .. Executed' - 2 : ~Decides(j)'
      BY <3>4, <3>10, <3>11
    <3>13. /\ Matches(Executed - 1)' <=> Matches(e)'
           /\ Decides(Executed - 1)' <=> Decides(e)'
      BY <3>11 DEF Matches, Decides, ElementAt, ElementOf
    <3>14. /\ zero' = Matches(Executed - 1)'
           /\ result' = "Done" <=> Decides(Executed - 1)'
      <4>1. Matches(Executed - 1)' \in BOOLEAN BY DEF Matches
      <4>2. zero' <=> Matches(Executed - 1)' BY <3>4, <3>6, <3>13
      <4>3. zero' = Matches(Executed - 1)' BY <3>8, <4>1, <4>2
      <4>4. (result' = "Done") <=> Decides(Executed - 1)'
        BY <3>4, <3>7, <3>9, <3>13
      <4> QED BY <4>3, <4>4
    <3> QED BY <3>5, <3>11, <3>12, <3>14 DEF ScanStops
  <2>2. CASE ~Iterate(Element)
    <3>1. UNCHANGED <<opVars, dataVars, ecx, start>> BY <2>2, OtherSteps
    <3>2. /\ result = "Done" => result' = "Done"
          /\ result' = "Done" => result = "Done" \/ Count' = 0
      <4>1. Count' = Count BY <3>1 DEF Count, Low, opVars
      <4> QED
        BY <2>2, <4>1, Iterations
        DEF TypeOK, Next, vars, gasVars, ChargeSlot, CannotPaySlot, Resume,
            ResumeReplaced, HostResumes, RepneRejects, CountIsZero, OutOfGas, ElementFails, FaultKind,
            Looping, Stop
    <3>3. /\ Executed' = Executed /\ Count' = Count /\ zero' = zero
          /\ \A j : Matches(j)' = Matches(j) /\ Decides(j)' = Decides(j)
      BY <3>1 DEF opVars, dataVars, Executed, Count, Low, Matches, Decides,
                  ElementAt, ElementOf, Load, AccLow, Stride,
                  Wrap
    <3> QED BY <3>1, <3>2, <3>3 DEF ScanStops, opVars
  <2> QED BY <2>1, <2>2
<1> QED BY <1>1, <1>2, TypeCorrect, Registers, PTL DEF Spec

-----------------------------------------------------------------------------
(* What repeated movs and stos leave in memory                             *)

LEMMA StrideType ==
  ASSUME OpTypeOK
  PROVE  /\ unit \in Nat \ {0}
         /\ Stride \in Int
         /\ Stride = unit \/ Stride = -unit
  BY StringAssumption DEF OpTypeOK, Stride

LEMMA WrapAddress == ASSUME NEW a \in Address PROVE Wrap(a) = a
<1>1. a \in 0 .. Space - 1 /\ a = Space * 0 + a
  BY StringAssumption DEF Address
<1> QED BY <1>1, RemainderOfSum, StringAssumption DEF Wrap

(* A block that goes on behind writeable memory has not wrapped around:    *)
(* what follows the last address is read-only.                             *)
LEMMA NextDestination ==
  ASSUME OpTypeOK, NEW a \in Address, a >= WriteableMemory,
         Cells(a) \subseteq Address,
         Next1(a) >= WriteableMemory, Cells(Next1(a)) \subseteq Address
  PROVE  Next1(a) = a + Stride
<1>1. /\ unit \in Nat \ {0} /\ a + unit - 1 \in 0 .. Space - 1
      /\ Space \in Nat \ {0} /\ a \in 0 .. Space - 1
      /\ WriteableMemory \in Nat \ {0}
  <2>1. unit \in Nat \ {0} /\ a + unit - 1 \in Cells(a)
    BY StrideType DEF Cells, Address
  <2> QED BY <2>1, StringAssumption DEF Address
<1>2. CASE a + Stride \in Address
  BY <1>2, WrapAddress DEF Next1
<1>3. CASE a + Stride \notin Address /\ ~direction
  <2>1. a + Stride = Space * 1 + 0
    BY <1>1, <1>3 DEF Stride, Address
  <2>2. Next1(a) = 0
    BY <1>1, <2>1, RemainderOfSum DEF Next1, Wrap
  <2> QED BY <1>1, <2>2
<1>4. CASE a + Stride \notin Address /\ direction
  <2>1. /\ a + Stride = Space * (-1) + (Space + a - unit)
        /\ Space + a - unit \in 0 .. Space - 1
    BY <1>1, <1>4 DEF Stride, Address
  <2>2. Next1(a) = Space + a - unit
    BY <1>1, <2>1, RemainderOfSum DEF Next1, Wrap
  <2>3. Next1(a) + unit - 1 \in Cells(Next1(a))
    BY <1>1, <2>2 DEF Cells
  <2> QED BY <1>1, <2>2, <2>3 DEF Address
<1> QED BY <1>2, <1>3, <1>4

(* Different elements of a block that does not wrap share no byte.         *)
LEMMA ElementsApart ==
  ASSUME OpTypeOK, NEW a \in Int, NEW j \in Int, NEW k \in Int, j # k,
         NEW s \in 0 .. unit - 1, NEW t \in 0 .. unit - 1
  PROVE  a + j * Stride + s # a + k * Stride + t
<1> DEFINE u == unit
           d == j - k
<1>1. u \in Nat \ {0} /\ s - t < u /\ t - s < u /\ s \in Int /\ t \in Int
  BY StrideType
<1>2. d \in Int /\ d # 0 OBVIOUS
<1>3. d * u >= u \/ d * u <= -u
  <2>1. CASE d > 0
    <3> HIDE DEF d, u
    <3>1. (d - 1) * u >= 0 BY <1>1, <1>2, <2>1, Z3
    <3> QED BY <1>1, <1>2, <3>1
  <2>2. CASE d < 0
    <3> HIDE DEF d, u
    <3>1. (d + 1) * u <= 0 BY <1>1, <1>2, <2>2, Z3
    <3> QED BY <1>1, <1>2, <3>1
  <2> QED BY <1>2, <2>1, <2>2
<1>4. j * u - k * u = d * u
  <2> HIDE DEF u
  <2> QED BY <1>1
<1>5. j * Stride - k * Stride = d * u \/ j * Stride - k * Stride = -(d * u)
  <2>1. CASE Stride = u BY <1>4, <2>1
  <2>2. CASE Stride = -u
    <3>1. j * Stride = -(j * u) /\ k * Stride = -(k * u)
      <4> HIDE DEF u
      <4> QED BY <1>1, <2>2
    <3>2. j * u \in Int /\ k * u \in Int BY <1>1
    <3> QED BY <1>4, <3>1, <3>2
  <2> QED BY <2>1, <2>2, StrideType
<1>6. d * u \in Int /\ j * Stride \in Int /\ k * Stride \in Int
  BY <1>1, <1>2, StrideType
<1> HIDE DEF d, u
<1> QED BY <1>1, <1>3, <1>5, <1>6

(* What the registers say of the element about to be executed: it goes     *)
(* right behind the one before it, and what was written is not read.       *)
LEMMA WhereNext ==
  ASSUME TypeOK, RegistersAgree, ElementsWritten, Iterate(Element),
         op \in Stores
  PROVE  /\ Executed \in Nat
         /\ edi = ElementOf(start.edi, Executed)
         /\ edi = start.edi + Executed * Stride
         /\ edi >= WriteableMemory
         /\ Cells(edi) \subseteq Mapped
         /\ op = "movs" => /\ esi = ElementOf(start.esi, Executed)
                           /\ Cells(esi) \subseteq Mapped
<1>1. PICK e \in Nat : e = Executed
  BY CountType DEF TypeOK, RegistersAgree, Executed, Address
<1>2. /\ edi = ElementOf(start.edi, e)
      /\ op = "movs" => esi = ElementOf(start.esi, e)
  BY <1>1 DEF RegistersAgree, ElementOf, Stores, Compares, Loads
<1>3. /\ edi >= WriteableMemory /\ Cells(edi) \subseteq Mapped
      /\ op = "movs" => Cells(esi) \subseteq Mapped
  <2>1. ~Faults
    BY DEF Iterate, Element, Movs, Stos, Lods, Cmps, Scas, Stores
  <2>2. edi >= WriteableMemory
    BY <2>1, StringAssumption
    DEF Faults, ReadOnlyWrite, TypeOK, DataTypeOK, Address
  <2>3. Accessible(edi) /\ (op = "movs" => Accessible(esi))
    BY <2>1, <2>2 DEF Faults, BadRead, BadWrite, Loads
  <2> QED BY <2>2, <2>3 DEF Accessible, Mapped
<1>4. edi = start.edi + e * Stride
  <2>1. start.edi \in Address /\ start.edi \in Int
    BY StringAssumption DEF TypeOK, Address
  <2>2. CASE e = 0
    <3>1. start.edi + e * Stride = start.edi
      BY <2>1, <2>2, StrideType DEF TypeOK
    <3> QED BY <1>2, <2>1, <3>1, WrapAddress DEF ElementOf
  <2>3. CASE e # 0
    <3> DEFINE d == ElementOf(start.edi, e - 1)
    <3>1. /\ d = start.edi + (e - 1) * Stride
          /\ d >= WriteableMemory /\ Cells(d) \subseteq Mapped
      BY <1>1, <2>3 DEF ElementsWritten
    <3>2. d \in Address /\ Mapped \subseteq Address
      <4>1. (e - 1) * Stride \in Int BY StrideType DEF TypeOK
      <4> QED BY <2>1, <4>1, WrapType, StringAssumption
           DEF ElementOf, Mapped
    <3>3. Next1(d) = edi
      BY <1>2, <2>1, NextElement DEF TypeOK, ElementOf
    <3>4. edi = d + Stride
      BY <1>3, <3>1, <3>2, <3>3, NextDestination DEF TypeOK
    <3>5. (e - 1) * Stride + Stride = e * Stride /\ (e - 1) * Stride \in Int
      BY StrideType DEF TypeOK
    <3> QED BY <2>1, <3>1, <3>4, <3>5, StrideType DEF TypeOK
  <2> QED BY <2>2, <2>3
<1> QED BY <1>1, <1>2, <1>3, <1>4

(* An element adds its own bytes to what is written and changes no other.  *)
LEMMA ElementWritten ==
  ASSUME TypeOK, RegistersAgree, ElementsWritten, Iterate(Element),
         op \in Stores
  PROVE  ElementsWritten'
<1> DEFINE To(j)   == ElementOf(start.edi, j)
           From(j) == ElementOf(start.esi, j)
<1>1. PICK e \in Nat : e = Executed
  BY WhereNext
<1>2. /\ UNCHANGED <<op, unit, Stride, start>>
      /\ \A a, j : ElementOf(a, j)' = ElementOf(a, j)
      /\ \A a : Cells(a)' = Cells(a)
  BY DEF Iterate, opVars, Stride, ElementOf, Wrap, Cells
<1>3. Executed' = e + 1
  BY <1>1, CountType, IterationAdvances DEF TypeOK, Executed, Address
<1>4. CopiesInOrder' => /\ CopiesInOrder
                        /\ \A k \in 0 .. e - 1 : Cells(From(e)) \cap Cells(To(k)) = {}
  BY <1>1, <1>2, <1>3 DEF CopiesInOrder
<1>5. /\ edi = To(e) /\ edi = start.edi + e * Stride
      /\ edi >= WriteableMemory /\ Cells(edi) \subseteq Mapped
      /\ op = "movs" => esi = From(e) /\ Cells(esi) \subseteq Mapped
  BY <1>1, WhereNext
<1>6. unit \in Nat \ {0} /\ start.edi \in Int
  BY StrideType, StringAssumption DEF TypeOK, Address
<1>7. /\ UNCHANGED acc
      /\ op = "stos" => mem' = Store(edi, AccLow)
      /\ op = "movs" => mem' = Store(edi, Load(esi))
  BY DEF Iterate, Element, Movs, Stos, Lods, Cmps, Scas, Stores
<1>8. \A c \in Mapped \ Cells(edi) : mem'[c] = mem[c]
  BY <1>7 DEF Store, Stores
<1>9. \A t \in 0 .. unit - 1 :
        mem'[edi + t] = IF op = "stos" THEN acc[t] ELSE mem[esi + t]
  <2> SUFFICES ASSUME NEW t \in 0 .. unit - 1
               PROVE mem'[edi + t] = IF op = "stos" THEN acc[t] ELSE mem[esi + t]
    OBVIOUS
  <2>1. edi + t \in Cells(edi) /\ (edi + t) - edi = t /\ edi + t \in Mapped
    BY <1>5, <1>6 DEF TypeOK, DataTypeOK, Address, Cells
  <2> QED BY <1>7, <2>1 DEF Store, Load, AccLow, Stores
<1>10. ASSUME NEW j \in 0 .. e - 1, NEW t \in 0 .. unit - 1
       PROVE  mem'[To(j) + t] = mem[To(j) + t]
  <2>1. To(j) = start.edi + j * Stride /\ Cells(To(j)) \subseteq Mapped
    BY <1>1 DEF ElementsWritten
  <2>2. To(j) + t \in Cells(To(j))
    BY <1>6, <2>1, StrideType DEF Cells, TypeOK
  <2>3. To(j) + t \notin Cells(edi)
    <3> SUFFICES ASSUME To(j) + t \in Cells(edi) PROVE FALSE
      OBVIOUS
    <3>1. PICK s \in 0 .. unit - 1 : To(j) + t = edi + s
      <4>1. (To(j) + t) - edi \in 0 .. unit - 1
        BY <1>5, <1>6, <2>1, StrideType DEF Cells, TypeOK, DataTypeOK, Address
      <4>2. To(j) + t = edi + ((To(j) + t) - edi)
        BY <1>6, <2>1, StrideType DEF TypeOK, DataTypeOK, Address
      <4> QED BY <4>1, <4>2
    <3> QED BY <1>5, <1>6, <2>1, <3>1, ElementsApart DEF TypeOK
  <2> QED BY <1>8, <2>1, <2>2, <2>3
<1>11. ASSUME op = "movs", CopiesInOrder', NEW t \in 0 .. unit - 1
       PROVE  mem[From(e) + t] = start.mem[From(e) + t]
  <2>1. From(e) + t \in Cells(From(e)) /\ From(e) + t \in Mapped
    BY <1>5, <1>6, <1>11 DEF TypeOK, DataTypeOK, Address, Cells
  <2> QED BY <1>1, <1>4, <1>11, <2>1 DEF ElementsWritten
<1>12. ASSUME NEW j \in 0 .. e
       PROVE  /\ To(j) = start.edi + j * Stride
              /\ To(j) >= WriteableMemory
              /\ Cells(To(j)) \subseteq Mapped
              /\ op = "movs" => Cells(From(j)) \subseteq Mapped
  <2>1. CASE j = e BY <1>5, <2>1
  <2>2. CASE j # e
    <3>1. j \in 0 .. Executed - 1 BY <1>1, <2>2
    <3> QED BY <3>1 DEF ElementsWritten
  <2> QED BY <2>1, <2>2
<1>13. ASSUME NEW j \in 0 .. e, op = "stos" \/ CopiesInOrder',
              NEW t \in 0 .. unit - 1
       PROVE  mem'[To(j) + t] =
                IF op = "stos" THEN acc[t] ELSE start.mem[From(j) + t]
  <2>1. CASE j = e
    BY <1>5, <1>9, <1>11, <1>13, <2>1 DEF Stores
  <2>2. CASE j # e
    <3>1. j \in 0 .. e - 1 BY <2>2
    <3>2. mem[To(j) + t] =
            IF op = "stos" THEN acc[t] ELSE start.mem[From(j) + t]
      BY <1>1, <1>4, <1>13, <3>1 DEF ElementsWritten
    <3> QED BY <1>10, <3>1, <3>2
  <2> QED BY <2>1, <2>2
<1>14. ASSUME NEW c \in Mapped
       PROVE  mem'[c] = start.mem[c] \/ \E j \in 0 .. e : c \in Cells(To(j))
  <2>1. CASE c \in Cells(edi)
    <3>1. e \in 0 .. e /\ c \in Cells(To(e)) BY <1>5, <2>1
    <3> HIDE DEF To
    <3> QED BY <3>1
  <2>2. CASE c \notin Cells(edi)
    <3>1. mem'[c] = mem[c] BY <1>8, <2>2
    <3>2. \A j \in 0 .. Executed - 1 : j \in 0 .. e BY <1>1
    <3> QED BY <3>1, <3>2 DEF ElementsWritten
  <2> QED BY <2>1, <2>2
<1>15. Executed' - 1 = e /\ Mapped' = Mapped
  BY <1>3 DEF Mapped
<1>16. \A j \in 0 .. Executed' - 1 :
         /\ ElementOf(start.edi, j)' = start'.edi + j * Stride'
         /\ ElementOf(start.edi, j)' >= WriteableMemory
         /\ Cells(ElementOf(start.edi, j))' \subseteq Mapped
         /\ op' = "movs" => Cells(ElementOf(start.esi, j))' \subseteq Mapped
         /\ op' = "stos" \/ CopiesInOrder' =>
              \A t \in 0 .. unit' - 1 :
                mem'[ElementOf(start.edi, j)' + t] =
                  IF op' = "stos" THEN acc'[t]
                  ELSE start'.mem[ElementOf(start.esi, j)' + t]
  <2> SUFFICES ASSUME NEW j \in 0 .. e
               PROVE  /\ To(j) = start.edi + j * Stride
                      /\ To(j) >= WriteableMemory
                      /\ Cells(To(j)) \subseteq Mapped
                      /\ op = "movs" => Cells(From(j)) \subseteq Mapped
                      /\ op = "stos" \/ CopiesInOrder' =>
                           \A t \in 0 .. unit - 1 :
                             mem'[To(j) + t] =
                               IF op = "stos" THEN acc[t]
                               ELSE start.mem[From(j) + t]
    BY <1>2, <1>7, <1>15 DEF ElementOf, Cells, Wrap
  <2> QED BY <1>12, <1>13
<1>17. \A c \in Mapped :
         \/ mem'[c] = start'.mem[c]
         \/ \E j \in 0 .. Executed' - 1 : c \in Cells(ElementOf(start.edi, j))'
  BY <1>2, <1>14, <1>15 DEF ElementOf, Cells, Wrap
<1> QED
  BY <1>15, <1>16, <1>17 DEF ElementsWritten

(* Every element of a repeated movs or stos has gone where the registers   *)
(* said, and nothing else has been written (ElementsWritten).              *)
THEOREM Elements == Spec => []ElementsWritten
<1>1. Init /\ TypeOK => ElementsWritten
  <2> SUFFICES ASSUME Init, TypeOK PROVE ElementsWritten
    OBVIOUS
  <2>1. Executed = 0
    BY CountType DEF Init, TypeOK, Executed, Address
  <2>2. mem = start.mem BY DEF Init
  <2> QED BY <2>1, <2>2 DEF ElementsWritten
<1>2. TypeOK /\ RegistersAgree /\ ElementsWritten /\ [Next]_vars
        => ElementsWritten'
  <2> SUFFICES ASSUME TypeOK, RegistersAgree, ElementsWritten, [Next]_vars,
                      op' \in Stores
               PROVE  ElementsWritten'
    BY DEF ElementsWritten
  <2>1. CASE Iterate(Element)
    <3>1. op \in Stores BY <2>1 DEF Iterate, opVars
    <3> QED BY <2>1, <3>1, ElementWritten
  <2>2. CASE ~Iterate(Element)
    <3>1. UNCHANGED <<opVars, dataVars, ecx, start>> BY <2>2, OtherSteps
    <3>2. /\ Executed' = Executed /\ (CopiesInOrder' <=> CopiesInOrder)
          /\ \A a, j : ElementOf(a, j)' = ElementOf(a, j)
          /\ \A a : Cells(a)' = Cells(a)
      BY <3>1 DEF opVars, dataVars, Executed, Count, Low, CopiesInOrder,
                  ElementOf, Stride, Wrap, Cells
    <3> QED
      BY <3>1, <3>2 DEF opVars, dataVars, ElementsWritten, ElementOf, Stride,
                        Wrap, Cells
  <2> QED BY <2>1, <2>2
<1> QED BY <1>1, <1>2, TypeCorrect, Registers, PTL DEF Spec

(* Where the i-th byte of a block is: in one of its elements.              *)
LEMMA ByteOfElement ==
  ASSUME OpTypeOK, Executed \in Nat, NEW i \in Covered
  PROVE  \E j \in 0 .. Executed - 1 :
           /\ i % unit \in 0 .. unit - 1
           /\ \A a \in Int : CellOf(a, i) = Wrap(a + j * Stride + (i % unit))
<1> DEFINE u == unit
           e == Executed
           q == i \div u
           r == i % u
<1>1. u \in Nat \ {0} /\ e \in Nat /\ i \in Nat /\ i < e * u
  BY StrideType DEF Covered
<1>2. r \in 0 .. u - 1 /\ q \in Int /\ i = u * q + r
  BY <1>1, DivMod
<1>3. q \in 0 .. e - 1
  <2> HIDE DEF u, e, q, r
  <2>1. q >= 0 BY <1>1, <1>2, Z3
  <2>2. q < e BY <1>1, <1>2, Z3
  <2> QED BY <1>1, <1>2, <2>1, <2>2
<1>4. CASE ~direction
  <2>1. Stride = u BY <1>4 DEF Stride
  <2>2. \A a \in Int : CellOf(a, i) = Wrap(a + q * Stride + r)
    <3> SUFFICES ASSUME NEW a \in Int
                 PROVE  a + i = a + q * Stride + r
      BY <1>4 DEF CellOf
    <3> HIDE DEF u, q, r
    <3> QED BY <1>1, <1>2, <2>1
  <2> HIDE DEF q
  <2> QED BY <1>2, <1>3, <2>2
<1>5. CASE direction
  <2>1. Stride = -u BY <1>5 DEF Stride
  <2> DEFINE p == e - 1 - q
  <2>2. p \in 0 .. e - 1
    <3> HIDE DEF e, q
    <3> QED BY <1>1, <1>3
  <2>3. \A a \in Int : CellOf(a, i) = Wrap(a + p * Stride + r)
    <3> SUFFICES ASSUME NEW a \in Int
                 PROVE  a - (e - 1) * u + i = a + p * Stride + r
      BY <1>5 DEF CellOf
    <3> HIDE DEF u, e, q, r
    <3>1. (e - 1 - q) * (-u) = q * u - (e - 1) * u BY <1>1, <1>2
    <3>2. q * u \in Int /\ (e - 1) * u \in Int /\ u * q = q * u
      BY <1>1, <1>2
    <3> QED BY <1>1, <1>2, <2>1, <3>1, <3>2
  <2> HIDE DEF p
  <2> QED BY <1>2, <2>2, <2>3
<1> QED BY <1>4, <1>5

(* And every byte of an element is a byte of the block.                    *)
LEMMA ElementInBlock ==
  ASSUME OpTypeOK, Executed \in Nat, NEW j \in 0 .. Executed - 1,
         NEW t \in 0 .. unit - 1
  PROVE  \E i \in Covered :
           \A a \in Int : CellOf(a, i) = Wrap(a + j * Stride + t)
<1> DEFINE u == unit
           e == Executed
           q == IF direction THEN e - 1 - j ELSE j
           i == q * u + t
<1>1. u \in Nat \ {0} /\ e \in Nat /\ t \in 0 .. u - 1 /\ j \in 0 .. e - 1
  BY StrideType
<1>2. q \in 0 .. e - 1
  <2> HIDE DEF e
  <2> QED BY <1>1
<1>3. i \in 0 .. e * u - 1
  <2> HIDE DEF q, e, u
  <2>1. q * u >= 0 /\ q * u \in Int BY <1>1, <1>2, Z3
  <2>2. q * u + u <= e * u /\ e * u \in Int
    <3>1. (e - 1 - q) * u >= 0 BY <1>1, <1>2, Z3
    <3>2. (e - 1 - q) * u = e * u - u - q * u BY <1>1, <1>2, Z3
    <3> QED BY <1>1, <1>2, <3>1, <3>2
  <2> QED BY <1>1, <2>1, <2>2
<1>4. \A a \in Int : CellOf(a, i) = Wrap(a + j * Stride + t)
  <2> SUFFICES ASSUME NEW a \in Int
               PROVE  (IF direction THEN a - (e - 1) * u ELSE a) + i
                        = a + j * Stride + t
    BY DEF CellOf
  <2>1. CASE ~direction
    <3>1. Stride = u /\ q = j BY <2>1 DEF Stride
    <3> HIDE DEF u, q, e
    <3> QED BY <1>1, <1>2, <2>1, <3>1
  <2>2. CASE direction
    <3>1. Stride = -u /\ q = e - 1 - j BY <2>2 DEF Stride
    <3> HIDE DEF u, q, e
    <3>2. q * u = (e - 1) * u + j * Stride BY <1>1, <3>1, Z3
    <3>3. j * Stride \in Int /\ (e - 1) * u \in Int BY <1>1, <3>1
    <3>4. q * u \in Int BY <1>1, <1>2
    <3>5. a - (e - 1) * u + i = a + j * Stride + t
      BY <1>1, <3>2, <3>3, <3>4
    <3> QED BY <2>2, <3>5
  <2> QED BY <2>1, <2>2
<1> QED BY <1>3, <1>4 DEF Covered

(* An element that is in memory lies in one piece.                         *)
LEMMA OnePiece ==
  ASSUME OpTypeOK, NEW a \in Int, NEW j \in Int, NEW t \in 0 .. unit - 1,
         Cells(ElementOf(a, j)) \subseteq Mapped
  PROVE  /\ Wrap(a + j * Stride + t) = ElementOf(a, j) + t
         /\ ElementOf(a, j) + t \in Cells(ElementOf(a, j))
<1> DEFINE x == a + j * Stride
<1>1. unit \in Nat \ {0} /\ x \in Int BY StrideType
<1>2. ElementOf(a, j) = x % Space /\ ElementOf(a, j) \in Address
  BY <1>1, WrapType DEF ElementOf, Wrap
<1>3. ElementOf(a, j) + t \in Cells(ElementOf(a, j))
  BY <1>1, <1>2, StringAssumption DEF Cells, Address
<1>4. (x % Space) + t \in Address
  BY <1>2, <1>3, StringAssumption DEF Mapped
<1>5. ((x % Space) + t) % Space = (x + t) % Space
  BY <1>1, AddRemainder, StringAssumption
<1> QED BY <1>2, <1>3, <1>4, <1>5, WrapAddress DEF Wrap

(* What a repeated movs or stos leaves in memory: the block its registers  *)
(* speak of, copied or filled, and every other byte as it was              *)
(* (BlockWritten).                                                         *)
THEOREM Block == Spec => []BlockWritten
<1>1. TypeOK /\ RegistersAgree /\ ElementsWritten => BlockWritten
  <2> SUFFICES ASSUME TypeOK, RegistersAgree, ElementsWritten, op \in Stores
               PROVE  BlockWritten
    BY DEF BlockWritten
  <2> DEFINE To(j)   == ElementOf(start.edi, j)
             From(j) == ElementOf(start.esi, j)
  <2>1. /\ OpTypeOK /\ Executed \in Nat
        /\ start.edi \in Int /\ start.esi \in Int
    BY CountType, StringAssumption
    DEF TypeOK, RegistersAgree, Executed, Address
  <2>2. ASSUME op = "stos" \/ CopiesInOrder, NEW i \in Covered
        PROVE  mem[CellOf(start.edi, i)] =
                 IF op = "stos" THEN acc[i % unit]
                 ELSE start.mem[CellOf(start.esi, i)]
    <3> DEFINE t == i % unit
    <3>1. PICK j \in 0 .. Executed - 1 :
            /\ t \in 0 .. unit - 1
            /\ \A a \in Int : CellOf(a, i) = Wrap(a + j * Stride + t)
      BY <2>1, ByteOfElement
    <3> HIDE DEF t
    <3>2. CellOf(start.edi, i) = To(j) + t
      BY <2>1, <3>1, OnePiece DEF ElementsWritten
    <3>3. op = "movs" => CellOf(start.esi, i) = From(j) + t
      BY <2>1, <3>1, OnePiece DEF ElementsWritten
    <3>4. mem[To(j) + t] =
            IF op = "stos" THEN acc[t] ELSE start.mem[From(j) + t]
      BY <2>2, <3>1 DEF ElementsWritten
    <3> QED BY <3>2, <3>3, <3>4 DEF t, Stores
  <2>3. ASSUME NEW c \in Mapped \ {CellOf(start.edi, i) : i \in Covered}
        PROVE  mem[c] = start.mem[c]
    <3> SUFFICES ASSUME NEW j \in 0 .. Executed - 1, c \in Cells(To(j))
                 PROVE  FALSE
      BY DEF ElementsWritten
    <3> DEFINE t == c - To(j)
    <3>1. /\ To(j) = start.edi + j * Stride /\ To(j) \in Int
          /\ Cells(To(j)) \subseteq Mapped
      BY <2>1, StrideType DEF ElementsWritten
    <3>2. t \in 0 .. unit - 1 /\ c = To(j) + t
      <4>1. c \in Int /\ unit \in Int
        BY <3>1, <2>1, StrideType DEF Cells
      <4> QED BY <3>1, <4>1 DEF Cells
    <3> HIDE DEF t
    <3>3. PICK i \in Covered : CellOf(start.edi, i) = Wrap(start.edi + j * Stride + t)
      BY <2>1, <3>2, ElementInBlock
    <3>4. CellOf(start.edi, i) = c
      BY <2>1, <3>1, <3>2, <3>3, OnePiece
    <3> QED BY <3>3, <3>4
  <2> QED BY <2>2, <2>3 DEF BlockWritten
<1> QED BY <1>1, TypeCorrect, Registers, Elements, PTL DEF Spec

(* The rule a programmer goes by: with a source that does not run over the *)
(* end of the address space, moving upwards to a lower address, or         *)
(* downwards to a higher one, overwrites nothing it has yet to read.       *)
THEOREM MovesInOrder ==
  ASSUME TypeOK, RegistersAgree, ElementsWritten, op = "movs",
         IF direction
         THEN start.edi >= start.esi /\ start.esi - (Executed - 1) * unit >= 0
         ELSE start.edi <= start.esi /\ start.esi + Executed * unit <= Space
  PROVE  CopiesInOrder
<1> DEFINE u == unit
           e == Executed
<1>1. /\ u \in Nat \ {0} /\ e \in Nat /\ Space \in Nat \ {0}
      /\ start.edi \in Nat /\ start.esi \in Nat /\ start.esi < Space
  BY CountType, StringAssumption, StrideType
  DEF TypeOK, RegistersAgree, Executed, Address
<1> SUFFICES ASSUME NEW j \in 0 .. e - 1, NEW k \in 0 .. j - 1,
                    NEW c \in Cells(ElementOf(start.esi, j)),
                    c \in Cells(ElementOf(start.edi, k))
             PROVE  FALSE
  BY DEF CopiesInOrder
<1>2. ElementOf(start.edi, k) = start.edi + k * Stride
  BY <1>1 DEF ElementsWritten, Stores
<1>3. ElementOf(start.esi, j) = start.esi + j * Stride
  <2>1. start.esi + j * Stride \in Address
    <3>1. CASE ~direction
      <4>1. Stride = u BY <3>1 DEF Stride
      <4>2. start.esi + e * u <= Space BY <3>1
      <4>3. j * u >= 0 /\ j * u + u <= e * u /\ j * u \in Int /\ e * u \in Int
        <5> HIDE DEF u, e
        <5>1. j * u >= 0 /\ (e - 1 - j) * u >= 0 BY <1>1, Z3
        <5>2. (e - 1 - j) * u = e * u - u - j * u BY <1>1, Z3
        <5> QED BY <1>1, <5>1, <5>2
      <4> HIDE DEF u, e
      <4> QED BY <1>1, <4>1, <4>2, <4>3 DEF Address
    <3>2. CASE direction
      <4>1. Stride = -u BY <3>2 DEF Stride
      <4>2. start.esi - (e - 1) * u >= 0 BY <3>2
      <4>3. j * u >= 0 /\ j * u <= (e - 1) * u /\ j * u \in Int /\ (e - 1) * u \in Int
        <5> HIDE DEF u, e
        <5>1. j * u >= 0 /\ (e - 1 - j) * u >= 0 BY <1>1, Z3
        <5>2. (e - 1 - j) * u = (e - 1) * u - j * u BY <1>1, Z3
        <5> QED BY <1>1, <5>1, <5>2
      <4>4. j * (-u) = -(j * u) BY <1>1
      <4> HIDE DEF u, e
      <4> QED BY <1>1, <4>1, <4>2, <4>3, <4>4 DEF Address
    <3> QED BY <3>1, <3>2
  <2> QED BY <2>1, WrapAddress DEF ElementOf
<1>4. k * u + u <= j * u /\ j * u \in Int /\ k * u \in Int
  <2> HIDE DEF u, e
  <2>1. (j - 1 - k) * u >= 0 BY <1>1, Z3
  <2>2. (j - 1 - k) * u = j * u - u - k * u BY <1>1, Z3
  <2> QED BY <1>1, <2>1, <2>2
<1>5. CASE ~direction
  <2>1. Stride = u /\ start.edi <= start.esi BY <1>5 DEF Stride
  <2>2. c >= start.esi + j * u /\ c <= start.edi + k * u + u - 1 /\ c \in Int
    BY <1>1, <1>2, <1>3, <1>4, <2>1 DEF Cells
  <2> HIDE DEF u, e
  <2> QED BY <1>1, <1>4, <2>1, <2>2
<1>6. CASE direction
  <2>1. Stride = -u /\ start.edi >= start.esi BY <1>6 DEF Stride
  <2>2. j * (-u) = -(j * u) /\ k * (-u) = -(k * u) BY <1>1
  <2>3. c <= start.esi - j * u + u - 1 /\ c >= start.edi - k * u /\ c \in Int
    BY <1>1, <1>2, <1>3, <1>4, <2>1, <2>2 DEF Cells
  <2> HIDE DEF u, e
  <2> QED BY <1>1, <1>4, <2>1, <2>3
<1> QED BY <1>5, <1>6

=============================================================================
