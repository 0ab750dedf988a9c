--------------------------- MODULE PipelineProofs ---------------------------
(***************************************************************************)
(* Theorems about Pipeline, for every pipeline size, every cost schedule,  *)
(* every instruction set over the modelled functions and every program.    *)
(* The second half proves what decoding ahead needs of the code it runs:   *)
(* slots are never stale, writeable memory uses one slot, and the pipeline *)
(* implements the one-instruction machine.                                 *)
(***************************************************************************)
EXTENDS PipelineIsa, TLAPS

-----------------------------------------------------------------------------
(* Operators                                                               *)

(* Wrapping arithmetic stays in the address space.                         *)
LEMMA WrapType ==
  ASSUME NEW x \in Int PROVE Wrap(x) \in Address
BY SpaceAssumption DEF Wrap, Address

(* What an instruction name decodes to.                                    *)
LEMMA CodeType ==
  ASSUME NEW i \in Instrs
  PROVE  /\ Code[i].function \in Functions
         /\ Code[i].size \in 1 .. MaxSize
         /\ Code[i].rel \in Int
         /\ Code[i].to \in Address
         /\ Code[i].value \in Instrs
BY CodeAssumption DEF InstrType

LEMMA CostType ==
  /\ Costs["None"] \in Nat
  /\ Costs["VeryLow"] \in Nat
  /\ Costs["Low"] \in Nat
  /\ Costs["Moderate"] \in Nat
  /\ Costs["ConditionalBranch"] \in Nat
  /\ Costs["MemoryAccess"] \in Nat
  /\ Costs["WriteableMemoryExec"] \in Nat
  /\ Costs["ModRMSurcharge"] \in Nat
BY CodeAssumption DEF GasCosts

LEMMA OpcodeGasType ==
  ASSUME NEW f \in Functions PROVE OpcodeGas(f) \in Nat
BY CostType DEF OpcodeGas, Functions, Straight, RelativeJump, Unpredictable,
                NoGasStop, Rep

LEMMA DecodedType ==
  ASSUME NEW i \in Instrs, NEW args \in Instrs \union {NoArgs},
         NEW w \in BOOLEAN
  PROVE  /\ Decoded(i, args, w) \in SlotType
         /\ ~Padding(Decoded(i, args, w))
<1>1. BranchGas(Code[i].function) \in Nat
  BY CostType DEF BranchGas
<1>2. SurchargeGas(w) \in Nat
  BY CostType DEF SurchargeGas
<1>3. OpcodeGas(Code[i].function) \in Nat
  BY CodeType, OpcodeGasType
<1>4. Code[i].size \in 0 .. MaxSize /\ Code[i].size # 0
  BY CodeType, SpaceAssumption
<1> QED
  BY <1>1, <1>2, <1>3, <1>4, CodeType DEF Decoded, SlotType, Padding

LEMMA SaturatingSubType ==
  ASSUME NEW a \in Nat, NEW b \in Nat PROVE SaturatingSub(a, b) \in Nat
BY DEF SaturatingSub

(* Where the decoder goes next is an address.                              *)
LEMMA FollowType ==
  ASSUME NEW a \in Address, NEW i \in Instrs
  PROVE  /\ Target(a, i) \in Address
         /\ Follow(a, i) \in Address
<1>1. /\ a + Code[i].size + Code[i].rel \in Int
      /\ a + Code[i].size \in Int
  BY CodeType, SpaceAssumption DEF Address
<1> QED
  BY <1>1, WrapType DEF Target, Follow

-----------------------------------------------------------------------------
(* Type correctness                                                        *)

(* The parts of cycle() around a logic function keep the types.            *)
LEMMA ContinueType ==
  ASSUME NEW p \in SlotType, NEW a \in Int, Continue(p, a),
         error_eip \in Address
  PROVE  eip' \in Address /\ error_eip' \in Address /\ result' \in Results
<1>1. a + p.eip_size \in Int
  BY SpaceAssumption DEF SlotType
<1> QED
  BY <1>1, WrapType DEF Continue, Results

LEMMA FailType ==
  ASSUME NEW a \in Address, NEW e \in Results, Fail(a, e)
  PROVE  eip' \in Address /\ error_eip' \in Address /\ result' \in Results
BY DEF Fail

LEMMA ChargedType ==
  ASSUME NEW p \in SlotType, gas \in Nat, Charged(p)
  PROVE  gas' \in Nat
BY DEF Charged, SlotType

LEMMA StoreThenType ==
  ASSUME NEW a \in Address, NEW v \in Instrs, NEW b \in Address,
         NEW p \in SlotType, VmTypeOK,
         StoreThen(a, v, b, Continue(p, b))
  PROVE  /\ mem' \in [Loaded -> Instrs]
         /\ eip' \in Address /\ error_eip' \in Address /\ result' \in Results
<1> USE DEF VmTypeOK
<1>1. CASE UNCHANGED mem /\ Fail(b, "WroteReadOnlyMemory")
  BY <1>1, FailType DEF Results, Errors
<1>2. CASE UNCHANGED mem /\ Fail(b, "WroteBadMemory")
  BY <1>2, FailType DEF Results, Errors
<1>3. CASE /\ a \in Loaded
           /\ mem' = [mem EXCEPT ![a] = v]
           /\ Continue(p, b)
  <2>1. b \in Int
    BY SpaceAssumption DEF Address
  <2> QED
    BY <1>3, <2>1, ContinueType
<1> QED
  BY <1>1, <1>2, <1>3 DEF StoreThen

(* Elements of a repetition that are executed and paid.                    *)
LEMMA RepeatedType ==
  ASSUME VmTypeOK, NEW p \in SlotType, NEW k \in 0 .. ecx, Repeated(p, k)
  PROVE  /\ ecx' \in Address /\ gas' \in Nat
         /\ ecx' = ecx - k /\ gas' = GasAfter(p, k)
         /\ \A j \in Nat : GasAfter(p, j) \in Nat
<1>1. ecx \in Nat /\ ecx < Space /\ k \in Nat
  BY SpaceAssumption DEF VmTypeOK, Address
<1>2. gas - p.gas_cost \in Nat
  BY DEF Repeated, VmTypeOK, SlotType
<1>3. ASSUME NEW j \in Nat PROVE GasAfter(p, j) \in Nat
  <2>1. j * Costs["Low"] \in Nat
    BY CostType
  <2> QED
    BY <1>2, <2>1, SaturatingSubType DEF GasAfter
<1>4. ecx' = ecx - k /\ gas' = GasAfter(p, k)
  BY DEF Repeated
<1>5. ecx' \in Address
  BY <1>1, <1>4, SpaceAssumption DEF Address
<1> QED
  BY <1>1, <1>3, <1>4, <1>5

LEMMA StoredType ==
  ASSUME VmTypeOK, NEW k \in Int PROVE Stored(k) \in [Loaded -> Instrs]
BY StoreAssumption DEF Stored, VmTypeOK

(* Every logic function, and running out of gas, keeps the machine's types.*)
RunFunction(p) ==
  \/ RunOutOfGas(p)
  \/ Nop(p) \/ Increment(p) \/ Mov(p) \/ Enter(p)
  \/ JmpRel(p) \/ JmpEcxIsZero(p) \/ JmpAbs(p)
  \/ Hlt(p) \/ OpUndefined(p) \/ Interrupt(p)
  \/ RepLods(p) \/ RepStos(p) \/ RepMov(p)

LEMMA RunFunctionType ==
  ASSUME VmTypeOK,
         NEW p \in SlotType,
         p.function \notin Rep \union {"nop"} => p.args \in Instrs,
         RunFunction(p)
  PROVE  VmTypeOK'
<1> USE DEF VmTypeOK
<1>a. eip \in Int /\ ecx \in Int
  BY SpaceAssumption DEF Address
<1>b. p.eip_size \in Int /\ p.gas_cost \in Nat
  BY SpaceAssumption DEF SlotType
<1>1. CASE RunOutOfGas(p)
  BY <1>1 DEF RunOutOfGas, Results
<1>2. CASE Nop(p)
  BY <1>2, <1>a, ChargedType, ContinueType DEF Nop
<1>3. CASE Increment(p)
  <2>1. Wrap(ecx + 1) \in Address
    BY <1>a, WrapType
  <2> QED
    BY <1>3, <1>a, <2>1, ChargedType, ContinueType DEF Increment
<1>4. CASE Mov(p)
  <2>1. p.args \in Instrs
    BY <1>4 DEF Mov, Rep
  <2>2. Code[p.args].to \in Address /\ Code[p.args].value \in Instrs
    BY <2>1, CodeType
  <2>3. StoreThen(Code[p.args].to, Code[p.args].value, eip, Continue(p, eip))
    BY <1>4 DEF Mov
  <2>4. /\ mem' \in [Loaded -> Instrs]
        /\ eip' \in Address /\ error_eip' \in Address /\ result' \in Results
    BY <2>2, <2>3, StoreThenType
  <2> QED
    BY <1>4, <2>4, ChargedType DEF Mov
<1>5. CASE Enter(p)
  <2> DEFINE b == Wrap(eip + Code[p.args].size - 1)
  <2>1. p.args \in Instrs
    BY <1>5 DEF Enter, Rep
  <2>2. /\ Code[p.args].to \in Address /\ Code[p.args].value \in Instrs
        /\ Code[p.args].size \in Int
    BY <2>1, CodeType
  <2>3. b \in Address
    BY <2>2, <1>a, WrapType
  <2>4. StoreThen(Code[p.args].to, Code[p.args].value, b, Continue(p, b))
    BY <1>5 DEF Enter
  <2> HIDE DEF b
  <2>5. /\ mem' \in [Loaded -> Instrs]
        /\ eip' \in Address /\ error_eip' \in Address /\ result' \in Results
    BY <2>2, <2>3, <2>4, StoreThenType
  <2> QED
    BY <1>5, <2>5, ChargedType DEF Enter
<1>6. CASE JmpRel(p)
  <2>1. p.args \in Instrs
    BY <1>6 DEF JmpRel, Rep
  <2>2. Target(eip, p.args) - p.eip_size \in Int
    BY <2>1, <1>b, FollowType, SpaceAssumption DEF Address
  <2> QED
    BY <1>6, <2>2, ChargedType, ContinueType DEF JmpRel
<1>7. CASE JmpEcxIsZero(p)
  <2>1. p.args \in Instrs
    BY <1>7 DEF JmpEcxIsZero, Rep
  <2>2. Target(eip, p.args) - p.eip_size \in Int
    BY <2>1, <1>b, FollowType, SpaceAssumption DEF Address
  <2> QED
    BY <1>7, <1>a, <2>2, ChargedType, ContinueType DEF JmpEcxIsZero
<1>8. CASE JmpAbs(p)
  BY <1>8, <1>a, <1>b, ChargedType, ContinueType DEF JmpAbs
<1>9. CASE Hlt(p)
  BY <1>9, ChargedType DEF Hlt, Results
<1>10. CASE OpUndefined(p)
  BY <1>10, ChargedType, FailType DEF OpUndefined, Results, Errors
<1>11. CASE Interrupt(p)
  <2>1. p.args \in Instrs
    BY <1>11 DEF Interrupt, Rep
  <2>2. Code[p.args].to \in Address /\ Code[p.args].value \in Instrs
    BY <2>1, CodeType
  <2>3. CASE Fail(eip, "HypervisorError") /\ UNCHANGED mem
    BY <1>11, <2>3, ChargedType, FailType DEF Interrupt, Results, Errors
  <2>4. CASE /\ mem' = IF Code[p.args].to \in Loaded
                       THEN [mem EXCEPT ![Code[p.args].to] = Code[p.args].value]
                       ELSE mem
             /\ Continue(p, eip)
    BY <1>11, <1>a, <2>2, <2>4, ChargedType, ContinueType DEF Interrupt
  <2> QED
    BY <1>11, <2>3, <2>4 DEF Interrupt
<1>12. CASE RepLods(p)
  <2>1. PICK k \in 0 .. ecx :
          /\ Repeated(p, k)
          /\ Continue(p, eip) \/ Fail(eip, "OutOfGas")
    BY <1>12 DEF RepLods
  <2>2. ecx' \in Address /\ gas' \in Nat
    BY <2>1, RepeatedType
  <2>3. eip' \in Address /\ error_eip' \in Address /\ result' \in Results
    BY <2>1, <1>a, ContinueType, FailType DEF Results
  <2> QED
    BY <1>12, <2>2, <2>3 DEF RepLods
<1>14. CASE RepStos(p)
  <2>1. PICK k \in 0 .. ecx :
          /\ Repeated(p, k)
          /\ mem' = Stored(k)
          /\ \/ Continue(p, eip)
             \/ \E e \in {"OutOfGas", "WroteBadMemory",
                           "WroteReadOnlyMemory"} : Fail(eip, e)
    BY <1>14 DEF RepStos
  <2>2. ecx' \in Address /\ gas' \in Nat
    BY <2>1, RepeatedType
  <2>3. mem' \in [Loaded -> Instrs]
    BY <2>1, StoredType
  <2>4. {"OutOfGas", "WroteBadMemory", "WroteReadOnlyMemory"} \subseteq Results
    BY DEF Results, Errors
  <2>5. eip' \in Address /\ error_eip' \in Address /\ result' \in Results
    BY <2>1, <2>4, <1>a, ContinueType, FailType
  <2> QED
    BY <2>2, <2>3, <2>5
<1>13. CASE RepMov(p)
  <2>1. CASE Continue(p, eip) /\ Charged(p) /\ UNCHANGED <<mem, ecx>>
    BY <2>1, <1>a, ChargedType, ContinueType
  <2>2. CASE Fail(eip, "OutOfGas") /\ Charged(p) /\ UNCHANGED <<mem, ecx>>
    BY <2>2, ChargedType, FailType DEF Results
  <2>3. CASE /\ ecx # 0 /\ gas > p.gas_cost
             /\ RepMovBody(p)
             /\ IF result' = "InvalidOpcodeEncoding"
                THEN /\ ecx' = ecx - 1
                     /\ gas' = SaturatingSub(gas - p.gas_cost, Costs["VeryLow"])
                ELSE Charged(p) /\ UNCHANGED ecx
    <3>1. ecx' \in Address
      BY <2>3, <1>a, SpaceAssumption DEF Address
    <3>2. gas' \in Nat
      <4>1. gas - p.gas_cost \in Nat
        BY <2>3, <1>b
      <4> QED
        BY <2>3, <4>1, ChargedType, SaturatingSubType, CostType
    <3>3. /\ mem' \in [Loaded -> Instrs]
          /\ eip' \in Address /\ error_eip' \in Address /\ result' \in Results
      <4>1. \A e \in Results : Fail(eip, e) =>
              eip' \in Address /\ error_eip' \in Address /\ result' \in Results
        BY FailType
      <4>2. CASE \E e \in Results : Fail(eip, e) /\ UNCHANGED mem
        BY <4>1, <4>2
      <4>3. CASE /\ p.args \in Instrs
                 /\ Code[p.args].to \in Loaded
                 /\ mem' = [mem EXCEPT ![Code[p.args].to] = Code[p.args].value]
                 /\ Fail(eip, "InvalidOpcodeEncoding")
        BY <4>1, <4>3, CodeType DEF Results, Errors
      <4> QED
        BY <2>3, <4>2, <4>3
        DEF RepMovBody, StoreThen, Results, Errors, SlotType
    <3> QED
      BY <3>1, <3>2, <3>3
  <2> QED
    BY <1>13, <2>1, <2>2, <2>3 DEF RepMov
<1> QED
  BY <1>1, <1>2, <1>3, <1>4, <1>5, <1>6, <1>7, <1>8, <1>9, <1>10, <1>11,
     <1>12, <1>13, <1>14 DEF RunFunction

(* The tail of fill_pipeline's loop body keeps them too.                   *)
LEMMA FilledType ==
  ASSUME TypeInv, phase = "fill",
         NEW p \in SlotType,
         p.function \notin Rep \union {"nop"} => p.args \in Instrs,
         NEW next \in Address, NEW stop \in BOOLEAN,
         Filled(p, next, stop),
         plan' \in [Slot -> [at : Address, gas : Nat]]
  PROVE  TypeInv'
<1> USE DEF TypeInv, TypeOK
<1>1. VmTypeOK'
  BY DEF Filled, vmVars, VmTypeOK
<1>2. p.gas_cost \in Nat
  BY DEF SlotType
<1>3. running_gas' \in Nat
  BY <1>2, SaturatingSubType DEF Filled
<1>4. slots' \in [Slot -> SlotType] /\ ArgsDecoded'
  BY DEF Filled, ArgsDecoded
<1>5. n' \in Slot /\ phase' \in {"cycle", "fill", "exec", "stopped"}
  BY PipelineAssumption DEF Filled, Slot
<1>6. /\ at' \in Address /\ stop_filling' \in BOOLEAN
      /\ UNCHANGED <<writeable, resumes>>
  BY DEF Filled
<1> QED
  BY <1>1, <1>3, <1>4, <1>5, <1>6

LEMMA DefaultSlotType ==
  DefaultSlot \in SlotType /\ DefaultSlot.function = "nop"
BY SpaceAssumption DEF DefaultSlot, SlotType, Functions, Straight

LEMMA EmptiedType ==
  ASSUME NEW q \in SlotType
  PROVE  /\ Emptied(q) \in SlotType
         /\ Emptied(q).function = "nop"
         /\ Padding(Emptied(q))
BY SpaceAssumption DEF Emptied, SlotType, Functions, Straight, Padding

LEMMA FillType == TypeInv /\ Fill => TypeInv'
<1> SUFFICES ASSUME TypeInv, Fill PROVE TypeInv'
  OBVIOUS
<1> USE DEF TypeInv, TypeOK
<1>1. CASE FillPadding
  <2>1. Emptied(slots[n]) \in SlotType /\ Emptied(slots[n]).function = "nop"
    BY EmptiedType
  <2>2. Filled(Emptied(slots[n]), at, TRUE) /\ plan' = plan /\ phase = "fill"
    BY <1>1 DEF FillPadding, Filling
  <2> QED
    BY <2>1, <2>2, FilledType
<1>2. ASSUME NEW functions, Fetched(functions)
      PROVE  /\ phase = "fill"
             /\ at \in Loaded /\ mem[at] \in Instrs
             /\ plan' \in [Slot -> [at : Address, gas : Nat]]
  BY <1>2 DEF Fetched, Filling, Decodable, VmTypeOK
<1>3. ASSUME mem[at] \in Instrs
      PROVE  /\ Decoded(mem[at], mem[at], writeable) \in SlotType
             /\ Decoded(mem[at], mem[at], writeable).args = mem[at]
             /\ Follow(at, mem[at]) \in Address
  BY <1>3, DecodedType, FollowType DEF Decoded
<1>4. CASE FillStraight
  BY <1>4, <1>2, <1>3, FilledType DEF FillStraight
<1>5. CASE FillRelativeJump
  BY <1>5, <1>2, <1>3, FilledType DEF FillRelativeJump
<1>6. CASE FillUnpredictable
  <2>1. mem[at] \in Instrs
    BY <1>6, <1>2 DEF FillUnpredictable
  <2>2. at + 2 * Code[mem[at]].size \in Int
    BY <2>1, CodeType, SpaceAssumption DEF Address
  <2>3. Wrap(at + 2 * Code[mem[at]].size) \in Address
    BY <2>2, WrapType
  <2> QED
    BY <1>6, <1>2, <1>3, <2>3, FilledType DEF FillUnpredictable
<1>7. CASE FillRep
  <2> DEFINE p == Decoded(mem[at], slots[n].args, writeable)
  <2>1. mem[at] \in Instrs /\ Code[mem[at]].function \in Rep
    BY <1>7, <1>2 DEF FillRep, Fetched
  <2>2. slots[n].args \in Instrs \union {NoArgs}
    BY DEF SlotType
  <2>3. p \in SlotType /\ p.function \in Rep
    BY <2>1, <2>2, DecodedType DEF Decoded
  <2>4. Filled(p, at, TRUE)
    BY <1>7 DEF FillRep
  <2> HIDE DEF p
  <2> QED
    BY <1>7, <1>2, <2>3, <2>4, FilledType DEF FillRep
<1>8. CASE FillError
  BY <1>8 DEF FillError, VmTypeOK, ArgsDecoded, Results, Errors
<1> QED
  BY <1>1, <1>4, <1>5, <1>6, <1>7, <1>8 DEF Fill

LEMMA ExecIsRun ==
  Exec => phase = "exec" /\ RunFunction(slots[n]) /\ Advance
BY DEF Exec, RunFunction, ExecOutOfGas, ExecNop, ExecIncrement, ExecMov,
       ExecEnter, ExecJmpRel, ExecJcxz, ExecJmpAbs, ExecHlt, ExecUndefined,
       ExecInterrupt, ExecRepLods, ExecRepStos, ExecRepMov

LEMMA ExecType == TypeInv /\ Exec => TypeInv'
<1> SUFFICES ASSUME TypeInv, Exec PROVE TypeInv'
  OBVIOUS
<1> USE DEF TypeInv, TypeOK
<1>1. RunFunction(slots[n]) /\ Advance
  BY ExecIsRun
<1>2. /\ slots[n] \in SlotType
      /\ slots[n].function \notin Rep \union {"nop"} => slots[n].args \in Instrs
  BY DEF ArgsDecoded
<1>3. VmTypeOK'
  BY <1>1, <1>2, RunFunctionType
<1>4. /\ phase' \in {"cycle", "fill", "exec", "stopped"}
      /\ n' \in Slot
  BY <1>1, PipelineAssumption DEF Advance, Slot
<1>5. UNCHANGED <<slots, at, running_gas, stop_filling, writeable, resumes,
                  plan>>
  BY <1>1 DEF Advance
<1> QED
  BY <1>3, <1>4, <1>5 DEF ArgsDecoded

LEMMA InitTypes == Init => TypeInv
<1> SUFFICES ASSUME Init PROVE TypeInv
  OBVIOUS
<1>1. VmTypeOK
  BY InitAssumption, SpaceAssumption
  DEF Init, VmInit, VmTypeOK, Address, Results
<1>2. slots \in [Slot -> SlotType] /\ ArgsDecoded
  BY DefaultSlotType DEF Init, FreshPipeline, ArgsDecoded
<1>3. 0 \in Slot /\ 0 \in Address
  BY PipelineAssumption, SpaceAssumption DEF Slot, Address
<1>4. plan \in [Slot -> [at : Address, gas : Nat]]
  BY <1>3 DEF Init
<1>5. stop_filling \in BOOLEAN /\ writeable \in BOOLEAN
  BY DEF Init
<1>6. /\ phase \in {"cycle", "fill", "exec", "stopped"}
      /\ n \in Slot /\ at \in Address
      /\ running_gas \in Nat /\ resumes \in 0 .. MaxResumes
  BY <1>3, PipelineAssumption DEF Init
<1> QED
  BY <1>1, <1>2, <1>4, <1>5, <1>6 DEF TypeInv, TypeOK

LEMMA NextTypes == TypeInv /\ [Next]_vars => TypeInv'
<1> SUFFICES ASSUME TypeInv, [Next]_vars PROVE TypeInv'
  OBVIOUS
<1>1. CASE BeginCycle
  <2>1. 0 \in Slot
    BY PipelineAssumption DEF Slot
  <2>2. slots' \in [Slot -> SlotType] /\ ArgsDecoded'
    BY <1>1, <2>1, DefaultSlotType
    DEF BeginCycle, TypeInv, TypeOK, ArgsDecoded
  <2>3. VmTypeOK'
    BY <1>1 DEF BeginCycle, TypeInv, TypeOK, VmTypeOK, vmVars
  <2>4. writeable' \in BOOLEAN
    BY <1>1 DEF BeginCycle, Writeable
  <2> QED
    BY <1>1, <2>1, <2>2, <2>3, <2>4
    DEF BeginCycle, TypeInv, TypeOK, VmTypeOK
<1>2. CASE Fill
  BY <1>2, FillType
<1>3. CASE Exec
  BY <1>3, ExecType
<1>4. CASE Resume
  <2>1. /\ VmTypeOK'
        /\ UNCHANGED <<at, running_gas, stop_filling, writeable, plan>>
    BY <1>4, InitAssumption
    DEF Resume, HostResume, TypeInv, TypeOK, VmTypeOK, Results
  <2>2. phase' = "cycle" /\ n' \in Slot /\ resumes' \in 0 .. MaxResumes
    BY <1>4, PipelineAssumption DEF Resume, Slot, TypeInv, TypeOK
  <2>3. slots' \in [Slot -> SlotType] /\ ArgsDecoded'
    BY <1>4, DefaultSlotType DEF Resume, FreshPipeline, ArgsDecoded
  <2> QED
    BY <2>1, <2>2, <2>3 DEF TypeInv, TypeOK
<1>5. CASE UNCHANGED vars
  BY <1>5 DEF vars, vmVars, pipeVars, TypeInv, TypeOK, VmTypeOK, ArgsDecoded
<1> QED
  BY <1>1, <1>2, <1>3, <1>4, <1>5 DEF Next

(* Every state has the types TypeOK gives, and no logic function is ever   *)
(* handed a slot without the arguments it decodes.                         *)
THEOREM TypeCorrect == Spec => [](TypeOK /\ ArgsDecoded)
<1> QED
  BY InitTypes, NextTypes, PTL DEF Spec, TypeInv

-----------------------------------------------------------------------------
(* Filling keeps the plan                                                  *)

(* Filling slot n extends the front by it and leaves the rest alone.       *)
LEMMA FilledFront ==
  ASSUME TypeOK, phase = "fill",
         NEW p \in SlotType, NEW next, NEW stop, Filled(p, next, stop)
  PROVE  /\ Front = 0 .. n - 1 /\ Front' = 0 .. n
         /\ slots'[n] = p
         /\ \A s \in Front : slots'[s] = slots[s]
         /\ n \in Nat /\ 0 .. n \subseteq Slot
         /\ \/ phase' = "fill" /\ n' = n + 1
            \/ phase' = "exec" /\ n' = 0
<1>1. n \in Nat /\ n < PipelineSize /\ PipelineSize \in Nat
      /\ Slot = 0 .. PipelineSize - 1
  BY PipelineAssumption DEF TypeOK, Slot
<1>2. /\ slots \in [Slot -> SlotType]
      /\ slots' = [slots EXCEPT ![n] = p]
      /\ IF n + 1 = PipelineSize THEN phase' = "exec" /\ n' = 0
                                 ELSE phase' = "fill" /\ n' = n + 1
  BY DEF TypeOK, Filled
<1>3. 0 .. n \subseteq Slot /\ n \in 0 .. n /\ n \notin 0 .. n - 1
      /\ 0 .. n - 1 \subseteq 0 .. n
  BY <1>1
<1>4. Front = 0 .. n - 1
  BY DEF Front
<1>5. Front' = 0 .. n
  <2>1. CASE n + 1 = PipelineSize
    <3>1. phase' = "exec" /\ n = PipelineSize - 1
      BY <1>1, <1>2, <2>1
    <3> QED
      BY <1>1, <3>1 DEF Front
  <2>2. CASE n + 1 # PipelineSize
    <3>1. phase' = "fill" /\ n' - 1 = n
      BY <1>1, <1>2, <2>2
    <3> QED
      BY <3>1 DEF Front
  <2> QED
    BY <2>1, <2>2
<1>6. slots'[n] = p /\ \A s \in Front : slots'[s] = slots[s]
  BY <1>2, <1>3, <1>4
<1> QED
  BY <1>1, <1>2, <1>3, <1>4, <1>5, <1>6

(* A slot that has been decoded.                                           *)
LEMMA DecodedPlan ==
  ASSUME TypeInv, PlanInv, phase = "fill", ~stop_filling,
         NEW p \in SlotType, ~Padding(p),
         NEW next \in Address, NEW stop \in BOOLEAN,
         Filled(p, next, stop),
         plan' = [plan EXCEPT ![n] = [at |-> at, gas |-> running_gas]],
         Continues(p) => /\ p.args \in Instrs
                         /\ Code[p.args].function = p.function
                         /\ Code[p.args].size = p.eip_size,
         stop \/ (Continues(p) /\ ~writeable /\ next = Follow(at, p.args))
  PROVE  PlanInv'
<1> USE DEF TypeInv
<1>f. /\ Front = 0 .. n - 1 /\ Front' = 0 .. n
      /\ slots'[n] = p
      /\ \A s \in Front : slots'[s] = slots[s]
      /\ n \in Nat /\ 0 .. n \subseteq Slot
      /\ \/ phase' = "fill" /\ n' = n + 1
         \/ phase' = "exec" /\ n' = 0
  BY FilledFront
<1>p. /\ plan'[n] = [at |-> at, gas |-> running_gas]
      /\ \A s \in Front : plan'[s] = plan[s]
  BY <1>f DEF TypeOK
<1>u. UNCHANGED <<eip, gas, writeable>>
  BY DEF Filled, vmVars
<1>l. \A s \in Front : Live(s)
  <2>1. CASE n = 0
    BY <1>f, <2>1
  <2>2. CASE n > 0
    <3>1. Live(n - 1)
      BY <2>2 DEF PlanInv, FillInv
    <3> QED
      BY <1>f, <3>1, <2>2 DEF PlanInv, PaddingInv, Live
  <2> QED
    BY <1>f, <2>1, <2>2
<1>m. \A s \in Front' : Live(s)'
  <2> SUFFICES ASSUME NEW s \in Front' PROVE ~Padding(slots'[s])
    BY DEF Live, Padding
  <2>1. CASE s = n
    BY <1>f, <2>1
  <2>2. CASE s \in Front
    BY <1>f, <1>l, <2>2 DEF Live
  <2> QED
    BY <1>f, <2>1, <2>2
<1>1. PaddingInv'
  BY <1>m, <1>f DEF PaddingInv, Live
<1>2. SlotInv'
  <2> SUFFICES ASSUME NEW s \in Front', Live(s)', Continues(slots'[s])
               PROVE  /\ slots'[s].args \in Instrs
                      /\ Code[slots'[s].args].function = slots'[s].function
                      /\ Code[slots'[s].args].size = slots'[s].eip_size
    BY DEF SlotInv
  <2>1. CASE s = n
    BY <1>f, <2>1
  <2>2. CASE s \in Front
    BY <1>f, <1>l, <2>2 DEF PlanInv, SlotInv
  <2> QED
    BY <1>f, <2>1, <2>2
<1>3. ChainInv'
  <2> SUFFICES ASSUME NEW s \in Front', NEW t \in Front', t = s + 1, Live(t)'
               PROVE  /\ Live(s)'
                      /\ After(s, plan[t].at, plan[t].gas)'
    BY DEF ChainInv
  <2>0. s \in Front /\ s \in Nat
    BY <1>f
  <2>1. CASE t = n
    <3>1. n > 0 /\ s = n - 1
      BY <2>0, <2>1
    <3>2. After(s, at, running_gas)
      BY <3>1 DEF PlanInv, FillInv
    <3> QED
      BY <1>f, <1>p, <1>u, <1>m, <2>0, <2>1, <3>2 DEF After
  <2>2. CASE t \in Front
    <3>1. After(s, plan[t].at, plan[t].gas)
      BY <1>l, <2>0, <2>2 DEF PlanInv, ChainInv
    <3> QED
      BY <1>f, <1>p, <1>u, <1>m, <2>0, <2>2, <3>1 DEF After
  <2> QED
    BY <1>f, <2>1, <2>2
<1>0. ~Padding(slots'[0]) /\ plan'[0] = [at |-> eip', gas |-> gas']
  <2>1. CASE n = 0
    BY <1>f, <1>p, <1>u, <2>1 DEF PlanInv, FillInv
  <2>2. CASE n > 0
    BY <1>f, <1>p, <1>u, <2>2 DEF PlanInv, FillInv
  <2> QED
    BY <1>f, <2>1, <2>2
<1>4. FillInv'
  <2> SUFFICES ASSUME phase' = "fill"
               PROVE  /\ n' # 0
                      /\ ~Padding(slots'[0]) /\ plan'[0] = [at |-> eip', gas |-> gas']
                      /\ ~stop_filling' =>
                           Live(n - 1)' /\ After(n - 1, at, running_gas)'
    BY DEF FillInv
  <2>1. n' = n + 1 /\ n' # 0 /\ n' - 1 = n
    BY <1>f
  <2>2. ASSUME ~stop_filling'
        PROVE  Live(n - 1)' /\ After(n - 1, at, running_gas)'
    <3>1. /\ ~stop /\ running_gas' # 0 /\ at' = next
          /\ running_gas' = SaturatingSub(running_gas, p.gas_cost)
      BY <2>2 DEF Filled
    <3>2. Continues(p) /\ ~writeable /\ next = Follow(at, p.args)
      BY <3>1
    <3>3. running_gas \in Nat /\ p.gas_cost \in Nat
      BY DEF TypeOK, SlotType
    <3>4. /\ running_gas > p.gas_cost
          /\ running_gas' = running_gas - p.gas_cost
      BY <3>1, <3>3 DEF SaturatingSub
    <3>5. plan'[n].at = at /\ plan'[n].gas = running_gas
      BY <1>p
    <3> QED
      BY <1>f, <1>m, <1>u, <2>1, <3>1, <3>2, <3>4, <3>5 DEF After
  <2> QED
    BY <1>0, <2>1, <2>2
<1>5. ExecInv'
  BY <1>f, <1>0 DEF ExecInv
<1> QED
  BY <1>1, <1>2, <1>3, <1>4, <1>5 DEF PlanInv

(* A slot left empty because filling has stopped.                          *)
LEMMA PaddingPlan ==
  ASSUME TypeInv, PlanInv, FillPadding
  PROVE  PlanInv'
<1> USE DEF TypeInv
<1> DEFINE p == Emptied(slots[n])
<1>e. /\ p \in SlotType /\ Padding(p)
      /\ p.function = "nop" /\ p.gas_cost = 0
  BY EmptiedType DEF TypeOK, Emptied
<1>a. /\ phase = "fill" /\ stop_filling /\ plan' = plan
      /\ Filled(p, at, TRUE)
  BY DEF FillPadding, Filling
<1> HIDE DEF p
<1>f. /\ Front = 0 .. n - 1 /\ Front' = 0 .. n
      /\ slots'[n] = p
      /\ \A s \in Front : slots'[s] = slots[s]
      /\ n \in Nat /\ 0 .. n \subseteq Slot
      /\ \/ phase' = "fill" /\ n' = n + 1
         \/ phase' = "exec" /\ n' = 0
  BY <1>a, <1>e, FilledFront
<1>u. UNCHANGED <<eip, gas, writeable>> /\ stop_filling'
  BY <1>a DEF Filled, vmVars
<1>n. n > 0 /\ 0 \in Front
  BY <1>a, <1>f DEF PlanInv, FillInv
<1>m. \A s \in Front' : Live(s)' => s \in Front /\ Live(s)
  BY <1>e, <1>f DEF Live, Padding
<1>1. PaddingInv'
  <2> SUFFICES ASSUME NEW s \in Front', Padding(slots'[s])
               PROVE  /\ slots'[s].function = "nop"
                      /\ slots'[s].gas_cost = 0
                      /\ \A t \in Front' : t > s => Padding(slots'[t])
    BY DEF PaddingInv, Padding
  <2>1. CASE s = n
    BY <1>e, <1>f, <2>1
  <2>2. CASE s \in Front
    <3>1. /\ slots[s].function = "nop" /\ slots[s].gas_cost = 0
          /\ \A t \in Front : t > s => Padding(slots[t])
      BY <1>f, <2>2 DEF PlanInv, PaddingInv
    <3>2. \A t \in Front' : t = n \/ t \in Front
      BY <1>f
    <3> QED
      BY <1>e, <1>f, <2>2, <3>1, <3>2
  <2> QED
    BY <1>f, <2>1, <2>2
<1>2. SlotInv'
  BY <1>f, <1>m DEF PlanInv, SlotInv
<1>3. ChainInv'
  <2> SUFFICES ASSUME NEW s \in Front', NEW t \in Front', t = s + 1, Live(t)'
               PROVE  Live(s)' /\ After(s, plan[t].at, plan[t].gas)'
    BY DEF ChainInv
  <2>1. t \in Front /\ Live(t) /\ s \in Front
    BY <1>f, <1>m
  <2>2. Live(s) /\ After(s, plan[t].at, plan[t].gas)
    BY <2>1 DEF PlanInv, ChainInv
  <2> QED
    BY <1>a, <1>f, <1>u, <2>1, <2>2 DEF After, Live
<1>0. ~Padding(slots'[0]) /\ plan'[0] = [at |-> eip', gas |-> gas']
  BY <1>a, <1>f, <1>u, <1>n DEF PlanInv, FillInv
<1>4. FillInv'
  BY <1>0, <1>f, <1>u DEF FillInv
<1>5. ExecInv'
  BY <1>f, <1>0 DEF ExecInv
<1> QED
  BY <1>1, <1>2, <1>3, <1>4, <1>5 DEF PlanInv

LEMMA FillPlan ==
  ASSUME TypeInv, PlanInv, Fill, phase' # "stopped"
  PROVE  PlanInv'
<1> USE DEF TypeInv
<1>1. ASSUME NEW functions, Fetched(functions)
      PROVE  /\ phase = "fill" /\ ~stop_filling
             /\ mem[at] \in Instrs /\ Code[mem[at]].function \in functions
             /\ Code[mem[at]].function # "jmp_rel16"
             /\ at \in Address /\ writeable \in BOOLEAN
             /\ slots[n].args \in Instrs \union {NoArgs}
             /\ plan' = [plan EXCEPT ![n] = [at |-> at, gas |-> running_gas]]
  BY <1>1 DEF Fetched, Filling, Decodable, TypeOK, VmTypeOK, SlotType
<1>2. ASSUME mem[at] \in Instrs, writeable \in BOOLEAN, at \in Address
      PROVE  LET p == Decoded(mem[at], mem[at], writeable)
             IN  /\ p \in SlotType /\ ~Padding(p)
                 /\ p.args = mem[at]
                 /\ p.function = Code[mem[at]].function
                 /\ p.eip_size = Code[mem[at]].size
                 /\ Follow(at, mem[at]) \in Address
  BY <1>2, DecodedType, FollowType DEF Decoded
<1>3. CASE FillStraight
  <2> DEFINE p == Decoded(mem[at], mem[at], writeable)
  <2>1. Fetched(Straight) /\ Filled(p, Follow(at, mem[at]), writeable)
    BY <1>3 DEF FillStraight
  <2>2. /\ p \in SlotType /\ ~Padding(p) /\ p.args = mem[at]
        /\ p.function = Code[mem[at]].function
        /\ p.eip_size = Code[mem[at]].size
        /\ Follow(at, mem[at]) \in Address
    BY <1>1, <1>2, <2>1
  <2>3. Continues(p)
    BY <1>1, <2>1, <2>2 DEF Continues
  <2> HIDE DEF p
  <2> QED
    BY <1>1, <2>1, <2>2, <2>3, DecodedPlan
<1>4. CASE FillRelativeJump
  <2> DEFINE p == Decoded(mem[at], mem[at], writeable)
  <2>1. Fetched(RelativeJump) /\ Filled(p, Follow(at, mem[at]), writeable)
    BY <1>4 DEF FillRelativeJump
  <2>2. /\ p \in SlotType /\ ~Padding(p) /\ p.args = mem[at]
        /\ p.function = Code[mem[at]].function
        /\ p.eip_size = Code[mem[at]].size
        /\ Follow(at, mem[at]) \in Address
    BY <1>1, <1>2, <2>1
  <2>3. Continues(p)
    BY <1>1, <2>1, <2>2 DEF Continues, RelativeJump
  <2> HIDE DEF p
  <2> QED
    BY <1>1, <2>1, <2>2, <2>3, DecodedPlan
<1>5. CASE FillUnpredictable
  <2> DEFINE p == Decoded(mem[at], mem[at], writeable)
             next == Wrap(at + 2 * Code[mem[at]].size)
  <2>1. /\ Fetched(Unpredictable \union NoGasStop)
        /\ Filled(p, next, TRUE)
    BY <1>5 DEF FillUnpredictable
  <2>2. /\ p \in SlotType /\ ~Padding(p)
        /\ p.function \in Unpredictable \union NoGasStop
    BY <1>1, <1>2, <2>1
  <2>3. ~Continues(p)
    BY <2>2 DEF Continues, Unpredictable, NoGasStop, Straight
  <2>4. next \in Address
    <3>1. at + 2 * Code[mem[at]].size \in Int
      BY <1>1, <2>1, CodeType, SpaceAssumption DEF Address
    <3> QED
      BY <3>1, WrapType
  <2> HIDE DEF p, next
  <2> QED
    BY <1>1, <2>1, <2>2, <2>3, <2>4, DecodedPlan
<1>6. CASE FillRep
  <2> DEFINE p == Decoded(mem[at], slots[n].args, writeable)
  <2>1. Fetched(Rep) /\ Filled(p, at, TRUE)
    BY <1>6 DEF FillRep
  <2>2. p \in SlotType /\ ~Padding(p) /\ p.function \in Rep
    BY <1>1, <2>1, DecodedType DEF Decoded
  <2>3. ~Continues(p)
    BY <2>2 DEF Continues, Rep, Straight
  <2> HIDE DEF p
  <2> QED
    BY <1>1, <2>1, <2>2, <2>3, DecodedPlan
<1> QED
  BY <1>3, <1>4, <1>5, <1>6, PaddingPlan DEF Fill, FillError

-----------------------------------------------------------------------------
(* Executing keeps the plan                                                *)

LEMMA WrapIdentity ==
  ASSUME NEW x \in Address PROVE Wrap(x) = x
BY SpaceAssumption DEF Wrap, Address

(* What executing an instruction that the decoder continues after does to  *)
(* gas_remaining and eip.                                                  *)
LEMMA ContinuesStep ==
  ASSUME VmTypeOK,
         NEW p \in SlotType, Continues(p),
         p.args \in Instrs,
         Code[p.args].function = p.function, Code[p.args].size = p.eip_size,
         RunFunction(p), result' = "Ok"
  PROVE  /\ gas' = gas - p.gas_cost
         /\ p.function # "enter" => eip' = Follow(eip, p.args)
<1>1. p.function \in {"nop", "increment", "mov", "enter", "jmp_rel"}
  BY DEF Continues, Straight
<1>2. eip \in Int /\ p.eip_size \in Int
  BY SpaceAssumption DEF VmTypeOK, Address, SlotType
<1>3. p.function # "jmp_rel" => Follow(eip, p.args) = Wrap(eip + p.eip_size)
  BY <1>1 DEF Follow, RelativeJump
<1>4. CASE p.function \in {"nop", "increment"}
  BY <1>3, <1>4
  DEF RunFunction, RunOutOfGas, Nop, Increment, Mov, Enter, JmpRel,
      JmpEcxIsZero, JmpAbs, Hlt, OpUndefined, Interrupt, RepLods, RepStos, RepMov,
      Continue, Charged
<1>5. CASE p.function = "mov"
  <2>1. Mov(p)
    BY <1>5
    DEF RunFunction, RunOutOfGas, Nop, Increment, Enter, JmpRel,
        JmpEcxIsZero, JmpAbs, Hlt, OpUndefined, Interrupt, RepLods, RepStos, RepMov
  <2> QED
    BY <1>3, <1>5, <2>1 DEF Mov, StoreThen, Fail, Continue, Charged
<1>6. CASE p.function = "enter"
  BY <1>6
  DEF RunFunction, RunOutOfGas, Nop, Increment, Mov, Enter, JmpRel,
      JmpEcxIsZero, JmpAbs, Hlt, OpUndefined, Interrupt, RepLods, RepStos, RepMov,
      Charged
<1>7. CASE p.function = "jmp_rel"
  <2>1. JmpRel(p)
    BY <1>7
    DEF RunFunction, RunOutOfGas, Nop, Increment, Mov, Enter,
        JmpEcxIsZero, JmpAbs, Hlt, OpUndefined, Interrupt, RepLods, RepStos, RepMov
  <2>2. Follow(eip, p.args) = Target(eip, p.args)
    BY <1>7 DEF Follow, RelativeJump
  <2>3. Target(eip, p.args) \in Address
    BY FollowType DEF VmTypeOK
  <2>4. Target(eip, p.args) - p.eip_size + p.eip_size = Target(eip, p.args)
    BY <1>2, <2>3, SpaceAssumption DEF Address
  <2> QED
    BY <2>1, <2>2, <2>3, <2>4, WrapIdentity DEF JmpRel, Continue, Charged
<1> QED
  BY <1>1, <1>4, <1>5, <1>6, <1>7

LEMMA ExecPlan ==
  ASSUME TypeInv, PlanInv, Exec, phase' = "exec"
  PROVE  PlanInv'
<1> USE DEF TypeInv
<1>1. /\ phase = "exec" /\ RunFunction(slots[n]) /\ result' = "Ok"
      /\ n \in Slot /\ n + 1 \in Slot /\ n' = n + 1
      /\ UNCHANGED <<slots, plan, writeable>>
  BY ExecIsRun, PipelineAssumption DEF Advance, TypeOK, Slot
<1>2. Front = Slot /\ Front' = Slot
  BY <1>1 DEF Front
<1>3. PaddingInv'
  BY <1>1, <1>2 DEF PlanInv, PaddingInv, Padding
<1>4. SlotInv'
  BY <1>1, <1>2 DEF PlanInv, SlotInv, Live, Padding
<1>5. ChainInv'
  BY <1>1, <1>2 DEF PlanInv, ChainInv, Live, Padding, After
<1>6. FillInv'
  BY DEF FillInv
<1>7. ExecInv'
  <2> SUFFICES ASSUME Live(n + 1)
               PROVE  /\ gas' = plan[n + 1].gas
                      /\ NoEnter => eip' = plan[n + 1].at
    BY <1>1, <1>2 DEF ExecInv, Live, Padding
  <2>1. Live(n) /\ After(n, plan[n + 1].at, plan[n + 1].gas)
    BY <1>1, <1>2 DEF PlanInv, ChainInv
  <2>2. gas = plan[n].gas /\ (NoEnter => eip = plan[n].at)
    BY <1>1, <2>1 DEF PlanInv, ExecInv
  <2>3. /\ slots[n] \in SlotType /\ Continues(slots[n])
        /\ slots[n].args \in Instrs
        /\ Code[slots[n].args].function = slots[n].function
        /\ Code[slots[n].args].size = slots[n].eip_size
    BY <1>1, <1>2, <2>1 DEF PlanInv, SlotInv, After, TypeOK
  <2>4. /\ gas' = gas - slots[n].gas_cost
        /\ slots[n].function # "enter" => eip' = Follow(eip, slots[n].args)
    BY <1>1, <2>3, ContinuesStep DEF TypeOK
  <2>5. NoEnter => slots[n].function # "enter"
    BY <2>3 DEF NoEnter
  <2> QED
    BY <2>1, <2>2, <2>4, <2>5 DEF After
<1> QED
  BY <1>3, <1>4, <1>5, <1>6, <1>7 DEF PlanInv

-----------------------------------------------------------------------------
(* The plan                                                                *)

(* The slots of a cycle are one straight run of instructions: each could   *)
(* be paid, left gas, and was decoded where and with the gas with which    *)
(* the one before it leaves off, and only padding follows the last.        *)
THEOREM PlanInvariant == Spec => []Inv
<1>1. Init => Inv
  BY InitTypes DEF Init, VmInit, Inv, Running
<1>2. Inv /\ [Next]_vars => Inv'
  <2> SUFFICES ASSUME Inv, [Next]_vars PROVE Inv'
    OBVIOUS
  <2>a. TypeInv'
    BY NextTypes DEF Inv
  <2>b. Running'
    <3>1. CASE BeginCycle
      BY <3>1 DEF Inv, Running, BeginCycle, vmVars
    <3>2. CASE Fill
      <4>1. phase = "fill" /\ (UNCHANGED result \/ phase' = "stopped")
        BY <3>2 DEF Fill, FillPadding, FillStraight, FillRelativeJump, Filling,
                    FillUnpredictable, FillRep, FillError, Filled, Fetched, vmVars
      <4> QED
        BY <4>1 DEF Inv, Running
    <3>3. CASE Exec
      BY <3>3, ExecIsRun DEF Running, Advance
    <3>4. CASE Resume
      BY <3>4 DEF Running, Resume, HostResume
    <3>5. CASE UNCHANGED vars
      BY <3>5 DEF Inv, Running, vars, vmVars, pipeVars
    <3> QED
      BY <3>1, <3>2, <3>3, <3>4, <3>5 DEF Next
  <2>0. TypeInv' /\ Running'
    BY <2>a, <2>b
  <2>1. CASE BeginCycle
    <3>1. /\ phase' = "fill" /\ n' = 0 /\ ~stop_filling' /\ at' = eip
          /\ running_gas' = gas /\ writeable' = Writeable(eip)
          /\ UNCHANGED <<eip, gas>>
      BY <2>1 DEF BeginCycle, vmVars
    <3>2. Front' = {}
      BY <3>1 DEF Front
    <3>3. PaddingInv' /\ SlotInv' /\ ChainInv'
      BY <3>2 DEF PaddingInv, SlotInv, ChainInv
    <3>4. FillInv' /\ ExecInv'
      BY <3>1 DEF FillInv, ExecInv, Writeable
    <3> QED
      BY <2>0, <3>3, <3>4 DEF Inv, PlanInv
  <2>2. CASE Fill
    <3>1. phase = "fill"
      BY <2>2 DEF Fill, FillPadding, FillStraight, FillRelativeJump,
                  FillUnpredictable, FillRep, FillError, Fetched, Filling
    <3> QED
      BY <2>0, <2>2, <3>1, FillPlan DEF Inv
  <2>3. CASE Exec
    <3>1. phase = "exec" /\ phase' # "fill"
      BY <2>3, ExecIsRun DEF Advance
    <3> QED
      BY <2>0, <2>3, <3>1, ExecPlan DEF Inv
  <2>4. CASE Resume
    BY <2>0, <2>4 DEF Resume, Inv
  <2>5. CASE UNCHANGED vars
    <3>1. /\ UNCHANGED <<mem, eip, gas, ecx, error_eip, result>>
          /\ UNCHANGED <<phase, slots, n, at, running_gas, stop_filling,
                         writeable, resumes, plan>>
      BY <2>5 DEF vars, vmVars, pipeVars
    <3> QED
      BY <2>0, <3>1 DEF Inv, PlanInv, PaddingInv, SlotInv, ChainInv, FillInv,
                 ExecInv, Live, After, Front, Padding
  <2> QED
    BY <2>1, <2>2, <2>3, <2>4, <2>5 DEF Next
<1> QED
  BY <1>1, <1>2, PTL DEF Spec

(* Only the last instruction decoded in a cycle can turn out not to be     *)
(* payable: fill_pipeline never runs ahead of gas_remaining, whatever the  *)
(* instructions executed in between do.                                    *)
THEOREM GasBound == Spec => []FilledWithinGas
<1>1. Inv => FilledWithinGas
  <2> SUFFICES ASSUME Inv, phase = "exec", gas < slots[n].gas_cost,
                      NEW m \in Slot, m > n, ~Padding(slots[m])
               PROVE  FALSE
    BY DEF FilledWithinGas
  <2>1. /\ PlanInv /\ Front = Slot /\ n \in Slot /\ gas \in Nat
    BY DEF Inv, Front, TypeInv, TypeOK, VmTypeOK
  <2>2. n + 1 \in Slot
    BY <2>1, PipelineAssumption DEF Slot
  <2>3. ~Padding(slots[n]) /\ ~Padding(slots[n + 1])
    <3>1. ~Padding(slots[n])
      BY <2>1 DEF PlanInv, PaddingInv
    <3>2. CASE m = n + 1
      BY <3>1, <3>2
    <3>3. CASE m > n + 1
      BY <2>1, <2>2, <3>1, <3>3 DEF PlanInv, PaddingInv
    <3> QED
      BY <2>1, <3>2, <3>3, PipelineAssumption DEF Slot
  <2>4. plan[n].gas > slots[n].gas_cost
    BY <2>1, <2>2, <2>3 DEF PlanInv, ChainInv, Live, After
  <2>5. gas = plan[n].gas
    BY <2>1, <2>3 DEF PlanInv, ExecInv, Live
  <2>6. slots[n].gas_cost \in Nat
    BY <2>1 DEF Inv, TypeInv, TypeOK, SlotType
  <2> QED
    BY <2>1, <2>4, <2>5, <2>6
<1> QED
  BY <1>1, PlanInvariant, PTL

(* For an instruction set whose logic functions move eip by what the       *)
(* decoder accounts for (all but enter), every instruction is executed at  *)
(* the eip and with the gas_remaining that fill_pipeline predicted.        *)
THEOREM Prediction == Spec => [](NoEnter => Predicted)
<1>1. Inv => (NoEnter => Predicted)
  BY DEF Inv, PlanInv, ExecInv, Predicted, Executing, Live, Front, TypeInv,
         TypeOK
<1> QED
  BY <1>1, PlanInvariant, PTL

(* Of an instruction set without enter, an instruction that fails leaves   *)
(* in error_eip the address it was decoded from (ErrorLocated), whatever   *)
(* ran before it in its cycle and however far decoding has gone on.        *)
THEOREM ErrorAddress == ASSUME NoEnter PROVE Spec => ErrorLocated
<1>1. Inv /\ [Next]_vars =>
        (phase = "exec" /\ result' \in Errors => error_eip' = plan[n].at)
  <2> SUFFICES ASSUME Inv, [Next]_vars, phase = "exec", result' \in Errors
               PROVE  error_eip' = plan[n].at
    OBVIOUS
  <2>1. result = "Ok" /\ PlanInv /\ Front = Slot /\ n \in Slot
    BY DEF Inv, Running, Front, TypeInv, TypeOK
  <2>2. Exec
    <3>1. result' # result
      BY <2>1 DEF Errors
    <3>2. ~BeginCycle /\ ~Fill /\ ~Resume
      BY <2>1 DEF BeginCycle, Fill, FillPadding, FillStraight,
                  FillRelativeJump, FillUnpredictable, FillRep, FillError,
                  Filling, Fetched, Resume, HostResume
    <3> QED
      BY <3>1, <3>2 DEF Next, vars, vmVars
  <2>3. slots[n].function # "enter"
    <3> SUFFICES ASSUME slots[n].function = "enter" PROVE FALSE
      OBVIOUS
    <3>1. Live(n) /\ Continues(slots[n])
      BY <2>1 DEF PlanInv, PaddingInv, Live, Continues, Straight
    <3> QED
      BY <2>1, <3>1, NoEnter DEF PlanInv, SlotInv, NoEnter
  <2>4. error_eip' = eip /\ slots[n].function # "nop"
    BY <2>2, <2>3, SMTT(60)
       DEF Exec, ExecOutOfGas, ExecNop, ExecIncrement, ExecMov, ExecEnter,
           ExecJmpRel, ExecJcxz, ExecJmpAbs, ExecHlt, ExecUndefined,
           ExecInterrupt, ExecRepLods, ExecRepStos, ExecRepMov, RunOutOfGas, Nop, Increment,
           Mov, Enter, JmpRel, JmpEcxIsZero, JmpAbs, Hlt, OpUndefined,
           Interrupt, RepLods, RepStos, RepMov, RepMovBody, StoreThen,
           Continue, Fail, Errors
  <2>5. Live(n)
    BY <2>1, <2>4 DEF PlanInv, PaddingInv, Live
  <2> QED
    BY <2>1, <2>4, <2>5, NoEnter DEF PlanInv, ExecInv
<1> QED
  BY <1>1, PlanInvariant, PTL DEF Spec, ErrorLocated

(* When gas runs out, in a slot or between two elements of a repetition,   *)
(* eip stays where execution resumes, and the machine is exactly as far as *)
(* was paid: a repetition has executed the elements it has counted off     *)
(* ecx, a rep stos has stored these and no other, and nothing else has     *)
(* changed (cycle, repe).                                                  *)
THEOREM OutOfGas == Spec => OutOfGasInPlace
<1> DEFINE InPlace(p) ==
      /\ gas' = 0 /\ UNCHANGED eip
      /\ p.function \notin StringRep => Counted = 0
      /\ Counted > 0 => /\ GasAfter(p, Counted - 1) > 0
                        /\ GasAfter(p, Counted) = 0
                        /\ ecx' > 0
      /\ mem' = IF p.function = "rep_stos" THEN Stored(Counted) ELSE mem
<1>1. TypeInv /\ Running /\ [Next]_vars =>
        [result' = "OutOfGas" => InPlace(slots[n])]_vars
  <2> SUFFICES ASSUME TypeInv, Running, Next, result' = "OutOfGas"
               PROVE  InPlace(slots[n])
    OBVIOUS
  <2>1. Exec
    BY DEF Next, BeginCycle, Fill, FillPadding, FillStraight, FillRelativeJump,
           FillUnpredictable, FillRep, FillError, Filled, Filling, Fetched,
           Resume, HostResume, Running, vmVars
  <2>2. PICK p \in SlotType : p = slots[n] /\ RunFunction(p)
    BY <2>1, ExecIsRun DEF TypeInv, TypeOK
  <2> HIDE DEF InPlace
  <2> SUFFICES InPlace(p)
    BY <2>2
  <2>3. /\ gas \in Nat /\ ecx \in Nat /\ p.gas_cost \in Nat
        /\ mem \in [Loaded -> Instrs] /\ VmTypeOK
    BY SpaceAssumption DEF TypeInv, TypeOK, VmTypeOK, SlotType, Address
  <2>4. \/ RunOutOfGas(p) \/ RepLods(p) \/ RepStos(p)
        \/ RepMov(p) /\ gas = p.gas_cost
    BY <2>2, SMTT(60)
       DEF RunFunction, Nop, Increment, Mov, Enter, JmpRel, JmpEcxIsZero,
           JmpAbs, Hlt, OpUndefined, Interrupt, RepMov, RepMovBody, StoreThen,
           Continue, Fail
  <2>5. Stored(0) = mem
    BY <2>3 DEF Stored
  <2>6. CASE ecx' = ecx /\ gas' = 0 /\ UNCHANGED <<eip, mem>>
    BY <2>3, <2>5, <2>6 DEF InPlace, Counted
  <2>7. CASE RunOutOfGas(p)
    BY <2>6, <2>7 DEF RunOutOfGas
  <2>8. CASE RepMov(p) /\ gas = p.gas_cost
    BY <2>3, <2>6, <2>8 DEF RepMov, Charged, Fail, Continue
  <2>9. ASSUME NEW k \in 0 .. ecx, Repeated(p, k), k < ecx, gas' = 0,
               eip' = eip, p.function \in StringRep,
               mem' = IF p.function = "rep_stos" THEN Stored(k) ELSE mem
        PROVE  InPlace(p)
    <3>1. ecx' = ecx - k /\ gas' = GasAfter(p, k)
      BY <2>3, <2>9, RepeatedType
    <3>2. Counted = k /\ ecx' > 0
      BY <2>3, <2>9, <3>1 DEF Counted
    <3>3. k > 0 => GasAfter(p, k - 1) > 0
      BY <2>9 DEF Repeated
    <3> QED
      BY <2>9, <3>1, <3>2, <3>3 DEF InPlace
  <2>10. CASE RepLods(p)
    <3>1. PICK k \in 0 .. ecx : /\ Repeated(p, k) /\ k < ecx /\ gas' = 0
                               /\ eip' = eip
      BY <2>10 DEF RepLods, Continue, Fail
    <3>2. p.function = "rep_lods" /\ mem' = mem
      BY <2>10 DEF RepLods
    <3> QED
      BY <2>9, <3>1, <3>2 DEF StringRep, Rep
  <2>11. CASE RepStos(p)
    <3>1. PICK k \in 0 .. ecx : /\ Repeated(p, k) /\ k < ecx /\ gas' = 0
                               /\ eip' = eip /\ mem' = Stored(k)
      BY <2>11 DEF RepStos, Continue, Fail
    <3>2. p.function = "rep_stos"
      BY <2>11 DEF RepStos
    <3> QED
      BY <2>9, <3>1, <3>2 DEF StringRep, Rep
  <2> QED
    BY <2>4, <2>7, <2>8, <2>10, <2>11
<1> QED
  BY <1>1, PlanInvariant, PTL DEF Spec, OutOfGasInPlace, Inv

-----------------------------------------------------------------------------
(* What a logic function can do to code memory                             *)

(* A store reaches writeable memory only.                                  *)
LEMMA StoreRespectsReadOnly ==
  ASSUME VmTypeOK, NEW a, NEW v, NEW b, NEW Done, StoreThen(a, v, b, Done),
         NEW c \in Loaded, ~Writeable(c)
  PROVE  mem'[c] = mem[c]
<1>1. CASE UNCHANGED mem
  BY <1>1
<1>2. CASE Writeable(a) /\ mem' = [mem EXCEPT ![a] = v]
  <2>1. a # c
    BY <1>2
  <2> QED
    BY <1>2, <2>1 DEF VmTypeOK
<1> QED
  BY <1>1, <1>2 DEF StoreThen

(* Every logic function but int leaves read-only memory alone.             *)
LEMMA RunRespectsReadOnly ==
  ASSUME VmTypeOK, NEW p, RunFunction(p), p.function # "interrupt",
         NEW c \in Loaded, ~Writeable(c)
  PROVE  mem'[c] = mem[c]
<1>1. CASE UNCHANGED mem
  BY <1>1
<1>2. CASE Mov(p)
  BY <1>2, StoreRespectsReadOnly DEF Mov
<1>3. CASE Enter(p)
  BY <1>3, StoreRespectsReadOnly DEF Enter
<1>4. CASE RepMovBody(p)
  BY <1>1, <1>4, StoreRespectsReadOnly DEF RepMovBody
<1>5. CASE RepMov(p)
  BY <1>1, <1>4, <1>5 DEF RepMov
<1>6. CASE RepStos(p)
  <2>1. PICK k \in 0 .. ecx : /\ \A d \in ecx - k + 1 .. ecx : Storable(d)
                             /\ mem' = Stored(k)
    BY <1>6 DEF RepStos
  <2>2. \A d \in ecx - k + 1 .. ecx : c # Dest(d)
    BY <2>1 DEF Storable
  <2> QED
    BY <2>1, <2>2 DEF Stored
<1> QED
  BY <1>1, <1>2, <1>3, <1>5, <1>6
  DEF RunFunction, RunOutOfGas, Nop, Increment, JmpRel, JmpEcxIsZero, JmpAbs,
      Hlt, OpUndefined, Interrupt, RepLods

(* An int may write one cell of it.                                        *)
LEMMA InterruptWrites ==
  ASSUME VmTypeOK, NEW p, RunFunction(p), p.function = "interrupt",
         p.args \in Instrs
  PROVE  \/ UNCHANGED mem
         \/ /\ Code[p.args].to \in Loaded
            /\ mem' = [mem EXCEPT ![Code[p.args].to] = Code[p.args].value]
<1>1. RunOutOfGas(p) \/ Interrupt(p)
  BY DEF RunFunction, Nop, Increment, Mov, Enter, JmpRel, JmpEcxIsZero,
         JmpAbs, Hlt, OpUndefined, RepLods, RepStos, RepMov
<1> QED
  BY <1>1 DEF RunOutOfGas, Interrupt

-----------------------------------------------------------------------------
(* Fresh slots                                                             *)

(* The live slots behind the one that runs follow one that only continues, *)
(* and are in read-only memory.                                            *)
LEMMA LiveAhead ==
  ASSUME TypeInv, PlanInv, phase = "exec", NEW m \in Slot, m > n, Live(m)
  PROVE  Live(n) /\ Continues(slots[n]) /\ ~writeable
<1>1. Front = Slot /\ n \in Slot /\ n + 1 \in Slot
  BY PipelineAssumption DEF Front, TypeInv, TypeOK, Slot
<1>2. Live(n + 1)
  <2>1. CASE m = n + 1
    BY <2>1
  <2>2. CASE m > n + 1
    BY <1>1, <2>2 DEF PlanInv, PaddingInv, Live
  <2> QED
    BY <1>1, <2>1, <2>2, PipelineAssumption DEF Slot
<1> QED
  BY <1>1, <1>2 DEF PlanInv, ChainInv, After

(* Memory only changes where the programs stay read-only.                  *)
LEMMA ReadOnlyKept ==
  ASSUME TypeInv, Contained, StaysReadOnly(mem),
         NEW p \in SlotType, RunFunction(p),
         p.function = "interrupt" =>
           p.args \in Instrs /\ Code[p.args].function = "interrupt"
  PROVE  StaysReadOnly(mem')
<1> SUFFICES ASSUME NEW a \in Loaded, ~Writeable(a),
                    Code[mem'[a]].function \in Straight \union RelativeJump
             PROVE  ~Writeable(Follow(a, mem'[a]))
  BY DEF StaysReadOnly
<1> USE DEF TypeInv, TypeOK
<1>1. CASE mem'[a] = mem[a]
  BY <1>1 DEF StaysReadOnly
<1>2. CASE mem'[a] # mem[a]
  <2>1. p.function = "interrupt"
    BY <1>2, RunRespectsReadOnly
  <2>2. /\ p.args \in Instrs /\ Code[p.args].function = "interrupt"
        /\ Code[p.args].to = a /\ mem'[a] = Code[p.args].value
    BY <1>2, <2>1, InterruptWrites DEF VmTypeOK
  <2> QED
    BY <2>2 DEF Contained
<1> QED
  BY <1>1, <1>2

(* And where the decoder can follow them.                                  *)
LEMMA FetchableKept ==
  ASSUME TypeInv, Prefetchable, NoPrefetchError(mem),
         NEW p \in SlotType, RunFunction(p), VmTypeOK',
         p.function = "interrupt" =>
           p.args \in Instrs /\ Code[p.args].function = "interrupt"
  PROVE  NoPrefetchError(mem')
<1> SUFFICES ASSUME NEW a \in Loaded, ~Writeable(a),
                    Code[mem'[a]].function \in Straight \union RelativeJump
             PROVE  Decodable(mem', Follow(a, mem'[a]))
  BY DEF NoPrefetchError
<1> USE DEF TypeInv, TypeOK
<1>0. \A b \in Loaded : Decodable(mem', b)
  BY DEF Decodable, Prefetchable, VmTypeOK
<1>1. CASE mem'[a] = mem[a]
  BY <1>0, <1>1 DEF NoPrefetchError, Decodable
<1>2. CASE mem'[a] # mem[a]
  <2>1. p.function = "interrupt"
    BY <1>2, RunRespectsReadOnly
  <2>2. /\ p.args \in Instrs /\ Code[p.args].function = "interrupt"
        /\ Code[p.args].to = a /\ mem'[a] = Code[p.args].value
    BY <1>2, <2>1, InterruptWrites DEF VmTypeOK
  <2> QED
    BY <1>0, <2>2 DEF Prefetchable
<1> QED
  BY <1>1, <1>2

(* What FreshInv says of one slot.                                         *)
Fresh(s) ==
  /\ Writeable(plan[s].at) = writeable
  /\ Decodable(mem, plan[s].at)
  /\ slots[s] = Decoded(mem[plan[s].at], slots[s].args, writeable)
  /\ slots[s].function \notin Rep => slots[s].args = mem[plan[s].at]

LEMMA FreshFunction ==
  ASSUME VmTypeOK, NEW s, Fresh(s)
  PROVE  /\ mem[plan[s].at] \in Instrs /\ plan[s].at \in Loaded
         /\ slots[s].function = Code[mem[plan[s].at]].function
         /\ slots[s].function \notin Rep =>
              slots[s].args \in Instrs
              /\ Code[slots[s].args].function = slots[s].function
BY DEF Fresh, Decodable, Decoded, VmTypeOK

(* Filling adds a fresh slot, and goes on where the programs stay          *)
(* read-only.                                                              *)
LEMMA FreshFilled ==
  ASSUME TypeInv, Contained, StaysReadOnly(mem), FreshInv,
         NEW functions, Fetched(functions),
         NEW args, NEW next, NEW stop \in BOOLEAN,
         args \in Instrs \union {NoArgs},
         Code[mem[at]].function \notin Rep => args = mem[at],
         Filled(Decoded(mem[at], args, writeable), next, stop),
         stop \/ ( /\ ~writeable /\ next = Follow(at, mem[at])
                   /\ Code[mem[at]].function \in Straight \union RelativeJump )
  PROVE  FreshInv'
<1> USE DEF TypeInv, TypeOK
<1> DEFINE p == Decoded(mem[at], args, writeable)
<1>a. /\ phase = "fill" /\ ~stop_filling
      /\ Decodable(mem, at) /\ at \in Loaded /\ mem[at] \in Instrs
      /\ plan' = [plan EXCEPT ![n] = [at |-> at, gas |-> running_gas]]
  BY DEF Fetched, Filling, Decodable, VmTypeOK
<1>b. /\ Writeable(at) = writeable
      /\ \A s \in Front : Live(s) => Fresh(s)
  BY <1>a DEF FreshInv, Fresh
<1>p. /\ p \in SlotType /\ p.args = args
      /\ p.function = Code[mem[at]].function
      /\ Filled(p, next, stop)
  BY <1>a, DecodedType DEF Decoded
<1>r. p = Decoded(mem[at], p.args, writeable)
  BY <1>p
<1> HIDE DEF p
<1>f. /\ Front = 0 .. n - 1 /\ Front' = 0 .. n
      /\ slots'[n] = p
      /\ \A s \in Front : slots'[s] = slots[s]
      /\ n \in Nat /\ 0 .. n \subseteq Slot
      /\ \/ phase' = "fill" /\ n' = n + 1
         \/ phase' = "exec" /\ n' = 0
  BY <1>a, <1>p, FilledFront
<1>g. /\ plan'[n].at = at
      /\ \A s \in Front : plan'[s] = plan[s]
  BY <1>a, <1>f
<1>u. UNCHANGED <<mem, writeable>> /\ at' = next /\ stop_filling' = (stop \/ running_gas' = 0)
  BY <1>p DEF Filled, vmVars
<1>1. ASSUME NEW s \in Front', Live(s)' PROVE Fresh(s)'
  <2>1. CASE s = n
    BY <1>a, <1>b, <1>f, <1>g, <1>p, <1>r, <1>u, <2>1 DEF Fresh
  <2>2. CASE s \in Front
    <3>1. Live(s)
      BY <1>1, <1>f, <2>2 DEF Live, Padding
    <3> QED
      BY <1>b, <1>f, <1>g, <1>u, <2>2, <3>1 DEF Fresh
  <2> QED
    BY <1>f, <2>1, <2>2
<1>2. ~stop_filling' => Writeable(at') = writeable'
  BY <1>a, <1>b, <1>u DEF StaysReadOnly, Writeable
<1> QED
  BY <1>1, <1>2 DEF FreshInv, Fresh

LEMMA FreshPadding ==
  ASSUME TypeInv, FreshInv, FillPadding
  PROVE  FreshInv'
<1> USE DEF TypeInv, TypeOK
<1> DEFINE p == Emptied(slots[n])
<1>a. /\ phase = "fill" /\ plan' = plan /\ p \in SlotType /\ Padding(p)
      /\ Filled(p, at, TRUE)
  BY EmptiedType DEF FillPadding, Filling
<1> HIDE DEF p
<1>f. /\ Front = 0 .. n - 1 /\ Front' = 0 .. n
      /\ slots'[n] = p
      /\ \A s \in Front : slots'[s] = slots[s]
      /\ n \in Nat
  BY <1>a, FilledFront
<1>u. UNCHANGED <<mem, writeable>> /\ stop_filling'
  BY <1>a DEF Filled, vmVars
<1>1. \A s \in Front' : Live(s)' => s \in Front /\ Live(s)
  BY <1>a, <1>f DEF Live, Padding
<1> QED
  BY <1>a, <1>f, <1>u, <1>1 DEF FreshInv

LEMMA FreshFill ==
  ASSUME TypeInv, Contained, StaysReadOnly(mem), FreshInv,
         Fill, phase' # "stopped"
  PROVE  FreshInv'
<1> USE DEF TypeInv, TypeOK
<1>1. ASSUME NEW functions, Fetched(functions)
      PROVE  /\ mem[at] \in Instrs
             /\ Code[mem[at]].function \in functions
             /\ slots[n].args \in Instrs \union {NoArgs}
  BY <1>1 DEF Fetched, Decodable, VmTypeOK, SlotType
<1>2. CASE FillStraight
  BY <1>1, <1>2, FreshFilled DEF FillStraight
<1>3. CASE FillRelativeJump
  BY <1>1, <1>3, FreshFilled DEF FillRelativeJump
<1>4. CASE FillUnpredictable
  BY <1>1, <1>4, FreshFilled DEF FillUnpredictable
<1>5. CASE FillRep
  BY <1>1, <1>5, FreshFilled DEF FillRep
<1> QED
  BY <1>2, <1>3, <1>4, <1>5, FreshPadding DEF Fill, FillError

LEMMA FreshExec ==
  ASSUME TypeInv, PlanInv, Contained, FreshInv, Exec, phase' = "exec"
  PROVE  FreshInv'
<1> USE DEF TypeInv, TypeOK
<1>1. /\ phase = "exec" /\ RunFunction(slots[n])
      /\ n \in Slot /\ n + 1 \in Slot /\ n' = n + 1
      /\ UNCHANGED <<slots, plan, writeable>>
  BY ExecIsRun, PipelineAssumption DEF Advance, Slot
<1>2. Front = Slot /\ Front' = Slot
  BY <1>1 DEF Front
<1>3. ASSUME NEW s \in Slot, Live(s), s > n
      PROVE  Fresh(s) /\ mem'[plan[s].at] = mem[plan[s].at]
  <2>1. Fresh(s)
    BY <1>1, <1>2, <1>3, PipelineAssumption DEF FreshInv, Fresh, Slot
  <2>2. Continues(slots[n]) /\ ~writeable
    BY <1>1, <1>3, LiveAhead
  <2>3. slots[n].function # "interrupt"
    BY <2>2 DEF Continues, Straight
  <2>4. plan[s].at \in Loaded /\ ~Writeable(plan[s].at)
    BY <2>1, <2>2 DEF Fresh, Decodable
  <2> QED
    BY <1>1, <2>1, <2>3, <2>4, RunRespectsReadOnly
<1>4. ASSUME NEW s \in Slot, Live(s)', s >= n' PROVE Fresh(s)'
  <2>1. s > n /\ Live(s)
    BY <1>1, <1>2, <1>4, PipelineAssumption DEF Live, Padding, Slot
  <2> QED
    BY <1>1, <1>3, <2>1 DEF Fresh, Decodable
<1> QED
  BY <1>1, <1>2, <1>4 DEF FreshInv, Fresh

-----------------------------------------------------------------------------
(* Code memory                                                             *)

LEMMA ExecutedInterrupt ==
  ASSUME TypeInv, PlanInv, FreshInv, Contained, phase = "exec",
         slots[n].function = "interrupt"
  PROVE  slots[n].args \in Instrs /\ Code[slots[n].args].function = "interrupt"
<1>1. n \in Front /\ n >= n
  BY PipelineAssumption DEF TypeInv, TypeOK, Front, Slot
<1>2. Live(n)
  BY <1>1 DEF PlanInv, PaddingInv, Live
<1>3. Fresh(n)
  BY <1>1, <1>2 DEF FreshInv, Fresh
<1> QED
  BY <1>3, FreshFunction DEF TypeInv, TypeOK, Rep

(* Programs that keep the decoder out of writeable memory go on doing so,  *)
(* and every slot not yet executed is what decoding memory now would give: *)
(* nothing that runs between decoding and execution can make it stale.     *)
THEOREM CodeInvariant == Spec => [](Inv /\ CodeInv)
<1>1. Init => CodeInv
  BY InitAssumption DEF Init, VmInit, CodeInv, Contained, Prefetchable
<1>2. Inv /\ Inv' /\ CodeInv /\ [Next]_vars => CodeInv'
  <2> SUFFICES ASSUME Inv, Inv', CodeInv, [Next]_vars PROVE CodeInv'
    OBVIOUS
  <2>t. TypeInv
    BY DEF Inv
  <2>1. CASE UNCHANGED mem /\ phase' \notin {"fill", "exec"}
    BY <2>1 DEF CodeInv
  <2>2. CASE BeginCycle
    <3>1. /\ phase' = "fill" /\ n' = 0 /\ at' = eip /\ UNCHANGED mem
          /\ writeable' = Writeable(eip)
      BY <2>2 DEF BeginCycle, vmVars
    <3>2. Front' = {} /\ Writeable(at') = writeable'
      BY <3>1 DEF Front, Writeable
    <3> QED
      BY <3>1, <3>2 DEF CodeInv, FreshInv
  <2>3. CASE Fill
    <3>1. phase = "fill" /\ UNCHANGED mem
      BY <2>3 DEF Fill, FillPadding, FillStraight, FillRelativeJump, Filling,
                  FillUnpredictable, FillRep, FillError, Filled, Fetched, vmVars
    <3>2. CASE Contained /\ phase' # "stopped"
      BY <2>t, <2>3, <3>1, <3>2, FreshFill DEF CodeInv
    <3>3. CASE ~Contained
      BY <3>3 DEF CodeInv, FreshInv
    <3> QED
      BY <2>1, <3>1, <3>2, <3>3
  <2>4. CASE Exec
    <3>1. CASE ~Contained
      BY <3>1 DEF CodeInv, FreshInv
    <3>2. CASE Contained
      <4>1. /\ phase = "exec" /\ phase' # "fill"
            /\ RunFunction(slots[n]) /\ slots[n] \in SlotType
        BY <2>t, <2>4, ExecIsRun DEF Advance, TypeInv, TypeOK
      <4>2. PlanInv /\ FreshInv
        BY <4>1 DEF Inv, CodeInv
      <4>3. slots[n].function = "interrupt" =>
              slots[n].args \in Instrs
              /\ Code[slots[n].args].function = "interrupt"
        BY <2>t, <3>2, <4>1, <4>2, ExecutedInterrupt
      <4>4. StaysReadOnly(mem')
        BY <2>t, <3>2, <4>1, <4>3, ReadOnlyKept DEF CodeInv
      <4>5. VmTypeOK'
        BY DEF Inv, TypeInv, TypeOK
      <4>6. Prefetchable => NoPrefetchError(mem')
        BY <2>t, <3>2, <4>1, <4>3, <4>5, FetchableKept DEF CodeInv
      <4>7. phase' = "exec" => FreshInv'
        BY <2>t, <2>4, <3>2, <4>2, FreshExec
      <4> QED
        BY <3>2, <4>1, <4>4, <4>6, <4>7 DEF CodeInv
    <3> QED
      BY <3>1, <3>2
  <2>5. CASE Resume
    BY <2>1, <2>5 DEF Resume, HostResume
  <2>6. CASE UNCHANGED vars
    <3>1. /\ UNCHANGED <<mem, eip, gas, ecx, error_eip, result>>
          /\ UNCHANGED <<phase, slots, n, at, running_gas, stop_filling,
                         writeable, resumes, plan>>
      BY <2>6 DEF vars, vmVars, pipeVars
    <3> QED
      BY <3>1 DEF CodeInv, FreshInv, Live, Front, Padding
  <2> QED
    BY <2>2, <2>3, <2>4, <2>5, <2>6 DEF Next
<1>3. Spec => []Inv
  BY PlanInvariant
<1> QED
  BY <1>1, <1>2, <1>3, PTL DEF Spec

(* The invariant that every theorem about prefetching rests on: the slots  *)
(* of a cycle are one paid run of instructions, and those that have still  *)
(* to run are what memory holds.                                           *)
THEOREM InductiveInvariant == Spec => []Inductive
  BY CodeInvariant, PTL DEF Inductive

LEMMA ExecutedFresh ==
  ASSUME Inv, CodeInv, NoEnter, Contained, Executing
  PROVE  /\ eip = plan[n].at /\ gas = plan[n].gas
         /\ Fresh(n) /\ Writeable(eip) = writeable
<1>1. n \in Front /\ n >= n /\ Live(n) /\ phase = "exec"
  BY PipelineAssumption
  DEF Executing, Inv, TypeInv, TypeOK, Front, Slot, Live
<1> QED
  BY <1>1 DEF Inv, PlanInv, ExecInv, CodeInv, FreshInv, Fresh

(* For programs that do not lead the decoder from read-only into writeable *)
(* memory, and without enter, no slot is ever executed that decoding the   *)
(* memory at eip at that moment would not give.                            *)
THEOREM Freshness == Spec => [](NoEnter /\ Contained => FreshDecode)
<1>1. Inv /\ CodeInv => (NoEnter /\ Contained => FreshDecode)
  BY ExecutedFresh DEF FreshDecode, Fresh
<1> QED
  BY <1>1, CodeInvariant, PTL

(* For programs that do not lead the decoder from read-only into writeable *)
(* memory, the latter is executed one slot at a time.  Others violate it   *)
(* (writeable_crossing): the code decides once per cycle.                  *)
THEOREM OneSlot == Spec => [](Contained => WriteableOneSlot)
<1>1. Inv /\ CodeInv => (Contained => WriteableOneSlot)
  <2> SUFFICES ASSUME Inv, CodeInv, Contained, Executing,
                      Writeable(plan[n].at)
               PROVE  n = 0 /\ \A m \in Slot : m > n => Padding(slots[m])
    BY DEF WriteableOneSlot
  <2>1. /\ n \in Front /\ n \in Slot /\ n >= n /\ Live(n) /\ phase = "exec"
        /\ Front = Slot /\ PlanInv /\ FreshInv /\ TypeInv
    BY PipelineAssumption
    DEF Executing, Inv, CodeInv, TypeInv, TypeOK, Front, Slot, Live
  <2>2. writeable
    BY <2>1 DEF FreshInv
  <2>3. \A m \in Slot : m > n => Padding(slots[m])
    BY <2>1, <2>2, LiveAhead DEF Live
  <2>4. n = 0
    <3> SUFFICES ASSUME n # 0 PROVE FALSE
      OBVIOUS
    <3>1. n - 1 \in Slot /\ n = (n - 1) + 1
      BY <2>1, PipelineAssumption DEF Slot
    <3> QED
      BY <2>1, <2>2, <3>1 DEF PlanInv, ChainInv, After
  <2> QED
    BY <2>3, <2>4
<1> QED
  BY <1>1, CodeInvariant, PTL

-----------------------------------------------------------------------------
(* Refinement                                                              *)

(* Isa instantiates Vm on the same constants and variables.                *)
LEMMA SameDecoder ==
  /\ ISA!vmVars = vmVars
  /\ ISA!VmTypeOK <=> VmTypeOK
  /\ ISA!Rep = Rep
  /\ \A m, a : ISA!Decodable(m, a) <=> Decodable(m, a)
  /\ \A a : ISA!Writeable(a) <=> Writeable(a)
<1>1. ISA!Functions = Functions /\ ISA!Rep = Rep /\ ISA!Address = Address
  BY DEF ISA!Functions, Functions, ISA!Straight, Straight, ISA!RelativeJump,
         RelativeJump, ISA!Unpredictable, Unpredictable, ISA!NoGasStop,
         NoGasStop, ISA!Rep, Rep, ISA!Address, Address
<1>2. ISA!Results = Results
  BY DEF ISA!Results, Results, ISA!Errors, Errors
<1> QED
  BY <1>1, <1>2
  DEF ISA!vmVars, vmVars, ISA!VmTypeOK, VmTypeOK, ISA!Decodable, Decodable,
      ISA!Writeable, Writeable

LEMMA SameSlots ==
  ASSUME NEW a
  PROVE  ISA!SlotAt(a) =
           Decoded(mem[a], IF Code[mem[a]].function \in Rep THEN NoArgs
                           ELSE mem[a], Writeable(a))
<1>1. \A f : ISA!OpcodeGas(f) = OpcodeGas(f)
  BY DEF ISA!OpcodeGas, OpcodeGas
<1>2. \A f : ISA!BranchGas(f) = BranchGas(f)
  BY DEF ISA!BranchGas, BranchGas, ISA!Unpredictable, Unpredictable
<1>3. \A w : ISA!SurchargeGas(w) = SurchargeGas(w)
  BY DEF ISA!SurchargeGas, SurchargeGas
<1> QED
  BY <1>1, <1>2, <1>3
  DEF ISA!SlotAt, ISA!Decoded, Decoded, ISA!Rep, Rep, ISA!Writeable, Writeable

LEMMA SameFunctions ==
  ASSUME NEW p, RunFunction(p)
  PROVE  \/ ISA!RunOutOfGas(p)
         \/ ISA!Nop(p) \/ ISA!Increment(p) \/ ISA!Mov(p) \/ ISA!Enter(p)
         \/ ISA!JmpRel(p) \/ ISA!JmpEcxIsZero(p) \/ ISA!JmpAbs(p)
         \/ ISA!Hlt(p) \/ ISA!OpUndefined(p) \/ ISA!Interrupt(p)
         \/ ISA!RepLods(p) \/ ISA!RepStos(p) \/ ISA!RepMov(p)
<1> USE DEF ISA!Wrap, Wrap, ISA!Charged, Charged, ISA!Continue, Continue,
            ISA!Fail, Fail, ISA!Target, Target
<1>1. RunOutOfGas(p) => ISA!RunOutOfGas(p)
  BY DEF RunOutOfGas, ISA!RunOutOfGas
<1>2. Nop(p) => ISA!Nop(p)
  BY DEF Nop, ISA!Nop
<1>3. Increment(p) => ISA!Increment(p)
  BY DEF Increment, ISA!Increment
<1>s. \A a, v, b : StoreThen(a, v, b, Continue(p, b)) =>
                    ISA!StoreThen(a, v, b, ISA!Continue(p, b))
  BY DEF StoreThen, ISA!StoreThen, Writeable, ISA!Writeable
<1>4. Mov(p) => ISA!Mov(p)
  BY <1>s DEF Mov, ISA!Mov
<1>5. Enter(p) => ISA!Enter(p)
  BY <1>s DEF Enter, ISA!Enter
<1>6. JmpRel(p) => ISA!JmpRel(p)
  BY DEF JmpRel, ISA!JmpRel
<1>7. JmpEcxIsZero(p) => ISA!JmpEcxIsZero(p)
  BY DEF JmpEcxIsZero, ISA!JmpEcxIsZero
<1>8. JmpAbs(p) => ISA!JmpAbs(p)
  BY DEF JmpAbs, ISA!JmpAbs
<1>9. Hlt(p) => ISA!Hlt(p)
  BY DEF Hlt, ISA!Hlt
<1>10. OpUndefined(p) => ISA!OpUndefined(p)
  BY DEF OpUndefined, ISA!OpUndefined
<1>11. Interrupt(p) => ISA!Interrupt(p)
  BY DEF Interrupt, ISA!Interrupt
<1>r. \A k : Repeated(p, k) => ISA!Repeated(p, k)
  BY DEF Repeated, ISA!Repeated, GasAfter, ISA!GasAfter, SaturatingSub,
         ISA!SaturatingSub
<1>12. RepLods(p) => ISA!RepLods(p)
  BY <1>r DEF RepLods, ISA!RepLods
<1>14. RepStos(p) => ISA!RepStos(p)
  <2>1. \A c : ISA!Dest(c) = Dest(c)
    BY DEF ISA!Dest, Dest
  <2>w. \A c : ISA!Writeable(ISA!Dest(c)) = Writeable(Dest(c))
    BY <2>1 DEF ISA!Writeable, Writeable
  <2>2. \A c : ISA!Storable(c) = Storable(c)
    BY <2>1, <2>w DEF ISA!Storable, Storable
  <2>3. \A k : ISA!Stored(k) = Stored(k)
    BY <2>1 DEF ISA!Stored, Stored
  <2> SUFFICES ASSUME RepStos(p) PROVE ISA!RepStos(p)
    OBVIOUS
  <2>4. PICK k \in 0 .. ecx :
          /\ \A c \in ecx - k + 1 .. ecx : Storable(c)
          /\ Repeated(p, k)
          /\ mem' = Stored(k)
          /\ \/ k = ecx /\ Continue(p, eip)
             \/ k < ecx /\ gas' = 0 /\ Fail(eip, "OutOfGas")
             \/ /\ k < ecx /\ gas' > 0 /\ ~Storable(ecx - k)
                /\ Fail(eip, IF Writeable(Dest(ecx - k)) THEN "WroteBadMemory"
                             ELSE "WroteReadOnlyMemory")
    BY DEF RepStos
  <2>e. \A e : Fail(eip, e) => ISA!Fail(eip, e)
    OBVIOUS
  <2>f. Continue(p, eip) => ISA!Continue(p, eip)
    OBVIOUS
  <2> HIDE DEF ISA!Wrap, Wrap, ISA!Continue, Continue, ISA!Fail, Fail
  <2>5. /\ \A c \in ecx - k + 1 .. ecx : ISA!Storable(c)
        /\ ISA!Repeated(p, k)
        /\ mem' = ISA!Stored(k)
    <3>1. \A c \in ecx - k + 1 .. ecx : ISA!Storable(c)
      BY <2>2, <2>4
    <3>2. ISA!Repeated(p, k)
      BY <1>r, <2>4
    <3>3. mem' = ISA!Stored(k)
      BY <2>3, <2>4
    <3> QED
      BY <3>1, <3>2, <3>3
  <2>6. \/ k = ecx /\ ISA!Continue(p, eip)
        \/ k < ecx /\ gas' = 0 /\ ISA!Fail(eip, "OutOfGas")
        \/ /\ k < ecx /\ gas' > 0 /\ ~ISA!Storable(ecx - k)
           /\ ISA!Fail(eip, IF ISA!Writeable(ISA!Dest(ecx - k))
                            THEN "WroteBadMemory" ELSE "WroteReadOnlyMemory")
    <3>1. /\ ISA!Storable(ecx - k) <=> Storable(ecx - k)
          /\ ISA!Writeable(ISA!Dest(ecx - k)) <=> Writeable(Dest(ecx - k))
      BY <2>w, <2>2
    <3> QED
      <4>1. CASE k = ecx /\ Continue(p, eip)
        BY <2>f, <4>1
      <4>2. CASE k < ecx /\ gas' = 0 /\ Fail(eip, "OutOfGas")
        BY <2>e, <4>2
      <4>3. CASE /\ k < ecx /\ gas' > 0 /\ ~Storable(ecx - k)
                 /\ Fail(eip, IF Writeable(Dest(ecx - k))
                              THEN "WroteBadMemory" ELSE "WroteReadOnlyMemory")
        BY <2>e, <3>1, <4>3
      <4> QED
        BY <2>4, <4>1, <4>2, <4>3
  <2>7. p.function = "rep_stos"
    BY DEF RepStos
  <2> QED
    BY <2>5, <2>6, <2>7 DEF ISA!RepStos
<1>13. RepMov(p) => ISA!RepMov(p)
  <2>1. RepMovBody(p) => ISA!RepMovBody(p)
    BY DEF RepMovBody, ISA!RepMovBody, StoreThen, ISA!StoreThen, Writeable,
           ISA!Writeable
  <2> QED
    BY <2>1 DEF RepMov, ISA!RepMov, SaturatingSub, ISA!SaturatingSub
<1> QED
  BY <1>1, <1>2, <1>3, <1>4, <1>5, <1>6, <1>7, <1>8, <1>9, <1>10, <1>11,
     <1>12, <1>13, <1>14 DEF RunFunction

(* Padding is a stuttering step of the machine.                            *)
LEMMA PaddingStutters ==
  ASSUME Inv, Exec, Padding(slots[n])
  PROVE  UNCHANGED vmVars
<1>1. /\ phase = "exec" /\ RunFunction(slots[n]) /\ result = "Ok"
      /\ PlanInv /\ VmTypeOK
  BY ExecIsRun DEF Inv, Running, TypeInv, TypeOK
<1>2. n \in Front
  BY <1>1 DEF Front, Inv, TypeInv, TypeOK
<1>3. /\ slots[n].function = "nop" /\ slots[n].gas_cost = 0
      /\ slots[n].eip_size = 0
  BY <1>1, <1>2 DEF PlanInv, PaddingInv, Padding
<1>4. Nop(slots[n])
  BY <1>1, <1>3
  DEF RunFunction, RunOutOfGas, VmTypeOK, Increment, Mov, Enter, JmpRel,
      JmpEcxIsZero, JmpAbs, Hlt, OpUndefined, Interrupt, RepLods, RepStos, RepMov
<1>5. gas' = gas
  BY <1>1, <1>3, <1>4 DEF Nop, Charged, VmTypeOK
<1>6. eip' = eip
  <2>1. eip + 0 = eip /\ Wrap(eip) = eip
    BY <1>1, WrapIdentity, SpaceAssumption DEF VmTypeOK, Address
  <2> QED
    BY <1>3, <1>4, <2>1 DEF Nop, Continue
<1> QED
  BY <1>1, <1>4, <1>5, <1>6 DEF Nop, Continue, vmVars

(* Executing a decoded slot is executing the instruction at eip.           *)
LEMMA ExecSimulates ==
  ASSUME Transparent, Inv, CodeInv, Exec, ~Padding(slots[n])
  PROVE  ISA!Step
<1> DEFINE q == ISA!SlotAt(eip)
<1>1. /\ phase = "exec" /\ RunFunction(slots[n]) /\ result = "Ok"
      /\ VmTypeOK
  BY ExecIsRun DEF Inv, Running, TypeInv, TypeOK
<1>2. /\ eip = plan[n].at /\ Fresh(n) /\ Writeable(eip) = writeable
  BY <1>1, ExecutedFresh DEF Transparent, Executing
<1>3. /\ Decodable(mem, eip) /\ mem[eip] \in Instrs
      /\ slots[n] = Decoded(mem[eip], slots[n].args, Writeable(eip))
      /\ slots[n].function = Code[mem[eip]].function
      /\ slots[n].function \notin Rep => slots[n].args = mem[eip]
  BY <1>1, <1>2, FreshFunction DEF Fresh
<1>4. RunFunction(q)
  <2>1. CASE slots[n].function \notin Rep
    <3>1. q = slots[n]
      BY <1>3, <2>1, SameSlots
    <3> QED
      BY <1>1, <3>1
  <2>2. CASE slots[n].function \in Rep
    <3>1. slots[n].function \in {"rep_lods", "rep_stos"}
      BY <1>3, <2>2 DEF Rep, Transparent
    <3>2. /\ q.function = slots[n].function
          /\ q.gas_cost = slots[n].gas_cost
          /\ q.eip_size = slots[n].eip_size
      BY <1>3, SameSlots DEF Decoded
    <3>3. RunOutOfGas(slots[n]) \/ RepLods(slots[n]) \/ RepStos(slots[n])
      BY <1>1, <3>1
      DEF RunFunction, Nop, Increment, Mov, Enter, JmpRel, JmpEcxIsZero,
          JmpAbs, Hlt, OpUndefined, Interrupt, RepMov
    <3> HIDE DEF q
    <3>4. CASE RunOutOfGas(slots[n])
      BY <3>2, <3>4 DEF RunFunction, RunOutOfGas
    <3>5. CASE RepLods(slots[n])
      <4>1. RepLods(q)
        BY <3>2, <3>5 DEF RepLods, Repeated, GasAfter, Continue
      <4> QED
        BY <4>1 DEF RunFunction
    <3>6. CASE RepStos(slots[n])
      <4>1. RepStos(q)
        BY <3>2, <3>6 DEF RepStos, Repeated, GasAfter, Continue
      <4> QED
        BY <4>1 DEF RunFunction
    <3> QED
      BY <3>3, <3>4, <3>5, <3>6
  <2> QED
    BY <2>1, <2>2
<1> QED
  BY <1>1, <1>3, <1>4, SameDecoder, SameFunctions DEF ISA!Step

(* A fetch that fails is that of the first slot.                           *)
LEMMA FillErrorSimulates ==
  ASSUME Transparent, Inv, CodeInv, FillError
  PROVE  ISA!FetchError
<1>1. /\ phase = "fill" /\ ~stop_filling /\ ~Decodable(mem, at)
      /\ result' = "ReadMemory" /\ result = "Ok"
      /\ UNCHANGED <<mem, eip, gas, ecx, error_eip>>
  BY DEF FillError, Filling, Inv, Running
<1>2. PlanInv /\ FreshInv /\ VmTypeOK /\ n \in Nat
  BY <1>1, PipelineAssumption DEF Inv, CodeInv, TypeInv, TypeOK, Slot
<1>3. CASE n = 0
  BY <1>1, <1>2, <1>3, SameDecoder DEF PlanInv, FillInv, ISA!FetchError
<1>4. CASE n > 0
  <2>1. Live(n - 1) /\ After(n - 1, at, running_gas)
    BY <1>1, <1>2, <1>4 DEF PlanInv, FillInv
  <2>2. Fresh(n - 1)
    BY <1>1, <1>2, <2>1 DEF FreshInv, Fresh, Transparent, Live
  <2> DEFINE a == plan[n - 1].at
  <2>3. /\ a \in Loaded /\ ~Writeable(a) /\ at = Follow(a, mem[a])
        /\ Code[mem[a]].function \in Straight \union RelativeJump
    <3>1. slots[n - 1].function \notin Rep /\ Continues(slots[n - 1])
      BY <2>1 DEF After, Continues, Rep, Straight
    <3> QED
      BY <1>2, <2>1, <2>2, <3>1, FreshFunction
      DEF After, Fresh, Continues, RelativeJump
  <2>4. NoPrefetchError(mem)
    BY DEF CodeInv, Transparent
  <2> QED
    BY <1>1, <2>3, <2>4 DEF NoPrefetchError
<1> QED
  BY <1>2, <1>3, <1>4

LEMMA NextSimulates ==
  ASSUME Transparent, Inv, CodeInv, [Next]_vars
  PROVE  [ISA!Next]_vmVars
<1>1. CASE BeginCycle \/ UNCHANGED vars
  BY <1>1 DEF BeginCycle, vars
<1>2. CASE Fill
  <2>1. CASE FillError
    BY <2>1, FillErrorSimulates DEF ISA!Next
  <2>2. CASE ~FillError
    BY <1>2, <2>2
    DEF Fill, FillPadding, FillStraight, FillRelativeJump, FillUnpredictable,
        FillRep, Filled
  <2> QED
    BY <2>1, <2>2
<1>3. CASE Exec
  BY <1>3, PaddingStutters, ExecSimulates DEF ISA!Next
<1>4. CASE Resume
  BY <1>4 DEF Resume, HostResume, ISA!Next, ISA!Resume, ISA!HostResume
<1> QED
  BY <1>1, <1>2, <1>3, <1>4 DEF Next

(* Prefetching is not observable: for every instruction set, program and   *)
(* pipeline size the conditions of Transparent allow, the cycles of the VM *)
(* implement the machine that executes one instruction at a time.          *)
THEOREM Refinement == ASSUME Transparent PROVE Spec => OneAtATime
<1>1. Init => ISA!Init
  <2>1. Init => VmTypeOK /\ result = "Ok"
    BY InitTypes DEF Init, VmInit, TypeInv, TypeOK
  <2> QED
    BY <2>1, SameDecoder DEF ISA!Init
<1>2. Inv /\ CodeInv /\ [Next]_vars => [ISA!Next]_(ISA!vmVars)
  <2>1. ISA!vmVars = vmVars /\ (ISA!vmVars)' = vmVars'
    BY DEF ISA!vmVars, vmVars
  <2> QED
    BY <2>1, NextSimulates
<1>3. Spec => [](Inv /\ CodeInv)
  BY CodeInvariant
<1> QED
  BY <1>1, <1>2, <1>3, PTL DEF Spec, OneAtATime, ISA!Spec

=============================================================================
