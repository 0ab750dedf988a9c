------------------------------- MODULE Pipeline -----------------------------
(***************************************************************************)
(* VM::execute: a loop of cycles, each of which fills a fixed number of    *)
(* slots with decoded instructions (fill_pipeline) and then executes them  *)
(* (the loop of VM::cycle).  Filling is one action per slot, executing is  *)
(* one action per slot and logic function.                                 *)
(***************************************************************************)
EXTENDS Vm

CONSTANTS
  PipelineSize,  \* PIPELINE_SIZE, 16 in the code
  MaxResumes     \* bound on how often the host resumes

ASSUME PipelineAssumption ==
  /\ PipelineSize \in Nat \ {0}
  /\ MaxResumes \in Nat

VARIABLES
  phase,         \* "cycle", "fill", "exec" or "stopped"
  slots,         \* the pipeline
  n,             \* slot being filled or executed
  at,            \* fill_pipeline's local eip
  running_gas,   \* fill_pipeline's locals
  stop_filling,
  writeable,
  resumes,       \* how often the host has resumed
  plan           \* history: address and running gas each slot was decoded at

pipeVars == <<phase, slots, n, at, running_gas, stop_filling, writeable,
              resumes, plan>>
vars == <<vmVars, pipeVars>>

Slot == 0 .. PipelineSize - 1

DefaultSlot == [function |-> "nop", args |-> NoArgs,
                gas_cost |-> 0, eip_size |-> 1]

(* A slot that filling left empty: a nop that does not advance eip.        *)
Padding(p) == p.eip_size = 0

-----------------------------------------------------------------------------
(* fill_pipeline                                                           *)

(* Its prologue.  Clearing resets the first slot, once per slot.           *)
BeginCycle ==
  /\ phase = "cycle"
  /\ phase' = "fill"
  /\ n' = 0
  /\ at' = eip
  /\ running_gas' = gas
  /\ stop_filling' = FALSE
  /\ writeable' = Writeable(eip)
  /\ slots' = [slots EXCEPT ![0] = DefaultSlot]
  /\ UNCHANGED <<vmVars, resumes, plan>>

(* Mutant: filling goes on when the gas has run out.                       *)
Filled_PastGas(p, next, stop) ==
  /\ slots' = [slots EXCEPT ![n] = p]
  /\ at' = next
  /\ running_gas' = SaturatingSub(running_gas, p.gas_cost)
  /\ stop_filling' = stop
  /\ IF n + 1 = PipelineSize
     THEN phase' = "exec" /\ n' = 0
     ELSE phase' = phase /\ n' = n + 1
  /\ UNCHANGED <<vmVars, writeable, resumes>>

(* The end of the loop body: slot n is p, the next fetch is at `next'.     *)
Filled(p, next, stop) ==
  /\ slots' = [slots EXCEPT ![n] = p]
  /\ at' = next
  /\ running_gas' = SaturatingSub(running_gas, p.gas_cost)
  /\ stop_filling' = (stop \/ running_gas' = 0)
  /\ IF n + 1 = PipelineSize
     THEN phase' = "exec" /\ n' = 0
     ELSE phase' = phase /\ n' = n + 1
  /\ UNCHANGED <<vmVars, writeable, resumes>>

Filling == phase = "fill"

(* Once filling has stopped the rest are nops; their arguments stay.       *)
Emptied(p) == [function |-> "nop", args |-> p.args,
               gas_cost |-> 0, eip_size |-> 0]

FillPadding ==
  /\ Filling /\ stop_filling
  /\ Filled(Emptied(slots[n]), at, TRUE)
  /\ UNCHANGED plan

(* A slot that is decoded at `at'.                                         *)
Fetched(functions) ==
  /\ Filling /\ ~stop_filling
  /\ Decodable(mem, at)
  /\ Code[mem[at]].function \in functions
  /\ plan' = [plan EXCEPT ![n] = [at |-> at, gas |-> running_gas]]

(* Mutants: no surcharge, or no stop, in writeable memory.                 *)
FillStraight_NoSurcharge ==
  /\ Fetched(Straight)
  /\ Filled(Decoded(mem[at], mem[at], FALSE), Follow(at, mem[at]), writeable)

FillStraight_NoStop ==
  /\ Fetched(Straight)
  /\ Filled(Decoded(mem[at], mem[at], writeable), Follow(at, mem[at]), FALSE)

FillStraight ==
  /\ Fetched(Straight)
  /\ Filled(Decoded(mem[at], mem[at], writeable),
            Follow(at, mem[at]), writeable)

FillRelativeJump ==
  /\ Fetched(RelativeJump)
  /\ Filled(Decoded(mem[at], mem[at], writeable),
            Follow(at, mem[at]), writeable)

(* Mutant: an unpredictable instruction is decoded past.                   *)
FillUnpredictable_NoStop ==
  /\ Fetched(Unpredictable \union NoGasStop)
  /\ Filled(Decoded(mem[at], mem[at], writeable), Follow(at, mem[at]),
            writeable)

FillUnpredictable ==
  /\ Fetched(Unpredictable \union NoGasStop)
  /\ Filled(Decoded(mem[at], mem[at], writeable),
            Wrap(at + 2 * Code[mem[at]].size), TRUE)

(* A repeated instruction: its arguments are not decoded, the slot keeps   *)
(* those it held before.                                                   *)
FillRep ==
  /\ Fetched(Rep)
  /\ Filled(Decoded(mem[at], slots[n].args, writeable), at, TRUE)

(* An error while filling ends execute(): nothing decoded so far runs.     *)
FillError ==
  /\ Filling /\ ~stop_filling
  /\ ~Decodable(mem, at)
  /\ result' = "ReadMemory"
  /\ phase' = "stopped"
  /\ UNCHANGED <<mem, eip, gas, ecx, error_eip>>
  /\ UNCHANGED <<slots, n, at, running_gas, stop_filling, writeable,
                 resumes, plan>>

Fill == FillPadding \/ FillStraight \/ FillRelativeJump \/ FillUnpredictable
          \/ FillRep \/ FillError

-----------------------------------------------------------------------------
(* The loop of VM::cycle: the next slot, the next cycle, or the end.       *)

Advance ==
  /\ phase = "exec"
  /\ \/ /\ result' # "Ok" /\ phase' = "stopped" /\ n' = n
     \/ /\ result' = "Ok" /\ n + 1 < PipelineSize
        /\ phase' = phase /\ n' = n + 1
     \/ /\ result' = "Ok" /\ n + 1 = PipelineSize
        /\ phase' = "cycle" /\ n' = 0
  /\ UNCHANGED <<slots, at, running_gas, stop_filling, writeable, resumes,
                 plan>>

ExecOutOfGas    == phase = "exec" /\ RunOutOfGas(slots[n])  /\ Advance
ExecNop         == phase = "exec" /\ Nop(slots[n])          /\ Advance
ExecIncrement   == phase = "exec" /\ Increment(slots[n])    /\ Advance
ExecMov         == phase = "exec" /\ Mov(slots[n])          /\ Advance
ExecEnter       == phase = "exec" /\ Enter(slots[n])        /\ Advance
ExecJmpRel      == phase = "exec" /\ JmpRel(slots[n])       /\ Advance
ExecJcxz        == phase = "exec" /\ JmpEcxIsZero(slots[n]) /\ Advance
ExecJmpAbs      == phase = "exec" /\ JmpAbs(slots[n])       /\ Advance
ExecHlt         == phase = "exec" /\ Hlt(slots[n])          /\ Advance
ExecUndefined   == phase = "exec" /\ OpUndefined(slots[n])  /\ Advance
ExecInterrupt   == phase = "exec" /\ Interrupt(slots[n])    /\ Advance
ExecRepLods     == phase = "exec" /\ RepLods(slots[n])      /\ Advance
ExecRepStos     == phase = "exec" /\ RepStos(slots[n])      /\ Advance
ExecRepMov      == phase = "exec" /\ RepMov(slots[n])       /\ Advance

Exec == \/ ExecOutOfGas \/ ExecNop \/ ExecIncrement \/ ExecMov \/ ExecEnter
        \/ ExecJmpRel \/ ExecJcxz \/ ExecJmpAbs \/ ExecHlt \/ ExecUndefined
        \/ ExecInterrupt \/ ExecRepLods \/ ExecRepStos \/ ExecRepMov

-----------------------------------------------------------------------------

FreshPipeline == [s \in Slot |-> DefaultSlot]

Init ==
  /\ VmInit
  /\ phase = "cycle"
  /\ slots = FreshPipeline
  /\ n = 0
  /\ at = 0
  /\ running_gas = 0
  /\ stop_filling = FALSE
  /\ writeable = FALSE
  /\ resumes = 0
  /\ plan = [s \in Slot |-> [at |-> 0, gas |-> 0]]

(* execute() makes a new pipeline each time it is called.                  *)
Resume ==
  /\ resumes < MaxResumes
  /\ \E g \in Refills : HostResume(g)
  /\ phase' = "cycle"
  /\ slots' = FreshPipeline
  /\ n' = 0
  /\ resumes' = resumes + 1
  /\ UNCHANGED <<at, running_gas, stop_filling, writeable, plan>>

Next == BeginCycle \/ Fill \/ Exec \/ Resume

(* execute() is one thread of one loop: it keeps running.  Nothing makes   *)
(* a host resume.                                                          *)
Fairness == WF_vars(BeginCycle \/ Fill \/ Exec)

Spec == Init /\ [][Next]_vars
FairSpec == Spec /\ Fairness

-----------------------------------------------------------------------------
(* Properties                                                              *)

(* Every variable has the type of the field or local it stands for.        *)
TypeOK ==
  /\ VmTypeOK
  /\ phase \in {"cycle", "fill", "exec", "stopped"}
  /\ slots \in [Slot -> SlotType]
  /\ n \in Slot
  /\ at \in Address
  /\ running_gas \in Nat
  /\ stop_filling \in BOOLEAN
  /\ writeable \in BOOLEAN
  /\ resumes \in 0 .. MaxResumes
  /\ plan \in [Slot -> [at : Address, gas : Nat]]

Executing == phase = "exec" /\ ~Padding(slots[n])

(* Filling follows execution exactly: when a slot's turn comes, eip is the *)
(* address it was decoded from and gas_remaining is what fill_pipeline's   *)
(* running_gas was, whatever was executed in between.                      *)
Predicted ==
  Executing => eip = plan[n].at /\ gas = plan[n].gas

(* A slot is never stale: at its turn it is what decoding memory at eip    *)
(* would give now, the surcharge for writeable memory included (the        *)
(* comment in fill_pipeline on why writeable space uses one slot).         *)
FreshDecode ==
  Executing =>
    /\ Decodable(mem, eip)
    /\ slots[n] = Decoded(mem[eip], slots[n].args, Writeable(eip))
    /\ slots[n].function \notin Rep => slots[n].args = mem[eip]

(* "the pipeline will not be filled beyond out of gas" (VM::cycle): only   *)
(* the last decoded slot of a cycle can fail to be paid, so no later       *)
(* instruction has been decoded on the strength of one that never ran.     *)
FilledWithinGas ==
  phase = "exec" /\ gas < slots[n].gas_cost =>
    \A m \in Slot : m > n => Padding(slots[m])

(* In writeable space only one slot is used at a time (fill_pipeline).     *)
WriteableOneSlot ==
  Executing /\ Writeable(plan[n].at) =>
    n = 0 /\ \A m \in Slot : m > n => Padding(slots[m])

(* Elements a step counts off ecx.                                         *)
Counted == ecx - ecx'

(* Running out of gas leaves eip at the instruction that could not be      *)
(* paid, so that resuming is possible (VMError::OutOfGas), and the machine *)
(* exactly as far as was paid.  An instruction that is not a string        *)
(* repetition has changed nothing.  A repetition is in the middle: it has  *)
(* executed as many elements as it has counted off ecx and no other, the   *)
(* gas did not end before the last of them, and memory differs by what     *)
(* these have stored (repe, ops.rs).                                       *)
OutOfGasInPlace ==
  [][result' = "OutOfGas" =>
       /\ gas' = 0 /\ UNCHANGED eip
       /\ slots[n].function \notin StringRep => Counted = 0
       /\ Counted > 0 => /\ GasAfter(slots[n], Counted - 1) > 0
                         /\ GasAfter(slots[n], Counted) = 0
                         /\ ecx' > 0
       /\ mem' = IF slots[n].function = "rep_stos" THEN Stored(Counted)
                 ELSE mem]_vars

(* Gas bounds execution: execute() returns.                                *)
Terminates == result = "Ok" ~> result # "Ok"

(* error_eip is "set to the EIP value when an error has occurred" (VM): it *)
(* is the address that the failing instruction was decoded from.           *)
ErrorLocated ==
  [][phase = "exec" /\ result' \in Errors => error_eip' = plan[n].at]_vars

(* Conditions on code memory under which decoding ahead is safe: what the  *)
(* decoder follows from a read-only instruction is read-only and decodes.  *)
StaysReadOnly(m) ==
  \A a \in Loaded :
    ~Writeable(a) /\ Code[m[a]].function \in Straight \union RelativeJump
      => ~Writeable(Follow(a, m[a]))

NoPrefetchError(m) ==
  \A a \in Loaded :
    ~Writeable(a) /\ Code[m[a]].function \in Straight \union RelativeJump
      => Decodable(m, Follow(a, m[a]))

=============================================================================
