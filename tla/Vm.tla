--------------------------------- MODULE Vm ---------------------------------
(***************************************************************************)
(* The state of the virtual machine and the logic functions of its opcodes *)
(* as far as control flow, gas, and code memory are concerned.             *)
(*                                                                         *)
(* Code memory is a function from fetchable addresses to instructions: the *)
(* bytes at an address are abstracted to the instruction they decode to.   *)
(* The registers are abstracted to one, ecx, which loops, conditional      *)
(* jumps and register-indirect jumps depend on.  The other opcodes differ  *)
(* in the data they compute and not in what they do to control flow, and   *)
(* each behaviour of the dispatcher keeps one representative here.         *)
(*                                                                         *)
(* Isa executes these functions one instruction at a time; Pipeline        *)
(* executes them the way VM::cycle does.                                   *)
(***************************************************************************)
EXTENDS Integers

CONSTANTS
  Space,            \* number of addresses and of register values (2^32)
  WriteableMemory,  \* addresses from here on are writeable (0x80000000)
  Loaded,           \* addresses at which the 16 bytes a fetch needs are mapped
  Instrs,           \* names of the instructions memory can hold
  Code,             \* what each of them decodes to
  MaxSize,          \* size of the longest instruction
  Costs,            \* the gas charger: cost of each tier
  NoArgs,           \* the arguments of a default slot (ArgLocation::None)
  Programs,         \* initial contents of code memory
  Entries,          \* initial values of eip
  InitialGas,       \* initial values of gas_remaining
  InitialEcx,       \* initial values of the register
  Refills,          \* amounts a host may add before it resumes
  Block,            \* edi is this far above ecx when a rep stos is reached
  Filler            \* the instruction the accumulator's bytes decode to

VARIABLES
  mem,        \* code memory
  eip,        \* instruction pointer
  gas,        \* gas_remaining
  ecx,        \* the register
  error_eip,  \* eip of the last failed instruction
  result      \* "Ok" while execute() runs, then what it returned

vmVars == <<mem, eip, gas, ecx, error_eip, result>>

-----------------------------------------------------------------------------

Address == 0 .. Space - 1

(* Representatives of the opcodes by what they mean to the dispatcher.     *)
(* Behaviour None continues with the next instruction, RelativeJump        *)
(* continues at the target, Unpredictable ends the pipeline.               *)
Straight      == {"nop", "increment", "mov", "enter"}
RelativeJump  == {"jmp_rel", "jmp_rel16"}
Unpredictable == {"jcxz", "jmp_abs", "interrupt", "op_undefined"}
NoGasStop     == {"hlt"}
Rep           == {"rep_lods", "rep_stos", "rep_mov"}
StringRep     == Rep \ {"rep_mov"}

Functions == Straight \union RelativeJump \union Unpredictable
               \union NoGasStop \union Rep

GasCosts == {"None", "VeryLow", "Low", "Moderate", "ConditionalBranch",
             "MemoryAccess", "WriteableMemoryExec", "ModRMSurcharge"}

Errors == {"ReadMemory", "WroteReadOnlyMemory", "WroteBadMemory",
           "BadArgument", "InvalidOpcode", "InvalidOpcodeEncoding",
           "HypervisorError"}

Results == {"Ok", "VmStop", "OutOfGas"} \union Errors

InstrType == [function : Functions,   \* the logic function
              size     : 1 .. MaxSize,\* bytes, prefixes included
              rel      : Int,         \* displacement of a relative jump
              to       : Address,     \* memory operand, or the stack top
              value    : Instrs]      \* what a store leaves there

ASSUME SpaceAssumption ==
  /\ Space \in Nat \ {0}
  /\ WriteableMemory \in Address
  /\ Loaded \subseteq Address
  /\ MaxSize \in Nat \ {0}

(* memory.rs hands out 64 KiB sections and a fetch needs 16 bytes of one,  *)
(* so no read-only instruction reaches the first writeable address.        *)
ASSUME GapAssumption ==
  \A a \in Loaded : a < WriteableMemory => a + MaxSize < WriteableMemory

ASSUME CodeAssumption ==
  /\ Code \in [Instrs -> InstrType]
  /\ NoArgs \notin Instrs
  /\ Costs \in [GasCosts -> Nat]

ASSUME InitAssumption ==
  /\ Programs \subseteq [Loaded -> Instrs]
  /\ Entries \subseteq Address
  /\ InitialGas \subseteq Nat
  /\ InitialEcx \subseteq Address
  /\ Refills \subseteq Nat

ASSUME StoreAssumption ==
  /\ Block \in Int
  /\ Filler \in Instrs

-----------------------------------------------------------------------------

(* u32::wrapping_add and the release build's plain u32 arithmetic.         *)
Wrap(x) == x % Space

SaturatingSub(a, b) == IF a >= b THEN a - b ELSE 0

Writeable(a) == a >= WriteableMemory

(* The fixed part of an opcode's cost: its tier in the opcode table, the   *)
(* ModR/M surcharge, and the accesses decode_args_with_modrm reports.      *)
OpcodeGas(f) ==
  CASE f \in {"nop", "op_undefined", "hlt"} -> Costs["None"]
    [] f = "mov" -> Costs["VeryLow"] + Costs["ModRMSurcharge"]
                      + Costs["MemoryAccess"]
    [] f \in {"increment", "enter", "jmp_rel", "jmp_rel16", "jcxz"} ->
         Costs["Low"]
    [] f = "jmp_abs" -> Costs["Moderate"] + Costs["ModRMSurcharge"]
    [] f \in {"interrupt"} \union Rep -> Costs["Moderate"]

BranchGas(f) == IF f \in Unpredictable THEN Costs["ConditionalBranch"] ELSE 0

SurchargeGas(w) == IF w THEN Costs["WriteableMemoryExec"] ELSE 0

(* A decoded slot.  args names the instruction the arguments came from.    *)
SlotType == [function : Functions,
             args     : Instrs \union {NoArgs},
             gas_cost : Nat,
             eip_size : 0 .. MaxSize]

Decoded(i, args, w) ==
  [function |-> Code[i].function,
   args     |-> args,
   gas_cost |-> OpcodeGas(Code[i].function) + BranchGas(Code[i].function)
                  + SurchargeGas(w),
   eip_size |-> Code[i].size]

(* A fetch fails when the 16 bytes are not there, and decoding fails for a *)
(* relative jump with an operand size prefix.                              *)
Decodable(m, a) == a \in Loaded /\ Code[m[a]].function # "jmp_rel16"

(* Where execution continues after a straight instruction or a relative    *)
(* jump i at address a, as the decoder and jmp_rel compute it.             *)
Target(a, i) == Wrap(a + Code[i].size + Code[i].rel)

(* Mutant: a relative jump is decoded like a straight instruction.         *)
Follow_NoJump(a, i) == Wrap(a + Code[i].size)

Follow(a, i) == IF Code[i].function \in RelativeJump THEN Target(a, i)
                ELSE Wrap(a + Code[i].size)
-----------------------------------------------------------------------------
(* The logic functions: p is the slot being executed.  cycle() takes the   *)
(* slot's gas before it calls the function, adds eip_size to eip after it, *)
(* and stores eip in error_eip when the function fails.                    *)

(* Mutant: the slot's gas is compared but not taken.                       *)
Charged_NotTaken(p) == gas >= p.gas_cost /\ UNCHANGED gas

Charged(p) == /\ gas >= p.gas_cost
              /\ gas' = gas - p.gas_cost

Continue(p, at) ==
  /\ eip' = Wrap(at + p.eip_size)
  /\ result' = "Ok"
  /\ UNCHANGED error_eip

(* Mutant: the location is not noted.                                      *)
Fail_NotNoted(at, e) ==
  /\ eip' = at
  /\ result' = e
  /\ UNCHANGED error_eip

Fail(at, e) ==
  /\ eip' = at
  /\ error_eip' = at
  /\ result' = e

(* Mutants: gas_remaining is not saturated; eip has moved on when the      *)
(* missing gas is noticed.                                                 *)
RunOutOfGas_Negative(p) ==
  /\ gas < p.gas_cost
  /\ gas' = gas - p.gas_cost
  /\ result' = "OutOfGas"
  /\ UNCHANGED <<mem, eip, ecx, error_eip>>

RunOutOfGas_Advances(p) ==
  /\ gas < p.gas_cost
  /\ gas' = 0
  /\ eip' = Wrap(eip + p.eip_size)
  /\ result' = "OutOfGas"
  /\ UNCHANGED <<mem, ecx, error_eip>>

(* The slot costs more than what is left.                                  *)
RunOutOfGas(p) ==
  /\ gas < p.gas_cost
  /\ gas' = 0
  /\ result' = "OutOfGas"
  /\ UNCHANGED <<mem, eip, ecx, error_eip>>

Nop(p) ==
  /\ p.function = "nop"
  /\ Charged(p)
  /\ Continue(p, eip)
  /\ UNCHANGED <<mem, ecx>>

Increment(p) ==
  /\ p.function = "increment"
  /\ Charged(p)
  /\ ecx' = Wrap(ecx + 1)
  /\ Continue(p, eip)
  /\ UNCHANGED mem

(* VM::set_mem of v at address a, with eip at `at' when it happens;        *)
(* `Done' is what the function does after a successful store.              *)
StoreThen(a, v, at, Done) ==
  \/ /\ ~Writeable(a)
     /\ Fail(at, "WroteReadOnlyMemory")
     /\ UNCHANGED mem
  \/ /\ Writeable(a) /\ a \notin Loaded
     /\ Fail(at, "WroteBadMemory")
     /\ UNCHANGED mem
  \/ /\ Writeable(a) /\ a \in Loaded
     /\ mem' = [mem EXCEPT ![a] = v]
     /\ Done

Mov(p) ==
  /\ p.function = "mov"
  /\ Charged(p)
  /\ StoreThen(Code[p.args].to, Code[p.args].value, eip, Continue(p, eip))
  /\ UNCHANGED ecx

(* enter steps eip over its operand bytes, then pushes ebp.                *)
Enter(p) ==
  /\ p.function = "enter"
  /\ Charged(p)
  /\ LET at == Wrap(eip + Code[p.args].size - 1)
     IN  StoreThen(Code[p.args].to, Code[p.args].value, at, Continue(p, at))
  /\ UNCHANGED ecx

JmpRel(p) ==
  /\ p.function = "jmp_rel"
  /\ Charged(p)
  /\ Continue(p, Target(eip, p.args) - p.eip_size)
  /\ UNCHANGED <<mem, ecx>>

JmpEcxIsZero(p) ==
  /\ p.function = "jcxz"
  /\ Charged(p)
  /\ Continue(p, IF ecx = 0 THEN Target(eip, p.args) - p.eip_size ELSE eip)
  /\ UNCHANGED <<mem, ecx>>

(* jmp ecx: the target is in a register.                                   *)
JmpAbs(p) ==
  /\ p.function = "jmp_abs"
  /\ Charged(p)
  /\ Continue(p, ecx - p.eip_size)
  /\ UNCHANGED <<mem, ecx>>

Hlt(p) ==
  /\ p.function = "hlt"
  /\ Charged(p)
  /\ result' = "VmStop"
  /\ UNCHANGED <<mem, eip, ecx, error_eip>>

OpUndefined(p) ==
  /\ p.function = "op_undefined"
  /\ Charged(p)
  /\ Fail(eip, "InvalidOpcode")
  /\ UNCHANGED <<mem, ecx>>

(* The hypervisor gets the whole machine.  It may refuse the call, or      *)
(* write memory (copy_into_memory ignores the read-only half) and return.  *)
Interrupt(p) ==
  /\ p.function = "interrupt"
  /\ Charged(p)
  /\ \/ Fail(eip, "HypervisorError") /\ UNCHANGED mem
     \/ /\ mem' = IF Code[p.args].to \in Loaded
                  THEN [mem EXCEPT ![Code[p.args].to] = Code[p.args].value]
                  ELSE mem
        /\ Continue(p, eip)
  /\ UNCHANGED ecx

(* rep with a string opcode.  Nothing else runs between two elements, so   *)
(* the loop is one action here, and Rep has it element by element.  k      *)
(* elements are executed: each finds gas left after the slot is charged,   *)
(* and takes its cost from it, down to zero.                               *)
GasAfter(p, k) == SaturatingSub(gas - p.gas_cost, k * Costs["Low"])

Repeated(p, k) ==
  /\ gas >= p.gas_cost
  /\ k > 0 => GasAfter(p, k - 1) > 0
  /\ ecx' = ecx - k
  /\ gas' = GasAfter(p, k)

RepLods(p) ==
  /\ p.function = "rep_lods"
  /\ \E k \in 0 .. ecx :
       /\ Repeated(p, k)
       /\ \/ k = ecx /\ Continue(p, eip)
          \/ k < ecx /\ gas' = 0 /\ Fail(eip, "OutOfGas")
  /\ UNCHANGED mem

(* A rep stos with the direction flag set: edi goes down with ecx, and the *)
(* element stored when c are left lies at Dest(c).                         *)
Dest(c) == Wrap(Block + c)
Storable(c) == Writeable(Dest(c)) /\ Dest(c) \in Loaded

(* Memory after k elements.                                                *)
Stored(k) ==
  [a \in Loaded |-> IF \E c \in ecx - k + 1 .. ecx : a = Dest(c)
                    THEN Filler ELSE mem[a]]

(* Mutant: gas is looked at after the element is stored.                   *)
RepStos_StoresUnpaid(p) ==
  /\ p.function = "rep_stos"
  /\ \E k \in 0 .. ecx :
       /\ \A c \in ecx - k + 1 .. ecx : Storable(c)
       /\ Repeated(p, k)
       /\ \/ k = ecx /\ Continue(p, eip) /\ mem' = Stored(k)
          \/ /\ k < ecx /\ gas' = 0
             /\ Fail(eip, "OutOfGas")
             /\ mem' = IF Storable(ecx - k) THEN Stored(k + 1) ELSE Stored(k)
          \/ /\ k < ecx /\ gas' > 0 /\ ~Storable(ecx - k)
             /\ Fail(eip, IF Writeable(Dest(ecx - k)) THEN "WroteBadMemory"
                          ELSE "WroteReadOnlyMemory")
             /\ mem' = Stored(k)

RepStos(p) ==
  /\ p.function = "rep_stos"
  /\ \E k \in 0 .. ecx :
       /\ \A c \in ecx - k + 1 .. ecx : Storable(c)
       /\ Repeated(p, k)
       /\ mem' = Stored(k)
       /\ \/ k = ecx /\ Continue(p, eip)
          \/ k < ecx /\ gas' = 0 /\ Fail(eip, "OutOfGas")
          \/ /\ k < ecx /\ gas' > 0 /\ ~Storable(ecx - k)
             /\ Fail(eip, IF Writeable(Dest(ecx - k)) THEN "WroteBadMemory"
                          ELSE "WroteReadOnlyMemory")

(* rep with another opcode, here mov: the opcode is executed once with the *)
(* arguments the slot happens to hold and is then rejected.  With ecx = 0  *)
(* nothing is executed and nothing is rejected.                            *)
RepMovBody(p) ==
  LET args   == IF p.args = NoArgs THEN "nop" ELSE Code[p.args].function
      Reject == Fail(eip, "InvalidOpcodeEncoding")
  IN  \/ args \in {"nop", "op_undefined", "hlt"} /\ Reject /\ UNCHANGED mem
      \/ args = "mov" /\ StoreThen(Code[p.args].to, Code[p.args].value, eip, Reject)
      \/ /\ args \notin {"nop", "op_undefined", "hlt", "mov"}
         /\ Fail(eip, "BadArgument")
         /\ UNCHANGED mem

RepMov(p) ==
  /\ p.function = "rep_mov"
  /\ gas >= p.gas_cost
  /\ \/ /\ ecx = 0
        /\ Continue(p, eip)
        /\ Charged(p)
        /\ UNCHANGED <<mem, ecx>>
     \/ /\ ecx # 0 /\ gas = p.gas_cost
        /\ Fail(eip, "OutOfGas")
        /\ Charged(p)
        /\ UNCHANGED <<mem, ecx>>
     \/ /\ ecx # 0 /\ gas > p.gas_cost
        /\ RepMovBody(p)
        /\ IF result' = "InvalidOpcodeEncoding"
           THEN /\ ecx' = ecx - 1
                /\ gas' = SaturatingSub(gas - p.gas_cost, Costs["VeryLow"])
           ELSE Charged(p) /\ UNCHANGED ecx

-----------------------------------------------------------------------------

VmInit ==
  /\ mem \in Programs
  /\ eip \in Entries
  /\ gas \in InitialGas
  /\ ecx \in InitialEcx
  /\ error_eip = 0
  /\ result = "Ok"

(* The host adds gas and calls execute() again.                            *)
HostResume(g) ==
  /\ result = "OutOfGas"
  /\ gas' = gas + g
  /\ result' = "Ok"
  /\ UNCHANGED <<mem, eip, ecx, error_eip>>

VmTypeOK ==
  /\ mem \in [Loaded -> Instrs]
  /\ eip \in Address
  /\ gas \in Nat
  /\ ecx \in Address
  /\ error_eip \in Address
  /\ result \in Results

=============================================================================
