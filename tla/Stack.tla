-------------------------------- MODULE Stack -------------------------------
(***************************************************************************)
(* push, pop, pusha, popa, pushf, popf, call, ret, enter and leave on      *)
(* registers and memory.  The unit is the half word (16 bits): an operand  *)
(* has one or two of them (w), the operand size prefix decides which, and  *)
(* esp counts them.  A logic function is a chain of pushes, pops and       *)
(* assignments that the first failing access breaks off; what was done     *)
(* before stays done.                                                      *)
(***************************************************************************)
EXTENDS Integers, Sequences, SequencesExt, FiniteSetsExt

CONSTANTS
  Half,             \* number of values of a half word (2^16)
  WriteableMemory,  \* addresses from here on are writeable
  Sections,         \* the mapped sections, sets of addresses
  PushOrder,        \* the registers in the order pusha pushes them
  FlagBits,         \* bits of the flags register that are stored
  InstrSize,        \* eip_size of a stack instruction
  Instrs,           \* instructions: op, width and operands
  Starts,           \* states a program may be in when it starts
  MaxSteps          \* bound on its length

VARIABLES
  regs,    \* registers
  mem,     \* a half word at every address
  flags,   \* the flags as pushf serializes them
  eip,     \* instruction pointer
  result,  \* "Ok" or the error that was returned
  instr,   \* history: the instruction executed last
  base,    \* history: the highest address esp has had
  steps    \* history: number of instructions executed

vars == <<regs, mem, flags, eip, result, instr, base, steps>>

Space == Half * Half
Address == 0 .. Space - 1
Regs == ToSet(PushOrder)

ASSUME StackAssumption ==
  /\ Half \in Nat \ {0, 1}
  /\ WriteableMemory \in Address
  /\ Sections \subseteq SUBSET Address
  /\ FlagBits \in SUBSET (Nat \ {1}) /\ IsFiniteSet(FlagBits)
  /\ \A b \in FlagBits : 2 ^ (b + 1) <= Space
  /\ InstrSize \in Address \ {0}
  /\ MaxSteps \in Nat
  /\ {"esp", "ebp"} \subseteq Regs
  /\ PushOrder \in Seq(Regs) /\ IsInjective(PushOrder)

(* What ^ is at the bits of the flags register, for the proofs.            *)
ASSUME PowerAssumption ==
  \A b \in FlagBits \union {1} :
    2 ^ 0 = 1 /\ \A k \in 0 .. b : 2 ^ (k + 1) = 2 * 2 ^ k

(* What the opcode table gives the logic functions to work on; locals is   *)
(* a word, and addresses that low are not writeable.                       *)
ASSUME InstrsAssumption ==
  \A i \in Instrs :
    /\ i.w \in {1, 2}
    /\ i.op \in {"push", "pop", "call"} =>
         /\ i.kind \in {"reg", "imm", "mem"}
         /\ i.arg \in IF i.kind = "imm" THEN Address ELSE Regs
    /\ i.op = "pop"   => i.kind # "imm"
    /\ i.op = "ret"   => i.clear \in Nat
    /\ i.op = "enter" => i.nesting \in Nat /\ i.locals \in 0 .. WriteableMemory

ASSUME StartsAssumption ==
  \A s \in Starts : s.regs \in [Regs -> Address] /\ s.mem \in [Address -> 0 .. Half - 1]

Wrap(x) == x % Space
Cells(v, w) == IF w = 1 THEN <<v % Half>> ELSE <<v % Half, v \div Half>>
Number(c) == IF Len(c) = 1 THEN c[1] ELSE c[1] + Half * c[2]

(* set_reg: a half word leaves the upper half of the register as it is.    *)
Merge(old, c) == IF Len(c) = 1 THEN old - (old % Half) + c[1] ELSE Number(c)

-----------------------------------------------------------------------------
(* A machine in the middle of a logic function                             *)

Now == [regs |-> regs, mem |-> mem, eip |-> eip, result |-> "Ok",
        popped |-> <<>>]

Failing(m, error) == [m EXCEPT !.result = error]
With(m, r, v) == [m EXCEPT !.regs[r] = v]

Readable(a, w) == \E s \in Sections : a .. a + w - 1 \subseteq s
Loaded(m, a, w) == [j \in 1 .. w |-> m.mem[a + j - 1]]

(* set_mem                                                                 *)
SetMem(m, a, c) ==
  IF a < WriteableMemory THEN Failing(m, "WroteReadOnlyMemory")
  ELSE IF ~Readable(a, Len(c)) THEN Failing(m, "BadMemory")
  ELSE [m EXCEPT !.mem = [x \in Address |->
          IF x - a + 1 \in DOMAIN c THEN c[x - a + 1] ELSE @[x]]]

(* Mutant: esp is not wrapped.                                             *)
PushStack_Plain(m, c, w) ==
  LET moved == With(m, "esp", m.regs["esp"] - w)
  IN  IF Len(c) > w THEN Failing(moved, "TooBigSizeExpectation")
      ELSE SetMem(moved, moved.regs["esp"], c)

(* push_stack: esp moves first.                                            *)
PushStack(m, c, w) ==
  LET moved == With(m, "esp", Wrap(m.regs["esp"] - w))
  IN  IF Len(c) > w THEN Failing(moved, "TooBigSizeExpectation")
      ELSE SetMem(moved, moved.regs["esp"], c)

(* pop16 and pop32: so does it here.                                       *)
PopStack(m, w) ==
  LET a     == m.regs["esp"]
      moved == With(m, "esp", Wrap(a + w))
  IN  IF Readable(a, w) THEN [moved EXCEPT !.popped = Append(@, Loaded(m, a, w))]
      ELSE Failing(moved, "BadMemory")

PushAll(m, values, w) ==
  FoldLeft(LAMBDA n, c : IF n.result = "Ok" THEN PushStack(n, c, w) ELSE n,
           m, values)

PopAll(m, k, w) ==
  FoldLeft(LAMBDA n, j : IF n.result = "Ok" THEN PopStack(n, w) ELSE n,
           m, [j \in 1 .. k |-> j])

(* get_arg: whether an operand can be read, and its value.                 *)
Available(m, i) == i.kind = "mem" => Readable(m.regs[i.arg], i.w)
Operand(m, i) ==
  CASE i.kind = "reg" -> Cells(m.regs[i.arg], i.w)
    [] i.kind = "imm" -> Cells(i.arg, i.w)
    [] i.kind = "mem" -> Loaded(m, m.regs[i.arg], i.w)

-----------------------------------------------------------------------------
(* The logic functions                                                     *)

Push(i) ==
  IF Available(Now, i) THEN PushStack(Now, Operand(Now, i), i.w)
  ELSE Failing(Now, "BadMemory")

Pop(i) ==
  LET m == PopStack(Now, i.w)
      c == m.popped[1]
  IN  IF m.result # "Ok" THEN m
      ELSE IF i.kind = "reg"
      THEN With(m, i.arg, Merge(m.regs[i.arg], c))
      ELSE SetMem(m, m.regs[i.arg], c)

Pusha(i) ==
  PushAll(Now, [j \in DOMAIN PushOrder |-> Cells(regs[PushOrder[j]], i.w)], i.w)

(* Mutant: the order of pusha instead of its reverse.                      *)
Popa_SameOrder(i) ==
  LET m == PopAll(Now, Len(PushOrder), i.w)
  IN  IF m.result # "Ok" THEN m
      ELSE [m EXCEPT !.regs = [r \in Regs |->
              IF r = "esp" THEN @[r]
              ELSE LET j == CHOOSE j \in DOMAIN PushOrder : PushOrder[j] = r
                   IN  Merge(@[r], m.popped[j])]]

(* No register is set before all are popped, and esp is not set.           *)
Popa(i) ==
  LET m == PopAll(Now, Len(PushOrder), i.w)
  IN  IF m.result # "Ok" THEN m
      ELSE [m EXCEPT !.regs = [r \in Regs |->
              IF r = "esp" THEN @[r]
              ELSE LET j == CHOOSE j \in DOMAIN PushOrder : PushOrder[j] = r
                   IN  Merge(@[r], m.popped[Len(PushOrder) + 1 - j])]]

(* What serialize_flag_storage makes of the flags that                     *)
(* deserialize_flag_storage finds in v: bit 1 is set, others are dropped.  *)
Stored(v) == 2 + SumSet({((v \div 2^b) % 2) * 2^b : b \in FlagBits})

(* The pushes of Dwords fail under an operand size prefix.                 *)
Pushf(i) == PushStack(Now, Cells(flags, 2), i.w)
Popf == PopStack(Now, 2)

(* Where a call goes: relative to its end or where its operand says.       *)
Target(m, i) ==
  IF i.kind = "imm" THEN Wrap(eip + InstrSize + i.arg) ELSE Number(Operand(m, i))

(* The operand is evaluated twice, the second time after the push.         *)
Call(i) ==
  LET m == PushStack(Now, Cells(Wrap(eip + InstrSize), 2), i.w)
  IN  IF ~Available(Now, i) THEN Failing(Now, "BadMemory")
      ELSE IF m.result # "Ok" THEN m
      ELSE IF ~Available(m, i) THEN Failing(m, "BadMemory")
      ELSE [m EXCEPT !.eip = Wrap(Target(m, i) - InstrSize)]

Ret(i) ==
  LET m      == PopStack(Now, i.w)
      before == Wrap(Number(m.popped[1]) - InstrSize)
  IN  IF m.result # "Ok" THEN m
      ELSE [m EXCEPT !.eip = IF i.w = 1 THEN before % Half ELSE before,
                     !.regs["esp"] = Wrap(@ + i.clear)]

(* The bytes of enter's two operands are added to eip here, and again by   *)
(* the cycle; the frame pointers of a nesting level are all the caller's.  *)
Enter(i) ==
  LET ebp    == regs["ebp"]
      first  == PushStack([Now EXCEPT !.eip = Wrap(@ + 3)], Cells(ebp, 2), i.w)
      temp   == first.regs["esp"]
      outer  == IF i.nesting > 2 THEN i.nesting - 2 ELSE 0
      inner  == IF outer > 0 THEN With(first, "ebp", Wrap(ebp - 2)) ELSE first
      nested == PushAll(inner, [j \in 1 .. outer |-> Cells(ebp, 2)]
                                 \o <<Cells(temp, 2)>>, i.w)
      m      == IF i.nesting > 0 THEN nested ELSE first
  IN  IF first.result # "Ok" THEN first
      ELSE IF m.result # "Ok" THEN m
      ELSE With(With(m, "ebp", temp), "esp", Wrap(temp - i.locals))

Leave ==
  LET m == PopStack(With(Now, "esp", regs["ebp"]), 2)
  IN  IF m.result # "Ok" THEN m ELSE With(m, "ebp", Number(m.popped[1]))

-----------------------------------------------------------------------------

(* What cycle makes of the machine that a logic function leaves.           *)
Execute(i, m) ==
  /\ regs' = m.regs
  /\ mem' = m.mem
  /\ result' = m.result
  /\ eip' = IF m.result = "Ok" THEN Wrap(m.eip + InstrSize) ELSE m.eip
  /\ instr' = i
  /\ base' = IF m.regs["esp"] > base THEN m.regs["esp"] ELSE base
  /\ steps' = steps + 1

Fetched(i, op) == result = "Ok" /\ steps < MaxSteps /\ i.op = op

ExecPush(i)  == Fetched(i, "push")  /\ Execute(i, Push(i))  /\ UNCHANGED flags
ExecPop(i)   == Fetched(i, "pop")   /\ Execute(i, Pop(i))   /\ UNCHANGED flags
ExecPusha(i) == Fetched(i, "pusha") /\ Execute(i, Pusha(i)) /\ UNCHANGED flags
ExecPopa(i)  == Fetched(i, "popa")  /\ Execute(i, Popa(i))  /\ UNCHANGED flags
ExecPushf(i) == Fetched(i, "pushf") /\ Execute(i, Pushf(i)) /\ UNCHANGED flags
ExecPopf(i)  == /\ Fetched(i, "popf") /\ Execute(i, Popf)
                /\ flags' = IF Popf.result = "Ok"
                            THEN Stored(Number(Popf.popped[1])) ELSE flags
ExecCall(i)  == Fetched(i, "call")  /\ Execute(i, Call(i))  /\ UNCHANGED flags
ExecRet(i)   == Fetched(i, "ret")   /\ Execute(i, Ret(i))   /\ UNCHANGED flags
ExecEnter(i) == Fetched(i, "enter") /\ Execute(i, Enter(i)) /\ UNCHANGED flags
ExecLeave(i) == Fetched(i, "leave") /\ Execute(i, Leave)    /\ UNCHANGED flags

Next == \E i \in Instrs :
  \/ ExecPush(i) \/ ExecPop(i) \/ ExecPusha(i) \/ ExecPopa(i)
  \/ ExecPushf(i) \/ ExecPopf(i) \/ ExecCall(i) \/ ExecRet(i)
  \/ ExecEnter(i) \/ ExecLeave(i)

Init ==
  /\ \E s \in Starts : regs = s.regs /\ mem = s.mem
  /\ flags = 2
  /\ eip = InstrSize
  /\ result = "Ok"
  /\ instr = [op |-> "none"]
  /\ base = regs["esp"]
  /\ steps = 0

Spec == Init /\ [][Next]_vars

-----------------------------------------------------------------------------
(* Properties                                                              *)

Errors == {"BadMemory", "WroteReadOnlyMemory", "TooBigSizeExpectation"}

(* Registers and the instruction pointer wrap, and memory holds half words *)
(* at the addresses there are.                                             *)
TypeOK ==
  /\ regs \in [Regs -> Address]
  /\ mem \in [Address -> 0 .. Half - 1]
  /\ flags \in Address
  /\ eip \in Address
  /\ result \in {"Ok"} \union Errors
  /\ base \in Address
  /\ steps \in 0 .. MaxSteps

(* However opcodes, operand sizes and failures follow one another, what is *)
(* taken off the stack is what was put there.                              *)
OnStack ==
  [k \in 1 .. (IF regs["esp"] < base THEN base - regs["esp"] ELSE 0) |->
     mem[regs["esp"] + k - 1]]

(* No section holds the last address: with one that does, a push with esp  *)
(* near 0 succeeds at the far end of memory, where there is no stack.      *)
TopUnmapped == \A s \in Sections : Space - 1 \notin s

Promise == INSTANCE StackSpec
             WITH stack <- OnStack,
                  regs <- [r \in Regs \ {"esp"} |-> regs[r]]
ImplementsStack == Promise!Spec

=============================================================================
