------------------------------ MODULE StackSpec -----------------------------
(***************************************************************************)
(* What the stack opcodes promise: a stack of half words of which push,    *)
(* pusha, call and enter add to one end and pop, popa, ret and leave take  *)
(* back what was added.  esp is not a variable here, it is the number of   *)
(* half words on the stack; taking more than there is, or loading esp with *)
(* an address outside of the stack, leaves nothing to promise.             *)
(***************************************************************************)
EXTENDS Integers, Sequences

CONSTANTS
  Half,       \* number of values of a half word (2^16)
  PushOrder,  \* the registers in the order pusha pushes them
  FlagBits,   \* bits of the flags register that are stored
  InstrSize,  \* size of a stack instruction
  Instrs      \* instructions

VARIABLES
  stack,   \* the half words on the stack, the last one pushed first
  base,    \* address of the first half word that is not on it
  regs,    \* registers other than esp
  flags,   \* the flags as pushf serializes them
  eip,     \* instruction pointer
  result,  \* "Ok" or the error that an instruction returned
  instr    \* the instruction executed last

stackVars == <<stack, base, regs, flags, eip, result, instr>>

Space == Half * Half

(* The half words of a value of the operand size (w half words).           *)
Cells(v, w) == IF w = 1 THEN <<v % Half>> ELSE <<v % Half, v \div Half>>
Number(c) == IF Len(c) = 1 THEN c[1] ELSE c[1] + Half * c[2]
Merge(old, c) == IF Len(c) = 1 THEN old - (old % Half) + c[1] ELSE Number(c)

Top == base - Len(stack)
Reg(r) == IF r = "esp" THEN Top ELSE regs[r]

Take(k) == SubSeq(stack, 1, k)
Drop(st, k) == SubSeq(st, k + 1, Len(st))
IsTail(s, t) == Len(s) <= Len(t) /\ s = Drop(t, Len(t) - Len(s))

Pushes(c) == stack' = c \o stack /\ base' = base
Pops(k) == stack' = Drop(stack, k) /\ base' = base
Holds(k) == k <= Len(stack)

Keep(v) == v' = v

-----------------------------------------------------------------------------

(* What a push reads: a register, an immediate, or memory, of which only   *)
(* what lies on the stack is known here.                                   *)
Reads(i, c) ==
  \/ i.kind = "reg" /\ c = Cells(Reg(i.arg), i.w)
  \/ i.kind = "imm" /\ c = Cells(i.arg, i.w)
  \/ /\ i.kind = "mem"
     /\ \A j \in 1 .. i.w :
          LET a == Reg(i.arg) + j - 1
          IN  a \in Top .. base - 1 => c[j] = stack[a - Top + 1]

Push(i) ==
  /\ Reads(i, SubSeq(stack', 1, i.w))
  /\ Pushes(SubSeq(stack', 1, i.w))
  /\ UNCHANGED <<regs, flags>>

Overwritten(st, a, c) ==
  [k \in DOMAIN st |->
     LET j == base - Len(st) + k - a
     IN  IF j \in DOMAIN c THEN c[j] ELSE st[k]]

(* pop into memory addresses it with the stack pointer it leaves.          *)
Pop(i) ==
  /\ Keep(flags)
  /\ Holds(i.w) =>
       \/ i.kind = "reg" /\ i.arg = "esp" /\ Keep(regs)
       \/ /\ i.kind = "reg" /\ i.arg # "esp"
          /\ Pops(i.w)
          /\ regs' = [regs EXCEPT ![i.arg] = Merge(@, Take(i.w))]
       \/ /\ i.kind = "mem" /\ Keep(base) /\ Keep(regs)
          /\ LET a == IF i.arg = "esp" THEN Top + i.w ELSE regs[i.arg]
             IN  stack' = Overwritten(Drop(stack, i.w), a, Take(i.w))

(* The j-th register of pusha is at its place in a frame on top of st.     *)
InFrame(st, j, v, w) ==
  LET first == (Len(PushOrder) - j) * w + 1
  IN  SubSeq(st, first, first + w - 1) = Cells(v, w)

Pusha(i) ==
  /\ Drop(stack', i.w * Len(PushOrder)) = stack /\ Keep(base)
  /\ \A j \in DOMAIN PushOrder : InFrame(stack', j, Reg(PushOrder[j]), i.w)
  /\ UNCHANGED <<regs, flags>>

(* popa is the inverse: pusha would push again what it has taken.          *)
Popa(i) ==
  /\ Keep(flags)
  /\ Holds(i.w * Len(PushOrder)) =>
       /\ Pops(i.w * Len(PushOrder))
       /\ \A j \in DOMAIN PushOrder :
            LET r == PushOrder[j]
            IN  r # "esp" =>
                  /\ InFrame(stack, j, regs'[r], i.w)
                  /\ i.w = 1 => regs'[r] \div Half = regs[r] \div Half

Pushf(i) == Pushes(Cells(flags, i.w)) /\ UNCHANGED <<regs, flags>>

Popf(i) ==
  /\ Keep(regs)
  /\ Holds(2) =>
       /\ Pops(2)
       /\ \A b \in FlagBits :
            (flags' \div 2^b) % 2 = (Number(Take(2)) \div 2^b) % 2

(* The callee's ret finds the address behind the call.  Its operand is     *)
(* what it is after the push, as Stack reads it again then: a call through *)
(* esp, or through memory that the return address has overwritten, goes    *)
(* where the new stack says.                                               *)
Call(i) ==
  LET top   == Top - i.w
      after == IF i.arg = "esp" THEN top ELSE regs[i.arg]
      k     == after - top
  IN  /\ Pushes(Cells((eip + InstrSize) % Space, i.w))
      /\ UNCHANGED <<regs, flags>>
      /\ i.kind = "imm" => eip' = (eip + InstrSize + i.arg) % Space
      /\ i.kind = "reg" => eip' = after
      /\ i.kind = "mem" /\ after \in top .. base - 2 =>
           eip' = Number(SubSeq(stack', k + 1, k + 2))

(* A half word can name the addresses from the size of ret on: Stack masks *)
(* it before that size is added back.                                      *)
Ret(i) ==
  /\ UNCHANGED <<regs, flags>>
  /\ Holds(i.w + i.clear) =>
       /\ Pops(i.w + i.clear)
       /\ i.w = 2 \/ Take(1)[1] >= InstrSize => eip' = Number(Take(i.w))

(* A frame: the caller's ebp, then room for its locals; ebp is the address *)
(* of the former.                                                          *)
Enter(i) ==
  /\ Drop(stack', i.locals) = Cells(regs["ebp"], 2) \o stack /\ Keep(base)
  /\ regs' = [regs EXCEPT !["ebp"] = Top - 2]
  /\ Keep(flags)

Leave(i) ==
  /\ Keep(flags)
  /\ regs["ebp"] \in Top .. base - 2 =>
       LET k == regs["ebp"] - Top
       IN  /\ Pops(k + 2)
           /\ regs' = [regs EXCEPT !["ebp"] =
                         Number(SubSeq(stack, k + 1, k + 2))]

-----------------------------------------------------------------------------

(* An instruction that fails has destroyed nothing that was on the stack:  *)
(* it has taken some of it off or added to it, and has changed no register *)
(* but the two that point to the stack.                                    *)
Failure(i) ==
  /\ result' # "Ok" /\ Keep(flags)
  /\ \A r \in DOMAIN regs : r # "ebp" => regs'[r] = regs[r]
  /\ IsTail(stack, stack') \/ IsTail(stack', stack)

Executed(i) ==
  \/ i.op = "push"  /\ Push(i)
  \/ i.op = "pop"   /\ Pop(i)
  \/ i.op = "pusha" /\ Pusha(i)
  \/ i.op = "popa"  /\ Popa(i)
  \/ i.op = "pushf" /\ Pushf(i)
  \/ i.op = "popf"  /\ Popf(i)
  \/ i.op = "call"  /\ Call(i)
  \/ i.op = "ret"   /\ Ret(i)
  \/ i.op = "enter" /\ Enter(i)
  \/ i.op = "leave" /\ Leave(i)

Next == \E i \in Instrs :
  /\ result = "Ok" /\ instr' = i
  /\ \/ result' = "Ok" /\ Executed(i)
     \/ Failure(i)

Init == result = "Ok"

Spec == Init /\ [][Next]_stackVars

=============================================================================
