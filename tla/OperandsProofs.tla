--------------------------- MODULE OperandsProofs ---------------------------
(***************************************************************************)
(* Theorems about Operands, for every width of a byte, every memory and    *)
(* every set of instructions that the opcode table may give.               *)
(***************************************************************************)
EXTENDS Operands, Mathematics

(* A machine in the middle of a logic function.                            *)
Machine(m) == DOMAIN m = {"regs", "mem", "flags", "result"}

(* Registers and memory are those of the state.                            *)
Kept(m) == m.regs = regs /\ m.mem = mem

(* Before a logic function has done anything.                              *)
LEMMA NowKept == Machine(Now) /\ Kept(Now) /\ Now.result = "Ok"
  BY DEF Now, Machine, Kept

(* An error changes neither registers nor memory.                          *)
LEMMA FailingKeeps ==
  ASSUME NEW m, Machine(m), NEW e
  PROVE  /\ Machine(Failing(m, e))
         /\ Failing(m, e).regs = m.regs /\ Failing(m, e).mem = m.mem
  BY DEF Failing, Machine

(* Nor does a flag, which leaves the result as well.                       *)
LEMMA FlaggedKeeps ==
  ASSUME NEW m, Machine(m), NEW x, NEW b
  PROVE  /\ Machine(Flagged(m, x, b))
         /\ Flagged(m, x, b).regs = m.regs /\ Flagged(m, x, b).mem = m.mem
         /\ Flagged(m, x, b).result = m.result
  BY DEF Flagged, Machine

LEMMA FlaggedNow ==
  ASSUME NEW x, NEW b
  PROVE  Machine(Flagged(Now, x, b)) /\ Kept(Flagged(Now, x, b)) /\ Flagged(Now, x, b).result = "Ok"
  BY NowKept, FlaggedKeeps DEF Kept

(* Writing a register cannot fail.                                         *)
LEMMA SetRegSucceeds ==
  ASSUME NEW m, Machine(m), NEW r \in Nat, NEW v, v.size \in {"Byte", "Word", "Dword"}
  PROVE  Machine(SetReg(m, r, v)) /\ SetReg(m, r, v).result = m.result
<1>1. CASE v.size = "Byte" /\ r < 4
  BY <1>1 DEF SetReg, Machine
<1>2. CASE v.size = "Byte" /\ r >= 4
  BY <1>2 DEF SetReg, Machine
<1>3. CASE v.size = "Word"
  BY <1>3 DEF SetReg, Machine
<1>4. CASE v.size = "Dword"
  BY <1>4 DEF SetReg, Machine
<1> QED BY <1>1, <1>2, <1>3, <1>4

(* A write to memory happens, or leaves an error and nothing else.         *)
LEMMA SetMemKeeps ==
  ASSUME NEW m, Machine(m), m.result = "Ok", NEW a, NEW v,
         SetMem(m, a, v).result # "Ok"
  PROVE  SetMem(m, a, v).regs = m.regs /\ SetMem(m, a, v).mem = m.mem
<1>1. CASE a < WriteableMemory
  BY <1>1, FailingKeeps DEF SetMem
<1>2. CASE ~(a < WriteableMemory) /\ ~Available(a, Width(v.size))
  BY <1>2, FailingKeeps DEF SetMem
<1>3. CASE ~(a < WriteableMemory) /\ Available(a, Width(v.size))
  BY <1>3 DEF SetMem, Machine
<1> QED BY <1>1, <1>2, <1>3

(* It gives a machine.                                                     *)
LEMMA SetMemMachine ==
  ASSUME NEW m, Machine(m), NEW a, NEW v
  PROVE  Machine(SetMem(m, a, v))
  BY DEF SetMem, Failing, Machine

-----------------------------------------------------------------------------

(* A register is a number.                                                 *)
LEMMA RegisterNumber ==
  ASSUME NEW l, l.kind = "RegisterValue", IsArgument(l)
  PROVE  l.reg \in Nat
  BY DEF IsArgument, Registers

(* What set_arg converts to the size of a register has that size, or is an *)
(* error.                                                                  *)
LEMMA ConvertedSize ==
  ASSUME NEW l, l.kind = "RegisterValue", IsArgument(l),
         NEW v, ~Failed(v), ~Failed(Converted(l, v))
  PROVE  Converted(l, v).size = l.size
<1>1. Converted(l, v) = ConvertZX(v, l.size)
  BY DEF Converted
<1>2. CASE l.size = "Byte"
  BY <1>1, <1>2 DEF ConvertZX, Exact, Error, Failed
<1>3. CASE l.size \in {"Word", "Dword"}
  <2>1. Converted(l, v) = ZX(v, l.size)
    BY <1>1, <1>3 DEF ConvertZX
  <2> QED BY <2>1 DEF ZX, Fitting, Sized, Error, Failed
<1> QED BY <1>2, <1>3 DEF IsArgument

(* set_arg writes, or leaves an error and nothing else.                    *)
LEMMA SetKeeps ==
  ASSUME NEW m, Machine(m), m.result = "Ok",
         NEW l, IsArgument(l), NEW v,
         Set(m, l, v).result # "Ok"
  PROVE  Set(m, l, v).regs = m.regs /\ Set(m, l, v).mem = m.mem
<1>1. CASE Failed(v)
  BY <1>1, FailingKeeps DEF Set
<1>2. CASE ~Failed(v) /\ l.kind = "Immediate"
  BY <1>2, FailingKeeps DEF Set
<1>3. CASE ~Failed(v) /\ l.kind # "Immediate" /\ Failed(Converted(l, v))
  BY <1>3, FailingKeeps DEF Set
<1>4. CASE ~Failed(v) /\ l.kind = "RegisterValue" /\ ~Failed(Converted(l, v))
  <2>1. Set(m, l, v) = SetReg(m, l.reg, Converted(l, v))
    BY <1>4 DEF Set
  <2>2. Converted(l, v).size \in {"Byte", "Word", "Dword"}
    BY <1>4, ConvertedSize DEF IsArgument
  <2>3. l.reg \in Nat BY <1>4, RegisterNumber
  <2> QED BY <2>1, <2>2, <2>3, SetRegSucceeds
<1>5. CASE ~Failed(v) /\ l.kind \notin {"Immediate", "RegisterValue"}
           /\ ~Failed(Converted(l, v))
  <2>1. Set(m, l, v) = SetMem(m, AddressOf(m, l), Converted(l, v))
    BY <1>5 DEF Set
  <2> QED BY <2>1, SetMemKeeps
<1> QED BY <1>1, <1>2, <1>3, <1>4, <1>5

(* set_arg gives a machine.                                                *)
LEMMA SetMachine ==
  ASSUME NEW m, Machine(m), NEW l, IsArgument(l), NEW v
  PROVE  Machine(Set(m, l, v))
<1>1. CASE /\ m.result = "Ok" /\ ~Failed(v) /\ l.kind = "RegisterValue"
           /\ ~Failed(Converted(l, v))
  <2>1. Set(m, l, v) = SetReg(m, l.reg, Converted(l, v))
    BY <1>1 DEF Set
  <2>2. Converted(l, v).size \in {"Byte", "Word", "Dword"}
    BY <1>1, ConvertedSize DEF IsArgument
  <2>3. l.reg \in Nat BY <1>1, RegisterNumber
  <2> QED BY <2>1, <2>2, <2>3, SetRegSucceeds
<1>2. CASE ~(/\ m.result = "Ok" /\ ~Failed(v) /\ l.kind = "RegisterValue"
             /\ ~Failed(Converted(l, v)))
  BY <1>2, FailingKeeps, SetMemMachine DEF Set
<1> QED BY <1>1, <1>2

(* The checks of ? in the logic functions.                                 *)
LEMMA CheckedKeeps ==
  ASSUME NEW v, NEW m,
         ~Failed(v) /\ m.result # "Ok" => Kept(m),
         Checked(v, m).result # "Ok"
  PROVE  Kept(Checked(v, m))
<1>1. CASE Failed(v)
  BY <1>1, NowKept, FailingKeeps DEF Checked, Kept
<1>2. CASE ~Failed(v)
  BY <1>2 DEF Checked
<1> QED BY <1>1, <1>2

(* A logic function that ends by writing its only result.                  *)
LEMMA SetNow ==
  ASSUME NEW l, IsArgument(l), NEW v, Set(Now, l, v).result # "Ok"
  PROVE  Kept(Set(Now, l, v))
  BY NowKept, SetKeeps DEF Kept

(* ... after it has set a flag.                                            *)
LEMMA SetFlagged ==
  ASSUME NEW x, NEW b, NEW l, IsArgument(l), NEW v,
         Set(Flagged(Now, x, b), l, v).result # "Ok"
  PROVE  Kept(Set(Flagged(Now, x, b), l, v))
  BY NowKept, FlaggedKeeps, SetKeeps DEF Kept

(* A register of eax to edx, when it is written by number.                 *)
LEMMA SetRegNow ==
  ASSUME NEW r \in Nat, NEW v, v.size \in {"Byte", "Word", "Dword"}
  PROVE  SetReg(Now, r, v).result = "Ok"
  BY NowKept, SetRegSucceeds

(* A read gives a value of the size that was asked for, or an error.       *)
LEMMA GetSize ==
  ASSUME NEW m, NEW l, IsArgument(l), ~Failed(Get(m, l))
  PROVE  Get(m, l).size = l.size
<1>1. CASE l.kind = "Immediate"
  BY <1>1 DEF Get, Sized
<1>2. CASE l.kind = "RegisterValue"
  BY <1>2 DEF Get, GetReg, Sized, IsArgument
<1>3. CASE l.kind \notin {"Immediate", "RegisterValue"}
  BY <1>3 DEF Get, GetMem, Sized, Error, Failed
<1> QED BY <1>1, <1>2, <1>3

-----------------------------------------------------------------------------
(* The logic functions that write twice, or set a flag and write.          *)

(* The second write of xchg is to a register, in the size of the first     *)
(* operand, and cannot fail: whatever fails, fails before anything was     *)
(* written.                                                                *)
LEMMA XchgKeeps ==
  ASSUME NEW i \in Instrs, i.function = "xchg", Xchg(i).result # "Ok"
  PROVE  Kept(Xchg(i))
<1> DEFINE source      == Get(Now, Arg1(i))
           destination == Get(Now, Arg2(i))
           first       == Set(Now, Arg1(i), destination)
           both        == Set(first, Arg2(i), source)
<1>1. /\ IsArgument(Arg1(i)) /\ IsArgument(Arg2(i))
      /\ Arg2(i).kind = "RegisterValue" /\ Arg2(i).size = Arg1(i).size
  BY InstrsAssumption DEF NoOperand, OneOperand
<1>2. ASSUME ~Failed(source), both.result # "Ok"
      PROVE  Kept(both)
  <2>1. CASE first.result # "Ok"
    <3>1. both = first BY <2>1 DEF Set
    <3> HIDE DEF first, both
    <3>2. Kept(first) BY <1>1, <2>1, SetNow DEF first
    <3> QED BY <3>1, <3>2
  <2>2. CASE first.result = "Ok"
    <3>1. source.size = Arg2(i).size
      BY <1>1, <1>2, GetSize
    <3>2. Converted(Arg2(i), source) = ConvertZX(source, Arg2(i).size)
      BY <1>1 DEF Converted
    <3>3. ~Failed(Converted(Arg2(i), source))
      <4> HIDE DEF source
      <4>1. CASE source.size = "Byte"
        BY <1>2, <3>1, <3>2, <4>1 DEF ConvertZX, Exact
      <4>2. CASE source.size \in {"Word", "Dword"}
        BY <1>2, <3>1, <3>2, <4>2
           DEF ConvertZX, ZX, Fitting, Width, Sized, Failed
      <4> QED BY <1>1, <3>1, <4>1, <4>2 DEF IsArgument
    <3>4. both = SetReg(first, Arg2(i).reg, Converted(Arg2(i), source))
      BY <1>1, <1>2, <2>2, <3>3 DEF Set
    <3>5. Converted(Arg2(i), source).size \in {"Byte", "Word", "Dword"}
      BY <1>1, <1>2, <3>3, ConvertedSize DEF IsArgument
    <3>6. Machine(first)
      BY <1>1, SetMachine, NowKept
    <3>7. Arg2(i).reg \in Nat BY <1>1, RegisterNumber
    <3> HIDE DEF source, first, both
    <3>8. both.result = "Ok"
      BY <2>2, <3>4, <3>5, <3>6, <3>7, SetRegSucceeds
    <3> QED BY <1>2, <3>8
  <2> QED BY <2>1, <2>2
<1>3. Xchg(i) = Checked(source, Checked(destination, both))
  BY DEF Xchg
<1> HIDE DEF source, destination, both
<1>4. ASSUME ~Failed(source), Checked(destination, both).result # "Ok"
      PROVE  Kept(Checked(destination, both))
  BY <1>2, <1>4, CheckedKeeps
<1> QED BY <1>3, <1>4, CheckedKeeps

(* A bit test that fails to write has set the carry flag and no more.      *)
LEMMA BitTestKeeps ==
  ASSUME NEW i \in Instrs, i.function \in BitTests, BitTest(i).result # "Ok"
  PROVE  Kept(BitTest(i))
<1>1. IsArgument(Arg1(i))
  BY InstrsAssumption DEF NoOperand, OneOperand, BitTests
<1> DEFINE s     == Native(i)
           v     == Exact(Get(Now, Arg1(i)), s)
           given == Get(Now, Arg2(i))
           index == IF i.function = "bit_test_reset" /\ s = "Dword" THEN Exact(given, s)
                    ELSE SX(given, s)
           k     == index.n % (ByteBits * Width(s))
           was   == Bit(v.n, k)
           is    == CASE i.function = "bit_test_set" -> TRUE
                      [] i.function = "bit_test_reset" -> FALSE
                      [] i.function = "bit_test_complement" -> ~was
           m     == Flagged(Now, "carry", was)
           bits  == IF is = was THEN v.n ELSE IF is THEN v.n + 2 ^ k ELSE v.n - 2 ^ k
           done  == IF i.function = "bit_test" THEN m ELSE Set(m, Arg1(i), Sized(s, bits))
<1>2. BitTest(i) = Checked(v, Checked(index, done))
  BY DEF BitTest
<1>3. done.result # "Ok" => Kept(done)
  <2> HIDE DEF bits, was
  <2>1. m.result = "Ok" BY FlaggedNow
  <2> QED BY <1>1, <2>1, SetFlagged
<1> HIDE DEF v, index, done
<1>4. Checked(index, done).result # "Ok" => Kept(Checked(index, done))
  BY <1>3, CheckedKeeps
<1> QED BY <1>2, <1>4, CheckedKeeps

(* cmpxchg8b that fails to write has set the zero flag and no more.        *)
LEMMA Cmpxchg8bKeeps ==
  ASSUME NEW i, Cmpxchg8b(i).result # "Ok"
  PROVE  Kept(Cmpxchg8b(i))
<1> DEFINE a       == Lea(Now, Arg1(i))
           temp    == GetMem(Now, a.n, "Qword")
           Long(high, low) == Sized("Qword", regs[high] * Bytes(4) + regs[low])
           equal   == Flagged(Now, "zero", TRUE)
           unequal == Flagged(Now, "zero", FALSE)
           Stored  == SetMem(equal, a.n, Long(ECX, EBX))
           Loaded  == [unequal EXCEPT
                         !.regs[EAX] = temp.n % Bytes(4), !.regs[EDX] = temp.n \div Bytes(4)]
           done    == IF Long(EDX, EAX) = temp THEN Stored ELSE Loaded
<1>1. Cmpxchg8b(i) = Checked(a, Checked(temp, done))
  BY DEF Cmpxchg8b
<1>2. /\ Machine(equal) /\ Kept(equal) /\ equal.result = "Ok"
      /\ Machine(unequal) /\ unequal.result = "Ok"
  BY FlaggedNow
<1> HIDE DEF equal, unequal
<1>3. Loaded.result = "Ok"
  BY <1>2 DEF Machine
<1>4. Stored.result # "Ok" => Kept(Stored)
  BY <1>2, SetMemKeeps DEF Kept
<1> HIDE DEF Stored, Loaded
<1>5. done.result # "Ok" => Kept(done)
  BY <1>3, <1>4
<1> HIDE DEF a, temp, done
<1>6. Checked(temp, done).result # "Ok" => Kept(Checked(temp, done))
  BY <1>5, CheckedKeeps
<1> QED BY <1>1, <1>6, CheckedKeeps

-----------------------------------------------------------------------------
(* The logic functions that write once.                                    *)

(* bswap and the scans check what they have read, and write.               *)
LEMMA CheckedSetKeeps ==
  ASSUME NEW v, NEW m,
         m.result = "Ok" \/ (\E l, x : IsArgument(l) /\ m = Set(Now, l, x))
           \/ (\E l, x, f, b : IsArgument(l) /\ m = Set(Flagged(Now, f, b), l, x)),
         Checked(v, m).result # "Ok"
  PROVE  Kept(Checked(v, m))
<1>1. m.result # "Ok" => Kept(m)
  BY SetNow, SetFlagged
<1> QED BY <1>1, CheckedKeeps

LEMMA BswapKeeps ==
  ASSUME NEW i \in Instrs, i.function = "bswap", Bswap(i).result # "Ok"
  PROVE  Kept(Bswap(i))
<1>1. IsArgument(Arg1(i)) BY InstrsAssumption DEF NoOperand
<1> DEFINE v == Exact(Get(Now, Arg1(i)), "Dword")
           Swapped(n) == SumSet({ ((n \div Bytes(k)) % Base) * Bytes(3 - k) : k \in 0 .. 3 })
           x == Sized("Dword", Swapped(v.n))
<1>2. Bswap(i) = Checked(v, Set(Now, Arg1(i), x)) BY DEF Bswap
<1> HIDE DEF v, x
<1> QED BY <1>1, <1>2, CheckedSetKeeps

(* xlatb writes al, which cannot fail.                                     *)
LEMMA XlatbKeeps ==
  ASSUME NEW i, Xlatb(i).result # "Ok"
  PROVE  Kept(Xlatb(i))
<1> DEFINE s   == Native(i)
           sum == GetReg(Now, EAX, "Byte").n + GetReg(Now, EBX, s).n
           v   == GetMem(Now, sum % Bytes(Width(s)), "Byte")
<1>1. Xlatb(i) = Checked(v, SetReg(Now, EAX, v)) BY DEF Xlatb
<1>2. ~Failed(v) => v.size = "Byte"
  <2> HIDE DEF sum
  <2> QED BY DEF GetMem, Sized, Error, Failed
<1> HIDE DEF v
<1>3. ~Failed(v) => SetReg(Now, EAX, v).result = "Ok"
  BY <1>2, SetRegNow DEF EAX
<1> QED BY <1>1, <1>3, CheckedKeeps

(* cbw, cwde, cwd, cdq and lahf write registers.                           *)
LEMMA RegisterWrites ==
  ASSUME NEW i
  PROVE  CbwCwde(i).result = "Ok" /\ CdqCwd(i).result = "Ok" /\ Lahf.result = "Ok"
<1>1. ASSUME NEW r \in Nat, NEW s \in {"Byte", "Word", "Dword"}, NEW n
      PROVE  SetReg(Now, r, Sized(s, n)).result = "Ok"
  BY SetRegNow DEF Sized
<1>2. CbwCwde(i).result = "Ok"
  BY <1>1 DEF CbwCwde, EAX, AH
<1>3. CdqCwd(i).result = "Ok"
  BY <1>1 DEF CdqCwd, Native, EDX
<1>4. Lahf.result = "Ok"
  BY <1>1 DEF Lahf, AH
<1> QED BY <1>2, <1>3, <1>4

(* A scan writes its index, unless no bit is set.                          *)
LEMMA BitScanKeeps ==
  ASSUME NEW i \in Instrs, i.function \in BitScans, BitScan(i).result # "Ok"
  PROVE  Kept(BitScan(i))
<1>1. IsArgument(Arg2(i)) BY InstrsAssumption DEF NoOperand, OneOperand, BitScans
<1> DEFINE s == Native(i)
           v == Exact(Get(Now, Arg1(i)), s)
           K == { k \in 0 .. ByteBits * Width(s) - 1 : Bit(v.n, k) }
           none  == Flagged(Now, "zero", TRUE)
           k     == IF i.function = "bit_scan_forward" THEN Min(K) ELSE Max(K)
           x     == Sized(s, k)
           found == Set(Flagged(Now, "zero", FALSE), Arg2(i), x)
<1>2. BitScan(i) = Checked(v, IF K = {} THEN none ELSE found)
  BY DEF BitScan
<1>3. none.result = "Ok"
  <2>1. Machine(Now) /\ Now.result = "Ok" BY NowKept
  <2> QED BY <2>1, FlaggedKeeps, Zenon
<1> HIDE DEF v, K, none, x
<1>4. ASSUME found.result # "Ok" PROVE Kept(found)
  BY <1>1, <1>4, SetFlagged, Zenon
<1> HIDE DEF found
<1> QED BY <1>2, <1>3, <1>4, CheckedKeeps

-----------------------------------------------------------------------------
(* Every instruction: what it leaves when it fails.                        *)
LEMMA ExecuteKeeps ==
  ASSUME NEW i \in Instrs, NEW f, NEW m, Execute(i, f, m),
         i.function = f /\ m.result # "Ok" => Kept(m)
  PROVE  result' # "Ok" => UNCHANGED <<regs, mem>>
  BY DEF Execute, Kept

(* The first argument of what has one.                                     *)
LEMMA Argument1 ==
  ASSUME NEW i \in Instrs, i.function \notin NoOperand
  PROVE  IsArgument(Arg1(i))
  BY InstrsAssumption

(* An instruction that fails has changed no register and no byte of        *)
(* memory, whatever its operands are.                                      *)
THEOREM Atomicity == Spec => FailureKeeps
<1>1. ASSUME Next PROVE result' # "Ok" => UNCHANGED <<regs, mem>>
  <2>1. PICK i \in Instrs :
          \/ Execute(i, "mov", Mov(i))
          \/ Execute(i, "movzx_8bit", MovZX(i, Native(i)))
          \/ Execute(i, "movzx_16bit", MovZX(i, "Dword"))
          \/ Execute(i, "movsx_8bit", MovSX(i, Native(i)))
          \/ Execute(i, "movsx_16bit", MovSX(i, "Dword"))
          \/ Execute(i, "lea", LoadAddress(i))
          \/ Execute(i, "setcc_8bit", Setcc(i))
          \/ Execute(i, "cmovcc_native", Cmovcc(i))
          \/ Execute(i, "xchg", Xchg(i))
          \/ Execute(i, "bswap", Bswap(i))
          \/ Execute(i, "xlatb", Xlatb(i))
          \/ Execute(i, "cmpxchg8b", Cmpxchg8b(i))
          \/ \E f \in BitTests : Execute(i, f, BitTest(i))
          \/ \E f \in BitScans : Execute(i, f, BitScan(i))
          \/ Execute(i, "cbw_cwde", CbwCwde(i))
          \/ Execute(i, "cdq_cwd", CdqCwd(i))
          \/ Execute(i, "lahf", Lahf)
          \/ Execute(i, "sahf", Sahf)
          \/ Execute(i, "stc", Flagged(Now, "carry", TRUE))
          \/ Execute(i, "clc", Flagged(Now, "carry", FALSE))
          \/ Execute(i, "cmc", Flagged(Now, "carry", ~flags["carry"]))
    BY <1>1 DEF Next
  <2>2. CASE Execute(i, "mov", Mov(i))
    BY <2>2, ExecuteKeeps, Argument1, SetNow DEF Mov, NoOperand
  <2>3. CASE Execute(i, "movzx_8bit", MovZX(i, Native(i)))
    BY <2>3, ExecuteKeeps, Argument1, SetNow DEF MovZX, NoOperand
  <2>4. CASE Execute(i, "movzx_16bit", MovZX(i, "Dword"))
    BY <2>4, ExecuteKeeps, Argument1, SetNow DEF MovZX, NoOperand
  <2>5. CASE Execute(i, "movsx_8bit", MovSX(i, Native(i)))
    BY <2>5, ExecuteKeeps, Argument1, SetNow DEF MovSX, NoOperand
  <2>6. CASE Execute(i, "movsx_16bit", MovSX(i, "Dword"))
    BY <2>6, ExecuteKeeps, Argument1, SetNow DEF MovSX, NoOperand
  <2>7. CASE Execute(i, "lea", LoadAddress(i))
    BY <2>7, ExecuteKeeps, Argument1, SetNow DEF LoadAddress, NoOperand
  <2>8. CASE Execute(i, "setcc_8bit", Setcc(i))
    BY <2>8, ExecuteKeeps, Argument1, SetNow DEF Setcc, NoOperand
  <2>9. CASE Execute(i, "cmovcc_native", Cmovcc(i))
    BY <2>9, ExecuteKeeps, Argument1, NowKept, SetNow DEF Cmovcc, Mov, NoOperand
  <2>10. CASE Execute(i, "xchg", Xchg(i))
    BY <2>10, ExecuteKeeps, XchgKeeps
  <2>11. CASE Execute(i, "bswap", Bswap(i))
    BY <2>11, ExecuteKeeps, BswapKeeps
  <2>12. CASE Execute(i, "xlatb", Xlatb(i))
    BY <2>12, ExecuteKeeps, XlatbKeeps
  <2>13. CASE Execute(i, "cmpxchg8b", Cmpxchg8b(i))
    BY <2>13, ExecuteKeeps, Cmpxchg8bKeeps
  <2>14. CASE \E f \in BitTests : Execute(i, f, BitTest(i))
    BY <2>14, ExecuteKeeps, BitTestKeeps
  <2>15. CASE \E f \in BitScans : Execute(i, f, BitScan(i))
    BY <2>15, ExecuteKeeps, BitScanKeeps
  <2>16. CASE Execute(i, "cbw_cwde", CbwCwde(i))
    BY <2>16, ExecuteKeeps, RegisterWrites
  <2>17. CASE Execute(i, "cdq_cwd", CdqCwd(i))
    BY <2>17, ExecuteKeeps, RegisterWrites
  <2>18. CASE Execute(i, "lahf", Lahf)
    BY <2>18, ExecuteKeeps, RegisterWrites
  <2>19. CASE Execute(i, "sahf", Sahf)
    BY <2>19, ExecuteKeeps, NowKept DEF Sahf, Machine
  <2>20. CASE Execute(i, "stc", Flagged(Now, "carry", TRUE))
    BY <2>20, ExecuteKeeps, NowKept, FlaggedKeeps
  <2>21. CASE Execute(i, "clc", Flagged(Now, "carry", FALSE))
    BY <2>21, ExecuteKeeps, NowKept, FlaggedKeeps
  <2>22. CASE Execute(i, "cmc", Flagged(Now, "carry", ~flags["carry"]))
    BY <2>22, ExecuteKeeps, NowKept, FlaggedKeeps
  <2> QED BY <2>1, <2>2, <2>3, <2>4, <2>5, <2>6, <2>7, <2>8, <2>9, <2>10,
             <2>11, <2>12, <2>13, <2>14, <2>15, <2>16, <2>17, <2>18, <2>19,
             <2>20, <2>21, <2>22
<1> QED BY <1>1, PTL DEF Spec, FailureKeeps

-----------------------------------------------------------------------------
(* Powers, and numbers of some bytes                                       *)

LEMMA BitPowers ==
  LET n == 8 * ByteBits + 1
      P == [k \in 0 .. n |-> 2 ^ k]
  IN  /\ n \in Nat /\ PowersOf(P, 2, n)
      /\ \A k \in 0 .. n : P[k] = 2 ^ k /\ P[k] \in Nat \ {0}
<1> DEFINE n == 8 * ByteBits + 1
           P == [k \in 0 .. n |-> 2 ^ k]
<1>1. n \in Nat BY OperandsAssumption
<1>2. P[0] = 1 /\ \A k \in 0 .. n - 1 : P[k + 1] = 2 * P[k]
  <2>1. 2 ^ 0 = 1 /\ \A k \in 0 .. n - 1 : 2 ^ (k + 1) = 2 * 2 ^ k
    <3>1. \A k \in 0 .. n - 1 : k \in 0 .. 8 * ByteBits BY OperandsAssumption
    <3> QED BY <3>1, PowerAssumption
  <2>2. \A k \in 0 .. n - 1 : k \in 0 .. n /\ k + 1 \in 0 .. n BY <1>1
  <2> HIDE DEF n
  <2>3. \A k \in 0 .. n - 1 : P[k + 1] = 2 ^ (k + 1) /\ P[k] = 2 ^ k BY <2>2
  <2>4. P[0] = 2 ^ 0 BY <1>1
  <2> HIDE DEF P
  <2> QED BY <2>1, <2>3, <2>4
<1>3. PowersOf(P, 2, n)
  <2> HIDE DEF P, n
  <2> QED BY <1>2 DEF PowersOf
<1>4. \A k \in 0 .. n : P[k] = 2 ^ k OBVIOUS
<1>5. \A k \in 0 .. n : P[k] \in Nat \ {0}
  <2> HIDE DEF P, n
  <2>1. 2 \in Nat \ {0} OBVIOUS
  <2> QED BY <1>1, <1>3, <2>1, PowersAre
<1> QED BY <1>1, <1>3, <1>4, <1>5

LEMMA BytePowers ==
  LET P == [k \in 0 .. 8 |-> Bytes(k)]
  IN  /\ Base \in Nat \ {0, 1, 2, 3} /\ PowersOf(P, Base, 8)
      /\ \A k \in 0 .. 8 : P[k] = Bytes(k) /\ Bytes(k) \in Nat \ {0}
<1> DEFINE n == 8 * ByteBits + 1
           Q == [k \in 0 .. n |-> 2 ^ k]
           P == [k \in 0 .. 8 |-> Bytes(k)]
<1>1. n \in Nat /\ PowersOf(Q, 2, n) /\ \A k \in 0 .. n : Q[k] = 2 ^ k /\ Q[k] \in Nat \ {0}
  BY BitPowers
<1>2. \A w \in 0 .. 8 : Bytes(w) = 2 ^ (ByteBits * w) /\ Bytes(w + 1) = Base * Bytes(w)
  BY PowerAssumption
<1>3. \A w \in 0 .. 8 : ByteBits * w \in 0 .. n
  <2> SUFFICES ASSUME NEW w \in 0 .. 8 PROVE ByteBits * w \in 0 .. n OBVIOUS
  <2>1. ByteBits * w <= ByteBits * 8 BY OperandsAssumption, ProductOrder
  <2>2. ByteBits * w \in Nat /\ ByteBits * 8 = 8 * ByteBits BY OperandsAssumption
  <2> QED BY <2>1, <2>2, OperandsAssumption
<1>4. \A w \in 0 .. 8 : Bytes(w) \in Nat \ {0}
  <2> HIDE DEF Q, n
  <2> QED BY <1>1, <1>2, <1>3
<1>5. ByteBits \in 0 .. n /\ Base \in Nat /\ Base > ByteBits /\ Base # 3
  <2>1. ByteBits \in 0 .. n /\ 2 \in 0 .. ByteBits BY OperandsAssumption
  <2> DEFINE b == ByteBits
  <2>2. b \in 0 .. n /\ 2 \in 0 .. b /\ Base = 2 ^ b BY <2>1 DEF Base
  <2> HIDE DEF Q, n, b
  <2>3. Q[b] = Base /\ Base \in Nat BY <1>1, <2>2
  <2>4. b < Q[b] BY <1>1, <2>2, ExponentBelow
  <2>5. PICK q \in Nat \ {0} : Q[b] = Q[2] * q
    <3>1. 2 \in Nat \ {0} OBVIOUS
    <3> QED BY <1>1, <2>2, <3>1, PowersAre
  <2>6. Q[2] = 4
    <3>1. 0 \in 0 .. n - 1 /\ 1 \in 0 .. n - 1 BY <1>1, <2>2
    <3>2. Q[0] = 1 /\ Q[0 + 1] = 2 * Q[0] /\ Q[1 + 1] = 2 * Q[1] BY <1>1, <3>1 DEF PowersOf
    <3>3. 0 + 1 = 1 /\ 1 + 1 = 2 OBVIOUS
    <3>4. Q[1] = 2 BY <3>2, <3>3
    <3> QED BY <3>2, <3>3, <3>4
  <2> QED BY <2>2, <2>3, <2>4, <2>5, <2>6 DEF b
<1>6. Base \in Nat \ {0, 1, 2, 3} BY <1>5, OperandsAssumption
<1>7. Bytes(0) = 1
  <2>1. ByteBits * 0 = 0 BY OperandsAssumption
  <2>2. Bytes(0) = 2 ^ (ByteBits * 0) BY <1>2
  <2>3. 2 ^ 0 = 1 BY PowerAssumption
  <2> QED BY <2>1, <2>2, <2>3
<1>8. \A k \in 0 .. 8 : P[k] = Bytes(k) OBVIOUS
<1>9. PowersOf(P, Base, 8)
  <2>1. \A k \in 0 .. 8 - 1 : k \in 0 .. 8 /\ k + 1 \in 0 .. 8 OBVIOUS
  <2> HIDE DEF P
  <2> QED BY <1>2, <1>7, <1>8, <2>1 DEF PowersOf
<1> QED BY <1>4, <1>6, <1>8, <1>9

(* The width of a half, h, and that of a register, q, in terms of a byte.  *)
LEMMA Widths ==
  /\ Base \in Nat \ {0, 1} /\ Bytes(0) = 1 /\ Bytes(1) = Base
  /\ Bytes(2) = Base * Base /\ Bytes(2) \in Nat \ {0}
  /\ Bytes(3) = Bytes(2) * Base /\ Bytes(3) \in Nat \ {0}
  /\ Bytes(4) = Bytes(2) * Bytes(2) /\ Bytes(4) = Bytes(3) * Base /\ Bytes(4) \in Nat \ {0}
  /\ Bytes(8) = Bytes(4) * Bytes(4) /\ Bytes(8) \in Nat \ {0}
<1> DEFINE b == Base
           P == [k \in 0 .. 8 |-> Bytes(k)]
<1>1. b \in Nat \ {0, 1} BY BytePowers
<1>2. \A w \in 0 .. 8 : Bytes(w + 1) = b * Bytes(w) BY PowerAssumption
<1>3. \A k \in 0 .. 8 : Bytes(k) \in Nat \ {0} BY BytePowers
<1>4. Bytes(0) = 1
  <2>1. PowersOf(P, Base, 8) /\ \A k \in 0 .. 8 : P[k] = Bytes(k) BY BytePowers
  <2> HIDE DEF P
  <2> QED BY <2>1 DEF PowersOf
<1> HIDE DEF b, P
<1>5. /\ Bytes(1) = b * Bytes(0) /\ Bytes(2) = b * Bytes(1) /\ Bytes(3) = b * Bytes(2)
      /\ Bytes(4) = b * Bytes(3) /\ Bytes(5) = b * Bytes(4) /\ Bytes(6) = b * Bytes(5)
      /\ Bytes(7) = b * Bytes(6) /\ Bytes(8) = b * Bytes(7)
  <2>1. \A k \in {0, 1, 2, 3, 4, 5, 6, 7} : Bytes(k + 1) = b * Bytes(k) BY <1>2
  <2>2. /\ 0 + 1 = 1 /\ 1 + 1 = 2 /\ 2 + 1 = 3 /\ 3 + 1 = 4
        /\ 4 + 1 = 5 /\ 5 + 1 = 6 /\ 6 + 1 = 7 /\ 7 + 1 = 8
    OBVIOUS
  <2>3. /\ Bytes(0 + 1) = b * Bytes(0) /\ Bytes(1 + 1) = b * Bytes(1)
        /\ Bytes(2 + 1) = b * Bytes(2) /\ Bytes(3 + 1) = b * Bytes(3)
        /\ Bytes(4 + 1) = b * Bytes(4) /\ Bytes(5 + 1) = b * Bytes(5)
        /\ Bytes(6 + 1) = b * Bytes(6) /\ Bytes(7 + 1) = b * Bytes(7)
    BY <2>1
  <2> QED BY <2>2, <2>3
<1>6. Bytes(1) = b BY <1>1, <1>4, <1>5
<1>7. Bytes(2) = b * b BY <1>5, <1>6
<1> DEFINE h == Bytes(2)
           q == Bytes(4)
<1>8. h \in Nat \ {0} /\ q \in Nat \ {0} BY <1>3
<1>9. Bytes(3) = h * b
  <2>1. Bytes(3) = b * h BY <1>5
  <2> HIDE DEF h
  <2>2. b * h = h * b BY <1>1, <1>8
  <2> QED BY <2>1, <2>2
<1>10. q = h * h
  <2>1. q = b * (b * h) BY <1>5
  <2>2. h = b * b BY <1>7
  <2> HIDE DEF h, q
  <2>3. b * (b * h) = (b * b) * h BY <1>1, <1>8
  <2> QED BY <2>1, <2>2, <2>3
<1>11. q = Bytes(3) * b
  <2>1. q = b * Bytes(3) BY <1>5
  <2>2. Bytes(3) \in Nat BY <1>3
  <2> QED BY <1>1, <2>1, <2>2
<1>12. Bytes(8) = q * q
  <2>1. Bytes(8) = b * (b * (b * (b * q))) BY <1>5
  <2>2. h = b * b /\ q = h * h BY <1>7, <1>10
  <2> HIDE DEF h, q
  <2>3. b * (b * (b * (b * q))) = ((b * b) * (b * b)) * q BY <1>1, <1>8
  <2> QED BY <2>1, <2>2, <2>3
<1> QED BY <1>1, <1>3, <1>4, <1>6, <1>7, <1>9, <1>10, <1>11, <1>12 DEF b

(* The greatest numbers of the sizes.                                      *)
LEMMA Masks ==
  /\ Mask("Byte") = Base - 1 /\ Mask("Word") = Bytes(2) - 1
  /\ Mask("Dword") = Bytes(4) - 1 /\ Mask("Qword") = Bytes(8) - 1
  /\ Base <= Bytes(2) /\ Bytes(2) <= Bytes(4)
  /\ \A s \in {"Byte", "Word", "Dword", "Qword"} : Mask(s) \in Nat
<1>1. /\ Mask("Byte") = Base - 1 /\ Mask("Word") = Bytes(2) - 1
      /\ Mask("Dword") = Bytes(4) - 1 /\ Mask("Qword") = Bytes(8) - 1
  BY Widths DEF Mask, Width
<1>2. ASSUME NEW n \in Nat \ {0} PROVE n <= n * n
  <2>1. n * 1 <= n * n BY ProductOrder
  <2> QED BY <2>1
<1>3. Base <= Bytes(2) /\ Bytes(2) <= Bytes(4) BY <1>2, Widths
<1>4. \A s \in {"Byte", "Word", "Dword", "Qword"} : Mask(s) \in Nat BY <1>1, Widths
<1> QED BY <1>1, <1>3, <1>4

-----------------------------------------------------------------------------
(* Values and machines                                                     *)

Operand == {"Byte", "Word", "Dword"}

(* A number of size s, or an error that TypeOK allows.                     *)
IsNumberOf(v, s) == v.size = s /\ v.n \in 0 .. Mask(s)
IsError(v)       == v.size = "Error" /\ v.error \in Errors
IsValue(v)       == IsError(v) \/ \E s \in Operand : IsNumberOf(v, s)

Machines ==
  [regs : [Registers -> 0 .. Mask("Dword")], mem : [Mapped -> 0 .. Mask("Byte")],
   flags : [Flags -> BOOLEAN], result : {"Ok"} \union Errors]

LEMMA SizedIs ==
  ASSUME NEW s \in {"Byte", "Word", "Dword", "Qword"}, NEW n \in 0 .. Mask(s)
  PROVE  IsNumberOf(Sized(s, n), s) /\ ~Failed(Sized(s, n)) /\ Sized(s, n).n = n
  BY DEF Sized, IsNumberOf, Failed

LEMMA ErrorIs ==
  ASSUME NEW e \in Errors
  PROVE  IsError(Error(e)) /\ Failed(Error(e)) /\ Error(e).error = e
  BY DEF Error, IsError, Failed

LEMMA MaskOrder ==
  ASSUME NEW s \in Operand, NEW t \in Operand, Width(s) <= Width(t)
  PROVE  \A n \in 0 .. Mask(s) : n \in 0 .. Mask(t)
<1>1. Mask(s) <= Mask(t) /\ Mask(s) \in Nat /\ Mask(t) \in Nat
  <2>1. Base \in Nat /\ Bytes(2) \in Nat /\ Bytes(4) \in Nat BY Widths
  <2> QED BY <2>1, Masks DEF Operand, Width
<1> QED BY <1>1

LEMMA NowTyped == TypeOK /\ result = "Ok" => Now \in Machines
  BY DEF TypeOK, Machines, Now

LEMMA FailingTyped ==
  ASSUME NEW m \in Machines, NEW e \in Errors
  PROVE  Failing(m, e) \in Machines
  BY DEF Failing, Machines

LEMMA FlaggedTyped ==
  ASSUME NEW m \in Machines, NEW x \in Flags, NEW b \in BOOLEAN
  PROVE  Flagged(m, x, b) \in Machines
  BY DEF Flagged, Machines

-----------------------------------------------------------------------------
(* The accessors on typed machines                                         *)

(* A register with another byte, or another half.                          *)
LEMMA SplicedTyped ==
  ASSUME NEW n \in 0 .. Mask("Dword"), NEW k \in {0, 1}, NEW w \in {1, 2}, k + w <= 2,
         NEW x \in 0 .. Bytes(w) - 1
  PROVE  Spliced(n, k, w, x) \in 0 .. Mask("Dword")
<1> DEFINE K == Bytes(k)
           W == Bytes(w)
           q == Bytes(4)
           y == (n - ((n \div K) % W) * K) + x * K
<1>1. K \in Nat \ {0} /\ W \in Nat \ {0} BY Widths
<1>2. \E z \in Nat : q = (K * W) * z
  <2> DEFINE b == Base
             h == Bytes(2)
  <2>1. b \in Nat /\ h = b * b /\ q = h * h /\ h \in Nat /\ Bytes(0) = 1 /\ Bytes(1) = b
    BY Widths
  <2> HIDE DEF b, h, q
  <2>2. CASE k = 0 /\ w = 1
    <3>1. (1 * b) * (b * h) = q BY <2>1
    <3>2. b * h \in Nat BY <2>1
    <3>3. K = 1 /\ W = b BY <2>1, <2>2
    <3> QED BY <3>1, <3>2, <3>3
  <2>3. CASE k = 1 /\ w = 1
    <3>1. K = b /\ W = b BY <2>1, <2>3
    <3> QED BY <2>1, <3>1
  <2>4. CASE k = 0 /\ w = 2
    <3>1. (1 * h) * h = q BY <2>1
    <3>2. K = 1 /\ W = h BY <2>4, <2>1 DEF h
    <3> QED BY <2>1, <3>1, <3>2
  <2> QED BY <2>2, <2>3, <2>4
<1>3. PICK z \in Nat : q = (K * W) * z BY <1>2
<1>4. n \in Nat /\ n < q /\ q \in Nat BY Masks, Widths
<1>5. x \in 0 .. W - 1 OBVIOUS
<1> HIDE DEF K, W, q
<1>6. y \in Nat /\ y < (K * W) * z
  <2>1. n < (K * W) * z BY <1>3, <1>4
  <2> QED BY <1>1, <1>4, <1>5, <2>1, Splice
<1>7. Mask("Dword") = q - 1 BY Masks DEF q
<1>8. y < q BY <1>3, <1>6
<1> HIDE DEF y
<1>9. y \in 0 .. Mask("Dword") BY <1>4, <1>6, <1>7, <1>8
<1> QED BY <1>9 DEF Spliced, y, K, W

LEMMA GetRegTyped ==
  ASSUME NEW m \in Machines, NEW r \in Registers, NEW s \in Operand
  PROVE  IsNumberOf(GetReg(m, r, s), s)
<1> DEFINE x == m.regs[r]
           b == Base
           h == Bytes(2)
<1>1. x \in 0 .. Mask("Dword") /\ Mask("Dword") \in Nat BY Masks DEF Machines
<1>2. b \in Nat \ {0} /\ h \in Nat \ {0} /\ Mask("Byte") = b - 1 /\ Mask("Word") = h - 1
  BY Masks, Widths
<1>3. CASE s = "Dword"
  <2>1. GetReg(m, r, s) = Sized(s, x) BY <1>3 DEF GetReg
  <2> QED BY <1>1, <1>3, <2>1, SizedIs
<1>4. CASE s = "Word"
  <2>1. GetReg(m, r, s) = Sized(s, x % h) BY <1>4 DEF GetReg
  <2>2. x \in Int BY <1>1
  <2> HIDE DEF x, h
  <2>3. x % h \in 0 .. h - 1 BY <1>2, <2>2, DivMod
  <2> QED BY <1>2, <1>4, <2>1, <2>3, SizedIs
<1>5. CASE s = "Byte"
  <2>1. PICK n \in Int : GetReg(m, r, s) = Sized(s, n % b)
    <3>1. CASE r < 4
      <4>1. GetReg(m, r, s) = Sized(s, x % b) BY <1>5, <3>1 DEF GetReg
      <4>2. x \in Int BY <1>1
      <4> QED BY <4>1, <4>2
    <3>2. CASE ~(r < 4)
      <4> DEFINE z == m.regs[r - 4]
      <4>1. GetReg(m, r, s) = Sized(s, (z \div b) % b) BY <1>5, <3>2 DEF GetReg
      <4>2. r - 4 \in Registers BY <3>2 DEF Registers
      <4>3. z \in 0 .. Mask("Dword") BY <4>2 DEF Machines
      <4>4. z \in Int BY <1>1, <4>3
      <4> HIDE DEF z
      <4>5. z \div b \in Int BY <1>2, <4>4, DivMod
      <4> QED BY <4>1, <4>5
    <3> QED BY <3>1, <3>2
  <2>2. n % b \in 0 .. b - 1
    <3> HIDE DEF b
    <3> QED BY <1>2, DivMod
  <2> HIDE DEF b
  <2> QED BY <1>2, <1>5, <2>1, <2>2, SizedIs
<1> QED BY <1>3, <1>4, <1>5 DEF Operand

LEMMA SetRegTyped ==
  ASSUME NEW m \in Machines, NEW r \in Registers, NEW v, NEW s \in Operand, IsNumberOf(v, s)
  PROVE  SetReg(m, r, v) \in Machines
<1>1. v.size = s /\ v.n \in 0 .. Mask(s) BY DEF IsNumberOf
<1>2. \A p \in Registers : m.regs[p] \in 0 .. Mask("Dword") BY DEF Machines
<1>3. ASSUME NEW p \in Registers, NEW y \in 0 .. Mask("Dword")
      PROVE  [m EXCEPT !.regs[p] = y] \in Machines
  BY <1>3 DEF Machines
<1>4. Mask("Byte") = Bytes(1) - 1 /\ Mask("Word") = Bytes(2) - 1 BY Masks, Widths
<1>5. CASE s = "Byte" /\ r < 4
  <2>0. v.size = "Byte" /\ r < 4 /\ ~(r >= 4) BY <1>1, <1>5 DEF Registers
  <2>1. SetReg(m, r, v) = [m EXCEPT !.regs[r] = Spliced(m.regs[r], 0, 1, v.n)]
    BY <2>0 DEF SetReg
  <2>2. Spliced(m.regs[r], 0, 1, v.n) \in 0 .. Mask("Dword")
    BY <1>1, <1>2, <1>4, <1>5, SplicedTyped
  <2> QED BY <1>3, <2>1, <2>2
<1>6. CASE s = "Byte" /\ ~(r < 4)
  <2>1. r - 4 \in Registers /\ r >= 4 BY <1>6 DEF Registers
  <2>2. SetReg(m, r, v) = [m EXCEPT !.regs[r - 4] = Spliced(m.regs[r - 4], 1, 1, v.n)]
    BY <1>1, <1>6, <2>1 DEF SetReg
  <2>3. Spliced(m.regs[r - 4], 1, 1, v.n) \in 0 .. Mask("Dword")
    BY <1>1, <1>2, <1>4, <1>6, <2>1, SplicedTyped
  <2> QED BY <1>3, <2>1, <2>2, <2>3
<1>7. CASE s = "Word"
  <2>1. SetReg(m, r, v) = [m EXCEPT !.regs[r] = Spliced(m.regs[r], 0, 2, v.n)]
    BY <1>1, <1>7 DEF SetReg
  <2>2. Spliced(m.regs[r], 0, 2, v.n) \in 0 .. Mask("Dword")
    BY <1>1, <1>2, <1>4, <1>7, SplicedTyped
  <2> QED BY <1>3, <2>1, <2>2
<1>8. CASE s = "Dword"
  <2>1. SetReg(m, r, v) = [m EXCEPT !.regs[r] = v.n] BY <1>1, <1>8 DEF SetReg
  <2> QED BY <1>1, <1>3, <1>8, <2>1
<1> QED BY <1>5, <1>6, <1>7, <1>8 DEF Operand

(* Accessible bytes are bytes of the memory.                               *)
LEMMA AvailableMapped ==
  ASSUME NEW a \in Int, NEW w \in Nat, Available(a, w)
  PROVE  \A k \in 0 .. w - 1 : a + k \in Cells(a, w) /\ a + k \in Mapped
<1>1. PICK x \in Sections : Cells(a, w) \subseteq x BY DEF Available
<1>2. \A k \in 0 .. w - 1 : a + k \in Cells(a, w) BY DEF Cells
<1> QED BY <1>1, <1>2 DEF Mapped

(* What is read is the number with the bytes that are there.               *)
LEMMA GetMemIs ==
  ASSUME NEW m \in Machines, NEW a \in Int, NEW s \in {"Byte", "Word", "Dword", "Qword"},
         Available(a, Width(s))
  PROVE  /\ GetMem(m, a, s) = Sized(s, GetMem(m, a, s).n)
         /\ IsNumberOf(GetMem(m, a, s), s)
         /\ \A k \in 0 .. Width(s) - 1 :
              (GetMem(m, a, s).n \div Bytes(k)) % Base = m.mem[a + k]
<1> DEFINE w == Width(s)
           P == [k \in 0 .. 8 |-> Bytes(k)]
           D == [k \in 0 .. w - 1 |-> m.mem[a + k]]
           Z == {m.mem[c] * Bytes(c - a) : c \in Cells(a, w)}
<1>1. w \in 1 .. 8 BY DEF Width
<1>2. \A k \in 0 .. w - 1 : a + k \in Cells(a, w) /\ a + k \in Mapped
  <2>1. w \in Nat /\ Available(a, w) BY <1>1
  <2> HIDE DEF w
  <2> QED BY <2>1, AvailableMapped
<1>3. \A k \in 0 .. 8 : P[k] = Bytes(k) BY BytePowers
<1>4. PowersOf(P, Base, w)
  <2>1. PowersOf(P, Base, 8) BY BytePowers
  <2>2. \A k \in 0 .. w - 1 : k \in 0 .. 8 - 1 BY <1>1
  <2> HIDE DEF P, w
  <2> QED BY <2>1, <2>2 DEF PowersOf
<1>5. DigitsOf(D, Base, w)
  <2>1. \A x \in Mapped : m.mem[x] \in 0 .. Base - 1 BY Masks DEF Machines
  <2> HIDE DEF w
  <2> QED BY <1>2, <2>1 DEF DigitsOf
<1>6. \A k \in 0 .. w - 1 : D[k] * P[k] = m.mem[a + k] * Bytes(k)
  <2>1. \A k \in 0 .. w - 1 : D[k] = m.mem[a + k] OBVIOUS
  <2>2. \A k \in 0 .. w - 1 : P[k] = Bytes(k) BY <1>1, <1>3
  <2> HIDE DEF D, P, w
  <2> QED BY <2>1, <2>2
<1>7. Amounts(Z, D, P, w)
  <2>1. ASSUME NEW z \in Z PROVE z \in {D[k] * P[k] : k \in 0 .. w - 1}
    <3>1. PICK c \in Cells(a, w) : z = m.mem[c] * Bytes(c - a) OBVIOUS
    <3>2. c - a \in 0 .. w - 1 /\ a + (c - a) = c BY <1>1 DEF Cells
    <3>3. z = D[c - a] * P[c - a] BY <1>6, <3>1, <3>2
    <3> QED BY <3>2, <3>3
  <2>2. ASSUME NEW k \in 0 .. w - 1 PROVE D[k] * P[k] \in Z
    <3>1. a + k \in Cells(a, w) /\ (a + k) - a = k BY <1>2
    <3>2. m.mem[a + k] * Bytes((a + k) - a) \in Z BY <3>1
    <3> QED BY <1>6, <3>1, <3>2
  <2> HIDE DEF Z, D, P, w
  <2> QED BY <2>1, <2>2 DEF Amounts
<1>8. IsNumber(SumSet(Z), D, P, Base, w)
  <2> HIDE DEF Z, D, P, w
  <2>1. w \in Nat /\ Base \in Nat \ {0} BY <1>1, Widths
  <2> QED BY <1>4, <1>5, <1>7, <2>1, Positional
<1> DEFINE n == SumSet(Z)
<1>9. GetMem(m, a, s) = Sized(s, n) BY DEF GetMem
<1> HIDE DEF Z, n
<1>10. n \in 0 .. Mask(s)
  <2>1. P[w] = Bytes(w) BY <1>1, <1>3
  <2>2. n \in 0 .. P[w] - 1 BY <1>8 DEF IsNumber, n
  <2> QED BY <2>1, <2>2 DEF Mask
<1>11. ASSUME NEW k \in 0 .. w - 1 PROVE (n \div Bytes(k)) % Base = m.mem[a + k]
  <2>1. P[k] = Bytes(k) BY <1>1, <1>3
  <2>2. (n \div P[k]) % Base = D[k]
    <3> HIDE DEF P, D, w
    <3> QED BY <1>8 DEF IsNumber, n
  <2>3. D[k] = m.mem[a + k] OBVIOUS
  <2> QED BY <2>1, <2>2, <2>3
<1>12. GetMem(m, a, s).n = n /\ IsNumberOf(GetMem(m, a, s), s) BY <1>9, <1>10, SizedIs
<1> QED BY <1>9, <1>11, <1>12

LEMMA GetMemTyped ==
  ASSUME NEW m \in Machines, NEW a \in Int, NEW s \in {"Byte", "Word", "Dword", "Qword"}
  PROVE  IsNumberOf(GetMem(m, a, s), s) \/ IsError(GetMem(m, a, s))
<1>1. CASE Available(a, Width(s)) BY <1>1, GetMemIs
<1>2. CASE ~Available(a, Width(s))
  <2>1. GetMem(m, a, s) = Error("BadMemory") BY <1>2 DEF GetMem
  <2>2. "BadMemory" \in Errors BY DEF Errors
  <2> QED BY <2>1, <2>2, ErrorIs
<1> QED BY <1>1, <1>2

LEMMA SetMemTyped ==
  ASSUME NEW m \in Machines, NEW a \in Int, NEW v, v.n \in Nat,
         v.size \in {"Byte", "Word", "Dword", "Qword"}
  PROVE  SetMem(m, a, v) \in Machines
<1> DEFINE w == Width(v.size)
           f == [c \in Mapped |->
                   IF c \in Cells(a, w) THEN (v.n \div Bytes(c - a)) % Base ELSE m.mem[c]]
<1>1. CASE a < WriteableMemory \/ ~Available(a, w)
  <2>1. "WroteReadOnlyMemory" \in Errors /\ "BadMemory" \in Errors BY DEF Errors
  <2> QED BY <1>1, <2>1, FailingTyped DEF SetMem
<1>2. CASE ~(a < WriteableMemory) /\ Available(a, w)
  <2>1. SetMem(m, a, v) = [m EXCEPT !.mem = f] BY <1>2 DEF SetMem
  <2>2. f \in [Mapped -> 0 .. Mask("Byte")]
    <3> SUFFICES ASSUME NEW c \in Mapped PROVE f[c] \in 0 .. Mask("Byte") OBVIOUS
    <3>1. CASE c \notin Cells(a, w) BY <3>1 DEF Machines
    <3>2. CASE c \in Cells(a, w)
      <4>1. f[c] = (v.n \div Bytes(c - a)) % Base BY <3>2
      <4>2. w \in 1 .. 8 BY DEF Width
      <4>3. c - a \in 0 .. 8
        <5> HIDE DEF w
        <5> QED BY <3>2, <4>2 DEF Cells
      <4> DEFINE p == Bytes(c - a)
                 b == Base
                 n == v.n
                 d == n \div p
      <4>4. p \in Nat \ {0} BY <4>3, BytePowers
      <4>5. b \in Nat \ {0} /\ Mask("Byte") = b - 1 BY Masks, Widths
      <4>6. n \in Int OBVIOUS
      <4> HIDE DEF n, p, b, f
      <4>7. d \in Int BY <4>4, <4>6, DivMod
      <4> HIDE DEF d
      <4>8. d % b \in 0 .. b - 1 BY <4>5, <4>7, DivMod
      <4> QED BY <4>1, <4>5, <4>8 DEF d, n, p, b
    <3> QED BY <3>1, <3>2
  <2> HIDE DEF f
  <2> QED BY <2>1, <2>2 DEF Machines
<1> QED BY <1>1, <1>2

-----------------------------------------------------------------------------
(* Operands of typed machines                                              *)

LEMMA PartTyped ==
  ASSUME NEW m \in Machines, NEW r \in Registers \union {Absent}
  PROVE  Part(m, r) \in Nat
<1>1. CASE r = Absent BY <1>1 DEF Part
<1>2. CASE r # Absent
  <2>1. Part(m, r) = m.regs[r] BY <1>2 DEF Part
  <2>2. m.regs[r] \in 0 .. Mask("Dword") BY <1>2 DEF Machines
  <2> QED BY <2>1, <2>2
<1> QED BY <1>1, <1>2

LEMMA AddressTyped ==
  ASSUME NEW m \in Machines, NEW l, IsArgument(l), l.kind \in Addresses
  PROVE  AddressOf(m, l) \in 0 .. Mask("Dword") /\ AddressOf(m, l) \in Int
<1>1. Bytes(4) \in Nat \ {0} /\ Mask("Dword") = Bytes(4) - 1 BY Masks, Widths
<1>2. ASSUME NEW x \in Int PROVE x % Bytes(4) \in 0 .. Mask("Dword")
  <2> DEFINE q == Bytes(4)
  <2>1. q \in Nat \ {0} /\ Mask("Dword") = q - 1 BY <1>1
  <2> HIDE DEF q
  <2>2. x % q \in 0 .. q - 1 BY <2>1, DivMod
  <2> QED BY <2>1, <2>2 DEF q
<1>3. CASE l.kind = "Address"
  <2>1. AddressOf(m, l) = l.addr BY <1>3 DEF AddressOf
  <2> QED BY <1>3, <2>1 DEF IsArgument
<1>4. CASE l.kind = "RegisterAddress"
  <2>1. AddressOf(m, l) = m.regs[l.reg] BY <1>4 DEF AddressOf
  <2>2. l.reg \in Registers BY <1>4 DEF IsArgument
  <2>3. m.regs[l.reg] \in 0 .. Mask("Dword") BY <2>2 DEF Machines
  <2> QED BY <2>1, <2>3
<1>5. CASE l.kind = "ModRMAddress"
  <2>1. AddressOf(m, l) = (l.offset + Part(m, l.reg)) % Bytes(4) BY <1>5 DEF AddressOf
  <2>2. l.reg \in Registers \union {Absent} /\ l.offset \in Nat BY <1>5 DEF IsArgument
  <2>3. Part(m, l.reg) \in Nat BY <2>2, PartTyped
  <2>4. l.offset + Part(m, l.reg) \in Int BY <2>2, <2>3
  <2>5. AddressOf(m, l) \in 0 .. Mask("Dword") BY <1>2, <2>1, <2>4
  <2> QED BY <2>5
<1>6. CASE l.kind = "SIBAddress"
  <2>1. AddressOf(m, l) = (Part(m, l.base) + Part(m, l.index) * l.scale + l.offset) % Bytes(4)
    BY <1>6 DEF AddressOf
  <2>2. /\ l.base \in Registers \union {Absent} /\ l.index \in Registers \union {Absent}
        /\ l.scale \in Nat /\ l.offset \in Nat
    BY <1>6 DEF IsArgument
  <2>3. Part(m, l.base) \in Nat /\ Part(m, l.index) \in Nat BY <2>2, PartTyped
  <2>4. Part(m, l.base) + Part(m, l.index) * l.scale + l.offset \in Int BY <2>2, <2>3
  <2>5. AddressOf(m, l) \in 0 .. Mask("Dword") BY <1>2, <2>1, <2>4
  <2> QED BY <2>5
<1> QED BY <1>3, <1>4, <1>5, <1>6 DEF Addresses

LEMMA LeaTyped ==
  ASSUME NEW m \in Machines, NEW l, IsArgument(l)
  PROVE  /\ l.kind \in Addresses =>
              /\ Lea(m, l) = Sized("Dword", AddressOf(m, l))
              /\ IsNumberOf(Lea(m, l), "Dword") /\ Lea(m, l).n = AddressOf(m, l)
         /\ l.kind \notin Addresses =>
              Lea(m, l) = Error("InvalidOpcodeEncoding") /\ IsError(Lea(m, l))
<1>1. CASE l.kind \in Addresses
  <2>1. Lea(m, l) = Sized("Dword", AddressOf(m, l)) BY <1>1 DEF Lea
  <2>2. AddressOf(m, l) \in 0 .. Mask("Dword") BY <1>1, AddressTyped
  <2> QED BY <1>1, <2>1, <2>2, SizedIs
<1>2. CASE l.kind \notin Addresses
  <2>1. "InvalidOpcodeEncoding" \in Errors BY DEF Errors
  <2> QED BY <1>2, <2>1, ErrorIs DEF Lea
<1> QED BY <1>1, <1>2

LEMMA GetTyped ==
  ASSUME NEW m \in Machines, NEW l, IsArgument(l)
  PROVE  IsNumberOf(Get(m, l), l.size) \/ IsError(Get(m, l))
<1>1. l.size \in Operand /\ l.kind \in Addresses \union {"Immediate", "RegisterValue"}
  BY DEF IsArgument, Operand
<1>2. CASE l.kind = "Immediate"
  <2>1. Get(m, l) = Sized(l.size, l.n) BY <1>2 DEF Get
  <2>2. l.n \in 0 .. Mask(l.size) BY <1>2 DEF IsArgument
  <2> QED BY <1>1, <2>1, <2>2, SizedIs DEF Operand
<1>3. CASE l.kind = "RegisterValue"
  <2>1. Get(m, l) = GetReg(m, l.reg, l.size) BY <1>3 DEF Get
  <2>2. l.reg \in Registers BY <1>3 DEF IsArgument
  <2> QED BY <1>1, <2>1, <2>2, GetRegTyped
<1>4. CASE l.kind \in Addresses
  <2>1. Get(m, l) = GetMem(m, AddressOf(m, l), l.size) BY <1>4 DEF Get, Addresses
  <2>2. AddressOf(m, l) \in Int BY <1>4, AddressTyped
  <2> QED BY <1>1, <2>1, <2>2, GetMemTyped DEF Operand
<1> QED BY <1>1, <1>2, <1>3, <1>4

-----------------------------------------------------------------------------
(* Conversions                                                             *)

LEMMA ValueFailed ==
  ASSUME NEW v
  PROVE  /\ IsError(v) => Failed(v)
         /\ \A s \in {"Byte", "Word", "Dword", "Qword"} : IsNumberOf(v, s) => ~Failed(v)
  BY DEF IsError, IsNumberOf, Failed

LEMMA ExactTyped ==
  ASSUME NEW v, NEW s \in Operand, IsValue(v)
  PROVE  IsNumberOf(Exact(v, s), s) \/ IsError(Exact(v, s))
<1>1. CASE IsError(v) BY <1>1, ValueFailed DEF Exact
<1>2. CASE v.size = s BY <1>2 DEF Exact, IsValue, IsError, IsNumberOf, Operand
<1>3. CASE ~IsError(v) /\ v.size # s
  <2>1. ~Failed(v) BY <1>3, ValueFailed DEF IsValue, Operand
  <2>2. Exact(v, s) = Error("WrongSizeExpectation") BY <1>3, <2>1 DEF Exact
  <2>3. "WrongSizeExpectation" \in Errors BY DEF Errors
  <2> QED BY <2>2, <2>3, ErrorIs
<1> QED BY <1>1, <1>2, <1>3

LEMMA FittingTyped ==
  ASSUME NEW v, NEW s \in Operand, NEW n,
         IsError(v) \/ \E t \in Operand : /\ IsNumberOf(v, t) /\ Width(t) <= Width(s)
                                         /\ n \in 0 .. Mask(s)
  PROVE  IF IsError(v) THEN Fitting(v, s, n) = v
         ELSE Fitting(v, s, n) = Sized(s, n) /\ IsNumberOf(Fitting(v, s, n), s)
<1>1. CASE IsError(v) BY <1>1, ValueFailed DEF Fitting
<1>2. CASE ~IsError(v)
  <2>1. PICK t \in Operand : IsNumberOf(v, t) /\ Width(t) <= Width(s) /\ n \in 0 .. Mask(s)
    BY <1>2
  <2>2. ~Failed(v) /\ v.size = t BY <2>1, ValueFailed DEF IsNumberOf, Operand
  <2>3. ~(Width(t) > Width(s)) BY <2>1 DEF Width, Operand
  <2>4. Fitting(v, s, n) = Sized(s, n) BY <2>2, <2>3 DEF Fitting
  <2> QED BY <1>2, <2>1, <2>4, SizedIs DEF Operand
<1> QED BY <1>1, <1>2

(* What fits into a size, is zero-extended to it.                          *)
LEMMA ZXTyped ==
  ASSUME NEW v, NEW s \in Operand,
         IsError(v) \/ \E t \in Operand : IsNumberOf(v, t) /\ Width(t) <= Width(s)
  PROVE  IF IsError(v) THEN ZX(v, s) = v
         ELSE ZX(v, s) = Sized(s, v.n) /\ IsNumberOf(ZX(v, s), s)
<1>1. ASSUME NEW t \in Operand, IsNumberOf(v, t), Width(t) <= Width(s) PROVE v.n \in 0 .. Mask(s)
  <2>1. v.n \in 0 .. Mask(t) BY <1>1 DEF IsNumberOf
  <2> QED BY <1>1, <2>1, MaskOrder
<1>2. IsError(v) \/ \E t \in Operand : /\ IsNumberOf(v, t) /\ Width(t) <= Width(s)
                                      /\ v.n \in 0 .. Mask(s)
  BY <1>1
<1> QED BY <1>2, FittingTyped DEF ZX

LEMMA SXTyped ==
  ASSUME NEW v, NEW s \in Operand,
         IsError(v) \/ \E t \in Operand : IsNumberOf(v, t) /\ Width(t) <= Width(s)
  PROVE  LET n == IF Negative(v.size, v.n) THEN (v.n + Mask(s)) - Mask(v.size) ELSE v.n
         IN  IF IsError(v) THEN SX(v, s) = v
             ELSE SX(v, s) = Sized(s, n) /\ IsNumberOf(SX(v, s), s)
<1> DEFINE n == IF Negative(v.size, v.n) THEN (v.n + Mask(s)) - Mask(v.size) ELSE v.n
           x == IF v.size # "None" /\ Negative(v.size, v.n)
                THEN v.n + Mask(s) - Mask(v.size) ELSE v.n
<1>1. SX(v, s) = Fitting(v, s, x) BY DEF SX
<1>2. ASSUME NEW t \in Operand, IsNumberOf(v, t), Width(t) <= Width(s)
      PROVE  n \in 0 .. Mask(s) /\ x = n
  <2> DEFINE a == v.n
             M == Mask(s)
             k == Mask(t)
  <2>1. a \in 0 .. k /\ v.size = t BY <1>2 DEF IsNumberOf
  <2>2. k \in Nat /\ M \in Nat BY Masks DEF Operand
  <2>3. a \in 0 .. M /\ k \in 0 .. M
    <3>1. k \in 0 .. k BY <2>2
    <3> QED BY <1>2, <2>1, <3>1, MaskOrder
  <2>4. v.size # "None" BY <2>1 DEF Operand
  <2>5. x = n
    <3>1. a + (M - Mask(v.size)) = (a + M) - Mask(v.size)
      <4>1. a \in Int /\ M \in Int /\ Mask(v.size) \in Int BY <2>1, <2>2
      <4> HIDE DEF a, M
      <4> QED BY <4>1
    <3> QED BY <2>4, <3>1, Zenon
  <2>6. n = IF Negative(v.size, v.n) THEN (a + M) - k ELSE a BY <2>1
  <2> HIDE DEF a, M, k, n, x
  <2>7. (a + M) - k \in 0 .. M BY <2>1, <2>2, <2>3
  <2>8. n \in 0 .. M BY <2>3, <2>6, <2>7
  <2> QED BY <2>5, <2>8 DEF M
<1> HIDE DEF n, x
<1>3. IsError(v) \/ \E t \in Operand : /\ IsNumberOf(v, t) /\ Width(t) <= Width(s)
                                      /\ x \in 0 .. Mask(s)
  BY <1>2
<1>4. ~IsError(v) => x = n BY <1>2
<1>5. IF IsError(v) THEN SX(v, s) = v
      ELSE SX(v, s) = Sized(s, x) /\ IsNumberOf(SX(v, s), s)
  BY <1>1, <1>3, FittingTyped
<1>6. IF IsError(v) THEN SX(v, s) = v
      ELSE SX(v, s) = Sized(s, n) /\ IsNumberOf(SX(v, s), s)
  BY <1>4, <1>5
<1> QED BY <1>6 DEF n

LEMMA TruncTyped ==
  ASSUME NEW v, NEW s \in Operand, NEW t \in Operand, IsNumberOf(v, t)
  PROVE  /\ Trunc(v, s) = Sized(s, v.n % Bytes(Width(s)))
         /\ IsNumberOf(Trunc(v, s), s)
         /\ Width(t) <= Width(s) => Trunc(v, s) = Sized(s, v.n)
<1> DEFINE p == Bytes(Width(s))
           a == v.n
<1>1. Trunc(v, s) = Sized(s, a % p) BY ValueFailed DEF Trunc, Operand
<1>2. p \in Nat \ {0} /\ Mask(s) = p - 1
  <2>1. Width(s) \in 0 .. 8 BY DEF Width, Operand
  <2> QED BY <2>1, BytePowers DEF Mask
<1>3. a \in 0 .. Mask(t) /\ Mask(t) \in Nat BY Masks DEF IsNumberOf, Operand
<1>4. Width(t) <= Width(s) => a \in 0 .. Mask(s) BY <1>3, MaskOrder
<1> HIDE DEF a, p
<1>5. a % p \in 0 .. Mask(s) BY <1>2, <1>3, DivMod
<1>6. Width(t) <= Width(s) => a % p = a BY <1>2, <1>4
<1>7. IsNumberOf(Sized(s, a % p), s) BY <1>5, SizedIs DEF Operand
<1> QED BY <1>1, <1>6, <1>7 DEF a, p

-----------------------------------------------------------------------------
(* set_arg on typed machines                                               *)

(* What is no wider than its place is stored as the number it is.          *)
LEMMA ConvertedIs ==
  ASSUME NEW l, IsArgument(l), NEW v, NEW t \in Operand, IsNumberOf(v, t),
         Width(t) <= Width(l.size)
  PROVE  /\ IsNumberOf(Converted(l, v), l.size) /\ Converted(l, v).n = v.n
         /\ ~Failed(Converted(l, v)) /\ ~Failed(v)
<1>1. l.size \in Operand BY DEF IsArgument, Operand
<1>2. v.n \in 0 .. Mask(l.size)
  <2>1. v.n \in 0 .. Mask(t) BY DEF IsNumberOf
  <2> QED BY <1>1, <2>1, MaskOrder
<1>3. IsNumberOf(Sized(l.size, v.n), l.size) /\ Sized(l.size, v.n).n = v.n
  BY <1>1, <1>2, SizedIs DEF Operand
<1>4. ~Failed(v) BY ValueFailed DEF Operand
<1>5. CASE l.kind \in {"ModRMAddress", "SIBAddress"}
  <2>1. Converted(l, v) = Trunc(v, l.size) BY <1>5 DEF Converted
  <2>2. Trunc(v, l.size) = Sized(l.size, v.n) BY <1>1, TruncTyped
  <2> QED BY <1>1, <1>3, <1>4, <2>1, <2>2, ValueFailed DEF Operand
<1>6. CASE l.kind \notin {"ModRMAddress", "SIBAddress"} /\ l.size = "Byte"
  <2>1. Converted(l, v) = Exact(v, "Byte") BY <1>6 DEF Converted, ConvertZX
  <2>2. t = "Byte" BY <1>6 DEF Width, Operand
  <2>3. v.size = "Byte" BY <2>2 DEF IsNumberOf
  <2>4. Converted(l, v) = v BY <2>1, <2>3 DEF Exact
  <2> QED BY <1>2, <1>4, <1>6, <2>3, <2>4 DEF IsNumberOf
<1>7. CASE l.kind \notin {"ModRMAddress", "SIBAddress"} /\ l.size # "Byte"
  <2>1. Converted(l, v) = ZX(v, l.size) BY <1>1, <1>7 DEF Converted, ConvertZX, Operand
  <2>2. ZX(v, l.size) = Sized(l.size, v.n)
    <3>1. ~IsError(v) BY <1>4, ValueFailed
    <3> QED BY <1>1, <3>1, ZXTyped
  <2> QED BY <1>1, <1>3, <1>4, <2>1, <2>2, ValueFailed DEF Operand
<1> QED BY <1>5, <1>6, <1>7

LEMMA SetTyped ==
  ASSUME NEW m \in Machines, NEW l, IsArgument(l), l.kind # "Immediate", NEW v,
         IsError(v) \/ \E t \in Operand : IsNumberOf(v, t) /\ Width(t) <= Width(l.size)
  PROVE  Set(m, l, v) \in Machines
<1>1. CASE m.result # "Ok" BY <1>1 DEF Set
<1>2. CASE m.result = "Ok" /\ IsError(v)
  <2>1. Set(m, l, v) = Failing(m, v.error) BY <1>2, ValueFailed DEF Set
  <2>2. v.error \in Errors BY <1>2 DEF IsError
  <2> QED BY <2>1, <2>2, FailingTyped
<1>3. CASE m.result = "Ok" /\ ~IsError(v)
  <2>1. PICK t \in Operand : IsNumberOf(v, t) /\ Width(t) <= Width(l.size) BY <1>3
  <2> DEFINE x == Converted(l, v)
  <2>2. IsNumberOf(x, l.size) /\ ~Failed(x) /\ ~Failed(v) BY <2>1, ConvertedIs
  <2>3. l.size \in Operand BY DEF IsArgument, Operand
  <2>4. CASE l.kind = "RegisterValue"
    <3>1. Set(m, l, v) = SetReg(m, l.reg, x) BY <1>3, <2>2, <2>4 DEF Set
    <3>2. l.reg \in Registers BY <2>4 DEF IsArgument
    <3> HIDE DEF x
    <3> QED BY <2>2, <2>3, <3>1, <3>2, SetRegTyped
  <2>5. CASE l.kind # "RegisterValue"
    <3>1. Set(m, l, v) = SetMem(m, AddressOf(m, l), x) BY <1>3, <2>2, <2>5 DEF Set
    <3>2. l.kind \in Addresses BY <2>5 DEF IsArgument
    <3>3. AddressOf(m, l) \in Int BY <3>2, AddressTyped
    <3> HIDE DEF x
    <3>4. x.n \in Nat /\ x.size \in {"Byte", "Word", "Dword", "Qword"}
      BY <2>2, <2>3, Masks DEF IsNumberOf, Operand
    <3> QED BY <3>1, <3>3, <3>4, SetMemTyped
  <2> QED BY <2>4, <2>5
<1> QED BY <1>1, <1>2, <1>3

(* The checks of ? in the logic functions.                                 *)
LEMMA CheckedTyped ==
  ASSUME Now \in Machines, NEW v, IsError(v) \/ ~Failed(v), NEW m,
         ~Failed(v) => m \in Machines
  PROVE  Checked(v, m) \in Machines
<1>1. CASE Failed(v)
  <2>1. v.error \in Errors BY <1>1 DEF IsError
  <2> QED BY <1>1, <2>1, FailingTyped DEF Checked
<1>2. CASE ~Failed(v) BY <1>2 DEF Checked
<1> QED BY <1>1, <1>2

-----------------------------------------------------------------------------
(* The logic functions on typed machines                                   *)

LEMMA NativeIs ==
  ASSUME NEW i \in Instrs
  PROVE  Native(i) \in {"Word", "Dword"}
  BY DEF Native

LEMMA MovTyped ==
  ASSUME Now \in Machines, NEW i \in Instrs, i.function \in {"mov", "cmovcc_native"}
  PROVE  Mov(i) \in Machines
<1>1. /\ IsArgument(Arg1(i)) /\ IsArgument(Arg2(i)) /\ Arg1(i).kind # "Immediate"
      /\ Arg1(i).size = Arg2(i).size
  BY InstrsAssumption DEF NoOperand, OneOperand, Destination, BitScans
<1> DEFINE v == Get(Now, Arg2(i))
           s == Arg2(i).size
<1>2. IsNumberOf(v, s) \/ IsError(v) BY <1>1, GetTyped
<1>3. s \in Operand BY <1>1 DEF IsArgument, Operand
<1>4. Width(s) <= Width(Arg1(i).size) BY <1>1, <1>3 DEF Operand, Width
<1> HIDE DEF v, s
<1>5. Set(Now, Arg1(i), v) \in Machines BY <1>1, <1>2, <1>3, <1>4, SetTyped
<1> QED BY <1>5 DEF Mov, v

LEMMA ExtendTyped ==
  ASSUME Now \in Machines, NEW i \in Instrs, NEW s \in Operand,
         \/ i.function \in {"movzx_8bit", "movsx_8bit"} /\ s = Native(i)
         \/ i.function \in {"movzx_16bit", "movsx_16bit"} /\ s = "Dword"
  PROVE  MovZX(i, s) \in Machines /\ MovSX(i, s) \in Machines
<1>1. /\ IsArgument(Arg1(i)) /\ IsArgument(Arg2(i)) /\ Arg1(i).kind # "Immediate"
      /\ Arg1(i).size = s
      /\ \/ s \in {"Word", "Dword"} /\ Arg2(i).size = "Byte"
         \/ s = "Dword" /\ Arg2(i).size = "Word"
  BY InstrsAssumption, NativeIs DEF NoOperand, OneOperand, Destination, BitScans
<1> DEFINE v == Get(Now, Arg2(i))
           t == Arg2(i).size
<1>2. IsNumberOf(v, t) \/ IsError(v) BY <1>1, GetTyped
<1>3. t \in Operand /\ Width(t) <= Width(s) /\ Width(s) <= Width(Arg1(i).size)
  BY <1>1 DEF Operand, Width
<1> HIDE DEF v, t
<1>4. IsNumberOf(ZX(v, s), s) \/ IsError(ZX(v, s)) BY <1>2, <1>3, ZXTyped
<1>5. IsNumberOf(SX(v, s), s) \/ IsError(SX(v, s)) BY <1>2, <1>3, SXTyped
<1>6. Set(Now, Arg1(i), ZX(v, s)) \in Machines BY <1>1, <1>3, <1>4, SetTyped
<1>7. Set(Now, Arg1(i), SX(v, s)) \in Machines BY <1>1, <1>3, <1>5, SetTyped
<1> QED BY <1>6, <1>7 DEF MovZX, MovSX, v

LEMMA LoadAddressTyped ==
  ASSUME Now \in Machines, NEW i \in Instrs, i.function = "lea"
  PROVE  LoadAddress(i) \in Machines
<1>1. /\ IsArgument(Arg1(i)) /\ IsArgument(Arg2(i)) /\ Arg1(i).kind # "Immediate"
      /\ Arg1(i).size = Native(i)
  BY InstrsAssumption DEF NoOperand, OneOperand, Destination, BitScans
<1> DEFINE a == Lea(Now, Arg2(i))
           s == Native(i)
<1>2. IsNumberOf(a, "Dword") \/ IsError(a) BY <1>1, LeaTyped
<1>3. s \in Operand /\ Width(s) <= Width(Arg1(i).size)
  BY <1>1, NativeIs DEF Operand, Width
<1> HIDE DEF a, s
<1>4. IsNumberOf(Trunc(a, s), s) \/ IsError(Trunc(a, s))
  <2>1. CASE IsError(a) BY <2>1, ValueFailed DEF Trunc
  <2>2. CASE IsNumberOf(a, "Dword") BY <1>3, <2>2, TruncTyped DEF Operand
  <2> QED BY <1>2, <2>1, <2>2
<1>5. Set(Now, Arg1(i), Trunc(a, s)) \in Machines BY <1>1, <1>3, <1>4, SetTyped
<1> QED BY <1>5 DEF LoadAddress, a, s

LEMMA XchgTyped ==
  ASSUME Now \in Machines, NEW i \in Instrs, i.function = "xchg"
  PROVE  Xchg(i) \in Machines
<1>1. /\ IsArgument(Arg1(i)) /\ IsArgument(Arg2(i)) /\ Arg1(i).kind # "Immediate"
      /\ Arg2(i).kind = "RegisterValue" /\ Arg2(i).size = Arg1(i).size
  BY InstrsAssumption DEF NoOperand, OneOperand, Destination, BitScans
<1> DEFINE source      == Get(Now, Arg1(i))
           destination == Get(Now, Arg2(i))
           first       == Set(Now, Arg1(i), destination)
           both        == Set(first, Arg2(i), source)
           s           == Arg1(i).size
<1>2. /\ IsNumberOf(source, s) \/ IsError(source)
      /\ IsNumberOf(destination, s) \/ IsError(destination)
  BY <1>1, GetTyped
<1>3. s \in Operand /\ Width(s) <= Width(Arg1(i).size) /\ Width(s) <= Width(Arg2(i).size)
  BY <1>1 DEF IsArgument, Operand, Width
<1>4. Xchg(i) = Checked(source, Checked(destination, both)) BY DEF Xchg
<1> HIDE DEF source, destination, s
<1>5. first \in Machines BY <1>1, <1>2, <1>3, SetTyped
<1> HIDE DEF first
<1>6. both \in Machines
  <2>1. Arg2(i).kind # "Immediate" BY <1>1
  <2> QED BY <1>1, <1>2, <1>3, <1>5, <2>1, SetTyped
<1> HIDE DEF both
<1>7. /\ IsError(source) \/ ~Failed(source)
      /\ IsError(destination) \/ ~Failed(destination)
  BY <1>2, <1>3, ValueFailed DEF Operand
<1>8. Checked(destination, both) \in Machines BY <1>6, <1>7, CheckedTyped
<1> QED BY <1>4, <1>7, <1>8, CheckedTyped

(* The bytes of a double word the other way round.                         *)
LEMMA SwappedIs ==
  ASSUME NEW n \in Nat
  PROVE  LET y == SumSet({((n \div Bytes(k)) % Base) * Bytes(3 - k) : k \in 0 .. 3})
         IN  /\ y \in 0 .. Mask("Dword")
             /\ \A k \in 0 .. 3 : (y \div Bytes(k)) % Base = (n \div Bytes(3 - k)) % Base
<1> DEFINE P == [k \in 0 .. 8 |-> Bytes(k)]
           D == [k \in 0 .. 3 |-> (n \div Bytes(3 - k)) % Base]
           Z == {((n \div Bytes(k)) % Base) * Bytes(3 - k) : k \in 0 .. 3}
           y == SumSet(Z)
<1>1. \A k \in 0 .. 8 : P[k] = Bytes(k) BY BytePowers
<1>2. PowersOf(P, Base, 4)
  <2>1. PowersOf(P, Base, 8) BY BytePowers
  <2> HIDE DEF P
  <2> QED BY <2>1 DEF PowersOf
<1>3. DigitsOf(D, Base, 4)
  <2> SUFFICES ASSUME NEW k \in 0 .. 3 PROVE (n \div Bytes(3 - k)) % Base \in 0 .. Base - 1
    BY DEF DigitsOf
  <2> DEFINE p == Bytes(3 - k)
             b == Base
             d == n \div p
  <2>1. 3 - k \in 0 .. 8 OBVIOUS
  <2>2. p \in Nat \ {0} /\ b \in Nat \ {0} BY <2>1, BytePowers
  <2> HIDE DEF p, b
  <2>3. d \in Int BY <2>2, DivMod
  <2> HIDE DEF d
  <2>4. d % b \in 0 .. b - 1 BY <2>2, <2>3, DivMod
  <2> QED BY <2>4 DEF b, d, p
<1>4. \A k \in 0 .. 3 : D[k] * P[k] = ((n \div Bytes(3 - k)) % Base) * Bytes(k)
  <2>1. \A k \in 0 .. 3 : D[k] = (n \div Bytes(3 - k)) % Base OBVIOUS
  <2>2. \A k \in 0 .. 3 : P[k] = Bytes(k) BY <1>1
  <2> HIDE DEF D, P
  <2> QED BY <2>1, <2>2
<1>5. \A k \in 0 .. 3 : 3 - k \in 0 .. 3 /\ 3 - (3 - k) = k OBVIOUS
<1>6. Amounts(Z, D, P, 4)
  <2>1. ASSUME NEW z \in Z PROVE z \in {D[k] * P[k] : k \in 0 .. 4 - 1}
    <3>1. PICK k \in 0 .. 3 : z = ((n \div Bytes(k)) % Base) * Bytes(3 - k) OBVIOUS
    <3> DEFINE j == 3 - k
    <3>2. j \in 0 .. 3 /\ 3 - j = k BY <1>5
    <3> HIDE DEF j
    <3>3. z = D[j] * P[j]
      <4>1. D[j] * P[j] = ((n \div Bytes(3 - j)) % Base) * Bytes(j) BY <1>4, <3>2
      <4>2. z = ((n \div Bytes(k)) % Base) * Bytes(j) BY <3>1 DEF j
      <4> QED BY <3>2, <4>1, <4>2
    <3>4. j \in 0 .. 4 - 1 BY <3>2
    <3> QED BY <3>3, <3>4
  <2>2. ASSUME NEW k \in 0 .. 4 - 1 PROVE D[k] * P[k] \in Z
    <3> DEFINE j == 3 - k
    <3>1. j \in 0 .. 3 /\ 3 - j = k /\ k \in 0 .. 3 BY <1>5
    <3> HIDE DEF j
    <3>2. ((n \div Bytes(j)) % Base) * Bytes(3 - j) \in Z BY <3>1
    <3>3. ((n \div Bytes(j)) % Base) * Bytes(k) \in Z BY <3>1, <3>2
    <3>4. D[k] * P[k] = ((n \div Bytes(j)) % Base) * Bytes(k) BY <1>4, <3>1 DEF j
    <3> QED BY <3>3, <3>4
  <2> HIDE DEF Z, D, P
  <2> QED BY <2>1, <2>2 DEF Amounts
<1>7. IsNumber(SumSet(Z), D, P, Base, 4)
  <2> HIDE DEF Z, D, P
  <2>1. 4 \in Nat /\ Base \in Nat \ {0} BY Widths
  <2> QED BY <1>2, <1>3, <1>6, <2>1, Positional
<1> HIDE DEF Z
<1>8. y \in 0 .. Mask("Dword")
  <2>1. P[4] = Bytes(4) BY <1>1
  <2>2. y \in 0 .. P[4] - 1 BY <1>7 DEF IsNumber
  <2> QED BY <2>1, <2>2, Masks
<1>9. ASSUME NEW k \in 0 .. 3 PROVE (y \div Bytes(k)) % Base = (n \div Bytes(3 - k)) % Base
  <2>1. P[k] = Bytes(k) BY <1>1
  <2>2. D[k] = (n \div Bytes(3 - k)) % Base OBVIOUS
  <2>3. (y \div P[k]) % Base = D[k]
    <3>1. k \in 0 .. 4 - 1 OBVIOUS
    <3> HIDE DEF P, D
    <3> QED BY <1>7, <3>1 DEF IsNumber
  <2> QED BY <2>1, <2>2, <2>3
<1> QED BY <1>8, <1>9 DEF Z

LEMMA BswapTyped ==
  ASSUME Now \in Machines, NEW i \in Instrs, i.function = "bswap"
  PROVE  Bswap(i) \in Machines
<1>1. IsArgument(Arg1(i)) /\ Arg1(i).kind # "Immediate" /\ Arg1(i).size = "Dword"
  BY InstrsAssumption DEF NoOperand, Destination, BitScans
<1> DEFINE v == Exact(Get(Now, Arg1(i)), "Dword")
           Swapped(n) == SumSet({ ((n \div Bytes(k)) % Base) * Bytes(3 - k) : k \in 0 .. 3 })
           x == Sized("Dword", Swapped(v.n))
<1>2. Bswap(i) = Checked(v, Set(Now, Arg1(i), x)) BY DEF Bswap
<1>3. IsNumberOf(v, "Dword") \/ IsError(v)
  <2>1. IsValue(Get(Now, Arg1(i))) BY <1>1, GetTyped DEF IsValue, Operand
  <2> QED BY <2>1, ExactTyped DEF Operand
<1>4. ASSUME ~Failed(v) PROVE Set(Now, Arg1(i), x) \in Machines
  <2>1. IsNumberOf(v, "Dword") BY <1>3, <1>4, ValueFailed
  <2>2. v.n \in Nat BY <2>1, Masks DEF IsNumberOf
  <2> HIDE DEF v
  <2>3. Swapped(v.n) \in 0 .. Mask("Dword") BY <2>2, SwappedIs
  <2> HIDE DEF Swapped
  <2>4. IsNumberOf(x, "Dword") BY <2>3, SizedIs
  <2>5. Width("Dword") <= Width(Arg1(i).size) /\ "Dword" \in Operand BY <1>1 DEF Width, Operand
  <2> HIDE DEF x
  <2> QED BY <1>1, <2>4, <2>5, SetTyped
<1>5. IsError(v) \/ ~Failed(v) BY <1>3, ValueFailed
<1> HIDE DEF v, x
<1> QED BY <1>2, <1>4, <1>5, CheckedTyped

-----------------------------------------------------------------------------
(* Bits                                                                    *)

(* The bits of a number of some bytes.                                     *)
LEMMA BitRange ==
  ASSUME NEW w \in 0 .. 8
  PROVE  /\ ByteBits * w \in 0 .. 8 * ByteBits + 1 /\ Bytes(w) = 2 ^ (ByteBits * w)
         /\ w > 0 => ByteBits * w \in Nat \ {0, 1}
<1>1. ByteBits * w <= ByteBits * 8 BY OperandsAssumption, ProductOrder
<1>2. ByteBits * w \in Nat /\ ByteBits * 8 = 8 * ByteBits BY OperandsAssumption
<1>3. w > 0 => ByteBits * 1 <= ByteBits * w BY OperandsAssumption, ProductOrder
<1>4. ByteBits * 1 = ByteBits BY OperandsAssumption
<1> DEFINE x == ByteBits * w
           y == ByteBits * 8
<1>5. x <= y /\ x \in Nat /\ y = 8 * ByteBits /\ (w > 0 => ByteBits <= x)
  BY <1>1, <1>2, <1>3, <1>4
<1> HIDE DEF x, y
<1>6. x \in 0 .. 8 * ByteBits + 1 /\ (w > 0 => x \in Nat \ {0, 1}) BY <1>5, OperandsAssumption
<1>7. Bytes(w) = 2 ^ (ByteBits * w) BY PowerAssumption
<1> QED BY <1>6, <1>7 DEF x

LEMMA BitIs ==
  ASSUME NEW s \in Operand, NEW k \in 0 .. ByteBits * Width(s) - 1
  PROVE  /\ 2 ^ k \in Nat \ {0} /\ k \in Nat /\ k \in 0 .. Mask(s)
         /\ \E z \in Nat \ {0} : Bytes(Width(s)) = (2 ^ k * 2) * z
<1> DEFINE n == 8 * ByteBits + 1
           P == [j \in 0 .. n |-> 2 ^ j]
           N == ByteBits * Width(s)
<1>1. n \in Nat /\ PowersOf(P, 2, n) /\ \A j \in 0 .. n : P[j] = 2 ^ j /\ P[j] \in Nat \ {0}
  BY BitPowers
<1>2. N \in 0 .. n /\ Bytes(Width(s)) = 2 ^ N /\ N \in Nat /\ Width(s) \in 0 .. 8
  <2>1. Width(s) \in 0 .. 8 BY DEF Width, Operand
  <2> QED BY <2>1, BitRange
<1>3. k \in 0 .. N - 1 /\ k \in Nat BY <1>2
<1> HIDE DEF P, n
<1>4. k \in 0 .. n /\ k + 1 \in 0 .. N /\ k \in 0 .. n - 1
  <2> HIDE DEF N
  <2> QED BY <1>1, <1>2, <1>3
<1>5. 2 \in Nat \ {0} OBVIOUS
<1>6. PICK z \in Nat \ {0} : P[N] = P[k + 1] * z
  <2> HIDE DEF N
  <2> QED BY <1>1, <1>2, <1>4, <1>5, PowersAre
<1>7. P[k + 1] = 2 * P[k] BY <1>1, <1>4 DEF PowersOf
<1>8. P[N] = Bytes(Width(s)) /\ P[k] = 2 ^ k BY <1>1, <1>2, <1>4
<1>9. Bytes(Width(s)) = (2 ^ k * 2) * z
  <2> DEFINE p == 2 ^ k
  <2>1. p \in Nat /\ P[k + 1] = 2 * p BY <1>1, <1>4, <1>7, <1>8
  <2> HIDE DEF p
  <2>2. 2 * p = p * 2 BY <2>1
  <2>3. P[k + 1] = p * 2 BY <2>1, <2>2
  <2> QED BY <1>6, <1>8, <2>3 DEF p
<1>10. k \in 0 .. Mask(s)
  <2>1. N < P[N]
    <3> HIDE DEF N
    <3> QED BY <1>1, <1>2, ExponentBelow
  <2>2. Mask(s) = P[N] - 1 /\ P[N] \in Nat BY <1>1, <1>2, <1>8 DEF Mask
  <2> HIDE DEF N
  <2> QED BY <1>2, <1>3, <2>1, <2>2
<1> QED BY <1>1, <1>3, <1>4, <1>8, <1>9, <1>10

(* One bit set or reset.                                                   *)
LEMMA BitChanged ==
  ASSUME NEW s \in Operand, NEW k \in 0 .. ByteBits * Width(s) - 1,
         NEW n \in 0 .. Mask(s), NEW y,
         (~Bit(n, k) /\ y = n + 2 ^ k) \/ (Bit(n, k) /\ y = n - 2 ^ k)
  PROVE  /\ y \in 0 .. Mask(s) /\ Bit(y, k) = ~Bit(n, k)
         /\ y % 2 ^ k = n % 2 ^ k
         /\ (y \div 2 ^ k) \div 2 = (n \div 2 ^ k) \div 2
<1> DEFINE p == 2 ^ k
           c == (n \div p) % 2
<1>1. p \in Nat \ {0} BY BitIs
<1>2. PICK z \in Nat : Bytes(Width(s)) = (p * 2) * z BY BitIs
<1>3. Bytes(Width(s)) \in Nat /\ Mask(s) = Bytes(Width(s)) - 1
  <2>1. Width(s) \in 0 .. 8 BY DEF Width, Operand
  <2> QED BY <2>1, BytePowers DEF Mask
<1>4. n \in Nat /\ n < Bytes(Width(s)) BY <1>3
<1>5. c \in 0 .. 1
  <2> DEFINE d == n \div p
  <2> HIDE DEF p
  <2>1. d \in Int BY <1>1, <1>4, DivMod
  <2> HIDE DEF d
  <2>2. d % 2 \in 0 .. 2 - 1 BY <2>1, DivMod
  <2> QED BY <2>2 DEF d
<1> DEFINE x == 1 - c
           t == (n - c * p) + x * p
<1>6. (Bit(n, k) <=> c = 1) /\ (Bit(y, k) <=> (y \div p) % 2 = 1) BY DEF Bit
<1> HIDE DEF c, p
<1>7. y = t
  <2>1. c = 0 \/ c = 1 BY <1>5
  <2>2. CASE c = 0
    <3>1. y = n + p BY <1>6, <2>2 DEF p
    <3> QED BY <1>1, <1>4, <2>2, <3>1
  <2>3. CASE c = 1
    <3>1. y = n - p BY <1>6, <2>3 DEF p
    <3> QED BY <1>1, <1>4, <2>3, <3>1
  <2> QED BY <2>1, <2>2, <2>3
<1>8. x \in 0 .. 2 - 1 BY <1>5
<1>9. t = (n - ((n \div p) % 2) * p) + x * p BY DEF c
<1> HIDE DEF x
<1>10. /\ y \in Nat /\ y % p = n % p /\ (y \div p) % 2 = x
       /\ (y \div p) \div 2 = (n \div p) \div 2
       /\ y < (p * 2) * z
  <2>1. 2 \in Nat \ {0} /\ n < (p * 2) * z BY <1>2, <1>4
  <2> DEFINE u == (n - ((n \div p) % 2) * p) + x * p
  <2>4. p \in Nat \ {0} /\ 2 \in Nat \ {0} /\ n \in Nat /\ x \in 0 .. 2 - 1
    BY <1>1, <1>4, <1>8
  <2>5. /\ u \in Nat /\ u % p = n % p /\ (u \div p) % 2 = x
        /\ (u \div p) \div 2 = (n \div p) \div 2
        /\ \A q \in Nat : n < (p * 2) * q => u < (p * 2) * q
    BY <2>4, Splice
  <2>2. /\ u \in Nat /\ u % p = n % p /\ (u \div p) % 2 = x
        /\ (u \div p) \div 2 = (n \div p) \div 2
        /\ u < (p * 2) * z
    <3> HIDE DEF u
    <3> QED BY <2>1, <2>5
  <2>3. y = u BY <1>7, <1>9
  <2> HIDE DEF u
  <2> QED BY <2>2, <2>3
<1>11. y \in 0 .. Mask(s) BY <1>2, <1>3, <1>10
<1>12. Bit(y, k) = ~Bit(n, k)
  <2>1. (y \div p) % 2 = 1 <=> c # 1 BY <1>5, <1>10 DEF x
  <2>2. Bit(y, k) <=> ~Bit(n, k) BY <1>6, <2>1
  <2>3. Bit(y, k) \in BOOLEAN /\ Bit(n, k) \in BOOLEAN BY DEF Bit
  <2> HIDE DEF t
  <2> QED BY <2>2, <2>3, Zenon
<1> QED BY <1>10, <1>11, <1>12 DEF p

(* The bit that a bit test selects.                                        *)
LEMMA BitIndex ==
  ASSUME NEW s \in Operand, NEW n \in Nat
  PROVE  n % (ByteBits * Width(s)) \in 0 .. ByteBits * Width(s) - 1
<1> DEFINE N == ByteBits * Width(s)
<1>1. N \in Nat \ {0}
  <2>1. Width(s) \in 0 .. 8 /\ Width(s) > 0 BY DEF Width, Operand
  <2> QED BY <2>1, BitRange
<1> HIDE DEF N
<1>2. n % N \in 0 .. N - 1 BY <1>1, DivMod
<1> QED BY <1>2 DEF N

(* The lowest and the highest one of some bits.                            *)
LEMMA ScanIs ==
  ASSUME NEW N \in Nat, NEW K \in SUBSET (0 .. N - 1), K # {}
  PROVE  /\ Min(K) \in K /\ \A j \in K : Min(K) <= j
         /\ Max(K) \in K /\ \A j \in K : Max(K) >= j
<1>1. K \in SUBSET Nat OBVIOUS
<1>2. IsFiniteSet(K)
  <2>1. IsFiniteSet(0 .. N - 1) BY FS_Interval
  <2> QED BY <2>1, FS_Subset
<1>3. \E x \in K : \A j \in K : x <= j BY <1>1, Least
<1>4. \E x \in K : \A j \in K : x >= j BY <1>1, <1>2, GreatestOfFinite
<1>5. Min(K) \in K /\ \A j \in K : Min(K) <= j BY <1>3 DEF Min
<1>6. Max(K) \in K /\ \A j \in K : Max(K) >= j BY <1>4 DEF Max
<1> QED BY <1>5, <1>6

LEMMA BitTestTyped ==
  ASSUME Now \in Machines, NEW i \in Instrs, i.function \in BitTests
  PROVE  BitTest(i) \in Machines
<1> DEFINE s     == Native(i)
           v     == Exact(Get(Now, Arg1(i)), s)
           given == Get(Now, Arg2(i))
           index == IF i.function = "bit_test_reset" /\ s = "Dword" THEN Exact(given, s)
                    ELSE SX(given, s)
           k     == index.n % (ByteBits * Width(s))
           was   == Bit(v.n, k)
           is    == CASE i.function = "bit_test_set" -> TRUE
                      [] i.function = "bit_test_reset" -> FALSE
                      [] i.function = "bit_test_complement" -> ~was
           m     == Flagged(Now, "carry", was)
           bits  == IF is = was THEN v.n ELSE IF is THEN v.n + 2 ^ k ELSE v.n - 2 ^ k
           x     == Sized(s, bits)
           done  == IF i.function = "bit_test" THEN m ELSE Set(m, Arg1(i), x)
<1>1. BitTest(i) = Checked(v, Checked(index, done)) BY DEF BitTest
<1>2. /\ IsArgument(Arg1(i)) /\ IsArgument(Arg2(i)) /\ Arg1(i).kind # "Immediate"
      /\ Arg1(i).size = s /\ Arg2(i).size \in {"Byte", s}
  BY InstrsAssumption DEF NoOperand, OneOperand, Destination, BitScans, BitTests
<1>3. s \in Operand /\ Width(s) <= Width(Arg1(i).size) /\ Width(Arg2(i).size) <= Width(s)
      /\ Arg2(i).size \in Operand
  BY <1>2, NativeIs DEF Operand, Width
<1>4. IsNumberOf(v, s) \/ IsError(v)
  <2>1. IsValue(Get(Now, Arg1(i))) BY <1>2, <1>3, GetTyped DEF IsValue
  <2> HIDE DEF s
  <2> QED BY <1>3, <2>1, ExactTyped
<1>5. IsNumberOf(index, s) \/ IsError(index)
  <2>1. IsNumberOf(given, Arg2(i).size) \/ IsError(given) BY <1>2, GetTyped
  <2>2. IsValue(given) BY <1>3, <2>1 DEF IsValue
  <2> HIDE DEF given, s
  <2>3. IsNumberOf(Exact(given, s), s) \/ IsError(Exact(given, s)) BY <1>3, <2>2, ExactTyped
  <2>4. IsNumberOf(SX(given, s), s) \/ IsError(SX(given, s)) BY <1>3, <2>1, SXTyped
  <2> QED BY <2>3, <2>4
<1>6. is = TRUE \/ is = FALSE \/ i.function = "bit_test"
  <2>1. was \in BOOLEAN BY DEF Bit
  <2> HIDE DEF was
  <2> QED BY <2>1 DEF BitTests
<1> HIDE DEF v, index, s
<1>7. ASSUME ~Failed(v), ~Failed(index) PROVE done \in Machines
  <2>1. IsNumberOf(v, s) /\ IsNumberOf(index, s) BY <1>4, <1>5, <1>7, ValueFailed
  <2>2. index.n \in Nat /\ v.n \in 0 .. Mask(s) /\ v.n \in Nat
    BY <1>3, <2>1, Masks DEF IsNumberOf, Operand
  <2>3. k \in 0 .. ByteBits * Width(s) - 1 BY <1>3, <2>2, BitIndex
  <2>4. was \in BOOLEAN BY DEF Bit
  <2> HIDE DEF k
  <2>5. m \in Machines
    <3> HIDE DEF was
    <3>1. "carry" \in Flags BY OperandsAssumption
    <3> QED BY <2>4, <3>1, FlaggedTyped
  <2>6. CASE i.function = "bit_test" BY <2>5, <2>6
  <2>7. CASE i.function # "bit_test"
    <3>1. bits \in 0 .. Mask(s)
      <4>1. CASE is = was
        <5> HIDE DEF is, was
        <5> QED BY <2>2, <4>1
      <4>2. CASE is # was /\ is = TRUE
        <5>1. bits = v.n + 2 ^ k /\ was = FALSE
          <6> HIDE DEF is, was
          <6> QED BY <2>4, <4>2
        <5>2. ~Bit(v.n, k) BY <5>1
        <5>3. v.n + 2 ^ k \in 0 .. Mask(s) BY <1>3, <2>2, <2>3, <5>2, BitChanged
        <5> QED BY <5>1, <5>3
      <4>3. CASE is # was /\ is = FALSE
        <5>1. bits = v.n - 2 ^ k /\ was = TRUE
          <6> HIDE DEF is, was
          <6> QED BY <2>4, <4>3
        <5>2. Bit(v.n, k) BY <5>1
        <5>3. v.n - 2 ^ k \in 0 .. Mask(s) BY <1>3, <2>2, <2>3, <5>2, BitChanged
        <5> QED BY <5>1, <5>3
      <4> HIDE DEF is, was, bits
      <4> QED BY <1>6, <2>7, <4>1, <4>2, <4>3
    <3> HIDE DEF bits
    <3>2. IsNumberOf(x, s) BY <1>3, <3>1, SizedIs DEF Operand
    <3> HIDE DEF x, m
    <3>3. Set(m, Arg1(i), x) \in Machines BY <1>2, <1>3, <2>5, <3>2, SetTyped
    <3> QED BY <2>7, <3>3
  <2> HIDE DEF done
  <2> QED BY <2>6, <2>7
<1>8. (IsError(v) \/ ~Failed(v)) /\ (IsError(index) \/ ~Failed(index))
  BY <1>3, <1>4, <1>5, ValueFailed DEF Operand
<1> HIDE DEF done
<1>9. ~Failed(v) => Checked(index, done) \in Machines BY <1>7, <1>8, CheckedTyped
<1> QED BY <1>1, <1>8, <1>9, CheckedTyped

LEMMA BitScanTyped ==
  ASSUME Now \in Machines, NEW i \in Instrs, i.function \in BitScans
  PROVE  BitScan(i) \in Machines
<1> DEFINE s == Native(i)
           v == Exact(Get(Now, Arg1(i)), s)
           K == { k \in 0 .. ByteBits * Width(s) - 1 : Bit(v.n, k) }
           none  == Flagged(Now, "zero", TRUE)
           k     == IF i.function = "bit_scan_forward" THEN Min(K) ELSE Max(K)
           x     == Sized(s, k)
           one   == Flagged(Now, "zero", FALSE)
           found == Set(one, Arg2(i), x)
<1>1. BitScan(i) = Checked(v, IF K = {} THEN none ELSE found) BY DEF BitScan
<1>2. /\ IsArgument(Arg1(i)) /\ IsArgument(Arg2(i)) /\ Arg2(i).kind # "Immediate"
      /\ Arg1(i).size = s /\ Arg2(i).size = s
  BY InstrsAssumption DEF NoOperand, OneOperand, Destination, BitScans
<1>3. s \in Operand /\ Width(s) <= Width(Arg2(i).size) /\ Width(s) \in 0 .. 8
  BY <1>2, NativeIs DEF Operand, Width
<1>4. IsNumberOf(v, s) \/ IsError(v)
  <2>1. IsValue(Get(Now, Arg1(i))) BY <1>2, <1>3, GetTyped DEF IsValue
  <2> HIDE DEF s
  <2> QED BY <1>3, <2>1, ExactTyped
<1>5. none \in Machines /\ one \in Machines
  <2>1. "zero" \in Flags BY OperandsAssumption
  <2> QED BY <2>1, FlaggedTyped
<1> HIDE DEF v, s
<1>6. ASSUME K # {} PROVE found \in Machines
  <2> DEFINE N == ByteBits * Width(s)
  <2>1. N \in Nat BY <1>3, BitRange
  <2>2. K \in SUBSET (0 .. N - 1) OBVIOUS
  <2> HIDE DEF N, K
  <2>3. k \in K BY <1>6, <2>1, <2>2, ScanIs
  <2>4. k \in 0 .. N - 1 BY <2>2, <2>3
  <2> HIDE DEF k
  <2>5. k \in 0 .. Mask(s) BY <1>3, <2>4, BitIs DEF N
  <2>6. IsNumberOf(x, s) BY <1>3, <2>5, SizedIs DEF Operand
  <2> HIDE DEF x, one
  <2> QED BY <1>2, <1>3, <1>5, <2>6, SetTyped
<1> HIDE DEF K, none, found
<1>7. (IF K = {} THEN none ELSE found) \in Machines BY <1>5, <1>6
<1>8. IsError(v) \/ ~Failed(v) BY <1>3, <1>4, ValueFailed DEF Operand
<1> QED BY <1>1, <1>7, <1>8, CheckedTyped

LEMMA CbwCwdeTyped ==
  ASSUME Now \in Machines, NEW i \in Instrs
  PROVE  CbwCwde(i) \in Machines
<1>1. EAX \in Registers /\ AH \in Registers BY DEF EAX, AH, Registers
<1>2. Mask("Byte") \in Nat /\ Mask("Word") \in Nat /\ Mask("Dword") \in Nat
      /\ Mask("Word") <= Mask("Dword")
  BY Masks, Widths
<1>3. CASE i.size_override
  <2> DEFINE al == GetReg(Now, EAX, "Byte").n
             n  == IF Negative("Byte", al) THEN Mask("Byte") ELSE 0
             v  == Sized("Byte", n)
  <2>1. CbwCwde(i) = SetReg(Now, AH, v) BY <1>3 DEF CbwCwde
  <2>2. n \in 0 .. Mask("Byte") BY <1>2
  <2> HIDE DEF n
  <2>3. IsNumberOf(v, "Byte") /\ "Byte" \in Operand BY <2>2, SizedIs DEF Operand
  <2> HIDE DEF v
  <2> QED BY <1>1, <2>1, <2>3, SetRegTyped
<1>4. CASE ~i.size_override
  <2> DEFINE ax == GetReg(Now, EAX, "Word").n
             n  == IF ax > Bytes(2) \div 2 THEN Mask("Dword") - Mask("Word") + ax ELSE ax
             v  == Sized("Dword", n)
  <2>1. CbwCwde(i) = SetReg(Now, EAX, v) BY <1>4 DEF CbwCwde
  <2>2. ax \in 0 .. Mask("Word")
    <3>1. IsNumberOf(GetReg(Now, EAX, "Word"), "Word") BY <1>1, GetRegTyped DEF Operand
    <3> QED BY <3>1 DEF IsNumberOf
  <2>3. n \in 0 .. Mask("Dword")
    <3> HIDE DEF ax
    <3>1. n = ax \/ n = Mask("Dword") - Mask("Word") + ax OBVIOUS
    <3> HIDE DEF n
    <3> QED BY <1>2, <2>2, <3>1
  <2> HIDE DEF n
  <2>4. IsNumberOf(v, "Dword") /\ "Dword" \in Operand BY <2>3, SizedIs DEF Operand
  <2> HIDE DEF v
  <2> QED BY <1>1, <2>1, <2>4, SetRegTyped
<1> QED BY <1>3, <1>4

LEMMA CdqCwdTyped ==
  ASSUME Now \in Machines, NEW i \in Instrs
  PROVE  CdqCwd(i) \in Machines
<1> DEFINE s == Native(i)
           n == IF Negative(s, GetReg(Now, EAX, s).n) THEN Mask(s) ELSE 0
           v == Sized(s, n)
<1>1. EDX \in Registers BY DEF EDX, Registers
<1>2. s \in Operand BY NativeIs DEF Operand
<1>3. CdqCwd(i) = SetReg(Now, EDX, v) BY DEF CdqCwd
<1>4. n \in 0 .. Mask(s)
  <2> HIDE DEF s
  <2>1. Mask(s) \in Nat BY <1>2, Masks DEF Operand
  <2> QED BY <2>1
<1> HIDE DEF s, n
<1>5. IsNumberOf(v, s) BY <1>2, <1>4, SizedIs DEF Operand
<1> HIDE DEF v
<1> QED BY <1>1, <1>2, <1>3, <1>5, SetRegTyped

LEMMA XlatbTyped ==
  ASSUME Now \in Machines, NEW i \in Instrs
  PROVE  Xlatb(i) \in Machines
<1> DEFINE s   == Native(i)
           x   == GetReg(Now, EAX, "Byte").n
           y   == GetReg(Now, EBX, s).n
           p   == Bytes(Width(s))
           a   == (x + y) % p
           v   == GetMem(Now, a, "Byte")
<1>1. Xlatb(i) = Checked(v, SetReg(Now, EAX, v)) BY DEF Xlatb
<1>2. EAX \in Registers /\ EBX \in Registers BY DEF EAX, EBX, Registers
<1>3. s \in Operand /\ Width(s) \in 0 .. 8 BY NativeIs DEF Operand, Width
<1>4. p \in Nat \ {0} BY <1>3, BytePowers
<1> HIDE DEF s, p
<1>5. x \in Int /\ y \in Int
  <2>1. /\ IsNumberOf(GetReg(Now, EAX, "Byte"), "Byte")
        /\ IsNumberOf(GetReg(Now, EBX, s), s)
    BY <1>2, <1>3, GetRegTyped DEF Operand
  <2>2. x \in 0 .. Mask("Byte") /\ y \in 0 .. Mask(s) BY <2>1 DEF IsNumberOf
  <2> HIDE DEF x, y
  <2> QED BY <2>2
<1> HIDE DEF x, y
<1>6. a \in Int
  <2>1. x + y \in Int BY <1>5
  <2> QED BY <1>4, <2>1, DivMod
<1> HIDE DEF a
<1>7. IsNumberOf(v, "Byte") \/ IsError(v) BY <1>6, GetMemTyped
<1> HIDE DEF v
<1>8. IsError(v) \/ ~Failed(v) BY <1>7, ValueFailed
<1>9. ~Failed(v) => SetReg(Now, EAX, v) \in Machines
  <2>1. ~Failed(v) => IsNumberOf(v, "Byte") BY <1>7, ValueFailed
  <2> QED BY <1>2, <2>1, SetRegTyped DEF Operand
<1> QED BY <1>1, <1>8, <1>9, CheckedTyped

LEMMA SetccTyped ==
  ASSUME Now \in Machines, NEW i \in Instrs, i.function = "setcc_8bit"
  PROVE  Setcc(i) \in Machines
<1> DEFINE n == IF Matches(i) THEN 1 ELSE 0
           v == Sized("Byte", n)
<1>1. IsArgument(Arg1(i)) /\ Arg1(i).kind # "Immediate" /\ Arg1(i).size = "Byte"
  BY InstrsAssumption DEF NoOperand, Destination, BitScans
<1>2. n \in 0 .. Mask("Byte")
  <2>1. Mask("Byte") \in Nat /\ Mask("Byte") >= 1 BY Masks, Widths
  <2> QED BY <2>1
<1>3. Setcc(i) = Set(Now, Arg1(i), v) BY DEF Setcc
<1> HIDE DEF n
<1>4. IsNumberOf(v, "Byte") /\ "Byte" \in Operand BY <1>2, SizedIs DEF Operand
<1>5. Width("Byte") <= Width(Arg1(i).size) BY <1>1 DEF Width
<1> HIDE DEF v
<1> QED BY <1>1, <1>3, <1>4, <1>5, SetTyped

(* Powers of two, up to all bits of the numbers and of the flags.          *)
LEMMA FlagPowers ==
  \E W \in Nat :
    LET P == [k \in 0 .. W |-> 2 ^ k]
    IN  /\ PowersOf(P, 2, W) /\ ByteBits < W
        /\ \A k \in 0 .. W : P[k] = 2 ^ k /\ P[k] \in Nat \ {0}
        /\ \A x \in Flags : FlagBits[x] \in 0 .. W - 1
<1> DEFINE b == 8 * ByteBits
           M == {FlagBits[x] : x \in Flags} \union {b}
           f == [x \in Flags |-> FlagBits[x]]
           T == {FlagBits[x] : x \in Flags}
<1>1. b \in Nat /\ ByteBits <= b BY OperandsAssumption
<1>2. \A x \in Flags : FlagBits[x] \in Nat BY OperandsAssumption
<1>3. IsFiniteSet(M)
  <2>1. f \in [Flags -> T] OBVIOUS
  <2>2. \A y \in T : \E x \in Flags : f[x] = y OBVIOUS
  <2>3. IsFiniteSet(Flags) BY OperandsAssumption
  <2> HIDE DEF T, f, b
  <2>4. f \in Surjection(Flags, T) BY <2>1, <2>2 DEF Surjection
  <2>5. IsFiniteSet(T) BY <2>3, <2>4, FS_Surjection
  <2>6. IsFiniteSet(T \union {b}) BY <2>5, FS_AddElement
  <2> QED BY <2>6 DEF T
<1>4. M \in SUBSET Nat /\ b \in M BY <1>1, <1>2
<1> HIDE DEF b
<1>5. PICK m \in M : \A y \in M : m >= y
  <2> HIDE DEF M
  <2> QED BY <1>3, <1>4, GreatestOfFinite
<1> DEFINE W == m + 1
           P == [k \in 0 .. W |-> 2 ^ k]
<1>6. m \in Nat /\ W \in Nat BY <1>4
<1>7. ASSUME NEW k \in 0 .. m PROVE 2 ^ (k + 1) = 2 * 2 ^ k
  <2>1. CASE m = b BY <2>1, PowerAssumption DEF b
  <2>2. CASE \E x \in Flags : m = FlagBits[x] BY <2>2, PowerAssumption
  <2> QED BY <2>1, <2>2
<1>8. \A x \in Flags : FlagBits[x] \in 0 .. W - 1
  <2> SUFFICES ASSUME NEW x \in Flags PROVE FlagBits[x] \in 0 .. W - 1 OBVIOUS
  <2>1. FlagBits[x] \in M /\ FlagBits[x] \in Nat BY <1>2
  <2>2. m >= FlagBits[x] BY <1>5, <2>1
  <2> QED BY <1>6, <2>1, <2>2
<1>9. ByteBits < W
  <2>1. m >= b BY <1>4, <1>5
  <2> QED BY <1>1, <1>6, <2>1, OperandsAssumption
<1> HIDE DEF M
<1>10. PowersOf(P, 2, W)
  <2>1. \A k \in 0 .. W - 1 : k \in 0 .. m /\ k \in 0 .. W /\ k + 1 \in 0 .. W BY <1>6
  <2>2. 0 \in 0 .. W BY <1>6
  <2>3. P[0] = 1 BY <2>2, PowerAssumption
  <2>4. \A k \in 0 .. W - 1 : P[k + 1] = 2 * P[k] BY <1>7, <2>1
  <2> QED BY <2>3, <2>4 DEF PowersOf
<1>11. \A k \in 0 .. W : P[k] = 2 ^ k OBVIOUS
<1> HIDE DEF P, W
<1>12. \A k \in 0 .. W : P[k] \in Nat \ {0}
  <2>1. 2 \in Nat \ {0} OBVIOUS
  <2> QED BY <1>6, <1>10, <2>1, PowersAre
<1> QED BY <1>6, <1>8, <1>9, <1>10, <1>11, <1>12 DEF P

(* The flags register is a number.                                         *)
LEMMA SerializedTyped == Serialized \in Int
<1> DEFINE On == {x \in Flags : flags[x]}
           T  == {2 ^ FlagBits[x] : x \in On}
           f  == [x \in On |-> 2 ^ FlagBits[x]]
<1>1. IsFiniteSet(On)
  <2>1. IsFiniteSet(Flags) BY OperandsAssumption
  <2> QED BY <2>1, FS_Subset
<1>2. T \subseteq Int
  <2> SUFFICES ASSUME NEW x \in Flags PROVE 2 ^ FlagBits[x] \in Int OBVIOUS
  <2>1. PICK W \in Nat :
          /\ \A k \in 0 .. W : 2 ^ k \in Nat \ {0}
          /\ FlagBits[x] \in 0 .. W - 1
    BY FlagPowers
  <2>2. FlagBits[x] \in 0 .. W BY <2>1
  <2> QED BY <2>1, <2>2
<1>3. IsFiniteSet(T)
  <2>1. f \in [On -> T] OBVIOUS
  <2>2. \A y \in T : \E x \in On : f[x] = y OBVIOUS
  <2> HIDE DEF On, T, f
  <2>3. f \in Surjection(On, T) BY <2>1, <2>2 DEF Surjection
  <2> QED BY <1>1, <2>3, FS_Surjection
<1>4. Serialized = 2 + SumSet(T) BY DEF Serialized
<1> HIDE DEF T
<1>5. PICK F \in [SUBSET T -> Int] : SumOf(F, T) BY <1>2, <1>3, SumExists
<1>6. T \in SUBSET T OBVIOUS
<1>7. F[T] = SumSet(T) /\ F[T] \in Int BY <1>5, <1>6 DEF SumOf
<1> DEFINE x == SumSet(T)
<1>8. x \in Int /\ Serialized = 2 + x BY <1>4, <1>7
<1> HIDE DEF x
<1> QED BY <1>8

LEMMA LahfTyped ==
  ASSUME Now \in Machines
  PROVE  Lahf \in Machines
<1> DEFINE b == Base
           n == Serialized % b
           v == Sized("Byte", n)
<1>1. AH \in Registers BY DEF AH, Registers
<1>2. b \in Nat \ {0} /\ Mask("Byte") = b - 1 BY Masks, Widths
<1>3. Lahf = SetReg(Now, AH, v) BY DEF Lahf
<1> HIDE DEF b
<1>4. n \in 0 .. Mask("Byte") BY <1>2, SerializedTyped, DivMod
<1> HIDE DEF n
<1>5. IsNumberOf(v, "Byte") /\ "Byte" \in Operand BY <1>4, SizedIs DEF Operand
<1> HIDE DEF v
<1> QED BY <1>1, <1>3, <1>5, SetRegTyped

LEMMA SahfTyped ==
  ASSUME Now \in Machines
  PROVE  Sahf \in Machines
  BY DEF Sahf, Machines, Bit

LEMMA Cmpxchg8bTyped ==
  ASSUME Now \in Machines, NEW i \in Instrs, i.function = "cmpxchg8b"
  PROVE  Cmpxchg8b(i) \in Machines
<1> DEFINE a       == Lea(Now, Arg1(i))
           temp    == GetMem(Now, a.n, "Qword")
           Long(high, low) == Sized("Qword", regs[high] * Bytes(4) + regs[low])
           equal   == Flagged(Now, "zero", TRUE)
           unequal == Flagged(Now, "zero", FALSE)
           Stored  == SetMem(equal, a.n, Long(ECX, EBX))
           low     == temp.n % Bytes(4)
           high    == temp.n \div Bytes(4)
           Loaded  == [unequal EXCEPT !.regs[EAX] = low, !.regs[EDX] = high]
           done    == IF Long(EDX, EAX) = temp THEN Stored ELSE Loaded
<1>1. Cmpxchg8b(i) = Checked(a, Checked(temp, done)) BY DEF Cmpxchg8b
<1>2. IsArgument(Arg1(i)) BY InstrsAssumption DEF NoOperand
<1>3. (IsNumberOf(a, "Dword") /\ a.n \in Int) \/ IsError(a) BY <1>2, LeaTyped, AddressTyped
<1>4. equal \in Machines /\ unequal \in Machines
  <2>1. "zero" \in Flags BY OperandsAssumption
  <2> QED BY <2>1, FlaggedTyped
<1>5. /\ EAX \in Registers /\ EBX \in Registers /\ ECX \in Registers /\ EDX \in Registers
  BY DEF EAX, EBX, ECX, EDX, Registers
<1> HIDE DEF a
<1>6. ASSUME ~Failed(a) PROVE IsNumberOf(temp, "Qword") \/ IsError(temp)
  <2>1. a.n \in Int BY <1>3, <1>6, ValueFailed
  <2> QED BY <2>1, GetMemTyped
<1>7. ASSUME ~Failed(a), ~Failed(temp) PROVE done \in Machines
  <2>1. a.n \in Int BY <1>3, <1>7, ValueFailed
  <2>2. IsNumberOf(temp, "Qword") BY <1>6, <1>7, ValueFailed
  <2>3. Stored \in Machines
    <3> DEFINE c == regs[ECX]
               d == regs[EBX]
               q == Bytes(4)
               v == Long(ECX, EBX)
    <3>1. v = Sized("Qword", c * q + d) OBVIOUS
    <3>2. c \in Nat /\ d \in Nat /\ q \in Nat
      <4>1. Now.regs = regs BY DEF Now
      <4>2. \A r \in Registers : regs[r] \in 0 .. Mask("Dword") BY <4>1 DEF Machines
      <4> QED BY <1>5, <4>2, Widths
    <3> HIDE DEF c, d, q
    <3>3. c * q + d \in Nat BY <3>2
    <3> HIDE DEF v
    <3>4. v.n \in Nat /\ v.size = "Qword" BY <3>1, <3>3 DEF Sized
    <3>5. SetMem(equal, a.n, v) \in Machines
      <4> HIDE DEF equal
      <4> QED BY <1>4, <2>1, <3>4, SetMemTyped
    <3> QED BY <3>5 DEF v
  <2>4. low \in 0 .. Mask("Dword") /\ high \in 0 .. Mask("Dword")
    <3> DEFINE t == temp.n
               q == Bytes(4)
    <3>1. t \in 0 .. Mask("Qword") BY <2>2 DEF IsNumberOf
    <3>2. q \in Nat \ {0} /\ Mask("Qword") = q * q - 1 /\ Mask("Dword") = q - 1
      BY Masks, Widths
    <3> HIDE DEF t, q
    <3>3. q * q \in Nat BY <3>2
    <3>4. t \in Nat /\ t < q * q BY <3>1, <3>2, <3>3
    <3>5. t \div q \in 0 .. q - 1 /\ t % q \in 0 .. q - 1 BY <3>2, <3>4, TurnOver
    <3> QED BY <3>2, <3>5 DEF t, q
  <2>5. Loaded \in Machines
    <3> HIDE DEF low, high, unequal
    <3> QED BY <1>4, <1>5, <2>4 DEF Machines
  <2> HIDE DEF Stored, Loaded
  <2> QED BY <2>3, <2>5
<1> HIDE DEF temp, done
<1>8. ~Failed(a) => Checked(temp, done) \in Machines
  <2> SUFFICES ASSUME ~Failed(a) PROVE Checked(temp, done) \in Machines OBVIOUS
  <2>1. IsError(temp) \/ ~Failed(temp) BY <1>6, ValueFailed
  <2> QED BY <1>7, <2>1, CheckedTyped
<1>9. IsError(a) \/ ~Failed(a) BY <1>3, ValueFailed
<1> QED BY <1>1, <1>8, <1>9, CheckedTyped

-----------------------------------------------------------------------------

(* What an instruction makes of a typed machine, is one.                   *)
LEMMA ExecuteTyped ==
  ASSUME NEW i, NEW f, NEW m, Execute(i, f, m), i.function = f => m \in Machines
  PROVE  TypeOK'
<1>1. m \in Machines BY DEF Execute
<1>2. regs' = m.regs /\ mem' = m.mem /\ flags' = m.flags /\ result' = m.result BY DEF Execute
<1> QED BY <1>1, <1>2 DEF Machines, TypeOK

(* Registers and memory keep their widths and the errors are those that an *)
(* access or an encoding may give, whatever is executed on whatever        *)
(* memory: no logic function stores a value too big for its place, and     *)
(* none writes to a literal.                                               *)
THEOREM TypeCorrect == Spec => []TypeOK
<1>1. ASSUME Init PROVE TypeOK
  BY <1>1, StartsAssumption DEF Init, TypeOK
<1>2. ASSUME TypeOK, Next PROVE TypeOK'
  <2>0. Now \in Machines BY <1>2, NowTyped DEF Next, Running
  <2>1. PICK i \in Instrs :
          \/ Execute(i, "mov", Mov(i))
          \/ Execute(i, "movzx_8bit", MovZX(i, Native(i)))
          \/ Execute(i, "movzx_16bit", MovZX(i, "Dword"))
          \/ Execute(i, "movsx_8bit", MovSX(i, Native(i)))
          \/ Execute(i, "movsx_16bit", MovSX(i, "Dword"))
          \/ Execute(i, "lea", LoadAddress(i))
          \/ Execute(i, "setcc_8bit", Setcc(i))
          \/ Execute(i, "cmovcc_native", Cmovcc(i))
          \/ Execute(i, "xchg", Xchg(i))
          \/ Execute(i, "bswap", Bswap(i))
          \/ Execute(i, "xlatb", Xlatb(i))
          \/ Execute(i, "cmpxchg8b", Cmpxchg8b(i))
          \/ \E f \in BitTests : Execute(i, f, BitTest(i))
          \/ \E f \in BitScans : Execute(i, f, BitScan(i))
          \/ Execute(i, "cbw_cwde", CbwCwde(i))
          \/ Execute(i, "cdq_cwd", CdqCwd(i))
          \/ Execute(i, "lahf", Lahf)
          \/ Execute(i, "sahf", Sahf)
          \/ Execute(i, "stc", Flagged(Now, "carry", TRUE))
          \/ Execute(i, "clc", Flagged(Now, "carry", FALSE))
          \/ Execute(i, "cmc", Flagged(Now, "carry", ~flags["carry"]))
    BY <1>2 DEF Next
  <2>2. CASE Execute(i, "mov", Mov(i))
    BY <2>0, <2>2, ExecuteTyped, MovTyped
  <2>3. CASE Execute(i, "movzx_8bit", MovZX(i, Native(i)))
    BY <2>0, <2>3, ExecuteTyped, ExtendTyped, NativeIs DEF Operand
  <2>4. CASE Execute(i, "movzx_16bit", MovZX(i, "Dword"))
    BY <2>0, <2>4, ExecuteTyped, ExtendTyped DEF Operand
  <2>5. CASE Execute(i, "movsx_8bit", MovSX(i, Native(i)))
    BY <2>0, <2>5, ExecuteTyped, ExtendTyped, NativeIs DEF Operand
  <2>6. CASE Execute(i, "movsx_16bit", MovSX(i, "Dword"))
    BY <2>0, <2>6, ExecuteTyped, ExtendTyped DEF Operand
  <2>7. CASE Execute(i, "lea", LoadAddress(i))
    BY <2>0, <2>7, ExecuteTyped, LoadAddressTyped
  <2>8. CASE Execute(i, "setcc_8bit", Setcc(i))
    BY <2>0, <2>8, ExecuteTyped, SetccTyped
  <2>9. CASE Execute(i, "cmovcc_native", Cmovcc(i))
    BY <2>0, <2>9, ExecuteTyped, MovTyped DEF Cmovcc
  <2>10. CASE Execute(i, "xchg", Xchg(i))
    BY <2>0, <2>10, ExecuteTyped, XchgTyped
  <2>11. CASE Execute(i, "bswap", Bswap(i))
    BY <2>0, <2>11, ExecuteTyped, BswapTyped
  <2>12. CASE Execute(i, "xlatb", Xlatb(i))
    BY <2>0, <2>12, ExecuteTyped, XlatbTyped
  <2>13. CASE Execute(i, "cmpxchg8b", Cmpxchg8b(i))
    BY <2>0, <2>13, ExecuteTyped, Cmpxchg8bTyped
  <2>14. CASE \E f \in BitTests : Execute(i, f, BitTest(i))
    BY <2>0, <2>14, ExecuteTyped, BitTestTyped
  <2>15. CASE \E f \in BitScans : Execute(i, f, BitScan(i))
    BY <2>0, <2>15, ExecuteTyped, BitScanTyped
  <2>16. CASE Execute(i, "cbw_cwde", CbwCwde(i))
    BY <2>0, <2>16, ExecuteTyped, CbwCwdeTyped
  <2>17. CASE Execute(i, "cdq_cwd", CdqCwd(i))
    BY <2>0, <2>17, ExecuteTyped, CdqCwdTyped
  <2>18. CASE Execute(i, "lahf", Lahf)
    BY <2>0, <2>18, ExecuteTyped, LahfTyped
  <2>19. CASE Execute(i, "sahf", Sahf)
    BY <2>0, <2>19, ExecuteTyped, SahfTyped
  <2>20. "carry" \in Flags BY OperandsAssumption
  <2>21. CASE Execute(i, "stc", Flagged(Now, "carry", TRUE))
    <3>1. Flagged(Now, "carry", TRUE) \in Machines BY <2>0, <2>20, FlaggedTyped
    <3> QED BY <2>21, <3>1, ExecuteTyped
  <2>22. CASE Execute(i, "clc", Flagged(Now, "carry", FALSE))
    <3>1. Flagged(Now, "carry", FALSE) \in Machines BY <2>0, <2>20, FlaggedTyped
    <3> QED BY <2>22, <3>1, ExecuteTyped
  <2>23. CASE Execute(i, "cmc", Flagged(Now, "carry", ~flags["carry"]))
    <3>1. Flagged(Now, "carry", ~flags["carry"]) \in Machines BY <2>0, <2>20, FlaggedTyped
    <3> QED BY <2>23, <3>1, ExecuteTyped
  <2> QED BY <2>1, <2>2, <2>3, <2>4, <2>5, <2>6, <2>7, <2>8, <2>9, <2>10,
             <2>11, <2>12, <2>13, <2>14, <2>15, <2>16, <2>17, <2>18, <2>19,
             <2>21, <2>22, <2>23
<1>3. ASSUME TypeOK, UNCHANGED vars PROVE TypeOK'
  BY <1>3 DEF TypeOK, vars
<1> QED BY <1>1, <1>2, <1>3, PTL DEF Spec

-----------------------------------------------------------------------------
(* Refinement: registers and memory as bytes at places                     *)

(* A sequence that is given as a function.                                 *)
LEMMA SequenceIs ==
  ASSUME NEW w \in Nat, NEW S, NEW f \in [1 .. w -> S]
  PROVE  f \in Seq(S) /\ Len(f) = w
  OBVIOUS

(* The bytes of a number, lowest first.                                    *)
Digits(n, w) == [k \in 1 .. w |-> (n \div Bytes(k - 1)) % Base]

(* Promise and model split a number in the same way.                       *)
LEMMA BytesIs ==
  ASSUME NEW n, NEW w
  PROVE  Promise!Bytes(n, w) = Digits(n, w)
  BY DEF Promise!Bytes, Promise!Values, Digits, Bytes, Base

(* A byte of a number fits a byte.                                         *)
LEMMA ByteIs ==
  ASSUME NEW n \in Nat, NEW k \in 0 .. 8
  PROVE  (n \div Bytes(k)) % Base \in 0 .. Base - 1
<1>1. Bytes(k) \in Nat \ {0} /\ Base \in Nat \ {0} BY BytePowers
<1> DEFINE a == n \div Bytes(k)
<1>2. a \in Nat BY <1>1, QuotientBelow
<1> HIDE DEF a
<1>3. a % Base \in 0 .. Base - 1 BY <1>1, <1>2, DivMod
<1> QED BY <1>3 DEF a

(* A number has as many bytes as are asked for.                            *)
LEMMA DigitsType ==
  ASSUME NEW n \in Nat, NEW w \in 0 .. 8
  PROVE  /\ Digits(n, w) \in [1 .. w -> 0 .. Base - 1]
         /\ Digits(n, w) \in Seq(0 .. Base - 1) /\ Len(Digits(n, w)) = w
         /\ DOMAIN Digits(n, w) = 1 .. w
<1>1. ASSUME NEW k \in 1 .. w PROVE (n \div Bytes(k - 1)) % Base \in 0 .. Base - 1
  <2>1. k - 1 \in 0 .. 8 OBVIOUS
  <2> QED BY <2>1, ByteIs
<1>2. Digits(n, w) \in [1 .. w -> 0 .. Base - 1] BY <1>1 DEF Digits
<1>3. w \in Nat OBVIOUS
<1> QED BY <1>2, <1>3, SequenceIs

(* Places and the bytes at them.                                           *)
View(m) == [p \in Places |-> IF p[1] = "memory" THEN m.mem[p[2]]
                             ELSE (m.regs[p[2]] \div Bytes(p[3])) % Base]

RegisterPlace(r, k) == <<"register", r, k>>
MemoryPlace(a)      == <<"memory", a>>

(* What a machine holds at the two kinds of places.                        *)
LEMMA PlaceIs ==
  ASSUME NEW m
  PROVE  /\ \A r \in Registers, k \in 0 .. 3 :
              /\ RegisterPlace(r, k) \in Places
              /\ View(m)[RegisterPlace(r, k)] = (m.regs[r] \div Bytes(k)) % Base
         /\ \A a \in Mapped : /\ MemoryPlace(a) \in Places
                              /\ View(m)[MemoryPlace(a)] = m.mem[a]
         /\ \A p \in Places : \/ \E r \in Registers, k \in 0 .. 3 : p = RegisterPlace(r, k)
                              \/ \E a \in Mapped : p = MemoryPlace(a)
         /\ DOMAIN View(m) = Places
<1>1. ASSUME NEW r \in Registers, NEW k \in 0 .. 3
      PROVE  /\ RegisterPlace(r, k) \in Places
             /\ View(m)[RegisterPlace(r, k)] = (m.regs[r] \div Bytes(k)) % Base
  BY DEF RegisterPlace, Places, View, Registers
<1>2. ASSUME NEW a \in Mapped
      PROVE  MemoryPlace(a) \in Places /\ View(m)[MemoryPlace(a)] = m.mem[a]
  BY DEF MemoryPlace, Places, View
<1>3. ASSUME NEW p \in Places
      PROVE  \/ \E r \in Registers, k \in 0 .. 3 : p = RegisterPlace(r, k)
             \/ \E a \in Mapped : p = MemoryPlace(a)
  BY DEF RegisterPlace, MemoryPlace, Places, Registers
<1> QED BY <1>1, <1>2, <1>3 DEF View

(* Places with different names are different.                              *)
LEMMA PlacesDiffer ==
  ASSUME NEW r, NEW k, NEW s, NEW j, NEW a, NEW b
  PROVE  /\ RegisterPlace(r, k) # MemoryPlace(a)
         /\ RegisterPlace(r, k) = RegisterPlace(s, j) <=> r = s /\ k = j
         /\ MemoryPlace(a) = MemoryPlace(b) <=> a = b
  BY DEF RegisterPlace, MemoryPlace

(* The bytes that the promise reads are those of the machine.              *)
LEMMA AtIs ==
  ASSUME NEW ps
  PROVE  Promise!At(ps) = [k \in DOMAIN ps |-> View(Now)[ps[k]]]
  BY DEF Promise!At, View, Now

(* n is m after a write of bytes to places.                                *)
Puts(m, n, ps, bs) ==
  /\ \A j \in DOMAIN ps : View(n)[ps[j]] = bs[j]
  /\ \A p \in Places : (\A j \in DOMAIN ps : ps[j] # p) => View(n)[p] = View(m)[p]

Wrote(C, ps, bs) ==
  [p \in Places |-> IF \E k \in DOMAIN ps : ps[k] = p
                    THEN bs[CHOOSE k \in DOMAIN ps : ps[k] = p] ELSE C[p]]

(* What Puts says place by place, as one function.                         *)
LEMMA PutsWrote ==
  ASSUME NEW m, NEW n, NEW ps, NEW bs, Puts(m, n, ps, bs)
  PROVE  View(n) = Wrote(View(m), ps, bs)
<1>1. ASSUME NEW p \in Places PROVE View(n)[p] = Wrote(View(m), ps, bs)[p]
  <2>1. CASE \E k \in DOMAIN ps : ps[k] = p
    <3> DEFINE j == CHOOSE k \in DOMAIN ps : ps[k] = p
    <3>1. j \in DOMAIN ps /\ ps[j] = p BY <2>1
    <3>2. Wrote(View(m), ps, bs)[p] = bs[j] BY <2>1 DEF Wrote
    <3> HIDE DEF j
    <3> QED BY <3>1, <3>2 DEF Puts
  <2>2. CASE ~ \E k \in DOMAIN ps : ps[k] = p
    BY <2>2 DEF Wrote, Puts
  <2> QED BY <2>1, <2>2
<1>2. DOMAIN View(n) = Places BY PlaceIs
<1>3. View(n) = [p \in Places |-> View(n)[p]] BY DEF View
<1>4. Wrote(View(m), ps, bs) = [p \in Places |-> Wrote(View(m), ps, bs)[p]] BY DEF Wrote
<1> QED BY <1>1, <1>3, <1>4, Zenon

(* The machine m is what the promise says of an instruction.               *)
Correct(i, m) ==
  IF Promise!Possible(i)
  THEN /\ m.result = "Ok" /\ m.flags = Promise!FlagsAfter(i)
       /\ Len(Promise!Written(i)[1]) = Len(Promise!Written(i)[2])
       /\ Puts(Now, m, Promise!Written(i)[1], Promise!Written(i)[2])
  ELSE /\ m.result # "Ok" /\ Kept(m)
       /\ m.flags = flags \/ (Promise!Readable(i) /\ m.flags = Promise!FlagsAfter(i))

(* A step to a correct machine is a step of the promise.                   *)
LEMMA CorrectStep ==
  ASSUME result = "Ok", NEW i, NEW f, NEW m, Execute(i, f, m), Correct(i, m)
  PROVE  Promise!Next
<1> DEFINE C == [p \in Places |-> IF p[1] = "memory" THEN mem[p[2]]
                                  ELSE (regs[p[2]] \div Bytes(p[3])) % Base]
<1>1. C = View(Now) /\ C' = View(m) /\ DOMAIN C = Places
  BY DEF View, Now, Execute
<1>2. instr' = i /\ flags' = m.flags /\ result' = m.result BY DEF Execute
<1>3. CASE Promise!Possible(i)
  <2> DEFINE ps == Promise!Written(i)[1]
             bs == Promise!Written(i)[2]
  <2>1. Puts(Now, m, ps, bs) /\ Len(ps) = Len(bs) BY <1>3 DEF Correct
  <2>2. C' = Wrote(C, ps, bs)
    <3> HIDE DEF C, ps, bs
    <3> QED BY <1>1, <2>1, PutsWrote
  <2>3. C' = [p \in DOMAIN C |-> IF \E k \in DOMAIN ps : ps[k] = p
                THEN bs[CHOOSE k \in DOMAIN ps : ps[k] = p] ELSE C[p]]
    <3> HIDE DEF C, ps, bs
    <3> QED BY <1>1, <2>2 DEF Wrote
  <2>4. Promise!Does(i) BY <1>2, <1>3, <2>1, <2>3, Zenon DEF Correct, Promise!Does
  <2>5. Promise!Execute(i) BY <1>3, <2>4, Zenon DEF Promise!Execute
  <2> QED BY <1>2, <2>5, Zenon DEF Promise!Next
<1>4. CASE ~Promise!Possible(i)
  <2>1. C' = C BY <1>4 DEF Correct, Kept, Execute
  <2>2. Promise!Fails(i) BY <1>2, <1>4, <2>1, Zenon DEF Correct, Promise!Fails
  <2>3. Promise!Execute(i) BY <1>4, <2>2, Zenon DEF Promise!Execute
  <2> QED BY <1>2, <2>3, Zenon DEF Promise!Next
<1> QED BY <1>3, <1>4

(* A number is added up from its bytes.                                    *)
LEMMA NumberSteps ==
  ASSUME NEW w \in 0 .. 8, NEW bs \in [1 .. w -> Nat]
  PROVE  \E R \in [0 .. w -> Int] :
           /\ R[0] = 0 /\ \A k \in 1 .. w : R[k] = R[k - 1] + bs[k] * Bytes(k - 1)
           /\ Promise!Number(bs) = R[w]
<1> DEFINE S == 1 .. w
           seq == [k \in DOMAIN bs |-> k]
           Add(k, x) == x + bs[seq[k]] * Promise!Values ^ (seq[k] - 1)
           Step(F) == [s \in SUBSET S |-> IF s = {} THEN 0
                         ELSE Add(Max(s), F[s \ {Max(s)}])]
           iter == CHOOSE F : F = Step(F)
<1>0. w \in Nat /\ 0 \in Int OBVIOUS
<1>1. Promise!Number(bs) = iter[S]
  <2>1. DOMAIN seq = S OBVIOUS
  <2> QED BY <2>1 DEF Promise!Number, Promise!FoldLeft, Promise!MapThenFoldSet, Promise!Max, Max
<1> DEFINE c == [s \in SUBSET S |-> Max(s)]
           G == [p \in S \X Int |-> Add(p[1], p[2])]
<1>2. PicksGreatest(c, S)
  <2> SUFFICES ASSUME NEW s \in SUBSET S, s # {}
               PROVE  Max(s) \in s /\ \A y \in s : Max(s) >= y
    BY DEF PicksGreatest
  <2> QED BY <1>0, Greatest DEF Max
<1>3. ASSUME NEW k \in S, NEW x \in Int
      PROVE  Add(k, x) \in Int /\ Add(k, x) = x + bs[k] * Bytes(k - 1)
  <2>1. seq[k] = k OBVIOUS
  <2>2. Promise!Values ^ (k - 1) = Bytes(k - 1) BY DEF Promise!Values, Bytes, Base
  <2>3. k - 1 \in 0 .. 8 OBVIOUS
  <2>4. Bytes(k - 1) \in Nat BY <2>3, BytePowers
  <2> DEFINE b == Bytes(k - 1)
             d == bs[k]
  <2>5. b \in Nat /\ d \in Nat BY <2>4
  <2>6. Add(k, x) = x + d * b BY <2>1, <2>2
  <2> HIDE DEF b, d, Add
  <2>7. x + d * b \in Int BY <2>5
  <2> QED BY <2>6, <2>7 DEF b, d
<1> HIDE DEF Add, seq
<1>4. Adds(G, S, Int) BY <1>3 DEF Adds
<1>5. PICK F \in [SUBSET S -> Int] : Recursion(F, S, 0, c, G)
  <2>1. IsFiniteSet(S) BY FS_Interval
  <2>2. Picks(c, S) BY <1>2 DEF Picks, PicksGreatest
  <2> HIDE DEF S, c, G
  <2> QED BY <1>0, <1>4, <2>1, <2>2, FoldExists
<1>6. F = Step(F)
  <2>1. ASSUME NEW s \in SUBSET S
        PROVE  F[s] = IF s = {} THEN 0 ELSE Add(Max(s), F[s \ {Max(s)}])
    <3>1. CASE s = {} BY <3>1, <1>5 DEF Recursion
    <3>2. CASE s # {}
      <4>1. Max(s) \in S /\ s \ {Max(s)} \in SUBSET S BY <1>2, <3>2 DEF PicksGreatest
      <4>2. F[s] = G[<<Max(s), F[s \ {Max(s)}]>>] BY <1>5, <3>2 DEF Recursion
      <4> QED BY <3>2, <4>1, <4>2
    <3> QED BY <3>1, <3>2
  <2> HIDE DEF S
  <2> QED BY <2>1
<1>7. iter = Step(iter)
  <2> HIDE DEF Step
  <2> QED BY <1>6
<1>8. TypedRecursion(iter, S, Int, 0, c, G)
  <2> HIDE DEF iter
  <2>1. {} \in SUBSET S OBVIOUS
  <2>2. iter[{}] = 0
    <3> HIDE DEF S
    <3> QED BY <1>7, <2>1
  <2>3. ASSUME NEW s \in SUBSET S, s # {}, iter[s \ {c[s]}] \in Int
        PROVE  iter[s] = G[<<c[s], iter[s \ {c[s]}]>>]
    <3>1. c[s] = Max(s) OBVIOUS
    <3>2. c[s] \in S BY <1>2, <2>3 DEF PicksGreatest
    <3>3. G[<<c[s], iter[s \ {c[s]}]>>] = Add(c[s], iter[s \ {c[s]}])
      <4> HIDE DEF S, c
      <4> QED BY <2>3, <3>2
    <3>4. iter[s] = Add(Max(s), iter[s \ {Max(s)}])
      <4> HIDE DEF S
      <4> QED BY <1>7, <2>3
    <3> QED BY <3>1, <3>3, <3>4
  <2> HIDE DEF c, G, S
  <2> QED BY <2>2, <2>3 DEF TypedRecursion
<1> HIDE DEF iter, c, G, Step
<1>9. PICK R \in [0 .. w -> Int] :
        /\ R[0] = 0
        /\ \A k \in 1 .. w : R[k] = G[<<k, R[k - 1]>>]
        /\ iter[1 .. w] = R[w]
  <2> DEFINE V == Int
             base == 0
  <2>1. base \in V /\ Adds(G, 1 .. w, V) /\ TypedRecursion(iter, 1 .. w, V, base, c, G)
    BY <1>0, <1>4, <1>8
  <2> HIDE DEF V, base
  <2>2. \E R \in [0 .. w -> V] :
          /\ R[0] = base
          /\ \A k \in 1 .. w : R[k] = G[<<k, R[k - 1]>>]
          /\ iter[1 .. w] = R[w]
    BY <1>0, <1>2, <2>1, LeftFold
  <2> QED BY <2>2 DEF V, base
<1>10. ASSUME NEW k \in 1 .. w PROVE R[k] = R[k - 1] + bs[k] * Bytes(k - 1)
  <2>1. R[k - 1] \in Int OBVIOUS
  <2>2. R[k] = Add(k, R[k - 1]) BY <1>9, <2>1 DEF G
  <2> QED BY <1>3, <2>1, <2>2
<1> QED BY <1>1, <1>9, <1>10

(* ... and is the number that they are the bytes of.                       *)
LEMMA NumberIs ==
  ASSUME NEW w \in 0 .. 8, NEW n \in 0 .. Bytes(w) - 1
  PROVE  Promise!Number(Digits(n, w)) = n
<1> DEFINE P == [k \in 0 .. 8 |-> Bytes(k)]
           bs == Digits(n, w)
<1>1. /\ Base \in Nat \ {0} /\ PowersOf(P, Base, 8)
      /\ \A k \in 0 .. 8 : P[k] = Bytes(k) /\ Bytes(k) \in Nat \ {0}
  BY BytePowers
<1> HIDE DEF P
<1>2. n \in Nat BY <1>1
<1>3. bs \in [1 .. w -> Nat] /\ \A k \in 1 .. w : bs[k] = (n \div Bytes(k - 1)) % Base
  <2>1. bs \in [1 .. w -> 0 .. Base - 1] BY <1>2, DigitsType
  <2>2. bs \in [1 .. w -> Nat]
    <3>1. 0 .. Base - 1 \subseteq Nat OBVIOUS
    <3> HIDE DEF bs
    <3> QED BY <2>1, <3>1
  <2> QED BY <2>2 DEF Digits
<1>4. PICK R \in [0 .. w -> Int] :
        /\ R[0] = 0 /\ \A k \in 1 .. w : R[k] = R[k - 1] + bs[k] * Bytes(k - 1)
        /\ Promise!Number(bs) = R[w]
  BY <1>3, NumberSteps
<1> HIDE DEF bs
<1> DEFINE T == {k \in Nat : k <= w => R[k] = n % Bytes(k)}
<1>5. 0 \in T
  <2>1. Bytes(0) = 1 BY Widths
  <2>2. 1 \in Nat \ {0} OBVIOUS
  <2>3. n % 1 \in 0 .. 1 - 1 BY <1>2, <2>2, DivMod
  <2> QED BY <1>4, <2>1, <2>3
<1>6. ASSUME NEW k \in T PROVE k + 1 \in T
  <2> SUFFICES ASSUME k + 1 <= w PROVE R[k + 1] = n % Bytes(k + 1) OBVIOUS
  <2>1. /\ k \in 0 .. 7 /\ k \in 0 .. 8 /\ k + 1 \in 0 .. 8
        /\ k + 1 \in 1 .. w /\ (k + 1) - 1 = k
    OBVIOUS
  <2> DEFINE p == Bytes(k)
             d == bs[k + 1]
             q == n \div p
  <2>2. p \in Nat \ {0} BY <1>1, <2>1
  <2>3. Bytes(k + 1) = p * Base
    <3>1. Bytes(k + 1) = Base * p BY <2>1, PowerAssumption
    <3> HIDE DEF p
    <3> QED BY <1>1, <2>2, <3>1
  <2>4. R[k] = n % p BY <2>1
  <2>5. R[k + 1] = R[k] + d * p BY <1>4, <2>1
  <2>6. d = q % Base BY <1>3, <2>1
  <2>7. q \in Nat
    <3> HIDE DEF p
    <3> QED BY <1>2, <2>2, QuotientBelow
  <2> HIDE DEF p, d, q
  <2>8. n % (p * Base) = p * (q % Base) + (n % p) BY <1>1, <1>2, <2>2, DivideTwice DEF q
  <2>9. n % p \in Int /\ q % Base \in Int
    <3>0. n \in Int /\ q \in Int /\ Base \in Nat \ {0} BY <1>1, <1>2, <2>7
    <3>1. n % p \in 0 .. p - 1 BY <2>2, <3>0, DivMod
    <3>2. q % Base \in 0 .. Base - 1 BY <3>0, DivMod
    <3> QED BY <3>0, <2>2, <3>1, <3>2
  <2> DEFINE a == n % p
             e == q % Base
  <2>10. a \in Int /\ e \in Int /\ p \in Int BY <2>2, <2>9
  <2>11. R[k + 1] = a + e * p /\ n % (p * Base) = p * e + a BY <2>4, <2>5, <2>6, <2>8
  <2> HIDE DEF a, e
  <2>12. e * p = p * e /\ e * p \in Int BY <2>10
  <2>13. a + e * p = p * e + a BY <2>10, <2>12
  <2> QED BY <2>3, <2>11, <2>13
<1>7. T = Nat
  <2> HIDE DEF T
  <2>1. T \in SUBSET Nat BY DEF T
  <2> QED BY <1>5, <1>6, <2>1, Induction
<1>8. R[w] = n % Bytes(w) BY <1>7
<1>9. n % Bytes(w) = n BY <1>1, Below
<1> QED BY <1>4, <1>8, <1>9 DEF bs

(* Places that follow one another.                                         *)
RegisterPlaces(r, j, w) == [k \in 1 .. w |-> RegisterPlace(r, (j + k) - 1)]
MemoryPlaces(a, w)      == [k \in 1 .. w |-> MemoryPlace((a + k) - 1)]

Byte(n, k) == (n \div Bytes(k)) % Base

(* A byte or a word put into a register changes just its own bytes.        *)
LEMMA SplicedBytes ==
  ASSUME NEW n \in 0 .. Mask("Dword"), NEW j \in {0, 1}, NEW w \in {1, 2}, j + w <= 2,
         NEW x \in 0 .. Bytes(w) - 1
  PROVE  /\ Spliced(n, j, w, x) \in Nat
         /\ \A k \in 0 .. 3 : Byte(Spliced(n, j, w, x), k) =
              IF k \in j .. j + w - 1 THEN Byte(x, k - j) ELSE Byte(n, k)
<1> DEFINE P == [k \in 0 .. 8 |-> Bytes(k)]
           y == Spliced(n, j, w, x)
           a == Bytes(j)
           b == Bytes(w)
<1>1. /\ Base \in Nat \ {0} /\ PowersOf(P, Base, 8)
      /\ \A k \in 0 .. 8 : P[k] = Bytes(k) /\ Bytes(k) \in Nat \ {0}
  BY BytePowers
<1> HIDE DEF P
<1>2. n \in Nat BY Masks
<1>3. a \in Nat \ {0} /\ b \in Nat \ {0} BY <1>1
<1>4. x \in 0 .. b - 1 OBVIOUS
<1>5. y = (n - ((n \div a) % b) * a) + x * a BY DEF Spliced
<1> HIDE DEF a, b, y
<1>6. y \in Nat /\ y % a = n % a /\ (y \div a) % b = x /\ (y \div a) \div b = (n \div a) \div b
  <2> DEFINE z == (n - ((n \div a) % b) * a) + x * a
  <2>1. /\ z \in Nat /\ z % a = n % a /\ (z \div a) % b = x
        /\ (z \div a) \div b = (n \div a) \div b
        /\ \A t \in Nat : n < (a * b) * t => z < (a * b) * t
    BY <1>2, <1>3, <1>4, Splice, Zenon
  <2> HIDE DEF z
  <2>2. y = z BY <1>5 DEF z
  <2> QED BY <2>1, <2>2
<1>7. P[j] = a /\ P[w] = b /\ j \in 0 .. 8 /\ w \in 0 .. 8 - j BY <1>1 DEF a, b
<1>8. HasSplicedDigits(y, n, Base, P, 8, j, w)
  <2>1. 8 \in Nat OBVIOUS
  <2>2. y % P[j] = n % P[j] /\ (y \div P[j]) \div P[w] = (n \div P[j]) \div P[w]
    BY <1>6, <1>7
  <2>3. w \in 0 .. 8 - j /\ j \in 0 .. 8 BY <1>7
  <2> QED BY <1>1, <1>2, <1>6, <2>1, <2>2, <2>3, SplicedDigits, Zenon
<1>9. ASSUME NEW k \in 0 .. 3
      PROVE  Byte(y, k) = IF k \in j .. j + w - 1 THEN Byte(x, k - j) ELSE Byte(n, k)
  <2>1. k \in 0 .. 8 - 1 /\ k \in 0 .. 8 /\ P[k] = Bytes(k) BY <1>1
  <2>2. CASE k \in j .. j + w - 1
    <3>1. k - j \in 0 .. 8 /\ P[k - j] = Bytes(k - j) BY <1>1, <2>2
    <3>2. (y \div P[k]) % Base = (x \div P[k - j]) % Base BY <1>6, <1>7, <1>8, <2>1, <2>2
          DEF HasSplicedDigits
    <3> QED BY <2>1, <2>2, <3>1, <3>2 DEF Byte
  <2>3. CASE k \notin j .. j + w - 1
    BY <1>8, <2>1, <2>3 DEF Byte, HasSplicedDigits
  <2> QED BY <2>2, <2>3
<1> QED BY <1>6, <1>9 DEF y

(* A register with another number, some of whose bytes are those of x.     *)
LEMMA RegisterPuts ==
  ASSUME NEW m \in Machines, NEW r \in Registers, NEW j \in 0 .. 3, NEW w \in 1 .. 4 - j,
         NEW x, NEW y,
         \A k \in 0 .. 3 : Byte(y, k) =
           IF k \in j .. j + w - 1 THEN Byte(x, k - j) ELSE Byte(m.regs[r], k)
  PROVE  Puts(m, [m EXCEPT !.regs[r] = y], RegisterPlaces(r, j, w), Digits(x, w))
<1> DEFINE n == [m EXCEPT !.regs[r] = y]
           ps == RegisterPlaces(r, j, w)
<1>1. /\ n.regs[r] = y /\ n.mem = m.mem
      /\ \A s \in Registers : s # r => n.regs[s] = m.regs[s]
  BY DEF Machines
<1> HIDE DEF n
<1>2. ASSUME NEW k \in 1 .. w PROVE View(n)[ps[k]] = Digits(x, w)[k]
  <2> DEFINE i == (j + k) - 1
  <2>1. i \in 0 .. 3 /\ i \in j .. j + w - 1 /\ i - j = k - 1 OBVIOUS
  <2>2. ps[k] = RegisterPlace(r, i) BY DEF RegisterPlaces
  <2> HIDE DEF i, ps
  <2>3. View(n)[ps[k]] = Byte(y, i)
    <3>1. View(n)[RegisterPlace(r, i)] = (n.regs[r] \div Bytes(i)) % Base BY <2>1, PlaceIs
    <3> QED BY <1>1, <2>2, <3>1 DEF Byte
  <2>4. Byte(y, i) = Byte(x, k - 1) BY <2>1
  <2> QED BY <2>3, <2>4 DEF Digits, Byte
<1>3. ASSUME NEW p \in Places, \A k \in 1 .. w : ps[k] # p PROVE View(n)[p] = View(m)[p]
  <2>1. CASE \E a \in Mapped : p = MemoryPlace(a)
    <3>1. PICK a \in Mapped : p = MemoryPlace(a) BY <2>1
    <3>2. View(n)[p] = n.mem[a] /\ View(m)[p] = m.mem[a] BY <3>1, PlaceIs
    <3> QED BY <1>1, <3>2
  <2>2. CASE \E s \in Registers, i \in 0 .. 3 : p = RegisterPlace(s, i)
    <3>1. PICK s \in Registers, i \in 0 .. 3 : p = RegisterPlace(s, i) BY <2>2
    <3>2. View(n)[p] = Byte(n.regs[s], i) /\ View(m)[p] = Byte(m.regs[s], i)
      BY <3>1, PlaceIs DEF Byte
    <3>3. CASE s # r BY <1>1, <3>2, <3>3
    <3>4. CASE s = r
      <4>1. i \notin j .. j + w - 1
        <5> SUFFICES ASSUME i \in j .. j + w - 1 PROVE FALSE OBVIOUS
        <5>1. (i - j) + 1 \in 1 .. w /\ (j + ((i - j) + 1)) - 1 = i OBVIOUS
        <5>2. ps[(i - j) + 1] = RegisterPlace(r, i) BY <5>1 DEF RegisterPlaces
        <5> HIDE DEF ps
        <5> QED BY <1>3, <3>1, <3>4, <5>1, <5>2
      <4> QED BY <1>1, <3>2, <3>4, <4>1
    <3> QED BY <3>3, <3>4
  <2> QED BY <2>1, <2>2, PlaceIs
<1>4. DOMAIN ps = 1 .. w BY DEF RegisterPlaces
<1> HIDE DEF ps
<1> QED BY <1>2, <1>3, <1>4 DEF Puts, n, ps

(* The register that an operand is in, and where.                          *)
Holder(l) == IF l.size = "Byte" THEN l.reg % 4 ELSE l.reg
Offset(l) == IF l.size = "Byte" THEN l.reg \div 4 ELSE 0

(* A register operand is a row of bytes in one register.                   *)
LEMMA RegisterOperand ==
  ASSUME NEW l, IsArgument(l), l.kind = "RegisterValue"
  PROVE  /\ Holder(l) \in Registers /\ Offset(l) \in {0, 1}
         /\ Width(l.size) \in 1 .. 4 - Offset(l)
         /\ l.reg < 4 => Holder(l) = l.reg /\ Offset(l) = 0
         /\ l.reg >= 4 /\ l.size = "Byte" => Holder(l) = l.reg - 4 /\ Offset(l) = 1
         /\ l.size # "Byte" => Holder(l) = l.reg /\ Offset(l) = 0
         /\ Promise!PlacesOf(l) = RegisterPlaces(Holder(l), Offset(l), Width(l.size))
<1>1. l.reg \in 0 .. 7 /\ l.size \in {"Byte", "Word", "Dword"} BY DEF IsArgument, Registers
<1>2. /\ l.reg < 4 => l.reg % 4 = l.reg /\ l.reg \div 4 = 0
      /\ l.reg >= 4 => l.reg % 4 = l.reg - 4 /\ l.reg \div 4 = 1
  BY <1>1
<1>3. ~Promise!InMemory(l) /\ Promise!InRegister(l)
  BY DEF Promise!InMemory, Promise!InRegister
<1>4. CASE l.size = "Byte"
  <2>1. Promise!PlacesOf(l) = << <<"register", l.reg % 4, l.reg \div 4>> >>
    BY <1>3, <1>4 DEF Promise!PlacesOf
  <2>2. Width(l.size) = 1 BY <1>4 DEF Width
  <2>3. (Offset(l) + 1) - 1 = l.reg \div 4 BY <1>1, <1>2, <1>4 DEF Offset
  <2>4. RegisterPlaces(Holder(l), Offset(l), 1) = << <<"register", l.reg % 4, l.reg \div 4>> >>
    <3> DEFINE p == RegisterPlace(Holder(l), (Offset(l) + 1) - 1)
    <3>1. p = <<"register", l.reg % 4, l.reg \div 4>> BY <1>4, <2>3 DEF RegisterPlace, Holder
    <3>2. RegisterPlaces(Holder(l), Offset(l), 1) = <<p>> BY DEF RegisterPlaces
    <3> QED BY <3>1, <3>2
  <2> QED BY <1>1, <1>2, <1>4, <2>1, <2>2, <2>4 DEF Holder, Offset, Registers
<1>5. CASE l.size \in {"Word", "Dword"}
  <2> DEFINE w == Width(l.size)
  <2>1. Promise!WidthOf(l.size) = w /\ w \in {2, 4} BY <1>5 DEF Width, Promise!WidthOf
  <2>2. Holder(l) = l.reg /\ Offset(l) = 0 BY <1>5 DEF Holder, Offset
  <2>3. Promise!PlacesOf(l) = Promise!Register(l.reg, w)
    BY <1>3, <1>5, <2>1 DEF Promise!PlacesOf
  <2> HIDE DEF w
  <2>4. Promise!Register(l.reg, w) = RegisterPlaces(l.reg, 0, w)
    BY <2>1 DEF Promise!Register, RegisterPlaces, RegisterPlace
  <2> QED BY <1>1, <1>2, <1>5, <2>1, <2>2, <2>3, <2>4 DEF Registers, w
<1> QED BY <1>1, <1>4, <1>5

(* A byte is its own lowest byte.                                          *)
LEMMA ByteOfByte ==
  ASSUME NEW n \in 0 .. Base - 1
  PROVE  Byte(n, 0) = n
<1>1. Base \in Nat \ {0} /\ Bytes(0) = 1 BY Widths
<1>2. n \in Nat BY <1>1
<1>3. n \div 1 = n /\ n % Base = n
  <2>1. n \div 1 = n BY <1>2
  <2> QED BY <1>1, <2>1, Below
<1> QED BY <1>1, <1>3 DEF Byte

(* What is read from a register is the bytes at its places.                *)
LEMMA GetRegReads ==
  ASSUME NEW m \in Machines, NEW l, IsArgument(l), l.kind = "RegisterValue"
  PROVE  \A k \in 0 .. Width(l.size) - 1 :
           Byte(GetReg(m, l.reg, l.size).n, k) = Byte(m.regs[Holder(l)], Offset(l) + k)
<1> SUFFICES ASSUME NEW k \in 0 .. Width(l.size) - 1
             PROVE  Byte(GetReg(m, l.reg, l.size).n, k)
                      = Byte(m.regs[Holder(l)], Offset(l) + k)
  OBVIOUS
<1> DEFINE n == m.regs[Holder(l)]
           g == GetReg(m, l.reg, l.size).n
<1>1. /\ Holder(l) \in Registers /\ Offset(l) \in {0, 1}
      /\ l.reg < 4 => Holder(l) = l.reg /\ Offset(l) = 0
      /\ l.reg >= 4 /\ l.size = "Byte" => Holder(l) = l.reg - 4 /\ Offset(l) = 1
      /\ l.size # "Byte" => Holder(l) = l.reg /\ Offset(l) = 0
  BY RegisterOperand
<1>2. n \in Nat
  <2>1. n \in 0 .. Mask("Dword") BY <1>1 DEF Machines
  <2> QED BY <2>1, Masks
<1>3. Base \in Nat \ {0} /\ Bytes(0) = 1 /\ Bytes(1) = Base BY Widths
<1>4. l.reg \in 0 .. 7 BY DEF IsArgument, Registers
<1>5. CASE l.size = "Byte"
  <2>1. k = 0 BY <1>5 DEF Width
  <2>2. g = (IF l.reg < 4 THEN m.regs[l.reg] ELSE m.regs[l.reg - 4] \div Base) % Base
    BY <1>5 DEF GetReg, Sized
  <2>3. g = Byte(n, Offset(l))
    <3>1. CASE l.reg < 4
      <4>1. n \div 1 = n BY <1>2
      <4> QED BY <1>1, <1>3, <2>2, <3>1, <4>1 DEF Byte
    <3>2. CASE l.reg >= 4
      <4>1. ~(l.reg < 4) BY <1>4, <3>2
      <4> QED BY <1>1, <1>3, <1>5, <2>2, <3>2, <4>1 DEF Byte
    <3> QED BY <1>4, <3>1, <3>2
  <2>4. Byte(n, Offset(l)) \in 0 .. Base - 1
    <3>1. Offset(l) \in 0 .. 8 BY <1>1
    <3> HIDE DEF n
    <3> QED BY <1>2, <3>1, ByteIs DEF Byte
  <2>5. Byte(g, 0) = g
    <3> HIDE DEF g, n
    <3> QED BY <2>3, <2>4, ByteOfByte
  <2>6. Offset(l) + 0 = Offset(l) BY <1>1
  <2> QED BY <2>1, <2>3, <2>5, <2>6
<1>6. CASE l.size = "Word"
  <2> DEFINE P == [i \in 0 .. 8 |-> Bytes(i)]
  <2>1. PowersOf(P, Base, 8) /\ \A i \in 0 .. 8 : P[i] = Bytes(i) BY BytePowers
  <2> HIDE DEF P
  <2>2. g = n % Bytes(2) BY <1>1, <1>6 DEF GetReg, Sized
  <2>3. k \in 0 .. 2 - 1 /\ Offset(l) + k = k BY <1>1, <1>6 DEF Width
  <2>4. ((n % P[2]) \div P[k]) % Base = (n \div P[k]) % Base
    <3>1. 2 \in 0 .. 8 /\ 8 \in Nat OBVIOUS
    <3> HIDE DEF n
    <3> QED BY <1>2, <1>3, <2>1, <2>3, <3>1, DigitsOfRemainder
  <2>5. P[2] = Bytes(2) /\ P[k] = Bytes(k) BY <2>1, <2>3
  <2> QED BY <2>2, <2>3, <2>4, <2>5 DEF Byte
<1>7. CASE l.size = "Dword"
  <2>1. g = n BY <1>1, <1>7 DEF GetReg, Sized
  <2>2. Offset(l) + k = k BY <1>1, <1>7 DEF Width
  <2> QED BY <2>1, <2>2
<1> QED BY <1>5, <1>6, <1>7 DEF IsArgument

(* What is written to a register goes to its places.                       *)
LEMMA SetRegPuts ==
  ASSUME NEW m \in Machines, NEW l, IsArgument(l), l.kind = "RegisterValue",
         NEW v, IsNumberOf(v, l.size)
  PROVE  /\ Puts(m, SetReg(m, l.reg, v), Promise!PlacesOf(l), Digits(v.n, Width(l.size)))
         /\ SetReg(m, l.reg, v).flags = m.flags /\ SetReg(m, l.reg, v).mem = m.mem
         /\ SetReg(m, l.reg, v).result = m.result
<1> DEFINE r == Holder(l)
           j == Offset(l)
           w == Width(l.size)
           old == m.regs[r]
           y == IF l.size = "Dword" THEN v.n ELSE Spliced(old, j, w, v.n)
<1>1. /\ r \in Registers /\ j \in {0, 1} /\ w \in 1 .. 4 - j
      /\ l.reg < 4 => r = l.reg /\ j = 0
      /\ l.reg >= 4 /\ l.size = "Byte" => r = l.reg - 4 /\ j = 1
      /\ l.size # "Byte" => r = l.reg /\ j = 0
      /\ Promise!PlacesOf(l) = RegisterPlaces(r, j, w)
  BY RegisterOperand
<1>2. l.reg \in 0 .. 7 /\ l.size \in {"Byte", "Word", "Dword"} BY DEF IsArgument, Registers
<1>3. v.size = l.size /\ v.n \in 0 .. Mask(l.size) BY DEF IsNumberOf
<1>4. old \in 0 .. Mask("Dword") BY <1>1 DEF Machines
<1>5. SetReg(m, l.reg, v) = [m EXCEPT !.regs[r] = y]
  <2>1. CASE l.size = "Byte" /\ l.reg < 4
    <3>1. w = 1 /\ r = l.reg /\ j = 0 BY <1>1, <2>1 DEF Width
    <3>2. y = Spliced(m.regs[l.reg], 0, 1, v.n) BY <2>1, <3>1
    <3>3. ~(l.reg >= 4) BY <1>2, <2>1
    <3> HIDE DEF r, j, w, y
    <3> QED BY <1>3, <2>1, <3>1, <3>2, <3>3 DEF SetReg
  <2>2. CASE l.size = "Byte" /\ l.reg >= 4
    <3>1. w = 1 /\ r = l.reg - 4 /\ j = 1 BY <1>1, <2>2 DEF Width
    <3>2. ~(l.reg < 4) BY <1>2, <2>2
    <3> HIDE DEF r, j, w
    <3> QED BY <1>3, <2>2, <3>1, <3>2 DEF SetReg
  <2>3. CASE l.size = "Word"
    <3>1. w = 2 /\ r = l.reg /\ j = 0 BY <1>1, <2>3 DEF Width
    <3> HIDE DEF r, j, w
    <3> QED BY <1>3, <2>3, <3>1 DEF SetReg
  <2>4. CASE l.size = "Dword"
    <3>1. r = l.reg BY <1>1, <2>4
    <3> HIDE DEF r, j, w
    <3> QED BY <1>3, <2>4, <3>1 DEF SetReg
  <2> QED BY <1>2, <2>1, <2>2, <2>3, <2>4
<1>6. \A k \in 0 .. 3 : Byte(y, k) = IF k \in j .. j + w - 1 THEN Byte(v.n, k - j)
                                     ELSE Byte(old, k)
  <2>1. CASE l.size = "Dword"
    <3>1. w = 4 /\ j = 0 /\ y = v.n BY <1>1, <2>1 DEF Width
    <3> HIDE DEF r, j, w, y
    <3> QED BY <3>1
  <2>2. CASE l.size # "Dword"
    <3>1. w \in {1, 2} /\ j + w <= 2
      <4>1. CASE l.size = "Byte" BY <1>1, <4>1 DEF Width
      <4>2. CASE l.size = "Word" BY <1>1, <4>2 DEF Width
      <4> QED BY <1>2, <2>2, <4>1, <4>2
    <3>2. v.n \in 0 .. Bytes(w) - 1 BY <1>3 DEF Mask
    <3>3. y = Spliced(old, j, w, v.n) BY <2>2
    <3> HIDE DEF r, j, w, y, old
    <3> QED BY <1>1, <1>4, <3>1, <3>2, <3>3, SplicedBytes
  <2> QED BY <2>1, <2>2
<1> HIDE DEF r, j, w, y
<1>7. Puts(m, [m EXCEPT !.regs[r] = y], RegisterPlaces(r, j, w), Digits(v.n, w))
  <2>1. j \in 0 .. 3 BY <1>1
  <2> QED BY <1>1, <1>6, <2>1, RegisterPuts
<1> QED BY <1>1, <1>5, <1>7 DEF w, Machines

(* Places in memory are accessible within a section; registers always are. *)
LEMMA MemoryAccess ==
  ASSUME NEW a \in Int, NEW w \in 1 .. 8
  PROVE  /\ Promise!Memory(a, w) = MemoryPlaces(a, w)
         /\ Promise!InMemoryOf(MemoryPlaces(a, w)) = Cells(a, w)
         /\ Promise!Accessible(MemoryPlaces(a, w)) <=> Available(a, w)
         /\ Promise!Writeable(MemoryPlaces(a, w)) <=> Available(a, w) /\ a >= WriteableMemory
         /\ MemoryPlaces(a, w) # <<>>
<1> DEFINE ps == MemoryPlaces(a, w)
<1>1. Promise!Memory(a, w) = ps
  BY DEF Promise!Memory, MemoryPlaces, MemoryPlace
<1>2. DOMAIN ps = 1 .. w BY DEF MemoryPlaces
<1>3. \A k \in 1 .. w : ps[k][1] = "memory" /\ ps[k][2] = (a + k) - 1
  BY DEF MemoryPlaces, MemoryPlace
<1> HIDE DEF ps
<1>4. Promise!InMemoryOf(ps) = Cells(a, w)
  <2>1. \A k \in 1 .. w : ps[k][2] \in Cells(a, w) BY <1>3 DEF Cells
  <2>2. ASSUME NEW c \in Cells(a, w)
        PROVE  \E k \in { k \in DOMAIN ps : ps[k][1] = "memory" } : ps[k][2] = c
    <3>1. (c - a) + 1 \in 1 .. w /\ (a + ((c - a) + 1)) - 1 = c BY DEF Cells
    <3> QED BY <1>2, <1>3, <3>1
  <2> QED BY <1>2, <2>1, <2>2 DEF Promise!InMemoryOf
<1>5. a \in Cells(a, w) BY DEF Cells
<1>6. Promise!Accessible(ps) <=> Available(a, w)
  BY <1>4, <1>5 DEF Promise!Accessible, Available
<1>7. (\A c \in Cells(a, w) : c >= WriteableMemory) <=> a >= WriteableMemory
  <2>1. WriteableMemory \in Int BY OperandsAssumption
  <2> QED BY <1>5, <2>1 DEF Cells
<1>8. Promise!Writeable(ps) <=> Available(a, w) /\ a >= WriteableMemory
  BY <1>4, <1>6, <1>7 DEF Promise!Writeable
<1>9. ps # <<>>
  <2>1. 1 \in DOMAIN ps BY <1>2
  <2> QED BY <2>1
<1> QED BY <1>1, <1>4, <1>6, <1>8, <1>9 DEF ps

(* Places in a register are always accessible.                             *)
LEMMA RegisterAccess ==
  ASSUME NEW r, NEW j \in Nat, NEW w \in 1 .. 8
  PROVE  /\ Promise!InMemoryOf(RegisterPlaces(r, j, w)) = {}
         /\ Promise!Accessible(RegisterPlaces(r, j, w))
         /\ Promise!Writeable(RegisterPlaces(r, j, w))
         /\ RegisterPlaces(r, j, w) # <<>>
<1> DEFINE ps == RegisterPlaces(r, j, w)
<1>1. DOMAIN ps = 1 .. w /\ \A k \in 1 .. w : ps[k][1] = "register"
  BY DEF RegisterPlaces, RegisterPlace
<1> HIDE DEF ps
<1>2. "register" # "memory" OBVIOUS
<1>3. Promise!InMemoryOf(ps) = {} BY <1>1, <1>2 DEF Promise!InMemoryOf
<1>4. Promise!Accessible(ps) BY <1>3 DEF Promise!Accessible
<1>5. Promise!Writeable(ps) BY <1>3, <1>4 DEF Promise!Writeable
<1>6. ps # <<>>
  <2>1. 1 \in DOMAIN ps BY <1>1
  <2> QED BY <2>1
<1> QED BY <1>3, <1>4, <1>5, <1>6 DEF ps

(* The bytes at places, as far as they are there.                          *)
LEMMA AtRegister ==
  ASSUME NEW r \in Registers, NEW j \in 0 .. 3, NEW w \in 1 .. 4 - j
  PROVE  Promise!At(RegisterPlaces(r, j, w)) = [k \in 1 .. w |-> Byte(regs[r], (j + k) - 1)]
<1> DEFINE ps == RegisterPlaces(r, j, w)
<1>1. ASSUME NEW k \in 1 .. w PROVE View(Now)[ps[k]] = Byte(regs[r], (j + k) - 1)
  <2>1. (j + k) - 1 \in 0 .. 3 OBVIOUS
  <2>2. ps[k] = RegisterPlace(r, (j + k) - 1) BY DEF RegisterPlaces
  <2>3. Now.regs = regs BY DEF Now
  <2> DEFINE i == (j + k) - 1
  <2>4. i \in 0 .. 3 /\ ps[k] = RegisterPlace(r, i) BY <2>1, <2>2
  <2> HIDE DEF ps, i
  <2>5. View(Now)[RegisterPlace(r, i)] = (Now.regs[r] \div Bytes(i)) % Base BY <2>4, PlaceIs
  <2>6. View(Now)[ps[k]] = Byte(regs[r], i) BY <2>3, <2>4, <2>5 DEF Byte
  <2> QED BY <2>6 DEF i
<1>2. DOMAIN ps = 1 .. w BY DEF RegisterPlaces
<1>3. Promise!At(ps) = [k \in DOMAIN ps |-> View(Now)[ps[k]]] BY AtIs
<1> HIDE DEF ps
<1> QED BY <1>1, <1>2, <1>3 DEF ps

(* The bytes of memory that a row of places holds.                         *)
LEMMA AtMemory ==
  ASSUME NEW a \in Int, NEW w \in 1 .. 8, Available(a, w)
  PROVE  Promise!At(MemoryPlaces(a, w)) = [k \in 1 .. w |-> mem[(a + k) - 1]]
<1> DEFINE ps == MemoryPlaces(a, w)
<1>1. ASSUME NEW k \in 1 .. w PROVE View(Now)[ps[k]] = mem[(a + k) - 1]
  <2>1. (a + k) - 1 \in Mapped
    <3>1. k - 1 \in 0 .. w - 1 /\ a + (k - 1) = (a + k) - 1 OBVIOUS
    <3> QED BY <3>1, AvailableMapped
  <2>2. ps[k] = MemoryPlace((a + k) - 1) BY DEF MemoryPlaces
  <2>3. Now.mem = mem BY DEF Now
  <2> HIDE DEF ps
  <2> QED BY <2>1, <2>2, <2>3, PlaceIs
<1>2. DOMAIN ps = 1 .. w BY DEF MemoryPlaces
<1>3. Promise!At(ps) = [k \in DOMAIN ps |-> View(Now)[ps[k]]] BY AtIs
<1> HIDE DEF ps
<1> QED BY <1>1, <1>2, <1>3 DEF ps

(* All four bytes of a register are its number.                            *)
LEMMA WholeRegister ==
  ASSUME Now \in Machines, NEW r \in Registers
  PROVE  /\ regs[r] \in 0 .. Bytes(4) - 1
         /\ \A w \in 1 .. 4 : /\ Promise!Register(r, w) = RegisterPlaces(r, 0, w)
                              /\ Promise!At(Promise!Register(r, w)) = Digits(regs[r], w)
         /\ Promise!Number(Promise!At(Promise!Register(r, 4))) = regs[r]
<1>1. regs[r] \in 0 .. Bytes(4) - 1
  <2>1. Now.regs = regs BY DEF Now
  <2> QED BY <2>1, Masks DEF Machines
<1>2. ASSUME NEW w \in 1 .. 4
      PROVE  /\ Promise!Register(r, w) = RegisterPlaces(r, 0, w)
             /\ Promise!At(Promise!Register(r, w)) = Digits(regs[r], w)
  <2>1. Promise!Register(r, w) = RegisterPlaces(r, 0, w)
    BY DEF Promise!Register, RegisterPlaces, RegisterPlace
  <2>2. 0 \in 0 .. 3 /\ w \in 1 .. 4 - 0 OBVIOUS
  <2>3. Promise!At(RegisterPlaces(r, 0, w)) = [k \in 1 .. w |-> Byte(regs[r], (0 + k) - 1)]
    BY <2>2, AtRegister
  <2>4. \A k \in 1 .. w : (0 + k) - 1 = k - 1 OBVIOUS
  <2> QED BY <2>1, <2>3, <2>4 DEF Digits, Byte
<1>3. Promise!Number(Digits(regs[r], 4)) = regs[r]
  <2>1. 4 \in 0 .. 8 OBVIOUS
  <2> QED BY <1>1, <2>1, NumberIs
<1> QED BY <1>1, <1>2, <1>3

(* The promise adds up a register of an address from its bytes.            *)
LEMMA ContentIs ==
  ASSUME Now \in Machines, NEW r \in Registers \union {Absent}
  PROVE  Promise!Content(r) = Part(Now, r)
<1>1. Now.regs = regs BY DEF Now
<1>2. r = -1 <=> r = Absent BY DEF Absent
<1>3. CASE r = Absent BY <1>2, <1>3 DEF Promise!Content, Part
<1>4. CASE r \in Registers /\ r # Absent
  BY <1>1, <1>2, <1>4, WholeRegister DEF Promise!Content, Part
<1> QED BY <1>3, <1>4

(* Promise and calculate_modrm_address find the same address.              *)
LEMMA AddressIs ==
  ASSUME Now \in Machines, NEW l, IsArgument(l), l.kind \in Addresses
  PROVE  Promise!Address(l) = AddressOf(Now, l)
<1> DEFINE B == Bytes(4)
<1>1. Promise!Values ^ 4 = B BY DEF Promise!Values, Bytes, Base
<1>2. B \in Nat \ {0} BY Widths
<1>3. Mask("Dword") = B - 1 BY Masks
<1> HIDE DEF B
<1>4. CASE l.kind = "Address"
  <2>1. l.addr \in 0 .. B - 1 BY <1>3, <1>4 DEF IsArgument
  <2>2. l.addr % B = l.addr BY <1>2, <2>1, Below
  <2> QED BY <1>1, <1>4, <2>2 DEF Promise!Address, AddressOf
<1>5. CASE l.kind = "RegisterAddress"
  <2>1. l.reg \in Registers /\ l.reg # Absent BY <1>5 DEF IsArgument, Registers, Absent
  <2>2. Promise!Content(l.reg) = regs[l.reg] BY <2>1, ContentIs DEF Part, Now
  <2>3. regs[l.reg] \in 0 .. B - 1 BY <2>1, WholeRegister DEF B
  <2>4. regs[l.reg] % B = regs[l.reg] BY <1>2, <2>3, Below
  <2>5. Now.regs = regs BY DEF Now
  <2> QED BY <1>1, <1>5, <2>2, <2>4, <2>5 DEF Promise!Address, AddressOf
<1>6. CASE l.kind = "ModRMAddress"
  <2>1. Promise!Content(l.reg) = Part(Now, l.reg) BY <1>6, ContentIs DEF IsArgument
  <2> QED BY <1>1, <1>6, <2>1 DEF Promise!Address, AddressOf, B
<1>7. CASE l.kind = "SIBAddress"
  <2>1. /\ l.base \in Registers \union {Absent} /\ l.index \in Registers \union {Absent}
        /\ l.scale \in Nat /\ l.offset \in Nat
    BY <1>7 DEF IsArgument
  <2>2. Promise!Content(l.base) = Part(Now, l.base) BY <2>1, ContentIs
  <2>3. Promise!Content(l.index) = Part(Now, l.index) BY <2>1, ContentIs
  <2> DEFINE b == Part(Now, l.base)
             x == Part(Now, l.index)
             s == l.scale
             o == l.offset
  <2>4. b \in Nat /\ x \in Nat /\ s \in Nat /\ o \in Nat BY <2>1, PartTyped
  <2>5. Promise!Address(l) = (o + b + s * x) % B
    BY <1>1, <1>7, <2>2, <2>3 DEF Promise!Address
  <2>6. AddressOf(Now, l) = (b + x * s + o) % B BY <1>7 DEF AddressOf, B
  <2> HIDE DEF b, x, s, o
  <2>7. x * s = s * x /\ s * x \in Int BY <2>4
  <2>8. o + b + s * x = b + x * s + o BY <2>4, <2>7
  <2> QED BY <2>5, <2>6, <2>8
<1> QED BY <1>4, <1>5, <1>6, <1>7 DEF Addresses

(* An operand as get_arg and the promise see it.                           *)
CanRead(l) == l.kind \in Addresses => Promise!Accessible(Promise!PlacesOf(l))
CanWrite(l) == Promise!Writeable(Promise!PlacesOf(l))

IsPlace(l) == IsArgument(l) /\ l.kind # "Immediate"

(* An operand's places, and when they can be read and written.             *)
LEMMA OperandIs ==
  ASSUME Now \in Machines, NEW l, IsArgument(l)
  PROVE  /\ Promise!InMemory(l) <=> l.kind \in Addresses
         /\ Promise!WidthOf(l.size) = Width(l.size) /\ Width(l.size) \in {1, 2, 4}
         /\ l.kind \in Addresses =>
              /\ AddressOf(Now, l) \in Int
              /\ Promise!PlacesOf(l) = MemoryPlaces(AddressOf(Now, l), Width(l.size))
              /\ CanRead(l) <=> Available(AddressOf(Now, l), Width(l.size))
              /\ CanWrite(l) <=> /\ Available(AddressOf(Now, l), Width(l.size))
                                 /\ AddressOf(Now, l) >= WriteableMemory
         /\ l.kind = "RegisterValue" => CanRead(l) /\ CanWrite(l)
         /\ l.kind = "Immediate" => CanRead(l)
         /\ l.kind # "Immediate" =>
              /\ DOMAIN Promise!PlacesOf(l) = 1 .. Width(l.size)
              /\ Len(Promise!PlacesOf(l)) = Width(l.size) /\ Promise!PlacesOf(l) # <<>>
<1> DEFINE w == Width(l.size)
           a == AddressOf(Now, l)
           ps == Promise!PlacesOf(l)
<1>1. Promise!InMemory(l) <=> l.kind \in Addresses
  BY DEF Promise!InMemory, IsArgument, Addresses
<1>2. Promise!WidthOf(l.size) = w /\ w \in {1, 2, 4}
  BY DEF IsArgument, Width, Promise!WidthOf
<1>3. w \in 1 .. 8 /\ w \in Nat BY <1>2
<1>4. ASSUME l.kind \in Addresses
      PROVE  /\ a \in Int /\ ps = MemoryPlaces(a, w)
             /\ CanRead(l) <=> Available(a, w)
             /\ CanWrite(l) <=> Available(a, w) /\ a >= WriteableMemory
  <2>1. a \in Int BY <1>4, AddressTyped
  <2>0. Promise!Address(l) = a BY <1>4, AddressIs
  <2>2. ps = Promise!Memory(a, w)
    <3>1. Promise!InMemory(l) /\ ~Promise!InRegister(l)
      BY <1>1, <1>4 DEF Promise!InRegister, Addresses
    <3>2. ps = Promise!Memory(Promise!Address(l), Promise!WidthOf(l.size))
      BY <3>1 DEF Promise!PlacesOf
    <3> HIDE DEF a, w, ps
    <3> QED BY <1>2, <2>0, <3>2
  <2> HIDE DEF a, w, ps
  <2>3. ps = MemoryPlaces(a, w) BY <1>3, <2>1, <2>2, MemoryAccess
  <2>4. CanRead(l) <=> Available(a, w) BY <1>3, <1>4, <2>1, <2>3, MemoryAccess DEF CanRead, ps
  <2>5. CanWrite(l) <=> Available(a, w) /\ a >= WriteableMemory
    BY <1>3, <2>1, <2>3, MemoryAccess DEF CanWrite, ps
  <2> QED BY <2>1, <2>3, <2>4, <2>5
<1>5. ASSUME l.kind = "RegisterValue"
      PROVE  /\ CanRead(l) /\ CanWrite(l)
             /\ ps = RegisterPlaces(Holder(l), Offset(l), w)
  <2>1. /\ Holder(l) \in Registers /\ Offset(l) \in {0, 1}
        /\ ps = RegisterPlaces(Holder(l), Offset(l), w)
    BY <1>5, RegisterOperand
  <2>2. Offset(l) \in Nat BY <2>1
  <2>3. CanRead(l) BY <1>5 DEF CanRead, Addresses
  <2> HIDE DEF w, ps
  <2>4. Promise!Writeable(ps) BY <1>3, <2>1, <2>2, RegisterAccess
  <2> QED BY <2>1, <2>3, <2>4 DEF CanWrite, ps
<1>6. l.kind = "Immediate" => CanRead(l) BY DEF CanRead, Addresses
<1>7. ASSUME l.kind # "Immediate" PROVE DOMAIN ps = 1 .. w /\ Len(ps) = w /\ ps # <<>>
  <2>1. l.kind \in Addresses \/ l.kind = "RegisterValue" BY <1>7 DEF IsArgument
  <2> HIDE DEF ps, a, w
  <2>2. \E g : ps = [k \in 1 .. w |-> g[k]]
    <3>1. CASE l.kind \in Addresses
      <4> DEFINE g == [k \in 1 .. w |-> MemoryPlace((a + k) - 1)]
      <4>1. ps = g BY <1>4, <3>1 DEF MemoryPlaces
      <4>2. g = [k \in 1 .. w |-> g[k]] OBVIOUS
      <4> QED BY <4>1, <4>2
    <3>2. CASE l.kind = "RegisterValue"
      <4> DEFINE g == [k \in 1 .. w |-> RegisterPlace(Holder(l), (Offset(l) + k) - 1)]
      <4>1. ps = g BY <1>5, <3>2 DEF RegisterPlaces
      <4>2. g = [k \in 1 .. w |-> g[k]] OBVIOUS
      <4> QED BY <4>1, <4>2
    <3> QED BY <2>1, <3>1, <3>2
  <2>3. DOMAIN ps = 1 .. w BY <2>2
  <2>4. Len(ps) = w BY <1>3, <2>2
  <2>5. ps # <<>>
    <3>1. 1 \in DOMAIN ps BY <1>3, <2>3
    <3> QED BY <3>1
  <2> QED BY <2>3, <2>4, <2>5
<1> QED BY <1>1, <1>2, <1>4, <1>5, <1>6, <1>7

(* What is read from memory is the bytes at its places.                    *)
LEMMA MemoryReads ==
  ASSUME Now \in Machines, NEW a \in Int, NEW s \in {"Byte", "Word", "Dword", "Qword"},
         Available(a, Width(s))
  PROVE  /\ IsNumberOf(GetMem(Now, a, s), s)
         /\ Promise!At(MemoryPlaces(a, Width(s))) = Digits(GetMem(Now, a, s).n, Width(s))
<1> DEFINE w == Width(s)
           v == GetMem(Now, a, s)
<1>1. w \in 1 .. 8 /\ w \in Nat BY DEF Width
<1>2. IsNumberOf(v, s) /\ \A k \in 0 .. w - 1 : (v.n \div Bytes(k)) % Base = Now.mem[a + k]
  BY GetMemIs
<1>3. Now.mem = mem BY DEF Now
<1>4. Available(a, w) OBVIOUS
<1> HIDE DEF v, w
<1>5. Promise!At(MemoryPlaces(a, w)) = [k \in 1 .. w |-> mem[(a + k) - 1]]
  BY <1>1, <1>4, AtMemory
<1>6. ASSUME NEW k \in 1 .. w PROVE mem[(a + k) - 1] = Byte(v.n, k - 1)
  <2>1. k - 1 \in 0 .. w - 1 /\ a + (k - 1) = (a + k) - 1 BY <1>1
  <2>2. Byte(v.n, k - 1) = mem[a + (k - 1)] BY <1>2, <1>3, <2>1 DEF Byte
  <2> QED BY <2>1, <2>2
<1>7. Digits(v.n, w) = [k \in 1 .. w |-> Byte(v.n, k - 1)] BY DEF Digits, Byte
<1>8. Promise!At(MemoryPlaces(a, w)) = Digits(v.n, w) BY <1>5, <1>6, <1>7
<1> QED BY <1>2, <1>8 DEF v, w

(* get_arg gives the bytes at the places, if they can be read.             *)
LEMMA GetReads ==
  ASSUME Now \in Machines, NEW l, IsArgument(l)
  PROVE  /\ CanRead(l) => /\ IsNumberOf(Get(Now, l), l.size) /\ ~Failed(Get(Now, l))
                          /\ Get(Now, l).n \in Nat
                          /\ Promise!Contents(l) = Digits(Get(Now, l).n, Width(l.size))
         /\ ~CanRead(l) => IsError(Get(Now, l)) /\ Failed(Get(Now, l))
<1> DEFINE w == Width(l.size)
           a == AddressOf(Now, l)
           v == Get(Now, l)
<1>1. l.size \in {"Byte", "Word", "Dword"} /\ w \in {1, 2, 4} /\ l.size \in Operand
  BY OperandIs DEF IsArgument, Operand
<1>2. IsNumberOf(v, l.size) \/ IsError(v) BY GetTyped
<1>3. IsNumberOf(v, l.size) => v.n \in Nat /\ ~Failed(v)
  <2>1. Mask(l.size) \in Nat BY <1>1, Masks
  <2> HIDE DEF v
  <2> QED BY <1>1, <2>1, ValueFailed DEF IsNumberOf
<1>4. IsError(v) => Failed(v) BY ValueFailed
<1>5. CASE l.kind = "Immediate"
  <2>1. CanRead(l) BY <1>5, OperandIs
  <2>2. v = Sized(l.size, l.n) BY <1>5 DEF Get
  <2>3. IsNumberOf(v, l.size) /\ v.n = l.n
    <3>1. l.n \in 0 .. Mask(l.size) BY <1>5 DEF IsArgument
    <3> HIDE DEF v
    <3> QED BY <1>1, <2>2, <3>1, SizedIs
  <2>4. Promise!Contents(l) = Promise!Bytes(l.n, w) BY <1>5, OperandIs DEF Promise!Contents
  <2>5. Promise!Contents(l) = Digits(v.n, w)
    <3> HIDE DEF v, w
    <3> QED BY <2>3, <2>4, BytesIs
  <2> HIDE DEF v, w
  <2> QED BY <1>3, <2>1, <2>3, <2>5 DEF v, w
<1>6. CASE l.kind = "RegisterValue"
  <2> DEFINE r == Holder(l)
             j == Offset(l)
  <2>1. CanRead(l) BY <1>6, OperandIs
  <2>2. v = GetReg(Now, l.reg, l.size) BY <1>6 DEF Get
  <2>3. IsNumberOf(v, l.size)
    <3>1. l.reg \in Registers BY <1>6 DEF IsArgument
    <3> HIDE DEF v
    <3> QED BY <1>1, <2>2, <3>1, GetRegTyped
  <2>4. Promise!Contents(l) = Promise!At(Promise!PlacesOf(l)) BY <1>6 DEF Promise!Contents
  <2>5. /\ r \in Registers /\ j \in {0, 1} /\ w \in 1 .. 4 - j
        /\ Promise!PlacesOf(l) = RegisterPlaces(r, j, w)
    BY <1>6, RegisterOperand
  <2>6. \A k \in 0 .. w - 1 : Byte(v.n, k) = Byte(regs[r], j + k)
    <3>1. \A k \in 0 .. w - 1 : Byte(GetReg(Now, l.reg, l.size).n, k) = Byte(Now.regs[r], j + k)
      BY <1>6, GetRegReads
    <3>2. Now.regs = regs BY DEF Now
    <3> HIDE DEF v, w, r, j
    <3> QED BY <2>2, <3>1, <3>2
  <2> HIDE DEF r, j, w, v
  <2>7. j \in 0 .. 3 /\ w \in Nat BY <1>1, <2>5
  <2>8. Promise!At(RegisterPlaces(r, j, w)) = [k \in 1 .. w |-> Byte(regs[r], (j + k) - 1)]
    BY <2>5, <2>7, AtRegister
  <2>9. ASSUME NEW k \in 1 .. w PROVE Byte(regs[r], (j + k) - 1) = Byte(v.n, k - 1)
    <3>1. k - 1 \in 0 .. w - 1 /\ j + (k - 1) = (j + k) - 1 BY <2>7
    <3>2. Byte(v.n, k - 1) = Byte(regs[r], j + (k - 1)) BY <2>6, <3>1
    <3> QED BY <3>1, <3>2
  <2>10. Promise!Contents(l) = Digits(v.n, w)
    <3>1. Promise!Contents(l) = [k \in 1 .. w |-> Byte(regs[r], (j + k) - 1)]
      BY <2>4, <2>5, <2>8
    <3>2. Digits(v.n, w) = [k \in 1 .. w |-> Byte(v.n, k - 1)] BY DEF Digits, Byte
    <3> QED BY <2>9, <3>1, <3>2
  <2> QED BY <1>3, <2>1, <2>3, <2>10 DEF v, w
<1>7. CASE l.kind \in Addresses
  <2>0. l.kind # "Immediate" /\ l.kind # "RegisterValue" BY <1>7 DEF Addresses
  <2>1. v = GetMem(Now, a, l.size) BY <2>0 DEF Get
  <2>2. a \in Int /\ Promise!PlacesOf(l) = MemoryPlaces(a, w) /\ (CanRead(l) <=> Available(a, w))
    BY <1>7, OperandIs
  <2>3. Promise!Contents(l) = Promise!At(Promise!PlacesOf(l)) BY <2>0 DEF Promise!Contents
  <2>4. w \in 1 .. 8 /\ w \in Nat BY <1>1
  <2>5. ASSUME Available(a, w)
        PROVE  IsNumberOf(v, l.size) /\ Promise!Contents(l) = Digits(v.n, w)
    <3>1. /\ IsNumberOf(GetMem(Now, a, l.size), l.size)
          /\ Promise!At(MemoryPlaces(a, w)) = Digits(GetMem(Now, a, l.size).n, w)
      <4> HIDE DEF a
      <4> QED BY <1>1, <2>2, <2>5, MemoryReads
    <3> HIDE DEF a, w, v
    <3> QED BY <2>1, <2>2, <2>3, <3>1
  <2>6. ASSUME ~Available(a, w) PROVE IsError(v)
    <3>1. v = Error("BadMemory") BY <2>1, <2>6 DEF GetMem
    <3>2. "BadMemory" \in Errors BY DEF Errors
    <3> QED BY <3>1, <3>2, ErrorIs
  <2> HIDE DEF v, w, a
  <2> QED BY <1>3, <1>4, <2>2, <2>5, <2>6 DEF v, w
<1> QED BY <1>5, <1>6, <1>7 DEF IsArgument

(* A byte of memory is written at its place.                               *)
LEMMA SetMemPuts ==
  ASSUME NEW m \in Machines, NEW a \in Int, NEW v,
         v.size \in {"Byte", "Word", "Dword", "Qword"},
         Available(a, Width(v.size)), a >= WriteableMemory
  PROVE  /\ Puts(m, SetMem(m, a, v), MemoryPlaces(a, Width(v.size)), Digits(v.n, Width(v.size)))
         /\ SetMem(m, a, v).flags = m.flags /\ SetMem(m, a, v).result = m.result
<1> DEFINE w == Width(v.size)
           x == [c \in Mapped |-> IF c \in Cells(a, w) THEN (v.n \div Bytes(c - a)) % Base
                                  ELSE m.mem[c]]
           n == [m EXCEPT !.mem = x]
           ps == MemoryPlaces(a, w)
<1>1. SetMem(m, a, v) = n
  <2>1. ~(a < WriteableMemory)
    <3>1. WriteableMemory \in Int BY OperandsAssumption
    <3> QED BY <3>1
  <2> QED BY <2>1 DEF SetMem
<1>2. w \in {1, 2, 4, 8} BY DEF Width
<1>3. n.mem = x /\ n.regs = m.regs /\ n.flags = m.flags /\ n.result = m.result
  <2> HIDE DEF x
  <2> QED BY DEF Machines
<1>4. ASSUME NEW k \in 1 .. w PROVE View(n)[ps[k]] = Digits(v.n, w)[k]
  <2> DEFINE c == (a + k) - 1
  <2>1. c \in Mapped /\ c \in Cells(a, w)
    <3>1. k - 1 \in 0 .. w - 1 /\ a + (k - 1) = c /\ w \in Nat BY <1>2
    <3> HIDE DEF w, c
    <3> QED BY <3>1, AvailableMapped DEF w
  <2>2. ps[k] = MemoryPlace(c) BY DEF MemoryPlaces
  <2>3. c - a = k - 1 BY <1>2
  <2> HIDE DEF c
  <2>4. x[c] = (v.n \div Bytes(c - a)) % Base BY <2>1
  <2>5. Digits(v.n, w)[k] = (v.n \div Bytes(k - 1)) % Base BY DEF Digits
  <2> HIDE DEF x, n, w, ps
  <2>6. View(n)[MemoryPlace(c)] = n.mem[c] BY <2>1, PlaceIs
  <2> QED BY <1>3, <2>2, <2>3, <2>4, <2>5, <2>6
<1>5. ASSUME NEW p \in Places, \A k \in 1 .. w : ps[k] # p PROVE View(n)[p] = View(m)[p]
  <2>1. CASE \E c \in Mapped : p = MemoryPlace(c)
    <3>1. PICK c \in Mapped : p = MemoryPlace(c) BY <2>1
    <3>2. View(n)[p] = n.mem[c] /\ View(m)[p] = m.mem[c] BY <3>1, PlaceIs
    <3>3. c \notin Cells(a, w)
      <4> SUFFICES ASSUME c \in Cells(a, w) PROVE FALSE OBVIOUS
      <4> DEFINE k == (c - a) + 1
      <4>1. k \in 1 .. w /\ (a + k) - 1 = c BY <1>2 DEF Cells
      <4>2. ps[k] = MemoryPlace((a + k) - 1) BY <4>1 DEF MemoryPlaces
      <4> HIDE DEF k, ps, w
      <4> QED BY <1>5, <3>1, <4>1, <4>2
    <3>4. x[c] = m.mem[c] BY <3>3
    <3> HIDE DEF x, n, w
    <3> QED BY <1>3, <3>2, <3>4
  <2>2. CASE \E r \in Registers, i \in 0 .. 3 : p = RegisterPlace(r, i)
    <3>1. PICK r \in Registers, i \in 0 .. 3 : p = RegisterPlace(r, i) BY <2>2
    <3> HIDE DEF x, n, w, ps
    <3>2. View(n)[p] = Byte(n.regs[r], i) /\ View(m)[p] = Byte(m.regs[r], i)
      BY <3>1, PlaceIs DEF Byte
    <3> QED BY <1>3, <3>2
  <2> HIDE DEF x, n, w, ps
  <2> QED BY <2>1, <2>2, PlaceIs
<1>6. DOMAIN ps = 1 .. w BY DEF MemoryPlaces
<1>7. Puts(m, n, ps, Digits(v.n, w))
  <2> HIDE DEF n, ps, w
  <2> QED BY <1>4, <1>5, <1>6 DEF Puts
<1> HIDE DEF x, n, ps, w
<1> QED BY <1>1, <1>3, <1>7 DEF w, ps

(* The same registers and memory are the same cells.                       *)
LEMMA SameView ==
  ASSUME NEW m, m.regs = regs, m.mem = mem
  PROVE  View(m) = View(Now)
BY DEF View, Now

(* set_arg writes the bytes of a value to the places of an operand, or     *)
(* fails and writes nothing.                                               *)
LEMMA SetPuts ==
  ASSUME Now \in Machines, NEW m \in Machines, m.regs = regs, m.mem = mem, m.result = "Ok",
         NEW l, IsPlace(l), NEW t \in Operand, NEW v, IsNumberOf(v, t),
         Width(t) <= Width(l.size)
  PROVE  /\ Set(m, l, v).flags = m.flags
         /\ CanWrite(l) =>
              /\ Set(m, l, v).result = "Ok"
              /\ Puts(Now, Set(m, l, v), Promise!PlacesOf(l), Digits(v.n, Width(l.size)))
         /\ ~CanWrite(l) => Set(m, l, v).result # "Ok" /\ Kept(Set(m, l, v))
<1> DEFINE x == Converted(l, v)
           a == AddressOf(m, l)
           w == Width(l.size)
           ps == Promise!PlacesOf(l)
<1>0. IsArgument(l) /\ l.kind # "Immediate" BY DEF IsPlace
<1>1. IsNumberOf(x, l.size) /\ x.n = v.n /\ ~Failed(x) /\ ~Failed(v)
  BY <1>0, ConvertedIs
<1>2. x.size = l.size BY <1>1 DEF IsNumberOf
<1>3. View(m) = View(Now) BY SameView
<1>4. \A n, qs, bs : Puts(m, n, qs, bs) => Puts(Now, n, qs, bs) BY <1>3 DEF Puts
<1>5. CASE l.kind = "RegisterValue"
  <2>1. Set(m, l, v) = SetReg(m, l.reg, x) BY <1>0, <1>1, <1>5 DEF Set
  <2>2. CanWrite(l) BY <1>0, <1>5, OperandIs
  <2>3. /\ Puts(m, SetReg(m, l.reg, x), ps, Digits(x.n, w))
        /\ SetReg(m, l.reg, x).flags = m.flags /\ SetReg(m, l.reg, x).result = m.result
    <3> HIDE DEF x
    <3> QED BY <1>0, <1>1, <1>5, SetRegPuts
  <2> HIDE DEF x, ps, w
  <2> QED BY <1>1, <1>4, <2>1, <2>2, <2>3 DEF ps, w
<1>6. CASE l.kind \in Addresses
  <2>0. l.kind # "RegisterValue" BY <1>6 DEF Addresses
  <2>1. Set(m, l, v) = SetMem(m, a, x) BY <1>0, <1>1, <2>0 DEF Set
  <2>2. a = AddressOf(Now, l)
    <3>1. Now.regs = regs BY DEF Now
    <3> QED BY <3>1 DEF AddressOf, Part
  <2>3. /\ a \in Int /\ ps = MemoryPlaces(a, w)
        /\ CanWrite(l) <=> Available(a, w) /\ a >= WriteableMemory
    BY <1>0, <1>6, <2>2, OperandIs
  <2>4. ASSUME CanWrite(l)
        PROVE  /\ SetMem(m, a, x).result = "Ok" /\ SetMem(m, a, x).flags = m.flags
               /\ Puts(m, SetMem(m, a, x), ps, Digits(v.n, w))
    <3>1. x.size \in {"Byte", "Word", "Dword", "Qword"} BY <1>0, <1>2 DEF IsArgument
    <3> HIDE DEF x, a
    <3> QED BY <1>1, <1>2, <2>3, <2>4, <3>1, SetMemPuts
  <2>5. ASSUME ~CanWrite(l)
        PROVE  /\ SetMem(m, a, x).result # "Ok" /\ SetMem(m, a, x).flags = m.flags
               /\ SetMem(m, a, x).regs = regs /\ SetMem(m, a, x).mem = mem
    <3>1. a < WriteableMemory \/ ~Available(a, Width(x.size))
      <4>1. WriteableMemory \in Int BY OperandsAssumption
      <4> HIDE DEF x, a
      <4> QED BY <1>2, <2>3, <2>5, <4>1
    <3>2. \E e \in {"WroteReadOnlyMemory", "BadMemory"} : SetMem(m, a, x) = Failing(m, e)
      <4> HIDE DEF x, a
      <4> QED BY <3>1 DEF SetMem
    <3> HIDE DEF x, a
    <3> QED BY <3>2 DEF Failing, Machines
  <2> HIDE DEF x, a, ps, w
  <2> QED BY <1>4, <2>1, <2>4, <2>5 DEF Kept, ps, w
<1> QED BY <1>0, <1>5, <1>6 DEF IsArgument

-----------------------------------------------------------------------------
(* What makes an instruction correct                                       *)

(* xlatb and cmpxchg8b read memory that no operand names.                  *)
LEMMA ReadableIs ==
  ASSUME NEW i, i.function \notin {"xlatb", "cmpxchg8b"}
  PROVE  Promise!Readable(i) <=>
           ~Promise!Refused(i)
             /\ \A l \in Promise!Reads(i) :
                  Promise!InMemory(l) => Promise!Accessible(Promise!PlacesOf(l))
<1>1. Promise!Read(i) =
        { Promise!PlacesOf(l) : l \in { l \in Promise!Reads(i) : Promise!InMemory(l) } }
  BY DEF Promise!Read
<1> QED BY <1>1 DEF Promise!Readable

(* An operand that is read only needs to be readable.                      *)
LEMMA OperandRead ==
  ASSUME Now \in Machines, NEW l, IsArgument(l)
  PROVE  (Promise!InMemory(l) => Promise!Accessible(Promise!PlacesOf(l))) <=> CanRead(l)
BY OperandIs DEF CanRead

(* A failure to read that changes nothing is correct.                      *)
LEMMA FailsCorrectly ==
  ASSUME NEW i, ~Promise!Readable(i), NEW m, m.result # "Ok", Kept(m), m.flags = flags
  PROVE  Correct(i, m)
BY DEF Correct, Promise!Possible

(* Nothing to write, nothing changed.                                      *)
LEMMA NoWriteCorrect ==
  ASSUME NEW i, Promise!Readable(i), Promise!Written(i) = Promise!NoWrite,
         NEW m, m.result = "Ok", Kept(m), m.flags = Promise!FlagsAfter(i)
  PROVE  Correct(i, m)
<1>1. Promise!Possible(i) BY DEF Promise!Possible
<1>2. Promise!Written(i)[1] = <<>> /\ Promise!Written(i)[2] = <<>> BY DEF Promise!NoWrite
<1>3. View(m) = View(Now) BY SameView DEF Kept
<1>4. Puts(Now, m, <<>>, <<>>) BY <1>3 DEF Puts
<1> QED BY <1>1, <1>2, <1>4 DEF Correct

(* Everything written where it may be written.                             *)
LEMMA WriteCorrect ==
  ASSUME NEW i, Promise!Readable(i), NEW ps, NEW bs, Promise!Written(i) = <<ps, bs>>,
         ps # <<>>, Len(ps) = Len(bs), Promise!Writeable(ps),
         NEW n, n.result = "Ok", n.flags = Promise!FlagsAfter(i), Puts(Now, n, ps, bs)
  PROVE  Correct(i, n)
<1>1. Promise!Possible(i) BY DEF Promise!Possible
<1> QED BY <1>1 DEF Correct

(* Nothing written where it may not be written.                            *)
LEMMA WriteFails ==
  ASSUME NEW i, Promise!Readable(i), NEW ps, NEW bs, Promise!Written(i) = <<ps, bs>>,
         ps # <<>>, ~Promise!Writeable(ps),
         NEW n, n.result # "Ok", n.flags = Promise!FlagsAfter(i) \/ n.flags = flags, Kept(n)
  PROVE  Correct(i, n)
<1>1. Promise!Written(i) # Promise!NoWrite BY DEF Promise!NoWrite
<1>2. ~Promise!Possible(i) BY <1>1 DEF Promise!Possible
<1> QED BY <1>2 DEF Correct

(* An instruction that reads its operands and writes to one.               *)
LEMMA SetCorrect ==
  ASSUME Now \in Machines, NEW i, Promise!Readable(i),
         NEW m \in Machines, m.regs = regs, m.mem = mem, m.result = "Ok",
         m.flags = Promise!FlagsAfter(i),
         NEW l, IsPlace(l), NEW t \in Operand, NEW v, IsNumberOf(v, t),
         Width(t) <= Width(l.size),
         Promise!Written(i) = <<Promise!PlacesOf(l), Digits(v.n, Width(l.size))>>
  PROVE  Correct(i, Set(m, l, v))
<1> DEFINE ps == Promise!PlacesOf(l)
           w == Width(l.size)
           bs == Digits(v.n, w)
           n == Set(m, l, v)
<1>1. IsArgument(l) /\ l.kind # "Immediate" BY DEF IsPlace
<1>2. Len(ps) = w /\ ps # <<>> /\ w \in {1, 2, 4} BY <1>1, OperandIs
<1>3. Len(bs) = w
  <2>1. v.n \in Nat
    <3>1. Mask(t) \in Nat BY Masks DEF Operand
    <3> QED BY <3>1 DEF IsNumberOf
  <2>2. w \in 0 .. 8 BY <1>2
  <2> HIDE DEF w
  <2> QED BY <2>1, <2>2, DigitsType
<1>4. Promise!Written(i) = <<ps, bs>> OBVIOUS
<1>5. /\ n.flags = m.flags
      /\ CanWrite(l) => n.result = "Ok" /\ Puts(Now, n, ps, bs)
      /\ ~CanWrite(l) => n.result # "Ok" /\ Kept(n)
  BY SetPuts
<1>6. CanWrite(l) <=> Promise!Writeable(ps) BY DEF CanWrite
<1> HIDE DEF ps, w, bs, n
<1>7. CASE CanWrite(l) BY <1>2, <1>3, <1>4, <1>5, <1>6, <1>7, WriteCorrect DEF n
<1>8. CASE ~CanWrite(l) BY <1>2, <1>4, <1>5, <1>6, <1>8, WriteFails DEF n
<1> QED BY <1>7, <1>8

(* An instruction that writes to a register.                               *)
LEMMA SetRegCorrect ==
  ASSUME Now \in Machines, NEW i, Promise!Readable(i),
         Promise!FlagsAfter(i) = flags,
         NEW l, IsArgument(l), l.kind = "RegisterValue",
         NEW v, IsNumberOf(v, l.size),
         Promise!Written(i) = <<Promise!PlacesOf(l), Digits(v.n, Width(l.size))>>
  PROVE  Correct(i, SetReg(Now, l.reg, v))
<1> DEFINE ps == Promise!PlacesOf(l)
           w == Width(l.size)
           bs == Digits(v.n, w)
           n == SetReg(Now, l.reg, v)
<1>1. Len(ps) = w /\ ps # <<>> /\ w \in {1, 2, 4} BY OperandIs
<1>2. Promise!Writeable(ps) BY OperandIs DEF CanWrite
<1>3. Len(bs) = w
  <2>1. v.n \in Nat
    <3>1. Mask(l.size) \in Nat BY Masks DEF IsArgument
    <3> QED BY <3>1 DEF IsNumberOf
  <2>2. w \in 0 .. 8 BY <1>1
  <2> HIDE DEF w
  <2> QED BY <2>1, <2>2, DigitsType
<1>4. Promise!Written(i) = <<ps, bs>> OBVIOUS
<1>5. Puts(Now, n, ps, bs) /\ n.flags = Now.flags /\ n.result = Now.result
  BY SetRegPuts
<1>6. Now.flags = flags /\ Now.result = "Ok" BY DEF Now
<1> HIDE DEF ps, w, bs, n
<1>7. Correct(i, n) BY <1>1, <1>2, <1>3, <1>4, <1>5, <1>6, WriteCorrect
<1> QED BY <1>7 DEF n

(* An error that a read returned is passed on and is the only effect.      *)
LEMMA ErrorCorrect ==
  ASSUME NEW i, ~Promise!Readable(i), NEW v, IsError(v)
  PROVE  /\ Correct(i, Failing(Now, v.error)) /\ \A m : Checked(v, m) = Failing(Now, v.error)
         /\ \A l : Set(Now, l, v) = Failing(Now, v.error)
<1>1. Failed(v) /\ v.error # "Ok" BY ValueFailed DEF IsError, Errors
<1>2. /\ Failing(Now, v.error).result = v.error /\ Kept(Failing(Now, v.error))
      /\ Failing(Now, v.error).flags = flags
  BY DEF Failing, Now, Kept
<1>3. Now.result = "Ok" BY DEF Now
<1>4. \A m : Checked(v, m) = Failing(Now, v.error) BY <1>1 DEF Checked
<1>5. \A l : Set(Now, l, v) = Failing(Now, v.error) BY <1>1, <1>3 DEF Set
<1>6. Correct(i, Failing(Now, v.error)) BY <1>1, <1>2, FailsCorrectly
<1> QED BY <1>4, <1>5, <1>6

-----------------------------------------------------------------------------
(* One sequence after another                                              *)

IsTuple(a, w) == a = [k \in 1 .. w |-> a[k]]

(* c is a, of length w, followed by b, of length v.                        *)
Follows(c, a, b, w, v) ==
  /\ Len(c) = w + v /\ DOMAIN c = 1 .. w + v
  /\ \A k \in 1 .. w : c[k] = a[k]
  /\ \A k \in 1 .. v : c[w + k] = b[k]
  /\ \A k \in 1 .. w + v : k \in 1 .. w \/ \E j \in 1 .. v : k = w + j

(* The indices of a sequence.                                              *)
LEMMA TupleIs ==
  ASSUME NEW w, NEW a, IsTuple(a, w)
  PROVE  DOMAIN a = 1 .. w
BY DEF IsTuple

(* A sequence followed by another one.                                     *)
LEMMA Concatenated ==
  ASSUME NEW w \in Nat, NEW v \in Nat, NEW a, NEW b,
         IsTuple(a, w), IsTuple(b, v)
  PROVE  Follows(a \o b, a, b, w, v)
<1> DEFINE S == {a[k] : k \in 1 .. w} \union {b[k] : k \in 1 .. v}
<1>1. a \in [1 .. w -> S]
  <2>1. \A k \in 1 .. w : a[k] \in S OBVIOUS
  <2> HIDE DEF S
  <2> QED BY <2>1 DEF IsTuple
<1>2. b \in [1 .. v -> S]
  <2>1. \A k \in 1 .. v : b[k] \in S OBVIOUS
  <2> HIDE DEF S
  <2> QED BY <2>1 DEF IsTuple
<1> HIDE DEF S
<1>3. a \in Seq(S) /\ Len(a) = w BY <1>1, SequenceIs
<1>4. b \in Seq(S) /\ Len(b) = v BY <1>2, SequenceIs
<1>5. Len(a \o b) = w + v BY <1>3, <1>4
<1>6. DOMAIN (a \o b) = 1 .. w + v BY <1>3, <1>4, <1>5
<1>7. ASSUME NEW k \in 1 .. w PROVE (a \o b)[k] = a[k] BY <1>3, <1>4
<1>8. ASSUME NEW k \in 1 .. v PROVE (a \o b)[w + k] = b[k] BY <1>3, <1>4
<1>9. ASSUME NEW k \in 1 .. w + v PROVE k \in 1 .. w \/ \E j \in 1 .. v : k = w + j
  <2>1. CASE k > w
    <3>1. k - w \in 1 .. v /\ k = w + (k - w) BY <2>1
    <3> QED BY <3>1
  <2> QED BY <2>1
<1> QED BY <1>5, <1>6, <1>7, <1>8, <1>9 DEF Follows

(* Two writes one after the other.                                         *)
LEMMA PutsTwice ==
  ASSUME NEW w \in Nat, NEW v \in Nat, NEW ps, NEW qs, NEW xs, NEW bs,
         IsTuple(ps, w), IsTuple(qs, v),
         IsTuple(xs, w), IsTuple(bs, v),
         \A k \in 1 .. w : ps[k] \in Places,
         NEW m, NEW n, NEW o, Puts(m, n, ps, xs), Puts(n, o, qs, bs),
         \A j \in 1 .. w, k \in 1 .. v : ps[j] = qs[k] => xs[j] = bs[k]
  PROVE  Puts(m, o, ps \o qs, xs \o bs)
<1> DEFINE rs == ps \o qs
           cs == xs \o bs
<1>0. Follows(rs, ps, qs, w, v) /\ Follows(cs, xs, bs, w, v) BY Concatenated
<1> HIDE DEF rs, cs
<1>1. /\ DOMAIN rs = 1 .. w + v
      /\ \A k \in 1 .. w : rs[k] = ps[k]
      /\ \A k \in 1 .. v : rs[w + k] = qs[k]
      /\ \A k \in 1 .. w + v : k \in 1 .. w \/ \E j \in 1 .. v : k = w + j
  BY <1>0 DEF Follows
<1>2. /\ \A k \in 1 .. w : cs[k] = xs[k]
      /\ \A k \in 1 .. v : cs[w + k] = bs[k]
  BY <1>0 DEF Follows
<1>3. DOMAIN ps = 1 .. w /\ DOMAIN qs = 1 .. v BY TupleIs
<1>4. ASSUME NEW k \in 1 .. w PROVE View(o)[ps[k]] = xs[k]
  <2>1. CASE \E j \in 1 .. v : ps[k] = qs[j] BY <1>3, <2>1 DEF Puts
  <2>2. CASE ~ \E j \in 1 .. v : ps[k] = qs[j]
    <3>1. View(o)[ps[k]] = View(n)[ps[k]] BY <1>3, <2>2 DEF Puts
    <3> QED BY <1>3, <3>1 DEF Puts
  <2> QED BY <2>1, <2>2
<1>5. ASSUME NEW k \in 1 .. w + v PROVE View(o)[rs[k]] = cs[k]
  <2>1. CASE k \in 1 .. w BY <1>1, <1>2, <1>4, <2>1
  <2>2. CASE \E j \in 1 .. v : k = w + j
    <3>1. PICK j \in 1 .. v : k = w + j BY <2>2
    <3>2. View(o)[qs[j]] = bs[j] BY <1>3 DEF Puts
    <3>3. rs[k] = qs[j] /\ cs[k] = bs[j] BY <1>1, <1>2, <3>1
    <3> QED BY <3>2, <3>3
  <2> QED BY <1>1, <2>1, <2>2
<1>6. ASSUME NEW p \in Places, \A k \in 1 .. w + v : rs[k] # p
      PROVE  View(o)[p] = View(m)[p]
  <2>1. \A k \in 1 .. w : ps[k] # p
    <3>1. \A k \in 1 .. w : k \in 1 .. w + v OBVIOUS
    <3> QED BY <1>1, <1>6, <3>1
  <2>2. \A k \in 1 .. v : qs[k] # p
    <3>1. \A k \in 1 .. v : w + k \in 1 .. w + v OBVIOUS
    <3> QED BY <1>1, <1>6, <3>1
  <2> QED BY <1>3, <2>1, <2>2 DEF Puts
<1>7. Puts(m, o, rs, cs) BY <1>1, <1>5, <1>6 DEF Puts
<1> QED BY <1>7 DEF rs, cs

(* Accessible places, of which some are in registers.                      *)
LEMMA AccessTwice ==
  ASSUME NEW w \in Nat, NEW v \in Nat, NEW ps, NEW qs,
         IsTuple(ps, w), IsTuple(qs, v),
         Promise!InMemoryOf(qs) = {}
  PROVE  Promise!Writeable(ps \o qs) <=> Promise!Writeable(ps)
<1> DEFINE rs == ps \o qs
<1>0. Follows(rs, ps, qs, w, v) BY Concatenated
<1> HIDE DEF rs
<1>1. /\ DOMAIN rs = 1 .. w + v
      /\ \A k \in 1 .. w : rs[k] = ps[k]
      /\ \A k \in 1 .. v : rs[w + k] = qs[k]
      /\ \A k \in 1 .. w + v : k \in 1 .. w \/ \E j \in 1 .. v : k = w + j
  BY <1>0 DEF Follows
<1>2. DOMAIN ps = 1 .. w /\ DOMAIN qs = 1 .. v BY TupleIs
<1>3. \A k \in 1 .. v : qs[k][1] # "memory"
  <2> SUFFICES ASSUME NEW k \in 1 .. v, qs[k][1] = "memory" PROVE FALSE OBVIOUS
  <2>1. qs[k][2] \in Promise!InMemoryOf(qs) BY <1>2 DEF Promise!InMemoryOf
  <2> QED BY <2>1
<1>4. ASSUME NEW a PROVE a \in Promise!InMemoryOf(rs) <=> a \in Promise!InMemoryOf(ps)
  <2>1. ASSUME a \in Promise!InMemoryOf(rs) PROVE a \in Promise!InMemoryOf(ps)
    <3>1. PICK k \in 1 .. w + v : rs[k][1] = "memory" /\ rs[k][2] = a
      BY <1>1, <2>1 DEF Promise!InMemoryOf
    <3>2. k \in 1 .. w
      <4>1. ASSUME NEW j \in 1 .. v, k = w + j PROVE FALSE BY <1>1, <1>3, <3>1, <4>1
      <4> QED BY <1>1, <4>1
    <3> QED BY <1>1, <1>2, <3>1, <3>2 DEF Promise!InMemoryOf
  <2>2. ASSUME a \in Promise!InMemoryOf(ps) PROVE a \in Promise!InMemoryOf(rs)
    <3>1. PICK k \in 1 .. w : ps[k][1] = "memory" /\ ps[k][2] = a
      BY <1>2, <2>2 DEF Promise!InMemoryOf
    <3>2. k \in 1 .. w + v OBVIOUS
    <3> QED BY <1>1, <3>1, <3>2 DEF Promise!InMemoryOf
  <2> QED BY <2>1, <2>2
<1>5. Promise!InMemoryOf(rs) = Promise!InMemoryOf(ps) BY <1>4
<1> QED BY <1>5 DEF Promise!Writeable, Promise!Accessible, rs

-----------------------------------------------------------------------------
(* Moves                                                                   *)

(* What the promise says of mov, and of cmovcc when the condition holds.   *)
LEMMA MovPromised ==
  ASSUME NEW i, i.function = "mov" \/ (i.function = "cmovcc_native" /\ Promise!Holds(i))
  PROVE  /\ ~Promise!Refused(i) /\ Promise!Reads(i) = {i.args[2]}
         /\ Promise!Written(i) = <<Promise!Target(i), Promise!Source(i)>>
         /\ Promise!FlagsAfter(i) = flags
<1>1. ~Promise!Refused(i) BY DEF Promise!Refused
<1>2. Promise!Reads(i) = {i.args[2]} BY DEF Promise!Reads, Promise!BitWrites
<1>3. Promise!Written(i) = <<Promise!Target(i), Promise!Source(i)>>
  BY DEF Promise!Written, Promise!BitWrites
<1>4. Promise!FlagsAfter(i) = flags BY DEF Promise!FlagsAfter, Promise!BitWrites
<1> QED BY <1>1, <1>2, <1>3, <1>4

(* A number that one operand gives and another takes.                      *)
LEMMA MovCorrect ==
  ASSUME Now \in Machines, NEW i \in Instrs,
         i.function = "mov" \/ (i.function = "cmovcc_native" /\ Promise!Holds(i))
  PROVE  Correct(i, Mov(i))
<1> DEFINE v == Get(Now, Arg2(i))
           l == Arg1(i)
<1>1. IsPlace(l) /\ IsArgument(Arg2(i)) /\ l.size = Arg2(i).size
  BY InstrsAssumption DEF IsPlace, NoOperand, OneOperand, Destination, BitScans
<1>2. l.size \in Operand /\ Width(l.size) <= Width(l.size)
  BY <1>1 DEF IsPlace, IsArgument, Operand, Width
<1>3. i.args[1] = l /\ i.args[2] = Arg2(i) BY DEF Arg1, Arg2
<1>4. Promise!Readable(i) <=> CanRead(Arg2(i))
  BY <1>1, <1>3, MovPromised, ReadableIs, OperandRead
<1>5. Now.regs = regs /\ Now.mem = mem /\ Now.result = "Ok" /\ Now.flags = flags BY DEF Now
<1>6. CASE CanRead(Arg2(i))
  <2>1. IsNumberOf(v, l.size) /\ Promise!Contents(Arg2(i)) = Digits(v.n, Width(l.size))
    BY <1>1, <1>6, GetReads
  <2>2. Promise!Written(i) = <<Promise!PlacesOf(l), Digits(v.n, Width(l.size))>>
    BY <1>3, <2>1, MovPromised DEF Promise!Target, Promise!Source
  <2> HIDE DEF v, l
  <2>3. Correct(i, Set(Now, l, v))
    BY <1>1, <1>2, <1>4, <1>5, <1>6, <2>1, <2>2, MovPromised, SetCorrect
  <2> QED BY <2>3 DEF Mov, v, l
<1>7. CASE ~CanRead(Arg2(i))
  <2>1. Failed(v) BY <1>1, <1>7, GetReads
  <2>2. IsError(v) BY <1>1, <1>7, GetReads
  <2>3. Mov(i) = Failing(Now, v.error) BY <1>5, <2>1 DEF Mov, Set
  <2>4. v.error # "Ok" BY <2>2 DEF IsError, Errors
  <2> HIDE DEF v, l
  <2>5. Mov(i).result = v.error /\ Kept(Mov(i)) /\ Mov(i).flags = flags
    BY <2>3 DEF Failing, Now, Kept
  <2> QED BY <1>4, <1>7, <2>4, <2>5, FailsCorrectly
<1> QED BY <1>6, <1>7

(* The places of an operand are as many as it has bytes.                   *)
LEMMA PlacesTuple ==
  ASSUME Now \in Machines, NEW l, IsPlace(l)
  PROVE  /\ IsTuple(Promise!PlacesOf(l), Width(l.size))
         /\ CanRead(l) => \A k \in 1 .. Width(l.size) : Promise!PlacesOf(l)[k] \in Places
         /\ Promise!Contents(l) = Promise!At(Promise!PlacesOf(l))
         /\ CanWrite(l) => CanRead(l)
<1> DEFINE w == Width(l.size)
           a == AddressOf(Now, l)
           ps == Promise!PlacesOf(l)
<1>1. IsArgument(l) /\ l.kind # "Immediate" BY DEF IsPlace
<1>2. w \in {1, 2, 4} BY <1>1, OperandIs
<1>3. Promise!Contents(l) = Promise!At(ps) BY <1>1 DEF Promise!Contents
<1>4. CASE l.kind = "RegisterValue"
  <2> DEFINE r == Holder(l)
             j == Offset(l)
  <2>1. r \in Registers /\ j \in {0, 1} /\ w \in 1 .. 4 - j /\ ps = RegisterPlaces(r, j, w)
    BY <1>1, <1>4, RegisterOperand
  <2>2. CanRead(l) BY <1>1, <1>4, OperandIs
  <2> HIDE DEF r, j, w, ps
  <2>3. IsTuple(ps, w) BY <2>1 DEF IsTuple, RegisterPlaces
  <2>4. ASSUME NEW k \in 1 .. w PROVE ps[k] \in Places
    <3> DEFINE i == (j + k) - 1
    <3>1. i \in 0 .. 3 BY <1>2, <2>1
    <3>2. ps[k] = RegisterPlace(r, i) BY <2>1 DEF RegisterPlaces
    <3> HIDE DEF i
    <3> QED BY <2>1, <3>1, <3>2, PlaceIs
  <2> QED BY <1>3, <2>2, <2>3, <2>4 DEF ps, w
<1>5. CASE l.kind \in Addresses
  <2>1. /\ a \in Int /\ ps = MemoryPlaces(a, w)
        /\ CanRead(l) <=> Available(a, w)
        /\ CanWrite(l) <=> Available(a, w) /\ a >= WriteableMemory
    BY <1>1, <1>5, OperandIs
  <2> HIDE DEF a, w, ps
  <2>2. IsTuple(ps, w) BY <2>1 DEF IsTuple, MemoryPlaces
  <2>3. ASSUME Available(a, w), NEW k \in 1 .. w PROVE ps[k] \in Places
    <3> DEFINE c == (a + k) - 1
    <3>1. c \in Mapped
      <4>1. k - 1 \in 0 .. w - 1 /\ a + (k - 1) = c /\ w \in Nat BY <1>2, <2>1
      <4> HIDE DEF c
      <4> QED BY <2>1, <2>3, <4>1, AvailableMapped
    <3>2. ps[k] = MemoryPlace(c) BY <2>1 DEF MemoryPlaces
    <3> HIDE DEF c
    <3> QED BY <3>1, <3>2, PlaceIs
  <2> QED BY <1>3, <2>1, <2>2, <2>3 DEF ps, w
<1> QED BY <1>1, <1>4, <1>5 DEF IsArgument

(* Places of two operands of one size are the same in the same order.      *)
LEMMA PlacesMeet ==
  ASSUME Now \in Machines, NEW l, IsPlace(l), NEW q, IsPlace(q), q.kind = "RegisterValue",
         l.size = q.size, NEW j \in 1 .. Width(l.size), NEW k \in 1 .. Width(l.size),
         Promise!PlacesOf(l)[j] = Promise!PlacesOf(q)[k]
  PROVE  j = k
<1> DEFINE w == Width(l.size)
<1>1. IsArgument(l) /\ IsArgument(q) /\ w \in {1, 2, 4} BY OperandIs DEF IsPlace
<1>2. Promise!PlacesOf(q) = RegisterPlaces(Holder(q), Offset(q), w) BY <1>1, RegisterOperand
<1>3. Promise!PlacesOf(q)[k] = RegisterPlace(Holder(q), (Offset(q) + k) - 1)
  BY <1>2 DEF RegisterPlaces
<1>4. CASE l.kind \in Addresses
  <2>1. Promise!PlacesOf(l) = MemoryPlaces(AddressOf(Now, l), w) BY <1>1, <1>4, OperandIs
  <2>2. Promise!PlacesOf(l)[j] = MemoryPlace((AddressOf(Now, l) + j) - 1)
    BY <2>1 DEF MemoryPlaces
  <2> QED BY <1>3, <2>2, PlacesDiffer
<1>5. CASE l.kind = "RegisterValue"
  <2>1. Promise!PlacesOf(l) = RegisterPlaces(Holder(l), Offset(l), w)
    BY <1>1, <1>5, RegisterOperand
  <2>2. Promise!PlacesOf(l)[j] = RegisterPlace(Holder(l), (Offset(l) + j) - 1)
    BY <2>1 DEF RegisterPlaces
  <2>3. CASE l.size = "Byte" BY <2>3 DEF Width
  <2>4. CASE l.size # "Byte"
    <3>1. Offset(l) = 0 /\ Offset(q) = 0 BY <2>4 DEF Offset
    <3>2. RegisterPlace(Holder(l), j - 1) = RegisterPlace(Holder(q), k - 1)
      BY <1>3, <2>2, <3>1
    <3>3. j - 1 = k - 1 BY <3>2, PlacesDiffer
    <3> QED BY <3>3
  <2> QED BY <2>3, <2>4
<1> QED BY <1>1, <1>4, <1>5 DEF IsArgument, IsPlace

-----------------------------------------------------------------------------
(* xchg                                                                    *)

(* What the promise says of xchg.                                          *)
LEMMA XchgPromised ==
  ASSUME NEW i, i.function = "xchg"
  PROVE  /\ ~Promise!Refused(i) /\ Promise!Reads(i) = {i.args[1], i.args[2]}
         /\ Promise!Written(i) =
              <<Promise!Target(i) \o Promise!PlacesOf(i.args[2]),
                Promise!Source(i) \o Promise!At(Promise!Target(i))>>
         /\ Promise!FlagsAfter(i) = flags
<1>1. ~Promise!Refused(i) BY DEF Promise!Refused
<1>2. Promise!Reads(i) = {i.args[1], i.args[2]} BY DEF Promise!Reads, Promise!BitWrites
<1>3. Promise!Written(i) =
        <<Promise!Target(i) \o Promise!PlacesOf(i.args[2]),
          Promise!Source(i) \o Promise!At(Promise!Target(i))>>
  BY DEF Promise!Written, Promise!BitWrites
<1>4. Promise!FlagsAfter(i) = flags BY DEF Promise!FlagsAfter, Promise!BitWrites
<1> QED BY <1>1, <1>2, <1>3, <1>4

(* xchg crosses over, though its second write follows its first.           *)
LEMMA XchgCorrect ==
  ASSUME Now \in Machines, NEW i \in Instrs, i.function = "xchg"
  PROVE  Correct(i, Xchg(i))
<1> DEFINE l == Arg1(i)
           q == Arg2(i)
           x == Get(Now, l)
           y == Get(Now, q)
           s == l.size
           w == Width(s)
           ps == Promise!PlacesOf(l)
           qs == Promise!PlacesOf(q)
           m == Set(Now, l, y)
           n == Set(m, q, x)
<1>1. IsPlace(l) /\ IsPlace(q) /\ q.kind = "RegisterValue" /\ q.size = s
  BY InstrsAssumption DEF IsPlace, NoOperand, OneOperand, Destination, BitScans
<1>2. IsArgument(l) /\ IsArgument(q) BY <1>1 DEF IsPlace
<1>3. s \in Operand /\ w \in {1, 2, 4} /\ w \in Nat /\ w \in 0 .. 8 /\ Width(s) <= Width(s)
  BY <1>2, OperandIs DEF IsArgument, Operand
<1>4. i.args[1] = l /\ i.args[2] = q BY DEF Arg1, Arg2
<1>5. Now.regs = regs /\ Now.mem = mem /\ Now.result = "Ok" /\ Now.flags = flags BY DEF Now
<1>6. CanRead(q) BY <1>1, <1>2, OperandIs
<1>7. IsNumberOf(y, s) /\ ~Failed(y) /\ y.n \in Nat /\ Promise!Contents(q) = Digits(y.n, w)
  BY <1>1, <1>2, <1>6, GetReads
<1>8. Promise!Readable(i) <=> CanRead(l)
  BY <1>2, <1>4, <1>6, XchgPromised, ReadableIs, OperandRead
<1>9. CASE ~CanRead(l)
  <2>1. IsError(x) BY <1>2, <1>9, GetReads
  <2> HIDE DEF l, x, y
  <2>2. Xchg(i) = Failing(Now, x.error)
    <3>1. Xchg(i) = Checked(x, Checked(y, Set(Set(Now, l, y), q, x))) BY DEF Xchg, l, q, x, y
    <3> QED BY <1>8, <1>9, <2>1, <3>1, ErrorCorrect
  <2> QED BY <1>8, <1>9, <2>1, <2>2, ErrorCorrect
<1>10. CASE CanRead(l)
  <2>1. IsNumberOf(x, s) /\ ~Failed(x) /\ x.n \in Nat /\ Promise!Contents(l) = Digits(x.n, w)
    BY <1>2, <1>10, GetReads
  <2>2. Xchg(i) = n
    <3>1. Xchg(i) = Checked(x, Checked(y, n)) BY DEF Xchg
    <3> QED BY <1>7, <2>1, <3>1 DEF Checked
  <2>3. /\ IsTuple(ps, w) /\ (\A k \in 1 .. w : ps[k] \in Places)
        /\ Promise!Contents(l) = Promise!At(ps)
    BY <1>1, <1>10, PlacesTuple
  <2>4. IsTuple(qs, w) /\ Promise!Contents(q) = Promise!At(qs)
    BY <1>1, PlacesTuple
  <2>5. IsTuple(Digits(x.n, w), w) /\ IsTuple(Digits(y.n, w), w)
    <3> HIDE DEF x, y, w
    <3> QED BY DEF IsTuple, Digits
  <2>6. Promise!Written(i) = <<ps \o qs, Digits(y.n, w) \o Digits(x.n, w)>>
    <3>1. Promise!Target(i) = ps /\ Promise!Source(i) = Digits(y.n, w)
      BY <1>4, <1>7 DEF Promise!Target, Promise!Source
    <3> HIDE DEF ps, qs, x, y, w
    <3>2. Promise!At(ps) = Digits(x.n, w) BY <2>1, <2>3
    <3> QED BY <1>4, <3>1, <3>2, XchgPromised DEF qs
  <2>7. /\ m.flags = flags
        /\ CanWrite(l) => m.result = "Ok" /\ Puts(Now, m, ps, Digits(y.n, w))
        /\ ~CanWrite(l) => m.result # "Ok" /\ Kept(m)
    <3> HIDE DEF y
    <3> QED BY <1>1, <1>3, <1>5, <1>7, SetPuts
  <2>8. m \in Machines
    <3> HIDE DEF y
    <3> QED BY <1>1, <1>2, <1>3, <1>7, SetTyped DEF IsPlace
  <2>9. Promise!Writeable(ps \o qs) <=> CanWrite(l)
    <3>1. Promise!InMemoryOf(qs) = {}
      <4>1. qs = RegisterPlaces(Holder(q), Offset(q), w) /\ Offset(q) \in {0, 1}
        BY <1>1, <1>2, RegisterOperand
      <4>2. Offset(q) \in Nat /\ w \in 1 .. 8 BY <1>3, <4>1
      <4> HIDE DEF qs, w
      <4> QED BY <4>1, <4>2, RegisterAccess
    <3> HIDE DEF ps, qs, w
    <3> QED BY <1>3, <2>3, <2>4, <3>1, AccessTwice DEF CanWrite, ps
  <2>10. Follows(ps \o qs, ps, qs, w, w)
         /\ Follows(Digits(y.n, w) \o Digits(x.n, w), Digits(y.n, w), Digits(x.n, w), w, w)
    <3> HIDE DEF ps, qs, w, x, y
    <3> QED BY <1>3, <2>3, <2>4, <2>5, Concatenated
  <2>11. /\ ps \o qs # <<>>
         /\ Len(ps \o qs) = Len(Digits(y.n, w) \o Digits(x.n, w))
    <3> HIDE DEF ps, qs, w, x, y
    <3>1. w + w # 0 BY <1>3
    <3> QED BY <2>10, <3>1 DEF Follows
  <2>12. CASE ~CanWrite(l)
    <3> HIDE DEF ps, qs, w, x, y, m
    <3>1. n = m BY <2>7, <2>12 DEF Set
    <3> QED BY <1>8, <1>10, <2>2, <2>6, <2>7, <2>9, <2>11, <2>12, <3>1, WriteFails
  <2>13. CASE CanWrite(l)
    <3>1. /\ n.flags = m.flags /\ n.result = "Ok" /\ Puts(m, n, qs, Digits(x.n, w))
      <4> DEFINE z == Converted(q, x)
      <4>1. IsNumberOf(z, s) /\ z.n = x.n /\ ~Failed(z)
        <5> HIDE DEF x
        <5> QED BY <1>1, <1>2, <1>3, <2>1, ConvertedIs
      <4>2. q.kind # "Immediate" BY <1>1
      <4> HIDE DEF x, m, z, ps, qs, w
      <4>3. n = SetReg(m, q.reg, z) BY <1>1, <2>1, <2>7, <2>13, <4>1, <4>2 DEF Set, z
      <4>4. /\ Puts(m, SetReg(m, q.reg, z), Promise!PlacesOf(q), Digits(z.n, w))
            /\ SetReg(m, q.reg, z).flags = m.flags /\ SetReg(m, q.reg, z).result = m.result
        <5>1. IsNumberOf(z, q.size) /\ w = Width(q.size) BY <1>1, <4>1 DEF w
        <5> QED BY <1>1, <1>2, <2>8, <5>1, SetRegPuts
      <4> QED BY <2>7, <2>13, <4>1, <4>3, <4>4 DEF qs
    <3>2. ASSUME NEW j \in 1 .. w, NEW k \in 1 .. w, ps[j] = qs[k]
          PROVE  Digits(y.n, w)[j] = Digits(x.n, w)[k]
      <4>1. j = k BY <1>1, <3>2, PlacesMeet
      <4>2. Digits(y.n, w) = Promise!At(qs) /\ Digits(x.n, w) = Promise!At(ps)
        <5> HIDE DEF x, y, w, ps, qs
        <5> QED BY <1>7, <2>1, <2>3, <2>4
      <4> HIDE DEF x, y, w, ps, qs
      <4>3. Digits(y.n, w)[j] = View(Now)[qs[j]] /\ Digits(x.n, w)[k] = View(Now)[ps[k]]
        BY <2>3, <2>4, <4>2, AtIs, TupleIs
      <4> QED BY <3>2, <4>1, <4>3
    <3> HIDE DEF ps, qs, w, x, y, m, n
    <3>3. Puts(Now, n, ps \o qs, Digits(y.n, w) \o Digits(x.n, w))
      BY <1>3, <2>3, <2>4, <2>5, <2>7, <2>13, <3>1, <3>2, PutsTwice
    <3> QED BY <1>8, <1>10, <2>2, <2>6, <2>7, <2>9, <2>11, <2>13, <3>1, <3>3,
               XchgPromised, WriteCorrect
  <2> QED BY <2>12, <2>13
<1> QED BY <1>9, <1>10

-----------------------------------------------------------------------------
(* Conditions, addresses and single flags                                  *)

(* Nothing is read, and at most flags are written.                         *)
LEMMA IdlePromised ==
  ASSUME NEW i, \/ i.function \in {"stc", "clc", "cmc", "sahf"}
                \/ i.function = "cmovcc_native" /\ ~Promise!Holds(i)
  PROVE  Promise!Readable(i) /\ Promise!Written(i) = Promise!NoWrite
<1>1. ~Promise!Refused(i) BY DEF Promise!Refused
<1>2. Promise!Reads(i) = {} BY DEF Promise!Reads, Promise!BitWrites
<1>3. Promise!Written(i) = Promise!NoWrite BY DEF Promise!Written, Promise!BitWrites
<1> QED BY <1>1, <1>2, <1>3, ReadableIs

(* stc, clc and cmc change the one flag.                                   *)
LEMMA FlagCorrect ==
  ASSUME NEW i
  PROVE  /\ i.function = "stc" => Correct(i, Flagged(Now, "carry", TRUE))
         /\ i.function = "clc" => Correct(i, Flagged(Now, "carry", FALSE))
         /\ i.function = "cmc" => Correct(i, Flagged(Now, "carry", ~flags["carry"]))
<1>1. ASSUME NEW b
      PROVE  /\ Flagged(Now, "carry", b).result = "Ok" /\ Kept(Flagged(Now, "carry", b))
             /\ Flagged(Now, "carry", b).flags = [flags EXCEPT !["carry"] = b]
  BY DEF Flagged, Now, Kept
<1>2. ASSUME i.function = "stc" PROVE Correct(i, Flagged(Now, "carry", TRUE))
  <2>1. Promise!FlagsAfter(i) = [flags EXCEPT !["carry"] = TRUE]
    BY <1>2 DEF Promise!FlagsAfter, Promise!BitWrites
  <2> QED BY <1>1, <1>2, <2>1, IdlePromised, NoWriteCorrect
<1>3. ASSUME i.function = "clc" PROVE Correct(i, Flagged(Now, "carry", FALSE))
  <2>1. Promise!FlagsAfter(i) = [flags EXCEPT !["carry"] = FALSE]
    BY <1>3 DEF Promise!FlagsAfter, Promise!BitWrites
  <2> QED BY <1>1, <1>3, <2>1, IdlePromised, NoWriteCorrect
<1>4. ASSUME i.function = "cmc" PROVE Correct(i, Flagged(Now, "carry", ~flags["carry"]))
  <2>1. Promise!FlagsAfter(i) = [flags EXCEPT !["carry"] = ~flags["carry"]]
    BY <1>4 DEF Promise!FlagsAfter, Promise!BitWrites
  <2> QED BY <1>1, <1>4, <2>1, IdlePromised, NoWriteCorrect
<1> QED BY <1>2, <1>3, <1>4

(* cmovcc moves if the condition holds, and does not even read if not.     *)
LEMMA CmovccCorrect ==
  ASSUME Now \in Machines, NEW i \in Instrs, i.function = "cmovcc_native"
  PROVE  Correct(i, Cmovcc(i))
<1>1. Promise!Holds(i) <=> Matches(i) BY DEF Promise!Holds, Matches
<1>2. CASE Matches(i)
  <2>1. Cmovcc(i) = Mov(i) BY <1>2 DEF Cmovcc
  <2> QED BY <1>1, <1>2, <2>1, MovCorrect
<1>3. CASE ~Matches(i)
  <2>1. Cmovcc(i) = Now BY <1>3 DEF Cmovcc
  <2>2. Promise!FlagsAfter(i) = flags BY DEF Promise!FlagsAfter, Promise!BitWrites
  <2>3. Now.result = "Ok" /\ Kept(Now) /\ Now.flags = flags BY DEF Now, Kept
  <2> QED BY <1>1, <1>3, <2>1, <2>2, <2>3, IdlePromised, NoWriteCorrect
<1> QED BY <1>2, <1>3

(* setcc writes 1 or 0.                                                    *)
LEMMA SetccCorrect ==
  ASSUME Now \in Machines, NEW i \in Instrs, i.function = "setcc_8bit"
  PROVE  Correct(i, Setcc(i))
<1> DEFINE l == Arg1(i)
           n == IF Matches(i) THEN 1 ELSE 0
           v == Sized("Byte", n)
<1>1. IsPlace(l) /\ l.size = "Byte"
  BY InstrsAssumption DEF IsPlace, NoOperand, OneOperand, Destination, BitScans
<1>2. Width("Byte") = 1 /\ "Byte" \in Operand BY DEF Width, Operand
<1>3. Base \in Nat \ {0, 1} /\ Bytes(0) = 1 /\ Mask("Byte") = Base - 1 BY Widths, Masks
<1>4. n \in 0 .. Base - 1 BY <1>3
<1>5. IsNumberOf(v, "Byte") /\ v.n = n
  <2> HIDE DEF n
  <2> QED BY <1>3, <1>4, SizedIs
<1>6. Promise!Readable(i)
  <2>1. ~Promise!Refused(i) BY DEF Promise!Refused
  <2>2. Promise!Reads(i) = {} BY DEF Promise!Reads, Promise!BitWrites
  <2> QED BY <2>1, <2>2, ReadableIs
<1>7. Promise!FlagsAfter(i) = flags BY DEF Promise!FlagsAfter, Promise!BitWrites
<1>8. Digits(n, 1) = <<n>>
  <2> HIDE DEF n
  <2>1. Byte(n, 0) = n BY <1>4, ByteOfByte
  <2>2. \A k \in 1 .. 1 : k - 1 = 0 OBVIOUS
  <2>3. Digits(n, 1) = [k \in 1 .. 1 |-> n] BY <2>1, <2>2 DEF Digits, Byte
  <2> QED BY <2>3
<1>9. Promise!Written(i) = <<Promise!PlacesOf(l), Digits(v.n, 1)>>
  <2>1. Promise!Written(i) = <<Promise!Target(i), <<IF Promise!Holds(i) THEN 1 ELSE 0>> >>
    BY DEF Promise!Written, Promise!BitWrites
  <2>2. Promise!Holds(i) <=> Matches(i) BY DEF Promise!Holds, Matches
  <2>3. Promise!Target(i) = Promise!PlacesOf(l) BY DEF Promise!Target, Arg1
  <2>4. (IF Promise!Holds(i) THEN 1 ELSE 0) = n BY <2>2
  <2> HIDE DEF n, v, l
  <2> QED BY <1>5, <1>8, <2>1, <2>3, <2>4
<1>10. Now.regs = regs /\ Now.mem = mem /\ Now.result = "Ok" /\ Now.flags = flags BY DEF Now
<1>11. Width("Byte") <= Width(l.size) /\ Width(l.size) = 1 BY <1>1, <1>2
<1> HIDE DEF l, n, v
<1>12. Correct(i, Set(Now, l, v))
  BY <1>1, <1>2, <1>5, <1>6, <1>7, <1>9, <1>10, <1>11, SetCorrect
<1> QED BY <1>12 DEF Setcc, l, n, v

(* A number that is cut off is the lower ones of its bytes.                *)
LEMMA DigitsCut ==
  ASSUME NEW n \in Nat, NEW w \in 0 .. 8
  PROVE  Digits(n % Bytes(w), w) = Digits(n, w)
<1> DEFINE P == [k \in 0 .. 8 |-> Bytes(k)]
<1>1. /\ Base \in Nat \ {0} /\ PowersOf(P, Base, 8) /\ \A k \in 0 .. 8 : P[k] = Bytes(k)
  BY BytePowers
<1> HIDE DEF P
<1>2. 8 \in Nat OBVIOUS
<1>3. \A k \in 0 .. w - 1 : ((n % P[w]) \div P[k]) % Base = (n \div P[k]) % Base
  BY <1>1, <1>2, DigitsOfRemainder
<1>4. ASSUME NEW k \in 1 .. w
      PROVE  ((n % Bytes(w)) \div Bytes(k - 1)) % Base = (n \div Bytes(k - 1)) % Base
  <2>1. k - 1 \in 0 .. w - 1 /\ k - 1 \in 0 .. 8 OBVIOUS
  <2>2. P[w] = Bytes(w) /\ P[k - 1] = Bytes(k - 1) BY <1>1, <2>1
  <2>3. ((n % P[w]) \div P[k - 1]) % Base = (n \div P[k - 1]) % Base BY <1>3, <2>1
  <2> QED BY <2>2, <2>3
<1> QED BY <1>4 DEF Digits

(* lea writes the address, cut off at the size of the register.            *)
LEMMA LoadAddressCorrect ==
  ASSUME Now \in Machines, NEW i \in Instrs, i.function = "lea"
  PROVE  Correct(i, LoadAddress(i))
<1> DEFINE l == Arg1(i)
           q == Arg2(i)
           s == Native(i)
           a == AddressOf(Now, q)
           v == Trunc(Lea(Now, q), s)
<1>1. IsPlace(l) /\ l.size = s /\ IsArgument(q)
  BY InstrsAssumption DEF IsPlace, NoOperand, OneOperand, Destination, BitScans
<1>2. i.args[1] = l /\ i.args[2] = q BY DEF Arg1, Arg2
<1>3. s \in Operand /\ Width(s) = Promise!Width(i) /\ Width(s) \in {2, 4}
  BY DEF Native, Operand, Width, Promise!Width
<1>4. Promise!Readable(i) <=> q.kind \in Addresses
  <2>1. Promise!Refused(i) <=> q.kind \notin Addresses
    BY <1>1, <1>2, OperandIs DEF Promise!Refused
  <2>2. Promise!Reads(i) = {} BY DEF Promise!Reads, Promise!BitWrites
  <2> QED BY <2>1, <2>2, ReadableIs
<1>5. Promise!FlagsAfter(i) = flags BY DEF Promise!FlagsAfter, Promise!BitWrites
<1>6. Now.regs = regs /\ Now.mem = mem /\ Now.result = "Ok" /\ Now.flags = flags BY DEF Now
<1>7. CASE q.kind \in Addresses
  <2>1. IsNumberOf(Lea(Now, q), "Dword") /\ Lea(Now, q).n = a BY <1>1, <1>7, LeaTyped
  <2>2. v = Sized(s, a % Bytes(Width(s))) /\ IsNumberOf(v, s)
    <3> DEFINE x == Lea(Now, q)
    <3>1. "Dword" \in Operand BY DEF Operand
    <3> HIDE DEF x, a, s
    <3> QED BY <1>3, <2>1, <3>1, TruncTyped DEF x
  <2>3. a \in Nat
    <3>1. a \in 0 .. Mask("Dword") /\ Mask("Dword") \in Nat BY <1>1, <1>7, AddressTyped, Masks
    <3> QED BY <3>1
  <2> HIDE DEF a, s
  <2>4. v.n = a % Bytes(Width(s)) BY <2>2 DEF Sized
  <2>5. Digits(v.n, Width(s)) = Digits(a, Width(s)) BY <1>3, <2>3, <2>4, DigitsCut
  <2>6. Promise!Written(i) =
          <<Promise!Target(i), Promise!Bytes(Promise!Address(q), Promise!Width(i))>>
    BY <1>2 DEF Promise!Written, Promise!BitWrites
  <2>7. Promise!Address(q) = a BY <1>1, <1>7, AddressIs DEF a
  <2> HIDE DEF v, l, q
  <2>8. Promise!Written(i) = <<Promise!PlacesOf(l), Digits(v.n, Width(l.size))>>
    BY <1>1, <1>2, <1>3, <2>5, <2>6, <2>7, BytesIs DEF Promise!Target
  <2>9. Width(s) <= Width(l.size) BY <1>1, <1>3
  <2>10. Correct(i, Set(Now, l, v))
    BY <1>1, <1>3, <1>4, <1>5, <1>6, <1>7, <2>2, <2>8, <2>9, SetCorrect
  <2> QED BY <2>10 DEF LoadAddress, l, q, v, s
<1>8. CASE q.kind \notin Addresses
  <2>1. Lea(Now, q) = Error("InvalidOpcodeEncoding") /\ IsError(Lea(Now, q))
    BY <1>1, <1>8, LeaTyped
  <2>2. v = Lea(Now, q) BY <2>1, ValueFailed DEF Trunc
  <2> HIDE DEF v, q, l
  <2>3. LoadAddress(i) = Set(Now, l, v) BY DEF LoadAddress, v, l, q
  <2> QED BY <1>4, <1>8, <2>1, <2>2, <2>3, ErrorCorrect
<1> QED BY <1>7, <1>8

-----------------------------------------------------------------------------
(* Numbers with more bytes                                                 *)

(* Beyond its bytes a number is zero.                                      *)
LEMMA HighBytes ==
  ASSUME NEW v \in 0 .. 8, NEW n \in 0 .. Bytes(v) - 1
  PROVE  \A k \in v .. 8 : Byte(n, k) = 0
<1> SUFFICES ASSUME NEW k \in v .. 8 PROVE Byte(n, k) = 0 OBVIOUS
<1> DEFINE P == [j \in 0 .. 8 |-> Bytes(j)]
<1>1. /\ Base \in Nat \ {0} /\ PowersOf(P, Base, 8)
      /\ \A j \in 0 .. 8 : P[j] = Bytes(j) /\ Bytes(j) \in Nat \ {0}
  BY BytePowers
<1> HIDE DEF P
<1>2. k \in 0 .. 8 /\ v \in 0 .. k OBVIOUS
<1>3. PICK q \in Nat \ {0} : P[k] = P[v] * q
  <2>1. 8 \in Nat /\ Base \in Nat \ {0} /\ PowersOf(P, Base, 8) BY <1>1
  <2> QED BY <1>2, <2>1, PowersAre
<1> DEFINE a == Bytes(v)
           b == Bytes(k)
<1>4. a \in Nat \ {0} /\ b \in Nat \ {0} /\ b = a * q /\ n \in 0 .. a - 1
  BY <1>1, <1>2, <1>3
<1> HIDE DEF a, b
<1>5. a <= a * q BY <1>4
<1>6. n \in 0 .. b - 1 BY <1>4, <1>5
<1>7. n \div b = 0 BY <1>4, <1>6, Below
<1>8. 0 % Base = 0 BY <1>1
<1> QED BY <1>7, <1>8 DEF Byte, b

(* The greatest number of so many bytes is ones throughout.                *)
LEMMA Ones ==
  ASSUME NEW v \in 0 .. 8, NEW k \in 0 .. v - 1
  PROVE  Byte(Bytes(v) - 1, k) = Base - 1
<1> DEFINE P == [j \in 0 .. 8 |-> Bytes(j)]
<1>1. /\ Base \in Nat \ {0} /\ PowersOf(P, Base, 8)
      /\ \A j \in 0 .. 8 : P[j] = Bytes(j) /\ Bytes(j) \in Nat \ {0}
  BY BytePowers
<1> HIDE DEF P
<1>2. k \in 0 .. 8 /\ k + 1 \in 0 .. v /\ k + 1 \in 0 .. 8 /\ k \in 0 .. 8 - 1 OBVIOUS
<1>3. PICK q \in Nat \ {0} : P[v] = P[k + 1] * q
  <2>1. 8 \in Nat /\ Base \in Nat \ {0} /\ PowersOf(P, Base, 8) BY <1>1
  <2> QED BY <1>2, <2>1, PowersAre
<1> DEFINE p == Bytes(k)
           B == Base
<1>4. p \in Nat \ {0} /\ B \in Nat \ {0} BY <1>1, <1>2
<1>5. Bytes(k + 1) = B * p
  <2>1. P[k + 1] = Base * P[k] BY <1>1, <1>2 DEF PowersOf
  <2> QED BY <1>1, <1>2, <2>1
<1>6. Bytes(v) = (B * p) * q BY <1>1, <1>2, <1>3, <1>5
<1> HIDE DEF p, B
<1> DEFINE e == B * q - 1
<1>7. q \in Nat \ {0} /\ B * q \in Nat \ {0} /\ e \in Nat BY <1>4
<1>8. (B * p) * q - 1 = p * e + (p - 1)
  <2>1. (B * p) * q = p * (B * q) BY <1>4, <1>7
  <2>2. p * e = p * (B * q) - p
    <3> DEFINE x == B * q
    <3>1. x \in Nat BY <1>7
    <3> HIDE DEF x
    <3>2. p * (x - 1) = p * x - p BY <1>4, <3>1
    <3> QED BY <3>2 DEF x
  <2> DEFINE y == p * (B * q)
  <2>3. y \in Nat BY <1>4, <1>7
  <2> HIDE DEF y, e
  <2> QED BY <1>4, <2>1, <2>2, <2>3 DEF y
<1>9. (p * e + (p - 1)) \div p = e
  <2>1. p - 1 \in 0 .. p - 1 BY <1>4
  <2> HIDE DEF e
  <2> QED BY <1>4, <1>7, <2>1, DivUnique
<1>10. e = B * (q - 1) + (B - 1)
  <2> DEFINE x == q - 1
  <2>1. x \in Int /\ q = x + 1 BY <1>7
  <2>2. B * (x + 1) = B * x + B
    <3> HIDE DEF x
    <3> QED BY <1>4, <2>1
  <2>3. B * x \in Int BY <1>4, <2>1
  <2> DEFINE y == B * x
             z == B * q
  <2>4. z = y + B /\ y \in Int BY <2>1, <2>2, <2>3
  <2> HIDE DEF y, z
  <2>5. z - 1 = y + (B - 1) BY <1>4, <2>4
  <2> QED BY <2>5 DEF y, z
<1>11. e % B = B - 1
  <2>1. B - 1 \in 0 .. B - 1 /\ q - 1 \in Int BY <1>4, <1>7
  <2> HIDE DEF e
  <2> QED BY <1>4, <1>10, <2>1, DivUnique
<1> HIDE DEF e
<1> QED BY <1>6, <1>8, <1>9, <1>11 DEF Byte, p, B

(* The bytes of n, followed by some that are all b.                        *)
IsPadded(y, n, v, w, b) ==
  /\ \A k \in 0 .. v - 1 : Byte(y, k) = Byte(n, k)
  /\ \A k \in v .. w - 1 : Byte(y, k) = b

(* A number whose higher bytes are all the same.                           *)
LEMMA Padded ==
  ASSUME NEW w \in 0 .. 8, NEW v \in 0 .. w, NEW n \in Nat, NEW y, NEW b,
         IsPadded(y, n, v, w, b)
  PROVE  Digits(n, v) \o Promise!Filled(w - v, b) = Digits(y, w)
<1> DEFINE u == w - v
           xs == Digits(n, v)
           ys == Promise!Filled(u, b)
           zs == xs \o ys
<1>1. u \in Nat /\ v \in Nat /\ v + u = w OBVIOUS
<1> HIDE DEF u
<1>2. IsTuple(xs, v) /\ IsTuple(ys, u) BY DEF IsTuple, Digits, Promise!Filled
<1>3. \A k \in 1 .. v : xs[k] = Byte(n, k - 1) BY DEF Digits, Byte
<1>4. \A k \in 1 .. u : ys[k] = b BY DEF Promise!Filled
<1> HIDE DEF xs, ys, zs
<1>5. Follows(zs, xs, ys, v, u) BY <1>1, <1>2, Concatenated DEF zs
<1>6. ASSUME NEW k \in 1 .. w PROVE zs[k] = Byte(y, k - 1)
  <2>1. CASE k <= v
    <3>1. k \in 1 .. v /\ k - 1 \in 0 .. v - 1 BY <2>1
    <3> QED BY <1>3, <1>5, <3>1 DEF Follows, IsPadded
  <2>2. CASE k > v
    <3> DEFINE j == k - v
    <3>1. j \in 1 .. u /\ k = v + j /\ k - 1 \in v .. w - 1 BY <1>1, <2>2
    <3> HIDE DEF j
    <3>2. zs[v + j] = ys[j] BY <1>5, <3>1 DEF Follows
    <3> QED BY <1>4, <3>1, <3>2 DEF IsPadded
  <2> QED BY <2>1, <2>2
<1>7. zs \in [1 .. w -> {Byte(y, k - 1) : k \in 1 .. w}] /\ DOMAIN zs = 1 .. w
  <2>1. DOMAIN zs = 1 .. w BY <1>1, <1>5 DEF Follows
  <2>2. zs = [k \in DOMAIN zs |-> zs[k]]
    <3> DEFINE S == {xs[k] : k \in 1 .. v} \union {ys[k] : k \in 1 .. u}
    <3>1. xs \in [1 .. v -> S] /\ ys \in [1 .. u -> S]
      <4>1. \A k \in 1 .. v : xs[k] \in S OBVIOUS
      <4>2. \A k \in 1 .. u : ys[k] \in S OBVIOUS
      <4> HIDE DEF S
      <4> QED BY <1>2, <4>1, <4>2 DEF IsTuple
    <3> HIDE DEF S
    <3>2. xs \in Seq(S) /\ ys \in Seq(S) BY <1>1, <3>1, SequenceIs
    <3>3. zs \in Seq(S) BY <3>2 DEF zs
    <3> QED BY <3>3
  <2> QED BY <1>6, <2>1, <2>2
<1>8. Digits(y, w) = [k \in 1 .. w |-> Byte(y, k - 1)] BY DEF Digits, Byte
<1>9. zs = Digits(y, w) BY <1>6, <1>7, <1>8
<1> QED BY <1>9 DEF zs, xs, ys, u

(* Zero extension keeps the number.                                        *)
LEMMA ZerosIs ==
  ASSUME NEW w \in 0 .. 8, NEW v \in 0 .. w, NEW n \in 0 .. Bytes(v) - 1
  PROVE  Promise!Zeros(Digits(n, v), w) = Digits(n, w)
<1>1. v \in 0 .. 8 OBVIOUS
<1>2. n \in Nat
  <2>1. Bytes(v) \in Nat BY <1>1, BytePowers
  <2> QED BY <2>1
<1>3. Len(Digits(n, v)) = v BY <1>1, <1>2, DigitsType
<1>4. \A k \in v .. 8 : Byte(n, k) = 0 BY <1>1, HighBytes
<1>5. \A k \in v .. w - 1 : Byte(n, k) = 0
  <2>1. \A k \in v .. w - 1 : k \in v .. 8 OBVIOUS
  <2> QED BY <1>4, <2>1
<1>6. IsPadded(n, n, v, w, 0) BY <1>5 DEF IsPadded
<1>7. Digits(n, v) \o Promise!Filled(w - v, 0) = Digits(n, w) BY <1>2, <1>6, Padded
<1> QED BY <1>3, <1>7 DEF Promise!Zeros

(* A number with ones above its bytes.                                     *)
LEMMA OnesAbove ==
  ASSUME NEW w \in 0 .. 8, NEW v \in 0 .. w, NEW n \in 0 .. Bytes(v) - 1
  PROVE  LET y == (n + (Bytes(w) - 1)) - (Bytes(v) - 1)
         IN  IsPadded(y, n, v, w, Base - 1)
<1> DEFINE P == [j \in 0 .. 8 |-> Bytes(j)]
           u == w - v
           a == Bytes(v)
           b == Bytes(u)
           c == b - 1
           y == n + c * a
<1>1. /\ Base \in Nat \ {0} /\ PowersOf(P, Base, 8)
      /\ \A j \in 0 .. 8 : P[j] = Bytes(j) /\ Bytes(j) \in Nat \ {0}
  BY BytePowers
<1> HIDE DEF P
<1>2. u \in 0 .. 8 - v /\ v \in 0 .. 8 /\ u \in 0 .. 8 /\ v + u = w /\ 8 \in Nat OBVIOUS
<1> HIDE DEF u
<1>3. a \in Nat \ {0} /\ b \in Nat \ {0} /\ n \in 0 .. a - 1 /\ n \in Nat BY <1>1, <1>2
<1>4. Bytes(w) = a * b
  <2>1. P[v + u] = P[v] * P[u] BY <1>1, <1>2, PowersMultiply
  <2> QED BY <1>1, <1>2, <2>1
<1> HIDE DEF a, b
<1>5. c \in Nat BY <1>3
<1>6. (n + (a * b - 1)) - (a - 1) = y
  <2> DEFINE d == a * b
             e == c * a
  <2>1. e = d - a /\ d \in Nat /\ e \in Int
    <3>1. (b - 1) * a = a * b - a BY <1>3
    <3>2. a * b \in Nat /\ c * a \in Int BY <1>3, <1>5
    <3> QED BY <3>1, <3>2
  <2> HIDE DEF d, e, c
  <2>2. (n + (d - 1)) - (a - 1) = n + e BY <1>3, <2>1
  <2> QED BY <2>2 DEF d, e
<1> HIDE DEF c
<1>7. /\ \A k \in 0 .. v - 1 : (y \div P[k]) % Base = (n \div P[k]) % Base
      /\ \A k \in 0 .. 8 - v : y \div P[v + k] = c \div P[k]
  <2>1. P[v] = a BY <1>1, <1>2 DEF a
  <2>2. n \in 0 .. P[v] - 1 BY <1>3, <2>1
  <2>3. v \in 0 .. 8 /\ 8 \in Nat OBVIOUS
  <2>4. AreStacked(n + c * P[v], n, c, Base, P, 8, v)
    BY <1>1, <1>5, <2>2, <2>3, StackedDigits
  <2> HIDE DEF y
  <2>5. AreStacked(y, n, c, Base, P, 8, v) BY <2>1, <2>4 DEF y
  <2> QED BY <2>5 DEF AreStacked
<1>9. ASSUME NEW k \in 0 .. v - 1 PROVE Byte(y, k) = Byte(n, k)
  <2>1. k \in 0 .. 8 OBVIOUS
  <2>2. P[k] = Bytes(k) BY <1>1, <2>1
  <2>3. (y \div P[k]) % Base = (n \div P[k]) % Base BY <1>7
  <2> QED BY <2>2, <2>3 DEF Byte
<1>10. ASSUME NEW k \in v .. w - 1 PROVE Byte(y, k) = Base - 1
  <2> DEFINE j == k - v
  <2>1. j \in 0 .. u - 1 /\ j \in 0 .. 8 - v /\ v + j = k /\ k \in 0 .. 8 /\ j \in 0 .. 8 BY <1>2
  <2> HIDE DEF j
  <2>2. y \div P[v + j] = c \div P[j] BY <1>7, <2>1
  <2>3. P[k] = Bytes(k) /\ P[j] = Bytes(j) BY <1>1, <2>1
  <2>4. Byte(b - 1, j) = Base - 1 BY <1>2, <2>1, Ones DEF b
  <2> QED BY <2>1, <2>2, <2>3, <2>4 DEF Byte, c
<1> HIDE DEF y
<1> QED BY <1>4, <1>6, <1>9, <1>10 DEF a, IsPadded

(* The sign of a number is that of its last byte.                          *)
LEMMA TopBit ==
  ASSUME NEW s \in Operand
  PROVE  LET h == 2 ^ (ByteBits * Width(s) - 1)
         IN  h \in Nat \ {0} /\ Bytes(Width(s)) = 2 * h
<1> DEFINE w == Width(s)
           k == ByteBits * w - 1
<1>1. w \in {1, 2, 4} BY DEF Operand, Width
<1>2. w \in 0 .. 8 /\ w > 0 BY <1>1
<1> HIDE DEF w
<1>3. ByteBits * w \in 0 .. 8 * ByteBits + 1 /\ Bytes(w) = 2 ^ (ByteBits * w)
      /\ ByteBits * w \in Nat \ {0, 1}
  BY <1>2, BitRange
<1>4. k \in 0 .. 8 * ByteBits /\ k + 1 = ByteBits * w
  <2> DEFINE b == ByteBits * w
             N == 8 * ByteBits
  <2>1. N \in Nat BY OperandsAssumption
  <2> HIDE DEF b, N
  <2> QED BY <1>3, <2>1 DEF b, N
<1>5. k \in 0 .. ByteBits * Width(s) - 1
  <2> DEFINE b == ByteBits * w
  <2> HIDE DEF b
  <2>1. b - 1 \in 0 .. b - 1 BY <1>3 DEF b
  <2> QED BY <2>1 DEF b, w
<1> HIDE DEF k
<1>6. 2 ^ (k + 1) = 2 * 2 ^ k BY <1>4, PowerAssumption
<1>7. 2 ^ k \in Nat \ {0} BY <1>5, BitIs
<1> QED BY <1>3, <1>4, <1>6, <1>7 DEF k, w

(* The sign bit is set in the upper half of the numbers.                   *)
LEMMA NegativeIs ==
  ASSUME NEW s \in Operand, NEW n \in 0 .. Mask(s)
  PROVE  Negative(s, n) <=> n >= 2 ^ (ByteBits * Width(s) - 1)
<1> DEFINE w == Width(s)
           h == 2 ^ (ByteBits * w - 1)
<1>1. Negative(s, n) <=> (n \div h) % 2 = 1 BY DEF Negative, Bit
<1>2. h \in Nat \ {0} /\ Bytes(w) = 2 * h BY TopBit
<1>3. n \in Nat /\ n < 2 * h
  <2>1. Mask(s) = Bytes(w) - 1 BY DEF Mask
  <2> HIDE DEF h, w
  <2> QED BY <1>2, <2>1
<1> HIDE DEF h, w
<1>4. (n \div h) % 2 = 1 <=> n >= h
  <2> DEFINE q == n \div h
             r == n % h
  <2>1. q \in Int /\ r \in 0 .. h - 1 /\ n = h * q + r
    <3>1. n \in Int BY <1>3
    <3> QED BY <1>2, <3>1, DivMod
  <2> HIDE DEF q, r
  <2>2. q = 0 \/ q = 1
    <3>1. q < 2
      <4>1. h * q < h * 2
        <5> DEFINE x == h * q
        <5>1. x \in Int /\ n = x + r BY <1>2, <2>1
        <5> HIDE DEF x
        <5>2. x < h * 2 BY <1>2, <1>3, <2>1, <5>1
        <5> QED BY <5>2 DEF x
      <4>2. 2 \in Int OBVIOUS
      <4> QED BY <1>2, <2>1, <4>1, <4>2, ProductOrder
    <3>2. q >= 0
      <4>1. h * (0 - 1) < h * q
        <5> DEFINE x == h * q
        <5>1. x \in Int /\ n = x + r BY <1>2, <2>1
        <5> HIDE DEF x
        <5>2. 0 - h < x BY <1>2, <1>3, <2>1, <5>1
        <5>3. h * (0 - 1) = 0 - h BY <1>2
        <5> QED BY <5>2, <5>3 DEF x
      <4>2. 0 - 1 \in Int OBVIOUS
      <4>3. 0 - 1 < q BY <1>2, <2>1, <4>1, <4>2, ProductOrder
      <4> QED BY <2>1, <4>3
    <3> QED BY <2>1, <3>1, <3>2
  <2>3. CASE q = 0
    <3>1. n = r BY <1>2, <2>1, <2>3
    <3>2. 0 % 2 = 0 OBVIOUS
    <3> QED BY <1>2, <2>1, <2>3, <3>1, <3>2 DEF q
  <2>4. CASE q = 1
    <3>1. n = h + r BY <1>2, <2>1, <2>4
    <3>2. 1 % 2 = 1 OBVIOUS
    <3> QED BY <1>2, <2>1, <2>4, <3>1, <3>2 DEF q
  <2> QED BY <2>2, <2>3, <2>4
<1> QED BY <1>1, <1>4 DEF h, w

(* The promise's sign byte is that of the model's sign bit.                *)
LEMMA SignIs ==
  ASSUME NEW s \in Operand, NEW n \in 0 .. Mask(s)
  PROVE  Promise!Sign(Digits(n, Width(s))) = IF Negative(s, n) THEN Base - 1 ELSE 0
<1> DEFINE w == Width(s)
           h == 2 ^ (ByteBits * w - 1)
           g == 2 ^ (ByteBits - 1)
           p == Bytes(w - 1)
           d == n \div p
<1>1. w \in {1, 2, 4} /\ w - 1 \in 0 .. 8 /\ w \in 0 .. 8 /\ w > 0 /\ (w - 1) + 1 = w
  BY DEF Operand, Width
<1>2. h \in Nat \ {0} /\ Bytes(w) = 2 * h BY TopBit
<1>3. g \in Nat \ {0} /\ Base = 2 * g
  <2>1. Width("Byte") = 1 /\ "Byte" \in Operand BY DEF Width, Operand
  <2>2. LET x == 2 ^ (ByteBits * 1 - 1) IN x \in Nat \ {0} /\ Bytes(1) = 2 * x
    BY <2>1, TopBit
  <2>3. ByteBits * 1 = ByteBits BY OperandsAssumption
  <2> QED BY <2>2, <2>3, Widths
<1>4. Mask(s) = Bytes(w) - 1 BY DEF Mask
<1>5. p \in Nat \ {0} BY <1>1, BytePowers
<1>6. Bytes(w) = Base * p
  <2> DEFINE v == w - 1
  <2>1. v \in 0 .. 8 /\ v + 1 = w BY <1>1
  <2> HIDE DEF v, w
  <2>2. Bytes(v + 1) = Base * Bytes(v) BY <2>1, PowerAssumption
  <2> QED BY <2>1, <2>2 DEF v
<1>8. Base \in Nat \ {0} BY BytePowers
<1> HIDE DEF w, h, g, p
<1>9. n \in Nat /\ n < 2 * h /\ n < Base * p BY <1>2, <1>4, <1>6
<1>10. h = g * p
  <2>1. 2 * h = (2 * g) * p BY <1>2, <1>3, <1>6
  <2> DEFINE x == g * p
  <2>2. (2 * g) * p = 2 * x /\ x \in Nat BY <1>3, <1>5
  <2> HIDE DEF x
  <2>3. h = x BY <1>2, <2>1, <2>2
  <2> QED BY <2>3 DEF x
<1>11. Negative(s, n) <=> n >= h BY NegativeIs DEF h, w
<1>12. d \in 0 .. Base - 1 /\ (d * 2 >= Base <=> n >= h)
  <2> DEFINE r == n % p
  <2>1. d \in Int /\ r \in 0 .. p - 1 /\ n = p * d + r
    <3>1. n \in Int BY <1>9
    <3> QED BY <1>5, <3>1, DivMod
  <2>2. d \in Nat
    <3>1. d \in 0 .. n BY <1>5, <1>9, QuotientBelow
    <3> QED BY <1>9, <3>1
  <2> HIDE DEF d, r
  <2>3. d < Base
    <3>1. p * d < p * Base
      <4> DEFINE x == p * d
                 y == p * Base
      <4>1. x \in Int /\ n = x + r /\ y = Base * p /\ y \in Int BY <1>5, <1>8, <2>1
      <4> HIDE DEF x, y
      <4>2. x < y BY <1>9, <2>1, <4>1
      <4> QED BY <4>2 DEF x, y
    <3> QED BY <1>5, <1>8, <2>1, <3>1, ProductOrder
  <2>4. d >= g <=> n >= h
    <3> DEFINE x == p * d
               y == p * g
    <3>1. x \in Int /\ n = x + r /\ y = h /\ y \in Int BY <1>3, <1>5, <1>10, <2>1
    <3>2. ASSUME d >= g PROVE n >= h
      <4>1. p * g <= p * d BY <1>3, <1>5, <2>1, <3>2, ProductOrder
      <4> HIDE DEF x, y
      <4>2. y <= x BY <4>1 DEF x, y
      <4> QED BY <2>1, <3>1, <4>2
    <3>3. ASSUME d < g PROVE n < h
      <4>1. p * (d + 1) <= p * g
        <5>1. d + 1 \in Int /\ d + 1 <= g /\ g \in Int BY <1>3, <2>1, <3>3
        <5> QED BY <1>5, <5>1, ProductOrder
      <4>2. p * (d + 1) = p * d + p BY <1>5, <2>1
      <4> HIDE DEF x, y
      <4>3. x + p <= y BY <4>1, <4>2 DEF x, y
      <4> QED BY <1>5, <2>1, <3>1, <4>3
    <3>4. h \in Int /\ g \in Int BY <1>2, <1>3
    <3> QED BY <1>9, <2>1, <3>2, <3>3, <3>4
  <2> QED BY <1>3, <2>2, <2>3, <2>4
<1>13. Promise!Last(Digits(n, w)) = d
  <2>1. Len(Digits(n, w)) = w BY <1>1, <1>9, DigitsType
  <2>2. w \in 1 .. w BY <1>1
  <2>3. Digits(n, w)[w] = d % Base BY <2>2 DEF Digits, p
  <2>4. d % Base = d
    <3> HIDE DEF d
    <3> QED BY <1>8, <1>12, Below
  <2> QED BY <2>1, <2>3, <2>4 DEF Promise!Last
<1> HIDE DEF d
<1>14. Promise!Values = Base /\ Promise!AllOnes = Base - 1
  BY DEF Promise!Values, Promise!AllOnes, Base
<1> QED BY <1>11, <1>12, <1>13, <1>14 DEF Promise!Sign, w

(* The bytes of a number that uN_sx has extended.                          *)
LEMMA SignedIs ==
  ASSUME NEW s \in Operand, NEW t \in Operand, Width(t) <= Width(s), NEW n \in 0 .. Mask(t)
  PROVE  Promise!Signed(Digits(n, Width(t)), Width(s)) =
           Digits(IF Negative(t, n) THEN (n + Mask(s)) - Mask(t) ELSE n, Width(s))
<1> DEFINE w == Width(s)
           v == Width(t)
           y == IF Negative(t, n) THEN (n + Mask(s)) - Mask(t) ELSE n
           xs == Digits(n, v)
<1>1. w \in 0 .. 8 /\ v \in 0 .. w /\ v \in 0 .. 8 BY DEF Operand, Width
<1>2. Mask(s) = Bytes(w) - 1 /\ Mask(t) = Bytes(v) - 1 BY DEF Mask
<1>3. n \in 0 .. Bytes(v) - 1 BY <1>2
<1>4. n \in Nat
  <2>1. Bytes(v) \in Nat BY <1>1, BytePowers
  <2> QED BY <1>3, <2>1
<1>5. Promise!Sign(xs) = IF Negative(t, n) THEN Base - 1 ELSE 0 BY SignIs
<1>6. Len(xs) = v BY <1>1, <1>4, DigitsType
<1> HIDE DEF w, v, xs
<1>7. Promise!Signed(xs, w) = xs \o Promise!Filled(w - v, Promise!Sign(xs))
  BY <1>6 DEF Promise!Signed
<1>8. CASE Negative(t, n)
  <2>1. y = (n + (Bytes(w) - 1)) - (Bytes(v) - 1) BY <1>2, <1>8
  <2>2. LET z == (n + (Bytes(w) - 1)) - (Bytes(v) - 1)
        IN  IsPadded(z, n, v, w, Base - 1)
    BY <1>1, <1>3, OnesAbove
  <2> HIDE DEF y
  <2>3. IsPadded(y, n, v, w, Base - 1) BY <2>1, <2>2
  <2>4. Digits(n, v) \o Promise!Filled(w - v, Base - 1) = Digits(y, w)
    BY <1>1, <1>4, <2>3, Padded
  <2> QED BY <1>5, <1>7, <1>8, <2>4 DEF w, v, xs, y
<1>9. CASE ~Negative(t, n)
  <2>1. y = n BY <1>9
  <2>2. Promise!Zeros(xs, w) = Digits(n, w) BY <1>1, <1>3, ZerosIs DEF xs
  <2>3. Promise!Zeros(xs, w) = xs \o Promise!Filled(w - v, 0) BY <1>6 DEF Promise!Zeros
  <2>4. Promise!Sign(xs) = 0 BY <1>5, <1>9
  <2> HIDE DEF y
  <2> QED BY <1>7, <2>1, <2>2, <2>3, <2>4 DEF w, v, xs, y
<1> QED BY <1>8, <1>9

-----------------------------------------------------------------------------
(* movzx and movsx                                                         *)

(* What the promise says of movzx and movsx.                               *)
LEMMA ExtendPromised ==
  ASSUME NEW i, i.function \in {"movzx_8bit", "movzx_16bit", "movsx_8bit", "movsx_16bit"}
  PROVE  /\ ~Promise!Refused(i) /\ Promise!Reads(i) = {i.args[2]}
         /\ Promise!FlagsAfter(i) = flags
         /\ i.function = "movzx_8bit" => Promise!Written(i) =
              <<Promise!Target(i), Promise!Zeros(Promise!Source(i), Promise!Width(i))>>
         /\ i.function = "movsx_8bit" => Promise!Written(i) =
              <<Promise!Target(i), Promise!Signed(Promise!Source(i), Promise!Width(i))>>
         /\ i.function = "movzx_16bit" => Promise!Written(i) =
              <<Promise!Target(i), Promise!Zeros(Promise!Source(i), 4)>>
         /\ i.function = "movsx_16bit" => Promise!Written(i) =
              <<Promise!Target(i), Promise!Signed(Promise!Source(i), 4)>>
<1>1. ~Promise!Refused(i) BY DEF Promise!Refused
<1>2. Promise!Reads(i) = {i.args[2]} BY DEF Promise!Reads, Promise!BitWrites
<1>3. Promise!FlagsAfter(i) = flags BY DEF Promise!FlagsAfter, Promise!BitWrites
<1>4. i.function = "movzx_8bit" => Promise!Written(i) =
        <<Promise!Target(i), Promise!Zeros(Promise!Source(i), Promise!Width(i))>>
  BY DEF Promise!Written, Promise!BitWrites
<1>5. i.function = "movsx_8bit" => Promise!Written(i) =
        <<Promise!Target(i), Promise!Signed(Promise!Source(i), Promise!Width(i))>>
  BY DEF Promise!Written, Promise!BitWrites
<1>6. i.function = "movzx_16bit" => Promise!Written(i) =
        <<Promise!Target(i), Promise!Zeros(Promise!Source(i), 4)>>
  BY DEF Promise!Written, Promise!BitWrites
<1>7. i.function = "movsx_16bit" => Promise!Written(i) =
        <<Promise!Target(i), Promise!Signed(Promise!Source(i), 4)>>
  BY DEF Promise!Written, Promise!BitWrites
<1> QED BY <1>1, <1>2, <1>3, <1>4, <1>5, <1>6, <1>7

(* An extended value goes to a place of its size.                          *)
LEMMA ExtendCorrect ==
  ASSUME Now \in Machines, NEW i \in Instrs,
         i.function \in {"movzx_8bit", "movzx_16bit", "movsx_8bit", "movsx_16bit"},
         NEW s \in Operand, IsPlace(Arg1(i)), Arg1(i).size = s,
         IsArgument(Arg2(i)), Width(Arg2(i).size) <= Width(s),
         NEW v, Failed(Get(Now, Arg2(i))) => v = Get(Now, Arg2(i)),
         ~Failed(Get(Now, Arg2(i))) =>
           /\ IsNumberOf(v, s)
           /\ Promise!Written(i) = <<Promise!Target(i), Digits(v.n, Width(s))>>
  PROVE  Correct(i, Set(Now, Arg1(i), v))
<1> DEFINE l == Arg1(i)
           q == Arg2(i)
<1>1. i.args[1] = l /\ i.args[2] = q BY DEF Arg1, Arg2
<1>2. Promise!Readable(i) <=> CanRead(q)
  <2>1. i.function \notin {"xlatb", "cmpxchg8b"} OBVIOUS
  <2> QED BY <1>1, <2>1, ExtendPromised, ReadableIs, OperandRead
<1>3. Now.regs = regs /\ Now.mem = mem /\ Now.result = "Ok" /\ Now.flags = flags BY DEF Now
<1>4. CASE CanRead(q)
  <2>1. ~Failed(Get(Now, q)) BY <1>4, GetReads
  <2>2. Promise!Written(i) = <<Promise!PlacesOf(l), Digits(v.n, Width(l.size))>>
    BY <1>1, <2>1 DEF Promise!Target
  <2>3. Width(s) <= Width(l.size) BY DEF Operand, Width
  <2> QED BY <1>2, <1>3, <1>4, <2>1, <2>2, <2>3, ExtendPromised, SetCorrect
<1>5. CASE ~CanRead(q)
  <2>1. Failed(Get(Now, q)) /\ IsError(Get(Now, q)) BY <1>5, GetReads
  <2>2. IsError(v) BY <2>1
  <2> QED BY <1>2, <1>5, <2>2, ErrorCorrect
<1> QED BY <1>4, <1>5

(* movzx and movsx, from a byte and from a word.                           *)
LEMMA MovExtendCorrect ==
  ASSUME Now \in Machines, NEW i \in Instrs
  PROVE  /\ i.function = "movzx_8bit" => Correct(i, MovZX(i, Native(i)))
         /\ i.function = "movzx_16bit" => Correct(i, MovZX(i, "Dword"))
         /\ i.function = "movsx_8bit" => Correct(i, MovSX(i, Native(i)))
         /\ i.function = "movsx_16bit" => Correct(i, MovSX(i, "Dword"))
<1> SUFFICES ASSUME i.function \in {"movzx_8bit", "movzx_16bit", "movsx_8bit", "movsx_16bit"}
             PROVE  LET s == IF i.function \in {"movzx_8bit", "movsx_8bit"} THEN Native(i)
                             ELSE "Dword"
                    IN  Correct(i, IF i.function \in {"movzx_8bit", "movzx_16bit"}
                                   THEN MovZX(i, s) ELSE MovSX(i, s))
  OBVIOUS
<1> DEFINE s == IF i.function \in {"movzx_8bit", "movsx_8bit"} THEN Native(i) ELSE "Dword"
           l == Arg1(i)
           q == Arg2(i)
           t == q.size
           x == Get(Now, q)
           w == Width(s)
<1>1. /\ IsPlace(l) /\ IsArgument(q) /\ l.size = s
      /\ t = IF i.function \in {"movzx_8bit", "movsx_8bit"} THEN "Byte" ELSE "Word"
  BY InstrsAssumption DEF IsPlace, NoOperand, OneOperand, Destination, BitScans
<1>2. Native(i) \in {"Word", "Dword"} /\ Width(Native(i)) = Promise!Width(i) /\ Width("Dword") = 4
  BY NativeIs DEF Native, Width, Promise!Width
<1>3. s \in Operand /\ t \in Operand /\ Width(t) <= Width(s)
  BY <1>1, <1>2 DEF Operand, Width
<1>4. w = IF i.function \in {"movzx_8bit", "movsx_8bit"} THEN Promise!Width(i) ELSE 4
  BY <1>2
<1>5. i.args[2] = q BY DEF Arg2
<1>6. ~Failed(x) => IsNumberOf(x, t) /\ Promise!Source(i) = Digits(x.n, Width(t))
  <2>1. CanRead(q) => IsNumberOf(x, t) /\ Promise!Contents(q) = Digits(x.n, Width(t))
    BY <1>1, GetReads
  <2>2. ~CanRead(q) => Failed(x) BY <1>1, GetReads
  <2> HIDE DEF x, t
  <2> QED BY <1>5, <2>1, <2>2 DEF Promise!Source
<1> HIDE DEF s, l, q, t, x, w
<1>7. CASE i.function \in {"movzx_8bit", "movzx_16bit"}
  <2> DEFINE v == ZX(x, s)
  <2>1. Failed(x) => v = x BY DEF ZX, Fitting
  <2>2. ASSUME ~Failed(x)
        PROVE  IsNumberOf(v, s) /\ Promise!Written(i) = <<Promise!Target(i), Digits(v.n, w)>>
    <3>1. IsNumberOf(x, t) BY <1>6, <2>2
    <3>2. ~IsError(x) BY <2>2, ValueFailed
    <3>3. v = Sized(s, x.n) /\ IsNumberOf(v, s) BY <1>3, <3>1, <3>2, ZXTyped
    <3>4. v.n = x.n BY <3>3 DEF Sized
    <3> HIDE DEF v
    <3>5. Promise!Zeros(Digits(x.n, Width(t)), w) = Digits(x.n, w)
      <4>1. w \in 0 .. 8 /\ Width(t) \in 0 .. w BY <1>3 DEF w, Operand, Width
      <4>2. x.n \in 0 .. Bytes(Width(t)) - 1 BY <3>1 DEF IsNumberOf, Mask
      <4> QED BY <4>1, <4>2, ZerosIs
    <3>6. Promise!Written(i) = <<Promise!Target(i), Promise!Zeros(Promise!Source(i), w)>>
      BY <1>4, <1>7, ExtendPromised
    <3> QED BY <1>6, <2>2, <3>3, <3>4, <3>5, <3>6
  <2> HIDE DEF v
  <2>3. Correct(i, Set(Now, Arg1(i), v))
    BY <1>1, <1>3, <2>1, <2>2, ExtendCorrect DEF l, q, x, w, t
  <2> QED BY <1>7, <2>3 DEF MovZX, v, x, q, s
<1>8. CASE i.function \in {"movsx_8bit", "movsx_16bit"}
  <2> DEFINE v == SX(x, s)
  <2>1. Failed(x) => v = x BY DEF SX, Fitting
  <2>2. ASSUME ~Failed(x)
        PROVE  IsNumberOf(v, s) /\ Promise!Written(i) = <<Promise!Target(i), Digits(v.n, w)>>
    <3> DEFINE n == IF Negative(t, x.n) THEN (x.n + Mask(s)) - Mask(t) ELSE x.n
    <3>1. IsNumberOf(x, t) BY <1>6, <2>2
    <3>2. ~IsError(x) BY <2>2, ValueFailed
    <3>3. v = Sized(s, n) /\ IsNumberOf(v, s)
      <4>1. x.size = t BY <3>1 DEF IsNumberOf
      <4>2. LET m == IF Negative(x.size, x.n) THEN (x.n + Mask(s)) - Mask(x.size) ELSE x.n
            IN  IF IsError(x) THEN SX(x, s) = x
                ELSE SX(x, s) = Sized(s, m) /\ IsNumberOf(SX(x, s), s)
        BY <1>3, <3>1, SXTyped
      <4> QED BY <3>2, <4>1, <4>2
    <3> HIDE DEF n
    <3>4. v.n = n BY <3>3 DEF Sized
    <3> HIDE DEF v
    <3>5. Promise!Signed(Digits(x.n, Width(t)), w) = Digits(n, w)
      <4>1. x.n \in 0 .. Mask(t) BY <3>1 DEF IsNumberOf
      <4> QED BY <1>3, <4>1, SignedIs DEF w, n
    <3>6. Promise!Written(i) = <<Promise!Target(i), Promise!Signed(Promise!Source(i), w)>>
      BY <1>4, <1>8, ExtendPromised
    <3> QED BY <1>6, <2>2, <3>3, <3>4, <3>5, <3>6
  <2> HIDE DEF v
  <2>3. Correct(i, Set(Now, Arg1(i), v))
    BY <1>1, <1>3, <2>1, <2>2, ExtendCorrect DEF l, q, x, w, t
  <2> QED BY <1>8, <2>3 DEF MovSX, v, x, q, s
<1> QED BY <1>7, <1>8

-----------------------------------------------------------------------------
(* Instructions on fixed registers                                         *)

Whole(r, s) == [kind |-> "RegisterValue", reg |-> r, size |-> s]

(* al, ax, eax and their like are places from the lowest byte on.          *)
LEMMA FixedRegister ==
  ASSUME Now \in Machines, NEW r \in 0 .. 3, NEW s \in Operand
  PROVE  /\ IsArgument(Whole(r, s)) /\ Whole(r, s).kind = "RegisterValue"
         /\ Whole(r, s).reg = r /\ Whole(r, s).size = s
         /\ Promise!PlacesOf(Whole(r, s)) = Promise!Register(r, Width(s))
         /\ Promise!Register(r, Width(s)) = RegisterPlaces(r, 0, Width(s))
         /\ IsNumberOf(GetReg(Now, r, s), s) /\ GetReg(Now, r, s).n \in Nat
         /\ Promise!At(Promise!Register(r, Width(s))) = Digits(GetReg(Now, r, s).n, Width(s))
<1> DEFINE l == Whole(r, s)
           w == Width(s)
           v == GetReg(Now, r, s)
<1>1. l.kind = "RegisterValue" /\ l.reg = r /\ l.size = s BY DEF Whole
<1>2. s \in {"Byte", "Word", "Dword"} /\ r \in 0 .. 7 /\ r \in Registers
  BY DEF Operand, Registers
<1> HIDE DEF l
<1>3. IsArgument(l) BY <1>1, <1>2 DEF IsArgument, Addresses, Registers
<1>4. Holder(l) = r /\ Offset(l) = 0 BY <1>1, <1>3, RegisterOperand
<1>5. w \in 1 .. 4 BY <1>2 DEF Width
<1>6. Promise!PlacesOf(l) = RegisterPlaces(r, 0, w) BY <1>1, <1>3, <1>4, RegisterOperand
<1>7. Promise!Register(r, w) = RegisterPlaces(r, 0, w)
  BY <1>2, <1>5, WholeRegister
<1>8. CanRead(l) BY <1>1, <1>3, OperandIs
<1>9. Get(Now, l) = v BY <1>1 DEF Get
<1> HIDE DEF v, w
<1>10. IsNumberOf(v, s) /\ v.n \in Nat /\ Promise!Contents(l) = Digits(v.n, w)
  BY <1>1, <1>3, <1>8, <1>9, GetReads DEF w
<1>11. Promise!Contents(l) = Promise!At(Promise!PlacesOf(l))
  <2>1. IsPlace(l) BY <1>1, <1>3 DEF IsPlace
  <2> QED BY <2>1, PlacesTuple
<1> QED BY <1>1, <1>3, <1>6, <1>7, <1>10, <1>11 DEF l, v, w

(* An instruction that writes to one of them.                              *)
LEMMA FixedCorrect ==
  ASSUME Now \in Machines, NEW r \in 0 .. 3, NEW s \in Operand, NEW v, IsNumberOf(v, s),
         NEW i, Promise!Readable(i), Promise!FlagsAfter(i) = flags,
         Promise!Written(i) = <<Promise!Register(r, Width(s)), Digits(v.n, Width(s))>>
  PROVE  Correct(i, SetReg(Now, r, v))
<1> DEFINE l == Whole(r, s)
<1>1. /\ IsArgument(l) /\ l.kind = "RegisterValue" /\ l.reg = r /\ l.size = s
      /\ Promise!PlacesOf(l) = Promise!Register(r, Width(s))
  BY FixedRegister
<1> HIDE DEF l
<1>2. Correct(i, SetReg(Now, l.reg, v)) BY <1>1, SetRegCorrect
<1> QED BY <1>1, <1>2

(* What the promise says of the flags of such instructions.                *)
LEMMA FixedPromised ==
  ASSUME NEW i, i.function \in {"cbw_cwde", "cdq_cwd", "xlatb", "lahf"}
  PROVE  /\ Promise!FlagsAfter(i) = flags
         /\ i.function # "xlatb" => Promise!Readable(i)
         /\ i.function = "xlatb" =>
              (Promise!Readable(i) <=> Promise!Accessible(Promise!Translated(i)))
         /\ i.function = "cbw_cwde" => Promise!Written(i) =
              IF i.size_override
              THEN <<Promise!AX(2), Promise!Signed(Promise!At(Promise!AX(1)), 2)>>
              ELSE <<Promise!AX(4), Promise!At(Promise!AX(2))
                       \o Promise!Filled(2, Promise!SignOfWord(Promise!At(Promise!AX(2))))>>
         /\ i.function = "cdq_cwd" => Promise!Written(i) =
              <<Promise!DX(Promise!Width(i)),
                Promise!Filled(Promise!Width(i),
                               Promise!Sign(Promise!At(Promise!AX(Promise!Width(i)))))>>
         /\ i.function = "xlatb" => Promise!Written(i) =
              <<Promise!AX(1), Promise!At(Promise!Translated(i))>>
         /\ i.function = "lahf" => Promise!Written(i) =
              <<Promise!SecondOfAX, Promise!Packed(Promise!FlagsRegister, 1)>>
<1>1. Promise!FlagsAfter(i) = flags BY DEF Promise!FlagsAfter, Promise!BitWrites
<1>2. ~Promise!Refused(i) BY DEF Promise!Refused
<1>3. Promise!Reads(i) = {} BY DEF Promise!Reads, Promise!BitWrites
<1>4. i.function # "xlatb" => Promise!Readable(i) BY <1>2, <1>3, ReadableIs
<1>5. ASSUME i.function = "xlatb"
      PROVE  Promise!Readable(i) <=> Promise!Accessible(Promise!Translated(i))
  <2>1. Promise!Read(i) = {Promise!Translated(i)}
    BY <1>3, <1>5 DEF Promise!Read
  <2> QED BY <1>2, <2>1 DEF Promise!Readable
<1>6. i.function = "cbw_cwde" => Promise!Written(i) =
        IF i.size_override
        THEN <<Promise!AX(2), Promise!Signed(Promise!At(Promise!AX(1)), 2)>>
        ELSE <<Promise!AX(4), Promise!At(Promise!AX(2))
                 \o Promise!Filled(2, Promise!SignOfWord(Promise!At(Promise!AX(2))))>>
  BY DEF Promise!Written, Promise!BitWrites
<1>7. i.function = "cdq_cwd" => Promise!Written(i) =
        <<Promise!DX(Promise!Width(i)),
          Promise!Filled(Promise!Width(i),
                         Promise!Sign(Promise!At(Promise!AX(Promise!Width(i)))))>>
  BY DEF Promise!Written, Promise!BitWrites
<1>8. i.function = "xlatb" => Promise!Written(i) =
        <<Promise!AX(1), Promise!At(Promise!Translated(i))>>
  BY DEF Promise!Written, Promise!BitWrites
<1>9. i.function = "lahf" => Promise!Written(i) =
        <<Promise!SecondOfAX, Promise!Packed(Promise!FlagsRegister, 1)>>
  BY DEF Promise!Written, Promise!BitWrites
<1> QED BY <1>1, <1>4, <1>5, <1>6, <1>7, <1>8, <1>9

(* cdq and cwd fill (e)dx with the sign of (e)ax.                          *)
LEMMA CdqCwdCorrect ==
  ASSUME Now \in Machines, NEW i \in Instrs, i.function = "cdq_cwd"
  PROVE  Correct(i, CdqCwd(i))
<1> DEFINE s == Native(i)
           w == Width(s)
           n == GetReg(Now, 0, s).n
           b == IF Negative(s, n) THEN Base - 1 ELSE 0
           x == IF Negative(s, n) THEN Mask(s) ELSE 0
           v == Sized(s, x)
<1>1. s \in Operand /\ w = Promise!Width(i) /\ w \in {2, 4}
  BY DEF Native, Operand, Width, Promise!Width
<1>2. Mask(s) = Bytes(w) - 1 BY DEF Mask
<1>3. w \in 0 .. 8 /\ 2 \in 0 .. 3 /\ 0 \in 0 .. 3 BY <1>1
<1>4. Bytes(w) \in Nat \ {0} /\ Base \in Nat \ {0} BY <1>3, BytePowers
<1>5. Promise!At(Promise!AX(w)) = Digits(n, w) /\ n \in 0 .. Mask(s)
  <2> HIDE DEF s
  <2>1. /\ IsNumberOf(GetReg(Now, 0, s), s)
        /\ Promise!At(Promise!Register(0, w)) = Digits(GetReg(Now, 0, s).n, w)
    BY <1>1, <1>3, FixedRegister
  <2> QED BY <2>1 DEF IsNumberOf, Promise!AX
<1>6. Promise!Sign(Promise!At(Promise!AX(w))) = b
  <2> HIDE DEF s, n
  <2> QED BY <1>1, <1>5, SignIs DEF w
<1>7. x \in 0 .. Mask(s)
  <2> HIDE DEF s, n, w
  <2> QED BY <1>2, <1>4
<1>8. IsNumberOf(v, s) /\ v.n = x
  <2> HIDE DEF s, x
  <2> QED BY <1>1, <1>7, SizedIs DEF Operand
<1>9. Promise!Filled(w, b) = Digits(x, w)
  <2> HIDE DEF s, n
  <2>1. ASSUME NEW k \in 1 .. w PROVE Byte(x, k - 1) = b
    <3>1. k - 1 \in 0 .. w - 1 /\ k - 1 \in 0 .. 8 BY <1>1
    <3>2. CASE Negative(s, n)
      <4> HIDE DEF w
      <4>1. x = Bytes(w) - 1 /\ b = Base - 1 BY <1>2, <3>2
      <4>2. Byte(Bytes(w) - 1, k - 1) = Base - 1 BY <1>3, <3>1, Ones
      <4> HIDE DEF x, b
      <4> QED BY <4>1, <4>2
    <3>3. CASE ~Negative(s, n)
      <4>1. x = 0 /\ b = 0 BY <3>3
      <4>2. Bytes(k - 1) \in Nat \ {0} BY <3>1, BytePowers
      <4>3. 0 \in 0 .. Bytes(k - 1) - 1 BY <4>2
      <4>4. 0 \div Bytes(k - 1) = 0 BY <4>2, <4>3, Below
      <4>5. 0 \in 0 .. Base - 1 BY <1>4
      <4>6. 0 % Base = 0 BY <1>4, <4>5, Below
      <4> HIDE DEF x, b
      <4> QED BY <4>1, <4>4, <4>6 DEF Byte
    <3> QED BY <3>2, <3>3
  <2> HIDE DEF x, b, w
  <2>2. Digits(x, w) = [k \in 1 .. w |-> Byte(x, k - 1)] BY DEF Digits, Byte
  <2> QED BY <2>1, <2>2 DEF Promise!Filled
<1>10. CdqCwd(i) = SetReg(Now, 2, v) BY DEF CdqCwd, EDX, EAX
<1> HIDE DEF s, n, b, x, v
<1>11. Promise!Written(i) = <<Promise!Register(2, w), Digits(v.n, w)>>
  <2>1. Promise!Written(i) =
          <<Promise!DX(w), Promise!Filled(w, Promise!Sign(Promise!At(Promise!AX(w))))>>
    BY <1>1, FixedPromised
  <2> QED BY <1>6, <1>8, <1>9, <2>1 DEF Promise!DX
<1>12. Promise!Readable(i) /\ Promise!FlagsAfter(i) = flags BY FixedPromised
<1> QED BY <1>1, <1>3, <1>8, <1>10, <1>11, <1>12, FixedCorrect DEF w

(* xlatb looks al up in the table at ebx.                                  *)
LEMMA XlatbCorrect ==
  ASSUME Now \in Machines, NEW i \in Instrs, i.function = "xlatb"
  PROVE  Correct(i, Xlatb(i))
<1> DEFINE s == Native(i)
           w == Width(s)
           x == GetReg(Now, 0, "Byte").n
           y == GetReg(Now, 3, s).n
           a == (x + y) % Bytes(w)
           v == GetMem(Now, a, "Byte")
<1>1. s \in Operand /\ w = Promise!Width(i) /\ w \in {2, 4}
  BY DEF Native, Operand, Width, Promise!Width
<1>2. "Byte" \in Operand /\ Width("Byte") = 1 /\ 0 \in 0 .. 3 /\ 3 \in 0 .. 3
  BY DEF Operand, Width
<1>3. w \in 0 .. 8 /\ 1 \in 0 .. 8 BY <1>1
<1>4. x \in 0 .. Bytes(1) - 1 /\ x \in Nat /\ Promise!At(Promise!AX(1)) = Digits(x, 1)
  <2>1. /\ IsNumberOf(GetReg(Now, 0, "Byte"), "Byte") /\ GetReg(Now, 0, "Byte").n \in Nat
        /\ Promise!At(Promise!Register(0, 1)) = Digits(GetReg(Now, 0, "Byte").n, 1)
    BY <1>2, FixedRegister
  <2> QED BY <1>2, <2>1 DEF IsNumberOf, Mask, Promise!AX
<1>5. y \in 0 .. Bytes(w) - 1 /\ y \in Nat /\ Promise!At(Promise!BX(w)) = Digits(y, w)
  <2>1. Mask(s) = Bytes(w) - 1 BY DEF Mask
  <2> HIDE DEF s
  <2>2. /\ IsNumberOf(GetReg(Now, 3, s), s) /\ GetReg(Now, 3, s).n \in Nat
        /\ Promise!At(Promise!Register(3, w)) = Digits(GetReg(Now, 3, s).n, w)
    BY <1>1, <1>2, FixedRegister
  <2> QED BY <2>1, <2>2 DEF IsNumberOf, Promise!BX
<1>6. Xlatb(i) = Checked(v, SetReg(Now, 0, v)) BY DEF Xlatb, EAX, EBX
<1> HIDE DEF s, x, y, w
<1>7. Promise!Number(Promise!At(Promise!BX(w))) = y /\ Promise!Number(Promise!At(Promise!AX(1))) = x
  BY <1>3, <1>4, <1>5, NumberIs
<1>8. Promise!Translated(i) = Promise!Memory(a, 1)
  <2>1. Promise!Values ^ w = Bytes(w) BY DEF Promise!Values, Bytes, Base
  <2>2. Promise!Translated(i) =
          Promise!Memory((Promise!Number(Promise!At(Promise!BX(w)))
                            + Promise!Number(Promise!At(Promise!AX(1)))) % Promise!Values ^ w, 1)
    BY <1>1 DEF Promise!Translated
  <2>3. y + x = x + y BY <1>4, <1>5
  <2> QED BY <1>7, <2>1, <2>2, <2>3
<1>9. a \in Int
  <2> DEFINE z == x + y
             p == Bytes(w)
  <2>1. z \in Int /\ p \in Nat \ {0} BY <1>3, <1>4, <1>5, BytePowers
  <2> HIDE DEF z, p
  <2>2. z % p \in 0 .. p - 1 BY <2>1, DivMod
  <2> QED BY <2>1, <2>2 DEF z, p
<1> HIDE DEF a
<1>10. Promise!Translated(i) = MemoryPlaces(a, 1)
       /\ (Promise!Accessible(MemoryPlaces(a, 1)) <=> Available(a, 1))
  <2>1. 1 \in 1 .. 8 OBVIOUS
  <2> QED BY <1>8, <1>9, <2>1, MemoryAccess
<1>11. Promise!Readable(i) <=> Available(a, 1) BY <1>10, FixedPromised
<1>12. CASE Available(a, 1)
  <2>1. IsNumberOf(v, "Byte") /\ Promise!At(MemoryPlaces(a, 1)) = Digits(v.n, 1)
    BY <1>2, <1>9, <1>12, MemoryReads
  <2> HIDE DEF v
  <2>2. ~Failed(v) BY <2>1, ValueFailed
  <2>3. Xlatb(i) = SetReg(Now, 0, v) BY <1>6, <2>2 DEF Checked
  <2>4. Promise!Written(i) = <<Promise!Register(0, 1), Digits(v.n, 1)>>
    BY <1>10, <2>1, FixedPromised DEF Promise!AX
  <2>5. Promise!FlagsAfter(i) = flags BY FixedPromised
  <2> QED BY <1>2, <1>11, <1>12, <2>1, <2>3, <2>4, <2>5, FixedCorrect
<1>13. CASE ~Available(a, 1)
  <2>1. v = Error("BadMemory") BY <1>2, <1>13 DEF GetMem
  <2>2. IsError(v)
    <3>1. "BadMemory" \in Errors BY DEF Errors
    <3> QED BY <2>1, <3>1, ErrorIs
  <2> HIDE DEF v
  <2> QED BY <1>6, <1>11, <1>13, <2>2, ErrorCorrect
<1> QED BY <1>12, <1>13

(* With an operand size prefix, al is extended to ax ...                   *)
LEMMA CbwCorrect ==
  ASSUME Now \in Machines, NEW i \in Instrs, i.function = "cbw_cwde", i.size_override
  PROVE  Correct(i, CbwCwde(i))
<1> DEFINE old == regs[0]
           n == GetReg(Now, 0, "Byte").n
           b == IF Negative("Byte", n) THEN Base - 1 ELSE 0
           y == Spliced(old, 1, 1, b)
           m == [Now EXCEPT !.regs[0] = y]
<1>1. "Byte" \in Operand /\ Width("Byte") = 1 /\ 0 \in 0 .. 3 /\ 0 \in Registers
  BY DEF Operand, Width, Registers
<1>2. /\ Base \in Nat \ {0} /\ Bytes(1) = Base /\ Mask("Byte") = Base - 1 /\ Bytes(0) = 1
      /\ Mask("Dword") = Bytes(4) - 1
  BY Widths, Masks
<1>3. CbwCwde(i) = m
  <2>1. CbwCwde(i) = SetReg(Now, 4, Sized("Byte", IF Negative("Byte", n) THEN Mask("Byte") ELSE 0))
    BY DEF CbwCwde, AH, EAX
  <2>2. CbwCwde(i) = SetReg(Now, 4, Sized("Byte", b)) BY <1>2, <2>1
  <2>3. Now.regs = regs BY DEF Now
  <2> HIDE DEF b
  <2>4. ~(4 < 4) /\ 4 >= 4 /\ 4 - 4 = 0 OBVIOUS
  <2>5. SetReg(Now, 4, Sized("Byte", b)) = [Now EXCEPT !.regs[0] = Spliced(Now.regs[0], 1, 1, b)]
    BY <2>4 DEF SetReg, Sized
  <2> QED BY <2>2, <2>3, <2>5
<1>4. /\ IsNumberOf(GetReg(Now, 0, "Byte"), "Byte") /\ n \in Nat /\ n \in 0 .. Base - 1
      /\ Promise!At(Promise!AX(1)) = Digits(n, 1)
  <2>1. /\ IsNumberOf(GetReg(Now, 0, "Byte"), "Byte") /\ GetReg(Now, 0, "Byte").n \in Nat
        /\ Promise!At(Promise!Register(0, 1)) = Digits(GetReg(Now, 0, "Byte").n, 1)
    BY <1>1, FixedRegister
  <2> QED BY <1>2, <2>1 DEF IsNumberOf, Promise!AX
<1>5. n = Byte(old, 0)
  <2>1. Digits(n, 1) = Digits(old, 1)
    <3>1. 1 \in 1 .. 4 OBVIOUS
    <3>2. Promise!At(Promise!Register(0, 1)) = Digits(regs[0], 1) BY <1>1, <3>1, WholeRegister
    <3> QED BY <1>4, <3>2 DEF Promise!AX
  <2>2. Byte(n, 0) = Byte(old, 0)
    <3>1. Digits(n, 1)[1] = Byte(n, 1 - 1) /\ Digits(old, 1)[1] = Byte(old, 1 - 1)
      BY DEF Digits, Byte
    <3>2. 1 - 1 = 0 OBVIOUS
    <3> HIDE DEF n, old
    <3> QED BY <2>1, <3>1, <3>2
  <2> HIDE DEF n, old
  <2>3. Byte(n, 0) = n BY <1>4, ByteOfByte
  <2> QED BY <2>2, <2>3
<1>6. old \in 0 .. Mask("Dword") BY <1>1, <1>2, WholeRegister
<1>7. b \in 0 .. Base - 1 BY <1>2
<1>8. Promise!Sign(Digits(n, 1)) = b
  <2>1. n \in 0 .. Mask("Byte") BY <1>2, <1>4
  <2> HIDE DEF n
  <2>2. Promise!Sign(Digits(n, Width("Byte"))) = IF Negative("Byte", n) THEN Base - 1 ELSE 0
    BY <1>1, <2>1, SignIs
  <2> QED BY <1>1, <2>2
<1> HIDE DEF n, b, old
<1>9. \A k \in 0 .. 3 : Byte(y, k) =
        IF k \in 1 .. 1 + 1 - 1 THEN Byte(b, k - 1) ELSE Byte(old, k)
  <2>1. 1 \in {0, 1} /\ 1 \in {1, 2} /\ 1 + 1 <= 2 /\ b \in 0 .. Bytes(1) - 1
    BY <1>2, <1>7
  <2> QED BY <1>6, <2>1, SplicedBytes
<1> HIDE DEF y
<1>10. Byte(y, 1) = b /\ \A k \in 0 .. 3 : k # 1 => Byte(y, k) = Byte(old, k)
  <2>1. Byte(b, 0) = b BY <1>7, ByteOfByte
  <2>2. 1 \in 0 .. 3 /\ 1 \in 1 .. 1 + 1 - 1 /\ 1 - 1 = 0 OBVIOUS
  <2>3. \A k \in 0 .. 3 : k # 1 => k \notin 1 .. 1 + 1 - 1 OBVIOUS
  <2> QED BY <1>9, <2>1, <2>2, <2>3
<1>11. Puts(Now, m, RegisterPlaces(0, 0, 2), Digits(y, 2))
  <2>1. \A k \in 0 .. 3 : Byte(y, k) =
          IF k \in 0 .. 0 + 2 - 1 THEN Byte(y, k - 0) ELSE Byte(Now.regs[0], k)
    <3>1. Now.regs[0] = old BY DEF Now, old
    <3>2. \A k \in 0 .. 3 : k - 0 = k /\ (k \notin 0 .. 0 + 2 - 1 => k # 1) OBVIOUS
    <3> QED BY <1>10, <3>1, <3>2
  <2>2. 0 \in 0 .. 3 /\ 2 \in 1 .. 4 - 0 OBVIOUS
  <2> QED BY <1>1, <2>1, <2>2, RegisterPuts
<1>12. Promise!Signed(Digits(n, 1), 2) = Digits(y, 2)
  <2>1. IsPadded(y, n, 1, 2, b)
    <3>1. Byte(n, 0) = n BY <1>4, ByteOfByte
    <3>2. Byte(y, 0) = Byte(old, 0)
      <4>1. 0 \in 0 .. 3 /\ 0 # 1 OBVIOUS
      <4> QED BY <1>10, <4>1
    <3>3. \A k \in 0 .. 1 - 1 : k = 0 OBVIOUS
    <3>4. \A k \in 1 .. 2 - 1 : k = 1 OBVIOUS
    <3> QED BY <1>5, <1>10, <3>1, <3>2, <3>3, <3>4 DEF IsPadded
  <2>2. 2 \in 0 .. 8 /\ 1 \in 0 .. 2 /\ 1 \in 0 .. 8 OBVIOUS
  <2>3. Digits(n, 1) \o Promise!Filled(2 - 1, b) = Digits(y, 2) BY <1>4, <2>1, <2>2, Padded
  <2>4. Len(Digits(n, 1)) = 1 BY <1>4, <2>2, DigitsType
  <2> QED BY <1>8, <2>3, <2>4 DEF Promise!Signed
<1>13. Promise!Written(i) = <<RegisterPlaces(0, 0, 2), Digits(y, 2)>>
  <2>1. Promise!Register(0, 2) = RegisterPlaces(0, 0, 2)
    <3>1. 2 \in 1 .. 4 OBVIOUS
    <3> QED BY <1>1, <3>1, WholeRegister
  <2> QED BY <1>4, <1>12, <2>1, FixedPromised DEF Promise!AX
<1>14. /\ Promise!Writeable(RegisterPlaces(0, 0, 2)) /\ RegisterPlaces(0, 0, 2) # <<>>
       /\ Len(RegisterPlaces(0, 0, 2)) = Len(Digits(y, 2))
  <2>1. 0 \in Nat /\ 2 \in 1 .. 8 OBVIOUS
  <2>2. Len(RegisterPlaces(0, 0, 2)) = 2 BY DEF RegisterPlaces
  <2>3. Len(Digits(y, 2)) = 2 BY DEF Digits
  <2> QED BY <2>1, <2>2, <2>3, RegisterAccess
<1>15. m.result = "Ok" /\ m.flags = flags BY DEF Now
<1>16. Promise!Readable(i) /\ Promise!FlagsAfter(i) = flags BY FixedPromised
<1> HIDE DEF m
<1> QED BY <1>3, <1>11, <1>13, <1>14, <1>15, <1>16, WriteCorrect

(* ... and without it, ax to eax.                                          *)
LEMMA CwdeCorrect ==
  ASSUME Now \in Machines, NEW i \in Instrs, i.function = "cbw_cwde", ~i.size_override
  PROVE  Correct(i, CbwCwde(i))
<1> DEFINE n == GetReg(Now, 0, "Word").n
           h == Bytes(2) \div 2
           x == IF n > h THEN (Mask("Dword") - Mask("Word")) + n ELSE n
           xs == Digits(n, 2)
           v == Sized("Dword", x)
<1>1. /\ "Word" \in Operand /\ Width("Word") = 2 /\ "Dword" \in Operand /\ Width("Dword") = 4
      /\ 0 \in 0 .. 3
  BY DEF Operand, Width
<1>2. /\ Base \in Nat \ {0} /\ Mask("Word") = Bytes(2) - 1 /\ Mask("Dword") = Bytes(4) - 1
      /\ Bytes(2) = Base * Base /\ Bytes(0) = 1 /\ Bytes(1) = Base
  BY Widths, Masks
<1>3. n \in 0 .. Mask("Word") /\ Promise!At(Promise!AX(2)) = xs
  <2>1. /\ IsNumberOf(GetReg(Now, 0, "Word"), "Word")
        /\ Promise!At(Promise!Register(0, 2)) = Digits(GetReg(Now, 0, "Word").n, 2)
    BY <1>1, FixedRegister
  <2> QED BY <2>1 DEF IsNumberOf, Promise!AX
<1>4. CbwCwde(i) = SetReg(Now, 0, v) BY DEF CbwCwde, EAX
<1> HIDE DEF n, xs
<1>5. h \in Nat \ {0} /\ Bytes(2) = 2 * h /\ (Negative("Word", n) <=> n >= h)
  <2> DEFINE g == 2 ^ (ByteBits * 2 - 1)
  <2>1. g \in Nat \ {0} /\ Bytes(2) = 2 * g BY <1>1, TopBit
  <2>2. Negative("Word", n) <=> n >= g BY <1>1, <1>3, NegativeIs
  <2> HIDE DEF g
  <2>3. (2 * g) \div 2 = g BY <2>1
  <2> QED BY <2>1, <2>2, <2>3
<1>6. PICK g \in Nat \ {0} : Base = 2 * g /\ Promise!Values \div 2 = g /\ h = g * Base
  <2> DEFINE g == 2 ^ (ByteBits - 1)
  <2>1. g \in Nat \ {0} /\ Base = 2 * g
    <3>1. Width("Byte") = 1 /\ "Byte" \in Operand BY DEF Width, Operand
    <3>2. LET z == 2 ^ (ByteBits * 1 - 1) IN z \in Nat \ {0} /\ Bytes(1) = 2 * z
      BY <3>1, TopBit
    <3>3. ByteBits * 1 = ByteBits BY OperandsAssumption
    <3> QED BY <1>2, <3>2, <3>3
  <2> HIDE DEF g, h
  <2>2. Promise!Values = Base BY DEF Promise!Values, Base
  <2>3. (2 * g) \div 2 = g BY <2>1
  <2>4. h = g * Base
    <3>1. 2 * h = (2 * g) * Base BY <1>2, <1>5, <2>1
    <3> DEFINE z == g * Base
    <3>2. (2 * g) * Base = 2 * z /\ z \in Nat BY <1>2, <2>1
    <3> HIDE DEF z
    <3>3. h = z BY <1>5, <3>1, <3>2
    <3> QED BY <3>3 DEF z
  <2> QED BY <2>1, <2>2, <2>3, <2>4
<1> HIDE DEF h
<1>7. Digits(h, 2) = <<0, Promise!Values \div 2>>
  <2>1. Byte(h, 0) = 0
    <3>1. h \div 1 = h BY <1>5
    <3>2. h = Base * g BY <1>2, <1>6
    <3>3. g \in Int BY <1>6
    <3>4. (Base * g) % Base = 0 BY <1>2, <3>3, Multiple
    <3> QED BY <1>2, <3>1, <3>2, <3>4 DEF Byte
  <2>2. Byte(h, 1) = g
    <3>1. h = Base * g BY <1>2, <1>6
    <3>2. g \in Int BY <1>6
    <3>3. (Base * g) \div Base = g BY <1>2, <3>2, Multiple
    <3>4. g \in 0 .. Base - 1 BY <1>6
    <3>5. g % Base = g BY <1>2, <3>4, Below
    <3> QED BY <1>2, <3>1, <3>3, <3>5 DEF Byte
  <2>3. Digits(h, 2) = <<Byte(h, 0), Byte(h, 1)>>
    <3>1. Digits(h, 2) = [k \in 1 .. 2 |-> Byte(h, k - 1)] BY DEF Digits, Byte
    <3>2. 1 - 1 = 0 /\ 2 - 1 = 1 OBVIOUS
    <3>3. \A k \in 1 .. 2 : k = 1 \/ k = 2 OBVIOUS
    <3> DEFINE c == Byte(h, 0)
               d == Byte(h, 1)
    <3>4. [k \in 1 .. 2 |-> Byte(h, k - 1)] = [k \in 1 .. 2 |-> IF k = 1 THEN c ELSE d]
      BY <3>2, <3>3
    <3> HIDE DEF c, d
    <3>5. [k \in 1 .. 2 |-> IF k = 1 THEN c ELSE d] = <<c, d>> OBVIOUS
    <3> QED BY <3>1, <3>4, <3>5 DEF c, d
  <2> QED BY <1>6, <2>1, <2>2, <2>3
<1>8. Promise!SignOfWord(xs) = IF n > h THEN Base - 1 ELSE 0
  <2>1. Promise!Sign(xs) = IF Negative("Word", n) THEN Base - 1 ELSE 0
    BY <1>1, <1>3, SignIs DEF xs
  <2>2. xs = Digits(h, 2) <=> n = h
    <3>1. 2 \in 0 .. 8 /\ n \in 0 .. Bytes(2) - 1 /\ h \in 0 .. Bytes(2) - 1
      BY <1>2, <1>3, <1>5
    <3>2. Promise!Number(xs) = n /\ Promise!Number(Digits(h, 2)) = h
      BY <3>1, NumberIs DEF xs
    <3> QED BY <3>2 DEF xs
  <2>3. n \in Nat
    <3>1. Mask("Word") \in Nat BY Masks
    <3> QED BY <1>3, <3>1
  <2> QED BY <1>5, <1>7, <2>1, <2>2, <2>3 DEF Promise!SignOfWord
<1>9. x \in 0 .. Mask("Dword") /\ xs \o Promise!Filled(2, Promise!SignOfWord(xs)) = Digits(x, 4)
  <2>1. n \in 0 .. Bytes(2) - 1 /\ n \in Nat /\ Bytes(2) \in Nat /\ Bytes(4) \in Nat
    BY <1>2, <1>3, Widths
  <2>2. 4 \in 0 .. 8 /\ 2 \in 0 .. 4 /\ 4 - 2 = 2 OBVIOUS
  <2>3. Bytes(2) <= Bytes(4) BY Masks
  <2>4. CASE n > h
    <3>1. x = (n + (Bytes(4) - 1)) - (Bytes(2) - 1)
      <4>1. x = (Mask("Dword") - Mask("Word")) + n BY <2>4
      <4> HIDE DEF x
      <4> QED BY <1>2, <2>1, <4>1
    <3>2. IsPadded((n + (Bytes(4) - 1)) - (Bytes(2) - 1), n, 2, 4, Base - 1)
      BY <2>1, <2>2, OnesAbove
    <3> HIDE DEF x
    <3>3. Digits(n, 2) \o Promise!Filled(4 - 2, Base - 1) = Digits(x, 4)
      <4>1. IsPadded(x, n, 2, 4, Base - 1) BY <3>1, <3>2
      <4> QED BY <2>1, <2>2, <4>1, Padded
    <3>4. x \in 0 .. Mask("Dword") BY <1>2, <2>1, <2>3, <3>1
    <3> QED BY <1>8, <2>2, <2>4, <3>3, <3>4 DEF xs
  <2>5. CASE ~(n > h)
    <3>1. x = n BY <2>5
    <3> HIDE DEF x
    <3>2. Promise!Zeros(xs, 4) = Digits(n, 4) BY <2>1, <2>2, ZerosIs DEF xs
    <3>3. Len(xs) = 2
      <4>1. 2 \in 0 .. 8 OBVIOUS
      <4> QED BY <2>1, <4>1, DigitsType DEF xs
    <3>4. Promise!Zeros(xs, 4) = xs \o Promise!Filled(2, 0) BY <2>2, <3>3 DEF Promise!Zeros
    <3>5. x \in 0 .. Mask("Dword") BY <1>2, <2>1, <2>3, <3>1
    <3> QED BY <1>8, <2>5, <3>1, <3>2, <3>4, <3>5
  <2> QED BY <2>4, <2>5
<1> HIDE DEF x
<1>10. IsNumberOf(v, "Dword") /\ v.n = x BY <1>9, SizedIs
<1> HIDE DEF v
<1>11. Promise!Written(i) = <<Promise!Register(0, 4), Digits(v.n, 4)>>
  <2>1. Promise!Written(i) =
          <<Promise!AX(4), Promise!At(Promise!AX(2))
              \o Promise!Filled(2, Promise!SignOfWord(Promise!At(Promise!AX(2))))>>
    BY FixedPromised
  <2>2. Promise!Written(i) = <<Promise!AX(4), Digits(x, 4)>> BY <1>3, <1>9, <2>1
  <2> QED BY <1>10, <2>2 DEF Promise!AX
<1>12. Promise!Readable(i) /\ Promise!FlagsAfter(i) = flags BY FixedPromised
<1> QED BY <1>1, <1>4, <1>10, <1>11, <1>12, FixedCorrect

(* Either way.                                                             *)
LEMMA CbwCwdeCorrect ==
  ASSUME Now \in Machines, NEW i \in Instrs, i.function = "cbw_cwde"
  PROVE  Correct(i, CbwCwde(i))
BY CbwCorrect, CwdeCorrect

-----------------------------------------------------------------------------
(* bswap                                                                   *)

(* An operand of the size that is asked for, when it is read.              *)
LEMMA ExactReads ==
  ASSUME Now \in Machines, NEW l, IsArgument(l), NEW s \in Operand, l.size = s
  PROVE  LET v == Exact(Get(Now, l), s)
         IN  /\ CanRead(l) => /\ IsNumberOf(v, s) /\ ~Failed(v) /\ v.n \in Nat
                              /\ Promise!Contents(l) = Digits(v.n, Width(s))
                              /\ IsPlace(l) =>
                                   Promise!At(Promise!PlacesOf(l)) = Digits(v.n, Width(s))
             /\ ~CanRead(l) => IsError(v) /\ Failed(v)
<1> DEFINE x == Get(Now, l)
<1>1. CanRead(l) => /\ IsNumberOf(x, s) /\ ~Failed(x) /\ x.n \in Nat
                    /\ Promise!Contents(l) = Digits(x.n, Width(s))
  BY GetReads
<1>2. ~CanRead(l) => IsError(x) /\ Failed(x) BY GetReads
<1>3. IsPlace(l) => Promise!Contents(l) = Promise!At(Promise!PlacesOf(l)) BY PlacesTuple
<1> HIDE DEF x
<1>4. Exact(x, s) = x
  <2>1. Failed(x) \/ x.size = s BY <1>1, <1>2 DEF IsNumberOf
  <2> QED BY <2>1 DEF Exact
<1> QED BY <1>1, <1>2, <1>3, <1>4 DEF x

(* What the promise says of bswap.                                         *)
LEMMA BswapPromised ==
  ASSUME NEW i, i.function = "bswap"
  PROVE  /\ ~Promise!Refused(i) /\ Promise!Reads(i) = {i.args[1]}
         /\ Promise!Written(i) =
              <<Promise!Target(i), Promise!Reverse(Promise!At(Promise!Target(i)))>>
         /\ Promise!FlagsAfter(i) = flags
<1>1. ~Promise!Refused(i) BY DEF Promise!Refused
<1>2. Promise!Reads(i) = {i.args[1]} BY DEF Promise!Reads, Promise!BitWrites
<1>3. Promise!FlagsAfter(i) = flags BY DEF Promise!FlagsAfter, Promise!BitWrites
<1>4. Promise!Written(i) =
        <<Promise!Target(i), Promise!Reverse(Promise!At(Promise!Target(i)))>>
  BY DEF Promise!Written, Promise!BitWrites
<1> QED BY <1>1, <1>2, <1>3, <1>4

(* A number with the bytes of another one in reverse.                      *)
LEMMA Reversed ==
  ASSUME NEW n \in Nat, NEW y,
         \A k \in 0 .. 3 : Byte(y, k) = Byte(n, 3 - k)
  PROVE  Promise!Reverse(Digits(n, 4)) = Digits(y, 4)
<1>1. \A x : Digits(x, 4) = [k \in 1 .. 4 |-> Byte(x, k - 1)] BY DEF Digits, Byte
<1>2. 4 \in 0 .. 8 OBVIOUS
<1>3. Len(Digits(n, 4)) = 4 BY <1>2, DigitsType
<1>4. Promise!Reverse(Digits(n, 4)) = [k \in 1 .. 4 |-> Digits(n, 4)[(4 - k) + 1]]
  BY <1>3 DEF Promise!Reverse
<1>5. ASSUME NEW k \in 1 .. 4 PROVE Digits(n, 4)[(4 - k) + 1] = Byte(y, k - 1)
  <2> DEFINE j == (4 - k) + 1
  <2>1. j \in 1 .. 4 /\ k - 1 \in 0 .. 3 /\ 3 - (k - 1) = j - 1 OBVIOUS
  <2> HIDE DEF j
  <2>2. Digits(n, 4)[j] = Byte(n, j - 1) BY <1>1, <2>1
  <2>3. Byte(y, k - 1) = Byte(n, 3 - (k - 1)) BY <2>1
  <2> QED BY <2>1, <2>2, <2>3 DEF j
<1> QED BY <1>1, <1>4, <1>5

(* bswap reverses the bytes of its register.                               *)
LEMMA BswapCorrect ==
  ASSUME Now \in Machines, NEW i \in Instrs, i.function = "bswap"
  PROVE  Correct(i, Bswap(i))
<1> DEFINE l == Arg1(i)
           v == Exact(Get(Now, l), "Dword")
           n == v.n
           y == SumSet({((n \div Bytes(k)) % Base) * Bytes(3 - k) : k \in 0 .. 3})
           x == Sized("Dword", y)
<1>1. IsPlace(l) /\ IsArgument(l) /\ l.size = "Dword"
  BY InstrsAssumption DEF IsPlace, NoOperand, Destination, BitScans
<1>2. "Dword" \in Operand /\ Width("Dword") = 4 BY DEF Operand, Width
<1>3. Bswap(i) = Checked(v, Set(Now, l, x)) BY DEF Bswap
<1>4. i.args[1] = l BY DEF Arg1
<1>5. Promise!Readable(i) <=> CanRead(l)
  <2>1. i.function \notin {"xlatb", "cmpxchg8b"} OBVIOUS
  <2> QED BY <1>1, <1>4, <2>1, BswapPromised, ReadableIs, OperandRead
<1>6. CASE CanRead(l)
  <2>1. /\ IsNumberOf(v, "Dword") /\ ~Failed(v) /\ n \in Nat
        /\ Promise!At(Promise!PlacesOf(l)) = Digits(n, 4)
    BY <1>1, <1>2, <1>6, ExactReads
  <2> HIDE DEF v, l, n
  <2>2. /\ y \in 0 .. Mask("Dword")
        /\ \A k \in 0 .. 3 : (y \div Bytes(k)) % Base = (n \div Bytes(3 - k)) % Base
    BY <2>1, SwappedIs
  <2> HIDE DEF y
  <2>3. Promise!Reverse(Digits(n, 4)) = Digits(y, 4)
    <3>1. \A k \in 0 .. 3 : Byte(y, k) = Byte(n, 3 - k) BY <2>2 DEF Byte
    <3> QED BY <2>1, <3>1, Reversed
  <2>4. IsNumberOf(x, "Dword") /\ x.n = y BY <2>2, SizedIs
  <2> HIDE DEF x
  <2>5. Promise!Written(i) = <<Promise!PlacesOf(l), Digits(x.n, Width(l.size))>>
    BY <1>1, <1>2, <1>4, <2>1, <2>3, <2>4, BswapPromised DEF Promise!Target
  <2>6. Now.regs = regs /\ Now.mem = mem /\ Now.result = "Ok" /\ Now.flags = flags BY DEF Now
  <2>7. Width("Dword") <= Width(l.size) BY <1>1, <1>2
  <2>8. Correct(i, Set(Now, l, x))
    BY <1>1, <1>2, <1>5, <1>6, <2>4, <2>5, <2>6, <2>7, BswapPromised, SetCorrect
  <2>9. Bswap(i) = Set(Now, l, x) BY <1>3, <2>1 DEF Checked
  <2> QED BY <2>8, <2>9
<1>7. CASE ~CanRead(l)
  <2>1. IsError(v) BY <1>1, <1>2, <1>7, ExactReads
  <2> HIDE DEF v, x, l
  <2> QED BY <1>3, <1>5, <1>7, <2>1, ErrorCorrect
<1> QED BY <1>6, <1>7

-----------------------------------------------------------------------------
(* Bits of bytes                                                           *)

(* A bit of a byte of a number is a bit of the number.                     *)
LEMMA BitOfByte ==
  ASSUME NEW n \in Nat, NEW q \in 0 .. 7, NEW r \in 0 .. ByteBits - 1
  PROVE  /\ Bit(Byte(n, q), r) <=> Bit(n, ByteBits * q + r)
         /\ ByteBits * q + r \in Nat
<1> DEFINE m == 8 * ByteBits + 1
           P == [k \in 0 .. m |-> 2 ^ k]
           j == ByteBits * q
           x == n \div Bytes(q)
<1>1. m \in Nat /\ PowersOf(P, 2, m) /\ \A k \in 0 .. m : P[k] = 2 ^ k /\ P[k] \in Nat \ {0}
  BY BitPowers
<1> HIDE DEF P
<1>2. j \in 0 .. m /\ Bytes(q) = 2 ^ j /\ j \in Nat
  <2>1. q \in 0 .. 8 OBVIOUS
  <2>2. ByteBits * q \in 0 .. 8 * ByteBits + 1 /\ Bytes(q) = 2 ^ (ByteBits * q)
    BY <2>1, BitRange
  <2> QED BY <2>2
<1>3. ByteBits \in 0 .. m /\ r \in Nat /\ r \in 0 .. m BY OperandsAssumption
<1>4. r \in 0 .. m - j
  <2>1. j <= 7 * ByteBits
    <3>1. ByteBits * q <= ByteBits * 7 BY OperandsAssumption, ProductOrder
    <3>2. ByteBits * 7 = 7 * ByteBits BY OperandsAssumption
    <3> HIDE DEF j
    <3> QED BY <3>1, <3>2 DEF j
  <2> HIDE DEF j
  <2> QED BY <1>2, <2>1, OperandsAssumption
<1>5. 2 \in Nat \ {0} OBVIOUS
<1> HIDE DEF j
<1>6. x \in Nat /\ n \div P[j + r] = x \div P[r]
  <2>1. n \div P[j] \in Nat /\ \A k \in 0 .. m - j : n \div P[j + k] = (n \div P[j]) \div P[k]
    <3> HIDE DEF m
    <3> QED BY <1>1, <1>2, <1>5, DigitsOfQuotient
  <2>2. P[j] = Bytes(q) BY <1>1, <1>2
  <2> QED BY <1>4, <2>1, <2>2
<1>7. P[ByteBits] = Base BY <1>1, <1>3 DEF Base
<1> HIDE DEF x
<1>8. \A k \in 0 .. ByteBits - 1 : ((x % P[ByteBits]) \div P[k]) % 2 = (x \div P[k]) % 2
  <2> HIDE DEF m
  <2> QED BY <1>1, <1>3, <1>5, <1>6, DigitsOfRemainder
<1>9. P[r] = 2 ^ r /\ P[j + r] = 2 ^ (j + r)
  <2>1. j + r \in 0 .. m BY <1>1, <1>2, <1>4
  <2> HIDE DEF m
  <2> QED BY <1>1, <1>3, <2>1
<1>10. Byte(n, q) = x % P[ByteBits] BY <1>7 DEF Byte, x
<1>11. (Byte(n, q) \div 2 ^ r) % 2 = (n \div 2 ^ (j + r)) % 2
  BY <1>6, <1>8, <1>9, <1>10
<1>12. ByteBits * q + r \in Nat BY <1>2, <1>3 DEF j
<1> QED BY <1>11, <1>12 DEF Bit, j

(* A bit of some bytes is one of one of the bytes.                         *)
LEMMA BitPlace ==
  ASSUME NEW w \in 0 .. 8, NEW k \in 0 .. ByteBits * w - 1
  PROVE  /\ k \div ByteBits \in 0 .. w - 1 /\ k % ByteBits \in 0 .. ByteBits - 1
         /\ k = ByteBits * (k \div ByteBits) + (k % ByteBits) /\ k \in Nat
<1> DEFINE b == ByteBits
           q == k \div b
           r == k % b
           N == b * w
<1>0. b \in Nat \ {0} BY OperandsAssumption
<1>1. N \in Nat BY BitRange
<1>2. k \in Nat /\ k < N
  <2> HIDE DEF N
  <2>1. k \in 0 .. N - 1 BY DEF N
  <2> QED BY <1>1, <2>1
<1> HIDE DEF b
<1>3. q \in Int /\ r \in 0 .. b - 1 /\ k = b * q + r BY <1>0, <1>2, DivMod
<1>4. q \in Nat BY <1>0, <1>2, QuotientBelow
<1>5. b * q < b * w
  <2> DEFINE z == b * q
  <2>1. z \in Int /\ k = z + r BY <1>0, <1>3
  <2> HIDE DEF z, N, r
  <2>2. z < N BY <1>1, <1>2, <1>3, <2>1
  <2> QED BY <2>2 DEF z, N
<1> HIDE DEF q, r
<1>6. q < w BY <1>0, <1>3, <1>5, ProductOrder
<1>7. q \in 0 .. w - 1 BY <1>4, <1>6
<1> QED BY <1>2, <1>3, <1>7 DEF q, r, b

(* The bits of a number are those of its bytes.                            *)
LEMMA BitsAre ==
  ASSUME NEW n \in Nat, NEW w \in 0 .. 8
  PROVE  Promise!BitsOf(Digits(n, w)) = {k \in 0 .. ByteBits * w - 1 : Bit(n, k)}
<1> DEFINE bs == Digits(n, w)
<1>1. Len(bs) = w BY DigitsType
<1>2. ASSUME NEW k \in 0 .. ByteBits * w - 1
      PROVE  (bs[(k \div ByteBits) + 1] \div 2 ^ (k % ByteBits)) % 2 = 1 <=> Bit(n, k)
  <2> DEFINE q == k \div ByteBits
             r == k % ByteBits
  <2>1. q \in 0 .. w - 1 /\ r \in 0 .. ByteBits - 1 /\ k = ByteBits * q + r BY BitPlace
  <2> HIDE DEF q, r
  <2>2. q \in 0 .. 7 /\ q + 1 \in 1 .. w /\ (q + 1) - 1 = q BY <2>1
  <2>3. bs[q + 1] = Byte(n, q) BY <2>2 DEF Digits, Byte
  <2>4. Bit(Byte(n, q), r) <=> Bit(n, k) BY <2>1, <2>2, BitOfByte
  <2>5. (bs[q + 1] \div 2 ^ r) % 2 = 1 <=> Bit(Byte(n, q), r) BY <2>3 DEF Bit
  <2> QED BY <2>4, <2>5 DEF q, r
<1> HIDE DEF bs
<1>3. Promise!BitsOf(bs) =
        {k \in 0 .. ByteBits * w - 1 : (bs[(k \div ByteBits) + 1] \div 2 ^ (k % ByteBits)) % 2 = 1}
  BY <1>1 DEF Promise!BitsOf
<1> QED BY <1>2, <1>3 DEF bs

(* A byte is its bits.                                                     *)
LEMMA SameByte ==
  ASSUME NEW a \in 0 .. Base - 1, NEW c \in 0 .. Base - 1,
         \A k \in 0 .. ByteBits - 1 : Bit(a, k) <=> Bit(c, k)
  PROVE  a = c
<1> DEFINE m == 8 * ByteBits + 1
           P == [k \in 0 .. m |-> 2 ^ k]
<1>1. m \in Nat /\ PowersOf(P, 2, m) /\ \A k \in 0 .. m : P[k] = 2 ^ k /\ P[k] \in Nat \ {0}
  BY BitPowers
<1> HIDE DEF P
<1>2. ByteBits \in 0 .. m /\ ByteBits \in Nat BY OperandsAssumption
<1>3. Base \in Nat \ {0} /\ P[ByteBits] = Base BY <1>1, <1>2, Widths DEF Base
<1>4. a \in Nat /\ c \in Nat BY <1>3
<1>5. PowersOf(P, 2, ByteBits)
  <2>1. \A k \in 0 .. ByteBits - 1 : k \in 0 .. m - 1 BY <1>2
  <2> HIDE DEF m
  <2> QED BY <1>1, <2>1 DEF PowersOf
<1>6. ASSUME NEW k \in 0 .. ByteBits - 1 PROVE (a \div P[k]) % 2 = (c \div P[k]) % 2
  <2>1. k \in 0 .. m BY <1>2
  <2> DEFINE p == 2 ^ k
             x == a \div p
             y == c \div p
  <2>2. P[k] = p /\ p \in Nat \ {0} BY <1>1, <2>1
  <2> HIDE DEF p
  <2>3. x \in Nat /\ y \in Nat BY <1>4, <2>2, QuotientBelow
  <2>4. x % 2 = 1 <=> y % 2 = 1 BY DEF Bit, p
  <2> HIDE DEF x, y
  <2>5. x % 2 = y % 2 BY <2>3, <2>4
  <2> QED BY <2>2, <2>5 DEF x, y
<1>7. a % P[ByteBits] = c % P[ByteBits]
  <2>1. 2 \in Nat \ {0} OBVIOUS
  <2> HIDE DEF m
  <2> QED BY <1>2, <1>4, <1>5, <1>6, <2>1, SameDigits
<1>8. a % Base = a /\ c % Base = c BY <1>3, Below
<1> QED BY <1>3, <1>7, <1>8

(* The bytes of a number from its bits.                                    *)
LEMMA PackedIs ==
  ASSUME NEW n \in Nat, NEW w \in 0 .. 8, NEW K,
         \A k \in 0 .. ByteBits * w - 1 : k \in K <=> Bit(n, k)
  PROVE  Promise!Packed(K, w) = Digits(n, w)
<1> DEFINE J(k) == {j \in 0 .. ByteBits - 1 : (k - 1) * ByteBits + j \in K}
<1>0. ByteBits \in Nat \ {0} BY OperandsAssumption
<1>1. Promise!AllOnes = Base - 1 /\ Base \in Nat \ {0}
  BY Widths DEF Promise!AllOnes, Promise!Values, Base
<1>2. ASSUME NEW c \in 0 .. Base - 1
      PROVE  Promise!BitsOf(<<c>>) = {j \in 0 .. ByteBits - 1 : Bit(c, j)}
  <2>1. 1 \in 0 .. 8 /\ c \in Nat BY <1>1
  <2>2. Digits(c, 1) = <<c>>
    <3>1. Byte(c, 0) = c BY ByteOfByte
    <3>2. Digits(c, 1) = [k \in 1 .. 1 |-> Byte(c, k - 1)] BY DEF Digits, Byte
    <3>3. \A k \in 1 .. 1 : k - 1 = 0 OBVIOUS
    <3>4. Digits(c, 1) = [k \in 1 .. 1 |-> c] BY <3>1, <3>2, <3>3
    <3> QED BY <3>4
  <2>3. ByteBits * 1 = ByteBits BY <1>0
  <2>4. Promise!BitsOf(Digits(c, 1)) = {j \in 0 .. ByteBits * 1 - 1 : Bit(c, j)}
    BY <2>1, BitsAre
  <2> QED BY <2>2, <2>3, <2>4
<1>3. ASSUME NEW k \in 1 .. w
      PROVE  (CHOOSE b \in 0 .. Promise!AllOnes : Promise!BitsOf(<<b>>) = J(k)) = Byte(n, k - 1)
  <2> DEFINE q == k - 1
             b == Byte(n, q)
  <2>1. q \in 0 .. 7 /\ q \in 0 .. w - 1 /\ q \in 0 .. 8 OBVIOUS
  <2> HIDE DEF q
  <2>2. b \in 0 .. Base - 1 BY <2>1, ByteIs DEF Byte
  <2>3. ASSUME NEW j \in 0 .. ByteBits - 1
        PROVE  q * ByteBits + j \in K <=> Bit(b, j)
    <3>1. Bit(b, j) <=> Bit(n, ByteBits * q + j) BY <2>1, BitOfByte
    <3>2. ByteBits * q + j \in 0 .. ByteBits * w - 1
      <4>1. q \in Int /\ w - 1 \in Int /\ q <= w - 1 BY <2>1
      <4>2. ByteBits * q <= ByteBits * (w - 1) BY <1>0, <4>1, ProductOrder
      <4>3. ByteBits * (w - 1) = ByteBits * w - ByteBits
        BY <1>0
      <4> DEFINE x == ByteBits * q
                 z == ByteBits * w
      <4>4. x \in Nat /\ z \in Nat /\ x <= z - ByteBits BY <1>0, <2>1, <4>2, <4>3
      <4> HIDE DEF x, z
      <4>5. x + j \in 0 .. z - 1 BY <1>0, <4>4
      <4> QED BY <4>5 DEF x, z
    <3>3. ByteBits * q = q * ByteBits BY <1>0, <2>1
    <3> QED BY <3>1, <3>2, <3>3
  <2>4. J(k) = {j \in 0 .. ByteBits - 1 : Bit(b, j)} BY <2>3 DEF q
  <2> DEFINE I == J(k)
  <2> HIDE DEF b
  <2>5. Promise!BitsOf(<<b>>) = I BY <1>2, <2>2, <2>4
  <2>6. ASSUME NEW c \in 0 .. Base - 1, Promise!BitsOf(<<c>>) = I PROVE c = b
    <3>1. {j \in 0 .. ByteBits - 1 : Bit(c, j)} = {j \in 0 .. ByteBits - 1 : Bit(b, j)}
      BY <1>2, <2>4, <2>6
    <3>2. \A j \in 0 .. ByteBits - 1 : Bit(c, j) <=> Bit(b, j) BY <3>1
    <3> QED BY <2>2, <3>2, SameByte
  <2> HIDE DEF I
  <2>7. (CHOOSE c \in 0 .. Base - 1 : Promise!BitsOf(<<c>>) = I) = b BY <2>2, <2>5, <2>6
  <2> QED BY <1>1, <2>7 DEF I, b, q
<1>4. Promise!Packed(K, w) =
        [k \in 1 .. w |-> CHOOSE b \in 0 .. Promise!AllOnes : Promise!BitsOf(<<b>>) = J(k)]
  BY DEF Promise!Packed
<1>5. Digits(n, w) = [k \in 1 .. w |-> Byte(n, k - 1)] BY DEF Digits, Byte
<1> HIDE DEF J
<1> QED BY <1>3, <1>4, <1>5

-----------------------------------------------------------------------------
(* Bit tests                                                               *)

(* One bit changed: all the others are as they were.                       *)
LEMMA OneBit ==
  ASSUME NEW s \in Operand, NEW k \in 0 .. ByteBits * Width(s) - 1,
         NEW n \in 0 .. Mask(s), NEW y,
         (~Bit(n, k) /\ y = n + 2 ^ k) \/ (Bit(n, k) /\ y = n - 2 ^ k)
  PROVE  /\ y \in 0 .. Mask(s)
         /\ \A j \in 0 .. ByteBits * Width(s) - 1 :
              Bit(y, j) <=> IF j = k THEN ~Bit(n, k) ELSE Bit(n, j)
<1> DEFINE m == 8 * ByteBits + 1
           P == [x \in 0 .. m |-> 2 ^ x]
           N == ByteBits * Width(s)
<1>1. m \in Nat /\ PowersOf(P, 2, m) /\ \A x \in 0 .. m : P[x] = 2 ^ x /\ P[x] \in Nat \ {0}
  BY BitPowers
<1> HIDE DEF P
<1>2. N \in 0 .. m /\ Width(s) \in 0 .. 8
  <2>1. Width(s) \in 0 .. 8 BY DEF Width, Operand
  <2> QED BY <2>1, BitRange
<1>3. k \in 0 .. N - 1 /\ N \in Nat BY <1>1, <1>2
<1> HIDE DEF N, m
<1>4. k \in 0 .. m /\ 1 \in 0 .. m - k /\ 1 \in 0 .. m /\ 0 \in 0 .. m BY <1>1, <1>2, <1>3
<1>5. /\ y \in 0 .. Mask(s) /\ Bit(y, k) = ~Bit(n, k)
      /\ y % 2 ^ k = n % 2 ^ k /\ (y \div 2 ^ k) \div 2 = (n \div 2 ^ k) \div 2
  BY BitChanged
<1>6. n \in Nat /\ y \in Nat
  <2>1. Mask(s) \in Nat BY Masks DEF Operand
  <2> QED BY <1>5, <2>1
<1>7. P[k] = 2 ^ k /\ P[1] = 2
  <2>1. P[0] = 1 /\ P[0 + 1] = 2 * P[0]
    <3>1. 0 \in 0 .. m - 1 BY <1>1, <1>4
    <3> QED BY <1>1, <3>1 DEF PowersOf
  <2>2. P[1] = 2
    <3>1. 0 + 1 = 1 /\ 2 * 1 = 2 OBVIOUS
    <3> QED BY <2>1, <3>1
  <2> QED BY <1>1, <1>4, <2>2
<1>8. HasSplicedDigits(y, n, 2, P, m, k, 1)
  <2>1. 2 \in Nat \ {0} OBVIOUS
  <2>2. y % P[k] = n % P[k] /\ (y \div P[k]) \div P[1] = (n \div P[k]) \div P[1]
    BY <1>5, <1>7
  <2> QED BY <1>1, <1>4, <1>6, <2>1, <2>2, SplicedDigits
<1>9. ASSUME NEW j \in 0 .. N - 1, j # k PROVE Bit(y, j) <=> Bit(n, j)
  <2>1. j \in 0 .. m - 1 /\ j \in 0 .. m /\ j \notin k .. k + 1 - 1 BY <1>1, <1>2, <1>3, <1>9
  <2>2. (y \div P[j]) % 2 = (n \div P[j]) % 2 BY <1>8, <2>1 DEF HasSplicedDigits
  <2>3. P[j] = 2 ^ j BY <1>1, <2>1
  <2> QED BY <2>2, <2>3 DEF Bit
<1>10. ASSUME NEW j \in 0 .. N - 1
       PROVE  Bit(y, j) <=> IF j = k THEN ~Bit(n, k) ELSE Bit(n, j)
  <2>1. CASE j = k BY <1>5, <2>1
  <2>2. CASE j # k BY <1>9, <2>2
  <2> QED BY <2>1, <2>2
<1> QED BY <1>5, <1>10 DEF N

(* The index counts the same whether it is extended to a word or further.  *)
LEMMA IndexIs ==
  ASSUME NEW s \in {"Word", "Dword"}, NEW t \in Operand, Width(t) <= Width(s),
         NEW n \in 0 .. Mask(t)
  PROVE  LET y == IF Negative(t, n) THEN (n + Mask(s)) - Mask(t) ELSE n
         IN  Promise!Number(Promise!Signed(Digits(n, Width(t)), 4)) % (ByteBits * Width(s))
               = y % (ByteBits * Width(s))
<1> DEFINE y == IF Negative(t, n) THEN (n + Mask(s)) - Mask(t) ELSE n
           x == IF Negative(t, n) THEN (n + Mask("Dword")) - Mask(t) ELSE n
           N == ByteBits * Width(s)
<1>1. s \in Operand /\ "Dword" \in Operand /\ Width("Dword") = 4 /\ Width(t) <= 4
  BY DEF Operand, Width
<1>2. Promise!Signed(Digits(n, Width(t)), Width("Dword")) = Digits(x, Width("Dword"))
  BY <1>1, SignedIs
<1>3. /\ n \in Nat /\ Mask(t) \in Nat /\ Mask(s) \in Nat /\ Mask("Dword") \in Nat
      /\ Mask(t) <= Mask("Dword") /\ Mask("Dword") = Bytes(4) - 1 /\ Mask("Word") = Bytes(2) - 1
      /\ Bytes(4) \in Nat /\ Bytes(2) \in Nat
  <2>1. Mask(t) \in Nat /\ Mask(s) \in Nat /\ Mask("Dword") \in Nat BY Masks, <1>1 DEF Operand
  <2>2. Mask(t) \in 0 .. Mask(t) BY <2>1
  <2>3. Mask(t) \in 0 .. Mask("Dword") BY <1>1, <2>2, MaskOrder
  <2> QED BY <2>1, <2>3, Masks, Widths
<1>4. x \in 0 .. Bytes(4) - 1 /\ y \in Int
  <2> DEFINE A == Mask(t)
             B == Mask("Dword")
             C == Mask(s)
  <2>1. /\ A \in Nat /\ B \in Nat /\ C \in Nat /\ A <= B /\ B = Bytes(4) - 1 /\ n \in 0 .. A
    BY <1>3
  <2>2. /\ x = IF Negative(t, n) THEN (n + B) - A ELSE n
        /\ y = IF Negative(t, n) THEN (n + C) - A ELSE n
    OBVIOUS
  <2> HIDE DEF A, B, C, x, y
  <2> QED BY <2>1, <2>2
<1>5. Promise!Number(Digits(x, 4)) = x
  <2>1. 4 \in 0 .. 8 OBVIOUS
  <2> HIDE DEF x
  <2> QED BY <1>4, <2>1, NumberIs
<1>6. x % N = y % N
  <2>1. CASE s = "Dword" BY <2>1
  <2>2. CASE s = "Word" /\ ~Negative(t, n)
    <3>1. x = y BY <2>2
    <3> HIDE DEF x, y
    <3> QED BY <3>1
  <2>3. CASE s = "Word" /\ Negative(t, n)
    <3> DEFINE D == Bytes(4) - Bytes(2)
               z == D \div N
    <3>1. x = y + D
      <4>1. x = (n + Mask("Dword")) - Mask(t) /\ y = (n + Mask("Word")) - Mask(t) BY <2>3
      <4> HIDE DEF x, y
      <4> QED BY <1>3, <4>1
    <3>2. N = 2 * ByteBits /\ N \in Nat \ {0}
      <4>1. Width(s) = 2 BY <2>3 DEF Width
      <4>2. ByteBits * 2 = 2 * ByteBits /\ 2 * ByteBits \in Nat \ {0} BY OperandsAssumption
      <4> QED BY <4>1, <4>2
    <3>3. D % N = 0
      <4> HIDE DEF N
      <4> QED BY <3>2, IndexAssumption
    <3>4. D \in Int BY <1>3
    <3> HIDE DEF N, D
    <3>5. z \in Int /\ D = N * z + (D % N) BY <3>2, <3>4, DivMod
    <3> HIDE DEF z
    <3> DEFINE q == N * z
    <3>6. q \in Int /\ D = q + 0 BY <3>2, <3>3, <3>5
    <3> HIDE DEF q
    <3>7. D = q BY <3>6
    <3>8. D = N * z BY <3>7 DEF q
    <3> HIDE DEF x, y
    <3>9. (y + N * z) % N = y % N BY <1>4, <3>2, <3>5, DivAdd
    <3> QED BY <3>1, <3>8, <3>9
  <2> QED BY <2>1, <2>2, <2>3
<1> HIDE DEF x, y, N
<1>7. Promise!Number(Promise!Signed(Digits(n, Width(t)), 4)) % N = y % N
  BY <1>1, <1>2, <1>5, <1>6
<1> QED BY <1>7 DEF y, N

(* What the promise says of the bit tests.                                 *)
LEMMA BitTestPromised ==
  ASSUME NEW i, i.function \in BitTests
  PROVE  /\ Promise!Reads(i) = {i.args[1], i.args[2]}
         /\ Promise!Refused(i) <=> /\ i.function = "bit_test_reset" /\ Promise!Width(i) = 4
                                   /\ i.args[2].kind = "Immediate" /\ i.args[2].size = "Byte"
         /\ Promise!FlagsAfter(i) =
              [flags EXCEPT !["carry"] = Promise!Selected(i) \in Promise!Before(i)]
         /\ i.function = "bit_test" => Promise!Written(i) = Promise!NoWrite
         /\ i.function # "bit_test" =>
              Promise!Written(i) =
                <<Promise!Target(i), Promise!Packed(Promise!After(i), Promise!Width(i))>>
<1>1. Promise!Reads(i) = {i.args[1], i.args[2]}
  BY DEF Promise!Reads, Promise!BitWrites, BitTests
<1>2. Promise!Refused(i) <=> /\ i.function = "bit_test_reset" /\ Promise!Width(i) = 4
                             /\ i.args[2].kind = "Immediate" /\ i.args[2].size = "Byte"
  BY DEF Promise!Refused, BitTests
<1>3. Promise!FlagsAfter(i) =
        [flags EXCEPT !["carry"] = Promise!Selected(i) \in Promise!Before(i)]
  BY DEF Promise!FlagsAfter, Promise!BitWrites, BitTests
<1>4. i.function = "bit_test" => Promise!Written(i) = Promise!NoWrite
  BY DEF Promise!Written, Promise!BitWrites
<1>5. i.function # "bit_test" =>
        Promise!Written(i) =
          <<Promise!Target(i), Promise!Packed(Promise!After(i), Promise!Width(i))>>
  BY DEF Promise!Written, Promise!BitWrites, BitTests
<1> QED BY <1>1, <1>2, <1>3, <1>4, <1>5

(* The bits that a bit test leaves.                                        *)
LEMMA AfterIs ==
  ASSUME NEW i, i.function \in BitTests, i.function # "bit_test", NEW j
  PROVE  LET k == Promise!Selected(i)
         IN  j \in Promise!After(i) <=>
               IF j = k
               THEN \/ i.function = "bit_test_set"
                    \/ i.function = "bit_test_complement" /\ k \notin Promise!Before(i)
               ELSE j \in Promise!Before(i)
  BY DEF Promise!After, BitTests

(* What the opcode table gives the bit tests to work on.                   *)
LEMMA BitTestArguments ==
  ASSUME NEW i \in Instrs, i.function \in BitTests
  PROVE  LET s == Native(i)
         IN  /\ IsArgument(Arg1(i)) /\ IsArgument(Arg2(i)) /\ IsPlace(Arg1(i))
             /\ Arg1(i).size = s /\ Arg2(i).size \in {"Byte", s}
             /\ Arg2(i).size = "Byte" => Arg2(i).kind = "Immediate"
             /\ s \in {"Word", "Dword"} /\ s \in Operand /\ Arg2(i).size \in Operand
             /\ Width(Arg2(i).size) <= Width(s)
             /\ Width(s) = Promise!Width(i) /\ Width(s) \in 0 .. 8
             /\ i.args[1] = Arg1(i) /\ i.args[2] = Arg2(i)
<1> DEFINE s == Native(i)
<1>1. /\ IsArgument(Arg1(i)) /\ IsArgument(Arg2(i)) /\ Arg1(i).kind # "Immediate"
      /\ Arg1(i).size = s /\ Arg2(i).size \in {"Byte", s}
      /\ Arg2(i).size = "Byte" => Arg2(i).kind = "Immediate"
  BY InstrsAssumption DEF NoOperand, OneOperand, Destination, BitScans, BitTests
<1>2. s \in {"Word", "Dword"} /\ Width(s) = Promise!Width(i)
  BY NativeIs DEF Native, Width, Promise!Width
<1>3. s \in Operand /\ Width(s) \in 0 .. 8 BY <1>2 DEF Operand, Width
<1> HIDE DEF s
<1>4. Arg2(i).size \in Operand /\ Width(Arg2(i).size) <= Width(s)
  BY <1>1, <1>2 DEF Operand, Width
<1> QED BY <1>1, <1>2, <1>3, <1>4 DEF IsPlace, Arg1, Arg2, s

(* The bit that is selected, whatever the size of the index.               *)
LEMMA BitIndexIs ==
  ASSUME Now \in Machines, NEW i \in Instrs, i.function \in BitTests
  PROVE  LET s     == Native(i)
             given == Get(Now, Arg2(i))
             index == IF i.function = "bit_test_reset" /\ s = "Dword" THEN Exact(given, s)
                      ELSE SX(given, s)
         IN  IF CanRead(Arg2(i)) /\ ~Promise!Refused(i)
             THEN /\ IsNumberOf(index, s)
                  /\ index.n % (ByteBits * Width(s)) = Promise!Selected(i)
             ELSE IsError(index)
<1> DEFINE s     == Native(i)
           q     == Arg2(i)
           t     == q.size
           given == Get(Now, q)
           exact == i.function = "bit_test_reset" /\ s = "Dword"
           index == IF exact THEN Exact(given, s) ELSE SX(given, s)
           N     == ByteBits * Width(s)
           n     == given.n
           y     == IF Negative(t, n) THEN (n + Mask(s)) - Mask(t) ELSE n
<1>1. /\ IsArgument(q) /\ t \in {"Byte", s} /\ (t = "Byte" => q.kind = "Immediate")
      /\ s \in {"Word", "Dword"} /\ s \in Operand /\ t \in Operand /\ Width(t) <= Width(s)
      /\ Width(s) = Promise!Width(i) /\ i.args[2] = q
  BY BitTestArguments
<1>2. Promise!Refused(i) <=> exact /\ t = "Byte"
  <2>1. s = "Dword" <=> Promise!Width(i) = 4 BY <1>1 DEF Width
  <2>2. Promise!Refused(i) <=> /\ i.function = "bit_test_reset" /\ Promise!Width(i) = 4
                               /\ q.kind = "Immediate" /\ t = "Byte"
    BY <1>1, BitTestPromised
  <2> QED BY <1>1, <2>1, <2>2
<1>3. CanRead(q) => /\ IsNumberOf(given, t) /\ ~Failed(given) /\ n \in Nat
                    /\ Promise!Contents(q) = Digits(n, Width(t))
  BY <1>1, GetReads
<1>4. ~CanRead(q) => IsError(given) /\ Failed(given) BY <1>1, GetReads
<1> HIDE DEF s, q, t, given, exact, n, N
<1>5. CASE CanRead(q) /\ ~Promise!Refused(i)
  <2>1. IsNumberOf(given, t) /\ ~Failed(given) /\ n \in Nat
        /\ Promise!Source(i) = Digits(n, Width(t))
    BY <1>1, <1>3, <1>5 DEF Promise!Source
  <2>2. n \in 0 .. Mask(t) /\ given.size = t BY <2>1 DEF IsNumberOf, n
  <2>3. IsNumberOf(index, s) /\ index.n = y
    <3>1. CASE exact
      <4>1. t = s BY <1>1, <1>2, <1>5, <3>1
      <4>2. index = given BY <2>2, <3>1, <4>1 DEF Exact
      <4>3. (n + Mask(s)) - Mask(s) = n
        <5> DEFINE M == Mask(s)
        <5>1. M \in Nat BY <1>1, Masks DEF Operand
        <5> HIDE DEF M
        <5>2. (n + M) - M = n BY <2>1, <5>1
        <5> QED BY <5>2 DEF M
      <4>4. y = n BY <4>1, <4>3
      <4> HIDE DEF index, y
      <4> QED BY <2>1, <4>1, <4>2, <4>4 DEF n
    <3>2. CASE ~exact
      <4>1. ~IsError(given) BY <2>1, ValueFailed
      <4>2. SX(given, s) = Sized(s, y) /\ IsNumberOf(SX(given, s), s)
        <5>1. LET m == IF Negative(given.size, given.n)
                       THEN (given.n + Mask(s)) - Mask(given.size) ELSE given.n
              IN  IF IsError(given) THEN SX(given, s) = given
                  ELSE SX(given, s) = Sized(s, m) /\ IsNumberOf(SX(given, s), s)
          BY <1>1, <2>1, SXTyped
        <5> QED BY <2>2, <4>1, <5>1 DEF n
      <4>3. index = SX(given, s) BY <3>2
      <4> HIDE DEF index, y
      <4> QED BY <4>2, <4>3 DEF Sized
    <3> QED BY <3>1, <3>2
  <2> HIDE DEF index
  <2>4. Promise!Number(Promise!Signed(Digits(n, Width(t)), 4)) % N = y % N
    BY <1>1, <2>2, IndexIs DEF N
  <2> HIDE DEF y
  <2>5. Promise!Selected(i) = y % N
    <3>1. Promise!Selected(i) =
            Promise!Number(Promise!Signed(Promise!Source(i), 4)) % (ByteBits * Promise!Width(i))
      BY DEF Promise!Selected
    <3>2. ByteBits * Promise!Width(i) = N BY <1>1 DEF N
    <3> QED BY <2>1, <2>4, <3>1, <3>2
  <2> QED BY <1>5, <2>3, <2>5 DEF index, q, s, N, given, exact
<1>6. CASE CanRead(q) /\ Promise!Refused(i)
  <2>1. exact /\ t = "Byte" /\ s = "Dword" BY <1>2, <1>6 DEF exact
  <2>2. given.size = "Byte" /\ ~Failed(given) BY <1>3, <1>6, <2>1 DEF IsNumberOf
  <2>3. index = Error("WrongSizeExpectation") BY <2>1, <2>2 DEF Exact
  <2>4. "WrongSizeExpectation" \in Errors BY DEF Errors
  <2>5. IsError(index)
    <3> HIDE DEF index
    <3> QED BY <2>3, <2>4, ErrorIs
  <2> QED BY <1>6, <2>5 DEF index, q, s, given, exact
<1>7. CASE ~CanRead(q)
  <2>1. IsError(given) /\ Failed(given) BY <1>4, <1>7
  <2>2. Exact(given, s) = given BY <2>1 DEF Exact
  <2>3. SX(given, s) = given BY <2>1 DEF SX, Fitting
  <2>4. IsError(index) BY <2>1, <2>2, <2>3
  <2> QED BY <1>7, <2>4 DEF index, q, s, given, exact
<1> QED BY <1>5, <1>6, <1>7 DEF q

(* The bit tests copy one bit to carry and change at most that bit.        *)
LEMMA BitTestCorrect ==
  ASSUME Now \in Machines, NEW i \in Instrs, i.function \in BitTests
  PROVE  Correct(i, BitTest(i))
<1> DEFINE s     == Native(i)
           l     == Arg1(i)
           q     == Arg2(i)
           w     == Width(s)
           N     == ByteBits * w
           v     == Exact(Get(Now, l), s)
           n     == v.n
           given == Get(Now, q)
           index == IF i.function = "bit_test_reset" /\ s = "Dword" THEN Exact(given, s)
                    ELSE SX(given, s)
           k     == index.n % N
           was   == Bit(n, k)
           is    == CASE i.function = "bit_test_set" -> TRUE
                      [] i.function = "bit_test_reset" -> FALSE
                      [] i.function = "bit_test_complement" -> ~was
           m     == Flagged(Now, "carry", was)
           bits  == IF is = was THEN n ELSE IF is THEN n + 2 ^ k ELSE n - 2 ^ k
           x     == Sized(s, bits)
           done  == IF i.function = "bit_test" THEN m ELSE Set(m, l, x)
<1>1. BitTest(i) = Checked(v, Checked(index, done)) BY DEF BitTest
<1>2. /\ IsArgument(l) /\ IsArgument(q) /\ IsPlace(l) /\ l.size = s
      /\ s \in Operand /\ w = Promise!Width(i) /\ w \in 0 .. 8
      /\ i.args[1] = l /\ i.args[2] = q
  BY BitTestArguments
<1>3. Promise!Readable(i) <=> ~Promise!Refused(i) /\ CanRead(l) /\ CanRead(q)
  <2>1. i.function \notin {"xlatb", "cmpxchg8b"} BY DEF BitTests
  <2> HIDE DEF l, q
  <2>2. Promise!Reads(i) = {l, q} BY <1>2, BitTestPromised
  <2>3. /\ (Promise!InMemory(l) => Promise!Accessible(Promise!PlacesOf(l))) <=> CanRead(l)
        /\ (Promise!InMemory(q) => Promise!Accessible(Promise!PlacesOf(q))) <=> CanRead(q)
    BY <1>2, OperandRead
  <2>4. Promise!Readable(i) <=>
          ~Promise!Refused(i)
            /\ \A z \in {l, q} : Promise!InMemory(z) => Promise!Accessible(Promise!PlacesOf(z))
    BY <2>1, <2>2, ReadableIs
  <2> QED BY <2>3, <2>4
<1>4. IF CanRead(q) /\ ~Promise!Refused(i)
      THEN IsNumberOf(index, s) /\ k = Promise!Selected(i)
      ELSE IsError(index)
  BY BitIndexIs
<1>5. /\ CanRead(l) => /\ IsNumberOf(v, s) /\ ~Failed(v) /\ n \in Nat
                       /\ Promise!Contents(l) = Digits(n, w)
      /\ ~CanRead(l) => IsError(v)
  BY <1>2, ExactReads
<1> HIDE DEF index, v, s, l, q, given
<1>6. CASE ~Promise!Readable(i)
  <2> HIDE DEF done
  <2>1. CASE ~CanRead(l)
    <3>1. IsError(v) BY <1>5, <2>1
    <3> QED BY <1>1, <1>6, <3>1, ErrorCorrect
  <2>2. CASE CanRead(l)
    <3>1. ~Failed(v) /\ IsError(index) BY <1>3, <1>4, <1>5, <1>6, <2>2
    <3>2. BitTest(i) = Checked(index, done) BY <1>1, <3>1 DEF Checked
    <3> QED BY <1>6, <3>1, <3>2, ErrorCorrect
  <2> QED BY <2>1, <2>2
<1>7. CASE Promise!Readable(i)
  <2>1. /\ IsNumberOf(index, s) /\ k = Promise!Selected(i) /\ IsNumberOf(v, s) /\ ~Failed(v)
        /\ n \in Nat /\ Promise!Before(i) = Promise!BitsOf(Digits(n, w))
    BY <1>2, <1>3, <1>4, <1>5, <1>7 DEF Promise!Before
  <2>2. ~Failed(index) BY <1>2, <2>1, ValueFailed DEF Operand
  <2>3. BitTest(i) = done
    <3> HIDE DEF done
    <3> QED BY <1>1, <2>1, <2>2 DEF Checked
  <2>4. index.n \in Nat /\ n \in 0 .. Mask(s)
    <3>1. index.n \in 0 .. Mask(s) BY <2>1 DEF IsNumberOf
    <3>2. Mask(s) \in Nat BY <1>2, Masks DEF Operand
    <3>3. n \in 0 .. Mask(s) BY <2>1 DEF IsNumberOf
    <3> QED BY <3>1, <3>2, <3>3
  <2>5. k \in 0 .. N - 1 BY <1>2, <2>4, BitIndex
  <2> HIDE DEF n, k, N, w
  <2>6. \A j \in 0 .. N - 1 : j \in Promise!Before(i) <=> Bit(n, j)
    <3>1. Promise!BitsOf(Digits(n, w)) = {j \in 0 .. N - 1 : Bit(n, j)}
      BY <1>2, <2>1, BitsAre DEF N
    <3> QED BY <2>1, <3>1
  <2>7. was <=> k \in Promise!Before(i) BY <2>5, <2>6
  <2>8. was \in BOOLEAN BY DEF Bit
  <2>9. m \in Machines /\ m.regs = regs /\ m.mem = mem /\ m.result = "Ok"
    <3>1. "carry" \in Flags BY OperandsAssumption
    <3> HIDE DEF was
    <3>2. m \in Machines BY <2>8, <3>1, FlaggedTyped
    <3> QED BY <3>2, FlaggedNow DEF Kept
  <2>10. m.flags = Promise!FlagsAfter(i)
    <3>1. m.flags = [flags EXCEPT !["carry"] = was]
      <4> HIDE DEF was
      <4> QED BY DEF Flagged, Now
    <3>2. Promise!FlagsAfter(i) = [flags EXCEPT !["carry"] = k \in Promise!Before(i)]
      BY <2>1, BitTestPromised
    <3>3. was = (k \in Promise!Before(i))
      <4> HIDE DEF was
      <4> QED BY <2>7, <2>8, Zenon
    <3> HIDE DEF was, m
    <3> QED BY <3>1, <3>2, <3>3
  <2>11. CASE i.function = "bit_test"
    <3>1. done = m BY <2>11
    <3>2. Promise!Written(i) = Promise!NoWrite BY <2>11, BitTestPromised
    <3> HIDE DEF m, done
    <3> QED BY <1>7, <2>3, <2>9, <2>10, <3>1, <3>2, NoWriteCorrect DEF Kept
  <2>12. CASE i.function # "bit_test"
    <3>1. is \in BOOLEAN /\ (is <=> \/ i.function = "bit_test_set"
                                    \/ i.function = "bit_test_complement" /\ ~was)
      <4> HIDE DEF was
      <4> QED BY <2>8, <2>12 DEF BitTests
    <3> HIDE DEF is
    <3>2. bits \in 0 .. Mask(s) /\ \A j \in 0 .. N - 1 : Bit(bits, j) <=>
            IF j = k THEN is ELSE Bit(n, j)
      <4>1. CASE is = was
        <5>1. bits = n BY <4>1
        <5> HIDE DEF bits
        <5> QED BY <2>4, <2>7, <4>1, <5>1
      <4>2. CASE is # was
        <5>1. is <=> ~was
          <6> HIDE DEF was
          <6> QED BY <2>8, <3>1, <4>2
        <5>2. (~Bit(n, k) /\ bits = n + 2 ^ k) \/ (Bit(n, k) /\ bits = n - 2 ^ k)
          <6>1. CASE is
            <7>1. ~was BY <5>1, <6>1
            <7>2. bits = n + 2 ^ k BY <4>2, <6>1
            <7> QED BY <7>1, <7>2
          <6>2. CASE ~is
            <7>1. was BY <5>1, <6>2
            <7>2. bits = n - 2 ^ k BY <4>2, <6>2
            <7> QED BY <7>1, <7>2
          <6> QED BY <6>1, <6>2
        <5> HIDE DEF bits
        <5>3. /\ bits \in 0 .. Mask(s)
              /\ \A j \in 0 .. N - 1 : Bit(bits, j) <=> IF j = k THEN ~Bit(n, k) ELSE Bit(n, j)
          BY <1>2, <2>4, <2>5, <5>2, OneBit DEF N, w
        <5> QED BY <5>1, <5>3
      <4> QED BY <4>1, <4>2
    <3> HIDE DEF bits
    <3>3. IsNumberOf(x, s) /\ x.n = bits BY <1>2, <3>2, SizedIs DEF Operand
    <3>4. Promise!Packed(Promise!After(i), w) = Digits(bits, w)
      <4>1. bits \in Nat
        <5>1. Mask(s) \in Nat BY <1>2, Masks DEF Operand
        <5> QED BY <3>2, <5>1
      <4>2. ASSUME NEW j \in 0 .. ByteBits * w - 1
            PROVE  j \in Promise!After(i) <=> Bit(bits, j)
        <5>1. j \in Promise!After(i) <=>
               IF j = k
               THEN \/ i.function = "bit_test_set"
                    \/ i.function = "bit_test_complement" /\ k \notin Promise!Before(i)
               ELSE j \in Promise!Before(i)
          BY <2>1, <2>12, AfterIs
        <5>2. j \in 0 .. N - 1 BY DEF N
        <5>3. (j \in Promise!Before(i) <=> Bit(n, j))
              /\ (Bit(bits, j) <=> IF j = k THEN is ELSE Bit(n, j))
          BY <2>6, <3>2, <5>2
        <5> HIDE DEF was
        <5> QED BY <2>7, <3>1, <5>1, <5>3
      <4> QED BY <1>2, <4>1, <4>2, PackedIs
    <3>5. Promise!Written(i) = <<Promise!PlacesOf(l), Digits(x.n, Width(l.size))>>
      BY <1>2, <2>12, <3>3, <3>4, BitTestPromised DEF Promise!Target, w
    <3>6. done = Set(m, l, x) BY <2>12
    <3>7. Width(s) <= Width(l.size) BY <1>2 DEF Operand, Width
    <3> HIDE DEF m, x, done
    <3> QED BY <1>2, <1>7, <2>3, <2>9, <2>10, <3>3, <3>5, <3>6, <3>7, SetCorrect
  <2> QED BY <2>11, <2>12
<1> QED BY <1>6, <1>7

-----------------------------------------------------------------------------
(* Bit scans                                                               *)

(* What the promise says of the bit scans.                                 *)
LEMMA BitScanPromised ==
  ASSUME NEW i, i.function \in BitScans
  PROVE  /\ ~Promise!Refused(i) /\ Promise!Reads(i) = {i.args[1]}
         /\ Promise!FlagsAfter(i) = [flags EXCEPT !["zero"] = (Promise!Before(i) = {})]
         /\ Promise!Before(i) = {} => Promise!Written(i) = Promise!NoWrite
         /\ Promise!Before(i) # {} =>
              Promise!Written(i) =
                <<Promise!PlacesOf(i.args[2]),
                  Promise!Bytes(Promise!Scanned(i), Promise!Width(i))>>
         /\ i.function = "bit_scan_forward" => Promise!Scanned(i) = Min(Promise!Before(i))
         /\ i.function # "bit_scan_forward" => Promise!Scanned(i) = Max(Promise!Before(i))
<1>1. ~Promise!Refused(i) BY DEF Promise!Refused, BitScans
<1>2. Promise!Reads(i) = {i.args[1]} BY DEF Promise!Reads, Promise!BitWrites, BitScans
<1>3. Promise!FlagsAfter(i) = [flags EXCEPT !["zero"] = (Promise!Before(i) = {})]
  BY DEF Promise!FlagsAfter, Promise!BitWrites, BitScans
<1>4. Promise!Before(i) = {} => Promise!Written(i) = Promise!NoWrite
  BY DEF Promise!Written, Promise!BitWrites, BitScans
<1>5. Promise!Before(i) # {} =>
        Promise!Written(i) =
          <<Promise!PlacesOf(i.args[2]), Promise!Bytes(Promise!Scanned(i), Promise!Width(i))>>
  BY DEF Promise!Written, Promise!BitWrites, BitScans
<1>6. i.function = "bit_scan_forward" => Promise!Scanned(i) = Min(Promise!Before(i))
  BY DEF Promise!Scanned, Min
<1>7. i.function # "bit_scan_forward" => Promise!Scanned(i) = Max(Promise!Before(i))
  BY DEF Promise!Scanned, Max
<1> QED BY <1>1, <1>2, <1>3, <1>4, <1>5, <1>6, <1>7

(* The bit scans find the lowest and the highest bit.                      *)
LEMMA BitScanCorrect ==
  ASSUME Now \in Machines, NEW i \in Instrs, i.function \in BitScans
  PROVE  Correct(i, BitScan(i))
<1> DEFINE s == Native(i)
           l == Arg1(i)
           q == Arg2(i)
           w == Width(s)
           v == Exact(Get(Now, l), s)
           n == v.n
           K == { k \in 0 .. ByteBits * w - 1 : Bit(n, k) }
           none  == Flagged(Now, "zero", TRUE)
           k     == IF i.function = "bit_scan_forward" THEN Min(K) ELSE Max(K)
           x     == Sized(s, k)
           one   == Flagged(Now, "zero", FALSE)
           found == Set(one, q, x)
<1>1. BitScan(i) = Checked(v, IF K = {} THEN none ELSE found) BY DEF BitScan
<1>2. /\ IsArgument(l) /\ IsPlace(q) /\ l.size = s /\ q.size = s
      /\ i.args[1] = l /\ i.args[2] = q
  <2>1. /\ IsArgument(l) /\ IsArgument(q) /\ l.size = s /\ q.size = s
        /\ Destination(i) = q /\ i.function \notin NoOperand
    BY InstrsAssumption DEF NoOperand, OneOperand, Destination, BitScans
  <2>2. Destination(i).kind # "Immediate" BY <2>1, InstrsAssumption
  <2>3. i.args[1] = l /\ i.args[2] = q BY DEF Arg1, Arg2
  <2> HIDE DEF l, q, s
  <2> QED BY <2>1, <2>2, <2>3 DEF IsPlace
<1>3. s \in Operand /\ w \in 0 .. 8 /\ w = Promise!Width(i)
  BY NativeIs DEF Operand, Width, Native, Promise!Width
<1>4. Promise!Readable(i) <=> CanRead(l)
  <2>1. i.function \notin {"xlatb", "cmpxchg8b"} BY DEF BitScans
  <2> HIDE DEF l
  <2>2. Promise!Reads(i) = {l} BY <1>2, BitScanPromised
  <2> QED BY <1>2, <2>1, <2>2, BitScanPromised, ReadableIs, OperandRead
<1>5. /\ CanRead(l) => /\ IsNumberOf(v, s) /\ ~Failed(v) /\ n \in Nat
                       /\ Promise!Contents(l) = Digits(n, w)
      /\ ~CanRead(l) => IsError(v)
  BY <1>2, <1>3, ExactReads
<1> HIDE DEF v, s, l, q
<1>6. CASE ~CanRead(l)
  <2> HIDE DEF K, none, found
  <2>1. IsError(v) BY <1>5, <1>6
  <2> QED BY <1>1, <1>4, <1>6, <2>1, ErrorCorrect
<1>7. CASE CanRead(l)
  <2>1. ~Failed(v) /\ n \in Nat /\ Promise!Before(i) = Promise!BitsOf(Digits(n, w))
    BY <1>2, <1>5, <1>7 DEF Promise!Before
  <2> HIDE DEF n, w
  <2>2. Promise!Before(i) = K BY <1>3, <2>1, BitsAre
  <2>3. BitScan(i) = IF K = {} THEN none ELSE found
    <3> HIDE DEF K, none, found
    <3> QED BY <1>1, <2>1 DEF Checked
  <2>4. "zero" \in Flags BY OperandsAssumption
  <2>5. CASE K = {}
    <3>1. none.result = "Ok" /\ Kept(none) BY FlaggedNow
    <3>2. none.flags = [flags EXCEPT !["zero"] = TRUE] BY DEF Flagged, Now
    <3> HIDE DEF none, found, K
    <3>3. none.flags = Promise!FlagsAfter(i)
      <4>1. (Promise!Before(i) = {}) = TRUE BY <2>2, <2>5
      <4> QED BY <3>2, <4>1, BitScanPromised
    <3>4. Promise!Written(i) = Promise!NoWrite BY <2>2, <2>5, BitScanPromised
    <3>5. BitScan(i) = none BY <2>3, <2>5
    <3> QED BY <1>4, <1>7, <3>1, <3>3, <3>4, <3>5, NoWriteCorrect
  <2>6. CASE K # {}
    <3>1. one \in Machines /\ one.regs = regs /\ one.mem = mem /\ one.result = "Ok"
      BY <2>4, FlaggedNow, FlaggedTyped DEF Kept
    <3>2. one.flags = [flags EXCEPT !["zero"] = FALSE] BY DEF Flagged, Now
    <3> HIDE DEF one
    <3>3. one.flags = Promise!FlagsAfter(i)
      <4> HIDE DEF K
      <4>1. (Promise!Before(i) = {}) = FALSE BY <2>2, <2>6
      <4> QED BY <3>2, <4>1, BitScanPromised
    <3> DEFINE N == ByteBits * w
    <3>4. N \in Nat BY <1>3, BitRange
    <3>5. K \in SUBSET (0 .. N - 1) OBVIOUS
    <3> HIDE DEF N, K
    <3>6. k \in 0 .. N - 1
      <4>1. k \in K BY <2>6, <3>4, <3>5, ScanIs
      <4> QED BY <3>5, <4>1
    <3>7. Promise!Scanned(i) = k BY <2>2, BitScanPromised
    <3> HIDE DEF k
    <3>8. k \in 0 .. Mask(s) BY <1>3, <3>6, BitIs DEF N, w
    <3>9. IsNumberOf(x, s) /\ x.n = k BY <1>3, <3>8, SizedIs DEF Operand
    <3> HIDE DEF x
    <3>10. Promise!Written(i) = <<Promise!PlacesOf(q), Digits(x.n, Width(q.size))>>
      <4>1. Promise!Written(i) = <<Promise!PlacesOf(q), Promise!Bytes(k, w)>>
        BY <1>2, <1>3, <2>2, <2>6, <3>7, BitScanPromised
      <4>2. Promise!Bytes(k, w) = Digits(k, w) BY BytesIs
      <4> QED BY <1>2, <3>9, <4>1, <4>2 DEF w
    <3>11. Width(s) <= Width(q.size) BY <1>2, <1>3 DEF Operand, Width
    <3>12. Correct(i, found)
      BY <1>2, <1>3, <1>4, <1>7, <3>1, <3>3, <3>9, <3>10, <3>11, SetCorrect
    <3> HIDE DEF found
    <3> QED BY <2>3, <2>6, <3>12
  <2> QED BY <2>5, <2>6
<1> QED BY <1>6, <1>7

-----------------------------------------------------------------------------
(* The flags in ah                                                         *)

(* ah is the second byte of the first register.                            *)
LEMMA SecondByte ==
  ASSUME Now \in Machines
  PROVE  LET l == Whole(4, "Byte")
             n == GetReg(Now, AH, "Byte").n
         IN  /\ IsArgument(l) /\ l.kind = "RegisterValue" /\ l.reg = AH /\ l.size = "Byte"
             /\ Promise!PlacesOf(l) = Promise!SecondOfAX
             /\ n \in 0 .. Base - 1 /\ n \in Nat
             /\ Promise!At(Promise!SecondOfAX) = Digits(n, 1)
<1> DEFINE l == Whole(4, "Byte")
           v == GetReg(Now, AH, "Byte")
<1>1. l.kind = "RegisterValue" /\ l.reg = 4 /\ l.size = "Byte" /\ AH = 4 BY DEF Whole, AH
<1> HIDE DEF l
<1>2. IsArgument(l) BY <1>1 DEF IsArgument, Addresses, Registers
<1>3. Promise!PlacesOf(l) = Promise!SecondOfAX
  <2>1. 4 % 4 = 0 /\ 4 \div 4 = 1 OBVIOUS
  <2>2. Promise!InRegister(l) /\ ~Promise!InMemory(l)
    BY <1>1 DEF Promise!InRegister, Promise!InMemory
  <2> QED BY <1>1, <2>1, <2>2 DEF Promise!PlacesOf, Promise!SecondOfAX
<1>4. CanRead(l) BY <1>1, <1>2, OperandIs
<1>5. Get(Now, l) = v BY <1>1 DEF Get
<1> HIDE DEF v
<1>6. IsNumberOf(v, "Byte") /\ v.n \in Nat /\ Promise!Contents(l) = Digits(v.n, Width("Byte"))
  BY <1>1, <1>2, <1>4, <1>5, GetReads
<1>7. Promise!Contents(l) = Promise!At(Promise!PlacesOf(l))
  <2>1. IsPlace(l) BY <1>1, <1>2 DEF IsPlace
  <2> QED BY <2>1, PlacesTuple
<1>8. Width("Byte") = 1 BY DEF Width
<1>9. v.n \in 0 .. Base - 1 BY <1>6, Masks DEF IsNumberOf
<1> QED BY <1>1, <1>2, <1>3, <1>6, <1>7, <1>8, <1>9 DEF l, v

(* sahf finds no flag beyond the byte set.                                 *)
LEMMA HighFlag ==
  ASSUME NEW n \in 0 .. Base - 1, NEW x \in Flags, FlagBits[x] >= ByteBits
  PROVE  ~Bit(n, FlagBits[x])
<1> DEFINE f == FlagBits[x]
<1>1. PICK W \in Nat :
        LET P == [k \in 0 .. W |-> 2 ^ k]
        IN  /\ PowersOf(P, 2, W) /\ ByteBits < W
            /\ \A k \in 0 .. W : P[k] = 2 ^ k /\ P[k] \in Nat \ {0}
            /\ FlagBits[x] \in 0 .. W - 1
  BY FlagPowers
<1> DEFINE P == [k \in 0 .. W |-> 2 ^ k]
<1>2. PowersOf(P, 2, W) /\ \A k \in 0 .. W : P[k] = 2 ^ k /\ P[k] \in Nat \ {0} BY <1>1
<1> HIDE DEF P
<1>3. f \in 0 .. W /\ ByteBits \in 0 .. f BY <1>1, OperandsAssumption
<1> HIDE DEF f
<1>4. PICK z \in Nat \ {0} : P[f] = P[ByteBits] * z
  <2>1. 2 \in Nat \ {0} OBVIOUS
  <2> QED BY <1>2, <1>3, <2>1, PowersAre
<1>5. P[ByteBits] = Base /\ P[f] = 2 ^ f /\ P[f] \in Nat \ {0}
  BY <1>2, <1>3 DEF Base
<1>6. Base \in Nat \ {0} BY Widths
<1>7. n \in 0 .. P[f] - 1
  <2> DEFINE p == P[f]
             b == Base
  <2>1. b * 1 <= b * z BY <1>6, ProductOrder
  <2>2. p = b * z /\ p \in Nat /\ b * 1 = b BY <1>4, <1>5, <1>6
  <2>3. n \in 0 .. b - 1 /\ b \in Nat BY <1>6
  <2> HIDE DEF p, b
  <2>4. b <= p BY <2>1, <2>2
  <2> QED BY <2>2, <2>3, <2>4 DEF p
<1>8. n \div P[f] = 0 BY <1>5, <1>7, Below
<1>9. 0 % 2 = 0 OBVIOUS
<1> QED BY <1>5, <1>8, <1>9 DEF Bit, f

(* sahf sets every flag from its bit of ah.                                *)
LEMMA SahfCorrect ==
  ASSUME Now \in Machines, NEW i, i.function = "sahf"
  PROVE  Correct(i, Sahf)
<1> DEFINE n == GetReg(Now, AH, "Byte").n
<1>1. n \in 0 .. Base - 1 /\ n \in Nat /\ Promise!At(Promise!SecondOfAX) = Digits(n, 1)
  BY SecondByte
<1>2. Promise!FlagsAfter(i) =
        [x \in DOMAIN flags |-> FlagBits[x] \in Promise!BitsOf(Promise!At(Promise!SecondOfAX))]
  BY DEF Promise!FlagsAfter, Promise!BitWrites
<1>3. DOMAIN flags = Flags BY DEF Machines, Now
<1>4. Sahf.flags = [x \in Flags |-> Bit(n, FlagBits[x])] BY DEF Sahf, Now
<1>5. Sahf.result = "Ok" /\ Kept(Sahf) BY DEF Sahf, Now, Kept
<1> HIDE DEF n
<1>6. Promise!BitsOf(Promise!At(Promise!SecondOfAX)) = {k \in 0 .. ByteBits - 1 : Bit(n, k)}
  <2>1. 1 \in 0 .. 8 /\ ByteBits * 1 = ByteBits BY OperandsAssumption
  <2> QED BY <1>1, <2>1, BitsAre
<1>7. ASSUME NEW x \in Flags
      PROVE  (FlagBits[x] \in {k \in 0 .. ByteBits - 1 : Bit(n, k)}) = Bit(n, FlagBits[x])
  <2>1. FlagBits[x] \in Nat /\ ByteBits \in Nat BY OperandsAssumption
  <2>2. Bit(n, FlagBits[x]) \in BOOLEAN BY DEF Bit
  <2>3. CASE FlagBits[x] >= ByteBits
    <3>1. ~Bit(n, FlagBits[x]) BY <1>1, <2>3, HighFlag
    <3> QED BY <2>2, <3>1
  <2>4. CASE FlagBits[x] < ByteBits
    <3>1. FlagBits[x] \in 0 .. ByteBits - 1 BY <2>1, <2>4
    <3>2. FlagBits[x] \in {k \in 0 .. ByteBits - 1 : Bit(n, k)} <=> Bit(n, FlagBits[x])
      BY <3>1
    <3>3. CASE Bit(n, FlagBits[x]) BY <2>2, <3>2, <3>3
    <3>4. CASE ~Bit(n, FlagBits[x]) BY <2>2, <3>2, <3>4
    <3> QED BY <3>3, <3>4
  <2> QED BY <2>1, <2>3, <2>4
<1>8. Sahf.flags = Promise!FlagsAfter(i)
  <2>1. Promise!FlagsAfter(i) =
          [x \in Flags |-> FlagBits[x] \in {k \in 0 .. ByteBits - 1 : Bit(n, k)}]
    BY <1>2, <1>3, <1>6
  <2> QED BY <1>4, <1>7, <2>1, Zenon
<1> QED BY <1>5, <1>8, IdlePromised, NoWriteCorrect

(* The bits of the flags register.                                         *)
LEMMA FlagsRegisterIs ==
  ASSUME Now \in Machines
  PROVE  /\ Serialized \in Nat /\ Serialized % Base \in 0 .. Base - 1
         /\ \A k \in 0 .. ByteBits - 1 :
              k \in Promise!FlagsRegister <=> Bit(Serialized % Base, k)
<1>1. PICK W \in Nat :
        LET P == [k \in 0 .. W |-> 2 ^ k]
        IN  /\ PowersOf(P, 2, W) /\ ByteBits < W
            /\ \A k \in 0 .. W : P[k] = 2 ^ k /\ P[k] \in Nat \ {0}
            /\ \A x \in Flags : FlagBits[x] \in 0 .. W - 1
  BY FlagPowers
<1> DEFINE P  == [k \in 0 .. W |-> 2 ^ k]
           On == {x \in Flags : flags[x]}
           T  == {2 ^ FlagBits[x] : x \in On}
           R  == Promise!FlagsRegister
           D  == [k \in 0 .. W - 1 |-> IF k \in R THEN 1 ELSE 0]
           Z  == {2} \union T
<1>2. /\ PowersOf(P, 2, W) /\ \A k \in 0 .. W : P[k] = 2 ^ k /\ P[k] \in Nat \ {0}
      /\ \A x \in Flags : FlagBits[x] \in 0 .. W - 1
      /\ ByteBits \in 0 .. W /\ 1 \in 0 .. W - 1 /\ 0 \in 0 .. W - 1
  BY <1>1, OperandsAssumption
<1> HIDE DEF P
<1>3. P[0] = 1 /\ P[1] = 2
  <2>1. P[0] = 1 /\ P[0 + 1] = 2 * P[0] BY <1>2 DEF PowersOf
  <2>2. 0 + 1 = 1 /\ 2 * 1 = 2 OBVIOUS
  <2> QED BY <2>1, <2>2
<1>4. R = {1} \union {FlagBits[x] : x \in On}
  <2>1. DOMAIN flags = Flags BY DEF Machines, Now
  <2> QED BY <2>1 DEF Promise!FlagsRegister
<1>5. R \subseteq 0 .. W - 1 BY <1>2, <1>4
<1>6. 2 \notin T
  <2> SUFFICES ASSUME NEW x \in Flags PROVE 2 ^ FlagBits[x] # 2 OBVIOUS
  <2> DEFINE f == FlagBits[x]
  <2>1. f \in 0 .. W - 1 /\ f \in Nat \ {1} /\ f \in 0 .. W BY <1>2, OperandsAssumption
  <2>2. P[f] = 2 ^ f BY <1>2, <2>1
  <2> HIDE DEF f
  <2>3. CASE f = 0 BY <1>3, <2>2, <2>3 DEF f
  <2>4. CASE f > 0
    <3> DEFINE g == f - 1
    <3>1. g \in 0 .. W - 1 /\ g \in 0 .. W /\ g + 1 = f /\ g \in Nat \ {0} BY <2>1, <2>4
    <3> HIDE DEF g
    <3>2. P[f] = 2 * P[g] BY <1>2, <3>1 DEF PowersOf
    <3>3. g < P[g] BY <1>2, <3>1, ExponentBelow
    <3>4. P[g] \in Nat BY <1>2, <3>1
    <3>5. P[f] # 2 BY <3>1, <3>2, <3>3, <3>4
    <3> QED BY <2>2, <3>5 DEF f
  <2> QED BY <2>1, <2>3, <2>4
<1>7. Z = {2 ^ k : k \in R}
  <2>1. 2 ^ 1 = 2
    <3>1. 1 \in 0 .. W BY <1>2
    <3> QED BY <1>2, <1>3, <3>1
  <2> HIDE DEF R, On
  <2> QED BY <1>4, <2>1
<1> HIDE DEF R
<1>8. DigitsOf(D, 2, W) BY DEF DigitsOf
<1>9. Amounts(Z, D, P, W)
  <2>1. ASSUME NEW k \in 0 .. W - 1
        PROVE  /\ k \in R => D[k] * P[k] = 2 ^ k
               /\ D[k] # 0 => k \in R
    <3>1. P[k] = 2 ^ k /\ P[k] \in Nat
      <4>1. k \in 0 .. W OBVIOUS
      <4> QED BY <1>2, <4>1
    <3>2. D[k] = IF k \in R THEN 1 ELSE 0 OBVIOUS
    <3> DEFINE p == P[k]
    <3>3. p \in Nat /\ p = 2 ^ k BY <3>1
    <3> HIDE DEF p, D
    <3>4. 1 * p = p BY <3>3
    <3> QED BY <3>2, <3>3, <3>4 DEF p
  <2> HIDE DEF D
  <2>2. ASSUME NEW z \in Z PROVE z \in {D[k] * P[k] : k \in 0 .. W - 1}
    <3>1. PICK k \in R : z = 2 ^ k BY <1>7
    <3>2. k \in 0 .. W - 1 BY <1>5
    <3> QED BY <2>1, <3>1, <3>2
  <2>3. ASSUME NEW k \in 0 .. W - 1, D[k] # 0 PROVE D[k] * P[k] \in Z
    BY <1>7, <2>1, <2>3
  <2> HIDE DEF Z
  <2> QED BY <2>2, <2>3 DEF Amounts
<1> DEFINE S == SumSet(Z)
<1>10. Z \subseteq Nat /\ IsFiniteSet(Z) /\ IsNumber(S, D, P, 2, W)
  <2>1. 2 \in Nat \ {0} OBVIOUS
  <2> HIDE DEF Z, D
  <2> QED BY <1>2, <1>8, <1>9, <2>1, Positional
<1>11. S = Serialized
  <2>1. Z \subseteq Int BY <1>10
  <2>2. Z \ {2} = T /\ 2 \in Z BY <1>6
  <2>3. Serialized = 2 + SumSet(T) BY DEF Serialized
  <2> HIDE DEF Z, T
  <2>4. PICK F \in [SUBSET Z -> Int] : SumOf(F, Z) BY <1>10, <2>1, SumExists
  <2>5. Z \in SUBSET Z /\ Z \ {2} \in SUBSET Z OBVIOUS
  <2>6. F[Z] = SumSet(Z) /\ F[Z] = 2 + F[Z \ {2}] BY <2>2, <2>4, <2>5 DEF SumOf
  <2>7. F[Z \ {2}] = SumSet(Z \ {2}) BY <2>4, <2>5 DEF SumOf
  <2> QED BY <2>2, <2>3, <2>6, <2>7
<1> HIDE DEF Z, S
<1>12. P[W] \in Nat \ {0} /\ P[ByteBits] = Base
  <2>1. W \in 0 .. W OBVIOUS
  <2> QED BY <1>2, <2>1 DEF Base
<1>13. S \in Nat BY <1>10, <1>12 DEF IsNumber
<1>14. ASSUME NEW k \in 0 .. ByteBits - 1 PROVE k \in R <=> Bit(S % Base, k)
  <2>1. k \in 0 .. W - 1 /\ k \in 0 .. W BY <1>2
  <2>2. (S \div P[k]) % 2 = D[k]
    <3> HIDE DEF D
    <3> QED BY <1>10, <2>1 DEF IsNumber
  <2>3. ((S % P[ByteBits]) \div P[k]) % 2 = (S \div P[k]) % 2
    <3>1. 2 \in Nat \ {0} OBVIOUS
    <3>2. \A j \in 0 .. ByteBits - 1 : ((S % P[ByteBits]) \div P[j]) % 2 = (S \div P[j]) % 2
      BY <1>2, <1>13, <3>1, DigitsOfRemainder
    <3> QED BY <3>2
  <2>4. P[k] = 2 ^ k BY <1>2, <2>1
  <2>5. D[k] = IF k \in R THEN 1 ELSE 0 BY <2>1
  <2>6. ((S % Base) \div 2 ^ k) % 2 = D[k] BY <1>12, <2>2, <2>3, <2>4
  <2> QED BY <2>5, <2>6 DEF Bit
<1>15. S % Base \in 0 .. Base - 1
  <2>1. Base \in Nat \ {0} /\ S \in Int BY <1>13, Widths
  <2> QED BY <2>1, DivMod
<1> QED BY <1>11, <1>13, <1>14, <1>15 DEF R

(* lahf sets every bit of ah from its flag.                                *)
LEMMA LahfCorrect ==
  ASSUME Now \in Machines, NEW i, i.function = "lahf"
  PROVE  Correct(i, Lahf)
<1> DEFINE n == Serialized % Base
           v == Sized("Byte", n)
           l == Whole(4, "Byte")
<1>1. /\ IsArgument(l) /\ l.kind = "RegisterValue" /\ l.reg = AH /\ l.size = "Byte"
      /\ Promise!PlacesOf(l) = Promise!SecondOfAX
  BY SecondByte
<1>2. n \in 0 .. Base - 1 /\ \A k \in 0 .. ByteBits - 1 : k \in Promise!FlagsRegister <=> Bit(n, k)
  BY FlagsRegisterIs
<1>3. Lahf = SetReg(Now, AH, v) BY DEF Lahf
<1> HIDE DEF n, l
<1>4. n \in Nat
  <2>1. Base \in Nat BY Widths
  <2> QED BY <1>2, <2>1
<1>5. IsNumberOf(v, "Byte") /\ v.n = n
  <2>1. n \in 0 .. Mask("Byte") BY <1>2, Masks
  <2> QED BY <2>1, SizedIs
<1> HIDE DEF v
<1>6. Promise!Packed(Promise!FlagsRegister, 1) = Digits(n, 1)
  <2>1. 1 \in 0 .. 8 /\ ByteBits * 1 = ByteBits BY OperandsAssumption
  <2>2. \A k \in 0 .. ByteBits * 1 - 1 : k \in Promise!FlagsRegister <=> Bit(n, k)
    BY <1>2, <2>1
  <2> QED BY <1>4, <2>1, <2>2, PackedIs
<1>7. Promise!Written(i) = <<Promise!PlacesOf(l), Digits(v.n, Width(l.size))>>
  <2>1. Width("Byte") = 1 BY DEF Width
  <2>2. Promise!Written(i) = <<Promise!SecondOfAX, Promise!Packed(Promise!FlagsRegister, 1)>>
    BY FixedPromised
  <2> QED BY <1>1, <1>5, <1>6, <2>1, <2>2
<1>8. Promise!Readable(i) /\ Promise!FlagsAfter(i) = flags BY FixedPromised
<1> QED BY <1>1, <1>3, <1>5, <1>7, <1>8, SetRegCorrect

-----------------------------------------------------------------------------
(* cmpxchg8b                                                               *)

(* Sequences in a row are a sequence.                                      *)
LEMMA IsSequence ==
  ASSUME NEW w \in Nat, NEW v \in Nat, NEW a, NEW b, IsTuple(a, w), IsTuple(b, v)
  PROVE  IsTuple(a \o b, w + v)
<1> DEFINE S == {a[k] : k \in 1 .. w} \union {b[k] : k \in 1 .. v}
           d == a \o b
<1>1. a \in [1 .. w -> S] /\ b \in [1 .. v -> S]
  <2>1. \A k \in 1 .. w : a[k] \in S OBVIOUS
  <2>2. \A k \in 1 .. v : b[k] \in S OBVIOUS
  <2>3. a = [k \in 1 .. w |-> a[k]] /\ b = [k \in 1 .. v |-> b[k]] BY DEF IsTuple
  <2> HIDE DEF S
  <2> QED BY <2>1, <2>2, <2>3
<1> HIDE DEF S
<1>2. a \in Seq(S) /\ b \in Seq(S) BY <1>1, SequenceIs
<1>3. d \in Seq(S) BY <1>2
<1>4. Len(d) = w + v BY Concatenated DEF Follows
<1> HIDE DEF d
<1>5. d = [k \in 1 .. w + v |-> d[k]] BY <1>3, <1>4
<1> QED BY <1>5 DEF IsTuple, d

(* Two double words in a row are the bytes of a number of eight bytes.     *)
LEMMA EightBytes ==
  ASSUME NEW low \in 0 .. Bytes(4) - 1, NEW high \in 0 .. Bytes(4) - 1
  PROVE  LET n == high * Bytes(4) + low
         IN  /\ n \in 0 .. Bytes(8) - 1 /\ n \in Nat
             /\ n % Bytes(4) = low /\ n \div Bytes(4) = high
             /\ Digits(low, 4) \o Digits(high, 4) = Digits(n, 8)
<1> DEFINE P == [k \in 0 .. 8 |-> Bytes(k)]
           n == high * Bytes(4) + low
           q == Bytes(4)
<1>1. PowersOf(P, Base, 8) /\ \A k \in 0 .. 8 : P[k] = Bytes(k) BY BytePowers
<1>2. Base \in Nat \ {0} /\ q \in Nat \ {0} /\ Bytes(8) = q * q BY Widths
<1> HIDE DEF P
<1>3. low \in Nat /\ high \in Nat /\ low \in 0 .. q - 1 /\ high \in 0 .. q - 1 BY <1>2
<1>4. n = low + high * P[4]
  <2>1. P[4] = q BY <1>1
  <2> HIDE DEF q
  <2>2. high * q \in Nat BY <1>2, <1>3
  <2> DEFINE z == high * q
  <2>3. z \in Nat BY <2>2
  <2> HIDE DEF z
  <2>4. z + low = low + z BY <1>3, <2>3
  <2> QED BY <2>1, <2>4 DEF z, q
<1>5. AreStacked(n, low, high, Base, P, 8, 4)
  <2>1. 8 \in Nat /\ 4 \in 0 .. 8 BY <1>1
  <2>2. low \in 0 .. P[4] - 1 BY <1>1
  <2> HIDE DEF n, q
  <2> QED BY <1>1, <1>2, <1>3, <1>4, <2>1, <2>2, StackedDigits
<1>6. n \in 0 .. Bytes(8) - 1
  <2> HIDE DEF q
  <2>1. /\ q * high <= q * (q - 1) /\ q * high = high * q /\ q * (q - 1) = q * q - q
    <3>1. high \in Int /\ q - 1 \in Int /\ high <= q - 1 BY <1>2, <1>3
    <3>2. q * high <= q * (q - 1) BY <1>2, <3>1, ProductOrder
    <3>3. q * high = high * q BY <1>2, <1>3
    <3>4. q * (q - 1) = q * q - q BY <1>2
    <3> QED BY <3>2, <3>3, <3>4
  <2> DEFINE x == high * q
             y == q * q
  <2>2. x \in Nat /\ y \in Nat /\ x <= y - q BY <1>2, <1>3, <2>1
  <2> HIDE DEF x, y
  <2>3. x + low \in 0 .. y - 1 BY <1>2, <1>3, <2>2
  <2> QED BY <1>2, <2>3 DEF x, y, q
<1> HIDE DEF n
<1>7. n \in Nat /\ n % q = low /\ n \div q = high BY <1>1, <1>5 DEF AreStacked
<1>8. ASSUME NEW k \in 0 .. 3
      PROVE  Byte(n, k) = Byte(low, k) /\ Byte(n, 4 + k) = Byte(high, k)
  <2>1. k \in 0 .. 4 - 1 /\ k \in 0 .. 8 - 4 /\ k \in 0 .. 8 /\ 4 + k \in 0 .. 8 OBVIOUS
  <2>2. (n \div P[k]) % Base = (low \div P[k]) % Base BY <1>5, <2>1 DEF AreStacked
  <2>3. n \div P[4 + k] = high \div P[k] BY <1>5, <2>1 DEF AreStacked
  <2>4. P[k] = Bytes(k) /\ P[4 + k] = Bytes(4 + k) BY <1>1, <2>1
  <2> QED BY <2>2, <2>3, <2>4 DEF Byte
<1>9. Digits(low, 4) \o Digits(high, 4) = Digits(n, 8)
  <2> DEFINE a == Digits(low, 4)
             b == Digits(high, 4)
             c == a \o b
             d == Digits(n, 8)
  <2>1. \A x, w : Digits(x, w) = [k \in 1 .. w |-> Byte(x, k - 1)] BY DEF Digits, Byte
  <2>2. IsTuple(a, 4) /\ IsTuple(b, 4) BY <2>1 DEF IsTuple
  <2>3. /\ \A k \in 1 .. 4 : a[k] = Byte(low, k - 1) /\ b[k] = Byte(high, k - 1)
        /\ \A k \in 1 .. 8 : d[k] = Byte(n, k - 1)
        /\ d = [k \in 1 .. 8 |-> Byte(n, k - 1)]
    BY <2>1
  <2> HIDE DEF a, b, d
  <2>4. Follows(c, a, b, 4, 4)
    <3>1. 4 \in Nat OBVIOUS
    <3> QED BY <2>2, <3>1, Concatenated
  <2>5. c = [k \in 1 .. 8 |-> c[k]]
    <3>1. IsTuple(c, 4 + 4)
      <4>1. 4 \in Nat OBVIOUS
      <4> QED BY <2>2, <4>1, IsSequence
    <3>2. 4 + 4 = 8 OBVIOUS
    <3> HIDE DEF c
    <3> QED BY <3>1, <3>2 DEF IsTuple
  <2> HIDE DEF c
  <2>6. ASSUME NEW k \in 1 .. 8 PROVE c[k] = d[k]
    <3>1. CASE k \in 1 .. 4
      <4>1. c[k] = a[k] BY <2>4, <3>1 DEF Follows
      <4>2. k - 1 \in 0 .. 3 BY <3>1
      <4> QED BY <1>8, <2>3, <3>1, <4>1, <4>2
    <3>2. CASE k \in 5 .. 8
      <4> DEFINE j == k - 4
      <4>1. j \in 1 .. 4 /\ k = 4 + j /\ j - 1 \in 0 .. 3 /\ 4 + (j - 1) = k - 1 BY <3>2
      <4> HIDE DEF j
      <4>2. c[4 + j] = b[j] BY <2>4, <4>1 DEF Follows
      <4>3. Byte(n, 4 + (j - 1)) = Byte(high, j - 1) BY <1>8, <4>1
      <4> QED BY <2>3, <4>1, <4>2, <4>3
    <3> QED BY <3>1, <3>2
  <2>7. c = d BY <2>3, <2>5, <2>6
  <2> QED BY <2>7 DEF a, b, c, d
<1> QED BY <1>6, <1>7, <1>9 DEF n, q

(* What is at places in a row.                                             *)
LEMMA AtBoth ==
  ASSUME NEW w \in Nat, NEW v \in Nat, NEW ps, NEW qs, IsTuple(ps, w), IsTuple(qs, v)
  PROVE  Promise!At(ps \o qs) = Promise!At(ps) \o Promise!At(qs)
<1> DEFINE c == ps \o qs
           a == Promise!At(ps)
           b == Promise!At(qs)
           d == a \o b
           V == View(Now)
<1>1. DOMAIN ps = 1 .. w /\ DOMAIN qs = 1 .. v BY TupleIs
<1>2. /\ a = [k \in 1 .. w |-> V[ps[k]]] /\ b = [k \in 1 .. v |-> V[qs[k]]]
      /\ Promise!At(c) = [k \in DOMAIN c |-> V[c[k]]]
  BY <1>1, AtIs
<1> HIDE DEF a, b, V
<1>3. IsTuple(a, w) /\ IsTuple(b, v) BY <1>2 DEF IsTuple
<1>4. Follows(c, ps, qs, w, v) /\ Follows(d, a, b, w, v) BY <1>3, Concatenated
<1>5. IsTuple(d, w + v) BY <1>3, IsSequence
<1> HIDE DEF c, d
<1>6. DOMAIN c = 1 .. w + v BY <1>4 DEF Follows
<1>7. ASSUME NEW k \in 1 .. w + v PROVE d[k] = V[c[k]]
  <2>1. CASE k \in 1 .. w
    <3>1. c[k] = ps[k] /\ d[k] = a[k] BY <1>4, <2>1 DEF Follows
    <3> QED BY <1>2, <2>1, <3>1
  <2>2. CASE \E j \in 1 .. v : k = w + j
    <3>1. PICK j \in 1 .. v : k = w + j BY <2>2
    <3>2. c[w + j] = qs[j] /\ d[w + j] = b[j] BY <1>4 DEF Follows
    <3> QED BY <1>2, <3>1, <3>2
  <2> QED BY <1>4, <2>1, <2>2 DEF Follows
<1>8. Promise!At(c) = d BY <1>2, <1>5, <1>6, <1>7 DEF IsTuple
<1> QED BY <1>8 DEF c, d, a, b

(* What the promise says of cmpxchg8b.                                     *)
LEMMA ExchangePromised ==
  ASSUME NEW i, i.function = "cmpxchg8b"
  PROVE  /\ Promise!Readable(i) <=>
              Promise!InMemory(i.args[1]) /\ Promise!Accessible(Promise!Eight(i))
         /\ Promise!FlagsAfter(i) = [flags EXCEPT !["zero"] = Promise!Equal(i)]
         /\ Promise!Equal(i) =>
              Promise!Written(i) =
                <<Promise!Eight(i), Promise!At(Promise!BX(4) \o Promise!CX(4))>>
         /\ ~Promise!Equal(i) =>
              Promise!Written(i) =
                <<Promise!AX(4) \o Promise!DX(4), Promise!At(Promise!Eight(i))>>
<1>1. Promise!Readable(i) <=>
        Promise!InMemory(i.args[1]) /\ Promise!Accessible(Promise!Eight(i))
  <2>1. Promise!Refused(i) <=> ~Promise!InMemory(i.args[1]) BY DEF Promise!Refused
  <2>2. Promise!Reads(i) = {} BY DEF Promise!Reads, Promise!BitWrites
  <2>3. Promise!Read(i) = {Promise!Eight(i)} BY <2>2 DEF Promise!Read
  <2> QED BY <2>1, <2>3 DEF Promise!Readable
<1>2. Promise!FlagsAfter(i) = [flags EXCEPT !["zero"] = Promise!Equal(i)]
  BY DEF Promise!FlagsAfter, Promise!BitWrites
<1>3. Promise!Equal(i) =>
        Promise!Written(i) =
          <<Promise!Eight(i), Promise!At(Promise!BX(4) \o Promise!CX(4))>>
  BY DEF Promise!Written, Promise!BitWrites
<1>4. ~Promise!Equal(i) =>
        Promise!Written(i) =
          <<Promise!AX(4) \o Promise!DX(4), Promise!At(Promise!Eight(i))>>
  BY DEF Promise!Written, Promise!BitWrites
<1> QED BY <1>1, <1>2, <1>3, <1>4

(* Two registers as one number of eight bytes.                             *)
LEMMA Pair ==
  ASSUME Now \in Machines, NEW r \in 0 .. 3, NEW z \in 0 .. 3
  PROVE  LET n == regs[z] * Bytes(4) + regs[r]
             ps == Promise!Register(r, 4) \o Promise!Register(z, 4)
         IN  /\ n \in 0 .. Bytes(8) - 1 /\ n \in Nat
             /\ Promise!At(ps) = Digits(n, 8)
             /\ Len(ps) = 8 /\ ps # <<>> /\ Promise!Writeable(ps)
<1> DEFINE low  == regs[r]
           high == regs[z]
           n    == high * Bytes(4) + low
           pr   == RegisterPlaces(r, 0, 4)
           pz   == RegisterPlaces(z, 0, 4)
<1>1. r \in Registers /\ z \in Registers /\ 4 \in 1 .. 4 /\ 4 \in 1 .. 8 /\ 0 \in Nat /\ 4 \in Nat
  BY DEF Registers
<1>2. /\ low \in 0 .. Bytes(4) - 1 /\ Promise!Register(r, 4) = pr
      /\ Promise!At(pr) = Digits(low, 4)
  BY <1>1, WholeRegister
<1>3. /\ high \in 0 .. Bytes(4) - 1 /\ Promise!Register(z, 4) = pz
      /\ Promise!At(pz) = Digits(high, 4)
  BY <1>1, WholeRegister
<1>4. IsTuple(pr, 4) /\ IsTuple(pz, 4) BY DEF IsTuple, RegisterPlaces
<1>5. Promise!InMemoryOf(pz) = {} /\ Promise!Writeable(pr) BY <1>1, RegisterAccess
<1> HIDE DEF low, high, pr, pz
<1>6. /\ n \in 0 .. Bytes(8) - 1 /\ n \in Nat
      /\ Digits(low, 4) \o Digits(high, 4) = Digits(n, 8)
  BY <1>2, <1>3, EightBytes
<1>7. Promise!At(pr \o pz) = Promise!At(pr) \o Promise!At(pz) BY <1>1, <1>4, AtBoth
<1>8. Len(pr \o pz) = 8 /\ pr \o pz # <<>>
  <2>1. Follows(pr \o pz, pr, pz, 4, 4) BY <1>1, <1>4, Concatenated
  <2> DEFINE c == pr \o pz
  <2>2. Len(c) = 4 + 4 /\ DOMAIN c = 1 .. 4 + 4 BY <2>1 DEF Follows
  <2> HIDE DEF c
  <2>3. Len(c) = 8 /\ c # <<>> BY <2>2
  <2> QED BY <2>3 DEF c
<1>9. Promise!Writeable(pr \o pz) BY <1>1, <1>4, <1>5, AccessTwice
<1> HIDE DEF n
<1>10. Promise!At(pr \o pz) = Digits(n, 8) BY <1>2, <1>3, <1>6, <1>7 DEF n
<1> QED BY <1>2, <1>3, <1>6, <1>8, <1>9, <1>10 DEF n, low, high

(* Eight bytes are loaded into two registers.                              *)
LEMMA LoadsPair ==
  ASSUME Now \in Machines, NEW m \in Machines, m.regs = regs, m.mem = mem,
         NEW r \in 0 .. 3, NEW z \in 0 .. 3, r # z,
         NEW low \in 0 .. Bytes(4) - 1, NEW high \in 0 .. Bytes(4) - 1
  PROVE  Puts(Now, [m EXCEPT !.regs = [@ EXCEPT ![r] = low, ![z] = high]],
              Promise!Register(r, 4) \o Promise!Register(z, 4),
              Digits(low, 4) \o Digits(high, 4))
<1> DEFINE pr == RegisterPlaces(r, 0, 4)
           pz == RegisterPlaces(z, 0, 4)
           o  == [m EXCEPT !.regs[r] = low]
           e  == [o EXCEPT !.regs[z] = high]
<1>1. r \in Registers /\ z \in Registers /\ 4 \in 1 .. 4 /\ 0 \in 0 .. 3 /\ 4 \in Nat
      /\ 4 \in 1 .. 4 - 0
  BY DEF Registers
<1>2. Promise!Register(r, 4) = pr /\ Promise!Register(z, 4) = pz BY <1>1, WholeRegister
<1>3. \A k \in 0 .. 3 : k \in 0 .. 0 + 4 - 1 /\ k - 0 = k OBVIOUS
<1>4. Puts(m, o, pr, Digits(low, 4))
  <2>1. \A k \in 0 .. 3 : Byte(low, k) =
          IF k \in 0 .. 0 + 4 - 1 THEN Byte(low, k - 0) ELSE Byte(m.regs[r], k)
    BY <1>3
  <2> HIDE DEF o
  <2> QED BY <1>1, <2>1, RegisterPuts DEF o
<1>5. o \in Machines
  <2>1. low \in 0 .. Mask("Dword") BY Masks
  <2> QED BY <1>1, <2>1 DEF Machines
<1>6. Puts(o, e, pz, Digits(high, 4))
  <2> HIDE DEF o
  <2>1. \A k \in 0 .. 3 : Byte(high, k) =
          IF k \in 0 .. 0 + 4 - 1 THEN Byte(high, k - 0) ELSE Byte(o.regs[z], k)
    BY <1>3
  <2> QED BY <1>1, <1>5, <2>1, RegisterPuts
<1>7. Puts(Now, o, pr, Digits(low, 4))
  <2>1. View(m) = View(Now) BY SameView
  <2> HIDE DEF o, pr
  <2> QED BY <1>4, <2>1 DEF Puts
<1>8. [m EXCEPT !.regs = [@ EXCEPT ![r] = low, ![z] = high]] = e
  BY <1>1 DEF Machines
<1> HIDE DEF o, e
<1>9. IsTuple(pr, 4) /\ IsTuple(pz, 4) BY DEF IsTuple, RegisterPlaces
<1>10. IsTuple(Digits(low, 4), 4) /\ IsTuple(Digits(high, 4), 4) BY DEF IsTuple, Digits
<1>11. \A k \in 1 .. 4 : pr[k] \in Places
  <2> SUFFICES ASSUME NEW k \in 1 .. 4 PROVE pr[k] \in Places OBVIOUS
  <2>1. pr[k] = RegisterPlace(r, (0 + k) - 1) /\ (0 + k) - 1 \in 0 .. 3 BY DEF RegisterPlaces
  <2> QED BY <1>1, <2>1, PlaceIs
<1>12. ASSUME NEW j \in 1 .. 4, NEW k \in 1 .. 4 PROVE pr[j] # pz[k]
  <2>1. pr[j] = RegisterPlace(r, (0 + j) - 1) /\ pz[k] = RegisterPlace(z, (0 + k) - 1)
    BY DEF RegisterPlaces
  <2> QED BY <2>1, PlacesDiffer
<1> HIDE DEF pr, pz
<1>13. Puts(Now, e, pr \o pz, Digits(low, 4) \o Digits(high, 4))
  BY <1>1, <1>6, <1>7, <1>9, <1>10, <1>11, <1>12, PutsTwice
<1> QED BY <1>2, <1>8, <1>13

(* cmpxchg8b stores ecx:ebx if it finds edx:eax, or else loads.            *)
LEMMA Cmpxchg8bCorrect ==
  ASSUME Now \in Machines, NEW i \in Instrs, i.function = "cmpxchg8b"
  PROVE  Correct(i, Cmpxchg8b(i))
<1> DEFINE l       == Arg1(i)
           a       == Lea(Now, l)
           d       == a.n
           temp    == GetMem(Now, d, "Qword")
           t       == temp.n
           Long(high, low) == Sized("Qword", regs[high] * Bytes(4) + regs[low])
           equal   == Flagged(Now, "zero", TRUE)
           unequal == Flagged(Now, "zero", FALSE)
           stored  == SetMem(equal, d, Long(ECX, EBX))
           low     == t % Bytes(4)
           high    == t \div Bytes(4)
           loaded  == [unequal EXCEPT !.regs[EAX] = low, !.regs[EDX] = high]
           done    == IF Long(EDX, EAX) = temp THEN stored ELSE loaded
           n       == regs[2] * Bytes(4) + regs[0]
           c       == regs[1] * Bytes(4) + regs[3]
           eight   == MemoryPlaces(d, 8)
<1>1. Cmpxchg8b(i) = Checked(a, Checked(temp, done)) BY DEF Cmpxchg8b
<1>2. IsArgument(l) /\ i.args[1] = l
  <2>1. i.function \notin NoOperand BY DEF NoOperand
  <2> QED BY <2>1, InstrsAssumption DEF Arg1
<1>3. Promise!InMemory(l) <=> l.kind \in Addresses BY <1>2, OperandIs
<1>4. CASE l.kind \notin Addresses
  <2>1. a = Error("InvalidOpcodeEncoding") BY <1>4 DEF Lea
  <2>2. "InvalidOpcodeEncoding" \in Errors BY DEF Errors
  <2> HIDE DEF a, done, temp
  <2>3. IsError(a) BY <2>1, <2>2, ErrorIs
  <2>4. ~Promise!Readable(i) BY <1>2, <1>3, <1>4, ExchangePromised
  <2> QED BY <1>1, <2>3, <2>4, ErrorCorrect
<1>5. CASE l.kind \in Addresses
  <2>1. a = Sized("Dword", d) /\ d = AddressOf(Now, l) /\ d \in Int /\ ~Failed(a)
    <3>1. a = Sized("Dword", AddressOf(Now, l)) BY <1>5 DEF Lea
    <3>2. AddressOf(Now, l) \in Int BY <1>2, <1>5, OperandIs
    <3> HIDE DEF l
    <3>3. a.n = AddressOf(Now, l) /\ a.size = "Dword" BY <3>1 DEF Sized
    <3> QED BY <3>1, <3>2, <3>3 DEF Failed
  <2>2. Cmpxchg8b(i) = Checked(temp, done)
    <3> HIDE DEF a, done, temp
    <3> QED BY <1>1, <2>1 DEF Checked
  <2> HIDE DEF a, d
  <2>3. /\ Promise!Eight(i) = eight /\ eight # <<>> /\ Len(eight) = 8
        /\ Promise!Accessible(eight) <=> Available(d, 8)
        /\ Promise!Writeable(eight) <=> Available(d, 8) /\ d >= WriteableMemory
    <3>1. Promise!Address(l) = d BY <1>2, <1>5, <2>1, AddressIs
    <3>2. 8 \in 1 .. 8 OBVIOUS
    <3>3. Promise!Eight(i) = Promise!Memory(d, 8) BY <1>2, <3>1 DEF Promise!Eight
    <3>4. Len(eight) = 8 BY DEF MemoryPlaces
    <3> HIDE DEF eight
    <3> QED BY <2>1, <3>2, <3>3, <3>4, MemoryAccess DEF eight
  <2>4. Promise!Readable(i) <=> Available(d, 8)
    <3> HIDE DEF l, eight
    <3> QED BY <1>2, <1>3, <1>5, <2>3, ExchangePromised
  <2>5. Width("Qword") = 8 BY DEF Width
  <2>6. CASE ~Available(d, 8)
    <3>1. temp = Error("BadMemory") BY <2>5, <2>6 DEF GetMem
    <3>2. "BadMemory" \in Errors BY DEF Errors
    <3> HIDE DEF temp, done
    <3>3. IsError(temp) BY <3>1, <3>2, ErrorIs
    <3> QED BY <2>2, <2>4, <2>6, <3>3, ErrorCorrect
  <2>7. CASE Available(d, 8)
    <3>1. IsNumberOf(temp, "Qword") /\ Promise!At(eight) = Digits(t, 8)
      <4> HIDE DEF temp, eight
      <4> QED BY <2>1, <2>5, <2>7, MemoryReads DEF temp, eight
    <3>2. temp = Sized("Qword", t)
      <4>1. PICK x : temp = Sized("Qword", x) BY <2>5, <2>7 DEF GetMem
      <4> HIDE DEF temp
      <4> QED BY <4>1 DEF Sized
    <3> HIDE DEF temp, eight
    <3>3. ~Failed(temp) BY <3>1, ValueFailed
    <3>4. Cmpxchg8b(i) = done
      <4> HIDE DEF done
      <4> QED BY <2>2, <3>3 DEF Checked
    <3>5. t \in 0 .. Bytes(8) - 1 BY <3>1, Masks DEF IsNumberOf
    <3> HIDE DEF t
    <3>6. 0 \in 0 .. 3 /\ 1 \in 0 .. 3 /\ 2 \in 0 .. 3 /\ 3 \in 0 .. 3 /\ 8 \in 0 .. 8 OBVIOUS
    <3>7. /\ n \in 0 .. Bytes(8) - 1 /\ Promise!At(Promise!AX(4) \o Promise!DX(4)) = Digits(n, 8)
          /\ Promise!AX(4) \o Promise!DX(4) # <<>>
          /\ Len(Promise!AX(4) \o Promise!DX(4)) = 8
          /\ Promise!Writeable(Promise!AX(4) \o Promise!DX(4))
      BY <3>6, Pair DEF Promise!AX, Promise!DX
    <3>8. c \in 0 .. Bytes(8) - 1 /\ c \in Nat
          /\ Promise!At(Promise!BX(4) \o Promise!CX(4)) = Digits(c, 8)
      BY <3>6, Pair DEF Promise!BX, Promise!CX
    <3>9. Long(EDX, EAX) = Sized("Qword", n) /\ Long(ECX, EBX) = Sized("Qword", c)
      BY DEF EDX, EAX, ECX, EBX
    <3> HIDE DEF n, c
    <3>10. Promise!Equal(i) <=> t = n
      <4>1. Promise!Number(Digits(t, 8)) = t /\ Promise!Number(Digits(n, 8)) = n
        BY <3>5, <3>6, <3>7, NumberIs
      <4>2. Promise!Equal(i) <=> Digits(t, 8) = Digits(n, 8)
        BY <2>3, <3>1, <3>7 DEF Promise!Equal
      <4> QED BY <4>1, <4>2
    <3>11. Long(EDX, EAX) = temp <=> t = n
      <4>1. Long(EDX, EAX) = temp <=> Sized("Qword", n) = Sized("Qword", t)
        BY <3>2, <3>9
      <4>2. Sized("Qword", n) = Sized("Qword", t) <=> n = t BY DEF Sized
      <4> QED BY <4>1, <4>2
    <3>12. done = IF t = n THEN stored ELSE loaded BY <3>11
    <3>13. "zero" \in Flags BY OperandsAssumption
    <3>14. CASE t = n
      <4> DEFINE v == Sized("Qword", c)
      <4>1. Promise!Equal(i) BY <3>10, <3>14
      <4>2. /\ equal \in Machines /\ equal.regs = regs /\ equal.mem = mem /\ equal.result = "Ok"
            /\ Machine(equal)
        BY <3>13, FlaggedNow, FlaggedTyped DEF Kept
      <4>3. equal.flags = Promise!FlagsAfter(i)
        <5>1. equal.flags = [flags EXCEPT !["zero"] = TRUE] BY DEF Flagged, Now
        <5>2. Promise!FlagsAfter(i) = [flags EXCEPT !["zero"] = Promise!Equal(i)]
          BY ExchangePromised
        <5>3. Promise!Equal(i) = TRUE BY <4>1 DEF Promise!Equal
        <5> HIDE DEF equal
        <5> QED BY <5>1, <5>2, <5>3
      <4>4. stored = SetMem(equal, d, v) BY <3>9
      <4> HIDE DEF equal
      <4>5. v.size = "Qword" /\ v.n = c BY DEF Sized
      <4> HIDE DEF v, stored
      <4>6. Promise!Written(i) = <<eight, Digits(c, 8)>>
        BY <2>3, <3>8, <4>1, ExchangePromised
      <4>7. Cmpxchg8b(i) = SetMem(equal, d, v) BY <3>4, <3>12, <3>14, <4>4
      <4>8. CASE d >= WriteableMemory
        <5>1. /\ Puts(equal, SetMem(equal, d, v), eight, Digits(c, 8))
              /\ SetMem(equal, d, v).flags = equal.flags
              /\ SetMem(equal, d, v).result = equal.result
          BY <2>1, <2>5, <2>7, <4>2, <4>5, <4>8, SetMemPuts DEF eight
        <5>2. View(equal) = View(Now) BY <4>2, SameView
        <5>3. Puts(Now, SetMem(equal, d, v), eight, Digits(c, 8)) BY <5>1, <5>2 DEF Puts
        <5>4. Len(Digits(c, 8)) = 8 BY <3>6, <3>8, DigitsType
        <5> QED BY <2>3, <2>4, <2>7, <4>2, <4>3, <4>6, <4>7, <4>8, <5>1, <5>3, <5>4, WriteCorrect
      <4>9. CASE ~(d >= WriteableMemory)
        <5>1. SetMem(equal, d, v) = Failing(equal, "WroteReadOnlyMemory")
          <6>1. d < WriteableMemory
            <7>1. Bytes(4) \in Nat BY Widths
            <7>2. WriteableMemory \in Int BY <7>1, OperandsAssumption
            <7> QED BY <2>1, <4>9, <7>2
          <6> QED BY <6>1 DEF SetMem
        <5>2. /\ Failing(equal, "WroteReadOnlyMemory").regs = regs
              /\ Failing(equal, "WroteReadOnlyMemory").mem = mem
          BY <4>2, FailingKeeps
        <5>3. /\ Failing(equal, "WroteReadOnlyMemory").result # "Ok"
              /\ Failing(equal, "WroteReadOnlyMemory").flags = equal.flags
          BY <4>2 DEF Failing, Machine
        <5> QED BY <2>3, <2>4, <2>7, <4>3, <4>6, <4>7, <4>9, <5>1, <5>2, <5>3, WriteFails DEF Kept
      <4> QED BY <4>8, <4>9
    <3>15. CASE t # n
      <4>1. ~Promise!Equal(i) BY <3>10, <3>15
      <4>2. /\ unequal \in Machines /\ unequal.regs = regs
            /\ unequal.mem = mem /\ unequal.result = "Ok"
        BY <3>13, FlaggedNow, FlaggedTyped DEF Kept
      <4>3. unequal.flags = Promise!FlagsAfter(i)
        <5>1. unequal.flags = [flags EXCEPT !["zero"] = FALSE] BY DEF Flagged, Now
        <5>2. Promise!FlagsAfter(i) = [flags EXCEPT !["zero"] = Promise!Equal(i)]
          BY ExchangePromised
        <5>3. Promise!Equal(i) = FALSE BY <4>1 DEF Promise!Equal
        <5> HIDE DEF unequal
        <5> QED BY <5>1, <5>2, <5>3
      <4> HIDE DEF unequal
      <4>4. low \in 0 .. Bytes(4) - 1 /\ high \in 0 .. Bytes(4) - 1 /\ high * Bytes(4) + low = t
        <5> DEFINE q == Bytes(4)
        <5>1. q \in Nat \ {0} /\ Bytes(8) = q * q BY Widths
        <5> HIDE DEF q
        <5>2. q * q \in Nat BY <5>1
        <5>3. t \in Nat /\ t < q * q BY <3>5, <5>1, <5>2
        <5>4. t \div q \in 0 .. q - 1 /\ t % q \in 0 .. q - 1 BY <5>1, <5>3, TurnOver
        <5>5. t = q * (t \div q) + (t % q)
          <6>1. t \in Int BY <5>3
          <6> QED BY <5>1, <6>1, DivMod
        <5> DEFINE x == t \div q
        <5>6. x \in Int BY <5>1, <5>4
        <5> HIDE DEF x
        <5>7. q * x = x * q BY <5>1, <5>6
        <5>8. t = (t \div q) * q + (t % q) BY <5>5, <5>7 DEF x
        <5> QED BY <5>4, <5>8 DEF q
      <4> HIDE DEF low, high
      <4>5. Digits(low, 4) \o Digits(high, 4) = Digits(t, 8) BY <4>4, EightBytes
      <4> DEFINE e == [unequal EXCEPT !.regs = [@ EXCEPT ![0] = low, ![2] = high]]
      <4>6. loaded = e BY DEF EAX, EDX
      <4>7. e.result = "Ok" /\ e.flags = unequal.flags BY <4>2 DEF Machines
      <4> HIDE DEF e, loaded
      <4>8. Puts(Now, e, Promise!AX(4) \o Promise!DX(4), Digits(t, 8))
        <5>1. 0 # 2 OBVIOUS
        <5>2. Puts(Now, e, Promise!Register(0, 4) \o Promise!Register(2, 4),
                   Digits(low, 4) \o Digits(high, 4))
          BY <3>6, <4>2, <4>4, <5>1, LoadsPair DEF e
        <5> QED BY <4>5, <5>2 DEF Promise!AX, Promise!DX
      <4>9. Promise!Written(i) = <<Promise!AX(4) \o Promise!DX(4), Digits(t, 8)>>
        BY <2>3, <3>1, <4>1, ExchangePromised DEF t
      <4>10. Len(Digits(t, 8)) = 8
        <5>1. t \in Nat
          <6>1. Bytes(8) \in Nat BY Widths
          <6> QED BY <3>5, <6>1
        <5> QED BY <3>6, <5>1, DigitsType
      <4>11. Cmpxchg8b(i) = e BY <3>4, <3>12, <3>15, <4>6
      <4> QED BY <2>4, <2>7, <3>7, <4>3, <4>7, <4>8, <4>9, <4>10, <4>11, WriteCorrect
    <3> QED BY <3>14, <3>15
  <2> QED BY <2>6, <2>7
<1> QED BY <1>4, <1>5

-----------------------------------------------------------------------------
(* A step of the logic functions is one that the promise allows.           *)
LEMMA StepImplements ==
  ASSUME TypeOK, Next
  PROVE  Promise!Next
<1>1. result = "Ok" /\ Now \in Machines BY NowTyped DEF Next, Running
<1>2. PICK i \in Instrs :
        \/ Execute(i, "mov", Mov(i))
        \/ Execute(i, "xchg", Xchg(i))
        \/ Execute(i, "movzx_8bit", MovZX(i, Native(i)))
        \/ Execute(i, "movzx_16bit", MovZX(i, "Dword"))
        \/ Execute(i, "movsx_8bit", MovSX(i, Native(i)))
        \/ Execute(i, "movsx_16bit", MovSX(i, "Dword"))
        \/ Execute(i, "lea", LoadAddress(i))
        \/ Execute(i, "bswap", Bswap(i))
        \/ \E f \in BitTests : Execute(i, f, BitTest(i))
        \/ \E f \in BitScans : Execute(i, f, BitScan(i))
        \/ Execute(i, "cbw_cwde", CbwCwde(i))
        \/ Execute(i, "cdq_cwd", CdqCwd(i))
        \/ Execute(i, "xlatb", Xlatb(i))
        \/ Execute(i, "setcc_8bit", Setcc(i))
        \/ Execute(i, "cmovcc_native", Cmovcc(i))
        \/ Execute(i, "lahf", Lahf)
        \/ Execute(i, "sahf", Sahf)
        \/ Execute(i, "stc", Flagged(Now, "carry", TRUE))
        \/ Execute(i, "clc", Flagged(Now, "carry", FALSE))
        \/ Execute(i, "cmc", Flagged(Now, "carry", ~flags["carry"]))
        \/ Execute(i, "cmpxchg8b", Cmpxchg8b(i))
  BY DEF Next
<1>3. ASSUME NEW f, NEW m, Execute(i, f, m), i.function = f => Correct(i, m)
      PROVE  Promise!Next
  <2>1. Correct(i, m) BY <1>3 DEF Execute
  <2> QED BY <1>1, <1>3, <2>1, CorrectStep
<1>4. CASE Execute(i, "mov", Mov(i))
  <2>1. i.function = "mov" => Correct(i, Mov(i)) BY <1>1, MovCorrect
  <2> QED BY <1>3, <1>4, <2>1
<1>5. CASE Execute(i, "xchg", Xchg(i))
  BY <1>1, <1>3, <1>5, XchgCorrect
<1>6. CASE Execute(i, "movzx_8bit", MovZX(i, Native(i)))
  BY <1>1, <1>3, <1>6, MovExtendCorrect
<1>7. CASE Execute(i, "movzx_16bit", MovZX(i, "Dword"))
  BY <1>1, <1>3, <1>7, MovExtendCorrect
<1>8. CASE Execute(i, "movsx_8bit", MovSX(i, Native(i)))
  BY <1>1, <1>3, <1>8, MovExtendCorrect
<1>9. CASE Execute(i, "movsx_16bit", MovSX(i, "Dword"))
  BY <1>1, <1>3, <1>9, MovExtendCorrect
<1>10. CASE Execute(i, "lea", LoadAddress(i))
  BY <1>1, <1>3, <1>10, LoadAddressCorrect
<1>11. CASE Execute(i, "bswap", Bswap(i))
  BY <1>1, <1>3, <1>11, BswapCorrect
<1>12. CASE \E f \in BitTests : Execute(i, f, BitTest(i))
  BY <1>1, <1>3, <1>12, BitTestCorrect
<1>13. CASE \E f \in BitScans : Execute(i, f, BitScan(i))
  BY <1>1, <1>3, <1>13, BitScanCorrect
<1>14. CASE Execute(i, "cbw_cwde", CbwCwde(i))
  BY <1>1, <1>3, <1>14, CbwCwdeCorrect
<1>15. CASE Execute(i, "cdq_cwd", CdqCwd(i))
  BY <1>1, <1>3, <1>15, CdqCwdCorrect
<1>16. CASE Execute(i, "xlatb", Xlatb(i))
  BY <1>1, <1>3, <1>16, XlatbCorrect
<1>17. CASE Execute(i, "setcc_8bit", Setcc(i))
  BY <1>1, <1>3, <1>17, SetccCorrect
<1>18. CASE Execute(i, "cmovcc_native", Cmovcc(i))
  BY <1>1, <1>3, <1>18, CmovccCorrect
<1>19. CASE Execute(i, "lahf", Lahf)
  BY <1>1, <1>3, <1>19, LahfCorrect
<1>20. CASE Execute(i, "sahf", Sahf)
  BY <1>1, <1>3, <1>20, SahfCorrect
<1>21. CASE Execute(i, "stc", Flagged(Now, "carry", TRUE))
  BY <1>1, <1>3, <1>21, FlagCorrect
<1>22. CASE Execute(i, "clc", Flagged(Now, "carry", FALSE))
  BY <1>1, <1>3, <1>22, FlagCorrect
<1>23. CASE Execute(i, "cmc", Flagged(Now, "carry", ~flags["carry"]))
  BY <1>1, <1>3, <1>23, FlagCorrect
<1>24. CASE Execute(i, "cmpxchg8b", Cmpxchg8b(i))
  BY <1>1, <1>3, <1>24, Cmpxchg8bCorrect
<1> QED BY <1>2, <1>4, <1>5, <1>6, <1>7, <1>8, <1>9, <1>10, <1>11, <1>12, <1>13,
           <1>14, <1>15, <1>16, <1>17, <1>18, <1>19, <1>20, <1>21, <1>22, <1>23, <1>24

(* Every instruction that works on its operands puts the bytes that it     *)
(* should at the places that its operands name, leaves every other byte    *)
(* and flag alone, and changes no byte if it fails: byte for byte, with    *)
(* operands that overlap each other or the registers of their address, and *)
(* at the ends of memory.                                                  *)
THEOREM Refinement == Spec => ImplementsOperands
<1>1. ASSUME Init PROVE Promise!Init
  BY <1>1 DEF Init, Promise!Init
<1>2. ASSUME TypeOK, [Next]_vars PROVE [Promise!Next]_(Promise!specVars)
  <2>1. CASE Next BY <1>2, <2>1, StepImplements
  <2>2. CASE UNCHANGED vars BY <2>2 DEF vars, Promise!specVars
  <2> QED BY <1>2, <2>1, <2>2
<1> QED BY <1>1, <1>2, TypeCorrect, PTL DEF Spec, ImplementsOperands, Promise!Spec

=============================================================================
