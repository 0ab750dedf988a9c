------------------------------ MODULE DecodeInv -----------------------------
(***************************************************************************)
(* The inductive invariant of the decoder: in every phase, how much of the *)
(* instruction has been read, and that what has been made of it is right.  *)
(***************************************************************************)
EXTENDS DecodeSpec

Fetched == SubSeq(Bytes(instr) \o [i \in 1 .. MaxFetch |-> 0], 1, MaxFetch)

Skipped    == Len(Prefixed(instr))
ModRMWidth == Len(ModRMBytes(instr))
Total      == Len(Bytes(instr))

(* The bytes of the immediates before argument n.                          *)
Width(n) == Len(ImmediateBytes(instr, n))
Before(n) == (IF n > 1 THEN Width(1) ELSE 0) + (IF n > 2 THEN Width(2) ELSE 0)
             + (IF n > 3 THEN Width(3) ELSE 0)

(* A slot into which nothing has been decoded.                             *)
Untouched ==
  modrm = NoModRM /\ arg = 1 /\ taken = 0 /\ slot.gas_cost = 0 /\ ~stop /\ result = "Ok"

Reps == {\hF2, \hF3}

(* The first n prefixes have been read: the last rep among them is kept.   *)
RepMode(n) ==
  \/ /\ prefixes.rep_mode = "None"
     /\ \A j \in 1 .. n : instr.prefixes[j] \notin Reps
  \/ \E j \in 1 .. n :
       /\ instr.prefixes[j] \in Reps
       /\ \A k \in j + 1 .. n : instr.prefixes[k] \notin Reps
       /\ prefixes.rep_mode = IF instr.prefixes[j] = \hF3 THEN "Repe" ELSE "Repne"

PrefixesRead(n) ==
  /\ \A j \in 1 .. n : instr.prefixes[j] # \h67
  /\ prefixes.size_override <=> \E j \in 1 .. n : instr.prefixes[j] = \h66
  /\ RepMode(n)

(* All of them have, and the byte that leads to the second half of the     *)
(* table, if it does.                                                      *)
AtOpcode ==
  /\ at = Skipped
  /\ PrefixesRead(Len(instr.prefixes))
  /\ prefixes.two_bytes <=> instr.number >= TwoByte

(* The opcode is one of the table, and the slot holds it.                  *)
OpcodeRead ==
  /\ AtOpcode /\ at < MaxFetch
  /\ Known(instr) /\ ~IsRep
  /\ arg = 1 /\ taken = 0 /\ ~stop /\ result = "Ok"
  /\ slot.gas_cost = IF instr.rm # NoOperand THEN Costs["ModRMSurcharge"] ELSE 0

(* The location l is the operand o of s bytes.                             *)
Locates(a, o, size) ==
  /\ Denoted(a.location) = o
  /\ DenotedWidth(a.location) = size

(* The ModR/M byte with all that belongs to it, if there is one.           *)
ModRMRead ==
  /\ modrm.size = ModRMWidth /\ at + 1 + ModRMWidth <= MaxFetch
  /\ instr.rm = NoOperand => modrm.reg = 0
  /\ instr.rm # NoOperand =>
       /\ modrm.reg = instr.reg
       /\ \A s \in FixedSizes : LET a == DecodeModRM(modrm, s)
                                IN  /\ Locates(a, instr.rm, BytesOf(s))
                                    /\ a.is_memory = (instr.rm.kind = "memory")
                                    /\ a \in [location : Locations, is_memory : BOOLEAN]

(* The first n arguments are the ones that were meant.                     *)
ArgsRead(n) ==
  \A i \in 1 .. n :
    /\ Locates(slot.args[i], Intended(i), BytesOf(SizeOf(instr, Defined.args[i])))
    /\ slot.args[i].is_memory <=>
         Intended(i).kind = "memory" \/ Defined.args[i].source = "HardcodedRegister"

DecodingArgs ==
  /\ AtOpcode /\ at <= MaxFetch - 6
  /\ Known(instr) /\ ~IsRep /\ ModRMRead
  /\ taken = 1 + ModRMWidth + Before(arg)
  /\ at + taken <= MaxFetch
  /\ ArgsRead(arg - 1)
  /\ ~stop /\ result = "Ok"
  /\ slot.function = Defined.function
  /\ slot.gas_cost = (IF instr.rm # NoOperand THEN Costs["ModRMSurcharge"] ELSE 0)
                     + Costs[Defined.gas]

(* What is left of a decoded instruction when it is done.                  *)
Finished ==
  /\ result = Outcome
  /\ result = "Ok" /\ ~IsRep =>
       /\ Known(instr) /\ ArgsRead(3)
       /\ slot.function = Defined.function
       /\ stop = (writeable \/ Defined.jump \in {"Unpredictable", "UnpredictableNoGas"})

Progress ==
  /\ phase = "prefixes" =>
       /\ Untouched /\ ~prefixes.two_bytes
       /\ at <= Len(instr.prefixes) /\ PrefixesRead(at)
  /\ phase = "lookup" => Untouched /\ AtOpcode
  /\ phase = "modrm" => OpcodeRead /\ instr.rm # NoOperand /\ modrm = NoModRM
  /\ phase = "select" => OpcodeRead /\ ModRMRead
  /\ phase = "args" => DecodingArgs
  /\ phase = "done" => Finished

(* The instruction stays, and so do its bytes.                             *)
Given == instr \in Assembled(Instructions) /\ buffer = Fetched

Inv ==
  /\ TypeOK /\ Given /\ Progress
  /\ Length /\ Cost /\ (Done /\ IsRep => RepSlot /\ stop)

=============================================================================
