---------------------------- MODULE MCArithmetic ----------------------------
(***************************************************************************)
(* The programs: ways of doing with the opcodes what takes more than one.  *)
(***************************************************************************)
EXTENDS Arithmetic, TLC

MCBits == "byte" :> 2 @@ "word" :> 3 @@ "dword" :> 3
MCDecimalBits == "byte" :> 8 @@ "word" :> 8 @@ "dword" :> 8

Program(name, size, code, inputs) ==
  [name |-> name, size |-> size, code |-> code, inputs |-> inputs,
   carries |-> BOOLEAN, builds |-> {FALSE}]

State(acc, ext, b, c) ==
  [r \in Regs |-> CASE r = "acc" -> acc [] r = "ext" -> ext
                    [] r = "b" -> b [] r = "c" -> c [] OTHER -> 1]

Four(size) == {State(w, x, y, z) : w, x, y, z \in Values(size)}
Two(size) == {State(x, y, 0, 0) : x, y \in Values(size)}
Three(size) == {State(x, y, z, 1) : x, y, z \in Values(size)}
Marked(size) == {State(x, 1, y, z) : x, y, z \in Values(size)}
Copies(size) == {State(x, x, y, y) : x, y \in Values(size)}

-----------------------------------------------------------------------------

Long(z) ==
  {Program("sum", z, SumCode, Four(z)),
   Program("difference", z, DifferenceCode, Four(z)),
   Program("negation", z, NegationCode, Two(z)),
   Program("doubling", z, DoublingCode, Two(z))}

LongShifts(z) ==
  {Program("left", z, LeftCode, Two(z)), Program("right", z, RightCode, Two(z)),
   Program("signed_right", z, SignedRightCode, Two(z))}

Counts(z) ==
  {[Program("count", z, Single(op, k), Two(z)) EXCEPT !.builds = BOOLEAN] :
     op \in ShiftOps, k \in 0 .. 2 * Bits[z] + 1}

Rotations(z, k) ==
  {Program(op, z, Single(op, k), Two(z)) : op \in {"rcl", "rcr", "rol"}}
    \union {Program("back", z, BackCode(k), Two(z))}

Whole(z) ==
  {Program("whole_turn", z, Single(op, Bits[z]), Two(z)) : op \in {"rcl", "rcr"}}

Conditionals(z, cc) ==
  {Program("compare", z, CompareCode(cc), Marked(z))}
    \union (IF z = "byte" THEN {} ELSE {Program("choose", z, ChooseCode(cc), Three(z))})

Zero(z) == {Program("zero", z, ZeroCode, Marked(z))}

Unsigned(z) ==
  {Program("division", z, DivisionCode, Three(z)),
   Program("mul_and_div", z, MulAndDivCode, Three(z))}

SignedOnes(z) ==
  {Program(op, z, SignedCode(op), Three(z)) :
     op \in {"imul", "idiv"} \union (IF z = "byte" THEN {} ELSE {"imul2"})}

Exchanges(z) ==
  {Program("swap", z, XorSwapCode, Three(z)), Program("swap", z, XaddSwapCode, Three(z)),
   Program("retry", z, RetryCode, Four(z)), Program("de_morgan", z, DeMorganCode, Copies(z))}

MCPrograms ==
  UNION {Long(z) \union LongShifts(z) \union Counts(z) \union Whole(z)
           \union Zero(z) \union Unsigned(z) \union SignedOnes(z)
           \union Exchanges(z) : z \in Sizes}
    \union UNION {UNION {Rotations(z, k) : k \in 0 .. Top(z)} : z \in Sizes}
    \union UNION {Conditionals(z, cc) : z \in Sizes, cc \in Relations}

-----------------------------------------------------------------------------

Adjusted2(op, adjust, inputs) ==
  Program(adjust, "byte", AdjustedCode(op, adjust, 10), inputs)

MCDecimalPrograms ==
  LET Packs  == {State(x, 0, y, 0) : x, y \in PackedBytes}
      Digits == {State(x, z, y, 0) : x, y, z \in 0 .. 9}
  IN  {Adjusted2("add", "daa", Packs), Adjusted2("sub", "das", Packs),
       Adjusted2("add", "aaa", Digits), Adjusted2("sub", "aas", Digits),
       Adjusted2("mul", "aam", Digits),
       Program("aam", "byte", AdjustedCode("mul", "aam", 0), Digits),
       Program("aad", "byte", AadCode, Digits)}

=============================================================================
