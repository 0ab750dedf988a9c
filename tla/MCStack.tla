------------------------------- MODULE MCStack ------------------------------
(***************************************************************************)
(* A small instance of Stack: half words of six values, so 36 addresses;   *)
(* read-only memory below 18 and a section of 16 half words from there on. *)
(* Four registers stand for the eight that pusha pushes.                   *)
(***************************************************************************)
EXTENDS Stack, TLC

MCSections == {0 .. 17, 18 .. 33}
MCPushOrder == <<"eax", "esp", "ebp", "edi">>

Memory == [a \in Address |-> a % 3]
Start(esp, edi) ==
  [regs |-> ("eax" :> 13) @@ ("esp" :> esp) @@ ("ebp" :> 29) @@ ("edi" :> edi),
   mem |-> Memory]

(* Room for one frame only, and a stack at the end of its section.         *)
MCStarts == {Start(23, 21), Start(34, 30)}

Operands(op, kind, arg, w) ==
  [op : {op}, kind : {kind}, arg : {arg}, w : w]

Plain(op, w) == [op : {op}, w : w]

Pushes == Operands("push", "reg", "eax", {1, 2})
  \union Operands("push", "reg", "esp", {2})
  \union Operands("push", "imm", 4, {1})
  \union Operands("push", "mem", "edi", {2})

Pops == Operands("pop", "reg", "ebp", {1, 2})
  \union Operands("pop", "reg", "esp", {2})
  \union Operands("pop", "mem", "esp", {1})
  \union Operands("pop", "mem", "edi", {2})

Calls == Operands("call", "imm", 20, {2})
  \union Operands("call", "reg", "eax", {2})
  \union Operands("call", "mem", "edi", {1, 2})
  \union Operands("call", "mem", "esp", {2})

Returns == [op : {"ret"}, w : {2}, clear : {0, 1}]
  \union [op : {"ret"}, w : {1}, clear : {0}]

Enters == [op : {"enter"}, w : {2}, locals : {1}, nesting : {0, 3}]
  \union [op : {"enter"}, w : {1}, locals : {1}, nesting : {0}]

MCInstrs == Pushes \union Pops \union Calls \union Returns \union Enters
  \union Plain("pusha", {1, 2}) \union Plain("popa", {1, 2})
  \union Plain("pushf", {1, 2}) \union Plain("popf", {2})
  \union Plain("leave", {2})

=============================================================================
