----------------------------- MODULE StackProofs ----------------------------
(***************************************************************************)
(* Theorems about Stack, for every size of a half word, every memory map,  *)
(* every list of registers and every set of instructions.                  *)
(***************************************************************************)
EXTENDS Stack, Mathematics, SequenceTheorems

-----------------------------------------------------------------------------
(* Numbers                                                                 *)

HalfWords == 0 .. Half - 1
Word(c, w) == c \in Seq(HalfWords) /\ Len(c) = w

LEMMA Spaces ==
  /\ Half \in Nat \ {0, 1} /\ Space \in Nat /\ Space >= 4 /\ Half <= Space
  /\ Address \subseteq Nat /\ \A x \in Address : x < Space
<1>1. Half \in Nat \ {0, 1} BY StackAssumption
<1>2. Half * Half >= 2 * Half
  <2>1. 2 \in Int /\ Half \in Int BY <1>1
  <2>2. Half * 2 <= Half * Half BY <1>1, <2>1, ProductOrder
  <2> QED BY <1>1, <2>2
<1>3. Space \in Nat /\ Space >= 2 * Half BY <1>1, <1>2 DEF Space
<1> QED BY <1>1, <1>3 DEF Address

LEMMA AddressIs ==
  ASSUME NEW x \in Address
  PROVE  x \in Nat /\ x \in Int /\ x >= 0 /\ x < Space
<1>1. x \in Nat /\ x < Space BY Spaces
<1> QED BY <1>1

LEMMA WrapType ==
  ASSUME NEW x \in Int
  PROVE  Wrap(x) \in Address
<1>1. x % Space \in 0 .. Space - 1 BY Spaces, DivMod
<1> QED BY <1>1 DEF Wrap, Address

LEMMA WrapSame ==
  ASSUME NEW x \in Address
  PROVE  Wrap(x) = x
  BY Spaces DEF Wrap

(* A number and its half words.                                            *)
LEMMA CellsAre ==
  ASSUME NEW v \in Address, NEW w \in {1, 2}
  PROVE  /\ Word(Cells(v, w), w)
         /\ w = 1 => Cells(v, w)[1] = v % Half
         /\ w = 2 => Number(Cells(v, w)) = v
<1>1. Half \in Nat \ {0} /\ v \in Nat /\ v < Half * Half BY Spaces DEF Space
<1>2. v % Half \in HalfWords /\ v = Half * (v \div Half) + (v % Half) /\ v \div Half \in Int
  BY <1>1, DivMod DEF HalfWords
<1>3. v \div Half \in HalfWords BY <1>1, TurnOver DEF HalfWords
<1> DEFINE low == v % Half
           high == v \div Half
<1> HIDE DEF low, high
<1>4. CASE w = 1
  <2>1. Cells(v, w) = <<low>> BY <1>4 DEF Cells, low
  <2>2. low \in HalfWords BY <1>2 DEF low
  <2>3. Word(<<low>>, 1) /\ <<low>>[1] = low BY <2>2 DEF Word
  <2>4. Word(Cells(v, w), w) /\ Cells(v, w)[1] = low BY <1>4, <2>1, <2>3
  <2> QED BY <1>4, <2>4 DEF low
<1>5. CASE w = 2
  <2>1. Cells(v, w) = <<low, high>> BY <1>5 DEF Cells, low, high
  <2>2. low \in HalfWords /\ high \in HalfWords BY <1>2, <1>3 DEF low, high
  <2>3. Number(<<low, high>>) = low + Half * high BY DEF Number
  <2>4. v = Half * high + low BY <1>2 DEF low, high
  <2>5. Half * high \in Int BY <2>2, Spaces DEF HalfWords
  <2>6. Number(Cells(v, w)) = v BY <2>1, <2>2, <2>3, <2>4, <2>5 DEF HalfWords
  <2>7. Word(<<low, high>>, 2) BY <2>2 DEF Word
  <2>8. Word(Cells(v, w), w) BY <1>5, <2>1, <2>7
  <2> QED BY <1>5, <2>6, <2>8
<1> QED BY <1>4, <1>5

LEMMA NumberIs ==
  ASSUME NEW w \in {1, 2}, NEW c, Word(c, w)
  PROVE  /\ Number(c) \in Address
         /\ Cells(Number(c), w) = c
<1>1. Half \in Nat \ {0, 1} /\ Half <= Space BY Spaces
<1>2. CASE w = 1
  <2>1. c[1] \in HalfWords /\ c = <<c[1]>> BY <1>2 DEF Word
  <2>2. Number(c) = c[1] BY <1>2 DEF Number, Word
  <2>3. c[1] % Half = c[1] BY <1>1, <2>1 DEF HalfWords
  <2>4. c[1] \in Address BY <2>1, Spaces DEF HalfWords, Address
  <2> QED BY <1>2, <2>1, <2>2, <2>3, <2>4 DEF Cells
<1>3. CASE w = 2
  <2> DEFINE low == c[1]
             high == c[2]
  <2>1. low \in HalfWords /\ high \in HalfWords /\ c = <<low, high>> BY <1>3 DEF Word
  <2>2. Number(c) = low + Half * high BY <1>3 DEF Number, Word
  <2> HIDE DEF low, high
  <2>3. low \in 0 .. Half - 1 /\ high \in 0 .. Half - 1 BY <2>1 DEF HalfWords
  <2>4. (Half * high + low) \div Half = high /\ (Half * high + low) % Half = low
    BY <1>1, <2>3, DivUnique
  <2>5. Half * high \in Nat BY <1>1, <2>3
  <2>6. Half * high <= Half * (Half - 1)
    <3>1. high \in Int /\ Half - 1 \in Int /\ high <= Half - 1 BY <1>1, <2>3
    <3> QED BY <1>1, <3>1, ProductOrder
  <2>7. Half * (Half - 1) = Half * Half - Half BY <1>1
  <2>8. Half * Half \in Int BY <1>1
  <2> DEFINE x == Half * high
             y == Half * Half
  <2>9. x \in Nat /\ y \in Int /\ x <= y - Half BY <2>5, <2>6, <2>7, <2>8
  <2>10. Number(c) = x + low
    <3>1. low + x = x + low BY <2>3, <2>9
    <3> QED BY <2>2, <3>1
  <2>11. (x + low) \div Half = high /\ (x + low) % Half = low BY <2>4
  <2>12. y = Space BY DEF Space
  <2> HIDE DEF x, y
  <2>13. x + low \in 0 .. y - 1 BY <1>1, <2>3, <2>9
  <2>14. Cells(Number(c), w) = <<low, high>> BY <1>3, <2>10, <2>11 DEF Cells
  <2> QED BY <2>1, <2>10, <2>12, <2>13, <2>14 DEF Address
<1> QED BY <1>2, <1>3

-----------------------------------------------------------------------------
(* Folds                                                                   *)

(* The machines of V stay in it when a value is pushed or popped.          *)
PushesIn(V, values, n, w) ==
  \A k \in 1 .. n, x \in V : x.result = "Ok" => PushStack(x, values[k], w) \in V
PopsIn(V, w) == \A x \in V : x.result = "Ok" => PopStack(x, w) \in V

(* The machines that R goes through from m.                                *)
PushRun(R, m, values, n, w) ==
  /\ R[0] = m
  /\ \A k \in 1 .. n :
       R[k] = IF R[k - 1].result = "Ok" THEN PushStack(R[k - 1], values[k], w)
              ELSE R[k - 1]
PopRun(R, m, n, w) ==
  /\ R[0] = m
  /\ \A k \in 1 .. n :
       R[k] = IF R[k - 1].result = "Ok" THEN PopStack(R[k - 1], w) ELSE R[k - 1]

(* A fold to the left is a sequence of partial results.                    *)
LEMMA PushAllSteps ==
  ASSUME NEW V, NEW m \in V, NEW values, NEW n \in Nat, DOMAIN values = 1 .. n,
         NEW w, PushesIn(V, values, n, w)
  PROVE  \E R \in [0 .. n -> V] :
           PushRun(R, m, values, n, w) /\ PushAll(m, values, w) = R[n]
<1> DEFINE Add(k, x) == IF x.result = "Ok" THEN PushStack(x, values[k], w) ELSE x
           S == 1 .. n
           Step(F) == [s \in SUBSET S |-> IF s = {} THEN m
                         ELSE Add(Max(s), F[s \ {Max(s)}])]
           iter == CHOOSE F : F = Step(F)
<1>1. PushAll(m, values, w) = iter[S]
  BY DEF PushAll, FoldLeft, MapThenFoldSet
<1> DEFINE c == [s \in SUBSET S |-> Max(s)]
           G == [p \in S \X V |-> Add(p[1], p[2])]
<1>2. PicksGreatest(c, S)
  <2> SUFFICES ASSUME NEW s \in SUBSET S, s # {}
               PROVE  Max(s) \in s /\ \A y \in s : Max(s) >= y
    BY DEF PicksGreatest
  <2> QED BY Greatest DEF Max
<1>3. \A k \in S, x \in V : Add(k, x) \in V BY DEF PushesIn
<1> HIDE DEF Add
<1>4. Adds(G, S, V) BY <1>3 DEF Adds
<1>5. PICK F \in [SUBSET S -> V] : Recursion(F, S, m, c, G)
  <2>1. IsFiniteSet(S) BY FS_Interval
  <2>2. Picks(c, S) BY <1>2 DEF Picks, PicksGreatest
  <2> HIDE DEF S, c, G
  <2> QED BY <1>4, <2>1, <2>2, FoldExists
<1>6. F = Step(F)
  <2>1. ASSUME NEW s \in SUBSET S
        PROVE  F[s] = IF s = {} THEN m ELSE Add(Max(s), F[s \ {Max(s)}])
    <3>1. CASE s = {} BY <3>1, <1>5 DEF Recursion
    <3>2. CASE s # {}
      <4>1. Max(s) \in S /\ s \ {Max(s)} \in SUBSET S BY <1>2, <3>2 DEF PicksGreatest
      <4>2. F[s] = G[<<Max(s), F[s \ {Max(s)}]>>] BY <1>5, <3>2 DEF Recursion
      <4> QED BY <3>2, <4>1, <4>2
    <3> QED BY <3>1, <3>2
  <2> HIDE DEF S
  <2> QED BY <2>1
<1>7. iter = Step(iter)
  <2> HIDE DEF Step
  <2> QED BY <1>6
<1>8. TypedRecursion(iter, S, V, m, c, G)
  <2> HIDE DEF iter
  <2>1. {} \in SUBSET S OBVIOUS
  <2>2. iter[{}] = m
    <3> HIDE DEF S
    <3> QED BY <1>7, <2>1
  <2>3. ASSUME NEW s \in SUBSET S, s # {}, iter[s \ {c[s]}] \in V
        PROVE  iter[s] = G[<<c[s], iter[s \ {c[s]}]>>]
    <3>1. c[s] = Max(s) OBVIOUS
    <3>2. c[s] \in S BY <1>2, <2>3 DEF PicksGreatest
    <3>3. G[<<c[s], iter[s \ {c[s]}]>>] = Add(c[s], iter[s \ {c[s]}])
      <4> HIDE DEF S, c
      <4> QED BY <2>3, <3>2
    <3>4. iter[s] = Add(Max(s), iter[s \ {Max(s)}])
      <4> HIDE DEF S
      <4> QED BY <1>7, <2>3
    <3> QED BY <3>1, <3>3, <3>4
  <2> HIDE DEF c, G, S
  <2> QED BY <2>2, <2>3 DEF TypedRecursion
<1> HIDE DEF iter, c, G, Step
<1>9. PICK R \in [0 .. n -> V] :
        /\ R[0] = m
        /\ \A k \in 1 .. n : R[k] = G[<<k, R[k - 1]>>]
        /\ iter[1 .. n] = R[n]
  BY <1>2, <1>4, <1>8, LeftFold
<1>10. ASSUME NEW k \in 1 .. n PROVE R[k] = Add(k, R[k - 1])
  <2>1. R[k - 1] \in V OBVIOUS
  <2> QED BY <1>9, <2>1 DEF G
<1> QED BY <1>1, <1>9, <1>10 DEF Add, PushRun

(* ... and so are pops, which look at no values.                           *)
LEMMA PopAllSteps ==
  ASSUME NEW V, NEW m \in V, NEW n \in Nat, NEW w, PopsIn(V, w)
  PROVE  \E R \in [0 .. n -> V] :
           PopRun(R, m, n, w) /\ PopAll(m, n, w) = R[n]
<1> DEFINE Add(k, x) == IF x.result = "Ok" THEN PopStack(x, w) ELSE x
           S == 1 .. n
           Step(F) == [s \in SUBSET S |-> IF s = {} THEN m
                         ELSE Add(Max(s), F[s \ {Max(s)}])]
           iter == CHOOSE F : F = Step(F)
<1>1. PopAll(m, n, w) = iter[S]
  BY DEF PopAll, FoldLeft, MapThenFoldSet
<1> DEFINE c == [s \in SUBSET S |-> Max(s)]
           G == [p \in S \X V |-> Add(p[1], p[2])]
<1>2. PicksGreatest(c, S)
  <2> SUFFICES ASSUME NEW s \in SUBSET S, s # {}
               PROVE  Max(s) \in s /\ \A y \in s : Max(s) >= y
    BY DEF PicksGreatest
  <2> QED BY Greatest DEF Max
<1>3. \A k \in S, x \in V : Add(k, x) \in V BY DEF PopsIn
<1> HIDE DEF Add
<1>4. Adds(G, S, V) BY <1>3 DEF Adds
<1>5. PICK F \in [SUBSET S -> V] : Recursion(F, S, m, c, G)
  <2>1. IsFiniteSet(S) BY FS_Interval
  <2>2. Picks(c, S) BY <1>2 DEF Picks, PicksGreatest
  <2> HIDE DEF S, c, G
  <2> QED BY <1>4, <2>1, <2>2, FoldExists
<1>6. F = Step(F)
  <2>1. ASSUME NEW s \in SUBSET S
        PROVE  F[s] = IF s = {} THEN m ELSE Add(Max(s), F[s \ {Max(s)}])
    <3>1. CASE s = {} BY <3>1, <1>5 DEF Recursion
    <3>2. CASE s # {}
      <4>1. Max(s) \in S /\ s \ {Max(s)} \in SUBSET S BY <1>2, <3>2 DEF PicksGreatest
      <4>2. F[s] = G[<<Max(s), F[s \ {Max(s)}]>>] BY <1>5, <3>2 DEF Recursion
      <4> QED BY <3>2, <4>1, <4>2
    <3> QED BY <3>1, <3>2
  <2> HIDE DEF S
  <2> QED BY <2>1
<1>7. iter = Step(iter)
  <2> HIDE DEF Step
  <2> QED BY <1>6
<1>8. TypedRecursion(iter, S, V, m, c, G)
  <2> HIDE DEF iter
  <2>1. {} \in SUBSET S OBVIOUS
  <2>2. iter[{}] = m
    <3> HIDE DEF S
    <3> QED BY <1>7, <2>1
  <2>3. ASSUME NEW s \in SUBSET S, s # {}, iter[s \ {c[s]}] \in V
        PROVE  iter[s] = G[<<c[s], iter[s \ {c[s]}]>>]
    <3>1. c[s] = Max(s) OBVIOUS
    <3>2. c[s] \in S BY <1>2, <2>3 DEF PicksGreatest
    <3>3. G[<<c[s], iter[s \ {c[s]}]>>] = Add(c[s], iter[s \ {c[s]}])
      <4> HIDE DEF S, c
      <4> QED BY <2>3, <3>2
    <3>4. iter[s] = Add(Max(s), iter[s \ {Max(s)}])
      <4> HIDE DEF S
      <4> QED BY <1>7, <2>3
    <3> QED BY <3>1, <3>3, <3>4
  <2> HIDE DEF c, G, S
  <2> QED BY <2>2, <2>3 DEF TypedRecursion
<1> HIDE DEF iter, c, G, Step
<1>9. PICK R \in [0 .. n -> V] :
        /\ R[0] = m
        /\ \A k \in 1 .. n : R[k] = G[<<k, R[k - 1]>>]
        /\ iter[1 .. n] = R[n]
  BY <1>2, <1>4, <1>8, LeftFold
<1>10. ASSUME NEW k \in 1 .. n PROVE R[k] = Add(k, R[k - 1])
  <2>1. R[k - 1] \in V OBVIOUS
  <2> QED BY <1>9, <2>1 DEF G
<1> QED BY <1>1, <1>9, <1>10 DEF Add, PopRun

-----------------------------------------------------------------------------
(* Machines                                                                *)

Results == {"Ok"} \union Errors
Words == {c \in Seq(HalfWords) : Len(c) \in {1, 2}}
Machines == [regs : [Regs -> Address], mem : [Address -> HalfWords], eip : Address,
             result : Results, popped : Seq(Words)]

LEMMA Pointers ==
  "esp" \in Regs /\ "ebp" \in Regs /\ WriteableMemory \in Address
  BY StackAssumption

LEMMA NowType ==
  ASSUME TypeOK, result = "Ok"
  PROVE  /\ Now \in Machines /\ Now.regs = regs /\ Now.mem = mem /\ Now.eip = eip
         /\ Now.result = "Ok" /\ Now.popped = <<>>
  BY DEF TypeOK, Now, Machines, Results, HalfWords

LEMMA FailingIs ==
  ASSUME NEW m \in Machines, NEW e \in Errors
  PROVE  /\ Failing(m, e) \in Machines /\ Failing(m, e).result = e /\ e # "Ok"
         /\ Failing(m, e).regs = m.regs /\ Failing(m, e).mem = m.mem
         /\ Failing(m, e).eip = m.eip /\ Failing(m, e).popped = m.popped
  BY DEF Failing, Machines, Results, Errors

LEMMA WithIs ==
  ASSUME NEW m \in Machines, NEW r \in Regs, NEW v \in Address
  PROVE  /\ With(m, r, v) \in Machines
         /\ With(m, r, v).regs = [m.regs EXCEPT ![r] = v]
         /\ With(m, r, v).mem = m.mem /\ With(m, r, v).eip = m.eip
         /\ With(m, r, v).result = m.result /\ With(m, r, v).popped = m.popped
  BY DEF With, Machines

LEMMA LoadedIs ==
  ASSUME NEW m \in Machines, NEW a \in Address, NEW w \in {1, 2}, Readable(a, w)
  PROVE  /\ Word(Loaded(m, a, w), w) /\ Loaded(m, a, w) \in Words
         /\ \A j \in 1 .. w : Loaded(m, a, w)[j] = m.mem[a + j - 1] /\ a + j - 1 \in Address
<1>1. PICK s \in Sections : a .. a + w - 1 \subseteq s BY DEF Readable
<1>2. s \subseteq Address BY StackAssumption
<1>3. a \in Nat BY Spaces
<1>4. \A j \in 1 .. w : a + j - 1 \in Address
  <2>1. \A j \in 1 .. w : a + j - 1 \in a .. a + w - 1 BY <1>3
  <2> QED BY <1>1, <1>2, <2>1
<1>5. \A j \in 1 .. w : m.mem[a + j - 1] \in HalfWords BY <1>4 DEF Machines
<1>6. Loaded(m, a, w) \in [1 .. w -> HalfWords] BY <1>5 DEF Loaded
<1>7. Loaded(m, a, w) \in Seq(HalfWords) /\ Len(Loaded(m, a, w)) = w
  <2>1. w \in Nat OBVIOUS
  <2> QED BY <1>6, <2>1
<1>8. \A j \in 1 .. w : Loaded(m, a, w)[j] = m.mem[a + j - 1] BY DEF Loaded
<1> QED BY <1>4, <1>7, <1>8 DEF Word, Words

(* What a store does to memory.                                            *)
Stores(new, old, a, c) ==
  new = [x \in Address |-> IF x - a + 1 \in DOMAIN c THEN c[x - a + 1] ELSE old[x]]

LEMMA SetMemIs ==
  ASSUME NEW m \in Machines, m.result = "Ok", NEW a \in Address, NEW w \in {1, 2},
         NEW c, Word(c, w)
  PROVE  LET p == SetMem(m, a, c)
         IN  /\ p \in Machines /\ p.regs = m.regs /\ p.eip = m.eip /\ p.popped = m.popped
             /\ p.result # "Ok" => p.mem = m.mem
             /\ p.result = "Ok" => /\ a >= WriteableMemory /\ Readable(a, w)
                                   /\ Stores(p.mem, m.mem, a, c)
<1>1. CASE a < WriteableMemory
  <2>1. SetMem(m, a, c) = Failing(m, "WroteReadOnlyMemory") BY <1>1 DEF SetMem
  <2>2. "WroteReadOnlyMemory" \in Errors BY DEF Errors
  <2> QED BY <2>1, <2>2, FailingIs
<1>2. CASE ~ (a < WriteableMemory) /\ ~ Readable(a, w)
  <2>1. SetMem(m, a, c) = Failing(m, "BadMemory") BY <1>2 DEF SetMem, Word
  <2>2. "BadMemory" \in Errors BY DEF Errors
  <2> QED BY <2>1, <2>2, FailingIs
<1>3. CASE ~ (a < WriteableMemory) /\ Readable(a, w)
  <2> DEFINE new == [x \in Address |-> IF x - a + 1 \in DOMAIN c THEN c[x - a + 1] ELSE m.mem[x]]
  <2>1. SetMem(m, a, c) = [m EXCEPT !.mem = new] BY <1>3 DEF SetMem, Word
  <2>2. new \in [Address -> HalfWords]
    <3> SUFFICES ASSUME NEW x \in Address
                 PROVE  (IF x - a + 1 \in DOMAIN c THEN c[x - a + 1] ELSE m.mem[x]) \in HalfWords
      OBVIOUS
    <3>1. \A j \in DOMAIN c : c[j] \in HalfWords
      <4>1. c \in [1 .. Len(c) -> HalfWords] BY DEF Word
      <4> QED BY <4>1
    <3>2. m.mem[x] \in HalfWords BY DEF Machines
    <3> QED BY <3>1, <3>2
  <2>3. a >= WriteableMemory BY <1>3, Spaces, Pointers
  <2>4. Stores(new, m.mem, a, c) BY DEF Stores
  <2> HIDE DEF new
  <2>5. [m EXCEPT !.mem = new] \in Machines BY <2>2 DEF Machines
  <2>6. /\ [m EXCEPT !.mem = new].regs = m.regs /\ [m EXCEPT !.mem = new].eip = m.eip
        /\ [m EXCEPT !.mem = new].popped = m.popped /\ [m EXCEPT !.mem = new].mem = new
    BY DEF Machines
  <2> QED BY <1>3, <2>1, <2>3, <2>4, <2>5, <2>6
<1> QED BY <1>1, <1>2, <1>3

CanPush(m, c, w, k) == m.result = "Ok" /\ Word(c, k) /\ w \in {1, 2}

Pushed(p, m, c, w, k) ==
  LET a == Wrap(m.regs["esp"] - w)
  IN  /\ p \in Machines /\ p.regs = [m.regs EXCEPT !["esp"] = a] /\ a \in Address
      /\ p.eip = m.eip /\ p.popped = m.popped
      /\ p.result # "Ok" => p.mem = m.mem
      /\ p.result = "Ok" => /\ k <= w /\ a >= WriteableMemory /\ Readable(a, k)
                            /\ Stores(p.mem, m.mem, a, c)

(* esp moves whether the push fails or not; a push that succeeds stores as *)
(* much as it moves, if it is not given less.                              *)
LEMMA PushStackIs ==
  ASSUME NEW m \in Machines, NEW w \in {1, 2}, NEW k \in {1, 2},
         NEW c, CanPush(m, c, w, k)
  PROVE  Pushed(PushStack(m, c, w), m, c, w, k)
<1> USE DEF Pushed
<1>0. m.result = "Ok" /\ Word(c, k) BY DEF CanPush
<1> DEFINE a == Wrap(m.regs["esp"] - w)
           moved == With(m, "esp", a)
<1>1. a \in Address
  <2>1. m.regs["esp"] \in Address BY Pointers DEF Machines
  <2>2. m.regs["esp"] \in Int BY <2>1, AddressIs
  <2>3. m.regs["esp"] - w \in Int BY <2>2
  <2> QED BY <2>3, WrapType
<1> HIDE DEF a
<1>2. /\ moved \in Machines /\ moved.regs = [m.regs EXCEPT !["esp"] = a]
      /\ moved.mem = m.mem /\ moved.eip = m.eip
      /\ moved.result = "Ok" /\ moved.popped = m.popped
  BY <1>0, <1>1, Pointers, WithIs
<1>3. moved.regs["esp"] = a BY <1>2, Pointers DEF Machines
<1>4. PushStack(m, c, w) = IF Len(c) > w THEN Failing(moved, "TooBigSizeExpectation")
                           ELSE SetMem(moved, a, c)
  BY <1>3 DEF PushStack, a
<1> HIDE DEF moved
<1>5. CASE Len(c) > w
  <2>1. "TooBigSizeExpectation" \in Errors BY DEF Errors
  <2>2. PushStack(m, c, w) = Failing(moved, "TooBigSizeExpectation") BY <1>4, <1>5
  <2> QED BY <1>1, <1>2, <2>1, <2>2, FailingIs DEF a
<1>6. CASE ~ (Len(c) > w)
  <2>1. PushStack(m, c, w) = SetMem(moved, a, c) BY <1>4, <1>6
  <2>2. k <= w BY <1>0, <1>6 DEF Word
  <2> QED BY <1>0, <1>1, <1>2, <2>1, <2>2, SetMemIs DEF a
<1> QED BY <1>5, <1>6

CanPop(m, w) == m.result = "Ok" /\ w \in {1, 2}

Popped(p, m, w) ==
  LET a == m.regs["esp"]
  IN  /\ p \in Machines /\ p.regs = [m.regs EXCEPT !["esp"] = Wrap(a + w)]
      /\ a \in Address /\ Wrap(a + w) \in Address
      /\ p.eip = m.eip /\ p.mem = m.mem
      /\ p.result # "Ok" => p.popped = m.popped
      /\ p.result = "Ok" => /\ Readable(a, w) /\ Word(Loaded(m, a, w), w)
                            /\ p.popped = Append(m.popped, Loaded(m, a, w))

(* So does it when something is taken off.                                 *)
LEMMA PopStackIs ==
  ASSUME NEW m \in Machines, NEW w \in {1, 2}, CanPop(m, w)
  PROVE  Popped(PopStack(m, w), m, w)
<1> USE DEF Popped, CanPop
<1> DEFINE a == m.regs["esp"]
           b == Wrap(a + w)
           moved == With(m, "esp", b)
<1>0. a \in Address BY Pointers DEF Machines
<1>1. b \in Address
  <2>1. a \in Int BY <1>0, AddressIs
  <2>2. a + w \in Int BY <2>1
  <2> QED BY <2>2, WrapType
<1> HIDE DEF b
<1>2. /\ moved \in Machines /\ moved.regs = [m.regs EXCEPT !["esp"] = b]
      /\ moved.mem = m.mem /\ moved.eip = m.eip
      /\ moved.result = "Ok" /\ moved.popped = m.popped
  BY <1>1, Pointers, WithIs
<1>3. PopStack(m, w) = IF Readable(a, w)
                       THEN [moved EXCEPT !.popped = Append(@, Loaded(m, a, w))]
                       ELSE Failing(moved, "BadMemory")
  BY DEF PopStack, b
<1> HIDE DEF moved
<1>4. CASE ~ Readable(a, w)
  <2>1. "BadMemory" \in Errors BY DEF Errors
  <2>2. PopStack(m, w) = Failing(moved, "BadMemory") BY <1>3, <1>4
  <2> QED BY <1>0, <1>1, <1>2, <2>1, <2>2, FailingIs DEF b
<1>5. CASE Readable(a, w)
  <2> DEFINE l == Loaded(m, a, w)
             p == [moved EXCEPT !.popped = Append(@, l)]
  <2>1. l \in Words /\ Word(l, w) BY <1>0, <1>5, LoadedIs
  <2> HIDE DEF l
  <2>0. moved.popped \in Seq(Words) /\ Append(moved.popped, l) \in Seq(Words)
    BY <1>2, <2>1 DEF Machines
  <2>2. /\ p \in Machines /\ p.regs = moved.regs /\ p.eip = moved.eip /\ p.mem = moved.mem
        /\ p.popped = Append(m.popped, l) /\ p.result = "Ok"
    BY <1>2, <2>0 DEF Machines
  <2>3. PopStack(m, w) = p BY <1>3, <1>5 DEF l
  <2> HIDE DEF p
  <2>4. Word(Loaded(m, a, w), w) /\ p.popped = Append(m.popped, Loaded(m, a, w))
    BY <2>1, <2>2 DEF l
  <2> QED BY <1>0, <1>1, <1>2, <1>5, <2>2, <2>3, <2>4 DEF b
<1> QED BY <1>4, <1>5

LEMMA PushAllType ==
  ASSUME NEW m \in Machines, NEW w \in {1, 2}, NEW k \in {1, 2}, NEW n \in Nat,
         NEW values, DOMAIN values = 1 .. n, \A j \in 1 .. n : Word(values[j], k)
  PROVE  LET p == PushAll(m, values, w)
         IN  /\ p \in Machines /\ p.eip = m.eip /\ p.popped = m.popped
             /\ \A r \in Regs \ {"esp"} : p.regs[r] = m.regs[r]
<1> DEFINE V == {x \in Machines : /\ x.eip = m.eip /\ x.popped = m.popped
                                  /\ \A r \in Regs \ {"esp"} : x.regs[r] = m.regs[r]}
<1>1. m \in V OBVIOUS
<1>2. ASSUME NEW j \in 1 .. n, NEW x \in V, x.result = "Ok"
      PROVE  PushStack(x, values[j], w) \in V
  <2> DEFINE p == PushStack(x, values[j], w)
             a == Wrap(x.regs["esp"] - w)
  <2>1. x \in Machines /\ x.result = "Ok" /\ Word(values[j], k) BY <1>2
  <2>0. /\ x.eip = m.eip /\ x.popped = m.popped
        /\ \A r \in Regs \ {"esp"} : x.regs[r] = m.regs[r]
    OBVIOUS
  <2>2. /\ p \in Machines /\ p.regs = [x.regs EXCEPT !["esp"] = a]
        /\ p.eip = x.eip /\ p.popped = x.popped
    <3> HIDE DEF V
    <3> DEFINE c == values[j]
    <3>1. x \in Machines /\ CanPush(x, c, w, k) BY <2>1 DEF CanPush
    <3> HIDE DEF c
    <3>2. Pushed(PushStack(x, c, w), x, c, w, k) BY <3>1, PushStackIs
    <3>3. Pushed(p, x, c, w, k) BY <3>2 DEF c
    <3> HIDE DEF p
    <3> QED BY <3>3 DEF Pushed
  <2> HIDE DEF V, p, a
  <2>3. \A r \in Regs \ {"esp"} : p.regs[r] = x.regs[r] BY <2>1, <2>2 DEF Machines
  <2>4. p \in V BY <2>0, <2>2, <2>3 DEF V
  <2> QED BY <2>4 DEF p
<1> HIDE DEF V
<1>3. PushesIn(V, values, n, w) BY <1>2 DEF PushesIn
<1>5. PICK R \in [0 .. n -> V] : PushAll(m, values, w) = R[n]
  BY <1>1, <1>3, PushAllSteps
<1>4. R[n] \in V OBVIOUS
<1> QED BY <1>4, <1>5 DEF V

(* Every pop adds a word to those taken off, if none fails.                *)
LEMMA PopAllType ==
  ASSUME NEW m \in Machines, m.result = "Ok", m.popped = <<>>,
         NEW w \in {1, 2}, NEW n \in Nat
  PROVE  LET p == PopAll(m, n, w)
         IN  /\ p \in Machines /\ p.eip = m.eip /\ p.mem = m.mem
             /\ \A r \in Regs \ {"esp"} : p.regs[r] = m.regs[r]
             /\ p.result = "Ok" => /\ Len(p.popped) = n
                                   /\ \A j \in 1 .. n : Word(p.popped[j], w)
<1> DEFINE Good(x) == /\ x.eip = m.eip /\ x.mem = m.mem
                      /\ \A r \in Regs \ {"esp"} : x.regs[r] = m.regs[r]
                      /\ \A j \in 1 .. Len(x.popped) : Word(x.popped[j], w)
           V == {x \in Machines : Good(x)}
<1>1. m \in V
  <2>1. Len(m.popped) = 0 OBVIOUS
  <2> QED BY <2>1
<1>2. ASSUME NEW x \in V, x.result = "Ok"
      PROVE  /\ PopStack(x, w) \in V
             /\ PopStack(x, w).result = "Ok" => Len(PopStack(x, w).popped) = Len(x.popped) + 1
  <2> DEFINE p == PopStack(x, w)
             a == x.regs["esp"]
             l == Loaded(x, a, w)
  <2>0. x \in Machines OBVIOUS
  <2>8. Popped(p, x, w)
    <3> HIDE DEF V
    <3> QED BY <1>2, <2>0, PopStackIs DEF CanPop
  <2>1. /\ p \in Machines /\ p.regs = [x.regs EXCEPT !["esp"] = Wrap(a + w)]
        /\ p.eip = x.eip /\ p.mem = x.mem
    BY <2>8 DEF Popped
  <2>2. p.result # "Ok" => p.popped = x.popped BY <2>8 DEF Popped
  <2>3. p.result = "Ok" => Word(l, w) /\ p.popped = Append(x.popped, l)
    BY <2>8 DEF Popped
  <2>4. x.popped \in Seq(Words) BY DEF Machines
  <2> HIDE DEF p, l
  <2>5. \A r \in Regs \ {"esp"} : p.regs[r] = x.regs[r] BY <2>0, <2>1 DEF Machines
  <2>6. /\ \A j \in 1 .. Len(p.popped) : Word(p.popped[j], w)
        /\ p.result = "Ok" => Len(p.popped) = Len(x.popped) + 1
    <3>1. CASE p.result # "Ok" BY <2>2, <3>1
    <3>2. CASE p.result = "Ok"
      <4>1. \A j \in 1 .. Len(p.popped) : j \in 1 .. Len(x.popped) \/ j = Len(x.popped) + 1
        BY <2>3, <2>4, <3>2
      <4>2. /\ Len(p.popped) = Len(x.popped) + 1 /\ p.popped[Len(x.popped) + 1] = l
            /\ \A j \in 1 .. Len(x.popped) : p.popped[j] = x.popped[j]
        BY <2>3, <2>4, <3>2
      <4> QED BY <2>3, <3>2, <4>1, <4>2
    <3> QED BY <3>1, <3>2
  <2>7. p \in V BY <2>1, <2>5, <2>6
  <2> QED BY <2>6, <2>7 DEF p
<1> HIDE DEF V
<1>0. PopsIn(V, w) BY <1>2 DEF PopsIn
<1>9. PICK R \in [0 .. n -> V] : PopRun(R, m, n, w) /\ PopAll(m, n, w) = R[n]
  BY <1>0, <1>1, PopAllSteps
<1>3. /\ R[0] = m
      /\ \A k \in 1 .. n :
           R[k] = IF R[k - 1].result = "Ok" THEN PopStack(R[k - 1], w) ELSE R[k - 1]
  BY <1>9 DEF PopRun
<1> DEFINE T == {k \in Nat : k <= n /\ R[k].result = "Ok" => Len(R[k].popped) = k}
<1>4. 0 \in T BY <1>3
<1>5. ASSUME NEW k \in T PROVE k + 1 \in T
  <2>1. k + 1 \in Nat OBVIOUS
  <2> SUFFICES ASSUME k + 1 <= n, R[k + 1].result = "Ok"
               PROVE  Len(R[k + 1].popped) = k + 1
    BY <2>1
  <2>2. k + 1 \in 1 .. n /\ (k + 1) - 1 = k /\ k \in 0 .. n OBVIOUS
  <2>3. R[k + 1] = IF R[k].result = "Ok" THEN PopStack(R[k], w) ELSE R[k] BY <1>3, <2>2
  <2>4. R[k].result = "Ok" /\ R[k + 1] = PopStack(R[k], w) BY <2>3
  <2>5. R[k] \in V BY <2>2
  <2>6. Len(R[k].popped) = k BY <2>2, <2>4
  <2> QED BY <1>2, <2>4, <2>5, <2>6
<1>6. T = Nat
  <2>1. T \in SUBSET Nat OBVIOUS
  <2> HIDE DEF T
  <2> QED BY <1>4, <1>5, <2>1, Induction
<1>7. R[n].result = "Ok" => Len(R[n].popped) = n BY <1>6
<1>8. R[n] \in V OBVIOUS
<1> QED BY <1>7, <1>8, <1>9 DEF V

-----------------------------------------------------------------------------
(* The flags                                                               *)

(* popf loads the bits that are stored, and bit 1.                         *)
LEMMA StoredIs ==
  ASSUME NEW v \in Address
  PROVE  /\ Stored(v) \in Address
         /\ \A b \in FlagBits : (Stored(v) \div 2 ^ b) % 2 = (v \div 2 ^ b) % 2
<1> DEFINE Bits == FlagBits \union {1}
           V == [b \in Bits |-> (v \div 2 ^ b) % 2]
           A == {V[b] * 2 ^ b : b \in FlagBits}
<1>0. FlagBits \in SUBSET (Nat \ {1}) /\ IsFiniteSet(FlagBits) BY StackAssumption
<1>1. PICK top \in Bits : \A b \in Bits : top >= b
  <2>1. Bits \in SUBSET Nat /\ Bits # {} BY <1>0
  <2>2. IsFiniteSet(Bits) BY <1>0, FS_AddElement
  <2> HIDE DEF Bits
  <2> QED BY <2>1, <2>2, GreatestOfFinite
<1> DEFINE w == top + 1
           P == [k \in 0 .. w |-> 2 ^ k]
           D == [k \in 0 .. w - 1 |-> IF k = 1 THEN 1 ELSE IF k \in FlagBits THEN V[k] ELSE 0]
           Z == A \union {2}
<1>2. top \in Nat /\ w \in Nat /\ top >= 1 /\ \A b \in Bits : b \in 0 .. w - 1
  <2>1. top >= 1 /\ top \in Nat BY <1>0, <1>1
  <2>2. \A b \in Bits : b \in Nat /\ b <= top BY <1>0, <1>1
  <2> QED BY <2>1, <2>2
<1>3. 2 ^ 0 = 1 /\ \A k \in 0 .. top : 2 ^ (k + 1) = 2 * 2 ^ k BY PowerAssumption
<1>4. PowersOf(P, 2, w)
  <2>1. P[0] = 1 BY <1>2, <1>3
  <2>2. ASSUME NEW k \in 0 .. w - 1 PROVE P[k + 1] = 2 * P[k]
    <3>1. k \in 0 .. top /\ k \in 0 .. w /\ k + 1 \in 0 .. w BY <1>2
    <3>2. P[k + 1] = 2 ^ (k + 1) /\ P[k] = 2 ^ k BY <3>1
    <3> QED BY <1>3, <3>1, <3>2
  <2> HIDE DEF P
  <2> QED BY <2>1, <2>2 DEF PowersOf
<1>5. \A k \in 0 .. w : P[k] \in Nat \ {0} /\ P[k] = 2 ^ k
  <2>1. \A k \in 0 .. w : P[k] = 2 ^ k OBVIOUS
  <2>2. \A k \in 0 .. w : P[k] \in Nat \ {0}
    <3> HIDE DEF P, w
    <3>1. 2 \in Nat \ {0} OBVIOUS
    <3> QED BY <1>2, <1>4, <3>1, PowersAre
  <2> QED BY <2>1, <2>2
<1>6. \A b \in Bits : V[b] \in {0, 1}
  <2> SUFFICES ASSUME NEW b \in Bits PROVE V[b] \in {0, 1} OBVIOUS
  <2>1. 2 ^ b \in Nat \ {0} BY <1>2, <1>5
  <2> DEFINE p == 2 ^ b
             q == v \div p
  <2> HIDE DEF p
  <2>2. v \in Int /\ p \in Nat \ {0} BY <2>1, AddressIs DEF p
  <2>3. q \in Int BY <2>2, DivMod
  <2> HIDE DEF q
  <2>4. q % 2 \in 0 .. 2 - 1 BY <2>3, DivMod
  <2>5. V[b] = q % 2 BY DEF p, q
  <2> QED BY <2>4, <2>5
<1> HIDE DEF V
<1>7. \A k \in 0 .. w - 1 : D[k] \in {0, 1}
  <2> HIDE DEF w
  <2> QED BY <1>6
<1>8. DigitsOf(D, 2, w)
  <2> HIDE DEF D, w
  <2> QED BY <1>7 DEF DigitsOf
<1>9. 2 ^ 1 = 2
  <2>1. 2 ^ (0 + 1) = 2 * 2 ^ 0 BY <1>2, <1>3
  <2>2. 0 + 1 = 1 OBVIOUS
  <2>3. 2 ^ 1 = 2 * 1 BY <1>3, <2>1, <2>2
  <2> QED BY <2>3
<1>10. \A b \in FlagBits : b \in 0 .. w - 1 /\ D[b] = V[b] /\ b # 1
  <2>1. \A b \in FlagBits : b \in 0 .. w - 1 /\ b # 1 BY <1>0, <1>2
  <2> HIDE DEF w
  <2> QED BY <2>1
<1>11. 1 \in 0 .. w - 1 /\ D[1] = 1 /\ P[1] = 2
  <2>1. 1 \in 0 .. w - 1 /\ 1 \in 0 .. w BY <1>2
  <2> HIDE DEF w
  <2> QED BY <1>9, <2>1
<1>12. \A k \in 0 .. w - 1 : k # 1 /\ k \notin FlagBits => D[k] = 0
  <2> HIDE DEF w
  <2> QED OBVIOUS
<1>13. \A b \in FlagBits : V[b] * 2 ^ b = D[b] * P[b]
  <2> HIDE DEF P, D, w
  <2>1. \A b \in FlagBits : b \in 0 .. w BY <1>2, <1>10
  <2>2. \A b \in FlagBits : P[b] = 2 ^ b BY <1>5, <2>1
  <2> QED BY <1>10, <2>2
<1> HIDE DEF D, P, w
<1>14. 1 * 2 = D[1] * P[1] BY <1>11
<1>15. Amounts(Z, D, P, w)
  <2>1. ASSUME NEW z \in Z PROVE z \in {D[k] * P[k] : k \in 0 .. w - 1}
    <3>1. CASE z = 2 BY <1>11, <1>14, <3>1
    <3>2. CASE z # 2
      <4>1. PICK b \in FlagBits : z = V[b] * 2 ^ b BY <3>2
      <4>2. z = D[b] * P[b] /\ b \in 0 .. w - 1 BY <1>10, <1>13, <4>1
      <4> QED BY <4>2
    <3> QED BY <3>1, <3>2
  <2>2. ASSUME NEW k \in 0 .. w - 1, D[k] # 0 PROVE D[k] * P[k] \in Z
    <3>1. CASE k = 1 BY <1>14, <3>1
    <3>2. CASE k # 1
      <4>1. k \in FlagBits BY <1>12, <2>2, <3>2
      <4>2. V[k] * 2 ^ k \in Z BY <4>1
      <4> QED BY <1>13, <4>1, <4>2
    <3> QED BY <3>1, <3>2
  <2> HIDE DEF Z
  <2> QED BY <2>1, <2>2 DEF Amounts
<1>16. Z \subseteq Nat /\ IsFiniteSet(Z) /\ IsNumber(SumSet(Z), D, P, 2, w)
  <2> HIDE DEF Z
  <2>1. 2 \in Nat \ {0} OBVIOUS
  <2> QED BY <1>2, <1>4, <1>8, <1>15, <2>1, Positional
<1>17. 2 \notin A
  <2> SUFFICES ASSUME NEW b \in FlagBits, V[b] * 2 ^ b = 2 PROVE FALSE OBVIOUS
  <2> DEFINE p == P[b]
  <2>1. p = 2 ^ b /\ p \in Nat \ {0} /\ V[b] \in {0, 1} BY <1>2, <1>5, <1>6
  <2> HIDE DEF p
  <2>2. V[b] * p = 2 BY <2>1
  <2>3. p = 2 BY <2>1, <2>2
  <2>4. b = 0 \/ b >= 2 BY <1>0
  <2>5. CASE b = 0 BY <1>4, <2>3, <2>5 DEF PowersOf, p
  <2>6. CASE b >= 2
    <3>1. b \in 0 .. w /\ 2 \in 0 .. b BY <1>2, <2>6
    <3>2. PICK q \in Nat \ {0} : P[b] = P[2] * q
      <4>1. 2 \in Nat \ {0} OBVIOUS
      <4> QED BY <1>2, <1>4, <3>1, <4>1, PowersAre
    <3>3. P[2] = 4
      <4>1. P[1 + 1] = 2 * P[1] BY <1>4, <1>11 DEF PowersOf
      <4>2. 1 + 1 = 2 OBVIOUS
      <4>3. P[2] = 2 * P[1] BY <4>1, <4>2
      <4> QED BY <1>11, <4>3
    <3>4. p = 4 * q BY <3>2, <3>3 DEF p
    <3> QED BY <2>3, <3>4
  <2> QED BY <2>4, <2>5, <2>6
<1>18. SumSet(Z) = 2 + SumSet(A)
  <2>1. Z \subseteq Int BY <1>16
  <2> DEFINE C == Z
  <2>2. Z \ {2} = A /\ 2 \in Z BY <1>17
  <2>3. PICK F \in [SUBSET C -> Int] : SumOf(F, C)
    <3> HIDE DEF Z
    <3> QED BY <1>16, <2>1, SumExists
  <2>4. Z \in SUBSET C /\ A \in SUBSET C OBVIOUS
  <2> HIDE DEF C, Z, A
  <2>5. F[Z] = 2 + F[Z \ {2}] /\ F[Z] = SumSet(Z) /\ F[A] = SumSet(A)
    BY <2>2, <2>3, <2>4 DEF SumOf
  <2>6. F[Z] = 2 + F[A] BY <2>2, <2>5
  <2> QED BY <2>5, <2>6
<1>19. Stored(v) = 2 + SumSet(A)
  <2>1. A = {((v \div 2 ^ b) % 2) * 2 ^ b : b \in FlagBits} BY DEF V
  <2> HIDE DEF A
  <2> QED BY <2>1 DEF Stored
<1> HIDE DEF Z, A
<1>20. Stored(v) = SumSet(Z) BY <1>18, <1>19
<1>21. P[w] <= Space
  <2>1. P[w] = 2 ^ (top + 1) BY <1>2, <1>5 DEF w
  <2>2. CASE top \in FlagBits BY <2>1, <2>2, StackAssumption
  <2>3. CASE top \notin FlagBits
    <3>1. top = 1 /\ w = 2 BY <2>3 DEF w
    <3>2. P[1 + 1] = 2 * P[1] BY <1>4, <1>11 DEF PowersOf
    <3>3. 1 + 1 = 2 OBVIOUS
    <3>4. P[2] = 2 * P[1] BY <3>2, <3>3
    <3> QED BY <1>11, <3>1, <3>4, Spaces
  <2> QED BY <2>2, <2>3
<1>22. SumSet(Z) \in 0 .. P[w] - 1 BY <1>16 DEF IsNumber
<1>23. SumSet(Z) \in Address
  <2>1. P[w] \in Nat BY <1>2, <1>5
  <2> QED BY <1>21, <1>22, <2>1, Spaces DEF Address
<1>24. ASSUME NEW b \in FlagBits PROVE (SumSet(Z) \div 2 ^ b) % 2 = (v \div 2 ^ b) % 2
  <2>1. b \in 0 .. w - 1 /\ D[b] = V[b] /\ P[b] = 2 ^ b BY <1>2, <1>5, <1>10
  <2>2. (SumSet(Z) \div P[b]) % 2 = D[b] BY <1>16, <2>1 DEF IsNumber
  <2>3. V[b] = (v \div 2 ^ b) % 2 BY DEF V
  <2> QED BY <2>1, <2>2, <2>3
<1> QED BY <1>20, <1>23, <1>24

-----------------------------------------------------------------------------
(* Operands                                                                *)

(* Setting a register of the operand size.                                 *)
LEMMA MergeIs ==
  ASSUME NEW old \in Address, NEW w \in {1, 2}, NEW c, Word(c, w)
  PROVE  /\ Merge(old, c) \in Address
         /\ Cells(Merge(old, c), w) = c
         /\ w = 1 => Merge(old, c) \div Half = old \div Half
<1>1. CASE w = 2
  <2>1. Merge(old, c) = Number(c) BY <1>1 DEF Merge, Word
  <2> QED BY <1>1, <2>1, NumberIs
<1>2. CASE w = 1
  <2>18. c[1] \in HalfWords /\ c = <<c[1]>>
    <3>1. c \in Seq(HalfWords) /\ Len(c) = 1 BY <1>2 DEF Word
    <3>2. c[1] \in HalfWords BY <3>1
    <3>3. <<c[1]>> \in Seq(HalfWords) /\ Len(<<c[1]>>) = 1 BY <3>2
    <3> QED BY <3>1, <3>2
  <2> DEFINE low == c[1]
             high == old \div Half
             d == <<low, high>>
  <2>1. low \in HalfWords /\ c = <<low>> BY <2>18
  <2>2. Half \in Nat \ {0} /\ old \in Int /\ old \in Nat /\ old < Half * Half
    BY Spaces, AddressIs DEF Space
  <2>3. high \in HalfWords BY <2>2, TurnOver DEF HalfWords
  <2>4. old = Half * high + (old % Half) /\ old % Half \in 0 .. Half - 1 BY <2>2, DivMod
  <2> HIDE DEF low, high
  <2>5. Merge(old, c) = old - (old % Half) + low BY <1>2 DEF Merge, Word, low
  <2> DEFINE x == Half * high
             r == old % Half
  <2>6. x \in Int BY <2>2, <2>3 DEF HalfWords
  <2>7. low \in Int /\ r \in Int /\ old = x + r BY <2>1, <2>2, <2>4 DEF HalfWords
  <2>8. Merge(old, c) = (old - r) + low BY <2>5
  <2> HIDE DEF x, r
  <2>9. Merge(old, c) = x + low BY <2>6, <2>7, <2>8
  <2>10. Word(d, 2) BY <2>1, <2>3 DEF Word
  <2>11. Number(d) = low + x BY DEF Number, x
  <2>12. Merge(old, c) = Number(d) BY <2>6, <2>7, <2>9, <2>11
  <2>13. Merge(old, c) \in Address BY <2>10, <2>12, NumberIs
  <2>14. (Half * high + low) \div Half = high /\ (Half * high + low) % Half = low
    <3>1. low \in 0 .. Half - 1 /\ high \in Int BY <2>1, <2>2, <2>3 DEF HalfWords
    <3> QED BY <2>2, <3>1, DivUnique
  <2>15. Merge(old, c) = Half * high + low BY <2>9 DEF x
  <2>16. Merge(old, c) \div Half = high /\ Merge(old, c) % Half = low BY <2>14, <2>15
  <2>17. Cells(Merge(old, c), w) = c BY <1>2, <2>1, <2>16 DEF Cells
  <2> QED BY <2>13, <2>16, <2>17 DEF high
<1> QED BY <1>1, <1>2

LEMMA InstrIs ==
  ASSUME NEW i \in Instrs
  PROVE  /\ i.w \in {1, 2}
         /\ i.op \in {"push", "pop", "call"} =>
              /\ i.kind \in {"reg", "imm", "mem"}
              /\ i.kind = "imm" => i.arg \in Address
              /\ i.kind # "imm" => i.arg \in Regs
         /\ i.op = "pop"   => i.kind # "imm"
         /\ i.op = "ret"   => i.clear \in Nat
         /\ i.op = "enter" => i.nesting \in Nat /\ i.locals \in 0 .. WriteableMemory
  BY InstrsAssumption

Reads(m, i) == i.op \in {"push", "call"} /\ Available(m, i)

LEMMA OperandIs ==
  ASSUME NEW m \in Machines, NEW i \in Instrs, Reads(m, i)
  PROVE  Word(Operand(m, i), i.w)
<1> DEFINE w == i.w
           a == i.arg
<1>1. w \in {1, 2} /\ i.kind \in {"reg", "imm", "mem"} BY InstrIs DEF Reads
<1>2. (i.kind = "imm" => a \in Address) /\ (i.kind # "imm" => a \in Regs)
  <2>1. i.op \in {"push", "pop", "call"} BY DEF Reads
  <2> QED BY <2>1, InstrIs
<1>3. i.kind # "imm" => m.regs[a] \in Address BY <1>2 DEF Machines
<1>4. CASE i.kind = "reg"
  <2>1. Operand(m, i) = Cells(m.regs[a], w) BY <1>4 DEF Operand
  <2>2. m.regs[a] \in Address BY <1>3, <1>4
  <2> HIDE DEF w, a
  <2>3. Word(Cells(m.regs[a], w), w) BY <1>1, <2>2, CellsAre
  <2> QED BY <2>1, <2>3 DEF w
<1>5. CASE i.kind = "imm"
  <2>1. Operand(m, i) = Cells(a, w) BY <1>5 DEF Operand
  <2>2. a \in Address BY <1>2, <1>5
  <2> HIDE DEF w, a
  <2>3. Word(Cells(a, w), w) BY <1>1, <2>2, CellsAre
  <2> QED BY <2>1, <2>3 DEF w
<1>6. CASE i.kind = "mem"
  <2> DEFINE b == m.regs[a]
  <2>1. Operand(m, i) = Loaded(m, b, w) BY <1>6 DEF Operand
  <2>2. b \in Address /\ Readable(b, w) BY <1>3, <1>6 DEF Reads, Available
  <2> HIDE DEF w, a, b
  <2>3. Word(Loaded(m, b, w), w) BY <1>1, <2>2, LoadedIs
  <2> QED BY <2>1, <2>3 DEF w
<1> QED BY <1>1, <1>4, <1>5, <1>6

-----------------------------------------------------------------------------
(* The machines that the logic functions leave                             *)

Ready == TypeOK /\ result = "Ok"

LEMMA NowIs ==
  ASSUME Ready
  PROVE  /\ Now \in Machines /\ Now.regs = regs /\ Now.mem = mem /\ Now.eip = eip
         /\ Now.result = "Ok" /\ Now.popped = <<>>
         /\ regs["esp"] \in Address /\ regs["ebp"] \in Address /\ eip \in Address
         /\ \A r \in Regs : regs[r] \in Address
  BY NowType, Pointers DEF Ready, TypeOK

LEMMA FailedNow ==
  ASSUME Ready
  PROVE  Failing(Now, "BadMemory") \in Machines
<1>1. "BadMemory" \in Errors BY DEF Errors
<1> QED BY <1>1, NowIs, FailingIs

LEMMA PushType ==
  ASSUME Ready, NEW i \in Instrs, i.op = "push"
  PROVE  Push(i) \in Machines
<1>1. i.w \in {1, 2} BY InstrIs
<1>2. CASE Available(Now, i)
  <2> DEFINE c == Operand(Now, i)
  <2>1. Word(c, i.w) BY <1>2, NowIs, OperandIs DEF Reads
  <2> HIDE DEF c
  <2>2. CanPush(Now, c, i.w, i.w) BY <1>1, <2>1, NowIs DEF CanPush
  <2>3. Pushed(PushStack(Now, c, i.w), Now, c, i.w, i.w) BY <1>1, <2>2, NowIs, PushStackIs
  <2>4. PushStack(Now, c, i.w) \in Machines BY <2>3 DEF Pushed
  <2> QED BY <1>2, <2>4 DEF Push, c
<1>3. CASE ~ Available(Now, i) BY <1>3, FailedNow DEF Push
<1> QED BY <1>2, <1>3

(* The first pop of an instruction.                                        *)
LEMMA FirstPop ==
  ASSUME NEW m \in Machines, NEW w \in {1, 2}, CanPop(m, w), m.popped = <<>>
  PROVE  LET p == PopStack(m, w)
         IN  /\ p \in Machines /\ p.eip = m.eip /\ p.mem = m.mem
             /\ p.regs = [m.regs EXCEPT !["esp"] = Wrap(m.regs["esp"] + w)]
             /\ p.result = "Ok" => /\ Readable(m.regs["esp"], w)
                                   /\ p.popped[1] = Loaded(m, m.regs["esp"], w)
                                   /\ Word(p.popped[1], w)
<1> DEFINE p == PopStack(m, w)
           l == Loaded(m, m.regs["esp"], w)
<1>1. Popped(p, m, w) BY PopStackIs
<1> HIDE DEF p
<1>2. /\ p \in Machines /\ p.eip = m.eip /\ p.mem = m.mem
      /\ p.regs = [m.regs EXCEPT !["esp"] = Wrap(m.regs["esp"] + w)]
      /\ p.result = "Ok" => /\ Readable(m.regs["esp"], w) /\ Word(l, w)
                            /\ p.popped = Append(<<>>, l)
  BY <1>1 DEF Popped
<1> HIDE DEF l
<1>3. Append(<<>>, l)[1] = l OBVIOUS
<1> QED BY <1>2, <1>3 DEF p, l

LEMMA PopType ==
  ASSUME Ready, NEW i \in Instrs, i.op = "pop"
  PROVE  Pop(i) \in Machines
<1> DEFINE w == i.w
           m == PopStack(Now, w)
           c == m.popped[1]
<1>1. w \in {1, 2} /\ i.arg \in Regs BY InstrIs
<1>2. CanPop(Now, w) BY <1>1, NowIs DEF CanPop
<1>3. m \in Machines /\ (m.result = "Ok" => Word(c, w)) BY <1>1, <1>2, NowIs, FirstPop
<1>4. Pop(i) = IF m.result # "Ok" THEN m
               ELSE IF i.kind = "reg" THEN With(m, i.arg, Merge(m.regs[i.arg], c))
               ELSE SetMem(m, m.regs[i.arg], c)
  BY DEF Pop
<1> DEFINE a == m.regs[i.arg]
<1>5. a \in Address BY <1>1, <1>3 DEF Machines
<1> HIDE DEF w, m, c, a
<1>6. CASE m.result # "Ok" BY <1>3, <1>4, <1>6
<1>7. CASE m.result = "Ok" /\ i.kind = "reg"
  <2>1. Word(c, w) BY <1>3, <1>7
  <2>2. Merge(a, c) \in Address BY <1>1, <1>5, <2>1, MergeIs
  <2>3. With(m, i.arg, Merge(a, c)) \in Machines BY <1>1, <1>3, <2>2, WithIs
  <2> QED BY <1>4, <1>7, <2>3 DEF a
<1>8. CASE m.result = "Ok" /\ i.kind # "reg"
  <2>1. Word(c, w) BY <1>3, <1>8
  <2>2. SetMem(m, a, c) \in Machines BY <1>1, <1>3, <1>5, <1>8, <2>1, SetMemIs
  <2> QED BY <1>4, <1>8, <2>2 DEF a
<1> QED BY <1>6, <1>7, <1>8

(* What pusha pushes.                                                      *)
Saved(w) == [j \in DOMAIN PushOrder |-> Cells(regs[PushOrder[j]], w)]

LEMMA PushOrderIs ==
  /\ Len(PushOrder) \in Nat /\ DOMAIN PushOrder = 1 .. Len(PushOrder)
  /\ \A j \in 1 .. Len(PushOrder) : PushOrder[j] \in Regs
  /\ \A r \in Regs : \E j \in 1 .. Len(PushOrder) : PushOrder[j] = r
  /\ \A j, k \in 1 .. Len(PushOrder) : PushOrder[j] = PushOrder[k] => j = k
<1>1. PushOrder \in Seq(Regs) /\ IsInjective(PushOrder) BY StackAssumption
<1>2. DOMAIN PushOrder = 1 .. Len(PushOrder) BY <1>1
<1>3. \A r \in Regs : \E j \in 1 .. Len(PushOrder) : PushOrder[j] = r
  BY <1>2 DEF Regs, ToSet
<1> QED BY <1>1, <1>2, <1>3 DEF IsInjective

LEMMA SavedIs ==
  ASSUME Ready, NEW w \in {1, 2}
  PROVE  /\ DOMAIN Saved(w) = 1 .. Len(PushOrder)
         /\ \A j \in 1 .. Len(PushOrder) : /\ Word(Saved(w)[j], w)
                                           /\ Saved(w)[j] = Cells(regs[PushOrder[j]], w)
<1>1. ASSUME NEW j \in 1 .. Len(PushOrder) PROVE Word(Cells(regs[PushOrder[j]], w), w)
  <2>1. regs[PushOrder[j]] \in Address BY NowIs, PushOrderIs
  <2> QED BY <2>1, CellsAre
<1> QED BY <1>1, PushOrderIs DEF Saved

LEMMA PushaType ==
  ASSUME Ready, NEW i \in Instrs
  PROVE  Pusha(i) \in Machines
<1> DEFINE w == i.w
           n == Len(PushOrder)
           values == Saved(w)
<1>1. w \in {1, 2} /\ n \in Nat BY InstrIs, PushOrderIs
<1>2. Pusha(i) = PushAll(Now, values, w) BY DEF Pusha, Saved
<1> HIDE DEF w
<1>3. DOMAIN values = 1 .. n /\ \A j \in 1 .. n : Word(values[j], w) BY <1>1, SavedIs
<1> HIDE DEF n, values
<1>4. PushAll(Now, values, w) \in Machines BY <1>1, <1>3, NowIs, PushAllType
<1> QED BY <1>2, <1>4

LEMMA PopaType ==
  ASSUME Ready, NEW i \in Instrs
  PROVE  Popa(i) \in Machines
<1> DEFINE w == i.w
           n == Len(PushOrder)
           m == PopAll(Now, n, w)
           at(r) == CHOOSE j \in DOMAIN PushOrder : PushOrder[j] = r
           new == [r \in Regs |-> IF r = "esp" THEN m.regs[r]
                                  ELSE Merge(m.regs[r], m.popped[n + 1 - at(r)])]
<1>1. w \in {1, 2} /\ n \in Nat BY InstrIs, PushOrderIs
<1>2. Popa(i) = IF m.result # "Ok" THEN m ELSE [m EXCEPT !.regs = new] BY DEF Popa
<1>3. m \in Machines /\ (m.result = "Ok" => \A j \in 1 .. n : Word(m.popped[j], w))
  <2> HIDE DEF w, n
  <2> QED BY <1>1, NowIs, PopAllType
<1> HIDE DEF m, w
<1>4. CASE m.result # "Ok" BY <1>2, <1>3, <1>4
<1>5. CASE m.result = "Ok"
  <2>1. ASSUME NEW r \in Regs PROVE new[r] \in Address
    <3>1. m.regs[r] \in Address BY <1>3 DEF Machines
    <3>2. at(r) \in 1 .. n BY PushOrderIs
    <3> HIDE DEF at, n
    <3>3. n + 1 - at(r) \in 1 .. n BY <1>1, <3>2
    <3>4. Word(m.popped[n + 1 - at(r)], w) BY <1>3, <1>5, <3>3
    <3>5. Merge(m.regs[r], m.popped[n + 1 - at(r)]) \in Address BY <1>1, <3>1, <3>4, MergeIs
    <3> QED BY <3>1, <3>5
  <2>2. new \in [Regs -> Address] BY <2>1
  <2> HIDE DEF new
  <2>3. [m EXCEPT !.regs = new] \in Machines BY <1>3, <2>2 DEF Machines
  <2> QED BY <1>2, <1>5, <2>3
<1> QED BY <1>4, <1>5

LEMMA PushfType ==
  ASSUME Ready, NEW i \in Instrs
  PROVE  Pushf(i) \in Machines
<1> DEFINE w == i.w
           c == Cells(flags, 2)
<1>1. w \in {1, 2} /\ 2 \in {1, 2} BY InstrIs
<1>2. Word(c, 2) BY CellsAre DEF Ready, TypeOK
<1> HIDE DEF w, c
<1>3. CanPush(Now, c, w, 2) BY <1>1, <1>2, NowIs DEF CanPush
<1>4. Pushed(PushStack(Now, c, w), Now, c, w, 2) BY <1>1, <1>3, NowIs, PushStackIs
<1> QED BY <1>4 DEF Pushf, Pushed, w, c

LEMMA PopfType ==
  ASSUME Ready
  PROVE  Popf \in Machines /\ (Popf.result = "Ok" => Word(Popf.popped[1], 2))
<1>1. CanPop(Now, 2) /\ 2 \in {1, 2} BY NowIs DEF CanPop
<1>2. /\ PopStack(Now, 2) \in Machines
      /\ PopStack(Now, 2).result = "Ok" => Word(PopStack(Now, 2).popped[1], 2)
  BY <1>1, NowIs, FirstPop
<1> QED BY <1>2 DEF Popf

(* Where the instruction ends, and what a call pushes.                     *)
LEMMA AfterType ==
  ASSUME Ready
  PROVE  /\ eip + InstrSize \in Int /\ Wrap(eip + InstrSize) \in Address
         /\ Word(Cells(Wrap(eip + InstrSize), 2), 2)
<1>1. InstrSize \in Int /\ eip \in Int BY NowIs, AddressIs, StackAssumption
<1>2. eip + InstrSize \in Int BY <1>1
<1>3. Wrap(eip + InstrSize) \in Address BY <1>2, WrapType
<1> QED BY <1>2, <1>3, CellsAre

LEMMA TargetType ==
  ASSUME Ready, NEW m \in Machines, NEW i \in Instrs, Reads(m, i)
  PROVE  Target(m, i) \in Address
<1>1. i.w \in {1, 2} BY InstrIs
<1>2. CASE i.kind = "imm"
  <2>1. i.arg \in Address BY <1>2, InstrIs DEF Reads
  <2>2. i.arg \in Int /\ eip + InstrSize \in Int BY <2>1, AddressIs, AfterType
  <2>3. (eip + InstrSize) + i.arg \in Int BY <2>2
  <2>4. Wrap((eip + InstrSize) + i.arg) \in Address BY <2>3, WrapType
  <2> QED BY <1>2, <2>4 DEF Target
<1>3. CASE i.kind # "imm"
  <2>1. Word(Operand(m, i), i.w) BY OperandIs
  <2>2. Number(Operand(m, i)) \in Address BY <1>1, <2>1, NumberIs
  <2> QED BY <1>3, <2>2 DEF Target
<1> QED BY <1>2, <1>3

LEMMA WrappedBack ==
  ASSUME NEW x \in Address
  PROVE  x - InstrSize \in Int /\ Wrap(x - InstrSize) \in Address
<1>1. InstrSize \in Int /\ x \in Int BY AddressIs, StackAssumption
<1>2. x - InstrSize \in Int BY <1>1
<1> QED BY <1>2, WrapType

LEMMA CallType ==
  ASSUME Ready, NEW i \in Instrs, i.op = "call"
  PROVE  Call(i) \in Machines
<1> DEFINE w == i.w
           c == Cells(Wrap(eip + InstrSize), 2)
           m == PushStack(Now, c, w)
           t == Wrap(Target(m, i) - InstrSize)
<1>1. w \in {1, 2} /\ 2 \in {1, 2} BY InstrIs
<1>2. Word(c, 2) BY AfterType
<1>3. m \in Machines
  <2> HIDE DEF w, c
  <2>1. CanPush(Now, c, w, 2) BY <1>1, <1>2, NowIs DEF CanPush
  <2>2. Pushed(PushStack(Now, c, w), Now, c, w, 2) BY <1>1, <2>1, NowIs, PushStackIs
  <2> QED BY <2>2 DEF Pushed
<1>4. Call(i) = IF ~ Available(Now, i) THEN Failing(Now, "BadMemory")
                ELSE IF m.result # "Ok" THEN m
                ELSE IF ~ Available(m, i) THEN Failing(m, "BadMemory")
                ELSE [m EXCEPT !.eip = t]
  BY DEF Call
<1> HIDE DEF m
<1>5. Failing(m, "BadMemory") \in Machines
  <2>1. "BadMemory" \in Errors BY DEF Errors
  <2> QED BY <1>3, <2>1, FailingIs
<1>6. Available(m, i) => [m EXCEPT !.eip = t] \in Machines
  <2> SUFFICES ASSUME Available(m, i) PROVE [m EXCEPT !.eip = t] \in Machines OBVIOUS
  <2>1. Reads(m, i) BY DEF Reads
  <2>2. Target(m, i) \in Address BY <1>3, <2>1, TargetType
  <2>3. t \in Address BY <2>2, WrappedBack
  <2> HIDE DEF t
  <2> QED BY <1>3, <2>3 DEF Machines
<1> HIDE DEF t
<1> QED BY <1>3, <1>4, <1>5, <1>6, FailedNow

LEMMA RetType ==
  ASSUME Ready, NEW i \in Instrs, i.op = "ret"
  PROVE  Ret(i) \in Machines
<1> DEFINE w == i.w
           m == PopStack(Now, w)
           before == Wrap(Number(m.popped[1]) - InstrSize)
           e == IF w = 1 THEN before % Half ELSE before
           s == Wrap(m.regs["esp"] + i.clear)
           p == [m EXCEPT !.eip = e, !.regs["esp"] = s]
<1>1. w \in {1, 2} /\ i.clear \in Nat BY InstrIs
<1>2. m \in Machines /\ (m.result = "Ok" => Word(m.popped[1], w))
  <2> HIDE DEF w
  <2>1. CanPop(Now, w) BY <1>1, NowIs DEF CanPop
  <2> QED BY <1>1, <2>1, NowIs, FirstPop
<1>3. Ret(i) = IF m.result # "Ok" THEN m ELSE p BY DEF Ret
<1> HIDE DEF m, w
<1>4. ASSUME m.result = "Ok" PROVE p \in Machines
  <2>1. Number(m.popped[1]) \in Address BY <1>1, <1>2, <1>4, NumberIs
  <2>2. before \in Address BY <2>1, WrappedBack
  <2>3. e \in Address
    <3> HIDE DEF before
    <3>1. before \in Int /\ Half \in Nat \ {0} BY <2>2, AddressIs, Spaces
    <3>2. before % Half \in 0 .. Half - 1 BY <3>1, DivMod
    <3>3. before % Half \in Address BY <3>2, Spaces DEF Address
    <3> QED BY <2>2, <3>3
  <2>4. s \in Address
    <3>1. m.regs["esp"] \in Address BY <1>2, Pointers DEF Machines
    <3>2. m.regs["esp"] \in Int BY <3>1, AddressIs
    <3>3. m.regs["esp"] + i.clear \in Int BY <1>1, <3>2
    <3> QED BY <3>3, WrapType
  <2> HIDE DEF e, s
  <2> QED BY <1>2, <2>3, <2>4 DEF Machines
<1> HIDE DEF p
<1> QED BY <1>2, <1>3, <1>4

LEMMA LeaveType ==
  ASSUME Ready
  PROVE  Leave \in Machines
<1> DEFINE n == With(Now, "esp", regs["ebp"])
           m == PopStack(n, 2)
<1>1. n \in Machines /\ n.result = "Ok" /\ n.popped = <<>>
  <2>1. /\ Now \in Machines /\ "esp" \in Regs /\ regs["ebp"] \in Address
        /\ Now.result = "Ok" /\ Now.popped = <<>>
    BY NowIs, Pointers
  <2> HIDE DEF m
  <2> QED BY <2>1, WithIs
<1>2. Leave = IF m.result # "Ok" THEN m ELSE With(m, "ebp", Number(m.popped[1]))
  BY DEF Leave
<1>3. m \in Machines /\ (m.result = "Ok" => Word(m.popped[1], 2))
  <2> HIDE DEF n
  <2>1. CanPop(n, 2) /\ 2 \in {1, 2} BY <1>1 DEF CanPop
  <2> QED BY <1>1, <2>1, FirstPop
<1> HIDE DEF m
<1>4. ASSUME m.result = "Ok" PROVE With(m, "ebp", Number(m.popped[1])) \in Machines
  <2>1. 2 \in {1, 2} OBVIOUS
  <2>2. Number(m.popped[1]) \in Address BY <1>3, <1>4, <2>1, NumberIs
  <2> QED BY <1>3, <2>2, Pointers, WithIs
<1> QED BY <1>2, <1>3, <1>4

(* The machines that enter goes through.                                   *)
Skipped == [Now EXCEPT !.eip = Wrap(@ + 3)]
First(i) == PushStack(Skipped, Cells(regs["ebp"], 2), i.w)
Outer(i) == IF i.nesting > 2 THEN i.nesting - 2 ELSE 0
Inner(i) == IF Outer(i) > 0 THEN With(First(i), "ebp", Wrap(regs["ebp"] - 2)) ELSE First(i)
Frames(i) == [j \in 1 .. Outer(i) |-> Cells(regs["ebp"], 2)]
               \o <<Cells(First(i).regs["esp"], 2)>>
Entered(i) == IF i.nesting > 0 THEN PushAll(Inner(i), Frames(i), i.w) ELSE First(i)
Framed(m, temp, i) == With(With(m, "ebp", temp), "esp", Wrap(temp - i.locals))

LEMMA EnterSteps ==
  ASSUME NEW i
  PROVE  Enter(i) = IF First(i).result # "Ok" THEN First(i)
                    ELSE IF Entered(i).result # "Ok" THEN Entered(i)
                    ELSE Framed(Entered(i), First(i).regs["esp"], i)
  BY DEF Enter, Skipped, First, Outer, Inner, Frames, Entered, Framed

LEMMA FirstIs ==
  ASSUME Ready, NEW i \in Instrs
  PROVE  /\ Skipped \in Machines /\ Skipped.regs = regs /\ Skipped.mem = mem
         /\ Skipped.result = "Ok" /\ Skipped.popped = <<>>
         /\ Word(Cells(regs["ebp"], 2), 2)
         /\ Pushed(First(i), Skipped, Cells(regs["ebp"], 2), i.w, 2)
         /\ First(i) \in Machines /\ First(i).regs["esp"] \in Address
<1> DEFINE w == i.w
           c == Cells(regs["ebp"], 2)
           e == Wrap(eip + 3)
<1>1. w \in {1, 2} /\ 2 \in {1, 2} BY InstrIs
<1>2. Word(c, 2) BY <1>1, NowIs, CellsAre
<1>3. e \in Address
  <2>1. eip \in Int BY NowIs, AddressIs
  <2>2. eip + 3 \in Int BY <2>1
  <2> QED BY <2>2, WrapType
<1>4. Skipped = [Now EXCEPT !.eip = e] BY NowIs DEF Skipped
<1> HIDE DEF e, c, w
<1>5. /\ Skipped \in Machines /\ Skipped.regs = regs /\ Skipped.mem = mem
      /\ Skipped.result = "Ok" /\ Skipped.popped = <<>>
  BY <1>3, <1>4, NowIs DEF Machines
<1>6. CanPush(Skipped, c, w, 2) BY <1>1, <1>2, <1>5 DEF CanPush
<1>7. Pushed(PushStack(Skipped, c, w), Skipped, c, w, 2) BY <1>1, <1>5, <1>6, PushStackIs
<1>8. First(i) = PushStack(Skipped, c, w) BY DEF First, c, w
<1>9. Pushed(First(i), Skipped, c, w, 2) BY <1>7, <1>8
<1>10. First(i) \in Machines BY <1>9 DEF Pushed
<1>11. First(i).regs["esp"] \in Address BY <1>10, Pointers DEF Machines
<1> QED BY <1>2, <1>5, <1>9, <1>10, <1>11 DEF c, w

LEMMA InnerIs ==
  ASSUME Ready, NEW i \in Instrs, i.op = "enter"
  PROVE  /\ Outer(i) \in Nat /\ Inner(i) \in Machines
         /\ Inner(i).mem = First(i).mem /\ Inner(i).result = First(i).result
         /\ \A r \in Regs \ {"ebp"} : Inner(i).regs[r] = First(i).regs[r]
         /\ DOMAIN Frames(i) = 1 .. Outer(i) + 1
         /\ \A j \in 1 .. Outer(i) + 1 : Word(Frames(i)[j], 2)
<1>1. Outer(i) \in Nat
  <2>1. i.nesting \in Nat BY InstrIs
  <2> QED BY <2>1 DEF Outer
<1>2. /\ Inner(i) \in Machines /\ Inner(i).mem = First(i).mem
      /\ Inner(i).result = First(i).result
      /\ \A r \in Regs \ {"ebp"} : Inner(i).regs[r] = First(i).regs[r]
  <2>1. regs["ebp"] \in Int BY NowIs, AddressIs
  <2>2. regs["ebp"] - 2 \in Int BY <2>1
  <2> DEFINE e == Wrap(regs["ebp"] - 2)
             m == First(i)
  <2>3. e \in Address BY <2>2, WrapType
  <2>4. m \in Machines BY FirstIs
  <2>5. Inner(i) = IF Outer(i) > 0 THEN With(m, "ebp", e) ELSE m BY DEF Inner
  <2> HIDE DEF e, m
  <2>6. /\ With(m, "ebp", e) \in Machines /\ With(m, "ebp", e).mem = m.mem
        /\ With(m, "ebp", e).result = m.result
        /\ With(m, "ebp", e).regs = [m.regs EXCEPT !["ebp"] = e]
    BY <2>3, <2>4, Pointers, WithIs
  <2>7. m.regs \in [Regs -> Address] BY <2>4 DEF Machines
  <2>8. \A r \in Regs \ {"ebp"} : With(m, "ebp", e).regs[r] = m.regs[r] BY <2>6, <2>7
  <2> QED BY <2>4, <2>5, <2>6, <2>8 DEF m
<1> DEFINE n == Outer(i)
           a == Cells(regs["ebp"], 2)
           b == Cells(First(i).regs["esp"], 2)
           s == [j \in 1 .. n |-> a]
<1>3. Word(a, 2) /\ Word(b, 2)
  <2>1. 2 \in {1, 2} OBVIOUS
  <2> QED BY <2>1, FirstIs, CellsAre
<1>4. Frames(i) = s \o <<b>> BY DEF Frames
<1> HIDE DEF n, a, b
<1>5. s \in Seq({a}) /\ Len(s) = n
  <2>1. n \in Nat BY <1>1 DEF n
  <2>2. s \in [1 .. n -> {a}] OBVIOUS
  <2> HIDE DEF s
  <2> QED BY <2>1, <2>2
<1>6. <<b>> \in Seq({b}) /\ Len(<<b>>) = 1 OBVIOUS
<1>7. DOMAIN s = 1 .. n /\ \A j \in 1 .. n : s[j] = a OBVIOUS
<1> HIDE DEF s
<1> DEFINE t == s \o <<b>>
<1>8. Len(t) = n + 1 /\ DOMAIN t = 1 .. n + 1 BY <1>5, <1>6
<1>9. \A j \in 1 .. n + 1 : t[j] = IF j <= n THEN a ELSE b BY <1>5, <1>6, <1>7
<1>10. \A j \in 1 .. n + 1 : Word(t[j], 2) BY <1>3, <1>9
<1> QED BY <1>1, <1>2, <1>4, <1>8, <1>10 DEF n

LEMMA EnterType ==
  ASSUME Ready, NEW i \in Instrs, i.op = "enter"
  PROVE  Enter(i) \in Machines /\ Entered(i) \in Machines
<1>1. Entered(i) \in Machines
  <2>1. CASE i.nesting > 0
    <3> DEFINE n == Outer(i) + 1
               w == i.w
    <3>1. n \in Nat /\ w \in {1, 2} /\ 2 \in {1, 2} BY InnerIs, InstrIs
    <3>2. DOMAIN Frames(i) = 1 .. n /\ \A j \in 1 .. n : Word(Frames(i)[j], 2) BY InnerIs
    <3>3. Inner(i) \in Machines BY InnerIs
    <3> HIDE DEF n, w
    <3>4. PushAll(Inner(i), Frames(i), w) \in Machines BY <3>1, <3>2, <3>3, PushAllType
    <3> QED BY <2>1, <3>4 DEF Entered, w
  <2>2. CASE ~ (i.nesting > 0) BY <2>2, FirstIs DEF Entered
  <2> QED BY <2>1, <2>2
<1> DEFINE m == Entered(i)
           temp == First(i).regs["esp"]
           a == Wrap(temp - i.locals)
<1>2. temp \in Address BY FirstIs
<1>3. a \in Address
  <2>1. i.locals \in Int
    <3>1. i.locals \in 0 .. WriteableMemory /\ WriteableMemory \in Int
      BY InstrIs, Pointers, AddressIs
    <3> QED BY <3>1
  <2>2. temp \in Int BY <1>2, AddressIs
  <2>3. temp - i.locals \in Int BY <2>1, <2>2
  <2> QED BY <2>3, WrapType
<1> HIDE DEF m, temp, a
<1>4. With(m, "ebp", temp) \in Machines BY <1>1, <1>2, Pointers, WithIs DEF m
<1>5. With(With(m, "ebp", temp), "esp", a) \in Machines BY <1>3, <1>4, Pointers, WithIs
<1>6. Framed(m, temp, i) \in Machines BY <1>5 DEF Framed, a
<1> QED BY <1>1, <1>6, FirstIs, EnterSteps DEF m, temp

-----------------------------------------------------------------------------
(* Types                                                                   *)

LEMMA ExecuteType ==
  ASSUME Ready, NEW i \in Instrs, NEW m \in Machines, steps < MaxSteps, Execute(i, m),
         flags' \in Address
  PROVE  TypeOK'
<1>1. regs' \in [Regs -> Address] /\ mem' \in [Address -> 0 .. Half - 1]
      /\ result' \in {"Ok"} \union Errors /\ m.eip \in Address /\ m.regs["esp"] \in Address
  BY Pointers DEF Execute, Machines, HalfWords, Results
<1>2. eip' \in Address
  <2>1. m.eip \in Int /\ InstrSize \in Int BY <1>1, AddressIs, StackAssumption
  <2>2. m.eip + InstrSize \in Int BY <2>1
  <2>3. Wrap(m.eip + InstrSize) \in Address BY <2>2, WrapType
  <2> QED BY <1>1, <2>3 DEF Execute
<1>3. base' \in Address BY <1>1 DEF Execute, Ready, TypeOK
<1>4. steps' \in 0 .. MaxSteps BY StackAssumption DEF Execute, Ready, TypeOK
<1> QED BY <1>1, <1>2, <1>3, <1>4 DEF TypeOK

LEMMA InitType ==
  ASSUME Init
  PROVE  TypeOK
<1>1. regs \in [Regs -> Address] /\ mem \in [Address -> 0 .. Half - 1]
  BY StartsAssumption DEF Init
<1>2. flags \in Address BY Spaces DEF Init, Address
<1>3. base \in Address BY <1>1, Pointers DEF Init
<1>4. eip \in Address /\ steps \in 0 .. MaxSteps BY StackAssumption DEF Init
<1> QED BY <1>1, <1>2, <1>3, <1>4 DEF Init, TypeOK

(* What a step executes, and the flags it leaves.                          *)
Handled(i, m) ==
  \/ i.op = "push"  /\ m = Push(i)
  \/ i.op = "pop"   /\ m = Pop(i)
  \/ i.op = "pusha" /\ m = Pusha(i)
  \/ i.op = "popa"  /\ m = Popa(i)
  \/ i.op = "pushf" /\ m = Pushf(i)
  \/ i.op = "popf"  /\ m = Popf
  \/ i.op = "call"  /\ m = Call(i)
  \/ i.op = "ret"   /\ m = Ret(i)
  \/ i.op = "enter" /\ m = Enter(i)
  \/ i.op = "leave" /\ m = Leave

NextFlags(i, m) ==
  IF i.op = "popf" /\ m.result = "Ok" THEN Stored(Number(m.popped[1])) ELSE flags

LEMMA StepIs ==
  ASSUME Next
  PROVE  /\ result = "Ok" /\ steps < MaxSteps
         /\ \E i \in Instrs : \E m : /\ Handled(i, m) /\ Execute(i, m)
                                     /\ flags' = NextFlags(i, m)
<1>1. PICK i \in Instrs :
        \/ ExecPush(i) \/ ExecPop(i) \/ ExecPusha(i) \/ ExecPopa(i)
        \/ ExecPushf(i) \/ ExecPopf(i) \/ ExecCall(i) \/ ExecRet(i)
        \/ ExecEnter(i) \/ ExecLeave(i)
  BY DEF Next
<1> DEFINE Goal == /\ result = "Ok" /\ steps < MaxSteps
                   /\ \E m : /\ Handled(i, m) /\ Execute(i, m)
                             /\ flags' = NextFlags(i, m)
<1> USE DEF Fetched, Handled, NextFlags
<1>2. CASE ExecPush(i) BY <1>2, Zenon DEF ExecPush
<1>3. CASE ExecPop(i) BY <1>3 DEF ExecPop
<1>4. CASE ExecPusha(i) BY <1>4 DEF ExecPusha
<1>5. CASE ExecPopa(i) BY <1>5 DEF ExecPopa
<1>6. CASE ExecPushf(i) BY <1>6 DEF ExecPushf
<1>7. CASE ExecPopf(i) BY <1>7 DEF ExecPopf
<1>8. CASE ExecCall(i) BY <1>8 DEF ExecCall
<1>9. CASE ExecRet(i) BY <1>9 DEF ExecRet
<1>10. CASE ExecEnter(i) BY <1>10 DEF ExecEnter
<1>11. CASE ExecLeave(i) BY <1>11 DEF ExecLeave
<1> QED BY <1>1, <1>2, <1>3, <1>4, <1>5, <1>6, <1>7, <1>8, <1>9, <1>10, <1>11

LEMMA HandledType ==
  ASSUME Ready, NEW i \in Instrs, NEW m, Handled(i, m)
  PROVE  m \in Machines
  BY PushType, PopType, PushaType, PopaType, PushfType, PopfType, CallType, RetType,
     EnterType, LeaveType DEF Handled

LEMMA NextType ==
  ASSUME TypeOK, [Next]_vars
  PROVE  TypeOK'
<1>1. CASE UNCHANGED vars BY <1>1 DEF vars, TypeOK
<1>2. CASE Next
  <2>1. Ready /\ steps < MaxSteps BY <1>2, StepIs DEF Ready
  <2>2. PICK i \in Instrs : \E m : Handled(i, m) /\ Execute(i, m) /\ flags' = NextFlags(i, m)
    BY <1>2, StepIs
  <2>3. PICK m : Handled(i, m) /\ Execute(i, m) /\ flags' = NextFlags(i, m) BY <2>2
  <2>4. m \in Machines BY <2>1, <2>3, HandledType
  <2>5. flags' \in Address
    <3>1. CASE i.op = "popf" /\ m.result = "Ok"
      <4>1. m = Popf BY <2>3, <3>1 DEF Handled
      <4>2. Word(m.popped[1], 2) BY <2>1, <3>1, <4>1, PopfType
      <4>3. 2 \in {1, 2} OBVIOUS
      <4>4. Number(m.popped[1]) \in Address BY <4>2, <4>3, NumberIs
      <4>5. Stored(Number(m.popped[1])) \in Address BY <4>4, StoredIs
      <4> QED BY <2>3, <3>1, <4>5 DEF NextFlags
    <3>2. CASE ~ (i.op = "popf" /\ m.result = "Ok")
      BY <2>1, <2>3, <3>2 DEF NextFlags, Ready, TypeOK
    <3> QED BY <3>1, <3>2
  <2> QED BY <2>1, <2>3, <2>4, <2>5, ExecuteType
<1> QED BY <1>1, <1>2

(* Registers and the instruction pointer wrap, memory holds half words at  *)
(* the addresses there are, and what popf loads fits in a register: a      *)
(* logic function leaves no other machine, wherever it breaks off.         *)
THEOREM TypeCorrect == Spec => []TypeOK
<1>1. Init => TypeOK BY InitType
<1>2. TypeOK /\ [Next]_vars => TypeOK' BY NextType
<1> QED BY <1>1, <1>2, PTL DEF Spec

-----------------------------------------------------------------------------
(* The stack that memory holds from address e to the one below b           *)

StackOf(e, M, b) == [k \in 1 .. (IF e < b THEN b - e ELSE 0) |-> M[e + k - 1]]
Held(e, M, b) ==
  e \in Address /\ b \in Address /\ e <= b /\ M \in [Address -> HalfWords]

LEMMA StackOfIs ==
  ASSUME NEW e, NEW M, NEW b, Held(e, M, b)
  PROVE  /\ e \in Nat /\ b \in Nat /\ b - e \in Nat
         /\ StackOf(e, M, b) \in Seq(HalfWords) /\ Len(StackOf(e, M, b)) = b - e
         /\ DOMAIN StackOf(e, M, b) = 1 .. b - e
         /\ \A k \in 1 .. b - e : StackOf(e, M, b)[k] = M[e + k - 1] /\ e + k - 1 \in Address
<1>1. e \in Nat /\ b \in Nat /\ e <= b /\ b < Space /\ Space \in Nat
  BY AddressIs, Spaces DEF Held
<1> DEFINE n == b - e
           s == [k \in 1 .. n |-> M[e + k - 1]]
<1>2. n \in Nat /\ n = (IF e < b THEN b - e ELSE 0) BY <1>1
<1>3. StackOf(e, M, b) = s BY <1>2, Zenon DEF StackOf
<1>4. ASSUME NEW k \in 1 .. n PROVE e + k - 1 \in Address /\ M[e + k - 1] \in HalfWords
  <2>1. e + k - 1 \in 0 .. Space - 1 BY <1>1
  <2>2. e + k - 1 \in Address BY <2>1 DEF Address
  <2> QED BY <2>2 DEF Held
<1> HIDE DEF n
<1>5. s \in [1 .. n -> HalfWords] BY <1>4
<1>6. DOMAIN s = 1 .. n /\ \A k \in 1 .. n : s[k] = M[e + k - 1] OBVIOUS
<1> HIDE DEF s
<1>7. s \in Seq(HalfWords) /\ Len(s) = n BY <1>2, <1>5
<1> QED BY <1>1, <1>2, <1>3, <1>4, <1>6, <1>7 DEF n

(* Two sequences are equal if they have the same length and elements.      *)
LEMMA SameSequence ==
  ASSUME NEW S, NEW s \in Seq(S), NEW t \in Seq(S), Len(s) = Len(t),
         \A k \in 1 .. Len(s) : s[k] = t[k]
  PROVE  s = t
  OBVIOUS

(* A part of it.                                                           *)
IsPart(p, M, a, n) ==
  p \in Seq(HalfWords) /\ Len(p) = n /\ \A k \in 1 .. n : p[k] = M[a + k - 1]
HasPart(e, M, b, j, n) == Held(e, M, b) /\ j \in Nat /\ n \in Nat /\ j + n <= b - e

LEMMA PartOfStack ==
  ASSUME NEW e, NEW M, NEW b, NEW j, NEW n, HasPart(e, M, b, j, n)
  PROVE  IsPart(SubSeq(StackOf(e, M, b), j + 1, j + n), M, e + j, n)
<1>4. Held(e, M, b) /\ j \in Nat /\ n \in Nat /\ j + n <= b - e BY DEF HasPart
<1> DEFINE s == StackOf(e, M, b)
<1>1. /\ s \in Seq(HalfWords) /\ Len(s) = b - e /\ e \in Nat /\ b - e \in Nat
      /\ \A k \in 1 .. b - e : s[k] = M[e + k - 1]
  BY <1>4, StackOfIs
<1> DEFINE p == SubSeq(s, j + 1, j + n)
<1> HIDE DEF s
<1>2. p \in Seq(HalfWords) /\ Len(p) = n BY <1>1, <1>4
<1>3. ASSUME NEW k \in 1 .. n PROVE p[k] = M[(e + j) + k - 1]
  <2>1. p[k] = s[j + k] BY <1>1, <1>4
  <2>2. j + k \in 1 .. b - e BY <1>1, <1>4
  <2>3. s[j + k] = M[e + (j + k) - 1] BY <1>1, <2>2
  <2>4. e + (j + k) - 1 = (e + j) + k - 1 BY <1>1, <1>4
  <2> QED BY <2>1, <2>3, <2>4
<1> HIDE DEF p
<1>5. IsPart(p, M, e + j, n) BY <1>2, <1>3 DEF IsPart
<1> QED BY <1>5 DEF s, p

(* What is left of it when n half words are taken off.                     *)
LEMMA RestOfStack ==
  ASSUME NEW e, NEW M, NEW b, Held(e, M, b), NEW n \in Nat, n <= b - e
  PROVE  /\ Held(e + n, M, b)
         /\ SubSeq(StackOf(e, M, b), n + 1, Len(StackOf(e, M, b))) = StackOf(e + n, M, b)
<1>1. e \in Nat /\ b \in Nat /\ b - e \in Nat /\ Len(StackOf(e, M, b)) = b - e BY StackOfIs
<1>2. Held(e + n, M, b)
  <2>1. e + n \in Nat /\ e + n <= b /\ b < Space BY <1>1, AddressIs DEF Held
  <2>2. e + n \in Address BY <2>1, <1>1, Spaces DEF Address
  <2> QED BY <2>1, <2>2 DEF Held
<1> DEFINE m == (b - e) - n
           p == SubSeq(StackOf(e, M, b), n + 1, n + m)
           q == StackOf(e + n, M, b)
<1>3. m \in Nat /\ n + m = b - e /\ b - (e + n) = m BY <1>1
<1> HIDE DEF m
<1>4. /\ p \in Seq(HalfWords) /\ Len(p) = m /\ \A k \in 1 .. m : p[k] = M[(e + n) + k - 1]
  <2>1. HasPart(e, M, b, n, m) BY <1>1, <1>3 DEF HasPart
  <2>2. IsPart(p, M, e + n, m) BY <2>1, PartOfStack
  <2> QED BY <2>2 DEF IsPart
<1>5. q \in Seq(HalfWords) /\ Len(q) = b - (e + n)
      /\ \A k \in 1 .. b - (e + n) : q[k] = M[(e + n) + k - 1]
  BY <1>2, StackOfIs
<1> HIDE DEF p, q
<1>6. p = q
  <2>1. \A k \in 1 .. m : p[k] = q[k] BY <1>3, <1>4, <1>5
  <2> QED BY <1>3, <1>4, <1>5, <2>1, SameSequence
<1> QED BY <1>1, <1>2, <1>3, <1>6 DEF p, q

(* What is on it is the same where memory is.                              *)
Agree(M, N, e) == \A y \in Address : y >= e => N[y] = M[y]

LEMMA AgreedStack ==
  ASSUME NEW e, NEW M, NEW N, NEW b, Held(e, M, b), Held(e, N, b), Agree(M, N, e)
  PROVE  StackOf(e, N, b) = StackOf(e, M, b)
<1> DEFINE s == StackOf(e, M, b)
           t == StackOf(e, N, b)
<1>1. /\ s \in Seq(HalfWords) /\ Len(s) = b - e /\ e \in Nat /\ b - e \in Nat
      /\ \A k \in 1 .. b - e : s[k] = M[e + k - 1] /\ e + k - 1 \in Address
  BY StackOfIs
<1>2. /\ t \in Seq(HalfWords) /\ Len(t) = b - e
      /\ \A k \in 1 .. b - e : t[k] = N[e + k - 1]
  BY StackOfIs
<1> HIDE DEF s, t
<1>3. ASSUME NEW k \in 1 .. b - e PROVE s[k] = t[k]
  <2>1. e + k - 1 >= e /\ e + k - 1 \in Address BY <1>1
  <2> QED BY <1>1, <1>2, <2>1 DEF Agree
<1>4. s = t BY <1>1, <1>2, <1>3, SameSequence
<1> QED BY <1>4 DEF s, t

(* Half words stored below it are pushed on it.                            *)
StoredAt(N, a, c) == \A j \in 1 .. Len(c) : N[a + j - 1] = c[j]

Above(e, M, N, b, n, c) ==
  /\ n \in Nat /\ c \in Seq(HalfWords) /\ Len(c) = n
  /\ Held(e, M, b) /\ Held(e - n, N, b) /\ Agree(M, N, e) /\ StoredAt(N, e - n, c)

LEMMA PushedStack ==
  ASSUME NEW e, NEW M, NEW N, NEW b, NEW n, NEW c, Above(e, M, N, b, n, c)
  PROVE  /\ StackOf(e - n, N, b) = c \o StackOf(e, M, b)
         /\ SubSeq(StackOf(e - n, N, b), 1, n) = c
<1> DEFINE f == e - n
           s == StackOf(e, M, b)
           t == StackOf(f, N, b)
           u == c \o s
<1>13. /\ n \in Nat /\ c \in Seq(HalfWords) /\ Len(c) = n
      /\ Held(e, M, b) /\ Held(e - n, N, b) /\ Agree(M, N, e) /\ StoredAt(N, e - n, c)
  BY DEF Above
<1>14. n \in Nat /\ c \in Seq(HalfWords) /\ Len(c) = n BY <1>13
<1>0. e \in Int BY <1>13, StackOfIs
<1>1. /\ s \in Seq(HalfWords) /\ Len(s) = b - e /\ e \in Nat /\ b \in Nat /\ b - e \in Nat
      /\ \A k \in 1 .. b - e : s[k] = M[e + k - 1] /\ e + k - 1 \in Address
  BY <1>13, StackOfIs
<1>3. f \in Int /\ f + n = e BY <1>0, <1>13
<1> HIDE DEF f
<1>4. Held(f, N, b) /\ StoredAt(N, f, c) BY <1>13 DEF f
<1>2. /\ t \in Seq(HalfWords) /\ Len(t) = b - f /\ f \in Nat /\ b - f \in Nat
      /\ \A k \in 1 .. b - f : t[k] = N[f + k - 1]
  BY <1>4, StackOfIs
<1> HIDE DEF s, t
<1>15. c \in Seq(HalfWords) /\ s \in Seq(HalfWords) BY <1>14, <1>1
<1>16. Len(c) = n /\ Len(s) = b - e BY <1>14, <1>1
<1>5. u \in Seq(HalfWords) /\ Len(u) = n + (b - e)
  <2>1. u \in Seq(HalfWords) /\ Len(u) = Len(c) + Len(s) BY <1>15
  <2> QED BY <1>16, <2>1
<1>6. Len(u) = Len(t) BY <1>14, <1>1, <1>2, <1>3, <1>5
<1>7. \A k \in 1 .. n : u[k] = c[k] BY <1>13, <1>1
<1>8. \A k \in 1 .. b - e : u[n + k] = s[k]
  <2>1. \A k \in 1 .. Len(s) : u[Len(c) + k] = s[k] BY <1>15
  <2> QED BY <1>16, <2>1
<1> HIDE DEF u
<1>9. ASSUME NEW k \in 1 .. n PROVE t[k] = c[k]
  <2>1. k \in 1 .. b - f BY <1>13, <1>1, <1>3
  <2>2. t[k] = N[f + k - 1] BY <1>2, <2>1
  <2> QED BY <1>4, <1>13, <2>2 DEF StoredAt
<1>10. ASSUME NEW k \in 1 .. Len(t) PROVE t[k] = u[k]
  <2>1. CASE k <= n BY <1>13, <1>7, <1>9, <2>1
  <2>2. CASE ~ (k <= n)
    <3>0. n \in Nat BY <1>13
    <3> DEFINE j == k - n
    <3>1. k = n + j /\ j \in 1 .. b - e BY <1>13, <1>1, <1>2, <1>3, <2>2
    <3>2. k \in 1 .. b - f BY <1>2
    <3>3. f + k - 1 = e + j - 1 BY <1>13, <1>1, <1>3
    <3> HIDE DEF j
    <3>4. t[k] = N[e + j - 1] BY <1>2, <3>2, <3>3
    <3>5. e + j - 1 \in Address /\ e + j - 1 >= e /\ s[j] = M[e + j - 1] BY <1>1, <3>1
    <3>6. N[e + j - 1] = M[e + j - 1] BY <1>13, <3>5 DEF Agree
    <3>7. u[k] = s[j] BY <1>8, <3>1
    <3> QED BY <3>4, <3>5, <3>6, <3>7
  <2> QED BY <2>1, <2>2
<1>11. t = u BY <1>13, <1>2, <1>5, <1>6, <1>10, SameSequence
<1>12. SubSeq(t, 1, n) = c
  <2> DEFINE p == SubSeq(t, 1, n)
  <2>1. n <= b - f BY <1>13, <1>1, <1>3
  <2>2. p \in Seq(HalfWords) /\ Len(p) = n /\ \A k \in 1 .. n : p[k] = t[k]
    BY <1>13, <1>2, <2>1
  <2> HIDE DEF p
  <2>3. p = c BY <1>13, <1>9, <2>2, SameSequence
  <2> QED BY <2>3 DEF p
<1> QED BY <1>11, <1>12 DEF f, s, t, u

-----------------------------------------------------------------------------
(* What pushes and pops that succeed have done                             *)

(* p is x with c pushed on it.                                             *)
Grown(p, x, c, w) ==
  LET e == x.regs["esp"]
  IN  /\ p.regs["esp"] = e - w /\ e - w >= WriteableMemory /\ e \in Nat
      /\ \A j \in 1 .. w : p.mem[e - w + j - 1] = c[j]
      /\ \A y \in Address : y < e - w \/ y >= e => p.mem[y] = x.mem[y]

LEMMA PushSucceeds ==
  ASSUME TopUnmapped, NEW x \in Machines, NEW w \in {1, 2}, NEW c,
         CanPush(x, c, w, w), PushStack(x, c, w).result = "Ok"
  PROVE  Grown(PushStack(x, c, w), x, c, w)
<1> DEFINE p == PushStack(x, c, w)
           e == x.regs["esp"]
           a == Wrap(e - w)
<1>1. Pushed(p, x, c, w, w) BY PushStackIs
<1>2. Word(c, w) BY DEF CanPush
<1>3. /\ p \in Machines /\ p.regs = [x.regs EXCEPT !["esp"] = a] /\ a \in Address
      /\ a >= WriteableMemory /\ Readable(a, w) /\ Stores(p.mem, x.mem, a, c)
  BY <1>1 DEF Pushed
<1>4. e \in Address /\ p.regs["esp"] = a BY <1>3, Pointers DEF Machines
<1>5. e \in Nat /\ e < Space /\ Space \in Nat /\ Space >= 4 BY <1>4, AddressIs, Spaces
<1>6. e >= w
  <2> SUFFICES ASSUME ~ (e >= w) PROVE FALSE OBVIOUS
  <2> HIDE DEF e, a
  <2>1. e - w \in Int /\ (e - w) + Space \in 0 .. Space - 1 BY <1>5
  <2>2. (e - w) % Space = (e - w) + Space
    <3> DEFINE r == (e - w) + Space
    <3>1. r \in 0 .. Space - 1 /\ Space \in Nat \ {0} /\ -1 \in Int BY <1>5, <2>1
    <3>2. e - w = Space * (-1) + r BY <1>5
    <3> HIDE DEF r
    <3>3. (Space * (-1) + r) % Space = r BY <3>1, RemainderOfSum
    <3> QED BY <3>2, <3>3 DEF r
  <2>3. a = (e - w) + Space BY <2>2 DEF Wrap, a
  <2>4. PICK s \in Sections : a .. a + w - 1 \subseteq s BY <1>3 DEF Readable
  <2>5. Space - 1 \in a .. a + w - 1 BY <1>5, <2>3
  <2> QED BY <2>4, <2>5 DEF TopUnmapped
<1>7. a = e - w
  <2> HIDE DEF e
  <2>1. e - w \in 0 .. Space - 1 BY <1>5, <1>6
  <2>2. e - w \in Address BY <2>1 DEF Address
  <2> QED BY <2>2, WrapSame
<1> HIDE DEF p, e, a
<1>8. DOMAIN c = 1 .. w /\ Len(c) = w BY <1>2 DEF Word
<1>9. \A y \in Address : p.mem[y] = IF y - a + 1 \in 1 .. w THEN c[y - a + 1] ELSE x.mem[y]
  BY <1>3, <1>8 DEF Stores
<1>10. ASSUME NEW j \in 1 .. w PROVE p.mem[a + j - 1] = c[j]
  <2>1. a + j - 1 \in 0 .. Space - 1 BY <1>5, <1>6, <1>7
  <2>2. a + j - 1 \in Address /\ (a + j - 1) - a + 1 = j
    BY <1>5, <1>7, <2>1 DEF Address
  <2> QED BY <1>9, <2>2
<1>11. ASSUME NEW y \in Address, y < a \/ y >= e PROVE p.mem[y] = x.mem[y]
  <2>1. y \in Int BY AddressIs
  <2>2. y - a + 1 \notin 1 .. w BY <1>5, <1>7, <1>11, <2>1
  <2> QED BY <1>9, <2>2
<1>12. a >= WriteableMemory BY <1>3
<1> QED BY <1>4, <1>5, <1>7, <1>10, <1>11, <1>12 DEF Grown, e, p

(* A push that fails, or succeeds below e, changes nothing from e on.      *)
LEMMA PushKeeps ==
  ASSUME TopUnmapped, NEW x \in Machines, NEW w \in {1, 2}, NEW k \in {1, 2}, NEW c,
         CanPush(x, c, w, k), w <= k, NEW e \in Address, x.regs["esp"] <= e
  PROVE  LET p == PushStack(x, c, w)
         IN  /\ p \in Machines /\ Agree(x.mem, p.mem, e)
             /\ \A r \in Regs \ {"esp"} : p.regs[r] = x.regs[r]
             /\ p.result = "Ok" => p.regs["esp"] <= e /\ k = w
<1> DEFINE p == PushStack(x, c, w)
<1>1. Pushed(p, x, c, w, k) BY PushStackIs
<1>2. /\ p \in Machines /\ p.regs = [x.regs EXCEPT !["esp"] = Wrap(x.regs["esp"] - w)]
      /\ p.result # "Ok" => p.mem = x.mem
      /\ p.result = "Ok" => k <= w /\ Stores(p.mem, x.mem, Wrap(x.regs["esp"] - w), c)
                                   /\ Wrap(x.regs["esp"] - w) \in Address
  BY <1>1 DEF Pushed
<1>3. x.regs["esp"] \in Address /\ x.regs["esp"] \in Int /\ e \in Int
  BY Pointers, AddressIs DEF Machines
<1>4. \A r \in Regs \ {"esp"} : p.regs[r] = x.regs[r]
  <2> HIDE DEF p
  <2> QED BY <1>2 DEF Machines
<1>5. CASE p.result # "Ok" BY <1>2, <1>4, <1>5 DEF Agree
<1>6. CASE p.result = "Ok" /\ k = w
  <2>1. CanPush(x, c, w, w) BY <1>6
  <2>2. Grown(p, x, c, w) BY <1>6, <2>1, PushSucceeds
  <2> HIDE DEF p
  <2>3. p.regs["esp"] = x.regs["esp"] - w /\ Agree(x.mem, p.mem, e)
    <3>1. p.regs["esp"] = x.regs["esp"] - w BY <2>2 DEF Grown
    <3>2. ASSUME NEW y \in Address, y >= e PROVE p.mem[y] = x.mem[y]
      <4>1. y >= x.regs["esp"] BY <1>3, <3>2, AddressIs
      <4> QED BY <2>2, <4>1 DEF Grown
    <3> QED BY <3>1, <3>2 DEF Agree
  <2>4. p.regs["esp"] <= e BY <1>3, <2>3
  <2> QED BY <1>2, <1>4, <2>3, <2>4 DEF p
<1>7. p.result = "Ok" => k = w BY <1>2
<1> QED BY <1>5, <1>6, <1>7

LEMMA Widths ==
  ASSUME NEW w \in {1, 2}, NEW j \in Nat, NEW q \in Nat
  PROVE  /\ j * w \in Nat /\ q * w \in Nat /\ (q + 1) * w = q * w + w
         /\ j <= q => j * w <= q * w
         /\ j < q => j * w + w <= q * w
         /\ 0 * w = 0 /\ q <= q * w
<1>1. CASE w = 1 BY <1>1
<1>2. CASE w = 2 BY <1>2
<1> QED BY <1>1, <1>2

(* x after the first q values were pushed, when esp was e before.          *)
Filled(x, e, values, q, w) ==
  /\ x.regs["esp"] = e - q * w /\ q * w <= e
  /\ \A j \in 1 .. q : \A l \in 1 .. w : x.mem[(e - j * w) + l - 1] = values[j][l]

CanPushAll(m, values, n, w, k) ==
  /\ DOMAIN values = 1 .. n /\ n \in Nat /\ \A j \in 1 .. n : Word(values[j], k)
  /\ w \in {1, 2} /\ k \in {1, 2} /\ w <= k /\ m \in Machines

LEMMA PushAllIs ==
  ASSUME TopUnmapped, NEW m, NEW values, NEW n, NEW w, NEW k, CanPushAll(m, values, n, w, k)
  PROVE  LET p == PushAll(m, values, w)
             e == m.regs["esp"]
         IN  /\ p \in Machines /\ Agree(m.mem, p.mem, e)
             /\ \A r \in Regs \ {"esp"} : p.regs[r] = m.regs[r]
             /\ p.result = "Ok" => p.regs["esp"] <= e /\ Filled(p, e, values, n, w)
<1> DEFINE e == m.regs["esp"]
           V == {x \in Machines : /\ Agree(m.mem, x.mem, e)
                                  /\ \A r \in Regs \ {"esp"} : x.regs[r] = m.regs[r]
                                  /\ x.result = "Ok" => x.regs["esp"] <= e}
<1>0. /\ DOMAIN values = 1 .. n /\ n \in Nat /\ \A j \in 1 .. n : Word(values[j], k)
      /\ w \in {1, 2} /\ k \in {1, 2} /\ w <= k /\ m \in Machines
  BY DEF CanPushAll
<1>1. e \in Address /\ e \in Nat /\ e < Space /\ Space \in Nat
  BY <1>0, Pointers, AddressIs, Spaces DEF Machines
<1>2. m \in V BY <1>0, <1>1 DEF Agree
<1>3. ASSUME NEW x \in V, NEW j \in 1 .. n, x.result = "Ok"
      PROVE  /\ CanPush(x, values[j], w, k) /\ x \in Machines
             /\ PushStack(x, values[j], w) \in V
             /\ PushStack(x, values[j], w).result = "Ok" => k = w
  <2> DEFINE c == values[j]
             p == PushStack(x, c, w)
  <2>1. x \in Machines /\ CanPush(x, c, w, k) BY <1>0, <1>3 DEF CanPush
  <2>2. Agree(m.mem, x.mem, e) /\ (\A r \in Regs \ {"esp"} : x.regs[r] = m.regs[r])
        /\ x.regs["esp"] <= e
    BY <1>3
  <2> HIDE DEF V, c, e
  <2>3. /\ p \in Machines /\ Agree(x.mem, p.mem, e)
        /\ \A r \in Regs \ {"esp"} : p.regs[r] = x.regs[r]
        /\ p.result = "Ok" => p.regs["esp"] <= e /\ k = w
    BY <1>0, <1>1, <2>1, <2>2, PushKeeps
  <2> HIDE DEF p
  <2>4. Agree(m.mem, p.mem, e) BY <2>2, <2>3 DEF Agree
  <2>5. p \in V BY <2>2, <2>3, <2>4 DEF V
  <2> QED BY <2>1, <2>3, <2>5 DEF p, c
<1> HIDE DEF V
<1>4. PushesIn(V, values, n, w) BY <1>3 DEF PushesIn
<1>5. PICK R \in [0 .. n -> V] : PushRun(R, m, values, n, w) /\ PushAll(m, values, w) = R[n]
  BY <1>0, <1>2, <1>4, PushAllSteps
<1> DEFINE T == {q \in Nat : q <= n /\ R[q].result = "Ok" => Filled(R[q], e, values, q, w)}
<1>6. 0 \in T
  <2>1. 0 * w = 0 BY <1>0, Widths
  <2>2. R[0] = m BY <1>5 DEF PushRun
  <2>3. m.regs["esp"] = e /\ e = e - 0 * w /\ 0 * w <= e BY <1>1, <2>1
  <2> HIDE DEF e
  <2>4. Filled(m, e, values, 0, w) BY <2>3 DEF Filled
  <2> QED BY <2>2, <2>4
<1>7. ASSUME NEW q \in T PROVE q + 1 \in T
  <2> SUFFICES ASSUME q + 1 <= n, R[q + 1].result = "Ok"
               PROVE  Filled(R[q + 1], e, values, q + 1, w)
    OBVIOUS
  <2> DEFINE x == R[q]
             p == R[q + 1]
             c == values[q + 1]
  <2>1. q + 1 \in 1 .. n /\ (q + 1) - 1 = q /\ q \in 0 .. n BY <1>0
  <2>2. p = IF x.result = "Ok" THEN PushStack(x, c, w) ELSE x BY <1>5, <2>1 DEF PushRun
  <2>3. x.result = "Ok" /\ p = PushStack(x, c, w) BY <2>2
  <2>4. x \in V BY <2>1
  <2>5. Filled(x, e, values, q, w) BY <1>0, <2>1, <2>3
  <2> HIDE DEF x, p, e
  <2>6. CanPush(x, c, w, k) /\ x \in Machines /\ k = w
    BY <1>3, <2>1, <2>3, <2>4 DEF p
  <2> HIDE DEF c
  <2>7. Grown(p, x, c, w)
    <3>1. CanPush(x, c, w, w) /\ PushStack(x, c, w).result = "Ok" BY <2>3, <2>6 DEF p
    <3>2. Grown(PushStack(x, c, w), x, c, w) BY <1>0, <2>6, <3>1, PushSucceeds
    <3> QED BY <2>3, <3>2
  <2> DEFINE s == q * w
             t == (q + 1) * w
  <2>8. s \in Nat /\ t = s + w BY <1>0, Widths
  <2>9. x.regs["esp"] = e - s /\ s <= e BY <2>5 DEF Filled
  <2>10. WriteableMemory \in Nat BY Pointers, AddressIs
  <2>11. /\ p.regs["esp"] = (e - s) - w /\ (e - s) - w >= WriteableMemory
         /\ \A l \in 1 .. w : p.mem[(e - s) - w + l - 1] = c[l]
         /\ \A y \in Address : y >= e - s => p.mem[y] = x.mem[y]
    BY <2>7, <2>9 DEF Grown
  <2>12. p.regs["esp"] = e - t /\ t <= e
    <3> HIDE DEF s, t
    <3>1. w \in Nat /\ e \in Nat BY <1>0, <1>1
    <3>2. (e - s) - w >= WriteableMemory /\ p.regs["esp"] = (e - s) - w BY <2>11
    <3>3. (e - s) - w = e - t BY <2>8, <3>1
    <3>4. t <= e BY <2>8, <2>10, <3>1, <3>2
    <3> QED BY <3>2, <3>3, <3>4
  <2>13. ASSUME NEW j \in 1 .. q + 1, NEW l \in 1 .. w
         PROVE  p.mem[(e - j * w) + l - 1] = values[j][l]
    <3>1. CASE j = q + 1
      <4>1. j * w = t BY <3>1
      <4> HIDE DEF s, t
      <4>2. (e - t) + l - 1 = (e - s) - w + l - 1 BY <1>0, <1>1, <2>8
      <4>3. p.mem[(e - t) + l - 1] = c[l] BY <2>11, <4>2
      <4> QED BY <3>1, <4>1, <4>3 DEF c
    <3>2. CASE j # q + 1
      <4> DEFINE o == j * w
                 y == (e - o) + l - 1
      <4>1. j \in 1 .. q /\ j \in Nat BY <3>2
      <4>2. o \in Nat /\ o <= s /\ j <= o BY <1>0, <4>1, Widths
      <4>3. w <= o
        <5>1. 0 * w + w <= j * w /\ 0 * w = 0
          <6>1. 0 \in Nat /\ 0 < j OBVIOUS
          <6>2. 0 * w + w <= j * w BY <1>0, <4>1, <6>1, Widths
          <6> QED BY <1>0, <6>2
        <5> QED BY <1>0, <5>1
      <4>4. x.mem[y] = values[j][l] BY <2>5, <4>1 DEF Filled
      <4> HIDE DEF s, t, o
      <4>5. y \in 0 .. Space - 1 /\ y >= e - s
        <5>1. e - o >= e - s /\ e - o \in Int BY <1>1, <2>8, <2>9, <4>2
        <5> DEFINE b == e - o
        <5>2. /\ b \in Int /\ b >= 0 /\ b + w <= e /\ b >= e - s
              /\ w \in 1 .. 2 /\ e \in 0 .. Space - 1 /\ Space \in Nat
          BY <1>0, <1>1, <2>8, <2>9, <4>2, <4>3, <5>1
        <5>3. l \in 1 .. w /\ e - s \in Int BY <1>1, <2>8
        <5> HIDE DEF b
        <5>4. b + l - 1 >= b /\ b + l - 1 < e /\ b + l - 1 \in Int BY <5>2, <5>3
        <5>5. y = b + l - 1 BY DEF b
        <5> QED BY <5>2, <5>3, <5>4, <5>5
      <4>6. p.mem[y] = x.mem[y] BY <2>11, <4>5 DEF Address
      <4> QED BY <4>4, <4>6 DEF o
    <3> QED BY <3>1, <3>2
  <2>14. Filled(p, e, values, q + 1, w) BY <2>12, <2>13 DEF Filled
  <2> QED BY <2>14 DEF p
<1>8. T = Nat
  <2>1. T \in SUBSET Nat OBVIOUS
  <2> HIDE DEF T
  <2> QED BY <1>6, <1>7, <2>1, Induction
<1>9. R[n].result = "Ok" => Filled(R[n], e, values, n, w) BY <1>0, <1>8
<1>10. R[n] \in V BY <1>0
<1> QED BY <1>5, <1>9, <1>10 DEF V

(* x after q values were popped, when esp was e before.                    *)
Emptied(x, M, e, q, w) ==
  /\ x.regs["esp"] = e + q * w /\ Len(x.popped) = q
  /\ \A j \in 1 .. q : \A l \in 1 .. w :
       x.popped[j][l] = M[(e + (j - 1) * w) + l - 1]

CanPopAll(m, n, w) ==
  /\ m \in Machines /\ CanPop(m, w) /\ m.popped = <<>> /\ n \in Nat
  /\ m.regs["esp"] + n * w < Space

LEMMA PopAllIs ==
  ASSUME NEW m, NEW n, NEW w, CanPopAll(m, n, w), PopAll(m, n, w).result = "Ok"
  PROVE  Emptied(PopAll(m, n, w), m.mem, m.regs["esp"], n, w)
<1> DEFINE e == m.regs["esp"]
           V == {x \in Machines : x.mem = m.mem}
<1>0. /\ m \in Machines /\ m.result = "Ok" /\ w \in {1, 2} /\ m.popped = <<>> /\ n \in Nat
      /\ e + n * w < Space
  BY DEF CanPopAll, CanPop
<1>1. e \in Nat /\ e < Space /\ Space \in Nat
  <2>1. e \in Address BY <1>0, Pointers DEF Machines
  <2> HIDE DEF e
  <2> QED BY <2>1, AddressIs, Spaces
<1>2. m \in V BY <1>0
<1>3. ASSUME NEW x \in V, x.result = "Ok"
      PROVE  Popped(PopStack(x, w), x, w) /\ x.mem = m.mem /\ PopStack(x, w) \in V
  <2>1. x \in Machines /\ CanPop(x, w) /\ x.mem = m.mem BY <1>0, <1>3 DEF CanPop
  <2>2. Popped(PopStack(x, w), x, w) BY <1>0, <2>1, PopStackIs
  <2>3. PopStack(x, w) \in Machines /\ PopStack(x, w).mem = x.mem BY <2>2 DEF Popped
  <2> QED BY <2>1, <2>2, <2>3
<1> HIDE DEF V, e
<1>4. PopsIn(V, w) BY <1>3 DEF PopsIn
<1>5. PICK R \in [0 .. n -> V] : PopRun(R, m, n, w) /\ PopAll(m, n, w) = R[n]
  BY <1>0, <1>2, <1>4, PopAllSteps
<1> DEFINE T == {q \in Nat : q <= n /\ R[q].result = "Ok" => Emptied(R[q], m.mem, e, q, w)}
<1>6. 0 \in T
  <2>1. 0 * w = 0 BY <1>0, Widths
  <2>2. R[0] = m BY <1>5 DEF PopRun
  <2>3. m.regs["esp"] = e + 0 * w BY <1>1, <2>1 DEF e
  <2>4. Len(m.popped) = 0 BY <1>0
  <2>5. Emptied(m, m.mem, e, 0, w) BY <2>3, <2>4 DEF Emptied
  <2> QED BY <2>2, <2>5
<1>7. ASSUME NEW q \in T PROVE q + 1 \in T
  <2> SUFFICES ASSUME q + 1 <= n, R[q + 1].result = "Ok"
               PROVE  Emptied(R[q + 1], m.mem, e, q + 1, w)
    OBVIOUS
  <2> DEFINE x == R[q]
             p == R[q + 1]
             s == q * w
             t == (q + 1) * w
             l == Loaded(x, e + s, w)
  <2>1. q + 1 \in 1 .. n /\ (q + 1) - 1 = q /\ q \in 0 .. n BY <1>0
  <2>2. p = IF x.result = "Ok" THEN PopStack(x, w) ELSE x BY <1>5, <2>1 DEF PopRun
  <2>3. x.result = "Ok" /\ p = PopStack(x, w) /\ p.result = "Ok" BY <2>2
  <2>4. x \in V BY <2>1
  <2>5. Emptied(x, m.mem, e, q, w) BY <1>0, <2>1, <2>3
  <2> HIDE DEF x, p
  <2>6. Popped(p, x, w) /\ x.mem = m.mem BY <1>3, <2>3, <2>4
  <2>7. x \in Machines BY <2>4 DEF V
  <2>8. s \in Nat /\ t = s + w /\ e + t < Space
    <3>1. s \in Nat /\ t = s + w BY <1>0, Widths
    <3>2. n * w \in Nat /\ t <= n * w /\ t \in Nat
      <4>1. q + 1 \in Nat /\ n \in Nat /\ q + 1 <= n BY <1>0
      <4> QED BY <1>0, <4>1, Widths
    <3> HIDE DEF s, t
    <3> DEFINE u == n * w
    <3>3. e + u < Space /\ u \in Nat /\ t <= u BY <1>0, <3>2
    <3> HIDE DEF u
    <3> QED BY <1>1, <3>1, <3>2, <3>3
  <2>9. x.regs["esp"] = e + s /\ Len(x.popped) = q BY <2>5 DEF Emptied
  <2>10. /\ p \in Machines /\ p.regs = [x.regs EXCEPT !["esp"] = Wrap((e + s) + w)]
         /\ p.popped = Append(x.popped, l) /\ Word(l, w)
    BY <2>3, <2>6, <2>9 DEF Popped
  <2>11. p.regs["esp"] = e + t
    <3>1. p.regs["esp"] = Wrap((e + s) + w) BY <2>7, <2>10, Pointers DEF Machines
    <3> HIDE DEF s, t
    <3>2. w \in Nat BY <1>0
    <3>3. (e + s) + w = e + t /\ e + t \in 0 .. Space - 1 BY <1>1, <2>8, <3>2
    <3>4. Wrap(e + t) = e + t BY <3>3, WrapSame DEF Address
    <3> QED BY <3>1, <3>3, <3>4
  <2>12. /\ Len(p.popped) = q + 1 /\ p.popped[q + 1] = l
         /\ \A j \in 1 .. q : p.popped[j] = x.popped[j]
    <3>1. x.popped \in Seq(Words) /\ l \in Words BY <1>0, <2>7, <2>10 DEF Machines, Words, Word
    <3> HIDE DEF l
    <3> QED BY <2>9, <2>10, <3>1
  <2>13. ASSUME NEW j \in 1 .. q + 1, NEW k \in 1 .. w
         PROVE  p.popped[j][k] = m.mem[(e + (j - 1) * w) + k - 1]
    <3>1. CASE j = q + 1
      <4>1. (j - 1) * w = s BY <3>1
      <4>2. l[k] = x.mem[(e + s) + k - 1] BY DEF Loaded
      <4> HIDE DEF s, l
      <4> QED BY <2>6, <2>12, <3>1, <4>1, <4>2
    <3>2. CASE j # q + 1
      <4>1. j \in 1 .. q BY <3>2
      <4> QED BY <2>5, <2>12, <4>1 DEF Emptied
    <3> QED BY <3>1, <3>2
  <2>14. Emptied(p, m.mem, e, q + 1, w) BY <2>11, <2>12, <2>13 DEF Emptied
  <2> QED BY <2>14 DEF p
<1>8. T = Nat
  <2>1. T \in SUBSET Nat OBVIOUS
  <2> HIDE DEF T
  <2> QED BY <1>6, <1>7, <2>1, Induction
<1>9. R[n].result = "Ok" => Emptied(R[n], m.mem, e, n, w) BY <1>0, <1>8
<1> QED BY <1>5, <1>9 DEF e

-----------------------------------------------------------------------------
(* What StackSpec sees of a state and of a step                            *)

IInv == TypeOK /\ regs["esp"] <= base

(* The registers but esp.                                                  *)
Others == [r \in Regs \ {"esp"} |-> regs[r]]

LEMMA SameOperators ==
  /\ \A v, w : Promise!Cells(v, w) = Cells(v, w)
  /\ \A c : Promise!Number(c) = Number(c)
  /\ \A x, c : Promise!Merge(x, c) = Merge(x, c)
  /\ Promise!Space = Space
<1>1. \A c : Promise!Number(c) = Number(c) BY DEF Promise!Number, Number
<1>2. \A v, w : Promise!Cells(v, w) = Cells(v, w) BY DEF Promise!Cells, Cells
<1>3. \A x, c : Promise!Merge(x, c) = Merge(x, c) BY <1>1 DEF Promise!Merge, Merge
<1>4. Promise!Space = Space BY DEF Promise!Space, Space
<1> QED BY <1>1, <1>2, <1>3, <1>4

LEMMA View ==
  ASSUME IInv
  PROVE  /\ Held(regs["esp"], mem, base) /\ OnStack = StackOf(regs["esp"], mem, base)
         /\ regs["esp"] \in Nat /\ base \in Nat /\ Len(OnStack) = base - regs["esp"]
         /\ Promise!Top = regs["esp"]
         /\ \A r \in Regs : Promise!Reg(r) = regs[r]
<1>1. Held(regs["esp"], mem, base)
  BY Pointers DEF IInv, TypeOK, Held, HalfWords
<1>2. OnStack = StackOf(regs["esp"], mem, base) BY Zenon DEF OnStack, StackOf
<1>3. /\ regs["esp"] \in Nat /\ base \in Nat /\ Len(OnStack) = base - regs["esp"]
  BY <1>1, <1>2, StackOfIs
<1>4. Promise!Top = base - Len(OnStack) BY DEF Promise!Top
<1>5. base - (base - regs["esp"]) = regs["esp"] BY <1>3
<1>6. Promise!Top = regs["esp"] BY <1>3, <1>4, <1>5
<1>7. \A r \in Regs : Promise!Reg(r) = regs[r] BY <1>6 DEF Promise!Reg
<1> QED BY <1>1, <1>2, <1>3, <1>6, <1>7

(* A step that executes an instruction and leaves the machine m.           *)
Ran(i, m) ==
  IInv /\ result = "Ok" /\ i \in Instrs /\ m \in Machines /\ Execute(i, m)

LEMMA After ==
  ASSUME NEW i, NEW m, Ran(i, m)
  PROVE  /\ Held(regs'["esp"], mem', base') /\ OnStack' = StackOf(regs'["esp"], mem', base')
         /\ regs'["esp"] \in Nat /\ base' \in Nat /\ Len(OnStack') = base' - regs'["esp"]
         /\ regs' = m.regs /\ mem' = m.mem /\ result' = m.result /\ instr' = i
         /\ regs'["esp"] <= base => base' = base
         /\ base' = IF regs'["esp"] > base THEN regs'["esp"] ELSE base
         /\ regs["esp"] <= base /\ regs["esp"] \in Address /\ base \in Address
         /\ regs' \in [Regs -> Address] /\ Ready
<1>0. /\ IInv /\ result = "Ok" /\ m \in Machines
      /\ regs' = m.regs /\ mem' = m.mem /\ result' = m.result /\ instr' = i
      /\ base' = IF m.regs["esp"] > base THEN m.regs["esp"] ELSE base
  BY DEF Ran, Execute
<1>1. regs' \in [Regs -> Address] /\ mem' \in [Address -> HalfWords] BY <1>0 DEF Machines
<1>2. regs'["esp"] \in Address /\ base \in Address /\ regs["esp"] \in Address
  BY <1>0, <1>1, Pointers DEF IInv, TypeOK
<1>3. base' \in Address /\ base' = IF regs'["esp"] > base THEN regs'["esp"] ELSE base
  BY <1>0, <1>2
<1>4. regs'["esp"] <= base' /\ (regs'["esp"] <= base => base' = base)
  <2>1. regs'["esp"] \in Int /\ base \in Int BY <1>2, AddressIs
  <2> QED BY <1>3, <2>1
<1>5. Held(regs'["esp"], mem', base') BY <1>1, <1>2, <1>3, <1>4 DEF Held
<1>6. OnStack' = StackOf(regs'["esp"], mem', base') BY Zenon DEF OnStack, StackOf
<1>7. /\ regs'["esp"] \in Nat /\ base' \in Nat /\ Len(OnStack') = base' - regs'["esp"]
  BY <1>5, <1>6, StackOfIs
<1> QED BY <1>0, <1>1, <1>2, <1>3, <1>4, <1>5, <1>6, <1>7 DEF Ready, IInv

LEMMA SameOthers ==
  ASSUME NEW i, NEW m, Ran(i, m), \A r \in Regs \ {"esp"} : m.regs[r] = regs[r]
  PROVE  Others' = Others
<1>1. regs' = m.regs BY After
<1> QED BY <1>1 DEF Others

(* A step that leaves what was on the stack where it was has put something *)
(* on it or has taken something off.                                       *)
LEMMA Tails ==
  ASSUME NEW i, NEW m, Ran(i, m), Agree(mem, m.mem, regs["esp"])
  PROVE  Promise!IsTail(OnStack, OnStack') \/ Promise!IsTail(OnStack', OnStack)
<1> DEFINE e == regs["esp"]
           f == regs'["esp"]
           s == OnStack
           t == OnStack'
           N == mem'
<1>0. IInv BY DEF Ran
<1>1. /\ Held(e, mem, base) /\ s = StackOf(e, mem, base) /\ e \in Nat /\ base \in Nat
      /\ Len(s) = base - e
  BY <1>0, View
<1>2. /\ Held(f, N, base') /\ t = StackOf(f, N, base') /\ f \in Nat /\ base' \in Nat
      /\ Len(t) = base' - f /\ N = m.mem
      /\ (f <= base => base' = base) /\ base' = IF f > base THEN f ELSE base
  BY After
<1>3. Agree(mem, N, e) BY <1>2
<1>4. Held(e, N, base) BY <1>1, <1>2 DEF Held
<1>5. StackOf(e, N, base) = s BY <1>1, <1>3, <1>4, AgreedStack
<1> HIDE DEF e, f, s, t, N
<1>6. CASE f <= e
  <2> DEFINE n == e - f
  <2>1. n \in Nat /\ f + n = e /\ base' = base /\ e <= base /\ n <= base - f
    BY <1>1, <1>2, <1>6 DEF Held
  <2>2. Held(f, N, base) /\ t = StackOf(f, N, base) BY <1>2, <2>1
  <2> HIDE DEF n
  <2>3. SubSeq(StackOf(f, N, base), n + 1, Len(StackOf(f, N, base))) = StackOf(f + n, N, base)
    BY <2>1, <2>2, RestOfStack
  <2>4. SubSeq(t, n + 1, Len(t)) = s BY <1>5, <2>1, <2>2, <2>3
  <2>5. Len(t) - Len(s) = n /\ Len(s) <= Len(t) BY <1>1, <1>2, <2>1
  <2>6. Promise!IsTail(s, t) BY <2>4, <2>5 DEF Promise!IsTail, Promise!Drop
  <2> QED BY <2>6 DEF s, t
<1>7. CASE e < f /\ f <= base
  <2> DEFINE n == f - e
  <2>1. n \in Nat /\ e + n = f /\ base' = base /\ n <= base - e BY <1>1, <1>2, <1>7
  <2>2. t = StackOf(f, N, base) BY <1>2, <2>1
  <2> HIDE DEF n
  <2>3. SubSeq(StackOf(e, N, base), n + 1, Len(StackOf(e, N, base))) = StackOf(e + n, N, base)
    BY <1>4, <2>1, RestOfStack
  <2>4. SubSeq(s, n + 1, Len(s)) = t BY <1>5, <2>1, <2>2, <2>3
  <2>5. Len(s) - Len(t) = n /\ Len(t) <= Len(s) BY <1>1, <1>2, <2>1
  <2>6. Promise!IsTail(t, s) BY <2>4, <2>5 DEF Promise!IsTail, Promise!Drop
  <2> QED BY <2>6 DEF s, t
<1>8. CASE base < f
  <2>1. Len(t) = 0 /\ Len(s) \in Nat BY <1>1, <1>2, <1>8 DEF Held
  <2>2. s \in Seq(HalfWords) /\ t \in Seq(HalfWords) BY <1>1, <1>2, StackOfIs
  <2>3. t = SubSeq(s, (Len(s) - Len(t)) + 1, Len(s))
    <3> DEFINE n == Len(s)
    <3>1. n \in Nat /\ SubSeq(s, n + 1, n) = <<>> BY <2>1, <2>2
    <3>2. t = <<>> /\ (n - Len(t)) + 1 = n + 1 BY <2>1, <2>2
    <3> HIDE DEF n
    <3>3. t = SubSeq(s, (n - Len(t)) + 1, n) BY <3>1, <3>2
    <3> QED BY <3>3 DEF n
  <2>4. Promise!IsTail(t, s) BY <2>1, <2>3 DEF Promise!IsTail, Promise!Drop
  <2> QED BY <2>4 DEF s, t
<1> QED BY <1>1, <1>2, <1>6, <1>7, <1>8

-----------------------------------------------------------------------------
(* Instructions that fail                                                  *)

(* A failure has left what was on the stack where it was, and has changed  *)
(* no register but the two that point to the stack.                        *)
Intact(m) ==
  /\ Agree(mem, m.mem, regs["esp"])
  /\ \A r \in Regs \ {"esp", "ebp"} : m.regs[r] = regs[r]

LEMMA NowIntact ==
  ASSUME Ready
  PROVE  Intact(Now) /\ Intact(Failing(Now, "BadMemory"))
<1>1. "BadMemory" \in Errors BY DEF Errors
<1>2. Failing(Now, "BadMemory").mem = mem /\ Failing(Now, "BadMemory").regs = regs
  BY <1>1, NowIs, FailingIs
<1> QED BY <1>2, NowIs DEF Intact, Agree

(* The first push of an instruction.                                       *)
LEMMA FirstPush ==
  ASSUME TopUnmapped, Ready, NEW x \in Machines, x.regs = regs, x.mem = mem,
         NEW w \in {1, 2}, NEW k \in {1, 2}, NEW c, CanPush(x, c, w, k), w <= k
  PROVE  LET p == PushStack(x, c, w)
         IN  /\ p \in Machines /\ Intact(p)
             /\ \A r \in Regs \ {"esp"} : p.regs[r] = regs[r]
             /\ p.result = "Ok" => k = w /\ Grown(p, x, c, w)
<1> DEFINE p == PushStack(x, c, w)
           e == regs["esp"]
<1>1. e \in Address /\ e \in Int BY NowIs, AddressIs
<1>2. x.regs["esp"] = e /\ e <= e BY <1>1
<1> HIDE DEF e
<1>3. /\ p \in Machines /\ Agree(x.mem, p.mem, e)
      /\ \A r \in Regs \ {"esp"} : p.regs[r] = x.regs[r]
      /\ p.result = "Ok" => p.regs["esp"] <= e /\ k = w
  BY <1>1, <1>2, PushKeeps
<1>4. ASSUME p.result = "Ok" PROVE k = w /\ Grown(p, x, c, w)
  <2>1. k = w BY <1>3, <1>4
  <2>2. CanPush(x, c, w, w) BY <2>1
  <2> QED BY <1>4, <2>1, <2>2, PushSucceeds
<1> HIDE DEF p
<1>5. Intact(p) BY <1>3 DEF Intact, e
<1> QED BY <1>3, <1>4, <1>5 DEF p

LEMMA PushIntact ==
  ASSUME TopUnmapped, Ready, NEW i \in Instrs, i.op = "push", Push(i).result # "Ok"
  PROVE  Intact(Push(i))
<1>1. CASE Available(Now, i)
  <2> DEFINE c == Operand(Now, i)
             w == i.w
  <2>1. Word(c, w) /\ w \in {1, 2} BY <1>1, NowIs, OperandIs, InstrIs DEF Reads
  <2>2. Push(i) = PushStack(Now, c, w) BY <1>1 DEF Push
  <2> HIDE DEF c, w
  <2>3. CanPush(Now, c, w, w) /\ w <= w BY <2>1, NowIs DEF CanPush
  <2>4. Intact(PushStack(Now, c, w)) BY <2>1, <2>3, NowIs, FirstPush
  <2> QED BY <2>2, <2>4
<1>2. CASE ~ Available(Now, i) BY <1>2, NowIntact DEF Push
<1> QED BY <1>1, <1>2

LEMMA PopIntact ==
  ASSUME Ready, NEW i \in Instrs, i.op = "pop", Pop(i).result # "Ok"
  PROVE  Intact(Pop(i))
<1> DEFINE w == i.w
           m == PopStack(Now, w)
           c == m.popped[1]
<1>1. w \in {1, 2} /\ i.arg \in Regs BY InstrIs
<1>2. CanPop(Now, w) BY <1>1, NowIs DEF CanPop
<1>3. /\ m \in Machines /\ m.mem = mem /\ (m.result = "Ok" => Word(c, w))
      /\ m.regs = [regs EXCEPT !["esp"] = Wrap(regs["esp"] + w)]
  BY <1>1, <1>2, NowIs, FirstPop
<1>4. Pop(i) = IF m.result # "Ok" THEN m
               ELSE IF i.kind = "reg" THEN With(m, i.arg, Merge(m.regs[i.arg], c))
               ELSE SetMem(m, m.regs[i.arg], c)
  BY DEF Pop
<1> DEFINE a == m.regs[i.arg]
<1>5. a \in Address BY <1>1, <1>3 DEF Machines
<1> HIDE DEF w, m, c, a
<1>6. \A r \in Regs \ {"esp"} : m.regs[r] = regs[r]
  BY <1>3 DEF Ready, TypeOK
<1>7. CASE m.result # "Ok" BY <1>3, <1>4, <1>6, <1>7 DEF Intact, Agree
<1>8. CASE m.result = "Ok" /\ i.kind = "reg"
  <2>1. Word(c, w) BY <1>3, <1>8
  <2>2. Merge(a, c) \in Address BY <1>1, <1>5, <2>1, MergeIs
  <2>3. With(m, i.arg, Merge(a, c)).result = "Ok"
    <3> DEFINE v == Merge(a, c)
    <3>1. m \in Machines /\ i.arg \in Regs /\ v \in Address /\ m.result = "Ok"
      BY <1>1, <1>3, <1>8, <2>2
    <3> HIDE DEF v
    <3> QED BY <3>1, WithIs DEF v
  <2> QED BY <1>4, <1>8, <2>3 DEF a
<1>9. CASE m.result = "Ok" /\ i.kind # "reg"
  <2> DEFINE p == SetMem(m, a, c)
  <2>1. Word(c, w) BY <1>3, <1>9
  <2>2. /\ p.regs = m.regs
        /\ p.result # "Ok" => p.mem = m.mem
    BY <1>1, <1>3, <1>5, <1>9, <2>1, SetMemIs
  <2>3. Pop(i) = p BY <1>4, <1>9 DEF a
  <2> HIDE DEF p
  <2> QED BY <1>3, <1>6, <2>2, <2>3 DEF Intact, Agree
<1> QED BY <1>7, <1>8, <1>9

LEMMA CanPusha ==
  ASSUME Ready, NEW w \in {1, 2}
  PROVE  CanPushAll(Now, Saved(w), Len(PushOrder), w, w)
  BY SavedIs, NowIs, PushOrderIs DEF CanPushAll

LEMMA PushaIntact ==
  ASSUME TopUnmapped, Ready, NEW i \in Instrs
  PROVE  Intact(Pusha(i))
<1> DEFINE w == i.w
           values == Saved(w)
           n == Len(PushOrder)
           p == PushAll(Now, values, w)
<1>1. w \in {1, 2} BY InstrIs
<1>2. Pusha(i) = p BY DEF Pusha, Saved
<1> HIDE DEF w
<1>3. CanPushAll(Now, values, n, w, w) BY <1>1, CanPusha
<1> HIDE DEF n, values
<1>4. Agree(mem, p.mem, regs["esp"]) /\ \A r \in Regs \ {"esp"} : p.regs[r] = regs[r]
  BY <1>3, NowIs, PushAllIs
<1> QED BY <1>2, <1>4 DEF Intact

LEMMA PopaIntact ==
  ASSUME Ready, NEW i \in Instrs, Popa(i).result # "Ok"
  PROVE  Intact(Popa(i))
<1> DEFINE w == i.w
           n == Len(PushOrder)
           m == PopAll(Now, n, w)
<1>1. w \in {1, 2} /\ n \in Nat BY InstrIs, PushOrderIs
<1>2. m \in Machines /\ m.mem = mem /\ \A r \in Regs \ {"esp"} : m.regs[r] = regs[r]
  <2> HIDE DEF w, n
  <2> QED BY <1>1, NowIs, PopAllType
<1>3. m.result # "Ok" => Popa(i) = m BY DEF Popa
<1>4. m.result = "Ok" => Popa(i).result = "Ok"
  <2> DEFINE at(r) == CHOOSE j \in DOMAIN PushOrder : PushOrder[j] = r
             new == [r \in Regs |-> IF r = "esp" THEN m.regs[r]
                                    ELSE Merge(m.regs[r], m.popped[n + 1 - at(r)])]
  <2>1. m.result = "Ok" => Popa(i) = [m EXCEPT !.regs = new] BY DEF Popa
  <2> HIDE DEF m, new
  <2>2. [m EXCEPT !.regs = new].result = m.result BY <1>2 DEF Machines
  <2> QED BY <2>1, <2>2
<1> HIDE DEF m
<1>5. Popa(i) = m BY <1>3, <1>4
<1> QED BY <1>2, <1>5 DEF Intact, Agree

LEMMA PushfIntact ==
  ASSUME TopUnmapped, Ready, NEW i \in Instrs
  PROVE  Intact(Pushf(i))
<1> DEFINE w == i.w
           c == Cells(flags, 2)
<1>1. w \in {1, 2} /\ 2 \in {1, 2} /\ w <= 2 BY InstrIs
<1>2. Word(c, 2) BY CellsAre DEF Ready, TypeOK
<1> HIDE DEF w, c
<1>3. CanPush(Now, c, w, 2) BY <1>1, <1>2, NowIs DEF CanPush
<1>4. Intact(PushStack(Now, c, w)) BY <1>1, <1>3, NowIs, FirstPush
<1> QED BY <1>4 DEF Pushf, w, c

LEMMA PopfIs ==
  ASSUME Ready
  PROVE  /\ Popf \in Machines /\ Popf.mem = mem
         /\ Popf.regs = [regs EXCEPT !["esp"] = Wrap(regs["esp"] + 2)]
         /\ \A r \in Regs \ {"esp"} : Popf.regs[r] = regs[r]
         /\ Popf.result = "Ok" => Popf.popped[1] = Loaded(Now, regs["esp"], 2)
<1>1. CanPop(Now, 2) /\ 2 \in {1, 2} BY NowIs DEF CanPop
<1> DEFINE p == PopStack(Now, 2)
<1>2. /\ p \in Machines /\ p.mem = mem
      /\ p.regs = [regs EXCEPT !["esp"] = Wrap(regs["esp"] + 2)]
      /\ p.result = "Ok" => p.popped[1] = Loaded(Now, regs["esp"], 2)
  BY <1>1, NowIs, FirstPop
<1> HIDE DEF p
<1>3. \A r \in Regs \ {"esp"} : p.regs[r] = regs[r] BY <1>2 DEF Ready, TypeOK
<1> QED BY <1>2, <1>3 DEF Popf, p

LEMMA PopfIntact ==
  ASSUME Ready
  PROVE  Intact(Popf)
  BY PopfIs DEF Intact, Agree

LEMMA CallIs ==
  ASSUME TopUnmapped, Ready, NEW i \in Instrs, i.op = "call"
  PROVE  /\ Call(i).result # "Ok" => Intact(Call(i))
         /\ Call(i).result = "Ok" =>
              LET c == Cells(Wrap(eip + InstrSize), 2)
                  m == PushStack(Now, c, 2)
              IN  /\ i.w = 2 /\ m \in Machines /\ m.result = "Ok" /\ Grown(m, Now, c, 2)
                  /\ \A r \in Regs \ {"esp"} : m.regs[r] = regs[r]
                  /\ Available(m, i)
                  /\ Call(i) = [m EXCEPT !.eip = Wrap(Target(m, i) - InstrSize)]
<1> DEFINE w == i.w
           c == Cells(Wrap(eip + InstrSize), 2)
           m == PushStack(Now, c, w)
           t == Wrap(Target(m, i) - InstrSize)
           p == [m EXCEPT !.eip = t]
<1>1. w \in {1, 2} /\ 2 \in {1, 2} /\ w <= 2 BY InstrIs
<1>2. Word(c, 2) BY AfterType
<1>3. /\ m \in Machines /\ Intact(m)
      /\ \A r \in Regs \ {"esp"} : m.regs[r] = regs[r]
      /\ m.result = "Ok" => 2 = w /\ Grown(m, Now, c, w)
  <2> HIDE DEF w, c
  <2>1. CanPush(Now, c, w, 2) BY <1>1, <1>2, NowIs DEF CanPush
  <2> QED BY <1>1, <2>1, NowIs, FirstPush
<1>4. Call(i) = IF ~ Available(Now, i) THEN Failing(Now, "BadMemory")
                ELSE IF m.result # "Ok" THEN m
                ELSE IF ~ Available(m, i) THEN Failing(m, "BadMemory")
                ELSE p
  BY DEF Call
<1>5. w = i.w OBVIOUS
<1>6. m = PushStack(Now, c, w) OBVIOUS
<1> HIDE DEF m, w, c
<1>7. "BadMemory" \in Errors BY DEF Errors
<1>8. /\ Failing(m, "BadMemory").result # "Ok" /\ Failing(m, "BadMemory").regs = m.regs
      /\ Failing(m, "BadMemory").mem = m.mem
  BY <1>3, <1>7, FailingIs
<1>9. Intact(Failing(m, "BadMemory")) BY <1>3, <1>8 DEF Intact
<1>10. Failing(Now, "BadMemory").result # "Ok" /\ Intact(Failing(Now, "BadMemory"))
  BY <1>7, NowIs, FailingIs, NowIntact
<1>11. p.result = m.result
  <2> HIDE DEF t
  <2> QED BY <1>3 DEF Machines
<1>12. p = [m EXCEPT !.eip = Wrap(Target(m, i) - InstrSize)] OBVIOUS
<1> HIDE DEF p
<1>13. CASE ~ Available(Now, i) BY <1>4, <1>10, <1>13
<1>14. CASE Available(Now, i) /\ m.result # "Ok" BY <1>3, <1>4, <1>14
<1>15. CASE Available(Now, i) /\ m.result = "Ok" /\ ~ Available(m, i)
  BY <1>4, <1>8, <1>9, <1>15
<1>16. CASE Available(Now, i) /\ m.result = "Ok" /\ Available(m, i)
  <2>1. w = 2 /\ Grown(m, Now, c, w) BY <1>3, <1>16
  <2>2. m = PushStack(Now, c, 2) /\ Grown(m, Now, c, 2) BY <1>6, <2>1
  <2>3. Call(i) = p /\ p.result = "Ok" BY <1>4, <1>11, <1>16
  <2> QED BY <1>3, <1>5, <1>12, <1>16, <2>1, <2>2, <2>3 DEF c
<1> QED BY <1>13, <1>14, <1>15, <1>16

LEMMA RetIs ==
  ASSUME Ready, NEW i \in Instrs, i.op = "ret"
  PROVE  LET m      == PopStack(Now, i.w)
             before == Wrap(Number(m.popped[1]) - InstrSize)
         IN  /\ Ret(i).result # "Ok" => Intact(Ret(i))
             /\ Ret(i).result = "Ok" =>
                  /\ Word(m.popped[1], i.w)
                  /\ m.popped[1] = Loaded(Now, regs["esp"], i.w)
                  /\ Ret(i).mem = mem
                  /\ Ret(i).eip = IF i.w = 1 THEN before % Half ELSE before
                  /\ Ret(i).regs["esp"] = Wrap(Wrap(regs["esp"] + i.w) + i.clear)
                  /\ \A r \in Regs \ {"esp"} : Ret(i).regs[r] = regs[r]
<1> DEFINE w == i.w
           m == PopStack(Now, w)
           before == Wrap(Number(m.popped[1]) - InstrSize)
           e == IF w = 1 THEN before % Half ELSE before
           s == Wrap(m.regs["esp"] + i.clear)
           p == [m EXCEPT !.eip = e, !.regs["esp"] = s]
<1>1. w \in {1, 2} BY InstrIs
<1>2. /\ m \in Machines /\ m.mem = mem
      /\ m.regs = [regs EXCEPT !["esp"] = Wrap(regs["esp"] + w)]
      /\ m.result = "Ok" => /\ m.popped[1] = Loaded(Now, regs["esp"], w)
                            /\ Word(m.popped[1], w)
  <2>1. CanPop(Now, w) BY <1>1, NowIs DEF CanPop
  <2> HIDE DEF w
  <2> QED BY <1>1, <2>1, NowIs, FirstPop
<1>3. Ret(i) = IF m.result # "Ok" THEN m ELSE p BY DEF Ret
<1> HIDE DEF m
<1>4. m.regs["esp"] = Wrap(regs["esp"] + w) /\ \A r \in Regs \ {"esp"} : m.regs[r] = regs[r]
  BY <1>2, Pointers DEF Ready, TypeOK
<1> HIDE DEF e, s
<1>5. /\ p.result = m.result /\ p.mem = m.mem /\ p.eip = e
      /\ p.regs["esp"] = s /\ \A r \in Regs \ {"esp"} : p.regs[r] = m.regs[r]
  BY <1>2, Pointers DEF Machines
<1> HIDE DEF p
<1>6. CASE m.result # "Ok"
  <2>1. Intact(m) BY <1>2, <1>4 DEF Intact, Agree
  <2> QED BY <1>3, <1>6, <2>1
<1>7. CASE m.result = "Ok"
  <2>1. Ret(i) = p /\ p.result = "Ok" BY <1>3, <1>5, <1>7
  <2>2. /\ Word(m.popped[1], w) /\ m.popped[1] = Loaded(Now, regs["esp"], w)
        /\ p.mem = mem /\ p.eip = e
        /\ p.regs["esp"] = Wrap(Wrap(regs["esp"] + w) + i.clear)
        /\ \A r \in Regs \ {"esp"} : p.regs[r] = regs[r]
    BY <1>2, <1>4, <1>5, <1>7 DEF s
  <2> QED BY <2>1, <2>2 DEF e, m, w
<1> QED BY <1>6, <1>7

LEMMA LeaveIs ==
  ASSUME Ready
  PROVE  /\ Leave.result # "Ok" => Intact(Leave)
         /\ Leave.result = "Ok" =>
              LET c == Loaded(Now, regs["ebp"], 2)
              IN  /\ Word(c, 2) /\ Leave.mem = mem
                  /\ Leave.regs["esp"] = Wrap(regs["ebp"] + 2)
                  /\ Leave.regs["ebp"] = Number(c)
                  /\ \A r \in Regs \ {"esp", "ebp"} : Leave.regs[r] = regs[r]
<1> DEFINE n == With(Now, "esp", regs["ebp"])
           m == PopStack(n, 2)
           c == m.popped[1]
           p == With(m, "ebp", Number(c))
<1>1. /\ n \in Machines /\ n.result = "Ok" /\ n.popped = <<>> /\ n.mem = mem
      /\ n.regs = [regs EXCEPT !["esp"] = regs["ebp"]]
  BY NowIs, WithIs, Pointers
<1>2. n.regs["esp"] = regs["ebp"] BY <1>1, Pointers DEF Ready, TypeOK
<1>3. Leave = IF m.result # "Ok" THEN m ELSE p BY DEF Leave
<1>4. /\ m \in Machines /\ m.mem = mem
      /\ m.regs = [n.regs EXCEPT !["esp"] = Wrap(regs["ebp"] + 2)]
      /\ m.result = "Ok" => c = Loaded(n, regs["ebp"], 2) /\ Word(c, 2)
  <2>1. CanPop(n, 2) /\ 2 \in {1, 2} BY <1>1 DEF CanPop
  <2> HIDE DEF n
  <2> QED BY <1>1, <1>2, <2>1, FirstPop
<1>5. Loaded(n, regs["ebp"], 2) = Loaded(Now, regs["ebp"], 2)
  <2> HIDE DEF n
  <2> QED BY <1>1, NowIs DEF Loaded
<1> HIDE DEF n, m, c
<1>6. m.regs["esp"] = Wrap(regs["ebp"] + 2) /\ \A r \in Regs \ {"esp"} : m.regs[r] = regs[r]
  BY <1>1, <1>4, Pointers DEF Ready, TypeOK
<1>7. CASE m.result # "Ok"
  <2>1. Intact(m) BY <1>4, <1>6 DEF Intact, Agree
  <2> QED BY <1>3, <1>7, <2>1
<1>8. CASE m.result = "Ok"
  <2>1. c = Loaded(Now, regs["ebp"], 2) /\ Word(c, 2) BY <1>4, <1>5, <1>8
  <2>2. Number(c) \in Address BY <2>1, NumberIs
  <2>3. p.regs = [m.regs EXCEPT !["ebp"] = Number(c)] /\ p.mem = mem /\ p.result = "Ok"
    BY <1>4, <1>8, <2>2, WithIs, Pointers
  <2>4. Leave = p BY <1>3, <1>8
  <2> HIDE DEF p
  <2>5. /\ p.regs["esp"] = m.regs["esp"] /\ p.regs["ebp"] = Number(c)
        /\ \A r \in Regs \ {"esp", "ebp"} : p.regs[r] = m.regs[r]
    BY <1>4, <2>3, Pointers DEF Machines
  <2> QED BY <1>6, <2>1, <2>3, <2>4, <2>5
<1> QED BY <1>7, <1>8

LEMMA EnteredIs ==
  ASSUME TopUnmapped, Ready, NEW i \in Instrs, i.op = "enter", First(i).result = "Ok"
  PROVE  /\ Entered(i) \in Machines
         /\ Agree(First(i).mem, Entered(i).mem, First(i).regs["esp"])
         /\ \A r \in Regs \ {"esp", "ebp"} : Entered(i).regs[r] = First(i).regs[r]
<1> DEFINE w == i.w
           m == Inner(i)
           p == PushAll(m, Frames(i), w)
           n == Outer(i) + 1
<1>1. w \in {1, 2} /\ w <= 2 /\ 2 \in {1, 2} BY InstrIs
<1>2. /\ n \in Nat /\ m \in Machines /\ m.mem = First(i).mem
      /\ \A r \in Regs \ {"ebp"} : m.regs[r] = First(i).regs[r]
      /\ DOMAIN Frames(i) = 1 .. n /\ \A j \in 1 .. n : Word(Frames(i)[j], 2)
  BY InnerIs
<1>3. m.regs["esp"] = First(i).regs["esp"] BY <1>2, Pointers
<1>4. First(i) \in Machines BY FirstIs
<1>5. Entered(i) = IF i.nesting > 0 THEN p ELSE First(i) BY DEF Entered
<1> HIDE DEF w, m, n
<1>6. CanPushAll(m, Frames(i), n, w, 2) BY <1>1, <1>2 DEF CanPushAll
<1>7. /\ p \in Machines /\ Agree(m.mem, p.mem, m.regs["esp"])
      /\ \A r \in Regs \ {"esp"} : p.regs[r] = m.regs[r]
  BY <1>6, PushAllIs
<1> HIDE DEF p
<1>8. /\ Agree(First(i).mem, p.mem, First(i).regs["esp"])
      /\ \A r \in Regs \ {"esp", "ebp"} : p.regs[r] = First(i).regs[r]
  BY <1>2, <1>3, <1>7
<1>9. Agree(First(i).mem, First(i).mem, First(i).regs["esp"]) BY DEF Agree
<1> QED BY <1>4, <1>5, <1>7, <1>8, <1>9

LEMMA EnterIs ==
  ASSUME TopUnmapped, Ready, NEW i \in Instrs, i.op = "enter"
  PROVE  /\ Enter(i).result # "Ok" => Intact(Enter(i))
         /\ Enter(i).result = "Ok" =>
              LET c == Cells(regs["ebp"], 2)
                  f == regs["esp"] - 2
              IN  /\ f - i.locals \in Nat /\ Enter(i).regs["esp"] = f - i.locals
                  /\ Enter(i).regs["ebp"] = f
                  /\ \A r \in Regs \ {"esp", "ebp"} : Enter(i).regs[r] = regs[r]
                  /\ Agree(mem, Enter(i).mem, regs["esp"])
                  /\ \A j \in 1 .. 2 : Enter(i).mem[f + j - 1] = c[j]
<1> DEFINE w == i.w
           c == Cells(regs["ebp"], 2)
           e == regs["esp"]
           m == First(i)
           p == Entered(i)
           f == m.regs["esp"]
<1>1. w \in {1, 2} /\ w <= 2 /\ 2 \in {1, 2} BY InstrIs
<1>2. /\ m \in Machines /\ Intact(m)
      /\ \A r \in Regs \ {"esp"} : m.regs[r] = regs[r]
      /\ m.result = "Ok" => 2 = w /\ Grown(m, Skipped, c, w)
  <2>1. /\ Skipped \in Machines /\ Skipped.regs = regs /\ Skipped.mem = mem
        /\ Skipped.result = "Ok" /\ Word(c, 2) /\ m = PushStack(Skipped, c, w)
    BY FirstIs DEF First
  <2> HIDE DEF w, c, m
  <2>2. CanPush(Skipped, c, w, 2) BY <1>1, <2>1 DEF CanPush
  <2> DEFINE q == PushStack(Skipped, c, w)
  <2>3. /\ q \in Machines /\ Intact(q)
        /\ \A r \in Regs \ {"esp"} : q.regs[r] = regs[r]
        /\ q.result = "Ok" => 2 = w /\ Grown(q, Skipped, c, w)
    BY <1>1, <2>1, <2>2, FirstPush
  <2> HIDE DEF q
  <2>4. m = q BY <2>1 DEF q
  <2> QED BY <2>3, <2>4
<1>3. Enter(i) = IF m.result # "Ok" THEN m
                 ELSE IF p.result # "Ok" THEN p ELSE Framed(p, f, i)
  BY EnterSteps
<1>4. CASE m.result # "Ok" BY <1>2, <1>3, <1>4
<1>5. CASE m.result = "Ok"
  <2>1. /\ p \in Machines /\ Agree(m.mem, p.mem, f)
        /\ \A r \in Regs \ {"esp", "ebp"} : p.regs[r] = m.regs[r]
    BY <1>5, EnteredIs
  <2>2. Skipped.regs = regs /\ Skipped.mem = mem BY FirstIs
  <2>3. Grown(m, Skipped, c, 2) BY <1>2, <1>5
  <2> HIDE DEF m, p, c
  <2>4. /\ f = e - 2 /\ e - 2 >= WriteableMemory /\ e \in Nat
        /\ \A j \in 1 .. 2 : m.mem[e - 2 + j - 1] = c[j]
        /\ \A y \in Address : y < e - 2 \/ y >= e => m.mem[y] = mem[y]
    BY <2>2, <2>3 DEF Grown
  <2>5. f \in Address BY <1>2, Pointers DEF Machines
  <2>6. \A r \in Regs \ {"esp", "ebp"} : p.regs[r] = regs[r] BY <1>2, <2>1
  <2>7. WriteableMemory \in Nat /\ f \in Nat /\ f < Space /\ Space \in Nat
    BY <2>5, Pointers, AddressIs, Spaces
  <2>8. Agree(mem, p.mem, e)
    <3> SUFFICES ASSUME NEW y \in Address, y >= e PROVE p.mem[y] = mem[y]
      BY DEF Agree
    <3>1. y \in Int BY AddressIs
    <3> HIDE DEF e, f
    <3>2. y >= f BY <2>4, <3>1
    <3> QED BY <2>1, <2>4, <3>2 DEF Agree
  <2>9. ASSUME NEW j \in 1 .. 2 PROVE p.mem[(e - 2) + j - 1] = c[j]
    <3> DEFINE y == (e - 2) + j - 1
    <3>1. e < Space /\ e \in Nat BY NowIs, AddressIs
    <3> HIDE DEF e, f
    <3>2. y \in 0 .. Space - 1 /\ y >= f BY <2>4, <2>7, <3>1
    <3>3. y \in Address BY <3>2 DEF Address
    <3>4. p.mem[y] = m.mem[y] BY <2>1, <3>2, <3>3 DEF Agree
    <3>5. m.mem[y] = c[j] BY <2>4
    <3> QED BY <3>4, <3>5
  <2>10. CASE p.result # "Ok"
    <3>1. Intact(p) BY <2>6, <2>8 DEF Intact, e
    <3> QED BY <1>3, <1>5, <2>10, <3>1
  <2>11. CASE p.result = "Ok"
    <3> DEFINE q == With(p, "ebp", f)
               g == f - i.locals
               x == With(q, "esp", Wrap(g))
    <3>1. g \in Address /\ g \in Nat
      <4>1. i.locals \in 0 .. WriteableMemory BY InstrIs
      <4> HIDE DEF e, f
      <4>2. g \in 0 .. Space - 1 BY <2>4, <2>7, <4>1
      <4> QED BY <4>2 DEF Address
    <3>2. Wrap(g) = g BY <3>1, WrapSame
    <3> HIDE DEF g
    <3>3. /\ q \in Machines /\ q.regs = [p.regs EXCEPT !["ebp"] = f] /\ q.mem = p.mem
          /\ q.result = p.result
      BY <2>1, <2>5, Pointers, WithIs
    <3> HIDE DEF q
    <3>4. /\ x \in Machines /\ x.regs = [q.regs EXCEPT !["esp"] = g] /\ x.mem = q.mem
          /\ x.result = q.result
      BY <3>1, <3>2, <3>3, Pointers, WithIs
    <3>5. Enter(i) = x BY <1>3, <1>5, <2>11 DEF Framed, q, g
    <3> HIDE DEF x
    <3>6. /\ x.regs["esp"] = g /\ x.regs["ebp"] = f
          /\ \A r \in Regs \ {"esp", "ebp"} : x.regs[r] = p.regs[r]
      BY <2>1, <3>3, <3>4, Pointers DEF Machines
    <3>7. x.mem = p.mem BY <3>3, <3>4
    <3> HIDE DEF f, e
    <3> QED BY <2>4, <2>6, <2>8, <2>9, <2>11, <3>1, <3>3, <3>4, <3>5, <3>6, <3>7 DEF g, e, c
  <2> QED BY <2>10, <2>11
<1> QED BY <1>4, <1>5

LEMMA FailureIs ==
  ASSUME TopUnmapped, NEW i, NEW m, Ran(i, m), Handled(i, m), m.result # "Ok",
         flags' = flags
  PROVE  Promise!Failure(i)
<1>1. Ready /\ i \in Instrs BY After DEF Ran
<1>2. Intact(m)
  <2>1. CASE i.op = "push"  /\ m = Push(i)  BY <1>1, <2>1, PushIntact
  <2>2. CASE i.op = "pop"   /\ m = Pop(i)   BY <1>1, <2>2, PopIntact
  <2>3. CASE i.op = "pusha" /\ m = Pusha(i) BY <1>1, <2>3, PushaIntact
  <2>4. CASE i.op = "popa"  /\ m = Popa(i)  BY <1>1, <2>4, PopaIntact
  <2>5. CASE i.op = "pushf" /\ m = Pushf(i) BY <1>1, <2>5, PushfIntact
  <2>6. CASE i.op = "popf"  /\ m = Popf     BY <1>1, <2>6, PopfIntact
  <2>7. CASE i.op = "call"  /\ m = Call(i)  BY <1>1, <2>7, CallIs
  <2>8. CASE i.op = "ret"   /\ m = Ret(i)   BY <1>1, <2>8, RetIs
  <2>9. CASE i.op = "enter" /\ m = Enter(i) BY <1>1, <2>9, EnterIs
  <2>10. CASE i.op = "leave" /\ m = Leave   BY <1>1, <2>10, LeaveIs
  <2> QED BY <2>1, <2>2, <2>3, <2>4, <2>5, <2>6, <2>7, <2>8, <2>9, <2>10 DEF Handled
<1>3. Agree(mem, m.mem, regs["esp"]) BY <1>2 DEF Intact
<1>4. Promise!IsTail(OnStack, OnStack') \/ Promise!IsTail(OnStack', OnStack) BY <1>3, Tails
<1>5. regs' = m.regs /\ result' = m.result BY After
<1>6. \A r \in DOMAIN Others : r # "ebp" => Others'[r] = Others[r]
  BY <1>2, <1>5 DEF Others, Intact
<1> QED BY <1>4, <1>5, <1>6 DEF Promise!Failure, Promise!Keep, Others

-----------------------------------------------------------------------------
(* Instructions that succeed                                               *)

(* m has c on the stack, or n half words less.                             *)
GrewBy(m, c, n) ==
  /\ n \in Nat /\ c \in Seq(HalfWords) /\ Len(c) = n
  /\ m.regs["esp"] = regs["esp"] - n
  /\ Agree(mem, m.mem, regs["esp"]) /\ StoredAt(m.mem, regs["esp"] - n, c)
ShrankBy(m, n) ==
  n \in Nat /\ regs["esp"] + n <= base /\ m.regs["esp"] = regs["esp"] + n

LEMMA Grew ==
  ASSUME NEW i, NEW m, Ran(i, m), NEW n, NEW c, GrewBy(m, c, n)
  PROVE  /\ OnStack' = c \o OnStack /\ base' = base
         /\ SubSeq(OnStack', 1, n) = c
<1> DEFINE e == regs["esp"]
           f == regs'["esp"]
           N == mem'
           s == OnStack
           t == OnStack'
           b == base
<1>0. IInv BY DEF Ran
<1>1. Held(e, mem, b) /\ s = StackOf(e, mem, b) /\ e \in Nat /\ b \in Nat
  BY <1>0, View
<1>2. /\ Held(f, N, base') /\ t = StackOf(f, N, base') /\ N = m.mem /\ f = m.regs["esp"]
      /\ f <= b => base' = b
      /\ e <= b
  BY After
<1>3. /\ n \in Nat /\ c \in Seq(HalfWords) /\ Len(c) = n /\ m.regs["esp"] = e - n
      /\ Agree(mem, m.mem, e) /\ StoredAt(m.mem, e - n, c)
  BY DEF GrewBy
<1> HIDE DEF e, f, N, s, t, b
<1>4. f = e - n /\ f <= b BY <1>1, <1>2, <1>3
<1>5. base' = b BY <1>2, <1>4
<1>6. Held(e - n, N, b) /\ t = StackOf(e - n, N, b) BY <1>2, <1>4, <1>5
<1>7. StackOf(e - n, N, b) = c \o StackOf(e, mem, b)
      /\ SubSeq(StackOf(e - n, N, b), 1, n) = c
  <2>1. Above(e, mem, N, b, n, c) BY <1>1, <1>2, <1>3, <1>6 DEF Above
  <2> QED BY <2>1, PushedStack
<1> QED BY <1>1, <1>5, <1>6, <1>7 DEF s, t, b

(* It may have been written to before; the rest is what was further up.    *)
LEMMA Shrank ==
  ASSUME NEW i, NEW m, Ran(i, m), NEW n, ShrankBy(m, n)
  PROVE  /\ base' = base /\ Held(regs["esp"] + n, m.mem, base)
         /\ OnStack' = StackOf(regs["esp"] + n, m.mem, base)
         /\ Promise!Drop(OnStack, n) = StackOf(regs["esp"] + n, mem, base)
         /\ m.mem = mem => OnStack' = Promise!Drop(OnStack, n)
<1> DEFINE e == regs["esp"]
           f == regs'["esp"]
           N == mem'
           s == OnStack
           t == OnStack'
           b == base
<1>0. IInv BY DEF Ran
<1>1. Held(e, mem, b) /\ s = StackOf(e, mem, b) /\ e \in Nat /\ b \in Nat
  BY <1>0, View
<1>2. /\ Held(f, N, base') /\ t = StackOf(f, N, base') /\ N = m.mem /\ f = m.regs["esp"]
      /\ f <= b => base' = b
  BY After
<1>3. n \in Nat /\ e + n <= b /\ m.regs["esp"] = e + n BY DEF ShrankBy
<1> HIDE DEF e, f, N, s, t, b
<1>4. f = e + n /\ n <= b - e /\ base' = b BY <1>1, <1>2, <1>3
<1>5. Held(e + n, N, b) /\ t = StackOf(e + n, N, b) BY <1>2, <1>4
<1>6. SubSeq(s, n + 1, Len(s)) = StackOf(e + n, mem, b) BY <1>1, <1>3, <1>4, RestOfStack
<1>7. Promise!Drop(s, n) = StackOf(e + n, mem, b) BY <1>6 DEF Promise!Drop
<1> QED BY <1>2, <1>4, <1>5, <1>7 DEF e, N, s, t, b

(* A word of the stack is one of memory.                                   *)
LEMMA OnStackWord ==
  ASSUME IInv, NEW a \in Address, NEW w \in {1, 2}, Readable(a, w),
         regs["esp"] <= a, a + w <= base
  PROVE  LET k == a - regs["esp"]
         IN  SubSeq(OnStack, k + 1, k + w) = Loaded(Now, a, w)
<1> DEFINE e == regs["esp"]
           k == a - e
           p == SubSeq(OnStack, k + 1, k + w)
           l == Loaded(Now, a, w)
<1>1. Held(e, mem, base) /\ OnStack = StackOf(e, mem, base) /\ e \in Nat /\ base \in Nat
  BY View
<1>2. a \in Nat BY AddressIs
<1>3. l = [j \in 1 .. w |-> mem[a + j - 1]] BY DEF Loaded, Now
<1>4. l \in Seq(HalfWords) /\ Len(l) = w
  <2>1. \A j \in 1 .. w : a + j - 1 \in Address
    <3> SUFFICES ASSUME NEW j \in 1 .. w PROVE a + j - 1 \in 0 .. Space - 1 BY DEF Address
    <3>1. base < Space /\ Space \in Nat BY <1>1, AddressIs, Spaces DEF Held
    <3> QED BY <1>1, <1>2, <3>1
  <2>2. l \in [1 .. w -> HalfWords] BY <1>1, <1>3, <2>1 DEF Held
  <2> HIDE DEF l
  <2>3. w \in Nat OBVIOUS
  <2> QED BY <2>2, <2>3
<1> HIDE DEF e
<1>5. k \in Nat /\ w \in Nat /\ k + w <= base - e /\ e + k = a BY <1>1, <1>2 DEF e
<1> HIDE DEF k
<1>6. HasPart(e, mem, base, k, w) BY <1>1, <1>5 DEF HasPart
<1>7. IsPart(p, mem, a, w) BY <1>1, <1>5, <1>6, PartOfStack
<1>8. p \in Seq(HalfWords) /\ Len(p) = w /\ \A j \in 1 .. w : p[j] = mem[a + j - 1]
  BY <1>7 DEF IsPart
<1>9. \A j \in 1 .. w : l[j] = mem[a + j - 1] BY <1>3
<1> HIDE DEF p, l
<1>10. p = l BY <1>4, <1>8, <1>9, SameSequence
<1> QED BY <1>10 DEF p, l, k, e

LEMMA GrownGrew ==
  ASSUME Ready, NEW m, NEW p, NEW x, NEW c, NEW w \in {1, 2},
         Grown(p, x, c, w) /\ Word(c, w) /\ x.regs = regs /\ x.mem = mem,
         m.mem = p.mem /\ m.regs = p.regs
  PROVE  GrewBy(m, c, w)
<1> DEFINE e == regs["esp"]
<1>1. /\ m.regs["esp"] = e - w
      /\ \A j \in 1 .. w : m.mem[e - w + j - 1] = c[j]
      /\ \A y \in Address : y < e - w \/ y >= e => m.mem[y] = mem[y]
  BY DEF Grown
<1>2. c \in Seq(HalfWords) /\ Len(c) = w /\ w \in Nat BY DEF Word
<1>3. Agree(mem, m.mem, e) BY <1>1 DEF Agree
<1>4. StoredAt(m.mem, e - w, c) BY <1>1, <1>2 DEF StoredAt
<1> QED BY <1>1, <1>2, <1>3, <1>4 DEF GrewBy

LEMMA PushWorks ==
  ASSUME TopUnmapped, NEW i, NEW m, Ran(i, m), i.op = "push" /\ m = Push(i),
         m.result = "Ok", flags' = flags
  PROVE  Promise!Push(i)
<1> DEFINE w == i.w
           c == Operand(Now, i)
           a == i.arg
<1>1. Ready /\ IInv /\ i \in Instrs BY After DEF Ran
<1>2. w \in {1, 2} /\ i.kind \in {"reg", "imm", "mem"} /\ (i.kind # "imm" => a \in Regs)
  BY <1>1, InstrIs
<1>3. Available(Now, i)
  <2> SUFFICES ASSUME ~ Available(Now, i) PROVE FALSE OBVIOUS
  <2>1. m = Failing(Now, "BadMemory") BY DEF Push
  <2>2. "BadMemory" \in Errors BY DEF Errors
  <2> QED BY <1>1, <2>1, <2>2, NowIs, FailingIs
<1>4. m = PushStack(Now, c, w) BY <1>3 DEF Push
<1>5. Word(c, w) BY <1>1, <1>3, NowIs, OperandIs DEF Reads
<1>6. /\ i.kind = "reg" => c = Cells(regs[a], w)
      /\ i.kind = "imm" => c = Cells(a, w)
      /\ i.kind = "mem" => Readable(regs[a], w) /\ c = Loaded(Now, regs[a], w)
  BY <1>1, <1>3, NowIs DEF Operand, Available
<1> HIDE DEF w, c, a
<1>7. Grown(m, Now, c, w) /\ \A r \in Regs \ {"esp"} : m.regs[r] = regs[r]
  <2>1. CanPush(Now, c, w, w) /\ w <= w BY <1>1, <1>2, <1>5, NowIs DEF CanPush
  <2> DEFINE p == PushStack(Now, c, w)
  <2>2. /\ \A r \in Regs \ {"esp"} : p.regs[r] = regs[r]
        /\ p.result = "Ok" => Grown(p, Now, c, w)
    BY <1>1, <1>2, <2>1, NowIs, FirstPush
  <2> HIDE DEF p
  <2>3. p = m BY <1>4 DEF p
  <2> QED BY <2>2, <2>3
<1>8. GrewBy(m, c, w) BY <1>1, <1>2, <1>5, <1>7, NowIs, GrownGrew
<1>9. OnStack' = c \o OnStack /\ base' = base /\ SubSeq(OnStack', 1, w) = c BY <1>8, Grew
<1>10. Others' = Others BY <1>7, SameOthers
<1>11. Promise!Pushes(SubSeq(OnStack', 1, w)) BY <1>9 DEF Promise!Pushes
<1>12. Promise!Reads(i, c)
  <2>1. CASE i.kind = "reg"
    <3>1. Promise!Reg(a) = regs[a] BY <1>1, <1>2, <2>1, View
    <3> QED BY <1>6, <2>1, <3>1, SameOperators DEF Promise!Reads, a, w
  <2>2. CASE i.kind = "imm" BY <1>6, <2>2, SameOperators DEF Promise!Reads, a, w
  <2>3. CASE i.kind = "mem"
    <3>1. Promise!Reg(a) = regs[a] /\ Promise!Top = regs["esp"] /\ a \in Regs
      BY <1>1, <1>2, <2>3, View
    <3>2. ASSUME NEW j \in 1 .. w, regs[a] + j - 1 \in regs["esp"] .. base - 1
          PROVE  c[j] = OnStack[(regs[a] + j - 1) - regs["esp"] + 1]
      <4> DEFINE y == regs[a] + j - 1
                 e == regs["esp"]
                 k == y - e + 1
      <4>1. Held(e, mem, base) /\ OnStack = StackOf(e, mem, base) BY <1>1, View
      <4>2. e \in Nat /\ base \in Nat BY <4>1, StackOfIs
      <4>3. y \in Int
        <5>1. regs[a] \in Int BY <1>1, <3>1, NowIs, AddressIs
        <5> QED BY <1>2, <5>1
      <4>4. y \in e .. base - 1 BY <3>2
      <4> HIDE DEF e, y
      <4>5. k \in 1 .. base - e /\ e + k - 1 = y BY <4>2, <4>3, <4>4
      <4> HIDE DEF k
      <4>6. OnStack[k] = mem[y] BY <4>1, <4>5, StackOfIs
      <4>7. c[j] = mem[y] BY <1>1, <1>6, <2>3, NowIs DEF Loaded, y
      <4> QED BY <4>6, <4>7 DEF k, y, e
    <3>3. \A j \in 1 .. w : LET x == Promise!Reg(a) + j - 1
                            IN  x \in Promise!Top .. base - 1 =>
                                  c[j] = OnStack[x - Promise!Top + 1]
      BY <3>1, <3>2
    <3> QED BY <2>3, <3>3, Zenon DEF Promise!Reads, a, w
  <2> QED BY <1>2, <2>1, <2>2, <2>3
<1>13. Promise!Reads(i, SubSeq(OnStack', 1, w)) BY <1>9, <1>12
<1> QED BY <1>10, <1>11, <1>13 DEF Promise!Push, Others, w

LEMMA HoldsIs ==
  ASSUME IInv, NEW n \in Nat, Promise!Holds(n)
  PROVE  regs["esp"] + n <= base /\ regs["esp"] + n \in Address
<1>1. /\ regs["esp"] \in Nat /\ base \in Nat /\ Len(OnStack) = base - regs["esp"]
      /\ Held(regs["esp"], mem, base)
  BY View
<1>2. base < Space /\ Space \in Nat BY <1>1, AddressIs, Spaces DEF Held
<1>3. n <= base - regs["esp"] BY <1>1 DEF Promise!Holds
<1> QED BY <1>1, <1>2, <1>3 DEF Address

(* What an instruction takes off first.                                    *)
LEMMA TakeIs ==
  ASSUME IInv, NEW w \in {1, 2}, Promise!Holds(w), Readable(regs["esp"], w)
  PROVE  Promise!Take(w) = Loaded(Now, regs["esp"], w)
<1> DEFINE e == regs["esp"]
<1>1. e \in Address /\ e \in Nat BY View DEF Held
<1>2. e + w <= base /\ e <= e /\ w \in Nat BY <1>1, HoldsIs
<1>3. SubSeq(OnStack, (e - e) + 1, (e - e) + w) = Loaded(Now, e, w)
  BY <1>1, <1>2, OnStackWord
<1> HIDE DEF e
<1>4. (e - e) + 1 = 1 /\ (e - e) + w = w BY <1>1, <1>2
<1> QED BY <1>3, <1>4 DEF Promise!Take, e

LEMMA OverwrittenIs ==
  ASSUME NEW e, NEW M, NEW N, NEW b, Held(e, M, b), Held(e, N, b),
         NEW a \in Address, NEW c, NEW w \in {1, 2}, Word(c, w), Stores(N, M, a, c)
  PROVE  \A k \in 1 .. b - e :
           LET j == (e + k) - a
           IN  StackOf(e, N, b)[k] = IF j \in DOMAIN c THEN c[j] ELSE StackOf(e, M, b)[k]
<1> SUFFICES ASSUME NEW k \in 1 .. b - e
             PROVE  StackOf(e, N, b)[k] = IF (e + k) - a \in DOMAIN c THEN c[(e + k) - a]
                                          ELSE StackOf(e, M, b)[k]
  OBVIOUS
<1> DEFINE x == e + k - 1
           j == (e + k) - a
<1>1. StackOf(e, M, b)[k] = M[x] /\ x \in Address /\ e \in Nat BY StackOfIs
<1>2. StackOf(e, N, b)[k] = N[x] BY StackOfIs
<1>3. a \in Int BY AddressIs
<1>4. x - a + 1 = j BY <1>1, <1>3
<1> HIDE DEF x, j
<1>5. N[x] = IF j \in DOMAIN c THEN c[j] ELSE M[x] BY <1>1, <1>4 DEF Stores
<1> QED BY <1>1, <1>2, <1>5 DEF j

LEMMA PopWorks ==
  ASSUME NEW i, NEW m, Ran(i, m), i.op = "pop" /\ m = Pop(i),
         m.result = "Ok", flags' = flags
  PROVE  Promise!Pop(i)
<1> DEFINE w == i.w
           r == i.arg
           e == regs["esp"]
           p == PopStack(Now, w)
           c == p.popped[1]
           y == p.regs[r]
<1>1. Ready /\ IInv /\ i \in Instrs BY After DEF Ran
<1>2. w \in {1, 2} /\ w \in Nat /\ i.kind \in {"reg", "mem"} /\ r \in Regs
  BY <1>1, InstrIs
<1>3. CanPop(Now, w) BY <1>1, <1>2, NowIs DEF CanPop
<1>4. Pop(i) = IF p.result # "Ok" THEN p
               ELSE IF i.kind = "reg" THEN With(p, r, Merge(y, c))
               ELSE SetMem(p, y, c)
  BY DEF Pop
<1>5. p.result = "Ok" BY <1>4
<1>6. /\ p \in Machines /\ p.mem = mem /\ p.regs = [regs EXCEPT !["esp"] = Wrap(e + w)]
      /\ Readable(e, w) /\ c = Loaded(Now, e, w) /\ Word(c, w)
  <2> HIDE DEF w
  <2> QED BY <1>1, <1>2, <1>3, <1>5, NowIs, FirstPop
<1> HIDE DEF p, w
<1>7. regs \in [Regs -> Address] BY <1>1 DEF Ready, TypeOK
<1>8. p.regs["esp"] = Wrap(e + w) /\ \A q \in Regs \ {"esp"} : p.regs[q] = regs[q]
  BY <1>6, <1>7, Pointers
<1>9. y \in Address BY <1>2, <1>6 DEF Machines
<1>10. flags' = flags /\ regs' = m.regs /\ mem' = m.mem BY After
<1> SUFFICES ASSUME Promise!Holds(w)
             PROVE  \/ i.kind = "reg" /\ r = "esp" /\ Others' = Others
                    \/ /\ i.kind = "reg" /\ r # "esp"
                       /\ Promise!Pops(w)
                       /\ Others' = [Others EXCEPT ![r] = Promise!Merge(@, Promise!Take(w))]
                    \/ /\ i.kind = "mem" /\ base' = base /\ Others' = Others
                       /\ LET a == IF r = "esp" THEN Promise!Top + w ELSE Others[r]
                          IN  OnStack' = Promise!Overwritten(Promise!Drop(OnStack, w), a,
                                                             Promise!Take(w))
  BY <1>10 DEF Promise!Pop, Promise!Keep, Others, w
<1>11. e + w <= base /\ e + w \in Address /\ Wrap(e + w) = e + w
  BY <1>1, <1>2, HoldsIs, WrapSame
<1>12. Promise!Take(w) = c BY <1>1, <1>2, <1>6, TakeIs
<1> HIDE DEF c, y, e
<1>13. CASE i.kind = "reg"
  <2>1. m = With(p, r, Merge(y, c)) BY <1>4, <1>5, <1>13
  <2>2. Merge(y, c) \in Address BY <1>2, <1>6, <1>9, MergeIs
  <2>3. m.regs = [p.regs EXCEPT ![r] = Merge(y, c)] /\ m.mem = mem
    <3> DEFINE v == Merge(y, c)
               x == With(p, r, v)
    <3>1. m = x /\ v \in Address BY <2>1, <2>2
    <3> HIDE DEF v, r
    <3>0. p \in Machines /\ r \in Regs BY <1>2, <1>6
    <3>2. x.regs = [p.regs EXCEPT ![r] = v] /\ x.mem = p.mem BY <3>0, <3>1, WithIs
    <3> HIDE DEF x
    <3>3. m.regs = [p.regs EXCEPT ![r] = v] /\ m.mem = mem BY <1>6, <3>1, <3>2
    <3> QED BY <3>3 DEF v
  <2>4. m.regs[r] = Merge(y, c) /\ \A q \in Regs \ {r} : m.regs[q] = p.regs[q]
    BY <1>2, <1>6, <2>3 DEF Machines
  <2>5. CASE r = "esp"
    <3>1. \A q \in Regs \ {"esp"} : m.regs[q] = regs[q] BY <1>8, <2>4, <2>5
    <3>2. Others' = Others BY <1>10, <3>1 DEF Others
    <3> QED BY <1>13, <2>5, <3>2
  <2>6. CASE r # "esp"
    <3>1. m.regs["esp"] = e + w BY <1>8, <1>11, <2>4, <2>6, Pointers
    <3>2. ShrankBy(m, w) BY <1>2, <1>11, <3>1 DEF ShrankBy, e
    <3>3. Promise!Pops(w) BY <2>3, <3>2, Shrank DEF Promise!Pops
    <3>4. y = regs[r] BY <1>2, <1>8, <2>6 DEF y
    <3>5. \A q \in Regs \ {"esp"} : regs'[q] = IF q = r THEN Merge(regs[r], c) ELSE regs[q]
      BY <1>8, <1>10, <2>4, <3>4
    <3>6. Others' = [Others EXCEPT ![r] = Merge(@, c)]
      BY <1>2, <2>6, <3>5 DEF Others
    <3>7. Others' = [Others EXCEPT ![r] = Promise!Merge(@, Promise!Take(w))]
      BY <1>12, <3>6, SameOperators
    <3> QED BY <1>13, <2>6, <3>3, <3>7
  <2> QED BY <2>5, <2>6
<1>14. CASE i.kind = "mem"
  <2>1. m = SetMem(p, y, c) BY <1>4, <1>5, <1>14
  <2>2. m.regs = p.regs /\ Stores(m.mem, mem, y, c)
    BY <1>2, <1>5, <1>6, <1>9, <2>1, SetMemIs
  <2>3. Others' = Others BY <1>8, <1>10, <2>2 DEF Others
  <2>4. ShrankBy(m, w) BY <1>2, <1>8, <1>11, <2>2 DEF ShrankBy, e
  <2> DEFINE f == e + w
             s == StackOf(f, mem, base)
             t == StackOf(f, m.mem, base)
             d == Promise!Drop(OnStack, w)
             a == IF r = "esp" THEN Promise!Top + w ELSE Others[r]
  <2>5. base' = base /\ Held(f, m.mem, base) /\ OnStack' = t /\ d = s
    BY <2>4, Shrank DEF e
  <2>6. a = y
    <3>1. Promise!Top = e BY <1>1, View DEF e
    <3>2. Others[r] = IF r = "esp" THEN Others[r] ELSE regs[r] BY <1>2 DEF Others
    <3> QED BY <1>2, <1>8, <1>11, <3>1, <3>2 DEF y
  <2>7. Held(f, mem, base) BY <1>1, <2>5 DEF Held, Ready, TypeOK, HalfWords
  <2>8. /\ s \in Seq(HalfWords) /\ DOMAIN s = 1 .. base - f /\ Len(s) = base - f
        /\ f \in Nat /\ base \in Nat
    BY <2>7, StackOfIs
  <2>9. t \in Seq(HalfWords) /\ DOMAIN t = 1 .. base - f BY <2>5, StackOfIs
  <2>10. \A k \in 1 .. base - f : t[k] = IF (f + k) - y \in DOMAIN c THEN c[(f + k) - y]
                                         ELSE s[k]
    BY <1>2, <1>6, <1>9, <2>2, <2>5, <2>7, OverwrittenIs
  <2> HIDE DEF f, s, t, d, a
  <2>11. y \in Int BY <1>9, AddressIs
  <2>12. \A k \in 1 .. base - f : base - Len(s) + k - y = (f + k) - y BY <2>8, <2>11
  <2>13. t = [k \in DOMAIN s |-> LET j == base - Len(s) + k - y
                                 IN  IF j \in DOMAIN c THEN c[j] ELSE s[k]]
    <3> DEFINE g == [k \in DOMAIN s |-> LET j == base - Len(s) + k - y
                                        IN  IF j \in DOMAIN c THEN c[j] ELSE s[k]]
    <3>1. DOMAIN g = DOMAIN t /\ g = [k \in DOMAIN g |-> g[k]] BY <2>8, <2>9
    <3>2. t = [k \in DOMAIN t |-> t[k]] BY <2>9
    <3>3. \A k \in DOMAIN t : t[k] = g[k] BY <2>8, <2>9, <2>10, <2>12
    <3> HIDE DEF g
    <3>4. t = g BY <3>1, <3>2, <3>3
    <3> QED BY <3>4 DEF g
  <2>14. OnStack' = Promise!Overwritten(d, a, Promise!Take(w))
    <3>1. Promise!Overwritten(s, y, c) = t BY <2>13, Zenon DEF Promise!Overwritten
    <3> QED BY <1>12, <2>5, <2>6, <3>1
  <2> QED BY <1>14, <2>3, <2>5, <2>14 DEF a, d
<1> QED BY <1>2, <1>13, <1>14

HasFrame(e, M, b, n, j, w) ==
  Held(e, M, b) /\ w \in {1, 2} /\ n \in Nat /\ j \in 1 .. n /\ e + n * w <= b

(* The part of a frame of n values that has the j-th one that was pushed.  *)
LEMMA FramePart ==
  ASSUME NEW e, NEW M, NEW b, NEW n, NEW j, NEW w, HasFrame(e, M, b, n, j, w)
  PROVE  LET first == (n - j) * w + 1
         IN  IsPart(SubSeq(StackOf(e, M, b), first, first + w - 1), M, e + (n - j) * w, w)
<1>1. Held(e, M, b) /\ w \in {1, 2} /\ n \in Nat /\ j \in 1 .. n /\ e + n * w <= b
  BY DEF HasFrame
<1>2. e \in Nat /\ b \in Nat /\ w \in Nat BY <1>1, StackOfIs
<1> DEFINE k == n - j
           o == k * w
           q == n * w
<1>3. k \in Nat /\ k < n BY <1>1
<1>4. o \in Nat /\ q \in Nat /\ o + w <= q /\ e + q <= b BY <1>1, <1>3, Widths
<1> HIDE DEF o, q, k
<1>5. o + w <= b - e BY <1>2, <1>4
<1>6. HasPart(e, M, b, o, w) BY <1>1, <1>2, <1>4, <1>5 DEF HasPart
<1>7. IsPart(SubSeq(StackOf(e, M, b), o + 1, o + w), M, e + o, w) BY <1>6, PartOfStack
<1>8. (o + 1) + w - 1 = o + w BY <1>2, <1>4
<1>9. IsPart(SubSeq(StackOf(e, M, b), o + 1, (o + 1) + w - 1), M, e + o, w)
  BY <1>7, <1>8
<1> QED BY <1>9 DEF o, k

LEMMA FrameSize ==
  ASSUME NEW w \in {1, 2}, NEW n \in Nat
  PROVE  w * n = n * w
<1>1. CASE w = 1 BY <1>1
<1>2. CASE w = 2 BY <1>2
<1> QED BY <1>1, <1>2

LEMMA PushaWorks ==
  ASSUME TopUnmapped, NEW i, NEW m, Ran(i, m), i.op = "pusha" /\ m = Pusha(i),
         m.result = "Ok", flags' = flags
  PROVE  Promise!Pusha(i)
<1> DEFINE w == i.w
           n == Len(PushOrder)
           s == Saved(w)
           e == regs["esp"]
           q == n * w
           f == e - q
           N == m.mem
<1>1. Ready /\ IInv /\ i \in Instrs BY After DEF Ran
<1>2. w \in {1, 2} /\ w \in Nat /\ n \in Nat BY <1>1, InstrIs, PushOrderIs
<1>3. m = PushAll(Now, s, w) BY DEF Pusha, Saved
<1>4. \A j \in 1 .. n : Word(s[j], w) /\ s[j] = Cells(regs[PushOrder[j]], w)
  BY <1>1, <1>2, SavedIs
<1>5. /\ m \in Machines /\ Agree(mem, m.mem, e)
      /\ \A r \in Regs \ {"esp"} : m.regs[r] = regs[r]
      /\ Filled(m, e, s, n, w)
  <2>1. CanPushAll(Now, s, n, w, w) BY <1>1, <1>2, CanPusha
  <2> HIDE DEF s, n, w
  <2> DEFINE p == PushAll(Now, s, w)
  <2>2. /\ p \in Machines /\ Agree(mem, p.mem, e)
        /\ \A r \in Regs \ {"esp"} : p.regs[r] = regs[r]
        /\ p.result = "Ok" => Filled(p, e, s, n, w)
    BY <1>1, <2>1, NowIs, PushAllIs
  <2>3. m = p BY <1>3
  <2> HIDE DEF p
  <2> QED BY <2>2, <2>3
<1> HIDE DEF s, n, w
<1>6. /\ m.regs["esp"] = f /\ q <= e
      /\ \A j \in 1 .. n : \A l \in 1 .. w : N[(e - j * w) + l - 1] = s[j][l]
  BY <1>5 DEF Filled
<1>7. q \in Nat BY <1>2, Widths
<1>8. Held(e, mem, base) /\ OnStack = StackOf(e, mem, base) /\ e \in Nat /\ base \in Nat
  BY <1>1, View
<1>9. /\ Held(m.regs["esp"], N, base') /\ OnStack' = StackOf(m.regs["esp"], N, base')
      /\ m.regs["esp"] <= base => base' = base
      /\ e <= base
  BY After
<1> HIDE DEF q, e, N
<1>10. f <= base /\ f + q = e /\ q <= base - f /\ f + q <= base BY <1>6, <1>7, <1>8, <1>9
<1> HIDE DEF f
<1>11. base' = base /\ Held(f, N, base) /\ OnStack' = StackOf(f, N, base)
  BY <1>6, <1>9, <1>10
<1>12. Promise!Drop(OnStack', w * n) = OnStack
  <2>1. /\ Held(f + q, N, base)
        /\ SubSeq(StackOf(f, N, base), q + 1, Len(StackOf(f, N, base)))
             = StackOf(f + q, N, base)
    BY <1>7, <1>10, <1>11, RestOfStack
  <2>2. StackOf(e, N, base) = StackOf(e, mem, base)
    BY <1>5, <1>8, <1>10, <2>1, AgreedStack DEF N
  <2>3. Promise!Drop(OnStack', q) = OnStack
    BY <1>8, <1>10, <1>11, <2>1, <2>2 DEF Promise!Drop
  <2>4. w * n = q BY <1>2, FrameSize DEF q
  <2> QED BY <2>3, <2>4
<1>13. ASSUME NEW j \in 1 .. n
       PROVE  Promise!InFrame(OnStack', j, Promise!Reg(PushOrder[j]), w)
  <2> DEFINE first == (n - j) * w + 1
             o == (n - j) * w
             p == SubSeq(OnStack', first, first + w - 1)
             c == Cells(regs[PushOrder[j]], w)
  <2>1. HasFrame(f, N, base, n, j, w) BY <1>2, <1>10, <1>11 DEF HasFrame, q
  <2>2. IsPart(p, N, f + o, w) BY <1>11, <2>1, FramePart
  <2>3. Word(c, w) /\ s[j] = c BY <1>4
  <2>4. f + o = e - j * w /\ o \in Int /\ j * w \in Int
    <3>1. CASE w = 1 BY <1>2, <1>8, <3>1 DEF f, q
    <3>2. CASE w = 2 BY <1>2, <1>8, <3>2 DEF f, q
    <3> QED BY <1>2, <3>1, <3>2
  <2>5. PushOrder[j] \in Regs BY PushOrderIs DEF n
  <2>6. Promise!Reg(PushOrder[j]) = regs[PushOrder[j]] BY <1>1, <2>5, View
  <2> HIDE DEF p, c, o
  <2>7. p \in Seq(HalfWords) /\ Len(p) = w /\ \A l \in 1 .. w : p[l] = N[(f + o) + l - 1]
    BY <2>2 DEF IsPart
  <2>8. c \in Seq(HalfWords) /\ Len(c) = w BY <2>3 DEF Word
  <2>9. \A l \in 1 .. w : p[l] = c[l] BY <1>6, <2>3, <2>4, <2>7
  <2>10. p = c BY <2>7, <2>8, <2>9, SameSequence
  <2>11. p = Promise!Cells(Promise!Reg(PushOrder[j]), w)
    BY <2>6, <2>10, SameOperators DEF c
  <2> QED BY <2>11 DEF Promise!InFrame, p, n
<1>14. Others' = Others BY <1>5, SameOthers
<1>15. DOMAIN PushOrder = 1 .. n BY PushOrderIs DEF n
<1>16. base' = base BY <1>11
<1> QED BY <1>12, <1>13, <1>14, <1>15, <1>16
    DEF Promise!Pusha, Promise!Keep, Others, w, n

LEMMA PopaWorks ==
  ASSUME NEW i, NEW m, Ran(i, m), i.op = "popa" /\ m = Popa(i),
         m.result = "Ok", flags' = flags
  PROVE  Promise!Popa(i)
<1> DEFINE w == i.w
           n == Len(PushOrder)
           e == regs["esp"]
           q == n * w
           p == PopAll(Now, n, w)
           at(r) == CHOOSE j \in DOMAIN PushOrder : PushOrder[j] = r
           new == [r \in Regs |-> IF r = "esp" THEN p.regs[r]
                                  ELSE Merge(p.regs[r], p.popped[n + 1 - at(r)])]
<1>1. Ready /\ IInv /\ i \in Instrs BY After DEF Ran
<1>2. w \in {1, 2} /\ w \in Nat /\ n \in Nat BY <1>1, InstrIs, PushOrderIs
<1>3. Popa(i) = IF p.result # "Ok" THEN p ELSE [p EXCEPT !.regs = new] BY DEF Popa
<1>4. p.result = "Ok" BY <1>3
<1>5. m = [p EXCEPT !.regs = new] BY <1>3, <1>4
<1>6. /\ p \in Machines /\ p.mem = mem /\ \A r \in Regs \ {"esp"} : p.regs[r] = regs[r]
      /\ Len(p.popped) = n /\ \A j \in 1 .. n : Word(p.popped[j], w)
  <2> HIDE DEF w, n
  <2> QED BY <1>1, <1>2, <1>4, NowIs, PopAllType
<1>7. m.mem = mem /\ m.regs = new
  <2> HIDE DEF new, p
  <2> QED BY <1>5, <1>6 DEF Machines
<1>8. w * n = q /\ q \in Nat BY <1>2, FrameSize, Widths
<1>9. flags' = flags /\ regs' = m.regs /\ mem' = m.mem BY After
<1> SUFFICES ASSUME Promise!Holds(w * n)
             PROVE  /\ Promise!Pops(w * n)
                    /\ \A j \in DOMAIN PushOrder :
                         LET r == PushOrder[j]
                         IN  r # "esp" =>
                               /\ Promise!InFrame(OnStack, j, Others'[r], w)
                               /\ w = 1 => Others'[r] \div Half = Others[r] \div Half
  BY <1>9, Zenon DEF Promise!Popa, Promise!Keep, Others, w, n
<1>10. Promise!Holds(q) BY <1>8
<1> HIDE DEF w, q
<1>11. e + q <= base /\ e + q \in Address BY <1>1, <1>8, <1>10, HoldsIs
<1> HIDE DEF n, p, new, e
<1>12. Emptied(p, mem, e, n, w)
  <2>1. e + q < Space BY <1>11, AddressIs
  <2>2. Now.mem = mem /\ Now.regs["esp"] = e BY <1>1, NowIs DEF e
  <2>3. CanPop(Now, w) /\ Now \in Machines /\ Now.popped = <<>>
    BY <1>1, <1>2, NowIs DEF CanPop
  <2>4. CanPopAll(Now, n, w) BY <1>2, <2>1, <2>2, <2>3 DEF CanPopAll, q
  <2>5. p = PopAll(Now, n, w) BY DEF p
  <2>6. Emptied(PopAll(Now, n, w), Now.mem, Now.regs["esp"], n, w)
    BY <1>4, <2>4, <2>5, PopAllIs
  <2> QED BY <2>2, <2>5, <2>6
<1>13. /\ p.regs["esp"] = e + q
       /\ \A j \in 1 .. n : \A l \in 1 .. w :
            p.popped[j][l] = mem[(e + (j - 1) * w) + l - 1]
  BY <1>12 DEF Emptied, q
<1>14. m.regs["esp"] = e + q BY <1>7, <1>13, Pointers DEF new
<1>15. ShrankBy(m, q) BY <1>8, <1>11, <1>14 DEF ShrankBy, e
<1>16. Promise!Pops(w * n) BY <1>7, <1>8, <1>15, Shrank DEF Promise!Pops
<1>17. DOMAIN PushOrder = 1 .. n BY PushOrderIs DEF n
<1>18. Held(e, mem, base) /\ OnStack = StackOf(e, mem, base) /\ e \in Nat
  BY <1>1, View DEF e
<1>19. ASSUME NEW j \in 1 .. n, PushOrder[j] # "esp"
       PROVE  /\ Promise!InFrame(OnStack, j, Others'[PushOrder[j]], w)
              /\ w = 1 => Others'[PushOrder[j]] \div Half = Others[PushOrder[j]] \div Half
  <2> DEFINE r == PushOrder[j]
             k == n + 1 - j
             c == p.popped[k]
             v == Merge(regs[r], c)
             first == (n - j) * w + 1
             o == (n - j) * w
             x == SubSeq(OnStack, first, first + w - 1)
  <2>1. r \in Regs \ {"esp"} BY <1>19, PushOrderIs DEF n
  <2>2. at(r) = j
    <3>1. \A a \in 1 .. n : PushOrder[a] = PushOrder[j] => a = j BY PushOrderIs DEF n
    <3> QED BY <1>17, <3>1
  <2>3. k \in 1 .. n /\ k - 1 = n - j BY <1>2
  <2>4. m.regs[r] = v
    <3>1. new[r] = Merge(p.regs[r], p.popped[n + 1 - at(r)])
      <4> HIDE DEF r
      <4> QED BY <2>1 DEF new
    <3>2. p.regs[r] = regs[r] BY <1>6, <2>1
    <3> QED BY <1>7, <2>2, <3>1, <3>2
  <2>5. Word(c, w) BY <1>6, <2>3
  <2>6. regs[r] \in Address BY <1>1, <2>1, NowIs
  <2>7. Cells(v, w) = c /\ (w = 1 => v \div Half = regs[r] \div Half)
    <3> HIDE DEF r, c
    <3> QED BY <1>2, <2>5, <2>6, MergeIs
  <2>8. HasFrame(e, mem, base, n, j, w) BY <1>2, <1>11, <1>18 DEF HasFrame, q
  <2>9. IsPart(x, mem, e + o, w) BY <1>18, <2>8, FramePart
  <2> HIDE DEF x, c
  <2>10. \A l \in 1 .. w : c[l] = mem[(e + o) + l - 1] BY <1>13, <2>3 DEF c
  <2> HIDE DEF o, k
  <2>11. x \in Seq(HalfWords) /\ Len(x) = w /\ \A l \in 1 .. w : x[l] = mem[(e + o) + l - 1]
    BY <2>9 DEF IsPart
  <2>12. x = c
    <3>1. c \in Seq(HalfWords) /\ Len(c) = w BY <2>5 DEF Word
    <3>2. \A l \in 1 .. w : x[l] = c[l] BY <2>10, <2>11
    <3> QED BY <2>11, <3>1, <3>2, SameSequence
  <2>13. Others'[r] = v /\ Others[r] = regs[r]
    <3> HIDE DEF r, v
    <3> QED BY <1>9, <2>1, <2>4 DEF Others
  <2> HIDE DEF v, r
  <2>14. x = Promise!Cells(Others'[r], w) BY <2>7, <2>12, <2>13, SameOperators
  <2>15. Promise!InFrame(OnStack, j, Others'[r], w) BY <2>14 DEF Promise!InFrame, x, n
  <2> QED BY <2>7, <2>13, <2>15 DEF r
<1> QED BY <1>16, <1>17, <1>19

LEMMA PushfWorks ==
  ASSUME TopUnmapped, NEW i, NEW m, Ran(i, m), i.op = "pushf" /\ m = Pushf(i),
         m.result = "Ok", flags' = flags
  PROVE  Promise!Pushf(i)
<1> DEFINE w == i.w
           c == Cells(flags, 2)
           p == PushStack(Now, c, w)
<1>1. Ready /\ i \in Instrs BY After DEF Ran
<1>2. w \in {1, 2} /\ 2 \in {1, 2} /\ w <= 2 BY <1>1, InstrIs
<1>3. Word(c, 2) BY <1>1, CellsAre DEF Ready, TypeOK
<1>4. m = p BY DEF Pushf
<1> HIDE DEF c, w
<1>5. CanPush(Now, c, w, 2) BY <1>1, <1>2, <1>3, NowIs DEF CanPush
<1>6. /\ \A r \in Regs \ {"esp"} : p.regs[r] = regs[r]
      /\ p.result = "Ok" => 2 = w /\ Grown(p, Now, c, w)
  BY <1>1, <1>2, <1>5, NowIs, FirstPush
<1> HIDE DEF p
<1>7. w = 2 /\ Grown(m, Now, c, 2) BY <1>4, <1>6
<1>8. GrewBy(m, c, 2) BY <1>1, <1>2, <1>3, <1>7, NowIs, GrownGrew
<1>9. OnStack' = c \o OnStack /\ base' = base BY <1>8, Grew
<1>10. Others' = Others BY <1>4, <1>6, SameOthers
<1>11. c = Promise!Cells(flags, w) BY <1>7, SameOperators DEF c
<1>12. Promise!Pushes(c) BY <1>9 DEF Promise!Pushes
<1>13. Promise!Pushes(Promise!Cells(flags, w)) BY <1>11, <1>12
<1> QED BY <1>10, <1>13 DEF Promise!Pushf, Others, w

LEMMA PopfWorks ==
  ASSUME NEW i, NEW m, Ran(i, m), m = Popf, m.result = "Ok",
         flags' = Stored(Number(m.popped[1]))
  PROVE  Promise!Popf(i)
<1> DEFINE e == regs["esp"]
           c == Loaded(Now, e, 2)
<1>1. Ready /\ IInv BY After DEF Ran
<1>2. /\ m.mem = mem /\ m.regs = [regs EXCEPT !["esp"] = Wrap(e + 2)]
      /\ \A r \in Regs \ {"esp"} : m.regs[r] = regs[r]
      /\ m.popped[1] = c /\ Word(c, 2)
  <2>1. Word(m.popped[1], 2) BY <1>1, PopfType
  <2> QED BY <1>1, <2>1, PopfIs
<1>3. m.regs["esp"] = Wrap(e + 2) BY <1>1, <1>2, Pointers DEF Ready, TypeOK
<1>4. Others' = Others BY <1>2, SameOthers
<1>5. CanPop(Now, 2) /\ 2 \in {1, 2} BY <1>1, NowIs DEF CanPop
<1>6. Readable(e, 2)
  <2> DEFINE p == PopStack(Now, 2)
  <2>1. p.result = "Ok" => Readable(e, 2) BY <1>1, <1>5, NowIs, FirstPop
  <2> HIDE DEF p
  <2>2. m = p BY DEF Popf, p
  <2> QED BY <2>1, <2>2
<1> HIDE DEF c
<1> SUFFICES ASSUME Promise!Holds(2)
             PROVE  /\ Promise!Pops(2)
                    /\ \A b \in FlagBits :
                         (flags' \div 2 ^ b) % 2
                           = (Promise!Number(Promise!Take(2)) \div 2 ^ b) % 2
  BY <1>4 DEF Promise!Popf, Promise!Keep, Others
<1>7. e + 2 <= base /\ e + 2 \in Address /\ Wrap(e + 2) = e + 2
  <2>1. 2 \in Nat OBVIOUS
  <2> QED BY <1>1, <2>1, HoldsIs, WrapSame
<1>8. Promise!Take(2) = c BY <1>1, <1>5, <1>6, TakeIs DEF c
<1>9. ShrankBy(m, 2) BY <1>3, <1>7 DEF ShrankBy
<1>10. Promise!Pops(2) BY <1>2, <1>9, Shrank DEF Promise!Pops
<1> DEFINE v == Number(c)
<1>11. v \in Address BY <1>2, <1>5, NumberIs
<1>12. flags' = Stored(v) BY <1>2
<1>13. v = Promise!Number(Promise!Take(2)) BY <1>8, SameOperators
<1> HIDE DEF v
<1>14. \A b \in FlagBits : (Stored(v) \div 2 ^ b) % 2 = (v \div 2 ^ b) % 2
  BY <1>11, StoredIs
<1> QED BY <1>10, <1>12, <1>13, <1>14

(* cycle adds what a logic function has taken off.                         *)
LEMMA BackAgain ==
  ASSUME NEW x \in Address
  PROVE  Wrap(Wrap(x - InstrSize) + InstrSize) = x
<1> DEFINE s == InstrSize
           d == x - s
<1>1. x \in Int /\ s \in Int /\ Space \in Nat \ {0} BY AddressIs, StackAssumption, Spaces
<1>2. d \in Int /\ d + s = x BY <1>1
<1> HIDE DEF d, s
<1>3. ((d % Space) + s) % Space = (d + s) % Space BY <1>1, <1>2, AddRemainder
<1>4. Wrap(Wrap(d) + s) = Wrap(x) BY <1>2, <1>3 DEF Wrap
<1> QED BY <1>4, WrapSame DEF d, s

LEMMA CallWorks ==
  ASSUME TopUnmapped, NEW i, NEW m, Ran(i, m), i.op = "call" /\ m = Call(i),
         m.result = "Ok", flags' = flags
  PROVE  Promise!Call(i)
<1> DEFINE w == i.w
           r == i.arg
           e == regs["esp"]
           a == Wrap(eip + InstrSize)
           c == Cells(a, 2)
           p == PushStack(Now, c, 2)
           t == Target(p, i)
<1>1. Ready /\ IInv /\ i \in Instrs BY After DEF Ran
<1>2. /\ w = 2 /\ p \in Machines /\ p.result = "Ok" /\ Grown(p, Now, c, 2)
      /\ \A q \in Regs \ {"esp"} : p.regs[q] = regs[q]
      /\ Available(p, i) /\ m = [p EXCEPT !.eip = Wrap(t - InstrSize)]
  BY <1>1, CallIs
<1>3. /\ i.kind \in {"reg", "imm", "mem"}
      /\ i.kind = "imm" => r \in Address
      /\ i.kind # "imm" => r \in Regs
  BY <1>1, InstrIs
<1>4. Word(c, 2) BY <1>1, AfterType
<1>5. t \in Address
  <2> HIDE DEF p
  <2> QED BY <1>1, <1>2, TargetType DEF Reads
<1>6. Target(p, i) = t OBVIOUS
<1> HIDE DEF c, p, t
<1>7. /\ m.regs = p.regs /\ m.mem = p.mem /\ m.eip = Wrap(t - InstrSize)
  BY <1>2 DEF Machines
<1>8. GrewBy(m, c, 2)
  <2>1. 2 \in {1, 2} OBVIOUS
  <2> QED BY <1>1, <1>2, <1>4, <1>7, <2>1, NowIs, GrownGrew
<1>9. Others' = Others BY <1>2, <1>7, SameOthers
<1>10. Promise!Pushes(c) BY <1>8, Grew DEF Promise!Pushes
<1>11. c = Promise!Cells((eip + InstrSize) % Promise!Space, w)
  BY <1>2, SameOperators DEF c, Wrap
<1>12. eip' = t
  <2>1. eip' = Wrap(m.eip + InstrSize) BY DEF Ran, Execute
  <2> QED BY <1>5, <1>7, <2>1, BackAgain
<1>13. i.kind = "imm" => eip' = (eip + InstrSize + r) % Promise!Space
  BY <1>6, <1>12, SameOperators DEF Target, Wrap
<1>14. i.kind # "imm" => t = Number(Operand(p, i)) BY <1>6 DEF Target
<1> DEFINE top   == Promise!Top - w
           after == IF r = "esp" THEN top ELSE Others[r]
           k     == after - top
<1>15. Promise!Top = e /\ e \in Nat /\ base \in Nat BY <1>1, View
<1>16. i.kind # "imm" => after = p.regs[r] /\ after \in Address
  <2> SUFFICES ASSUME i.kind # "imm" PROVE after = p.regs[r] /\ after \in Address OBVIOUS
  <2>1. r \in Regs BY <1>3
  <2>2. p.regs \in [Regs -> Address] BY <1>2 DEF Machines
  <2>3. CASE r = "esp"
    <3>1. p.regs["esp"] = e - 2 BY <1>1, <1>2, NowIs DEF Grown
    <3> QED BY <1>2, <1>15, <2>1, <2>2, <2>3, <3>1
  <2>4. CASE r # "esp"
    <3>1. Others[r] = regs[r] BY <2>1, <2>4 DEF Others
    <3> QED BY <1>2, <2>1, <2>2, <2>4, <3>1
  <2> QED BY <2>3, <2>4
<1>17. top = e - 2 /\ top \in Int BY <1>2, <1>15
<1>18. k = after - top OBVIOUS
<1> HIDE DEF top, after, k
<1>19. ASSUME i.kind = "reg" PROVE eip' = after
  <2>1. Operand(p, i) = Cells(after, 2) BY <1>2, <1>19, <1>16 DEF Operand
  <2>2. Number(Cells(after, 2)) = after BY <1>19, <1>16, CellsAre
  <2> QED BY <1>12, <1>14, <1>19, <2>1, <2>2
<1>20. ASSUME i.kind = "mem", after \in top .. base - 2
       PROVE  eip' = Promise!Number(SubSeq(OnStack', k + 1, k + 2))
  <2>1. after \in Address /\ Available(p, i) /\ after = p.regs[r] BY <1>2, <1>20, <1>16
  <2>2. Readable(after, 2) /\ Operand(p, i) = Loaded(p, after, 2)
    BY <1>2, <1>20, <2>1 DEF Available, Operand
  <2>3. Held(top, m.mem, base) /\ OnStack' = StackOf(top, m.mem, base)
    <3>1. m.regs["esp"] = top BY <1>8, <1>17 DEF GrewBy
    <3>2. base' = base BY <1>8, Grew
    <3>3. /\ Held(regs'["esp"], mem', base') /\ OnStack' = StackOf(regs'["esp"], mem', base')
          /\ regs' = m.regs /\ mem' = m.mem
      BY After
    <3> QED BY <3>1, <3>2, <3>3
  <2>4. after \in Int /\ k \in Nat /\ k + 2 <= base - top /\ top + k = after
    <3>1. after \in Int BY <2>1, AddressIs
    <3> QED BY <1>20, <1>15, <1>17, <1>18, <3>1
  <2>5. 2 \in Nat OBVIOUS
  <2> DEFINE q == SubSeq(OnStack', k + 1, k + 2)
             l == Loaded(p, after, 2)
  <2>6. IsPart(q, m.mem, after, 2)
    <3>1. HasPart(top, m.mem, base, k, 2) BY <2>3, <2>4, <2>5 DEF HasPart
    <3>2. IsPart(SubSeq(StackOf(top, m.mem, base), k + 1, k + 2), m.mem, top + k, 2)
      BY <3>1, PartOfStack
    <3> QED BY <2>3, <2>4, <3>2
  <2>7. /\ l \in Seq(HalfWords) /\ Len(l) = 2
        /\ \A j \in 1 .. 2 : l[j] = m.mem[after + j - 1]
    <3>1. 2 \in {1, 2} OBVIOUS
    <3>2. Word(l, 2) BY <1>2, <2>1, <2>2, <3>1, LoadedIs
    <3> QED BY <1>7, <3>2 DEF Word, Loaded
  <2>8. q \in Seq(HalfWords) /\ Len(q) = 2 /\ \A j \in 1 .. 2 : q[j] = m.mem[after + j - 1]
    BY <2>6 DEF IsPart
  <2> HIDE DEF q, l
  <2>9. q = l BY <2>7, <2>8, SameSequence
  <2> QED BY <1>12, <1>14, <1>20, <2>2, <2>9, SameOperators DEF q, l
<1> HIDE DEF a
<1> DEFINE Moved == /\ i.kind = "imm" => eip' = (eip + InstrSize + r) % Promise!Space
                    /\ i.kind = "reg" => eip' = after
                    /\ i.kind = "mem" /\ after \in top .. base - 2 =>
                         eip' = Promise!Number(SubSeq(OnStack', k + 1, k + 2))
<1>21. Moved BY <1>13, <1>19, <1>20
<1> QED BY <1>9, <1>10, <1>11, <1>21, Zenon DEF Promise!Call, Others, w, r, top, after, k

LEMMA RetWorks ==
  ASSUME NEW i, NEW m, Ran(i, m), i.op = "ret" /\ m = Ret(i), m.result = "Ok",
         flags' = flags
  PROVE  Promise!Ret(i)
<1> DEFINE w == i.w
           n == i.clear
           e == regs["esp"]
           s == InstrSize
           p == PopStack(Now, w)
           c == p.popped[1]
           before == Wrap(Number(c) - s)
<1>1. Ready /\ IInv /\ i \in Instrs BY After DEF Ran
<1>2. w \in {1, 2} /\ w \in Nat /\ n \in Nat BY <1>1, InstrIs
<1>3. /\ Word(c, w) /\ c = Loaded(Now, e, w) /\ m.mem = mem
      /\ m.eip = IF w = 1 THEN before % Half ELSE before
      /\ m.regs["esp"] = Wrap(Wrap(e + w) + n)
      /\ \A r \in Regs \ {"esp"} : m.regs[r] = regs[r]
  BY <1>1, RetIs
<1>4. Readable(e, w)
  <2> HIDE DEF w
  <2>1. CanPop(Now, w) BY <1>1, <1>2, NowIs DEF CanPop
  <2>2. p.result = "Ok" => Readable(e, w) BY <1>1, <1>2, <2>1, NowIs, FirstPop
  <2>3. p.result = "Ok"
    <3> SUFFICES ASSUME p.result # "Ok" PROVE FALSE OBVIOUS
    <3>1. m = p BY DEF Ret, w
    <3> QED BY <3>1
  <2> QED BY <2>2, <2>3
<1> HIDE DEF w, n, p, c
<1>5. Others' = Others BY <1>3, SameOthers
<1> SUFFICES ASSUME Promise!Holds(w + n)
             PROVE  /\ Promise!Pops(w + n)
                    /\ w = 2 \/ Promise!Take(1)[1] >= s
                         => eip' = Promise!Number(Promise!Take(w))
  BY <1>5, Zenon DEF Promise!Ret, Others, w, n
<1>6. e \in Nat /\ base \in Nat /\ Len(OnStack) = base - e /\ Held(e, mem, base)
  BY <1>1, View
<1>7. e + (w + n) <= base /\ e + (w + n) \in Address
  <2>1. w + n \in Nat BY <1>2
  <2> QED BY <1>1, <2>1, HoldsIs
<1> HIDE DEF e
<1>8. e + w \in Address /\ e + w <= base
  <2>1. base < Space /\ Space \in Nat BY <1>6, AddressIs, Spaces DEF Held
  <2>2. e + w \in 0 .. Space - 1 /\ e + w <= base BY <1>2, <1>6, <1>7, <2>1
  <2> QED BY <2>2 DEF Address
<1>9. m.regs["esp"] = e + (w + n)
  <2>1. Wrap(e + w) = e + w BY <1>8, WrapSame
  <2>2. (e + w) + n = e + (w + n) BY <1>2, <1>6
  <2>3. Wrap(e + (w + n)) = e + (w + n) BY <1>7, WrapSame
  <2> QED BY <1>3, <2>1, <2>2, <2>3
<1>10. ShrankBy(m, w + n) BY <1>2, <1>7, <1>9 DEF ShrankBy, e
<1>11. Promise!Pops(w + n) BY <1>3, <1>10, Shrank DEF Promise!Pops
<1>12. Promise!Holds(w) BY <1>2, <1>6, <1>8 DEF Promise!Holds
<1>13. Promise!Take(w) = c BY <1>1, <1>2, <1>3, <1>4, <1>12, TakeIs DEF e
<1> DEFINE v == Number(c)
<1>14. v \in Address /\ v \in Int BY <1>2, <1>3, NumberIs, AddressIs
<1>15. Promise!Number(Promise!Take(w)) = v BY <1>13, SameOperators
<1>16. eip' = Wrap(m.eip + s) BY DEF Ran, Execute
<1>17. Wrap(before + s) = v
  <2> HIDE DEF v
  <2>1. Wrap(Wrap(v - s) + s) = v BY <1>14, BackAgain
  <2> QED BY <2>1 DEF v
<1>18. CASE w = 2 BY <1>3, <1>11, <1>15, <1>16, <1>17, <1>18
<1>19. CASE w = 1
  <2> SUFFICES ASSUME Promise!Take(1)[1] >= s PROVE eip' = v
    BY <1>11, <1>15, <1>19
  <2>1. v = c[1] /\ v \in HalfWords /\ v >= s BY <1>3, <1>13, <1>19 DEF Word, Number
  <2> HIDE DEF v
  <2>2. s \in Int /\ s > 0 BY StackAssumption, AddressIs
  <2>3. Half \in Nat \ {0} /\ Half <= Space /\ Space \in Nat BY Spaces
  <2>4. v - s \in 0 .. Half - 1 BY <1>14, <2>1, <2>2, <2>3 DEF HalfWords
  <2>5. v - s \in 0 .. Space - 1 BY <1>14, <2>2, <2>3, <2>4
  <2>6. Wrap(v - s) = v - s BY <2>5, WrapSame DEF Address
  <2>7. (v - s) % Half = v - s
    <3> DEFINE x == v - s
    <3>1. x \in 0 .. Half - 1 BY <2>4
    <3> HIDE DEF x
    <3>2. x % Half = x BY <2>3, <3>1
    <3> QED BY <3>2 DEF x
  <2>8. before = v - s BY <2>6 DEF v
  <2> HIDE DEF before
  <2>9. m.eip = before BY <1>3, <1>19, <2>7, <2>8
  <2> QED BY <1>16, <1>17, <2>9
<1> QED BY <1>2, <1>18, <1>19

LEMMA EnterWorks ==
  ASSUME TopUnmapped, NEW i, NEW m, Ran(i, m), i.op = "enter" /\ m = Enter(i),
         m.result = "Ok", flags' = flags
  PROVE  Promise!Enter(i)
<1> DEFINE e == regs["esp"]
           c == Cells(regs["ebp"], 2)
           f == e - 2
           n == i.locals
           g == f - n
           N == m.mem
<1>1. Ready /\ IInv /\ i \in Instrs BY After DEF Ran
<1>2. /\ g \in Nat /\ m.regs["esp"] = g /\ m.regs["ebp"] = f
      /\ \A r \in Regs \ {"esp", "ebp"} : m.regs[r] = regs[r]
      /\ Agree(mem, N, e) /\ \A j \in 1 .. 2 : N[f + j - 1] = c[j]
  BY <1>1, EnterIs
<1>3. n \in Nat
  <2>1. n \in 0 .. WriteableMemory /\ WriteableMemory \in Int
    BY <1>1, InstrIs, Pointers, AddressIs
  <2> HIDE DEF n
  <2> QED BY <2>1
<1>4. Held(e, mem, base) /\ OnStack = StackOf(e, mem, base) /\ e \in Nat /\ base \in Nat
  BY <1>1, View
<1>5. /\ Held(m.regs["esp"], N, base') /\ OnStack' = StackOf(m.regs["esp"], N, base')
      /\ m.regs["esp"] <= base => base' = base
      /\ e <= base /\ regs' = m.regs
  BY After
<1>6. c \in Seq(HalfWords) /\ Len(c) = 2 /\ 2 \in Nat
  <2>1. Word(c, 2) BY <1>1, NowIs, CellsAre
  <2> QED BY <2>1 DEF Word
<1> HIDE DEF c, e, n, N
<1>7. /\ g <= base /\ g + n = f /\ n <= base - g /\ f \in Nat
  BY <1>2, <1>3, <1>4, <1>5
<1> HIDE DEF g
<1>8. base' = base /\ Held(g, N, base) /\ OnStack' = StackOf(g, N, base)
  BY <1>2, <1>5, <1>7
<1>9. /\ Held(f, N, base)
      /\ SubSeq(StackOf(g, N, base), n + 1, Len(StackOf(g, N, base))) = StackOf(f, N, base)
  <2> HIDE DEF f
  <2>1. /\ Held(g + n, N, base)
        /\ SubSeq(StackOf(g, N, base), n + 1, Len(StackOf(g, N, base)))
             = StackOf(g + n, N, base)
    BY <1>3, <1>7, <1>8, RestOfStack
  <2> QED BY <1>7, <2>1
<1>10. StackOf(e - 2, N, base) = c \o StackOf(e, mem, base)
  <2>1. StoredAt(N, e - 2, c) BY <1>2, <1>6 DEF StoredAt
  <2>2. Above(e, mem, N, base, 2, c) BY <1>2, <1>4, <1>6, <1>9, <2>1 DEF Above
  <2> QED BY <2>2, PushedStack
<1>11. Promise!Drop(OnStack', n) = c \o OnStack
  BY <1>4, <1>8, <1>9, <1>10 DEF Promise!Drop
<1>12. Others["ebp"] = regs["ebp"] BY Pointers DEF Others
<1>13. c = Promise!Cells(Others["ebp"], 2) BY <1>12, SameOperators DEF c
<1>14. Promise!Top = e BY <1>1, View DEF e
<1>15. Others' = [Others EXCEPT !["ebp"] = Promise!Top - 2]
  <2>1. \A r \in Regs \ {"esp"} : regs'[r] = IF r = "ebp" THEN f ELSE regs[r]
    BY <1>2, <1>5
  <2> QED BY <1>14, <2>1 DEF Others
<1>16. base' = base BY <1>8
<1>17. Promise!Drop(OnStack', n) = Promise!Cells(Others["ebp"], 2) \o OnStack
  BY <1>11, <1>13
<1> QED BY <1>15, <1>16, <1>17, Zenon DEF Promise!Enter, Promise!Keep, Others, n

LEMMA LeaveWorks ==
  ASSUME NEW i, NEW m, Ran(i, m), m = Leave, m.result = "Ok", flags' = flags
  PROVE  Promise!Leave(i)
<1> DEFINE e == regs["esp"]
           x == regs["ebp"]
           c == Loaded(Now, x, 2)
           k == x - e
<1>1. Ready /\ IInv BY After DEF Ran
<1>2. /\ Word(c, 2) /\ m.mem = mem
      /\ m.regs["esp"] = Wrap(x + 2) /\ m.regs["ebp"] = Number(c)
      /\ \A r \in Regs \ {"esp", "ebp"} : m.regs[r] = regs[r]
  BY <1>1, LeaveIs
<1>3. Readable(x, 2)
  <2> DEFINE n == With(Now, "esp", x)
             p == PopStack(n, 2)
  <2>1. n \in Machines /\ n.result = "Ok" /\ n.popped = <<>> /\ n.regs["esp"] = x
    <3>1. /\ n \in Machines /\ n.result = "Ok" /\ n.popped = <<>>
          /\ n.regs = [regs EXCEPT !["esp"] = x]
      BY <1>1, NowIs, WithIs, Pointers
    <3> HIDE DEF n
    <3> QED BY <1>1, <3>1, Pointers DEF Ready, TypeOK
  <2>2. CanPop(n, 2) /\ 2 \in {1, 2} BY <2>1 DEF CanPop
  <2>3. p.result = "Ok" => Readable(n.regs["esp"], 2)
    <3> HIDE DEF n
    <3> QED BY <2>1, <2>2, FirstPop
  <2>4. p.result = "Ok"
    <3> SUFFICES ASSUME p.result # "Ok" PROVE FALSE OBVIOUS
    <3>1. m = p BY DEF Leave
    <3> QED BY <3>1
  <2> QED BY <2>1, <2>3, <2>4
<1>4. x \in Address /\ x \in Int /\ Others["ebp"] = x
  BY <1>1, NowIs, AddressIs, Pointers DEF Others
<1>5. Promise!Top = e /\ e \in Nat /\ base \in Nat /\ Held(e, mem, base) BY <1>1, View
<1>6. flags' = flags /\ regs' = m.regs BY After
<1> HIDE DEF c, e, x
<1> SUFFICES ASSUME x \in e .. base - 2
             PROVE  /\ Promise!Pops(k + 2)
                    /\ Others' = [Others EXCEPT !["ebp"] =
                                    Promise!Number(SubSeq(OnStack, k + 1, k + 2))]
  BY <1>4, <1>5, Zenon DEF Promise!Leave, Promise!Keep, Others
<1>7. e <= x /\ x + 2 <= base /\ k \in Nat /\ k + 2 \in Nat /\ e + (k + 2) = x + 2
  BY <1>4, <1>5
<1>8. Wrap(x + 2) = x + 2
  <2>1. base < Space /\ Space \in Nat BY <1>5, AddressIs, Spaces DEF Held
  <2>2. x + 2 \in 0 .. Space - 1 BY <1>5, <1>7, <1>4, <2>1
  <2> QED BY <2>2, WrapSame DEF Address
<1>9. SubSeq(OnStack, k + 1, k + 2) = c
  <2>1. 2 \in {1, 2} OBVIOUS
  <2> QED BY <1>1, <1>3, <1>4, <1>7, <2>1, OnStackWord DEF c, e
<1> HIDE DEF k
<1>10. m.regs["esp"] = e + (k + 2) BY <1>2, <1>7, <1>8
<1>11. ShrankBy(m, k + 2) BY <1>7, <1>10 DEF ShrankBy, e
<1>12. Promise!Pops(k + 2) BY <1>2, <1>11, Shrank DEF Promise!Pops
<1>13. \A r \in Regs \ {"esp"} : regs'[r] = IF r = "ebp" THEN Number(c) ELSE regs[r]
  BY <1>2, <1>6
<1>14. Others' = [Others EXCEPT !["ebp"] = Number(c)] BY <1>13 DEF Others
<1> QED BY <1>9, <1>12, <1>14, SameOperators

-----------------------------------------------------------------------------
(* The refinement                                                          *)

LEMMA StepImplements ==
  ASSUME TopUnmapped, IInv, Next
  PROVE  IInv' /\ Promise!Next
<1>1. result = "Ok" /\ Ready BY StepIs DEF IInv, Ready
<1>2. PICK i \in Instrs : \E m : Handled(i, m) /\ Execute(i, m) /\ flags' = NextFlags(i, m)
  BY StepIs
<1>3. PICK m : Handled(i, m) /\ Execute(i, m) /\ flags' = NextFlags(i, m) BY <1>2
<1>4. m \in Machines BY <1>1, <1>3, HandledType
<1>5. Ran(i, m) BY <1>1, <1>3, <1>4 DEF Ran
<1>6. IInv'
  <2>1. TypeOK' BY NextType DEF IInv
  <2>2. regs'["esp"] <= base' BY <1>5, After DEF Held
  <2> QED BY <2>1, <2>2 DEF IInv
<1>7. result' = m.result /\ instr' = i BY <1>5, After
<1>8. CASE m.result # "Ok"
  <2>1. flags' = flags BY <1>3, <1>8 DEF NextFlags
  <2>2. Promise!Failure(i) BY <1>3, <1>5, <1>8, <2>1, FailureIs
  <2> QED BY <1>1, <1>6, <1>7, <2>2 DEF Promise!Next
<1>9. CASE m.result = "Ok"
  <2>1. CASE i.op = "popf" /\ m = Popf
    <3>1. flags' = Stored(Number(m.popped[1])) BY <1>3, <1>9, <2>1 DEF NextFlags
    <3>2. Promise!Popf(i) BY <1>5, <1>9, <2>1, <3>1, PopfWorks
    <3> QED BY <1>1, <1>6, <1>7, <1>9, <2>1, <3>2 DEF Promise!Next, Promise!Executed
  <2>2. CASE i.op # "popf"
    <3>1. flags' = flags BY <1>3, <2>2 DEF NextFlags
    <3>2. Promise!Executed(i)
      <4>1. CASE i.op = "push"  /\ m = Push(i)
        BY <1>5, <1>9, <3>1, <4>1, PushWorks DEF Promise!Executed
      <4>2. CASE i.op = "pop"   /\ m = Pop(i)
        BY <1>5, <1>9, <3>1, <4>2, PopWorks DEF Promise!Executed
      <4>3. CASE i.op = "pusha" /\ m = Pusha(i)
        BY <1>5, <1>9, <3>1, <4>3, PushaWorks DEF Promise!Executed
      <4>4. CASE i.op = "popa"  /\ m = Popa(i)
        BY <1>5, <1>9, <3>1, <4>4, PopaWorks DEF Promise!Executed
      <4>5. CASE i.op = "pushf" /\ m = Pushf(i)
        BY <1>5, <1>9, <3>1, <4>5, PushfWorks DEF Promise!Executed
      <4>6. CASE i.op = "call"  /\ m = Call(i)
        BY <1>5, <1>9, <3>1, <4>6, CallWorks DEF Promise!Executed
      <4>7. CASE i.op = "ret"   /\ m = Ret(i)
        BY <1>5, <1>9, <3>1, <4>7, RetWorks DEF Promise!Executed
      <4>8. CASE i.op = "enter" /\ m = Enter(i)
        BY <1>5, <1>9, <3>1, <4>8, EnterWorks DEF Promise!Executed
      <4>9. CASE i.op = "leave" /\ m = Leave
        BY <1>5, <1>9, <3>1, <4>9, LeaveWorks DEF Promise!Executed
      <4> QED BY <1>3, <2>2, <4>1, <4>2, <4>3, <4>4, <4>5, <4>6, <4>7, <4>8, <4>9
              DEF Handled
    <3> QED BY <1>1, <1>6, <1>7, <1>9, <3>2 DEF Promise!Next
  <2> QED BY <1>3, <2>1, <2>2 DEF Handled
<1> QED BY <1>8, <1>9

(* However stack opcodes, operand sizes and failures follow one another,   *)
(* what is taken off the stack is what was put there, an instruction that  *)
(* fails has destroyed nothing that was on it, and a callee's ret finds    *)
(* the address behind the call: on every memory that is not mapped up to   *)
(* its last address, Stack implements StackSpec.                           *)
THEOREM Refinement ==
  ASSUME TopUnmapped
  PROVE  Spec => ImplementsStack
<1>1. Init => IInv /\ Promise!Init
  <2> SUFFICES ASSUME Init PROVE IInv /\ Promise!Init OBVIOUS
  <2>1. TypeOK BY InitType
  <2>2. regs["esp"] <= base
    <3>1. base = regs["esp"] /\ base \in Address BY <2>1 DEF Init, TypeOK
    <3> QED BY <3>1, AddressIs
  <2> QED BY <2>1, <2>2 DEF IInv, Init, Promise!Init
<1>2. IInv /\ [Next]_vars => IInv' /\ [Promise!Next]_(Promise!stackVars)
  <2>1. CASE Next BY <2>1, StepImplements
  <2>2. CASE UNCHANGED vars
    BY <2>2 DEF vars, IInv, TypeOK, Promise!stackVars, OnStack
  <2> QED BY <2>1, <2>2
<1> QED BY <1>1, <1>2, PTL DEF Spec, ImplementsStack, Promise!Spec

=============================================================================
