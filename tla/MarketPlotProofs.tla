-------------------------- MODULE MarketPlotProofs --------------------------
(***************************************************************************)
(* What TLAPS proves of the market plot, for every sequence of quotes: the *)
(* important moves in them and the room that everything has in the chart.  *)
(***************************************************************************)
EXTENDS MarketPlot, SequenceTheorems, FiniteSetTheorems, WellFoundedInduction, TLAPS

-----------------------------------------------------------------------------
(* Induction over the naturals, as a fact about sets: the theorems of the  *)
(* library take a predicate, which no prover at hand can instantiate.      *)

LEMMA NatSetInduction ==
    ASSUME NEW S \in SUBSET Nat, 0 \in S, \A n \in S : n + 1 \in S
    PROVE  S = Nat
<1> DEFINE less == OpToRel(<, Nat)
           rest == Nat \ S
<1>1. IsWellFoundedOn(less, Nat)
  BY NatLessThanWellFounded
<1>2. \A x, y \in Nat : x < y => <<x, y>> \in less
  BY DEF OpToRel
<1> HIDE DEF less
<1> SUFFICES ASSUME rest # {} PROVE FALSE
  OBVIOUS
<1>3. rest \subseteq Nat
  OBVIOUS
<1> HIDE DEF rest
<1>4. PICK x \in rest : \A y \in rest : ~ (<<y, x>> \in less)
  BY <1>1, <1>3, WFMin
<1>5. x \in Nat /\ x \notin S
  BY <1>4 DEF rest
<1>6. x # 0 /\ x - 1 \in Nat /\ x - 1 < x /\ x = (x - 1) + 1
  BY <1>5
<1>7. x - 1 \in rest
  BY <1>5, <1>6 DEF rest
<1> QED
  BY <1>2, <1>4, <1>5, <1>6, <1>7

-----------------------------------------------------------------------------
(* The scan of the prices.                                                 *)

MoveRecords == [start : Nat, end : Nat, delta : Int]
RunRecords == [out : Seq(MoveRecords), start : Nat, delta : Int, direction : {-1, 0, 1}]
NoRun == [out |-> <<>>, start |-> 1, delta |-> 0, direction |-> 0]

\* run is the state of the loop after each of the first m quotes.
Scans(run, prices, m) ==
    /\ run[1] = NoRun
    /\ \A i \in 2 .. m : run[i] = OneStep(run[i - 1], i, prices[i] - prices[i - 1])

LEMMA ARunExists ==
    ASSUME NEW prices \in Seq(Int)
    PROVE  \E run : run = [i \in 1 .. Len(prices) |->
                              IF i = 1 THEN NoRun
                              ELSE OneStep(run[i - 1], i, prices[i] - prices[i - 1])]
<1> DEFINE N == Len(prices)
           Step(run, i) == OneStep(run[i - 1], i, prices[i] - prices[i - 1])
           S == {m \in Nat : \E run : run = [i \in 1 .. m |-> IF i = 1 THEN NoRun ELSE Step(run, i)]}
<1>1. 0 \in S
  <2> DEFINE run == [i \in 1 .. 0 |-> NoRun]
  <2>1. run = [i \in 1 .. 0 |-> IF i = 1 THEN NoRun ELSE Step(run, i)]
    OBVIOUS
  <2> QED
    BY <2>1
<1>2. ASSUME NEW m \in S PROVE m + 1 \in S
  <2>1. m \in Nat
    OBVIOUS
  <2>2. PICK run : run = [i \in 1 .. m |-> IF i = 1 THEN NoRun ELSE Step(run, i)]
    BY <1>2
  <2> DEFINE next == [i \in 1 .. m + 1 |-> IF i \in 1 .. m THEN run[i]
                                           ELSE IF i = 1 THEN NoRun ELSE Step(run, i)]
  <2>3. ASSUME NEW i \in 1 .. m + 1
        PROVE  next[i] = IF i = 1 THEN NoRun ELSE Step(next, i)
    <3>1. CASE i = 1
      BY <2>1, <2>2, <3>1
    <3>2. CASE i # 1
      <4>1. i - 1 \in 1 .. m /\ i - 1 \in 1 .. m + 1
        BY <2>1, <3>2
      <4>2. next[i - 1] = run[i - 1]
        BY <4>1
      <4>3. next[i] = Step(run, i)
        BY <2>1, <2>2, <3>2
      <4> QED
        BY <3>2, <4>2, <4>3
    <3> QED
      BY <3>1, <3>2
  <2>4. next = [i \in 1 .. m + 1 |-> next[i]]
    OBVIOUS
  <2> HIDE DEF next
  <2>5. next = [i \in 1 .. m + 1 |-> IF i = 1 THEN NoRun ELSE Step(next, i)]
    BY <2>3, <2>4
  <2> HIDE DEF Step
  <2> QED
    BY <2>1, <2>5
<1>3. N \in Nat
  OBVIOUS
<1>4. S \in SUBSET Nat
  OBVIOUS
<1>5. N \in S
  <2> HIDE DEF S, N
  <2> QED
    BY <1>1, <1>2, <1>3, <1>4, NatSetInduction
<1> QED
  BY <1>5

LEMMA ScanScans ==
    ASSUME NEW prices \in Seq(Int), Len(prices) >= 1
    PROVE  Scans(scan(prices), prices, Len(prices))
<1> DEFINE N == Len(prices)
           Is(f) == f = [i \in 1 .. Len(prices) |->
                            IF i = 1 THEN NoRun
                            ELSE OneStep(f[i - 1], i, prices[i] - prices[i - 1])]
           run == CHOOSE f : Is(f)
<1>1. \E f : Is(f)
  BY ARunExists
<1>2. scan(prices) = run
  BY DEF scan, NoRun
<1> HIDE DEF Is
<1>3. Is(run)
  BY <1>1
<1> HIDE DEF run
<1>4. N \in Nat /\ 1 \in 1 .. N /\ \A i \in 2 .. N : i \in 1 .. N /\ i # 1
  OBVIOUS
<1>5. \A i \in 1 .. N : run[i] = IF i = 1 THEN NoRun
                                 ELSE OneStep(run[i - 1], i, prices[i] - prices[i - 1])
  <2>1. run = [i \in 1 .. N |-> IF i = 1 THEN NoRun
                                ELSE OneStep(run[i - 1], i, prices[i] - prices[i - 1])]
    BY <1>3 DEF Is
  <2> QED
    BY <2>1
<1> QED
  BY <1>2, <1>4, <1>5 DEF Scans

-----------------------------------------------------------------------------
(* The runs and the moves of a list of prices.                             *)

Important(prices, a, b) == Distance(prices[b] - prices[a]) >= important_delta

\* out has the moves of the prices that end at quote `until`, or before it.
Lists(out, prices, until) ==
    /\ out \in Seq(MoveRecords)
    /\ \A k \in 1 .. Len(out) :
          /\ out[k].start \in 1 .. until /\ out[k].end \in 1 .. until
          /\ Longest(prices, out[k].start, out[k].end)
          /\ Important(prices, out[k].start, out[k].end)
          /\ out[k] = MoveFrom(prices, out[k].start, out[k].end)
    /\ \A a, b \in 1 .. until :
          Longest(prices, a, b) /\ Important(prices, a, b)
             => \E k \in 1 .. Len(out) : out[k].start = a /\ out[k].end = b
    /\ \A k \in 2 .. Len(out) : out[k - 1].end <= out[k].start

\* From quote a to quote b the prices only go in one direction, and did not before.
Goes(prices, a, b, direction) ==
    /\ \A i \in a .. (b - 1) : Up(prices, i) = direction
    /\ a > 1 => Up(prices, a - 1) # direction

\* After quote k the loop has listed the moves up to the start of the run it is in.
RunIsSound(run, prices, k) ==
    /\ run \in RunRecords
    /\ run.start \in 1 .. k
    /\ Lists(run.out, prices, run.start)
    /\ run.direction = 0 =>
          /\ run.start = k
          /\ run.delta = 0
          /\ k > 1 => Up(prices, k - 1) = 0
    /\ run.direction # 0 =>
          /\ run.start < k
          /\ run.delta = prices[k] - prices[run.start]
          /\ Sign(run.delta) = run.direction
          /\ Goes(prices, run.start, k, run.direction)

LEMMA UpIs ==
    ASSUME NEW prices \in Seq(Int), NEW i \in 1 .. (Len(prices) - 1)
    PROVE  /\ Up(prices, i) \in {-1, 0, 1}
           /\ prices[i] \in Int /\ prices[i + 1] \in Int
           /\ Up(prices, i) = Sign(prices[i + 1] - prices[i])
<1>1. prices[i] \in Int /\ prices[i + 1] \in Int
  OBVIOUS
<1> QED
  BY <1>1 DEF Up, Sign

\* A run that cannot go on is a longest one, and the only one after its start.
LEMMA TheRun ==
    ASSUME NEW prices \in Seq(Int), NEW k \in 1 .. Len(prices), NEW a \in 1 .. (k - 1),
           NEW direction \in {-1, 1}, Goes(prices, a, k, direction)
    PROVE  /\ k = Len(prices) \/ Up(prices, k) # direction => Longest(prices, a, k)
           /\ \A i \in 1 .. k, j \in (a + 1) .. k : Longest(prices, i, j) => i = a /\ j = k
<1> DEFINE N == Len(prices)
           up(i) == Up(prices, i)
<1>1. N \in Nat /\ k \in 1 .. N /\ a \in 1 .. N /\ a < k
  OBVIOUS
<1>2. \A i \in a .. (k - 1) : up(i) = direction
  BY DEF Goes
<1>3. a > 1 => up(a - 1) # direction
  BY DEF Goes
<1>4. a \in a .. (k - 1) /\ up(a) = direction /\ direction # 0
  BY <1>1, <1>2
<1>5. ASSUME k = N \/ up(k) # direction PROVE Longest(prices, a, k)
  <2>1. Monotone(prices, a, k)
    BY <1>2, <1>4 DEF Monotone
  <2>2. a = 1 \/ ~Monotone(prices, a - 1, k)
    <3>1. a > 1 => a \in (a - 1) .. (k - 1)
      BY <1>1
    <3> QED
      BY <1>1, <1>3, <1>4, <3>1 DEF Monotone
  <2>3. k # N => ~Monotone(prices, a, k + 1)
    <3>1. k \in a .. ((k + 1) - 1)
      BY <1>1
    <3> QED
      BY <1>4, <1>5, <3>1 DEF Monotone
  <2> QED
    BY <1>1, <2>1, <2>2, <2>3 DEF Longest
<1>6. ASSUME NEW i \in 1 .. k, NEW j \in (a + 1) .. k, Longest(prices, i, j)
      PROVE  i = a /\ j = k
  <2>1. i < j /\ j \in Nat /\ i \in Nat
    BY <1>1, <1>6 DEF Longest
  <2>2. \A n \in i .. (j - 1) : up(n) = up(i)
    BY <1>6 DEF Longest, Monotone
  <2>3. up(i) # 0
    BY <1>6 DEF Longest, Monotone
  <2>4. i >= a
    <3> SUFFICES ASSUME i < a PROVE FALSE
      BY <1>1, <2>1
    <3>1. a - 1 \in i .. (j - 1) /\ a \in i .. (j - 1) /\ a > 1
      BY <1>1, <2>1
    <3>2. up(a - 1) = up(a)
      BY <2>2, <3>1
    <3> QED
      BY <1>3, <1>4, <3>1, <3>2
  <2>5. i = a
    <3> SUFFICES ASSUME i > a PROVE FALSE
      BY <1>1, <2>1, <2>4
    <3>1. i \in a .. (k - 1) /\ i - 1 \in a .. (k - 1)
      BY <1>1, <2>1
    <3>2. up(i) = direction /\ up(i - 1) = direction
      BY <1>2, <3>1
    <3>3. \A n \in (i - 1) .. (j - 1) : n = i - 1 \/ n \in i .. (j - 1)
      BY <2>1
    <3>4. Monotone(prices, i - 1, j)
      BY <1>4, <2>2, <3>2, <3>3 DEF Monotone
    <3>5. i # 1
      BY <1>1
    <3> QED
      BY <1>6, <3>4, <3>5 DEF Longest
  <2>6. j = k
    <3> SUFFICES ASSUME j < k PROVE FALSE
      BY <1>1, <2>1
    <3>1. \A n \in i .. ((j + 1) - 1) : n \in a .. (k - 1)
      BY <1>1, <2>1, <2>5
    <3>2. Monotone(prices, i, j + 1)
      BY <1>2, <1>4, <2>5, <3>1 DEF Monotone
    <3>3. j # N
      BY <1>1, <2>1
    <3> QED
      BY <1>6, <3>2, <3>3 DEF Longest
  <2> QED
    BY <2>5, <2>6
<1> QED
  BY <1>5, <1>6

\* The run that ends is listed.
LEMMA PushLists ==
    ASSUME NEW prices \in Seq(Int), NEW b \in 1 .. Len(prices), NEW a \in 1 .. b, NEW out,
           Lists(out, prices, a), a < b => Longest(prices, a, b),
           \A i \in 1 .. b, j \in (a + 1) .. b : Longest(prices, i, j) => i = a /\ j = b
    PROVE  a < b => Lists(maybe_push_move(out, a, b, prices[b] - prices[a]), prices, b)
<1> SUFFICES ASSUME a < b
             PROVE  Lists(maybe_push_move(out, a, b, prices[b] - prices[a]), prices, b)
  OBVIOUS
<1> DEFINE delta == prices[b] - prices[a]
           mv == [start |-> a, end |-> b, delta |-> delta]
<1>1. a \in Nat /\ b \in Nat /\ prices[a] \in Int /\ prices[b] \in Int /\ delta \in Int
  OBVIOUS
<1>2. mv \in MoveRecords /\ mv = MoveFrom(prices, a, b) /\ mv.start = a /\ mv.end = b
  BY <1>1 DEF MoveRecords, MoveFrom
<1>3. out \in Seq(MoveRecords) /\ Len(out) \in Nat
  BY DEF Lists
<1>4. ASSUME NEW i \in 1 .. b, NEW j \in 1 .. b, Longest(prices, i, j)
      PROVE  (i = a /\ j = b) \/ (i \in 1 .. a /\ j \in 1 .. a)
  <2>1. i < j
    BY <1>4 DEF Longest
  <2>2. CASE j <= a
    BY <1>1, <2>1, <2>2
  <2>3. CASE j > a
    <3>1. j \in (a + 1) .. b
      BY <1>1, <2>3
    <3> QED
      BY <1>4, <3>1
  <2> QED
    BY <1>1, <2>2, <2>3
<1>5. CASE ~Important(prices, a, b)
  <2>1. maybe_push_move(out, a, b, delta) = out
    BY <1>1, <1>5 DEF maybe_push_move, Important, Distance, important_delta
  <2>2. \A i \in 1 .. a : i \in 1 .. b
    BY <1>1
  <2>3. \A i, j \in 1 .. b : Longest(prices, i, j) /\ Important(prices, i, j)
                               => i \in 1 .. a /\ j \in 1 .. a
    BY <1>4, <1>5
  <2>4. \A k \in 1 .. Len(out) : out[k].start \in 1 .. b /\ out[k].end \in 1 .. b
    BY <2>2 DEF Lists
  <2>5. Lists(out, prices, b)
    BY <2>3, <2>4 DEF Lists
  <2> QED
    BY <2>1, <2>5
<1>6. CASE Important(prices, a, b)
  <2> DEFINE next == Append(out, mv)
             n == Len(out) + 1
  <2>1. maybe_push_move(out, a, b, delta) = next
    BY <1>1, <1>6 DEF maybe_push_move, Important, Distance, important_delta
  <2> HIDE DEF mv
  <2>2. /\ next \in Seq(MoveRecords) /\ Len(next) = n /\ next[n] = mv
        /\ \A k \in 1 .. Len(out) : next[k] = out[k]
    BY <1>2, <1>3, AppendProperties
  <2> HIDE DEF next
  <2>3. \A k \in 1 .. n : k = n \/ k \in 1 .. Len(out)
    BY <1>3
  <2>4. n \in 1 .. n /\ \A k \in 1 .. Len(out) : k \in 1 .. n
    BY <1>3
  <2>5. ASSUME NEW k \in 1 .. Len(next)
        PROVE  /\ next[k].start \in 1 .. b /\ next[k].end \in 1 .. b
               /\ Longest(prices, next[k].start, next[k].end)
               /\ Important(prices, next[k].start, next[k].end)
               /\ next[k] = MoveFrom(prices, next[k].start, next[k].end)
    <3>1. CASE k = n
      BY <1>1, <1>2, <1>6, <2>2, <3>1
    <3>2. CASE k \in 1 .. Len(out)
      <4>1. next[k] = out[k] /\ \A i \in 1 .. a : i \in 1 .. b
        BY <1>1, <2>2, <3>2
      <4> QED
        BY <3>2, <4>1 DEF Lists
    <3> QED
      BY <2>2, <2>3, <3>1, <3>2
  <2>6. ASSUME NEW i \in 1 .. b, NEW j \in 1 .. b, Longest(prices, i, j), Important(prices, i, j)
        PROVE  \E k \in 1 .. Len(next) : next[k].start = i /\ next[k].end = j
    <3>1. CASE i = a /\ j = b
      BY <1>2, <2>2, <2>4, <3>1
    <3>2. CASE i \in 1 .. a /\ j \in 1 .. a
      <4>1. \A x, y \in 1 .. a : Longest(prices, x, y) /\ Important(prices, x, y)
                                 => \E k \in 1 .. Len(out) : out[k].start = x /\ out[k].end = y
        BY Zenon DEF Lists
      <4>2. PICK k \in 1 .. Len(out) : out[k].start = i /\ out[k].end = j
        BY <2>6, <3>2, <4>1
      <4> QED
        BY <2>2, <2>4, <4>2
    <3> QED
      BY <1>4, <2>6, <3>1, <3>2
  <2>7. ASSUME NEW k \in 2 .. Len(next) PROVE next[k - 1].end <= next[k].start
    <3>0. k \in 2 .. n
      BY <2>2
    <3>1. k - 1 \in 1 .. Len(out) /\ next[k - 1] = out[k - 1]
      <4>1. k - 1 \in 1 .. Len(out)
        BY <1>3, <3>0
      <4> QED
        BY <2>2, <4>1
    <3>2. CASE k = n
      <4>1. out[k - 1].end \in 1 .. a
        BY <3>1 DEF Lists
      <4> QED
        BY <1>2, <2>2, <3>1, <3>2, <4>1
    <3>3. CASE k # n
      <4>1. k \in 2 .. Len(out) /\ k \in 1 .. Len(out)
        BY <1>3, <3>0, <3>3
      <4> QED
        BY <2>2, <3>1, <4>1 DEF Lists
    <3> QED
      BY <3>2, <3>3
  <2> QED
    BY <2>1, <2>2, <2>5, <2>6, <2>7 DEF Lists
<1> QED
  BY <1>5, <1>6

\* Where a run ends its move is listed.
LEMMA EndOfRun ==
    ASSUME NEW prices \in Seq(Int), NEW k \in 1 .. Len(prices), NEW run, RunIsSound(run, prices, k),
           k = Len(prices) \/ Up(prices, k) = 0 \/ Up(prices, k) # run.direction
    PROVE  Lists(maybe_push_move(run.out, run.start, k, run.delta), prices, k)
<1>1. run \in RunRecords /\ run.start \in 1 .. k /\ Lists(run.out, prices, run.start)
  BY DEF RunIsSound
<1>2. CASE run.direction = 0
  <2>1. run.start = k
    BY <1>2 DEF RunIsSound
  <2>2. maybe_push_move(run.out, run.start, k, run.delta) = run.out
    BY <2>1 DEF maybe_push_move
  <2> QED
    BY <1>1, <2>1, <2>2
<1>3. CASE run.direction # 0
  <2> DEFINE a == run.start
             direction == run.direction
             out == run.out
  <2>1. direction \in {-1, 1}
    BY <1>1, <1>3 DEF RunRecords
  <2>2. a \in 1 .. (k - 1) /\ a \in 1 .. k /\ a < k /\ Goes(prices, a, k, direction)
        /\ run.delta = prices[k] - prices[a]
    BY <1>1, <1>3 DEF RunIsSound
  <2>3. k = Len(prices) \/ Up(prices, k) # direction
    BY <1>3
  <2>4. Lists(out, prices, a)
    BY <1>1
  <2> HIDE DEF a, direction, out
  <2>5. Longest(prices, a, k)
        /\ \A i \in 1 .. k, j \in (a + 1) .. k : Longest(prices, i, j) => i = a /\ j = k
    BY <2>1, <2>2, <2>3, TheRun
  <2>6. Lists(maybe_push_move(out, a, k, prices[k] - prices[a]), prices, k)
    BY <2>2, <2>4, <2>5, PushLists
  <2> QED
    BY <2>2, <2>6 DEF a, out
<1> QED
  BY <1>2, <1>3

\* No run ends after a step that goes nowhere.
LEMMA NothingEndsFlat ==
    ASSUME NEW prices \in Seq(Int), NEW k \in 1 .. (Len(prices) - 1), NEW out,
           Lists(out, prices, k), Up(prices, k) = 0
    PROVE  Lists(out, prices, k + 1)
<1>1. ASSUME NEW i \in 1 .. (k + 1), NEW j \in 1 .. (k + 1), Longest(prices, i, j)
      PROVE  i \in 1 .. k /\ j \in 1 .. k
  <2>1. i < j
    BY <1>1 DEF Longest
  <2>2. j # k + 1
    <3> SUFFICES ASSUME j = k + 1 PROVE FALSE
      OBVIOUS
    <3>1. k \in i .. (j - 1)
      BY <2>1
    <3>2. Up(prices, k) = Up(prices, i) /\ Up(prices, i) # 0
      BY <1>1, <3>1 DEF Longest, Monotone
    <3> QED
      BY <3>2
  <2> QED
    BY <2>1, <2>2
<1>2. \A i \in 1 .. k : i \in 1 .. (k + 1)
  OBVIOUS
<1>3. \A m \in 1 .. Len(out) : out[m].start \in 1 .. (k + 1) /\ out[m].end \in 1 .. (k + 1)
  BY <1>2 DEF Lists
<1> QED
  BY <1>1, <1>3 DEF Lists

LEMMA StepIsSound ==
    ASSUME NEW prices \in Seq(Int), NEW k \in 1 .. (Len(prices) - 1), NEW run,
           RunIsSound(run, prices, k)
    PROVE  RunIsSound(OneStep(run, k + 1, prices[k + 1] - prices[k]), prices, k + 1)
<1> DEFINE taken == prices[k + 1] - prices[k]
           push == maybe_push_move(run.out, run.start, k, run.delta)
           next == OneStep(run, k + 1, taken)
<1>1. /\ run \in RunRecords /\ run.start \in 1 .. k /\ Lists(run.out, prices, run.start)
      /\ run.out \in Seq(MoveRecords) /\ run.delta \in Int /\ run.direction \in {-1, 0, 1}
  BY DEF RunIsSound, RunRecords
<1>2. /\ taken \in Int /\ Up(prices, k) = Sign(taken) /\ k \in 1 .. Len(prices) /\ k + 1 \in Nat
      /\ (k + 1) - 1 = k /\ k + 1 \in 1 .. Len(prices)
  BY UpIs
<1>3. k > 1 => k - 1 \in 1 .. (Len(prices) - 1)
  OBVIOUS
<1>4. Sign(taken) \in {-1, 0, 1} /\ (Sign(taken) = 0 <=> taken = 0)
  BY <1>2 DEF Sign
<1>5. \A n : n \in k .. ((k + 1) - 1) <=> n = k
  BY <1>2
<1>6. ASSUME Up(prices, k) = 0 \/ Up(prices, k) # run.direction
      PROVE  Lists(push, prices, k) /\ push \in Seq(MoveRecords)
  <2>1. Lists(push, prices, k)
    BY <1>2, <1>6, EndOfRun
  <2> QED
    BY <2>1 DEF Lists
<1> HIDE DEF taken, push
<1>7. CASE taken = 0
  <2>1. next = [out |-> push, start |-> k + 1, delta |-> 0, direction |-> 0]
    BY <1>2, <1>7 DEF OneStep, NextRun, Sign, push
  <2> HIDE DEF next
  <2>2. Up(prices, k) = 0
    BY <1>2, <1>4, <1>7
  <2>3. Lists(push, prices, k + 1) /\ push \in Seq(MoveRecords)
    BY <1>6, <2>2, NothingEndsFlat
  <2>4. next \in RunRecords
    BY <1>2, <2>1, <2>3 DEF RunRecords
  <2>5. k + 1 \in 1 .. (k + 1)
    BY <1>2
  <2>6. RunIsSound(next, prices, k + 1)
    BY <1>2, <2>1, <2>2, <2>3, <2>4, <2>5 DEF RunIsSound
  <2> QED
    BY <2>6 DEF next, taken
<1>8. CASE taken # 0 /\ run.direction = 0
  <2>1. next = [run EXCEPT !.start = k, !.delta = taken, !.direction = Sign(taken)]
    BY <1>2, <1>8 DEF OneStep
  <2> HIDE DEF next
  <2>2. /\ next \in RunRecords /\ next.out = run.out /\ next.start = k /\ next.delta = taken
        /\ next.direction = Sign(taken)
    <3>1. next = [out |-> run.out, start |-> k, delta |-> taken, direction |-> Sign(taken)]
      BY <1>1, <2>1 DEF RunRecords
    <3> QED
      BY <1>1, <1>2, <1>4, <3>1 DEF RunRecords
  <2>3. run.start = k /\ (k > 1 => Up(prices, k - 1) = 0)
    BY <1>8 DEF RunIsSound
  <2>4. Goes(prices, k, k + 1, Sign(taken))
    BY <1>2, <1>4, <1>5, <1>8, <2>3 DEF Goes
  <2>5. k \in 1 .. (k + 1) /\ k < k + 1
    BY <1>2
  <2>6. RunIsSound(next, prices, k + 1)
    BY <1>1, <1>4, <1>8, <2>2, <2>3, <2>4, <2>5 DEF RunIsSound, taken
  <2> QED
    BY <2>6 DEF next, taken
<1>9. CASE taken # 0 /\ run.direction # 0 /\ Sign(taken) = run.direction
  <2>1. next = [run EXCEPT !.delta = run.delta + taken]
    BY <1>9 DEF OneStep
  <2> HIDE DEF next
  <2>2. /\ next \in RunRecords /\ next.out = run.out /\ next.start = run.start
        /\ next.delta = run.delta + taken /\ next.direction = run.direction
    <3>1. next = [out |-> run.out, start |-> run.start, delta |-> run.delta + taken,
                  direction |-> run.direction]
      BY <1>1, <2>1 DEF RunRecords
    <3>2. run.start \in Nat /\ run.delta + taken \in Int
      BY <1>1, <1>2
    <3> QED
      BY <1>1, <3>1, <3>2 DEF RunRecords
  <2>3. /\ run.start < k /\ run.delta = prices[k] - prices[run.start]
        /\ Sign(run.delta) = run.direction /\ Goes(prices, run.start, k, run.direction)
    BY <1>9 DEF RunIsSound
  <2>4. Sign(run.delta + taken) = run.direction
    BY <1>1, <1>2, <1>9, <2>3 DEF Sign
  <2>5. Goes(prices, run.start, k + 1, run.direction)
    <3>1. \A i \in run.start .. ((k + 1) - 1) : i = k \/ i \in run.start .. (k - 1)
      BY <1>1
    <3> QED
      BY <1>2, <1>9, <2>3, <3>1 DEF Goes
  <2>6. prices[k] \in Int /\ prices[k + 1] \in Int /\ prices[run.start] \in Int
    BY <1>1, <1>2
  <2>7. run.delta + taken = prices[k + 1] - prices[run.start]
    BY <2>3, <2>6 DEF taken
  <2>8. run.start \in 1 .. (k + 1) /\ run.start < k + 1
    BY <1>1
  <2>9. RunIsSound(next, prices, k + 1)
    BY <1>1, <1>9, <2>2, <2>4, <2>5, <2>7, <2>8 DEF RunIsSound
  <2> QED
    BY <2>9 DEF next, taken
<1>10. CASE taken # 0 /\ run.direction # 0 /\ Sign(taken) # run.direction
  <2>1. next = [out |-> push, start |-> k, delta |-> taken, direction |-> Sign(taken)]
    BY <1>2, <1>10 DEF OneStep, NextRun, push
  <2> HIDE DEF next
  <2>2. Lists(push, prices, k) /\ push \in Seq(MoveRecords)
    BY <1>2, <1>6, <1>10
  <2>3. next \in RunRecords
    BY <1>2, <1>4, <2>1, <2>2 DEF RunRecords
  <2>4. run.start < k /\ Goes(prices, run.start, k, run.direction)
    BY <1>10 DEF RunIsSound
  <2>5. k > 1 => Up(prices, k - 1) = run.direction
    <3>1. k - 1 \in run.start .. (k - 1)
      BY <1>1, <2>4
    <3> QED
      BY <2>4, <3>1 DEF Goes
  <2>6. Goes(prices, k, k + 1, Sign(taken))
    BY <1>2, <1>5, <1>10, <2>5 DEF Goes
  <2>7. k \in 1 .. (k + 1) /\ k < k + 1
    BY <1>2
  <2>8. RunIsSound(next, prices, k + 1)
    BY <1>4, <1>10, <2>1, <2>2, <2>3, <2>6, <2>7 DEF RunIsSound, taken
  <2> QED
    BY <2>8 DEF next, taken
<1> QED
  BY <1>7, <1>8, <1>9, <1>10

LEMMA ScanIsSound ==
    ASSUME NEW prices \in Seq(Int), NEW k \in 1 .. Len(prices)
    PROVE  RunIsSound(scan(prices)[k], prices, k)
<1> DEFINE run == scan(prices)
           S == {n \in Nat : n + 1 <= Len(prices) => RunIsSound(run[n + 1], prices, n + 1)}
<1>1. Scans(run, prices, Len(prices))
  BY ScanScans
<1> HIDE DEF run
<1>2. 0 \in S
  <2>1. run[0 + 1] = NoRun
    BY <1>1 DEF Scans
  <2>2. <<>> \in Seq(MoveRecords) /\ Len(<<>>) = 0
    BY EmptySeq
  <2>3. NoRun \in RunRecords /\ NoRun.out = <<>> /\ NoRun.start = 1 /\ NoRun.delta = 0
        /\ NoRun.direction = 0
    BY <2>2 DEF NoRun, RunRecords
  <2>4. \A a, b \in 1 .. 1 : ~Longest(prices, a, b)
    BY DEF Longest
  <2>5. Lists(<<>>, prices, 1)
    BY <2>2, <2>4 DEF Lists
  <2>6. RunIsSound(NoRun, prices, 1)
    BY <2>3, <2>5 DEF RunIsSound
  <2>7. 0 + 1 = 1
    OBVIOUS
  <2>8. RunIsSound(run[0 + 1], prices, 0 + 1)
    BY <2>1, <2>6, <2>7
  <2> QED
    BY <2>8
<1>3. ASSUME NEW n \in S PROVE n + 1 \in S
  <2>1. n \in Nat /\ n + 1 \in Nat
    OBVIOUS
  <2> SUFFICES ASSUME (n + 1) + 1 <= Len(prices)
               PROVE  RunIsSound(run[(n + 1) + 1], prices, (n + 1) + 1)
    BY <2>1
  <2>2. n + 1 \in 1 .. (Len(prices) - 1) /\ (n + 1) + 1 \in 2 .. Len(prices)
        /\ ((n + 1) + 1) - 1 = n + 1 /\ n + 1 <= Len(prices)
    BY <2>1
  <2>3. RunIsSound(run[n + 1], prices, n + 1)
    BY <2>2, <1>3
  <2>4. run[(n + 1) + 1] = OneStep(run[n + 1], (n + 1) + 1, prices[(n + 1) + 1] - prices[n + 1])
    BY <1>1, <2>2 DEF Scans
  <2> QED
    BY <2>2, <2>3, <2>4, StepIsSound
<1>4. S \in SUBSET Nat
  OBVIOUS
<1>5. k - 1 \in S
  <2>1. k - 1 \in Nat
    OBVIOUS
  <2> HIDE DEF S
  <2> QED
    BY <1>2, <1>3, <1>4, <2>1, NatSetInduction
<1>6. (k - 1) + 1 = k /\ k <= Len(prices)
  OBVIOUS
<1> QED
  BY <1>5, <1>6 DEF run

\* detect_important_moves lists the moves of all the prices.
LEMMA DetectionLists ==
    ASSUME NEW prices \in Seq(Int), Len(prices) >= 2
    PROVE  Lists(detect_important_moves(prices), prices, Len(prices))
<1> DEFINE n == Len(prices)
           last == scan(prices)[n]
<1>1. n \in 1 .. Len(prices) /\ ~(n < 2)
  OBVIOUS
<1>2. RunIsSound(last, prices, n)
  BY <1>1, ScanIsSound
<1>3. detect_important_moves(prices) = maybe_push_move(last.out, last.start, n, last.delta)
  BY <1>1 DEF detect_important_moves
<1> HIDE DEF last
<1>4. Lists(maybe_push_move(last.out, last.start, n, last.delta), prices, n)
  BY <1>1, <1>2, EndOfRun
<1> QED
  BY <1>3, <1>4

\* The scan of the first quotes is the beginning of the scan of all.
LEMMA ScanOfPrefix ==
    ASSUME NEW prices \in Seq(Int), NEW m \in 1 .. Len(prices)
    PROVE  scan(SubSeq(prices, 1, m))[m] = scan(prices)[m]
<1> DEFINE first == SubSeq(prices, 1, m)
           run == scan(prices)
           part == scan(first)
           S == {n \in Nat : n + 1 <= m => part[n + 1] = run[n + 1]}
<1>1. first \in Seq(Int) /\ Len(first) = m /\ \A i \in 1 .. m : first[i] = prices[i]
  BY SubSeqProperties
<1>2. m \in Nat /\ m >= 1 /\ m <= Len(prices) /\ Len(prices) \in Nat
  OBVIOUS
<1> HIDE DEF first
<1>3. Scans(run, prices, Len(prices)) /\ Scans(part, first, m)
  BY <1>1, <1>2, ScanScans
<1> HIDE DEF run, part
<1>4. 0 \in S
  <2>1. part[0 + 1] = run[0 + 1]
    BY <1>3 DEF Scans
  <2> QED
    BY <2>1
<1>5. ASSUME NEW n \in S PROVE n + 1 \in S
  <2>1. n \in Nat /\ n + 1 \in Nat
    OBVIOUS
  <2> SUFFICES ASSUME (n + 1) + 1 <= m PROVE part[(n + 1) + 1] = run[(n + 1) + 1]
    BY <2>1
  <2> DEFINE i == (n + 1) + 1
  <2>2. i \in 2 .. m /\ i \in 2 .. Len(prices) /\ i - 1 = n + 1 /\ n + 1 <= m
        /\ i \in 1 .. m /\ i - 1 \in 1 .. m
    BY <1>2, <2>1
  <2>3. part[i - 1] = run[i - 1]
    BY <1>5, <2>2
  <2>4. first[i] = prices[i] /\ first[i - 1] = prices[i - 1]
    BY <1>1, <2>2
  <2>5. run[i] = OneStep(run[i - 1], i, prices[i] - prices[i - 1])
    BY <1>3, <2>2 DEF Scans
  <2>6. part[i] = OneStep(part[i - 1], i, first[i] - first[i - 1])
    BY <1>3, <2>2 DEF Scans
  <2> HIDE DEF i
  <2> QED
    BY <2>3, <2>4, <2>5, <2>6 DEF i
<1>6. S \in SUBSET Nat
  OBVIOUS
<1>7. m - 1 \in S
  <2>1. m - 1 \in Nat
    BY <1>2
  <2> HIDE DEF S
  <2> QED
    BY <1>4, <1>5, <1>6, <2>1, NatSetInduction
<1>8. (m - 1) + 1 = m /\ m <= m
  BY <1>2
<1> QED
  BY <1>7, <1>8 DEF run, part, first

\* A move that is pushed comes after the others.
LEMMA PushAdds ==
    ASSUME NEW out \in Seq(MoveRecords), NEW a \in Nat, NEW b \in Nat, NEW delta \in Int,
           ~(b <= a), ~(Distance(delta) < important_delta),
           NEW next, next = maybe_push_move(out, a, b, delta)
    PROVE  /\ next \in Seq(MoveRecords)
           /\ Len(next) = Len(out) + 1
           /\ next[Len(out) + 1] = [start |-> a, end |-> b, delta |-> delta]
           /\ \A k \in 1 .. Len(out) : next[k] = out[k]
<1> DEFINE mv == [start |-> a, end |-> b, delta |-> delta]
           longer == Append(out, mv)
<1>1. mv \in MoveRecords /\ Len(out) \in Nat
  BY DEF MoveRecords
<1> HIDE DEF mv
<1>2. /\ longer \in Seq(MoveRecords) /\ Len(longer) = Len(out) + 1 /\ longer[Len(out) + 1] = mv
      /\ \A k \in 1 .. Len(out) : longer[k] = out[k]
  BY <1>1, AppendProperties
<1>3. next = longer
  BY DEF maybe_push_move, mv
<1> HIDE DEF longer
<1> QED
  BY <1>2, <1>3 DEF mv

LEMMA PushKeeps ==
    ASSUME NEW out \in Seq(MoveRecords), NEW a \in Nat, NEW b \in Nat, NEW delta \in Int,
           NEW next, next = maybe_push_move(out, a, b, delta)
    PROVE  Len(out) <= Len(next) /\ \A k \in 1 .. Len(out) : next[k] = out[k]
<1> DEFINE mv == [start |-> a, end |-> b, delta |-> delta]
           longer == Append(out, mv)
<1>1. mv \in MoveRecords /\ Len(out) \in Nat
  BY DEF MoveRecords
<1>2. next = out \/ next = longer
  BY DEF maybe_push_move
<1> HIDE DEF mv
<1>3. Len(longer) = Len(out) + 1 /\ \A k \in 1 .. Len(out) : longer[k] = out[k]
  BY <1>1, AppendProperties
<1> HIDE DEF longer
<1>4. Len(out) <= Len(next)
  BY <1>1, <1>2, <1>3
<1> QED
  BY <1>2, <1>3, <1>4

\* What one more quote, the m + 1st, may do to the moves.
Stays(moves, next, m) ==
    /\ Len(moves) <= Len(next)
    /\ \A k \in 1 .. Len(moves) :
          \/ next[k] = moves[k]
          \/ /\ k = Len(moves) /\ next[k].start = moves[k].start
             /\ moves[k].end = m /\ next[k].end = m + 1

LEMMA PushStays ==
    ASSUME NEW moves \in Seq(MoveRecords), NEW a \in Nat, NEW m \in Nat, NEW delta \in Int,
           NEW b \in Nat, NEW next, next = maybe_push_move(moves, a, b, delta)
    PROVE  Stays(moves, next, m)
<1>1. Len(moves) <= Len(next) /\ \A k \in 1 .. Len(moves) : next[k] = moves[k]
  BY PushKeeps
<1> QED
  BY <1>1 DEF Stays

LEMMA MovesStay ==
    ASSUME NEW prices \in Seq(Int), NEW m \in Nat, m >= 2, Len(prices) = m + 1
    PROVE  Stays(detect_important_moves(SubSeq(prices, 1, m)), detect_important_moves(prices), m)
<1> DEFINE first == SubSeq(prices, 1, m)
           taken == prices[m + 1] - prices[m]
           run == scan(prices)[m]
           then == scan(prices)[m + 1]
           moves == maybe_push_move(run.out, run.start, m, run.delta)
           next == maybe_push_move(then.out, then.start, m + 1, then.delta)
<1>1. /\ m \in 1 .. Len(prices) /\ m + 1 \in 1 .. Len(prices) /\ m + 1 \in 2 .. Len(prices)
      /\ (m + 1) - 1 = m /\ m \in 1 .. (Len(prices) - 1) /\ Len(prices) >= 1 /\ ~(m < 2)
      /\ ~(m + 1 < 2)
  OBVIOUS
<1>2. first \in Seq(Int) /\ Len(first) = m
  BY <1>1, SubSeqProperties
<1>3. detect_important_moves(first) = moves
  <2>1. scan(first)[m] = run
    BY <1>1, ScanOfPrefix
  <2> HIDE DEF first, run
  <2> QED
    BY <1>1, <1>2, <2>1 DEF detect_important_moves
<1>4. detect_important_moves(prices) = next
  BY <1>1 DEF detect_important_moves
<1>5. RunIsSound(run, prices, m) /\ RunIsSound(then, prices, m + 1)
  BY <1>1, ScanIsSound
<1>6. then = OneStep(run, m + 1, taken)
  BY <1>1, ScanScans DEF Scans
<1>7. /\ run \in RunRecords /\ run.out \in Seq(MoveRecords) /\ run.start \in Nat /\ run.start <= m
      /\ run.delta \in Int /\ taken \in Int /\ run.direction \in {-1, 0, 1}
      /\ then.out \in Seq(MoveRecords) /\ then.start \in Nat /\ then.delta \in Int /\ m + 1 \in Nat
  BY <1>1, <1>5 DEF RunIsSound, RunRecords
<1>8. SUFFICES Stays(moves, next, m)
  BY <1>3, <1>4
<1> HIDE DEF run, then, taken, first
<1>9. ASSUME then.out = moves PROVE Stays(moves, next, m)
  <2>1. moves \in Seq(MoveRecords)
    BY <1>7, <1>9
  <2> HIDE DEF moves
  <2>2. next = maybe_push_move(moves, then.start, m + 1, then.delta)
    BY <1>9
  <2> QED
    BY <1>7, <2>1, <2>2, PushStays
<1>10. CASE taken = 0 \/ (run.direction # 0 /\ Sign(taken) # run.direction)
  <2>1. then.out = moves
    BY <1>1, <1>6, <1>10 DEF OneStep, NextRun
  <2> QED
    BY <1>9, <2>1
<1>11. CASE taken # 0 /\ run.direction = 0
  <2>1. then.out = run.out
    BY <1>6, <1>7, <1>11 DEF OneStep, RunRecords
  <2>2. run.start = m
    BY <1>5, <1>11 DEF RunIsSound
  <2>3. moves = run.out
    BY <2>2 DEF maybe_push_move
  <2> QED
    BY <1>9, <2>1, <2>3
<1>12. CASE taken # 0 /\ run.direction # 0 /\ Sign(taken) = run.direction
  <2> DEFINE out == run.out
             a == run.start
  <2>1. then.out = out /\ then.start = a /\ then.delta = run.delta + taken
    BY <1>6, <1>7, <1>12 DEF OneStep, RunRecords
  <2>2. Sign(run.delta) = run.direction /\ a < m
    BY <1>5, <1>12 DEF RunIsSound
  <2>3. Distance(run.delta + taken) >= Distance(run.delta) /\ Distance(run.delta) \in Int
        /\ Distance(run.delta + taken) \in Int /\ important_delta \in Int
    BY <1>7, <1>12, <2>2 DEF Sign, Distance, important_delta
  <2>4. out \in Seq(MoveRecords) /\ a \in Nat /\ run.delta + taken \in Int /\ Len(out) \in Nat
    BY <1>7
  <2>5. CASE Distance(run.delta) < important_delta
    <3>1. moves = out
      BY <2>5 DEF maybe_push_move
    <3> QED
      BY <1>9, <2>1, <3>1
  <2>6. CASE ~(Distance(run.delta) < important_delta)
    <3> DEFINE n == Len(out) + 1
    <3>1. ~(m <= a) /\ ~(m + 1 <= a) /\ ~(Distance(run.delta + taken) < important_delta)
      BY <2>2, <2>3, <2>4, <2>6
    <3> DEFINE delta == run.delta
               sum == run.delta + taken
               before == maybe_push_move(out, a, m, delta)
               after == maybe_push_move(out, a, m + 1, sum)
    <3>a. moves = before /\ next = after
      BY <2>1
    <3>b. sum \in Int /\ delta \in Int /\ m + 1 \in Nat
      BY <1>7, <2>4
    <3>c. ~(Distance(sum) < important_delta) /\ ~(Distance(delta) < important_delta)
      BY <2>6, <3>1
    <3>f. /\ before = maybe_push_move(out, a, m, delta)
          /\ after = maybe_push_move(out, a, m + 1, sum)
      OBVIOUS
    <3> HIDE DEF out, a, delta, sum, moves, next, before, after
    <3>d. /\ Len(before) = n /\ before[n] = [start |-> a, end |-> m, delta |-> delta]
          /\ \A k \in 1 .. Len(out) : before[k] = out[k]
      BY <2>4, <3>1, <3>b, <3>c, <3>f, PushAdds
    <3>e. /\ Len(after) = n /\ after[n] = [start |-> a, end |-> m + 1, delta |-> sum]
          /\ \A k \in 1 .. Len(out) : after[k] = out[k]
      BY <2>4, <3>1, <3>b, <3>c, <3>f, PushAdds
    <3>2. /\ Len(moves) = n /\ moves[n] = [start |-> a, end |-> m, delta |-> delta]
          /\ \A k \in 1 .. Len(out) : moves[k] = out[k]
      BY <3>a, <3>d
    <3>3. /\ Len(next) = n
          /\ next[n] = [start |-> a, end |-> m + 1, delta |-> sum]
          /\ \A k \in 1 .. Len(out) : next[k] = out[k]
      BY <3>a, <3>e
    <3>4. \A k \in 1 .. n : k = n \/ k \in 1 .. Len(out)
      BY <2>4
    <3>5. moves[n].start = a /\ next[n].start = a /\ moves[n].end = m /\ next[n].end = m + 1
      BY <3>2, <3>3
    <3>6. n <= n
      BY <2>4
    <3> QED
      BY <3>2, <3>3, <3>4, <3>5, <3>6 DEF Stays
  <2> QED
    BY <2>5, <2>6
<1> QED
  BY <1>10, <1>11, <1>12
-----------------------------------------------------------------------------
(* The quotes.                                                             *)

FiniteInts(c) == {S \in SUBSET Int : IsFiniteSet(S) /\ Cardinality(S) = c}

LEMMA ALargestExists ==
    ASSUME NEW S \in SUBSET Int, IsFiniteSet(S), S # {}
    PROVE  \E n \in S : \A m \in S : m <= n
<1> DEFINE HasLargest(R) == \E n \in R : \A m \in R : m <= n
           C == {c \in Nat : \A R \in FiniteInts(c) : R # {} => HasLargest(R)}
<1>1. 0 \in C
  <2>1. ASSUME NEW R \in FiniteInts(0) PROVE R = {}
    BY FS_EmptySet DEF FiniteInts
  <2> QED
    BY <2>1
<1>2. ASSUME NEW c \in C PROVE c + 1 \in C
  <2>1. c \in Nat
    OBVIOUS
  <2>2. ASSUME NEW R \in FiniteInts(c + 1), R # {} PROVE HasLargest(R)
    <3>1. PICK x \in R : TRUE
      BY <2>2
    <3> DEFINE rest == R \ {x}
    <3>2. R \in SUBSET Int /\ IsFiniteSet(R) /\ Cardinality(R) = c + 1 /\ x \in Int
      BY DEF FiniteInts
    <3>3. IsFiniteSet(rest) /\ Cardinality(rest) = c
      <4>1. IsFiniteSet(rest) /\ Cardinality(rest) = Cardinality(R) - 1
        BY <3>1, <3>2, FS_RemoveElement, Zenon
      <4> QED
        BY <2>1, <3>2, <4>1
    <3>4. rest \in FiniteInts(c)
      BY <3>2, <3>3 DEF FiniteInts
    <3>5. CASE rest = {}
      BY <3>1, <3>2, <3>5
    <3>6. CASE rest # {}
      <4>1. HasLargest(rest)
        BY <1>2, <3>4, <3>6
      <4>2. PICK y \in rest : \A m \in rest : m <= y
        BY <4>1
      <4>3. y \in Int /\ y \in R
        BY <3>2
      <4>4. CASE x <= y
        BY <3>2, <4>2, <4>3, <4>4
      <4>5. CASE ~(x <= y)
        BY <3>2, <4>2, <4>3, <4>5
      <4> QED
        BY <4>4, <4>5
    <3> QED
      BY <3>5, <3>6
  <2> HIDE DEF HasLargest
  <2> QED
    BY <2>1, <2>2
<1>3. C \in SUBSET Nat
  OBVIOUS
<1>4. Cardinality(S) \in Nat /\ S \in FiniteInts(Cardinality(S))
  BY FS_CardinalityType DEF FiniteInts
<1>5. Cardinality(S) \in C
  <2> HIDE DEF C
  <2> QED
    BY <1>1, <1>2, <1>3, <1>4, NatSetInduction
<1> QED
  BY <1>4, <1>5

LEMMA LargestIs ==
    ASSUME NEW S \in SUBSET Int, IsFiniteSet(S), S # {}
    PROVE  Largest(S) \in S /\ \A m \in S : m <= Largest(S)
<1>1. \E n \in S : \A m \in S : m <= n
  BY ALargestExists
<1> QED
  BY <1>1 DEF Largest

\* In a finite set of days there is an n-th one.
LEMMA AnNthExists ==
    ASSUME NEW S \in SUBSET Int, IsFiniteSet(S), NEW n \in 1 .. Cardinality(S)
    PROVE  \E day \in S : Cardinality({d \in S : d <= day}) = n
<1> DEFINE UpToDay(R, day) == {d \in R : d <= day}
           HasNth(R, k) == \E day \in R : Cardinality(UpToDay(R, day)) = k
           C == {c \in Nat : \A R \in FiniteInts(c) : \A k \in 1 .. c : HasNth(R, k)}
<1>1. 0 \in C
  OBVIOUS
<1>2. ASSUME NEW c \in C PROVE c + 1 \in C
  <2>1. c \in Nat
    OBVIOUS
  <2>2. ASSUME NEW R \in FiniteInts(c + 1), NEW k \in 1 .. (c + 1) PROVE HasNth(R, k)
    <3>1. R \in SUBSET Int /\ IsFiniteSet(R) /\ Cardinality(R) = c + 1
      BY DEF FiniteInts
    <3>2. R # {}
      BY <2>1, <3>1, FS_EmptySet
    <3> DEFINE x == Largest(R)
               rest == R \ {x}
    <3>3. x \in R /\ \A m \in R : m <= x
      BY <3>1, <3>2, LargestIs
    <3> HIDE DEF x
    <3>4. IsFiniteSet(rest) /\ Cardinality(rest) = c /\ rest \in SUBSET Int
      <4>1. IsFiniteSet(rest) /\ Cardinality(rest) = Cardinality(R) - 1
        BY <3>1, <3>3, FS_RemoveElement, Zenon
      <4>2. Cardinality(rest) = c
        BY <2>1, <3>1, <4>1
      <4>3. rest \in SUBSET Int
        BY <3>1
      <4> QED
        BY <4>1, <4>2, <4>3
    <3>5. rest \in FiniteInts(c)
      BY <3>4 DEF FiniteInts
    <3>6. CASE k = c + 1
      <4>1. UpToDay(R, x) = R
        BY <3>3
      <4> QED
        BY <3>1, <3>3, <3>6, <4>1
    <3>7. CASE k # c + 1
      <4>1. k \in 1 .. c
        BY <2>1, <3>7
      <4>2. HasNth(rest, k)
        BY <1>2, <3>5, <4>1
      <4>3. PICK day \in rest : Cardinality(UpToDay(rest, day)) = k
        BY <4>2
      <4>4. day \in Int /\ x \in Int /\ day <= x /\ day # x
        BY <3>1, <3>3
      <4>5. UpToDay(R, day) = UpToDay(rest, day)
        BY <4>4
      <4> QED
        BY <4>3, <4>5
    <3> QED
      BY <3>6, <3>7
  <2> HIDE DEF HasNth
  <2> QED
    BY <2>1, <2>2
<1>3. C \in SUBSET Nat
  OBVIOUS
<1>4. Cardinality(S) \in Nat /\ S \in FiniteInts(Cardinality(S))
  BY FS_CardinalityType DEF FiniteInts
<1>5. Cardinality(S) \in C
  <2> HIDE DEF C
  <2> QED
    BY <1>1, <1>2, <1>3, <1>4, NatSetInduction
<1> QED
  BY <1>4, <1>5

LEMMA PricesAreWhole ==
    ASSUME NEW response \in Responses, NEW i \in DOMAIN response
    PROVE  response[i].price \in Int
<1> DEFINE Quotations == [day : Int, price : Int]
<1>1. response \in Seq(Quotations)
  BY PlotAssumption
<1>2. \A q \in Quotations : q.price \in Int
  OBVIOUS
<1> HIDE DEF Quotations
<1>3. response[i] \in Quotations
  BY <1>1
<1> QED
  BY <1>2, <1>3

LEMMA FetchedArePrices ==
    ASSUME NEW response \in Responses, NEW Pr \in SUBSET Int,
           \A i \in DOMAIN response : response[i].price \in Pr
    PROVE  /\ fetch_bcb_usd_brl_quotes(response) \in Seq(Pr)
           /\ Len(fetch_bcb_usd_brl_quotes(response)) <= LastN
<1> DEFINE indices == DOMAIN response
           DayOf(i) == response[i].day
           days == {DayOf(i) : i \in indices}
           UpToDay(day) == {d \in days : d <= day}
           nth_day(n) == CHOOSE day \in days : Cardinality(UpToDay(day)) = n
           OfDay(day) == {i \in indices : DayOf(i) = day}
           last(day) == Largest(OfDay(day))
           price(n) == response[last(nth_day(n))].price
           count == Cardinality(days)
           prices == [n \in 1 .. count |-> price(n)]
<1>1. response \in Seq([day : Int, price : Int])
  BY PlotAssumption
<1>2. indices = 1 .. Len(response) /\ Len(response) \in Nat
      /\ \A i \in indices : DayOf(i) \in Int /\ response[i].price \in Pr
  <2> DEFINE Quotations == [day : Int, price : Int]
  <2>1. response \in Seq(Quotations)
    BY <1>1
  <2>2. \A q \in Quotations : q.day \in Int /\ q.price \in Int
    OBVIOUS
  <2> HIDE DEF Quotations
  <2>3. indices = 1 .. Len(response) /\ Len(response) \in Nat
        /\ \A i \in indices : response[i] \in Quotations
    BY <2>1
  <2> QED
    BY <2>2, <2>3
<1>3. IsFiniteSet(indices) /\ indices \in SUBSET Int
  BY <1>2, FS_Interval
<1> HIDE DEF indices, DayOf
<1>4. IsFiniteSet(days) /\ days \in SUBSET Int
  <2> DEFINE f == [i \in indices |-> DayOf(i)]
  <2>1. f \in [indices -> days] /\ \A day \in days : \E i \in indices : f[i] = day
    OBVIOUS
  <2>2. days \in SUBSET Int
    BY <1>2
  <2> HIDE DEF f, days
  <2>3. f \in Surjection(indices, days)
    BY <2>1 DEF Surjection
  <2> QED
    BY <1>3, <2>2, <2>3, FS_Surjection
<1>5. count \in Nat
  BY <1>4, FS_CardinalityType
<1>6. ASSUME NEW n \in 1 .. count PROVE price(n) \in Pr
  <2>1. nth_day(n) \in days
    <3>1. \E day \in days : Cardinality({d \in days : d <= day}) = n
      <4> HIDE DEF days
      <4> QED
        BY <1>4, AnNthExists
    <3> HIDE DEF days
    <3> QED
      BY <3>1
  <2> DEFINE day == nth_day(n)
             same == OfDay(day)
  <2>2. same # {}
    <3> HIDE DEF day
    <3> QED
      BY <2>1 DEF day
  <2>3. same \in SUBSET indices
    OBVIOUS
  <2> HIDE DEF same
  <2>4. IsFiniteSet(same) /\ same \in SUBSET Int
    BY <1>3, <2>3, FS_Subset
  <2>5. Largest(same) \in indices
    BY <2>2, <2>3, <2>4, LargestIs
  <2> QED
    BY <1>2, <2>5 DEF same
<1> HIDE DEF count, price
<1>7. prices \in Seq(Pr) /\ Len(prices) = count
  BY <1>5, <1>6
<1>8. fetch_bcb_usd_brl_quotes(response) =
          SubSeq(prices, IF Len(prices) > LastN THEN Len(prices) - LastN + 1 ELSE 1, Len(prices))
  BY DEF fetch_bcb_usd_brl_quotes, count, price, indices, DayOf
<1> HIDE DEF prices
<1>9. LastN \in Nat /\ Len(prices) \in Nat
  BY <1>7, PlotAssumption
<1> DEFINE from == IF Len(prices) > LastN THEN Len(prices) - LastN + 1 ELSE 1
<1>10. from \in 1 .. Len(prices) + 1
  BY <1>9
<1> HIDE DEF from
<1>11. /\ SubSeq(prices, from, Len(prices)) \in Seq(Pr)
       /\ Len(SubSeq(prices, from, Len(prices))) =
             IF from <= Len(prices) THEN Len(prices) - from + 1 ELSE 0
  <2>1. \A i \in from .. Len(prices) : prices[i] \in Pr
    BY <1>7, <1>10
  <2> QED
    BY <1>7, <1>9, <1>10, <2>1, SubSeqProperties
<1>12. (IF from <= Len(prices) THEN Len(prices) - from + 1 ELSE 0) <= LastN
  BY <1>9 DEF from
<1> QED
  BY <1>8, <1>11, <1>12 DEF from
-----------------------------------------------------------------------------
(* The demonstration.                                                      *)

PlotTypeOK ==
    /\ demo \in {"loading", "plotting", "done", "failed"}
    /\ demo # "loading" => quotes \in Seq(Int) /\ len \in Nat /\ 3 <= len /\ len <= Len(quotes)

LEMMA SyntheticPrices == synthetic_quotes \in Seq(Int) /\ Len(synthetic_quotes) = 30
<1>1. synthetic_cents \in Seq(Int) /\ Len(synthetic_cents) = 30
  BY DEF synthetic_cents
<1>2. DOMAIN synthetic_cents = 1 .. 30
  BY <1>1
<1>3. \A n \in 1 .. 30 : synthetic_cents[n] \in Int
  BY <1>1, ElementOfSeq
<1>4. \A n \in 1 .. 30 : 10 * synthetic_cents[n] \in Int
  BY <1>3
<1> QED
  BY <1>2, <1>4 DEF synthetic_quotes

LEMMA PlotIsInductive ==
    /\ PlotInit => PlotTypeOK
    /\ PlotTypeOK /\ [PlotNext]_plotVars => PlotTypeOK'
<1>1. PlotInit => PlotTypeOK
  BY DEF PlotInit, PlotTypeOK
<1>2. ASSUME PlotTypeOK, [PlotNext]_plotVars PROVE PlotTypeOK'
  <2>1. CASE Load
    <3>1. ASSUME NEW fetched \in Seq(Int), Len(fetched) >= MinQuotes
          PROVE  Len(fetched) >= 3
      BY <3>1, PlotAssumption
    <3>2. quotes' \in Seq(Int) /\ Len(quotes') >= 3
      <4>1. CASE quotes' = synthetic_quotes
        BY <4>1, SyntheticPrices
      <4>2. CASE quotes' # synthetic_quotes
        <5>1. PICK response \in Responses :
                 /\ quotes' = fetch_bcb_usd_brl_quotes(response)
                 /\ ~(Len(fetch_bcb_usd_brl_quotes(response)) < MinQuotes)
          BY <2>1, <4>2 DEF Load
        <5> DEFINE fetched == fetch_bcb_usd_brl_quotes(response)
        <5>2. fetched \in Seq(Int)
          <6>1. \A i \in DOMAIN response : response[i].price \in Int
            BY PricesAreWhole
          <6> QED
            BY <6>1, FetchedArePrices
        <5> HIDE DEF fetched
        <5>3. quotes' = fetched /\ ~(Len(fetched) < MinQuotes)
          BY <5>1 DEF fetched
        <5>4. Len(fetched) >= MinQuotes
          BY <5>2, <5>3, PlotAssumption
        <5> QED
          BY <3>1, <5>2, <5>3, <5>4
      <4> QED
        BY <4>1, <4>2
    <3>3. demo' = "plotting" /\ len' = 3
      BY <2>1 DEF Load
    <3> QED
      BY <3>2, <3>3 DEF PlotTypeOK
  <2>2. CASE PlotMore
    BY <1>2, <2>2 DEF PlotMore, PlotTypeOK
  <2>3. CASE PlotFails
    BY <1>2, <2>3 DEF PlotFails, PlotTypeOK
  <2>4. CASE UNCHANGED plotVars
    BY <1>2, <2>4 DEF plotVars, PlotTypeOK
  <2> QED
    BY <1>2, <2>1, <2>2, <2>3, <2>4 DEF PlotNext
<1> QED
  BY <1>1, <1>2

LEMMA PlottedArePrices ==
    ASSUME NEW n \in Nat, quotes \in Seq(Int), n <= Len(quotes)
    PROVE  SubSeq(quotes, 1, n) \in Seq(Int) /\ Len(SubSeq(quotes, 1, n)) = n
           /\ \A i \in 1 .. n : SubSeq(quotes, 1, n)[i] = quotes[i]
<1>1. \A i \in 1 .. n : quotes[i] \in Int
  OBVIOUS
<1>2. \A i \in 1 .. n : 1 + i - 1 = i
  OBVIOUS
<1> QED
  BY <1>1, <1>2, SubSeqProperties

\* What detect_important_moves lists are the longest runs, and all of them.
LEMMA MovesAre == PlotTypeOK => MovesAreLongestRuns
<1> SUFFICES ASSUME PlotTypeOK, demo # "loading" PROVE MovesAreLongestRuns
  BY DEF MovesAreLongestRuns
<1> DEFINE prices == Plotted
           moves == Moves
           runs == {r \in (1 .. len) \X (1 .. len) :
                        /\ Longest(prices, r[1], r[2])
                        /\ Distance(prices[r[2]] - prices[r[1]]) >= important_delta}
<1>1. prices \in Seq(Int) /\ Len(prices) = len /\ len \in Nat /\ len >= 2
  BY PlottedArePrices DEF PlotTypeOK, Plotted
<1>2. moves = detect_important_moves(prices)
  BY DEF Moves
<1> HIDE DEF prices, moves
<1>3. Lists(moves, prices, len)
  BY <1>1, <1>2, DetectionLists
<1>4. moves \in Seq(MoveRecords) /\ DOMAIN moves = 1 .. Len(moves)
  BY <1>3 DEF Lists
<1>5. \A r \in runs : /\ r[1] \in 1 .. len /\ r[2] \in 1 .. len
                      /\ Longest(prices, r[1], r[2]) /\ Important(prices, r[1], r[2])
  BY DEF Important
<1>6. \A a, b \in 1 .. len : Longest(prices, a, b) /\ Important(prices, a, b) => <<a, b>> \in runs
  BY DEF Important
<1>7. \A a, b : <<a, b>>[1] = a /\ <<a, b>>[2] = b
  OBVIOUS
<1> HIDE DEF runs
<1>8. ASSUME NEW m \in ToSet(moves) PROVE m \in {MoveFrom(prices, r[1], r[2]) : r \in runs}
  <2>1. PICK k \in 1 .. Len(moves) : m = moves[k]
    BY <1>4 DEF ToSet
  <2> DEFINE a == m.start
             b == m.end
  <2>2. /\ a \in 1 .. len /\ b \in 1 .. len /\ Longest(prices, a, b) /\ Important(prices, a, b)
        /\ m = MoveFrom(prices, a, b)
    BY <1>3, <2>1 DEF Lists
  <2> HIDE DEF a, b
  <2>3. <<a, b>> \in runs
    BY <1>6, <2>2
  <2> QED
    BY <1>7, <2>2, <2>3
<1>9. ASSUME NEW r \in runs PROVE MoveFrom(prices, r[1], r[2]) \in ToSet(moves)
  <2>1. PICK k \in 1 .. Len(moves) : moves[k].start = r[1] /\ moves[k].end = r[2]
    BY <1>3, <1>5 DEF Lists
  <2>2. moves[k] = MoveFrom(prices, r[1], r[2])
    BY <1>3, <2>1 DEF Lists
  <2> QED
    BY <1>4, <2>2 DEF ToSet
<1>10. ToSet(moves) = {MoveFrom(prices, r[1], r[2]) : r \in runs}
  BY <1>8, <1>9
<1>11. \A k \in 2 .. Len(moves) : moves[k - 1].end <= moves[k].start
  BY <1>3 DEF Lists
<1> QED
  BY <1>10, <1>11 DEF MovesAreLongestRuns, runs, prices, moves

LEMMA MovesRemain == PlotTypeOK => ShownMovesStay
<1> SUFFICES ASSUME PlotTypeOK, demo = "plotting", len < Len(quotes) PROVE ShownMovesStay
  BY DEF ShownMovesStay
<1> DEFINE prices == SubSeq(quotes, 1, len + 1)
<1>1. quotes \in Seq(Int) /\ len \in Nat /\ len >= 2 /\ len + 1 \in Nat /\ len + 1 <= Len(quotes)
      /\ len <= Len(quotes)
  BY DEF PlotTypeOK
<1>2. /\ prices \in Seq(Int) /\ Len(prices) = len + 1
      /\ \A i \in 1 .. (len + 1) : prices[i] = quotes[i]
  BY <1>1, PlottedArePrices
<1>3. SubSeq(prices, 1, len) = Plotted
  <2> DEFINE first == SubSeq(prices, 1, len)
             visible == SubSeq(quotes, 1, len)
  <2>1. \A i \in 1 .. len : i \in 1 .. (len + 1) /\ prices[i] \in Int /\ 1 + i - 1 = i
    BY <1>1, <1>2
  <2>2. /\ first \in Seq(Int) /\ Len(first) = len
        /\ \A i \in 1 .. len : first[i] = prices[i]
    <3> HIDE DEF prices
    <3> QED
      BY <1>1, <2>1, SubSeqProperties
  <2>3. /\ visible \in Seq(Int) /\ Len(visible) = len
        /\ \A i \in 1 .. len : visible[i] = quotes[i]
    BY <1>1, PlottedArePrices
  <2> HIDE DEF first, visible, prices
  <2>4. \A i \in 1 .. len : first[i] = visible[i]
    BY <1>2, <2>1, <2>2, <2>3
  <2>5. first = visible
    BY <2>2, <2>3, <2>4
  <2> QED
    BY <2>5 DEF Plotted, first, visible
<1> DEFINE next == detect_important_moves(prices)
<1>4. Stays(Moves, next, len)
  <2> HIDE DEF prices
  <2> QED
    BY <1>1, <1>2, <1>3, MovesStay DEF Moves
<1>5. DOMAIN Moves = 1 .. Len(Moves)
  <2> DEFINE visible == Plotted
  <2>1. visible \in Seq(Int) /\ Len(visible) = len
    BY <1>1, PlottedArePrices DEF Plotted
  <2> HIDE DEF visible
  <2>2. Lists(detect_important_moves(visible), visible, len)
    BY <1>1, <2>1, DetectionLists
  <2> QED
    BY <2>2 DEF Lists, Moves, visible
<1> HIDE DEF prices
<1> QED
  BY <1>4, <1>5 DEF ShownMovesStay, Stays, prices

\* Whatever the bank answers and however many quotes are plotted, the moves are
\* the longest runs, and each picture keeps those of the one before.
THEOREM MovesInvariant == PlotSpec => []MovesInv
<1>1. PlotTypeOK => MovesInv
  BY MovesAre, MovesRemain DEF MovesInv
<1> QED
  BY <1>1, PlotIsInductive, PTL DEF PlotSpec

-----------------------------------------------------------------------------
(* Extremes, and rounded divisions.                                        *)

LEMMA SmallestIs ==
    ASSUME NEW S \in SUBSET Int, IsFiniteSet(S), S # {}
    PROVE  Smallest(S) \in S /\ \A m \in S : Smallest(S) <= m
<1> DEFINE f == [n \in S |-> -n]
           T == {-n : n \in S}
<1>1. f \in Surjection(S, T)
  BY DEF Surjection
<1>2. IsFiniteSet(T)
  BY <1>1, FS_Surjection
<1>3. T \in SUBSET Int /\ T # {}
  OBVIOUS
<1>4. \A n \in S : -n \in T
  OBVIOUS
<1>5. PICK t \in T : \A m \in T : m <= t
  <2> HIDE DEF T
  <2> QED
    BY <1>2, <1>3, ALargestExists
<1>6. PICK n \in S : t = -n
  BY <1>5
<1>7. \A m \in S : n <= m
  <2> HIDE DEF T
  <2> QED
    BY <1>4, <1>5, <1>6
<1>8. \E k \in S : \A m \in S : k <= m
  BY <1>7
<1> QED
  BY <1>8 DEF Smallest

LEMMA OfTwo ==
    ASSUME NEW a \in Int, NEW b \in Int
    PROVE  /\ Smallest({a, b}) = IF a <= b THEN a ELSE b
           /\ Largest({a, b}) = IF a <= b THEN b ELSE a
<1>1. {a, b} \in SUBSET Int /\ {a, b} # {} /\ IsFiniteSet({a, b})
  <2>1. IsFiniteSet({a})
    BY FS_Singleton
  <2>2. {a, b} = {a} \cup {b}
    OBVIOUS
  <2>3. IsFiniteSet({a, b})
    BY <2>1, <2>2, FS_AddElement
  <2> QED
    BY <2>3
<1>2. Smallest({a, b}) \in {a, b} /\ \A m \in {a, b} : Smallest({a, b}) <= m
  BY <1>1, SmallestIs
<1>3. Largest({a, b}) \in {a, b} /\ \A m \in {a, b} : m <= Largest({a, b})
  BY <1>1, LargestIs
<1> QED
  BY <1>2, <1>3

LEMMA Clamped ==
    ASSUME NEW v \in Int, NEW low \in Int, NEW high \in Int, low <= high
    PROVE  clamp_i32(v, low, high) \in low .. high
<1> DEFINE above == Largest({v, low})
<1>1. above = IF v <= low THEN low ELSE v
  BY OfTwo
<1>2. clamp_i32(v, low, high) = Smallest({above, high})
  BY DEF clamp_i32
<1> HIDE DEF above
<1>3. Smallest({above, high}) = IF above <= high THEN above ELSE high
  BY <1>1, OfTwo
<1> QED
  BY <1>1, <1>2, <1>3

\* A product with a factor in range is in range.
LEMMA Product ==
    ASSUME NEW a \in Int, NEW b \in Int, NEW k \in Nat, a <= b
    PROVE  a * k \in Int /\ b * k \in Int /\ a * k <= b * k
<1>1. b - a >= 0 /\ (b - a) * k >= 0
  OBVIOUS
<1>2. (b - a) * k = b * k - a * k
  OBVIOUS
<1> QED
  BY <1>1, <1>2

\* Round is to the nearest.
LEMMA RoundIs ==
    ASSUME NEW a \in Nat, NEW b \in Nat \ {0}
    PROVE  /\ Round(a, b) \in Nat
           /\ 2 * (b * Round(a, b)) <= 2 * a + b
           /\ 2 * a < 2 * (b * Round(a, b)) + b
  BY DEF Round

LEMMA RoundGrows ==
    ASSUME NEW a \in Nat, NEW c \in Nat, NEW b \in Nat \ {0}, a <= c
    PROVE  Round(a, b) <= Round(c, b)
  BY DEF Round

LEMMA RoundShifts ==
    ASSUME NEW a \in Nat, NEW b \in Nat \ {0}, NEW k \in Nat
    PROVE  Round(a + k * b, b) = Round(a, b) + k
  BY DEF Round

LEMMA RoundOfWhole ==
    ASSUME NEW b \in Nat \ {0}, NEW k \in Nat
    PROVE  Round(b * k, b) = k /\ Round(0, b) = 0
<1>1. Round(0, b) = 0
  BY DEF Round
<1>2. Round(0 + k * b, b) = Round(0, b) + k
  BY RoundShifts
<1>3. 0 + k * b = b * k
  OBVIOUS
<1> QED
  BY <1>1, <1>2, <1>3

-----------------------------------------------------------------------------
(* The layout.                                                             *)

\* What ChartAssumption grants of each price, and what slop may be.
Prices == {price \in Nat : 100 <= price /\ price <= 990000}
Slops == [below : 0 .. 1, above : 0 .. 1]

LEMMA DigitsAre == \A n \in Int : Digits(n) \in 1 .. 3
  BY DEF Digits

LEMMA SmallTexts ==
    ASSUME NEW chars \in Nat
    PROVE  /\ measure(chars, small_font).height = 21
           /\ chars \in 7 .. 9 => measure(chars, small_font).width \in 74 .. 95
           /\ chars <= 83 => measure(chars, small_font).width \in 0 .. 875
  BY DEF measure, UpTo, small_font

LEMMA ThemeNumbers ==
    /\ PlotAreaTop = 117 /\ InnerHeight = 452 /\ AxisLabelY = 678 /\ DayLabel.width = 21
    /\ DayLabel.height = 53
<1>1. PlotAreaTop = 117
  BY DEF PlotAreaTop, outer, measure, title_font, gap, small_font, UpTo
<1>2. DayLabel.width = 21 /\ DayLabel.height = 53
  BY DEF DayLabel, Rotated, measure, small_font, UpTo
<1>3. AxisLabelY = 678
  <2>1. AxisLabelHeight = 22
    BY DEF AxisLabelHeight, measure, label_font, UpTo
  <2> QED
    BY <2>1 DEF AxisLabelY, Canvas, outer, gap
<1>4. PlotAreaBottom = 593
  BY <1>2, <1>3 DEF PlotAreaBottom, gap, x_tick_length
<1> QED
  BY <1>1, <1>2, <1>3, <1>4 DEF InnerHeight, gap

LEMMA WithinRange ==
    ASSUME NEW fits \in Nat
    PROVE  Smallest({22, Largest({5, fits})}) =
               IF fits <= 5 THEN 5 ELSE IF fits <= 22 THEN fits ELSE 22
<1> DEFINE least == Largest({5, fits})
<1>1. least = IF 5 <= fits THEN fits ELSE 5
  BY OfTwo
<1> HIDE DEF least
<1>2. least \in Int
  BY <1>1
<1>3. Smallest({22, least}) = IF 22 <= least THEN 22 ELSE least
  BY <1>2, OfTwo
<1> QED
  BY <1>1, <1>3 DEF least

\* The pixels of a cent: as many as fit, within px_range.
LEMMA PixelsAre ==
    ASSUME NEW span \in Nat, span >= 8
    PROVE  LET px == px_per_cent(InnerHeight, span)
           IN  /\ px \in 5 .. 22
               /\ px > 5 => span * px <= 452
               /\ span <= 20 => px = 22
<1> DEFINE fits == 452 \div span
           px == px_per_cent(InnerHeight, span)
<1>1. fits \in Nat /\ span * fits <= 452 /\ (span <= 20 => fits >= 22)
  OBVIOUS
<1>2. px = Smallest({22, Largest({5, fits})})
  BY ThemeNumbers DEF px_per_cent, px_range
<1> HIDE DEF fits, px
<1>3. px \in 5 .. 22 /\ px = IF fits <= 5 THEN 5 ELSE IF fits <= 22 THEN fits ELSE 22
  BY <1>1, <1>2, WithinRange
<1>4. px > 5 => span * px <= 452
  <2> SUFFICES ASSUME px > 5 PROVE span * px <= 452
    OBVIOUS
  <2>1. px * span <= fits * span
    BY <1>1, <1>3, Product
  <2> QED
    BY <1>1, <1>3, <2>1
<1> QED
  BY <1>1, <1>3, <1>4 DEF px

\* What has no remainder from the first multiple on: two of them are t apart or more.
LEMMA Multiples ==
    ASSUME NEW low \in Nat, NEW high \in Nat, NEW t \in Nat \ {0}, t <= high - low
    PROVE  LET first == UpTo(low, t) * t
           IN  /\ first \in low .. high
               /\ \A c, d \in first .. high :
                     (c - first) % t = 0 /\ (d - first) % t = 0 /\ c < d => d - c >= t
<1> DEFINE first == UpTo(low, t) * t
<1>1. first \in low .. high
  BY DEF UpTo
<1> HIDE DEF first
<1>2. ASSUME NEW c \in first .. high, NEW d \in first .. high,
             (c - first) % t = 0, (d - first) % t = 0, c < d
      PROVE  d - c >= t
  <2> DEFINE x == (c - first) \div t
             y == (d - first) \div t
  <2>1. x \in Nat /\ y \in Nat /\ c - first = t * x /\ d - first = t * y
    BY <1>1, <1>2
  <2> HIDE DEF x, y
  <2>2. x < y
    <3> SUFFICES ASSUME y <= x PROVE FALSE
      BY <2>1
    <3>1. y * t <= x * t
      BY <2>1, Product
    <3> QED
      BY <1>1, <1>2, <2>1, <3>1
  <2>3. (x + 1) * t <= y * t
    BY <2>1, <2>2, Product
  <2> QED
    BY <1>1, <2>1, <2>3
<1> QED
  BY <1>1, <1>2 DEF first

\* There are ticks, all of them on the scale, and no two closer than nice_cent_tick.
LEMMA TicksAre ==
    ASSUME NEW low \in Nat, NEW high \in Nat, high - low >= 8
    PROVE  LET ticks == build_y_tick_cents(low, high)
               tick == nice_cent_tick(high - low)
           IN  /\ ticks \subseteq low .. high /\ ticks # {}
               /\ \A c, d \in ticks : c < d => d - c >= tick
               /\ tick \in Nat /\ tick >= IF high - low <= 20 THEN 2 ELSE 5
<1> DEFINE tick == nice_cent_tick(high - low)
           first == UpTo(low, tick) * tick
           ticks == build_y_tick_cents(low, high)
<1>1. tick \in Nat \ {0} /\ tick <= high - low /\ tick >= IF high - low <= 20 THEN 2 ELSE 5
  BY DEF nice_cent_tick
<1>2. ticks = {c \in first .. high : (c - first) % tick = 0}
  BY DEF build_y_tick_cents
<1> HIDE DEF tick
<1>3. /\ first \in low .. high
      /\ \A c, d \in first .. high :
            (c - first) % tick = 0 /\ (d - first) % tick = 0 /\ c < d => d - c >= tick
  BY <1>1, Multiples
<1> HIDE DEF first, ticks
<1>4. \A c \in ticks : c \in first .. high /\ (c - first) % tick = 0
  BY <1>2
<1>5. first \in first .. high /\ (first - first) % tick = 0
  BY <1>1, <1>3
<1>6. first \in ticks
  BY <1>2, <1>5
<1>7. ticks \subseteq low .. high
  BY <1>3, <1>4
<1>8. \A c, d \in ticks : c < d => d - c >= tick
  BY <1>3, <1>4
<1> QED
  BY <1>1, <1>6, <1>7, <1>8 DEF ticks, tick

-----------------------------------------------------------------------------
(* The days under the plot, and the points in it.                          *)

LEMMA AsManyDays ==
    ASSUME NEW n \in Nat, n >= 2, NEW width \in Nat, width >= 1107
    PROVE  LET by_gap == Largest({2, (width \div min_x_tick_label_gap) + 1})
           IN  Smallest({max_x_tick_labels, by_gap, n}) = IF n <= 8 THEN n ELSE 8
<1> DEFINE fits == (width \div min_x_tick_label_gap) + 1
           by_gap == Largest({2, fits})
<1>1. fits \in Int /\ fits >= 8
  BY DEF min_x_tick_label_gap
<1> HIDE DEF fits
<1>2. by_gap = IF 2 <= fits THEN fits ELSE 2
  BY <1>1, OfTwo
<1> HIDE DEF by_gap
<1>3. by_gap \in Int /\ by_gap >= 8
  BY <1>1, <1>2
<1> DEFINE S == {8, by_gap, n}
<1>4. S \in SUBSET Int /\ S # {} /\ IsFiniteSet(S)
  <2>1. IsFiniteSet({8})
    BY FS_Singleton
  <2>2. IsFiniteSet({8} \cup {by_gap})
    BY <2>1, FS_AddElement
  <2>3. IsFiniteSet(({8} \cup {by_gap}) \cup {n})
    BY <2>2, FS_AddElement
  <2>4. S = ({8} \cup {by_gap}) \cup {n}
    OBVIOUS
  <2> QED
    BY <1>3, <2>3, <2>4
<1>5. Smallest(S) \in S /\ \A m \in S : Smallest(S) <= m
  BY <1>4, SmallestIs
<1>6. Smallest(S) = IF n <= 8 THEN n ELSE 8
  BY <1>3, <1>5
<1> QED
  BY <1>6 DEF max_x_tick_labels, by_gap, fits

\* m steps from the first day to the last one, t of them to a label.
LEMMA LabelsAreSpread ==
    ASSUME NEW m \in Nat \ {0}, NEW t \in 1 .. 7, t <= m, NEW width \in Nat, width >= 1107,
           NEW k \in 0 .. t, NEW l \in 0 .. t
    PROVE  LET a == Round(k * m, t)
               b == Round(l * m, t)
           IN  /\ a \in 0 .. m /\ b \in 0 .. m
               /\ a < b => (b - a) * width >= 22 * m
<1> DEFINE a == Round(k * m, t)
           b == Round(l * m, t)
           g == m \div t
<1>1. k * m \in Nat /\ l * m \in Nat /\ t * m \in Nat /\ k * m <= t * m /\ l * m <= t * m
  BY Product
<1>0. t \in Nat \ {0} /\ m \in Nat
  OBVIOUS
<1>2. Round(t * m, t) = m
  BY <1>0, RoundOfWhole
<1>3. a \in 0 .. m /\ b \in 0 .. m
  <2>1. a \in Nat /\ b \in Nat
    BY <1>0, <1>1, RoundIs, ZenonT(40)
  <2>2. a <= Round(t * m, t) /\ b <= Round(t * m, t)
    BY <1>0, <1>1, RoundGrows
  <2> QED
    BY <1>2, <2>1, <2>2
<1>4. g \in Nat \ {0} /\ g * t <= m /\ m < g * t + t
  OBVIOUS
<1> HIDE DEF g
<1>5. ASSUME a < b PROVE (b - a) * width >= 22 * m
  <2>1. k < l
    <3> SUFFICES ASSUME l <= k PROVE FALSE
      OBVIOUS
    <3>1. l * m <= k * m
      BY Product
    <3>2. b <= a
      BY <1>0, <1>1, <3>1, RoundGrows
    <3> QED
      BY <1>3, <1>5, <3>2
  <2>2. k * m + g * t <= l * m
    <3>1. (k + 1) * m <= l * m
      BY <2>1, Product
    <3> QED
      BY <1>1, <1>4, <3>1
  <2>3. a + g <= b
    <3>1. k * m + g * t \in Nat
      BY <1>1, <1>4
    <3>2. Round(k * m + g * t, t) = a + g
      BY <1>0, <1>1, <1>4, RoundShifts
    <3>3. Round(k * m + g * t, t) <= b
      BY <1>0, <1>1, <2>2, <3>1, RoundGrows
    <3> QED
      BY <3>2, <3>3
  <2> HIDE DEF a, b
  <2>4. g * width <= (b - a) * width
    BY <1>3, <1>4, <2>3, Product
  <2>5. 1107 * g <= width * g
    BY <1>4, Product
  <2>6. t * (g + 1) <= 7 * (g + 1)
    BY <1>4, Product
  <2>7. m < 7 * (g + 1)
    BY <1>4, <2>6
  <2> QED
    BY <1>3, <1>4, <2>4, <2>5, <2>7
<1> QED
  BY <1>3, <1>5

\* The first and the last quote have a label, eight at most do, and they are 22 pixels apart.
LEMMA DaysAre ==
    ASSUME NEW n \in Nat, n >= 2, NEW width \in Nat, width >= 1107
    PROVE  LET labelled == choose_evenly_spaced_indices(n, width)
           IN  /\ {1, n} \subseteq labelled /\ labelled \subseteq 1 .. n
               /\ Cardinality(labelled) <= max_x_tick_labels
               /\ \A i, j \in labelled : i < j => (j - i) * width >= 22 * (n - 1)
<1> DEFINE t == IF n <= 8 THEN n - 1 ELSE 7
           day(k) == 1 + Round(k * (n - 1), t)
           labelled == choose_evenly_spaced_indices(n, width)
<1>1. t \in 1 .. 7 /\ t <= n - 1 /\ n - 1 \in Nat \ {0}
  OBVIOUS
<1>2. labelled = {day(k) : k \in 0 .. t}
  <2>1. n # 1 /\ (IF n <= 8 THEN n ELSE 8) - 1 = t
    OBVIOUS
  <2> HIDE DEF t
  <2> QED
    BY <2>1, AsManyDays DEF choose_evenly_spaced_indices
<1> HIDE DEF t, labelled
<1>3. ASSUME NEW k \in 0 .. t, NEW l \in 0 .. t
      PROVE  /\ day(k) \in 1 .. n /\ day(l) \in 1 .. n
             /\ day(k) < day(l) => (day(l) - day(k)) * width >= 22 * (n - 1)
  <2> DEFINE a == Round(k * (n - 1), t)
             b == Round(l * (n - 1), t)
  <2>1. a \in 0 .. (n - 1) /\ b \in 0 .. (n - 1) /\ (a < b => (b - a) * width >= 22 * (n - 1))
    BY <1>1, LabelsAreSpread, ZenonT(40)
  <2>2. day(k) = 1 + a /\ day(l) = 1 + b
    OBVIOUS
  <2> HIDE DEF a, b, day
  <2>3. day(l) - day(k) = b - a
    BY <2>1, <2>2
  <2> QED
    BY <2>1, <2>2, <2>3
<1>4. day(0) = 1 /\ day(t) = n
  <2>1. t \in Nat \ {0} /\ n - 1 \in Nat
    BY <1>1
  <2>2. Round(t * (n - 1), t) = n - 1 /\ Round(0, t) = 0
    BY <2>1, RoundOfWhole
  <2>3. 0 * (n - 1) = 0
    BY <1>1
  <2> QED
    BY <1>1, <2>2, <2>3
<1>5. Cardinality(labelled) <= 8
  <2> DEFINE f == [k \in 0 .. t |-> day(k)]
  <2> HIDE DEF day
  <2>1. f \in Surjection(0 .. t, labelled)
    BY <1>2 DEF Surjection
  <2>2. IsFiniteSet(0 .. t) /\ Cardinality(0 .. t) = t + 1
    BY <1>1, FS_Interval
  <2>3. Cardinality(labelled) <= Cardinality(0 .. t)
    BY <2>1, <2>2, FS_Surjection
  <2>4. Cardinality(labelled) \in Nat
    BY <2>1, <2>2, FS_Surjection, FS_CardinalityType
  <2> QED
    BY <1>1, <2>2, <2>3, <2>4
<1> HIDE DEF day
<1>6. {1, n} \subseteq labelled
  <2>1. 0 \in 0 .. t /\ t \in 0 .. t
    BY <1>1
  <2> QED
    BY <1>2, <1>4, <2>1
<1>7. labelled \subseteq 1 .. n
  BY <1>2, <1>3
<1>8. \A i, j \in labelled : i < j => (j - i) * width >= 22 * (n - 1)
  BY <1>2, <1>3
<1> QED
  BY <1>5, <1>6, <1>7, <1>8 DEF max_x_tick_labels, labelled

\* Quotes that are c pixels apart before rounding are so after it.
LEMMA PointsKeepApart ==
    ASSUME NEW m \in Nat \ {0}, NEW width \in Nat, NEW left \in Int,
           NEW i \in 1 .. (m + 1), NEW j \in 1 .. (m + 1),
           NEW c \in Nat, (j - i) * width >= c * m
    PROVE  /\ x_of_index(i, m + 1, left, width) \in left .. (left + width)
           /\ x_of_index(j, m + 1, left, width) - x_of_index(i, m + 1, left, width) >= c
<1> DEFINE a == (i - 1) * width
           b == (j - 1) * width
<1>1. a \in Nat /\ b \in Nat /\ a <= m * width /\ m * width \in Nat
  BY Product
<1>2. b - a = (j - i) * width
  OBVIOUS
<1>3. (m + 1) - 1 = m
  OBVIOUS
<1> HIDE DEF a, b
<1>4. a + c * m <= b /\ a + c * m \in Nat
  BY <1>1, <1>2
<1>5. Round(a + c * m, m) = Round(a, m) + c
  BY <1>1, RoundShifts
<1>6. Round(a + c * m, m) <= Round(b, m)
  BY <1>1, <1>4, RoundGrows
<1>7. Round(m * width, m) = width
  BY RoundOfWhole
<1>8. Round(a, m) \in Nat /\ Round(b, m) \in Nat /\ Round(a, m) <= width
  BY <1>1, <1>7, RoundIs, RoundGrows
<1>9. /\ x_of_index(i, m + 1, left, width) = left + Round(a, m)
      /\ x_of_index(j, m + 1, left, width) = left + Round(b, m)
  BY <1>3 DEF x_of_index, a, b
<1> QED
  BY <1>5, <1>6, <1>8, <1>9

\* A price inside the scale is inside the plot.
LEMMA PriceHeight ==
    ASSUME NEW low \in Int, NEW high \in Int, NEW px \in Nat, 5 <= px, NEW bottom \in Int,
           NEW price \in Int, 10 * (low + 4) <= price, price <= 10 * (high - 4)
    PROVE  LET y == y_of_price(price, low, px, bottom)
           IN  y \in Int /\ bottom - (high - low) * px < y /\ y < bottom
<1> DEFINE a == (price - 10 * low) * px
           height == (high - low) * px
<1>1. 40 * px <= (price - 10 * low) * px
  BY Product
<1>2. (price - 10 * low) * px <= (10 * (high - low) - 40) * px
  BY Product
<1>3. a \in Nat /\ height \in Int /\ 200 <= a /\ a <= 10 * height - 200
  BY <1>1, <1>2
<1> HIDE DEF a, height
<1>4. Round(a, 10) \in Nat /\ 0 < Round(a, 10) /\ Round(a, 10) < height
  BY <1>3 DEF Round
<1>5. y_of_price(price, low, px, bottom) = bottom - Round(a, 10)
  BY DEF y_of_price, a
<1> QED
  BY <1>3, <1>4, <1>5 DEF height

\* A tick inside the scale is inside the plot, and two ticks leave room for a text.
LEMMA TickHeights ==
    ASSUME NEW low \in Int, NEW high \in Int, NEW px \in Nat, 5 <= px, NEW bottom \in Int,
           NEW c \in low .. high, NEW d \in low .. high, NEW tick \in Nat,
           c < d => d - c >= tick, tick * px >= 21
    PROVE  LET y == y_of_cents(c, low, px, bottom)
           IN  /\ bottom - (high - low) * px <= y /\ y <= bottom
               /\ c < d => y - y_of_cents(d, low, px, bottom) >= 21
<1>1. (c - low) * px <= (high - low) * px /\ 0 * px <= (c - low) * px
  BY Product
<1>2. /\ y_of_cents(c, low, px, bottom) = bottom - (c - low) * px
      /\ y_of_cents(d, low, px, bottom) = bottom - (d - low) * px
  BY DEF y_of_cents
<1>3. ASSUME c < d PROVE (d - low) * px - (c - low) * px >= 21
  <2>1. tick * px <= (d - c) * px
    BY <1>3, Product
  <2> QED
    BY <2>1
<1> QED
  BY <1>1, <1>2, <1>3

\* What is true of every layout, drawn or not, with the numbers of ThemeNumbers.
ScaleIsSound(at, prices) ==
    /\ at.low \in Nat /\ at.high \in Nat /\ at.high - at.low >= 8
    /\ \A i \in 1 .. Len(prices) :
          10 * (at.low + 4) <= prices[i] /\ prices[i] <= 10 * (at.high - 4)

SidesAreSound(at) == at.left \in 110 .. 131 /\ at.right = 1238

RoomIsSound(at) ==
    LET height == (at.high - at.low) * at.px
    IN  /\ at.px \in 5 .. 22 /\ (at.px > 5 => height <= 452)
        /\ at.top \in Int /\ at.bottom = at.top + height
        /\ at.ok <=> height <= 452
        /\ at.ok => 129 <= at.top /\ at.bottom <= 581

TicksAreSound(at) ==
    /\ at.ticks \subseteq at.low .. at.high /\ at.ticks # {}
    /\ \E tick \in Nat :
          /\ tick * at.px >= 21
          /\ \A c, d \in at.ticks : c < d => d - c >= tick
    /\ LET widest == Largest({format_brl_cent(c) : c \in at.ticks})
       IN  widest \in 7 .. 9

LayoutIsSound(at, prices) ==
    /\ ScaleIsSound(at, prices) /\ SidesAreSound(at) /\ RoomIsSound(at) /\ TicksAreSound(at)
    /\ at.labelled = choose_evenly_spaced_indices(Len(prices), at.right - at.left)

LEMMA WidestIs ==
    ASSUME NEW low \in Nat, NEW high \in Nat, NEW ticks, ticks \subseteq low .. high, ticks # {}
    PROVE  Largest({format_brl_cent(c) : c \in ticks}) \in 7 .. 9
<1> DEFINE S == {format_brl_cent(c) : c \in ticks}
<1>1. \A c \in low .. high : format_brl_cent(c) \in 7 .. 9
  <2> SUFFICES ASSUME NEW c \in low .. high PROVE format_brl_cent(c) \in 7 .. 9
    OBVIOUS
  <2>1. c \div 100 \in Int
    OBVIOUS
  <2> QED
    BY <2>1, DigitsAre DEF format_brl_cent
<1>2. S \in SUBSET (7 .. 9) /\ S # {}
  BY <1>1
<1> HIDE DEF S
<1>3. IsFiniteSet(S) /\ S \in SUBSET Int
  <2> DEFINE f == [c \in ticks |-> format_brl_cent(c)]
  <2>1. IsFiniteSet(ticks)
    <3>1. IsFiniteSet(low .. high)
      BY FS_Interval
    <3> QED
      BY <3>1, FS_Subset
  <2>2. f \in [ticks -> S] /\ \A chars \in S : \E c \in ticks : f[c] = chars
    BY DEF S
  <2> HIDE DEF f
  <2>3. f \in Surjection(ticks, S)
    BY <2>2 DEF Surjection
  <2>4. IsFiniteSet(S)
    BY <2>1, <2>3, FS_Surjection
  <2> QED
    BY <1>2, <2>4
<1>4. Largest(S) \in S
  BY <1>2, <1>3, LargestIs
<1> QED
  BY <1>2, <1>4 DEF S

\* The scale begins and ends four cents or more beyond the prices.
LEMMA ScaleIs ==
    ASSUME NEW prices \in Seq(Prices), Len(prices) >= 1, slop \in Slops
    PROVE  LET lowest == Smallest(ToSet(prices))
               highest == Largest(ToSet(prices))
               low == lowest \div 10 - (IF lowest % 10 = 0 THEN slop.below ELSE 0) - padding
               high == UpTo(highest, 10) + (IF highest % 10 = 0 THEN slop.above ELSE 0) + padding
           IN  /\ low \in Nat /\ high \in Nat /\ high - low >= 8
               /\ \A i \in 1 .. Len(prices) :
                     10 * (low + 4) <= prices[i] /\ prices[i] <= 10 * (high - 4)
<1> DEFINE S == ToSet(prices)
           lowest == Smallest(S)
           highest == Largest(S)
           low == lowest \div 10 - (IF lowest % 10 = 0 THEN slop.below ELSE 0) - padding
           high == UpTo(highest, 10) + (IF highest % 10 = 0 THEN slop.above ELSE 0) + padding
<1>1. \A i \in 1 .. Len(prices) : prices[i] \in Prices /\ prices[i] \in S
  BY ElementOfSeq DEF ToSet
<1>2. S \in SUBSET Prices
  BY DEF ToSet
<1>3. S # {}
  BY <1>1
<1>4. IsFiniteSet(S) /\ S \in SUBSET Int
  <2> DEFINE positions == 1 .. Len(prices)
             f == [i \in positions |-> prices[i]]
  <2>1. DOMAIN prices = positions
    OBVIOUS
  <2>2. S = {prices[i] : i \in positions}
    BY <2>1 DEF ToSet
  <2>3. f \in [positions -> S] /\ \A p \in S : \E i \in positions : f[i] = p
    BY <2>2
  <2>4. IsFiniteSet(positions)
    BY FS_Interval
  <2> HIDE DEF f, positions
  <2>5. f \in Surjection(positions, S)
    BY <2>3 DEF Surjection
  <2>6. IsFiniteSet(S)
    BY <2>4, <2>5, FS_Surjection
  <2> QED
    BY <1>2, <2>6 DEF Prices
<1>5. lowest \in S /\ \A m \in S : lowest <= m
  BY <1>3, <1>4, SmallestIs
<1>6. highest \in S /\ \A m \in S : m <= highest
  BY <1>3, <1>4, LargestIs
<1> HIDE DEF lowest, highest
<1>7. lowest \in Prices /\ highest \in Prices /\ lowest <= highest
      /\ \A i \in 1 .. Len(prices) : lowest <= prices[i] /\ prices[i] <= highest
  BY <1>1, <1>2, <1>5, <1>6
<1> HIDE DEF S
<1>8. slop.below \in 0 .. 1 /\ slop.above \in 0 .. 1
  BY DEF Slops
<1>9. low \in Nat /\ 10 * (low + 4) <= lowest
  BY <1>7, <1>8 DEF Prices, padding
<1>10. high \in Nat /\ highest <= 10 * (high - 4)
  BY <1>7, <1>8 DEF Prices, padding, UpTo
<1> HIDE DEF low, high
<1>11. \A i \in 1 .. Len(prices) : prices[i] \in Int
  BY <1>1 DEF Prices
<1>12. /\ high - low >= 8
       /\ \A i \in 1 .. Len(prices) :
             10 * (low + 4) <= prices[i] /\ prices[i] <= 10 * (high - 4)
  BY <1>7, <1>9, <1>10, <1>11 DEF Prices
<1> QED
  BY <1>9, <1>10, <1>12 DEF low, high, lowest, highest, S

\* Whatever the prices, build_layout returns a sound layout or says that it is not ok.
LEMMA EveryLayoutIsSound ==
    ASSUME NEW prices \in Seq(Prices), Len(prices) >= 2, slop \in Slops
    PROVE  LayoutIsSound(build_layout(prices), prices)
<1> DEFINE lowest == Smallest(ToSet(prices))
           highest == Largest(ToSet(prices))
           low == lowest \div 10 - (IF lowest % 10 = 0 THEN slop.below ELSE 0) - padding
           high == UpTo(highest, 10) + (IF highest % 10 = 0 THEN slop.above ELSE 0) + padding
           tick_cents == build_y_tick_cents(low, high)
           widest == Largest({format_brl_cent(c) : c \in tick_cents})
           label_width == measure(widest, small_font).width
           left == outer.left + label_width + gap.y_label
           right == Canvas.width - outer.right
           px == px_per_cent(InnerHeight, high - low)
           plot_height == (high - low) * px
           top == PlotAreaTop + gap.inner + (InnerHeight - plot_height) \div 2
           at == build_layout(prices)
<1>1. at = [ok |-> Len(prices) >= 2 /\ right > left /\ plot_height <= InnerHeight,
            left |-> left, right |-> right, top |-> top, bottom |-> top + plot_height,
            low |-> low, high |-> high, px |-> px, ticks |-> tick_cents,
            labelled |-> choose_evenly_spaced_indices(Len(prices), right - left)]
  BY DEF build_layout
<1>2. /\ low \in Nat /\ high \in Nat /\ high - low >= 8
      /\ \A i \in 1 .. Len(prices) : 10 * (low + 4) <= prices[i] /\ prices[i] <= 10 * (high - 4)
  BY ScaleIs
<1> HIDE DEF low, high
<1>3. px \in 5 .. 22 /\ (px > 5 => (high - low) * px <= 452) /\ (high - low <= 20 => px = 22)
  <2> DEFINE span == high - low
  <2>1. span \in Nat /\ span >= 8
    BY <1>2
  <2> HIDE DEF span
  <2> QED
    BY <2>1, PixelsAre DEF span
<1>4. /\ tick_cents \subseteq low .. high /\ tick_cents # {}
      /\ \E tick \in Nat :
            /\ tick >= IF high - low <= 20 THEN 2 ELSE 5
            /\ \A c, d \in tick_cents : c < d => d - c >= tick
  BY <1>2, TicksAre
<1> HIDE DEF tick_cents, px
<1>5. widest \in 7 .. 9
  BY <1>2, <1>4, WidestIs
<1> HIDE DEF widest
<1>6. label_width \in 74 .. 95
  BY <1>5, SmallTexts
<1> HIDE DEF label_width
<1>7. left \in 110 .. 131 /\ right = 1238
  BY <1>6 DEF outer, gap, Canvas
<1>8. plot_height \in Nat
  BY <1>2, <1>3
<1> HIDE DEF left, right, plot_height
<1>9. top \in Int /\ top = 129 + (452 - plot_height) \div 2
  BY <1>8, ThemeNumbers DEF gap
<1> HIDE DEF top, at
<1>10. /\ at.left = left /\ at.right = right /\ at.top = top /\ at.bottom = top + plot_height
       /\ at.low = low /\ at.high = high /\ at.px = px /\ at.ticks = tick_cents
       /\ at.labelled = choose_evenly_spaced_indices(Len(prices), right - left)
  BY <1>1
<1>11. at.ok <=> plot_height <= 452
  <2>1. at.ok = (Len(prices) >= 2 /\ right > left /\ plot_height <= InnerHeight)
    BY <1>1
  <2>2. right > left
    BY <1>7
  <2> QED
    BY <2>1, <2>2, ThemeNumbers
<1>12. ScaleIsSound(at, prices)
  BY <1>2, <1>10 DEF ScaleIsSound
<1>13. SidesAreSound(at)
  BY <1>7, <1>10 DEF SidesAreSound
<1>14. RoomIsSound(at)
  <2>1. (at.high - at.low) * at.px = plot_height
    BY <1>10 DEF plot_height
  <2>2. px > 5 => plot_height <= 452
    BY <1>3 DEF plot_height
  <2>3. plot_height <= 452 => 129 <= top /\ top + plot_height <= 581
    BY <1>8, <1>9
  <2> QED
    BY <1>3, <1>9, <1>10, <1>11, <2>1, <2>2, <2>3 DEF RoomIsSound
<1>15. TicksAreSound(at)
  <2>1. PICK tick \in Nat :
           /\ tick >= IF high - low <= 20 THEN 2 ELSE 5
           /\ \A c, d \in tick_cents : c < d => d - c >= tick
    BY <1>4
  <2>2. tick * px >= 21
    <3>1. CASE high - low <= 20
      <4>1. px = 22 /\ tick >= 2
        BY <1>3, <2>1, <3>1
      <4> QED
        BY <4>1
    <3>2. CASE ~(high - low <= 20)
      <4>1. tick >= 5
        BY <2>1, <3>2
      <4>2. 5 * px <= tick * px
        BY <1>3, <4>1, Product
      <4> QED
        BY <1>3, <4>2
    <3> QED
      BY <3>1, <3>2
  <2>3. tick * at.px >= 21 /\ \A c, d \in at.ticks : c < d => d - c >= tick
    BY <1>10, <2>1, <2>2
  <2>4. Largest({format_brl_cent(c) : c \in at.ticks}) \in 7 .. 9
    BY <1>5, <1>10 DEF widest
  <2> QED
    BY <1>4, <1>10, <2>3, <2>4 DEF TicksAreSound
<1> QED
  BY <1>10, <1>12, <1>13, <1>14, <1>15 DEF LayoutIsSound, at

-----------------------------------------------------------------------------
(* The chart of each picture.                                              *)

\* The inductive invariant: prices in range, few enough, and an error that stays one.
ChartTypeOK ==
    /\ demo \in {"loading", "plotting", "done", "failed"}
    /\ demo # "loading" =>
          /\ quotes \in Seq(Prices) /\ Len(quotes) <= 1000 /\ slop \in Slops
          /\ len \in Nat /\ 3 <= len /\ len <= Len(quotes)
    /\ demo = "failed" => ~build_layout(Plotted).ok

LEMMA ChartOfPrices ==
    ASSUME ChartTypeOK, demo # "loading"
    PROVE  /\ Plotted \in Seq(Prices) /\ Len(Plotted) = len
           /\ LayoutIsSound(build_layout(Plotted), Plotted)
<1>1. quotes \in Seq(Prices) /\ slop \in Slops /\ len \in Nat /\ 3 <= len /\ len <= Len(quotes)
  BY DEF ChartTypeOK
<1>2. \A i \in 1 .. len : quotes[i] \in Prices
  BY <1>1, ElementOfSeq
<1>3. Plotted \in Seq(Prices) /\ Len(Plotted) = len
  BY <1>1, <1>2, SubSeqProperties DEF Plotted
<1> QED
  BY <1>1, <1>3, EveryLayoutIsSound

\* ChartInv, conjunct by conjunct.
LEMMA EndsDated == ChartTypeOK => EndsAreDated
<1> SUFFICES ASSUME ChartTypeOK, Drawn PROVE EndsAreDated
  BY DEF EndsAreDated
<1> DEFINE at == build_layout(Plotted)
           width == at.right - at.left
<1>1. demo # "loading" /\ len \in Nat /\ len >= 2
  BY DEF Drawn, ChartTypeOK
<1>2. LayoutIsSound(at, Plotted) /\ Len(Plotted) = len
  BY <1>1, ChartOfPrices
<1> HIDE DEF at
<1>3. width \in Nat /\ width >= 1107 /\ at.labelled = choose_evenly_spaced_indices(len, width)
  <2>1. at.left \in 110 .. 131 /\ at.right = 1238
    BY <1>2 DEF LayoutIsSound, SidesAreSound
  <2>2. at.labelled = choose_evenly_spaced_indices(Len(Plotted), at.right - at.left)
    BY <1>2 DEF LayoutIsSound
  <2>3. width \in Nat /\ width >= 1107
    BY <2>1
  <2> QED
    BY <1>2, <2>2, <2>3
<1> HIDE DEF width
<1>4. /\ {1, len} \subseteq at.labelled /\ at.labelled \subseteq 1 .. len
      /\ Cardinality(at.labelled) <= max_x_tick_labels
  BY <1>1, <1>3, DaysAre
<1> QED
  BY <1>4 DEF EndsAreDated, at

LEMMA FailsWide == ChartTypeOK => FailsOnlyIfTooWide
<1> SUFFICES ASSUME ChartTypeOK, demo = "failed" PROVE FailsOnlyIfTooWide
  BY DEF FailsOnlyIfTooWide
<1> DEFINE at == build_layout(Plotted)
<1>1. LayoutIsSound(at, Plotted) /\ ~at.ok
  BY ChartOfPrices DEF ChartTypeOK
<1> HIDE DEF at
<1>2. at.low \in Nat /\ at.high \in Nat /\ at.px = 5 /\ (at.high - at.low) * at.px > 452
  <2>1. /\ at.px \in 5 .. 22 /\ (at.px > 5 => (at.high - at.low) * at.px <= 452)
        /\ ~((at.high - at.low) * at.px <= 452)
    BY <1>1, Zenon DEF LayoutIsSound, RoomIsSound
  <2>2. at.low \in Nat /\ at.high \in Nat
    BY <1>1, Zenon DEF LayoutIsSound, ScaleIsSound
  <2>3. PICK height \in Int : height = (at.high - at.low) * at.px
    BY <2>1, <2>2
  <2> QED
    BY <2>1, <2>2, <2>3
<1>3. (at.high - at.low) * px_range.min > InnerHeight
  BY <1>2, ThemeNumbers DEF px_range
<1> QED
  BY <1>3 DEF FailsOnlyIfTooWide, at

\* The numbers of a layout, as constants for its steps to name.
HasNumbers(at) ==
    \E low \in Nat, high \in Nat, px \in Nat, top \in Int, left \in Nat, bottom \in Int :
        /\ at.low = low /\ at.high = high /\ at.px = px /\ at.top = top
        /\ at.bottom = bottom /\ at.left = left /\ at.right = 1238
        /\ bottom = top + (high - low) * px /\ high - low >= 8
        /\ 5 <= px /\ px <= 22 /\ 110 <= left /\ left <= 131

LEMMA NumbersOf ==
    ASSUME NEW at, NEW prices, LayoutIsSound(at, prices)
    PROVE  HasNumbers(at)
<1>1. ScaleIsSound(at, prices) /\ RoomIsSound(at) /\ SidesAreSound(at)
  BY DEF LayoutIsSound
<1>2. PICK low \in Nat, high \in Nat : at.low = low /\ at.high = high /\ high - low >= 8
  BY <1>1 DEF ScaleIsSound
<1>3. PICK px \in Nat, top \in Int : at.px = px /\ at.top = top /\ 5 <= px /\ px <= 22
  BY <1>1 DEF RoomIsSound
<1>4. at.bottom = top + (high - low) * px
  BY <1>1, <1>2, <1>3, Zenon DEF RoomIsSound
<1>5. PICK left \in Nat : at.left = left /\ at.right = 1238 /\ 110 <= left /\ left <= 131
  BY <1>1 DEF SidesAreSound
<1>6. PICK bottom \in Int : bottom = top + (high - low) * px
  OBVIOUS
<1>7. at.bottom = bottom
  BY <1>4, <1>6
<1> QED
  BY <1>2, <1>3, <1>5, <1>6, <1>7 DEF HasNumbers

\* Every quote has its point, between its neighbours and inside the plot.
LEMMA PointsAre ==
    ASSUME NEW prices \in Seq(Prices), Len(prices) >= 2, Len(prices) <= 1000, NEW at,
           LayoutIsSound(at, prices),
           NEW i \in 1 .. Len(prices)
    PROVE  LET point == PointOf(at, prices, i)
           IN  /\ point.x \in at.left .. at.right /\ point.y \in Int
               /\ at.top < point.y /\ point.y < at.bottom
               /\ i < Len(prices) => point.x < PointOf(at, prices, i + 1).x
<1>1. PICK low \in Nat, high \in Nat, px \in Nat, top \in Int, left \in Nat,
           bottom \in Int :
         /\ at.low = low /\ at.high = high /\ at.px = px /\ at.top = top
         /\ at.bottom = bottom /\ at.left = left /\ at.right = 1238
         /\ bottom = top + (high - low) * px /\ high - low >= 8
         /\ 5 <= px /\ px <= 22 /\ 110 <= left /\ left <= 131
  <2>1. HasNumbers(at)
    BY NumbersOf
  <2> QED
    BY <2>1 DEF HasNumbers
<1>2. PICK m \in Nat \ {0} : Len(prices) = m + 1 /\ m <= 999
  <2>1. Len(prices) \in Nat
    BY LenProperties, Zenon
  <2>2. PICK n \in Nat : n = Len(prices)
    BY <2>1
  <2>3. n - 1 \in Nat \ {0} /\ n = (n - 1) + 1 /\ n - 1 <= 999
    BY <2>2
  <2> QED
    BY <2>2, <2>3
<1>3. PICK price \in Int : prices[i] = price /\ 10 * (low + 4) <= price /\ price <= 10 * (high - 4)
  <2>1. prices[i] \in Int
    BY ElementOfSeq DEF Prices
  <2>2. 10 * (at.low + 4) <= prices[i] /\ prices[i] <= 10 * (at.high - 4)
    BY DEF LayoutIsSound, ScaleIsSound
  <2> QED
    BY <1>1, <2>1, <2>2
<1>4. PICK width \in Nat : width = 1238 - left /\ 1107 <= width /\ width <= 1128
  BY <1>1
<1> DEFINE point == PointOf(at, prices, i)
           x(j) == x_of_index(j, m + 1, left, width)
<1>5. /\ point.x = x(i) /\ point.y = y_of_price(price, low, px, bottom)
      /\ PointOf(at, prices, i + 1).x = x(i + 1)
  BY <1>1, <1>2, <1>3, <1>4 DEF PointOf
<1> HIDE DEF point
<1>6. point.y \in Int /\ top < point.y /\ point.y < bottom
  <2>1. /\ low \in Int /\ high \in Int /\ px \in Nat /\ 5 <= px /\ bottom \in Int /\ price \in Int
        /\ 10 * (low + 4) <= price /\ price <= 10 * (high - 4)
    BY <1>1, <1>3
  <2>2. LET y == y_of_price(price, low, px, bottom)
        IN  y \in Int /\ bottom - (high - low) * px < y /\ y < bottom
    BY <2>1, PriceHeight, Zenon
  <2>3. PICK y \in Int : /\ point.y = y /\ bottom - (high - low) * px < y /\ y < bottom
    BY <1>5, <2>2, Zenon
  <2>4. PICK height \in Int : height = (high - low) * px /\ bottom = top + height
    BY <1>1
  <2> QED
    BY <1>1, <2>3, <2>4
<1>7. i \in 1 .. (m + 1)
  BY <1>2
<1>8. x(i) \in left .. (left + width)
  <2>1. (i - i) * width >= 0 * m /\ 0 \in Nat /\ left \in Int /\ width \in Nat
    OBVIOUS
  <2> QED
    BY <1>7, <2>1, PointsKeepApart, Zenon
<1>9. ASSUME i < m + 1 PROVE x(i) < x(i + 1)
  <2>1. /\ ((i + 1) - i) * width >= 1 * m /\ i + 1 \in 1 .. (m + 1)
        /\ 1 \in Nat /\ left \in Int /\ width \in Nat
    BY <1>2, <1>4, <1>7, <1>9
  <2>2. /\ x(i) \in left .. (left + width)
        /\ x(i + 1) - x(i) >= 1
    BY <1>7, <2>1, PointsKeepApart, Zenon
  <2>3. x(i) \in Int /\ x(i + 1) \in Int
    BY <1>7 DEF x_of_index, Round
  <2> QED
    BY <2>2, <2>3
<1> HIDE DEF x
<1> QED
  BY <1>1, <1>2, <1>4, <1>5, <1>6, <1>8, <1>9 DEF point

\* The text of a move is at most 112 pixels wide.
LEMMA MoveTexts ==
    ASSUME NEW delta \in Int
    PROVE  LET box == measure(format_delta(delta), label_font)
           IN  box.width \in 90 .. 112 /\ box.height = 22
<1>1. PICK cents \in Int : cents = Round(Distance(delta), 10) \div 100
  BY DEF Round, Distance
<1>2. PICK chars \in 8 .. 10 : format_delta(delta) = chars
  <2>1. Digits(cents) \in 1 .. 3
    BY DigitsAre
  <2> QED
    BY <1>1, <2>1 DEF format_delta
<1>3. measure(chars, label_font) =
          [width |-> UpTo(chars * 18 * 62, 100), height |-> UpTo(18 * 118, 100)]
  BY DEF measure, label_font
<1>4. UpTo(chars * 18 * 62, 100) \in 90 .. 112 /\ UpTo(18 * 118, 100) = 22
  BY DEF UpTo
<1> QED
  BY <1>2, <1>3, <1>4

\* What is clamped between the edges and a gap, with room for it, is inside.
LEMMA Inside ==
    ASSUME NEW v \in Int, NEW near \in Int, NEW far \in Int, NEW size \in Nat,
           near + 4 <= far - size - 4
    PROVE  /\ near < clamp_i32(v, near + 4, far - size - 4)
           /\ clamp_i32(v, near + 4, far - size - 4) + size < far
<1>1. PICK lowest \in Int, highest \in Int : /\ lowest = near + 4 /\ highest = far - size - 4
                                             /\ lowest <= highest
  OBVIOUS
<1>2. clamp_i32(v, lowest, highest) \in lowest .. highest
  BY <1>1, Clamped
<1> QED
  BY <1>1, <1>2

\* A label is clamped into a plot that has room for it.
LEMMA MoveLabelFits ==
    ASSUME NEW prices \in Seq(Prices), Len(prices) >= 2, Len(prices) <= 1000, NEW at,
           LayoutIsSound(at, prices),
           NEW a \in 1 .. Len(prices), NEW b \in 1 .. Len(prices)
    PROVE  LET label == build_movement_layer(at, prices, MoveFrom(prices, a, b))
           IN  /\ at.left < label.x /\ label.x + label.box.width < at.right
               /\ at.top < label.y /\ label.y + label.box.height < at.bottom
<1> DEFINE from == PointOf(at, prices, a)
           to == PointOf(at, prices, b)
           delta == prices[b] - prices[a]
           box == measure(format_delta(delta), label_font)
           label == build_movement_layer(at, prices, MoveFrom(prices, a, b))
<1>1. PICK low \in Nat, high \in Nat, px \in Nat, top \in Int, left \in Nat,
           bottom \in Int :
         /\ at.low = low /\ at.high = high /\ at.px = px /\ at.top = top
         /\ at.bottom = bottom /\ at.left = left /\ at.right = 1238
         /\ bottom = top + (high - low) * px /\ high - low >= 8
         /\ 5 <= px /\ px <= 22 /\ 110 <= left /\ left <= 131
  <2>1. HasNumbers(at)
    BY NumbersOf
  <2> QED
    BY <2>1 DEF HasNumbers
<1>2. bottom >= top + 40
  <2>1. 8 * px <= (high - low) * px
    BY <1>1, Product
  <2>2. PICK height \in Int : height = (high - low) * px
    OBVIOUS
  <2> QED
    BY <1>1, <2>1, <2>2
<1>3. PICK w \in Nat : box.width = w /\ box.height = 22 /\ 90 <= w /\ w <= 112
  <2>1. prices[a] \in Int /\ prices[b] \in Int
    BY ElementOfSeq DEF Prices
  <2>2. delta \in Int
    BY <2>1
  <2> QED
    BY <2>2, MoveTexts
<1>4. from.x \in Int /\ from.y \in Int /\ to.x \in Int /\ to.y \in Int
  <2>1. from.x \in at.left .. at.right /\ from.y \in Int
    BY PointsAre
  <2>2. to.x \in at.left .. at.right /\ to.y \in Int
    BY PointsAre
  <2> QED
    BY <1>1, <2>1, <2>2
<1>5. PICK across \in Int : across = (from.x + to.x) \div 2 - box.width \div 2
  BY <1>3, <1>4
<1>6. PICK down \in Int :
         down = IF delta >= 0 THEN (from.y + to.y) \div 2 - box.height - label_offset
                ELSE (from.y + to.y) \div 2 + label_offset
  <2>1. (from.y + to.y) \div 2 \in Int
    BY <1>4
  <2> QED
    BY <1>3, <2>1 DEF label_offset
<1>7. PICK near \in Int, far \in Int, size \in Nat :
         /\ near = at.left /\ far = at.right /\ size = box.width /\ near + 4 <= far - size - 4
  BY <1>1, <1>3
<1>8. PICK above \in Int, below \in Int, tall \in Nat :
         /\ above = at.top /\ below = at.bottom /\ tall = box.height
         /\ above + 4 <= below - tall - 4
  BY <1>1, <1>2, <1>3
<1>9. /\ label.x = clamp_i32(across, near + 4, far - size - 4)
      /\ label.y = clamp_i32(down, above + 4, below - tall - 4)
      /\ label.box = box
  <2>1. /\ label.x = clamp_i32(across, at.left + gap.movement, at.right - box.width - gap.movement)
        /\ label.y = clamp_i32(down, at.top + gap.movement, at.bottom - box.height - gap.movement)
        /\ label.box = box
    BY <1>5, <1>6 DEF build_movement_layer, MoveFrom
  <2>2. gap.movement = 4
    BY DEF gap
  <2> HIDE DEF label, box
  <2> QED
    BY <1>7, <1>8, <2>1, <2>2, Zenon
<1> HIDE DEF label, box
<1>10. near < label.x /\ label.x + size < far
  <2>1. /\ near < clamp_i32(across, near + 4, far - size - 4)
        /\ clamp_i32(across, near + 4, far - size - 4) + size < far
    BY <1>5, <1>7, Inside, Zenon
  <2> QED
    BY <1>9, <2>1, Zenon
<1>11. above < label.y /\ label.y + tall < below
  <2>1. /\ above < clamp_i32(down, above + 4, below - tall - 4)
        /\ clamp_i32(down, above + 4, below - tall - 4) + tall < below
    BY <1>6, <1>8, Inside, Zenon
  <2> QED
    BY <1>9, <2>1, Zenon
<1>12. /\ at.left < label.x /\ label.x + label.box.width < at.right
       /\ at.top < label.y /\ label.y + label.box.height < at.bottom
  BY <1>7, <1>8, <1>9, <1>10, <1>11
<1> QED
  BY <1>12 DEF label

LEMMA LabelsInPlot == ChartTypeOK => MoveLabelsInPlot
<1> SUFFICES ASSUME ChartTypeOK, Drawn PROVE MoveLabelsInPlot
  BY DEF MoveLabelsInPlot
<1> DEFINE at == build_layout(Plotted)
           prices == Plotted
           moves == Moves
<1>1. demo # "loading" /\ len \in Nat /\ len >= 2 /\ len <= 1000
  BY DEF Drawn, ChartTypeOK
<1>2. prices \in Seq(Prices) /\ Len(prices) = len /\ LayoutIsSound(at, prices)
  BY <1>1, ChartOfPrices
<1>3. moves = detect_important_moves(prices)
  BY DEF Moves
<1> HIDE DEF at, prices, moves
<1>4. prices \in Seq(Int) /\ \A i \in 1 .. len : prices[i] \in Int
  BY <1>2, ElementOfSeq DEF Prices
<1>5. Lists(moves, prices, len)
  BY <1>1, <1>2, <1>3, <1>4, DetectionLists
<1>6. ASSUME NEW k \in DOMAIN moves
      PROVE  LET label == build_movement_layer(at, prices, moves[k])
             IN  /\ at.left < label.x /\ label.x + label.box.width < at.right
                 /\ at.top < label.y /\ label.y + label.box.height < at.bottom
  <2> DEFINE mv == moves[k]
  <2>1. k \in 1 .. Len(moves)
    BY <1>5 DEF Lists
  <2>2. /\ mv.start \in 1 .. len /\ mv.end \in 1 .. len
        /\ mv = MoveFrom(prices, mv.start, mv.end)
    BY <1>5, <2>1 DEF Lists
  <2>3. PICK a \in 1 .. len, b \in 1 .. len : mv = MoveFrom(prices, a, b)
    BY <2>2
  <2> QED
    BY <1>1, <1>2, <2>3, MoveLabelFits
<1> QED
  BY <1>6 DEF MoveLabelsInPlot, at, prices, moves

LEMMA Fits == ChartTypeOK => ChartFits
<1> SUFFICES ASSUME ChartTypeOK, Drawn PROVE ChartFits
  BY DEF ChartFits
<1> DEFINE at == build_layout(Plotted)
           prices == Plotted
           label == measure(Largest({format_brl_cent(c) : c \in at.ticks}), small_font)
           subtitle == measure(77 + Digits(at.px) + Digits(Len(Moves)), small_font)
           title == measure(26 + Digits(len), title_font)
           point(i) == PointOf(at, prices, i)
           y(c) == y_of_cents(c, at.low, at.px, at.bottom)
<1>1. demo # "loading" /\ len \in Nat /\ len >= 2 /\ len <= 1000 /\ at.ok
  BY DEF Drawn, ChartTypeOK
<1>2. prices \in Seq(Prices) /\ Len(prices) = len /\ LayoutIsSound(at, prices)
  BY <1>1, ChartOfPrices
<1>3. Len(Moves) \in Nat
  <2> DEFINE moves == Moves
  <2>1. moves = detect_important_moves(prices)
    BY DEF Moves
  <2> HIDE DEF prices, moves
  <2>2. prices \in Seq(Int)
    BY <1>2, ElementOfSeq DEF Prices
  <2>3. Lists(moves, prices, len)
    BY <1>1, <1>2, <2>1, <2>2, DetectionLists
  <2>4. moves \in Seq(MoveRecords)
    BY <2>3 DEF Lists
  <2>5. Len(moves) \in Nat
    BY <2>4
  <2> QED
    BY <2>5 DEF moves
<1> HIDE DEF at, prices
<1>4. PICK low \in Nat, high \in Nat, px \in Nat, top \in Int, left \in Nat,
           bottom \in Int :
         /\ at.low = low /\ at.high = high /\ at.px = px /\ at.top = top
         /\ at.bottom = bottom /\ at.left = left /\ at.right = 1238
         /\ bottom = top + (high - low) * px /\ high - low >= 8
         /\ 5 <= px /\ px <= 22 /\ 110 <= left /\ left <= 131
  <2>1. HasNumbers(at)
    BY <1>2, NumbersOf
  <2> QED
    BY <2>1 DEF HasNumbers
<1>5. 129 <= top /\ bottom <= 581
  BY <1>1, <1>2, <1>4 DEF LayoutIsSound, RoomIsSound
<1>6. TicksAreSound(at)
  BY <1>2 DEF LayoutIsSound
<1>7. at.left + subtitle.width <= Canvas.width
  <2>1. Digits(at.px) \in 1 .. 3 /\ Digits(Len(Moves)) \in 1 .. 3
    BY <1>3, <1>4, DigitsAre
  <2>2. PICK chars \in Nat : chars = 77 + Digits(at.px) + Digits(Len(Moves)) /\ chars <= 83
    BY <2>1
  <2>3. PICK w \in 0 .. 875 : subtitle.width = w
    BY <2>2, SmallTexts
  <2> HIDE DEF subtitle
  <2> QED
    BY <1>4, <2>3 DEF Canvas
<1>8. at.left + title.width <= Canvas.width
  <2>1. Digits(len) \in 1 .. 3
    BY <1>1, DigitsAre
  <2>2. PICK chars \in 27 .. 29 : chars = 26 + Digits(len)
    BY <2>1
  <2>3. title.width = UpTo(chars * 32 * 62, 100)
    BY <2>2 DEF measure, title_font
  <2>4. UpTo(chars * 32 * 62, 100) \in 0 .. 576
    BY DEF UpTo
  <2> HIDE DEF title
  <2> QED
    BY <1>4, <2>3, <2>4 DEF Canvas
<1>9. label.height = 21
  <2>1. PICK chars \in 7 .. 9 : chars = Largest({format_brl_cent(c) : c \in at.ticks})
    BY <1>6 DEF TicksAreSound
  <2> QED
    BY <2>1, SmallTexts
<1> HIDE DEF label, subtitle, title
<1>10. at.ticks # {}
  BY <1>6 DEF TicksAreSound
<1>11. ASSUME NEW c \in at.ticks, NEW d \in at.ticks
       PROVE  /\ at.top <= y(c) /\ y(c) <= at.bottom
              /\ c < d => y(c) - y(d) >= label.height
  <2>1. PICK tick \in Nat : tick * px >= 21 /\ (c < d => d - c >= tick)
    BY <1>4, <1>6 DEF TicksAreSound
  <2>2. c \in low .. high /\ d \in low .. high
    BY <1>4, <1>6 DEF TicksAreSound
  <2>3. low \in Int /\ high \in Int /\ px \in Nat /\ 5 <= px /\ bottom \in Int
    BY <1>4
  <2>4. LET h == y_of_cents(c, low, px, bottom)
        IN  /\ bottom - (high - low) * px <= h /\ h <= bottom
            /\ c < d => h - y_of_cents(d, low, px, bottom) >= 21
    BY <2>1, <2>2, <2>3, TickHeights, Zenon
  <2>5. y(c) = y_of_cents(c, low, px, bottom) /\ y(d) = y_of_cents(d, low, px, bottom)
    BY <1>4
  <2>6. bottom - (high - low) * px = top
    BY <1>4
  <2> HIDE DEF y
  <2> QED
    BY <1>4, <1>9, <2>4, <2>5, <2>6
<1>12. PlotAreaTop - gap.plot <= at.top - label.height \div 2
  BY <1>4, <1>5, <1>9, ThemeNumbers DEF gap
<1>13. ASSUME NEW i \in at.labelled, NEW j \in at.labelled, i < j
       PROVE  point(j).x - point(i).x >= DayLabel.width
  <2>1. PICK m \in Nat \ {0} : len = m + 1
    <3>1. len - 1 \in Nat \ {0} /\ len = (len - 1) + 1
      BY <1>1
    <3> QED
      BY <3>1
  <2>2. PICK width \in Nat : width = 1238 - left /\ width >= 1107
    BY <1>4
  <2>3. at.labelled = choose_evenly_spaced_indices(m + 1, width)
    BY <1>2, <1>4, <2>1, <2>2 DEF LayoutIsSound
  <2>4. m + 1 \in Nat /\ m + 1 >= 2
    OBVIOUS
  <2>5. /\ at.labelled \subseteq 1 .. (m + 1)
        /\ \A a, b \in at.labelled : a < b => (b - a) * width >= 22 * ((m + 1) - 1)
    BY <2>2, <2>3, <2>4, DaysAre
  <2>6. /\ i \in 1 .. (m + 1) /\ j \in 1 .. (m + 1) /\ (j - i) * width >= 22 * m
        /\ 22 \in Nat /\ left \in Int
    BY <1>13, <2>5
  <2>7. /\ x_of_index(i, m + 1, left, width) \in left .. (left + width)
        /\ x_of_index(j, m + 1, left, width) - x_of_index(i, m + 1, left, width) >= 22
    BY <2>6, PointsKeepApart, Zenon
  <2>8. /\ point(i).x = x_of_index(i, m + 1, left, width)
        /\ point(j).x = x_of_index(j, m + 1, left, width)
    BY <1>2, <1>4, <2>1, <2>2 DEF PointOf
  <2>9. x_of_index(j, m + 1, left, width) \in Int
    BY <2>6 DEF x_of_index, Round
  <2> HIDE DEF point
  <2> QED
    BY <2>7, <2>8, <2>9, ThemeNumbers
<1>14. at.bottom + x_tick_length + gap.x_label + DayLabel.height <= AxisLabelY
  BY <1>4, <1>5, ThemeNumbers DEF gap, x_tick_length
<1>15. ASSUME NEW i \in 1 .. len
       PROVE  /\ at.left <= point(i).x /\ point(i).x <= at.right
              /\ at.top < point(i).y /\ point(i).y < at.bottom
              /\ i < len => point(i).x < point(i + 1).x
  <2>1. i \in 1 .. Len(prices) /\ Len(prices) >= 2 /\ Len(prices) <= 1000
    BY <1>1, <1>2
  <2>2. /\ point(i).x \in at.left .. at.right
        /\ at.top < point(i).y /\ point(i).y < at.bottom
        /\ i < len => point(i).x < point(i + 1).x
    BY <1>2, <2>1, PointsAre
  <2> HIDE DEF point
  <2> QED
    BY <1>4, <2>2
<1> QED
  BY <1>7, <1>8, <1>10, <1>11, <1>12, <1>13, <1>14, <1>15
     DEF ChartFits, at, prices, label, subtitle, title

LEMMA SyntheticInRange == synthetic_quotes \in Seq(Prices)
<1> DEFINE Cents == {c \in Nat : 10 <= c /\ c <= 99000}
<1>1. synthetic_cents \in Seq(Cents) /\ Len(synthetic_cents) = 30
  BY DEF synthetic_cents
<1>2. \A c \in Cents : 10 * c \in Prices
  BY DEF Prices
<1> HIDE DEF Cents
<1>3. DOMAIN synthetic_cents = 1 .. 30
  BY <1>1
<1>4. \A n \in 1 .. 30 : 10 * synthetic_cents[n] \in Prices
  BY <1>1, <1>2, ElementOfSeq
<1> QED
  BY <1>3, <1>4 DEF synthetic_quotes

LEMMA FetchedInRange ==
    ASSUME NEW response \in Responses
    PROVE  /\ fetch_bcb_usd_brl_quotes(response) \in Seq(Prices)
           /\ Len(fetch_bcb_usd_brl_quotes(response)) <= LastN
<1>1. \A i \in DOMAIN response : response[i].price \in Prices
  BY PricesAreWhole, ChartAssumption DEF Prices
<1>2. Prices \in SUBSET Int
  BY DEF Prices
<1> QED
  BY <1>1, <1>2, FetchedArePrices

\* The error stays: the layout reads nothing but the quotes, their number and slop.
LEMMA LayoutStays ==
    ASSUME UNCHANGED <<quotes, len, slop>>
    PROVE  build_layout(Plotted)' = build_layout(Plotted)
BY DEF build_layout, Plotted

LEMMA ChartIsInductive ==
    /\ PlotInit => ChartTypeOK
    /\ ChartTypeOK /\ [PlotNext]_plotVars => ChartTypeOK'
<1>1. PlotInit => ChartTypeOK
  BY DEF PlotInit, ChartTypeOK
<1>2. ASSUME ChartTypeOK, [PlotNext]_plotVars PROVE ChartTypeOK'
  <2>1. CASE Load
    <3>1. quotes' \in Seq(Prices) /\ Len(quotes') >= 3 /\ Len(quotes') <= 1000
      <4>1. CASE quotes' = synthetic_quotes
        BY <4>1, SyntheticPrices, SyntheticInRange
      <4>2. CASE quotes' # synthetic_quotes
        <5>1. PICK response \in Responses :
                 /\ quotes' = fetch_bcb_usd_brl_quotes(response)
                 /\ ~(Len(fetch_bcb_usd_brl_quotes(response)) < MinQuotes)
          BY <2>1, <4>2 DEF Load
        <5> DEFINE fetched == fetch_bcb_usd_brl_quotes(response)
        <5>2. fetched \in Seq(Prices) /\ Len(fetched) <= LastN
          BY FetchedInRange
        <5>3. LastN \in Nat /\ LastN <= 1000 /\ MinQuotes \in Nat /\ MinQuotes >= 3
          BY <5>1, PlotAssumption, ChartAssumption
        <5> HIDE DEF fetched
        <5>4. quotes' = fetched /\ ~(Len(fetched) < MinQuotes)
          BY <5>1 DEF fetched
        <5>5. Len(fetched) \in Nat
          BY <5>2
        <5> QED
          BY <5>2, <5>3, <5>4, <5>5
      <4> QED
        BY <4>1, <4>2
    <3>2. demo' = "plotting" /\ len' = 3
      BY <2>1 DEF Load
    <3>3. slop' \in Slops
      BY <2>1 DEF Load, Slops
    <3> QED
      BY <3>1, <3>2, <3>3 DEF ChartTypeOK
  <2>2. CASE PlotMore
    BY <1>2, <2>2 DEF PlotMore, ChartTypeOK
  <2>3. CASE PlotFails
    <3>1. ~build_layout(Plotted)'.ok
      BY <2>3, LayoutStays DEF PlotFails
    <3>2. ~(build_layout(Plotted).ok)'
      BY <3>1
    <3> QED
      BY <1>2, <2>3, <3>2 DEF PlotFails, ChartTypeOK
  <2>4. CASE UNCHANGED plotVars
    <3>1. build_layout(Plotted)' = build_layout(Plotted)
      BY <2>4, LayoutStays DEF plotVars
    <3> QED
      BY <1>2, <2>4, <3>1 DEF plotVars, ChartTypeOK
  <2> QED
    BY <1>2, <2>1, <2>2, <2>3, <2>4 DEF PlotNext
<1> QED
  BY <1>1, <1>2

\* Whatever the bank answers, within ChartAssumption: everything of a chart finds
\* room on the canvas, no label on another, every quote and every label of a move
\* inside the plot, the ends dated; and a series fails only where it cannot fit.
THEOREM ChartInvariant == PlotSpec => []ChartInv
<1>1. ChartTypeOK => ChartInv
  BY Fits, EndsDated, LabelsInPlot, FailsWide DEF ChartInv
<1> QED
  BY <1>1, ChartIsInductive, PTL DEF PlotSpec
=============================================================================
