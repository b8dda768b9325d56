----------------------------- MODULE PlanTheorems -----------------------------
(***************************************************************************)
(* Proofs about Plan, for every workflow: what expansion makes of a graph  *)
(* that Validate accepted, that Build and Waves are right about it, which  *)
(* steps of a job run, and what its condition means.                       *)
(***************************************************************************)
EXTENDS Plan, DagTheorems, SequenceTheorems

(* Recursive functions over 1..n, and the lists that they compute. *)

\* f is what a recursion computes up to n: step gives the value at i from the
\* one before it.
Computes(f, X, b, step, n) ==
  f \in [0..n -> X] /\ f[0] = b /\ \A i \in 1..n : f[i] = step[<<f[i - 1], i>>]

\* Every recursion over 1..n has a solution.
LEMMA Recursion ==
  ASSUME NEW X, NEW b \in X, NEW step \in [X \X Nat -> X], NEW n \in Nat
  PROVE  \E f : Computes(f, X, b, step, n)
<1> DEFINE Solves(f, m) == f[0] = b /\ \A i \in 1..m : f[i] = step[<<f[i - 1], i>>]
           Bad == {m \in Nat : ~ \E f \in [0..m -> X] : Solves(f, m)}
<1> SUFFICES ASSUME Bad # {} PROVE FALSE
  <2>1. ASSUME Bad = {} PROVE \E f \in [0..n -> X] : Solves(f, n)
    BY <2>1
  <2> QED
    BY <2>1 DEF Computes
<1>1. PICK m \in Bad : \A k \in Bad : m <= k
  BY NatMinimum
<1>2. m # 0
  <2>1. [i \in 0..0 |-> b] \in [0..0 -> X] /\ Solves([i \in 0..0 |-> b], 0)
    OBVIOUS
  <2> QED
    BY <2>1
<1>3. m \in Nat /\ m - 1 \in Nat /\ m - 1 \notin Bad
  BY <1>1, <1>2, SMTT(30)
<1>4. PICK f \in [0..m-1 -> X] : Solves(f, m - 1)
  BY <1>3
<1> DEFINE g == [i \in 0..m |-> IF i = m THEN step[<<f[m - 1], m>>] ELSE f[i]]
<1>5. m - 1 \in 0..m-1 /\ m \in 0..m /\ 0 \in 0..m-1
  BY <1>3
<1>6. f[m - 1] \in X /\ step[<<f[m - 1], m>>] \in X
  BY <1>3, <1>5
<1>7. g \in [0..m -> X]
  BY <1>3, <1>6
<1>8. \A i \in 0..m-1 : g[i] = f[i]
  BY <1>3
<1>9. Solves(g, m)
  <2>1. g[0] = b
    BY <1>4, <1>5, <1>8
  <2>2. ASSUME NEW i \in 1..m PROVE g[i] = step[<<g[i - 1], i>>]
    <3>1. i - 1 \in 0..m-1 /\ g[i - 1] = f[i - 1]
      BY <1>3, <1>8
    <3>2. CASE i = m
      BY <1>5, <3>1, <3>2
    <3>3. CASE i # m
      <4>1. i \in 1..m-1 /\ i \in 0..m-1
        BY <1>3, <3>3
      <4> QED
        BY <1>4, <1>8, <3>1, <4>1
    <3> QED
      BY <3>2, <3>3
  <2> QED
    BY <2>1, <2>2
<1> QED
  BY <1>1, <1>7, <1>9

\* f is what FlattenSeq has joined, one list at a time.
Joins(f, ss, T) ==
  /\ f \in [1..Len(ss) -> Seq(T)]
  /\ FlattenSeq(ss) = f[Len(ss)] /\ f[1] = ss[1]
  /\ \A i \in 2..Len(ss) : f[i] = f[i - 1] \o ss[i]

\* What FlattenSeq computes, unfolded.
LEMMA FlattenSteps ==
  ASSUME NEW T, NEW ss \in Seq(Seq(T)), ss # <<>>
  PROVE  \E f : Joins(f, ss, T)
<1> DEFINE n == Len(ss)
           Eq(f) == f = [i \in 1..n |-> IF i = 1 THEN ss[i] ELSE f[i - 1] \o ss[i]]
           flatten == CHOOSE f : Eq(f)
<1>1. n \in Nat /\ n >= 1 /\ \A i \in 1..n : ss[i] \in Seq(T)
  OBVIOUS
<1>2. FlattenSeq(ss) = flatten[n]
  BY <1>1 DEF FlattenSeq
<1>3. \E f : Eq(f)
  <2> DEFINE step == [p \in Seq(T) \X Nat |->
                        IF p[2] \in 2..n THEN p[1] \o ss[p[2]] ELSE ss[1]]
  <2>1. step \in [Seq(T) \X Nat -> Seq(T)]
    <3> SUFFICES ASSUME NEW x \in Seq(T), NEW i \in Nat
                 PROVE  (IF i \in 2..n THEN x \o ss[i] ELSE ss[1]) \in Seq(T)
      OBVIOUS
    <3>1. CASE i \in 2..n
      <4>1. ss[i] \in Seq(T)
        BY <1>1, <3>1
      <4> QED
        BY <3>1, <4>1
    <3>2. CASE i \notin 2..n
      BY <1>1, <3>2
    <3> QED
      BY <3>1, <3>2
  <2>2. <<>> \in Seq(T)
    OBVIOUS
  <2> HIDE DEF n
  <2>3. \A i \in 1..n : \A x \in Seq(T) : step[<<x, i>>] = IF i = 1 THEN ss[i] ELSE x \o ss[i]
    BY <1>1
  <2> HIDE DEF step
  <2>4. PICK f \in [0..n -> Seq(T)] : f[0] = <<>> /\ \A i \in 1..n : f[i] = step[<<f[i - 1], i>>]
    <3>1. \E f : Computes(f, Seq(T), <<>>, step, n)
      BY <1>1, <2>1, <2>2, Recursion
    <3> QED
      BY <3>1 DEF Computes
  <2> DEFINE g == [i \in 1..n |-> f[i]]
  <2>5. ASSUME NEW i \in 1..n
        PROVE  g[i] = IF i = 1 THEN ss[i] ELSE g[i - 1] \o ss[i]
    <3>1. i - 1 \in 0..n /\ (i # 1 => i - 1 \in 1..n)
      BY <1>1
    <3>2. f[i - 1] \in Seq(T)
      BY <2>4, <3>1
    <3>3. f[i] = IF i = 1 THEN ss[i] ELSE f[i - 1] \o ss[i]
      BY <2>3, <2>4, <3>2
    <3> QED
      BY <3>1, <3>3
  <2>6. g = [i \in 1..n |-> IF i = 1 THEN ss[i] ELSE g[i - 1] \o ss[i]]
    BY <2>5, SMTT(30)
  <2> QED
    BY <2>6
<1>4. Eq(flatten)
  BY <1>3
<1> HIDE DEF flatten, n
<1>5. DOMAIN flatten = 1..n /\ \A i \in 1..n : flatten[i] = IF i = 1 THEN ss[i] ELSE flatten[i - 1] \o ss[i]
  <2>1. flatten = [i \in 1..n |-> IF i = 1 THEN ss[i] ELSE flatten[i - 1] \o ss[i]]
    BY <1>4
  <2> QED
    BY <2>1, Zenon
<1>6. \A i \in 1..n : flatten[i] \in Seq(T)
  <2> DEFINE Bad == {i \in 1..n : flatten[i] \notin Seq(T)}
  <2> SUFFICES ASSUME Bad # {} PROVE FALSE
    OBVIOUS
  <2>1. Bad \in SUBSET Nat
    BY <1>1
  <2>2. PICK i \in Bad : \A k \in Bad : i <= k
    <3> HIDE DEF Bad
    <3> QED
      BY <2>1, NatMinimum
  <2>3. CASE i = 1
    BY <1>1, <1>5, <2>3
  <2>4. CASE i # 1
    <3>1. i \in 1..n /\ flatten[i] \notin Seq(T)
      OBVIOUS
    <3>2. i - 1 \in 1..n /\ i - 1 \notin Bad
      <4> HIDE DEF Bad
      <4> QED
        BY <1>1, <2>2, <2>4, <3>1
    <3>3. flatten[i - 1] \in Seq(T) /\ ss[i] \in Seq(T)
      BY <1>1, <3>1, <3>2
    <3>4. flatten[i] = flatten[i - 1] \o ss[i]
      BY <1>5, <2>4, <3>1, Zenon
    <3>5. flatten[i - 1] \o ss[i] \in Seq(T)
      BY <3>3
    <3> QED
      BY <3>1, <3>4, <3>5
  <2> QED
    BY <2>3, <2>4
<1>7. flatten \in [1..n -> Seq(T)]
  <2>1. flatten = [i \in 1..n |-> flatten[i]]
    BY <1>4
  <2> QED
    BY <1>6, <2>1
<1>8. flatten[1] = ss[1] /\ \A i \in 2..n : flatten[i] = flatten[i - 1] \o ss[i]
  <2>1. 1 \in 1..n /\ \A i \in 2..n : i \in 1..n /\ i # 1
    BY <1>1
  <2> QED
    BY <1>5, <2>1, Zenon
<1>9. Joins(flatten, ss, T)
  BY <1>2, <1>7, <1>8 DEF n, Joins
<1> QED
  BY <1>9

\* The elements of the flattened list are those of its lists.
LEMMA FlattenRange ==
  ASSUME NEW T, NEW ss \in Seq(Seq(T))
  PROVE  /\ FlattenSeq(ss) \in Seq(T)
         /\ Range(FlattenSeq(ss)) = UNION {Range(ss[i]) : i \in DOMAIN ss}
<1>1. CASE ss = <<>>
  BY <1>1 DEF FlattenSeq, Range
<1>2. CASE ss # <<>>
  <2> DEFINE n == Len(ss)
  <2>1. PICK f \in [1..n -> Seq(T)] :
           /\ FlattenSeq(ss) = f[n] /\ f[1] = ss[1]
           /\ \A i \in 2..n : f[i] = f[i - 1] \o ss[i]
    <3>1. PICK f : Joins(f, ss, T)
      BY <1>2, FlattenSteps
    <3> QED
      BY <3>1 DEF Joins
  <2>2. n \in Nat /\ n >= 1 /\ DOMAIN ss = 1..n /\ \A i \in 1..n : ss[i] \in Seq(T)
    BY <1>2
  <2> HIDE DEF n
  <2> DEFINE Good(i) == Range(f[i]) = UNION {Range(ss[k]) : k \in 1..i}
             Bad == {i \in 1..n : ~Good(i)}
  <2>3. Bad = {}
    <3> SUFFICES ASSUME Bad # {} PROVE FALSE
      OBVIOUS
    <3>1. Bad \in SUBSET Nat
      BY <2>2
    <3>2. PICK i \in Bad : \A k \in Bad : i <= k
      <4> HIDE DEF Bad
      <4> QED
        BY <3>1, NatMinimum
    <3>3. CASE i = 1
      <4>1. 1..i = {1}
        BY <3>3
      <4>2. Good(i)
        BY <2>1, <3>3, <4>1
      <4> QED
        BY <4>2
    <3>4. CASE i # 1
      <4>1. i - 1 \in 1..n /\ i - 1 \notin Bad /\ i \in 2..n
        <5>1. i \in 1..n
          OBVIOUS
        <5> HIDE DEF Bad
        <5> QED
          BY <2>2, <3>2, <3>4, <5>1
      <4>2. Range(f[i - 1]) = UNION {Range(ss[k]) : k \in 1..i-1}
        BY <4>1
      <4>3. f[i] = f[i - 1] \o ss[i] /\ f[i - 1] \in Seq(T) /\ ss[i] \in Seq(T)
        BY <2>1, <2>2, <4>1
      <4>4. Range(f[i]) = Range(f[i - 1]) \cup Range(ss[i])
        <5> DEFINE a == f[i - 1]
                   b == ss[i]
        <5>1. a \in Seq(T) /\ b \in Seq(T) /\ f[i] = a \o b
          BY <4>3
        <5> HIDE DEF a, b
        <5>2. Range(a \o b) = Range(a) \cup Range(b)
          BY <5>1, RangeConcatenation
        <5> QED
          BY <5>1, <5>2 DEF a, b
      <4>5. 1..i = (1..i-1) \cup {i}
        BY <4>1, SMTT(30)
      <4>6. Good(i)
        BY <4>2, <4>4, <4>5
      <4> QED
        BY <4>6
    <3> QED
      BY <3>3, <3>4
  <2>4. n \in 1..n
    BY <2>2
  <2> QED
    BY <2>1, <2>2, <2>3, <2>4
<1> QED
  BY <1>1, <1>2

----------------------------------------------------------------------------
(* The combinations of a matrix, and the copies they make of a job. *)

\* A matrix as Validate lets it through.
IsFilled(matrix) == matrix \in Seq(Seq(Nat)) /\ <<>> \notin Range(matrix)

\* What matrixCombos has before it takes a key: a list of combinations, not empty.
Lists == {s \in Seq(Seq(Nat)) : s # <<>>}

\* The combinations with one key more: bases, each with each of the key's values.
Extended(bases, values) ==
  FlattenSeq([i \in DOMAIN bases |-> [v \in DOMAIN values |-> Append(bases[i], values[v])]])

\* A key with values leaves some combinations.
LEMMA ExtendedIs ==
  ASSUME NEW bases \in Lists, NEW values \in Seq(Nat), values # <<>>
  PROVE  Extended(bases, values) \in Lists
<1> DEFINE row(i) == [v \in DOMAIN values |-> Append(bases[i], values[v])]
           ss == [i \in DOMAIN bases |-> row(i)]
           T == Seq(Nat)
<1>1. /\ bases \in Seq(T) /\ bases # <<>> /\ Len(bases) \in Nat
      /\ DOMAIN bases = 1..Len(bases) /\ 1 \in DOMAIN bases
  BY DEF Lists
<1>2. Len(values) \in Nat /\ DOMAIN values = 1..Len(values) /\ 1 \in DOMAIN values
  OBVIOUS
<1>3. ASSUME NEW i \in DOMAIN bases PROVE row(i) \in Seq(T)
  <2>1. bases[i] \in Seq(Nat)
    BY <1>1
  <2>2. ASSUME NEW v \in DOMAIN values PROVE Append(bases[i], values[v]) \in Seq(Nat)
    <3>1. values[v] \in Nat
      OBVIOUS
    <3> QED
      BY <2>1, <3>1, AppendProperties
  <2>3. row(i) \in [1..Len(values) -> T]
    BY <1>2, <2>2
  <2> HIDE DEF row, T
  <2> QED
    BY <1>2, <2>3, SeqDef, SMTT(30)
<1>4. DOMAIN ss = 1..Len(bases) /\ \A i \in DOMAIN bases : ss[i] = row(i)
  BY <1>1
<1>5. ss \in Seq(Seq(T))
  <2> HIDE DEF row, T
  <2>1. ss \in [1..Len(bases) -> Seq(T)]
    BY <1>1, <1>3
  <2> HIDE DEF ss
  <2> QED
    BY <1>1, <2>1, SeqDef, SMTT(30)
<1>6. Extended(bases, values) = FlattenSeq(ss)
  BY DEF Extended
<1>7. row(1) # <<>> /\ 1 \in DOMAIN row(1)
  BY <1>2
<1> HIDE DEF ss, row, T
<1> DEFINE e == FlattenSeq(ss)
<1>8. e \in Seq(T) /\ Range(e) = UNION {Range(ss[i]) : i \in DOMAIN ss}
  BY <1>5, FlattenRange
<1>9. row(1)[1] \in Range(e)
  <2>1. 1 \in DOMAIN ss /\ ss[1] = row(1)
    BY <1>1, <1>4
  <2>2. row(1)[1] \in Range(ss[1])
    BY <1>7, <2>1 DEF Range
  <2> QED
    BY <1>8, <2>1, <2>2
<1>10. e # <<>>
  BY <1>9 DEF Range
<1> QED
  BY <1>6, <1>8, <1>10 DEF Lists, T

\* Its combinations: a list of lists of values, and at least one of them.
LEMMA CombosShape ==
  ASSUME NEW matrix, IsFilled(matrix)
  PROVE  /\ Combos(matrix) \in Lists
         /\ matrix = <<>> => Combos(matrix) = << <<>> >>
<1> DEFINE n == Len(matrix)
           Eq(f) == f = [k \in 0..n |-> IF k = 0 THEN << <<>> >> ELSE Extended(f[k - 1], matrix[k])]
           upTo == CHOOSE f : Eq(f)
<1>1. n \in Nat /\ \A k \in 1..n : matrix[k] \in Seq(Nat) /\ matrix[k] # <<>>
  <2>1. matrix \in Seq(Seq(Nat)) /\ \A k \in DOMAIN matrix : matrix[k] # <<>>
    BY DEF IsFilled, Range
  <2> QED
    BY <2>1, LenProperties, ElementOfSeq
<1>2. Combos(matrix) = upTo[n]
  BY DEF Combos, Extended
<1> DEFINE base == << <<>> >>
           step == [p \in Lists \X Nat |->
                      IF p[2] \in 1..n THEN Extended(p[1], matrix[p[2]]) ELSE p[1]]
<1>3. base \in Lists
  <2>1. <<>> \in Seq(Nat)
    OBVIOUS
  <2> QED
    BY <2>1 DEF Lists
<1>4. step \in [Lists \X Nat -> Lists]
  <2> SUFFICES ASSUME NEW x \in Lists, NEW i \in Nat
               PROVE  (IF i \in 1..n THEN Extended(x, matrix[i]) ELSE x) \in Lists
    OBVIOUS
  <2>1. CASE i \in 1..n
    BY <1>1, <2>1, ExtendedIs
  <2> QED
    BY <2>1
<1>5. \A i \in 1..n : \A x \in Lists : step[<<x, i>>] = Extended(x, matrix[i])
  OBVIOUS
<1> HIDE DEF step, base, n
<1>6. \E f : Computes(f, Lists, base, step, n)
  BY <1>1, <1>3, <1>4, Recursion
<1>7. PICK f \in [0..n -> Lists] : f[0] = base /\ \A i \in 1..n : f[i] = step[<<f[i - 1], i>>]
  BY <1>6 DEF Computes
<1>8. ASSUME NEW i \in 0..n
      PROVE  f[i] = IF i = 0 THEN base ELSE Extended(f[i - 1], matrix[i])
  <2>1. CASE i = 0
    BY <1>7, <2>1
  <2>2. CASE i # 0
    <3>1. i \in 1..n /\ i - 1 \in 0..n
      BY <1>1, <2>2
    <3>2. f[i - 1] \in Lists
      BY <1>7, <3>1
    <3> QED
      BY <1>5, <1>7, <2>2, <3>1, <3>2
  <2> QED
    BY <2>1, <2>2
<1>9. Eq(f)
  BY <1>7, <1>8 DEF base
<1>10. Eq(upTo)
  BY <1>9
<1>11. upTo = f
  <2>1. upTo = [k \in 0..n |-> IF k = 0 THEN base ELSE Extended(upTo[k - 1], matrix[k])]
    BY <1>10 DEF base
  <2> HIDE DEF upTo
  <2>2. \A k \in 0..n : upTo[k] = IF k = 0 THEN base ELSE Extended(upTo[k - 1], matrix[k])
    BY <2>1
  <2> DEFINE Bad == {k \in 0..n : upTo[k] # f[k]}
  <2>3. Bad = {}
    <3> SUFFICES ASSUME Bad # {} PROVE FALSE
      OBVIOUS
    <3>1. Bad \in SUBSET Nat
      BY <1>1
    <3>2. PICK k \in Bad : \A h \in Bad : k <= h
      <4> HIDE DEF Bad
      <4> QED
        BY <3>1, NatMinimum
    <3>3. k \in 0..n /\ upTo[k] # f[k]
      OBVIOUS
    <3>4. k # 0
      BY <1>8, <2>2, <3>3
    <3>5. k - 1 \in 0..n /\ k - 1 \notin Bad
      <4>1. k - 1 \in 0..n /\ k \in Int
        BY <1>1, <3>3, <3>4
      <4> HIDE DEF Bad
      <4>2. k - 1 \notin Bad
        BY <3>2, <4>1, SMT
      <4> QED
        BY <4>1, <4>2
    <3>6. upTo[k - 1] = f[k - 1]
      BY <3>5
    <3> QED
      BY <1>8, <2>2, <3>3, <3>4, <3>6
  <2>4. \A k \in 0..n : upTo[k] = f[k]
    BY <2>3
  <2> QED
    BY <1>7, <2>1, <2>4
<1> HIDE DEF upTo
<1>12. n \in 0..n
  BY <1>1
<1>13. upTo[n] \in Lists
  BY <1>7, <1>11, <1>12
<1>14. ASSUME matrix = <<>> PROVE upTo[n] = base
  <2>1. n = 0
    BY <1>14 DEF n
  <2> QED
    BY <1>7, <1>11, <2>1
<1> QED
  BY <1>2, <1>13, <1>14 DEF base

----------------------------------------------------------------------------
(* What ExpandMatrix makes of an accepted workflow. *)

\* A workflow as the file can be.
IsWorkflow(w) ==
  /\ JobsOf(w) \subseteq Nat /\ IsFiniteSet(JobsOf(w))
  /\ w.needs \in [JobsOf(w) -> Seq(JobsOf(w))]
  /\ NoJob \notin JobsOf(w) /\ w.inherit \in [JobsOf(w) -> JobsOf(w) \cup {NoJob}]
  /\ w.matrix \in [JobsOf(w) -> Seq(Seq(Nat))]
  /\ w.steps \in Seq(Steps)
  /\ \A copy \in Copies(w) : ComboId(w, copy) \in Nat

\* The IDs that stand for job j, and for the jobs of J.
IdsFor(w, j) == Range(ExpandedIds(w, j))
AllIds(w, J) == UNION {IdsFor(w, j) : j \in J}

\* Where the jobs of the expanded workflow come from: a copy for each ID, and for
\* that of a job without a matrix its own.
IsOrigin(w, from) ==
  /\ from \in [AllIds(w, JobsOf(w)) -> Copies(w)]
  /\ \A id \in AllIds(w, JobsOf(w)) :
       /\ ComboId(w, from[id]) = id /\ from[id][1] \in JobsOf(w)
       /\ id \in JobsOf(w) /\ ~IsMatrix(w, id) => from[id] = <<id, <<>>>>

\* The copies and the IDs of one job: at least one.
LEMMA ExpandedShape ==
  ASSUME NEW w, IsWorkflow(w), Valid(w), NEW j \in JobsOf(w)
  PROVE  /\ CopiesOf(w, j) \in Seq(Range(CopiesOf(w, j))) /\ CopiesOf(w, j) # <<>>
         /\ Range(CopiesOf(w, j)) \subseteq Copies(w)
         /\ \A copy \in Range(CopiesOf(w, j)) : copy[1] = j
         /\ ~IsMatrix(w, j) => CopiesOf(w, j) = << <<j, <<>>>> >>
         /\ ExpandedIds(w, j) \in Seq(IdsFor(w, j))
         /\ IdsFor(w, j) # {} /\ IdsFor(w, j) \subseteq Nat /\ IsFiniteSet(IdsFor(w, j))
         /\ IdsFor(w, j) = {ComboId(w, copy) : copy \in Range(CopiesOf(w, j))}
<1> DEFINE m == w.matrix[j]
           combos == Combos(m)
           copies == CopiesOf(w, j)
           ids == ExpandedIds(w, j)
<1>1. IsFilled(m) /\ j \in Nat
  BY DEF IsWorkflow, Valid, IsFilled
<1>2. combos \in Lists /\ (m = <<>> => combos = << <<>> >>)
  BY <1>1, CombosShape
<1>3. copies = [i \in DOMAIN combos |-> <<j, combos[i]>>]
  BY DEF CopiesOf
<1>4. ids = [i \in DOMAIN copies |-> ComboId(w, copies[i])]
  BY DEF ExpandedIds
<1>5. IsMatrix(w, j) <=> m # <<>>
  BY DEF IsMatrix
<1>6. Range(copies) \subseteq Copies(w)
  BY DEF Copies
<1>7. \A copy \in Copies(w) : ComboId(w, copy) \in Nat
  BY DEF IsWorkflow
<1> HIDE DEF ids, copies, combos, m
<1>8. Len(combos) \in Nat /\ DOMAIN combos = 1..Len(combos) /\ 1 \in DOMAIN combos
  BY <1>2 DEF Lists
<1>9. DOMAIN copies = 1..Len(combos) /\ DOMAIN ids = 1..Len(combos)
  BY <1>3, <1>4, <1>8
<1>10. copies \in [1..Len(combos) -> Range(copies)] /\ ids \in [1..Len(combos) -> Range(ids)]
  BY <1>3, <1>4, <1>9 DEF Range
<1>11. copies \in Seq(Range(copies)) /\ ids \in Seq(Range(ids))
  BY <1>8, <1>10, SeqDef
<1>12. copies # <<>> /\ Range(ids) # {}
  BY <1>8, <1>9 DEF Range
<1>13. \A copy \in Range(copies) : copy[1] = j
  BY <1>3 DEF Range
<1>14. ASSUME ~IsMatrix(w, j) PROVE copies = << <<j, <<>>>> >>
  <2>1. combos = << <<>> >>
    BY <1>2, <1>5, <1>14
  <2>2. DOMAIN combos = 1..1 /\ combos[1] = <<>>
    BY <2>1
  <2>3. copies = [i \in 1..1 |-> <<j, combos[i]>>]
    BY <1>3, <2>2
  <2>4. \A i \in 1..1 : i = 1
    OBVIOUS
  <2>5. copies = [i \in 1..1 |-> <<j, <<>>>>]
    BY <2>2, <2>3, <2>4
  <2> QED
    BY <2>5
<1>15. Range(ids) = {ComboId(w, copy) : copy \in Range(copies)}
  BY <1>4, <1>9 DEF Range
<1>16. Range(ids) \subseteq Nat
  BY <1>6, <1>7, <1>15
<1>17. IsFiniteSet(Range(ids))
  <2>1. ids \in Surjection(1..Len(combos), Range(ids))
    BY <1>9, <1>10 DEF Surjection, Range
  <2>2. IsFiniteSet(1..Len(combos))
    BY <1>8, FS_Interval
  <2> QED
    BY <2>1, <2>2, FS_Surjection
<1> QED
  BY <1>6, <1>11, <1>12, <1>13, <1>14, <1>15, <1>16, <1>17 DEF IdsFor, ids, copies

\* All of them.
LEMMA AllIdsAre ==
  ASSUME NEW w, IsWorkflow(w), Valid(w)
  PROVE  /\ \A S \in SUBSET JobsOf(w) :
              AllIds(w, S) = {ComboId(w, copy) : copy \in {c \in Copies(w) : c[1] \in S}}
         /\ AllIds(w, JobsOf(w)) = {ComboId(w, copy) : copy \in Copies(w)}
         /\ \A copy \in Copies(w) : copy[1] \in JobsOf(w)
<1> DEFINE J == JobsOf(w)
           of(j) == Range(CopiesOf(w, j))
<1>1. \A j \in J : /\ IdsFor(w, j) = {ComboId(w, copy) : copy \in of(j)}
                   /\ \A copy \in of(j) : copy[1] = j
  BY ExpandedShape
<1>2. Copies(w) = UNION {of(j) : j \in J}
  BY DEF Copies
<1> HIDE DEF J, of
<1>3. \A copy \in Copies(w) : copy[1] \in J
  BY <1>1, <1>2
<1>4. ASSUME NEW S \in SUBSET J
      PROVE  AllIds(w, S) = {ComboId(w, copy) : copy \in {c \in Copies(w) : c[1] \in S}}
  <2>1. \A j \in S : j \in J
    OBVIOUS
  <2> QED
    BY <1>1, <1>2, <2>1 DEF AllIds
<1>5. AllIds(w, J) = {ComboId(w, copy) : copy \in Copies(w)}
  BY <1>3, <1>4
<1> QED
  BY <1>3, <1>4, <1>5 DEF J

\* Every order of the visits lists the copies of the matrix jobs.
LEMMA FirstPassLists ==
  ASSUME NEW w, IsWorkflow(w), Valid(w), NEW visit \in Visits(w)
  PROVE  /\ FirstPass(w, visit) \in Seq(Copies(w))
         /\ Range(FirstPass(w, visit)) = {c \in Copies(w) : IsMatrix(w, c[1])}
<1> DEFINE M == {j \in JobsOf(w) : IsMatrix(w, j)}
           n == Cardinality(M)
           ss == [i \in DOMAIN visit |-> CopiesOf(w, visit[i])]
<1>1. IsFiniteSet(M) /\ n \in Nat
  BY FS_Subset, FS_CardinalityType DEF IsWorkflow
<1>2. visit \in [1..n -> M] /\ \A i, k \in 1..n : i # k => visit[i] # visit[k]
  BY DEF Visits, SetToSeqs
<1> HIDE DEF n, M
<1>3. \A j \in M : \E i \in 1..n : visit[i] = j
  <2>1. visit \in Injection(1..n, M)
    BY <1>2 DEF Injection, IsInjective
  <2>2. IsFiniteSet(1..n) /\ Cardinality(1..n) = n
    BY <1>1, FS_Interval
  <2>3. visit \in Surjection(1..n, M)
    BY <1>1, <2>1, <2>2, FS_Injection DEF n
  <2> QED
    BY <2>3 DEF Surjection
<1>4. \A j \in JobsOf(w) :
        /\ CopiesOf(w, j) \in Seq(Range(CopiesOf(w, j))) /\ Range(CopiesOf(w, j)) \subseteq Copies(w)
        /\ \A c \in Range(CopiesOf(w, j)) : c[1] = j
  BY ExpandedShape
<1>5. \A j \in JobsOf(w) : CopiesOf(w, j) \in Seq(Copies(w))
  <2> SUFFICES ASSUME NEW j \in JobsOf(w) PROVE CopiesOf(w, j) \in Seq(Copies(w))
    OBVIOUS
  <2> QED
    BY <1>4, SeqDef
<1>6. M \subseteq JobsOf(w) /\ \A j \in JobsOf(w) : j \in M <=> IsMatrix(w, j)
  BY DEF M
<1>7. ss \in Seq(Seq(Copies(w))) /\ DOMAIN ss = 1..n
  <2>1. DOMAIN ss = 1..n /\ \A i \in 1..n : ss[i] \in Seq(Copies(w))
    BY <1>2, <1>5, <1>6
  <2> DEFINE T == Seq(Copies(w))
  <2>2. ss \in [1..n -> T]
    BY <2>1
  <2> HIDE DEF T, ss
  <2>3. ss \in Seq(T)
    BY <1>1, <2>2, SeqDef
  <2> QED
    BY <2>1, <2>3 DEF T
<1>8. \A i \in 1..n : ss[i] = CopiesOf(w, visit[i])
  BY <1>2
<1>9. FirstPass(w, visit) = FlattenSeq(ss)
  BY DEF FirstPass
<1> HIDE DEF ss
<1>10. /\ FlattenSeq(ss) \in Seq(Copies(w))
       /\ Range(FlattenSeq(ss)) = UNION {Range(ss[i]) : i \in DOMAIN ss}
  BY <1>7, FlattenRange
<1>11. UNION {Range(ss[i]) : i \in DOMAIN ss} = {c \in Copies(w) : IsMatrix(w, c[1])}
  <2>1. ASSUME NEW i \in DOMAIN ss, NEW c \in Range(ss[i])
        PROVE  c \in Copies(w) /\ IsMatrix(w, c[1])
    <3>1. visit[i] \in M /\ ss[i] = CopiesOf(w, visit[i])
      BY <1>2, <1>7, <1>8, <2>1
    <3> QED
      BY <1>4, <1>6, <2>1, <3>1
  <2>2. ASSUME NEW c \in Copies(w), IsMatrix(w, c[1])
        PROVE  \E i \in DOMAIN ss : c \in Range(ss[i])
    <3>1. PICK j \in JobsOf(w) : c \in Range(CopiesOf(w, j))
      BY DEF Copies
    <3>2. c[1] = j
      BY <1>4, <3>1
    <3>3. PICK i \in 1..n : visit[i] = j
      BY <1>3, <1>6, <2>2, <3>1, <3>2
    <3> QED
      BY <1>7, <1>8, <3>1, <3>3
  <2> QED
    BY <2>1, <2>2
<1> QED
  BY <1>9, <1>10, <1>11

\* The largest of some places in a list is one of them.
LEMMA MaxOfPlaces ==
  ASSUME NEW n \in Nat, NEW S \in SUBSET (1..n), S # {}
  PROVE  Max(S) \in S
<1> DEFINE Above == {m \in 0..n : \A x \in S : x <= m}
<1>1. n \in Above /\ Above \in SUBSET Nat
  OBVIOUS
<1>2. PICK m \in Above : \A k \in Above : m <= k
  <2> HIDE DEF Above
  <2> QED
    BY <1>1, NatMinimum
<1>3. m \in 0..n /\ \A x \in S : x <= m
  OBVIOUS
<1>4. m \in S
  <2> SUFFICES ASSUME m \notin S PROVE FALSE
    OBVIOUS
  <2>1. \A x \in S : x \in Int /\ x >= 1 /\ x # m
    OBVIOUS
  <2>2. m - 1 \in 0..n /\ \A x \in S : x <= m - 1
    <3>1. PICK x \in S : TRUE
      OBVIOUS
    <3>2. m >= 1
      BY <1>3, <2>1, <3>1
    <3> QED
      BY <1>3, <2>1, <3>2
  <2>3. m - 1 \in Above
    BY <2>2
  <2> HIDE DEF Above
  <2> QED
    BY <1>2, <1>3, <2>3, SMT
<1>5. \E x \in S : \A y \in S : x >= y
  BY <1>3, <1>4
<1> QED
  BY <1>5 DEF Max

\* Whatever the order, a copy stays for each ID: where the jobs of the outcome
\* come from.
LEMMA ExpansionOrigin ==
  ASSUME NEW w, IsWorkflow(w), Valid(w), NEW visit \in Visits(w)
  PROVE  IsOrigin(w, Expansion(w, visit))
<1> DEFINE J == JobsOf(w)
           Ids == AllIds(w, J)
           from == Expansion(w, visit)
           pass == FirstPass(w, visit)
<1>1. /\ Ids = {ComboId(w, copy) : copy \in Copies(w)}
      /\ \A copy \in Copies(w) : copy[1] \in J
  BY AllIdsAre
<1>2. from = [id \in Ids |-> Stays(w, visit, id)]
  BY <1>1 DEF Expansion
<1>3. pass \in Seq(Copies(w)) /\ Range(pass) = {c \in Copies(w) : IsMatrix(w, c[1])}
  BY FirstPassLists
<1>4. \A j \in J : ~IsMatrix(w, j) => /\ <<j, <<>>>> \in Copies(w)
                                      /\ \A c \in Copies(w) : c[1] = j => c = <<j, <<>>>>
  <2> SUFFICES ASSUME NEW j \in J, ~IsMatrix(w, j)
               PROVE  /\ <<j, <<>>>> \in Copies(w)
                      /\ \A c \in Copies(w) : c[1] = j => c = <<j, <<>>>>
    OBVIOUS
  <2>1. CopiesOf(w, j) = << <<j, <<>>>> >> /\ Range(CopiesOf(w, j)) \subseteq Copies(w)
    BY ExpandedShape
  <2>2. \A k \in J : \A c \in Range(CopiesOf(w, k)) : c[1] = k
    BY ExpandedShape
  <2> DEFINE copy == <<j, <<>>>>
  <2>3. Range(CopiesOf(w, j)) = {copy}
    <3>1. CopiesOf(w, j) = <<copy>>
      BY <2>1
    <3> HIDE DEF copy
    <3>2. DOMAIN <<copy>> = {1} /\ <<copy>>[1] = copy
      OBVIOUS
    <3> QED
      BY <3>1, <3>2 DEF Range
  <2> HIDE DEF copy
  <2>4. \A c \in Copies(w) : c[1] = j => c \in Range(CopiesOf(w, j))
    BY <2>2 DEF Copies
  <2>5. copy \in Copies(w) /\ \A c \in Copies(w) : c[1] = j => c = copy
    BY <2>1, <2>3, <2>4
  <2> QED
    BY <2>5 DEF copy
<1>5. ASSUME NEW id \in Ids
      PROVE  /\ from[id] \in Copies(w) /\ ComboId(w, from[id]) = id
             /\ id \in J /\ ~IsMatrix(w, id) => from[id] = <<id, <<>>>>
  <2>1. from[id] = Stays(w, visit, id)
    BY <1>2
  <2>2. CASE id \in J /\ ~IsMatrix(w, id)
    <3>1. from[id] = <<id, <<>>>>
      BY <2>1, <2>2 DEF Stays
    <3>2. ComboId(w, <<id, <<>>>>) = id
      BY DEF ComboId
    <3> QED
      BY <1>4, <2>2, <3>1, <3>2
  <2>3. CASE ~(id \in J /\ ~IsMatrix(w, id))
    <3> DEFINE S == {i \in DOMAIN pass : ComboId(w, pass[i]) = id}
    <3>1. from[id] = pass[Max(S)]
      BY <2>1, <2>3 DEF Stays, LastCopied
    <3>2. PICK c \in Copies(w) : ComboId(w, c) = id
      BY <1>1
    <3>3. IsMatrix(w, c[1])
      <4> SUFFICES ASSUME ~IsMatrix(w, c[1]) PROVE FALSE
        OBVIOUS
      <4>1. c[1] \in J
        BY <1>1
      <4>2. c = <<c[1], <<>>>>
        BY <1>4, <4>1
      <4>3. ComboId(w, <<c[1], <<>>>>) = c[1]
        BY DEF ComboId
      <4>4. id = c[1]
        BY <3>2, <4>2, <4>3
      <4> QED
        BY <2>3, <4>1, <4>4
    <3>4. c \in Range(pass)
      BY <1>3, <3>3
    <3>5. S # {}
      BY <3>2, <3>4 DEF Range
    <3>6. Len(pass) \in Nat /\ DOMAIN pass = 1..Len(pass)
      BY <1>3, LenProperties
    <3>7. S \in SUBSET (1..Len(pass))
      BY <3>6
    <3>8. Max(S) \in S
      <4> DEFINE n == Len(pass)
      <4>1. n \in Nat /\ S \in SUBSET (1..n)
        BY <3>6, <3>7
      <4> HIDE DEF S, n
      <4> QED
        BY <3>5, <4>1, MaxOfPlaces
    <3>9. Max(S) \in DOMAIN pass /\ ComboId(w, pass[Max(S)]) = id
      BY <3>8
    <3>10. pass[Max(S)] \in Copies(w)
      <4> DEFINE m == Max(S)
      <4>1. m \in DOMAIN pass
        BY <3>9
      <4> HIDE DEF m, pass, S
      <4> QED
        BY <1>3, <4>1, ElementOfSeq DEF m
    <3> QED
      BY <2>3, <3>1, <3>9, <3>10
  <2> QED
    BY <2>2, <2>3
<1> HIDE DEF from
<1>6. \A id \in Ids : from[id][1] \in J
  BY <1>1, <1>5
<1>7. from \in [Ids -> Copies(w)]
  BY <1>2, <1>5
<1> QED
  BY <1>5, <1>6, <1>7 DEF IsOrigin, from

\* The expanded map: a needs list holds all the IDs of the jobs it was
\* written with.
LEMMA ExpansionIs ==
  ASSUME NEW w, IsWorkflow(w), Valid(w), NEW from, IsOrigin(w, from)
  PROVE  LET D   == ExpandMatrix(w, from)
             Ids == AllIds(w, JobsOf(w))
         IN  /\ Ids \subseteq Nat /\ IsFiniteSet(Ids)
             /\ D \in [Ids -> Seq(Ids)]
             /\ \A id \in Ids : NeedSet(D, id) = AllIds(w, NeedSet(w.needs, from[id][1]))
<1> DEFINE D   == ExpandMatrix(w, from)
           J   == JobsOf(w)
           Ids == AllIds(w, J)
           Origin(id) == from[id][1]
<1>1. \A j \in J : /\ ExpandedIds(w, j) \in Seq(IdsFor(w, j))
                   /\ IdsFor(w, j) # {} /\ IdsFor(w, j) \subseteq Nat /\ IsFiniteSet(IdsFor(w, j))
  BY ExpandedShape
<1>2. Ids \subseteq Nat
  BY <1>1 DEF AllIds
<1>3. IsFiniteSet(Ids)
  <2>1. IsFiniteSet({IdsFor(w, j) : j \in J})
    <3> DEFINE f == [j \in J |-> IdsFor(w, j)]
               S == {IdsFor(w, j) : j \in J}
    <3>1. f \in Surjection(J, S)
      BY DEF Surjection
    <3>2. IsFiniteSet(J)
      BY DEF IsWorkflow
    <3> HIDE DEF f
    <3> QED
      BY <3>1, <3>2, FS_Surjection
  <2>2. \A T \in {IdsFor(w, j) : j \in J} : IsFiniteSet(T)
    BY <1>1
  <2> QED
    BY <2>1, <2>2, FS_UNION DEF AllIds
<1>4. DOMAIN from = Ids /\ \A id \in Ids : Origin(id) \in J
  BY DEF IsOrigin
<1>5. D = [id \in Ids |-> Rewrite(w, w.needs[Origin(id)])]
  BY <1>4 DEF ExpandMatrix
<1> HIDE DEF Origin
<1>6. ASSUME NEW id \in Ids
      PROVE  /\ D[id] \in Seq(Ids)
             /\ NeedSet(D, id) = AllIds(w, NeedSet(w.needs, Origin(id)))
  <2> DEFINE list == w.needs[Origin(id)]
             ss == [i \in DOMAIN list |-> ExpandedIds(w, list[i])]
  <2>1. D[id] = FlattenSeq(ss)
    BY <1>5 DEF Rewrite
  <2>2. list \in Seq(J)
    BY <1>4 DEF IsWorkflow
  <2> HIDE DEF list
  <2>3. Len(list) \in Nat /\ DOMAIN list = 1..Len(list) /\ \A i \in DOMAIN list : list[i] \in J
    BY <2>2, LenProperties, ElementOfSeq
  <2>4. \A i \in DOMAIN list : ExpandedIds(w, list[i]) \in Seq(Ids)
    <3> SUFFICES ASSUME NEW i \in DOMAIN list PROVE ExpandedIds(w, list[i]) \in Seq(Ids)
      OBVIOUS
    <3>1. list[i] \in J
      BY <2>3
    <3>2. ExpandedIds(w, list[i]) \in Seq(IdsFor(w, list[i])) /\ IdsFor(w, list[i]) \subseteq Ids
      BY <1>1, <3>1 DEF AllIds
    <3> QED
      BY <3>2, SeqDef
  <2>5. ss \in [1..Len(list) -> Seq(Ids)] /\ DOMAIN ss = DOMAIN list
    BY <2>3, <2>4
  <2>6. ss \in Seq(Seq(Ids))
    BY <2>3, <2>5, SeqDef
  <2>7. \A i \in DOMAIN list : ss[i] = ExpandedIds(w, list[i])
    OBVIOUS
  <2> HIDE DEF ss, Ids
  <2>8. /\ FlattenSeq(ss) \in Seq(Ids)
        /\ Range(FlattenSeq(ss)) = UNION {Range(ss[i]) : i \in DOMAIN ss}
    BY <2>6, FlattenRange
  <2>9. NeedSet(D, id) = Range(FlattenSeq(ss))
    BY <2>1 DEF NeedSet, Range
  <2>10. UNION {Range(ss[i]) : i \in DOMAIN ss} = UNION {IdsFor(w, list[i]) : i \in DOMAIN list}
    BY <2>5, <2>7 DEF IdsFor
  <2>11. AllIds(w, NeedSet(w.needs, Origin(id))) = UNION {IdsFor(w, list[i]) : i \in DOMAIN list}
    BY DEF AllIds, NeedSet, list
  <2> QED
    BY <2>1, <2>8, <2>9, <2>10, <2>11
<1>7. D \in [Ids -> Seq(Ids)]
  BY <1>5, <1>6
<1> QED
  BY <1>2, <1>3, <1>6, <1>7 DEF Origin

\* While the jobs' IDs are apart an ID tells its job.
LEMMA IdsTellJob ==
  ASSUME NEW w, IsWorkflow(w), Valid(w), JobsApart(w), NEW from, IsOrigin(w, from)
  PROVE  \A j \in JobsOf(w) : \A id \in IdsFor(w, j) :
           id \in AllIds(w, JobsOf(w)) /\ from[id][1] = j
<1> SUFFICES ASSUME NEW j \in JobsOf(w), NEW id \in IdsFor(w, j)
             PROVE  id \in AllIds(w, JobsOf(w)) /\ from[id][1] = j
  OBVIOUS
<1>1. id \in AllIds(w, JobsOf(w))
  BY DEF AllIds
<1>2. from[id] \in Copies(w) /\ ComboId(w, from[id]) = id
  BY <1>1 DEF IsOrigin
<1>3. PICK copy \in Range(CopiesOf(w, j)) : ComboId(w, copy) = id
  BY ExpandedShape
<1>4. copy \in Copies(w) /\ copy[1] = j
  BY ExpandedShape
<1>5. from[id][1] = copy[1]
  BY <1>2, <1>3, <1>4 DEF JobsApart
<1> QED
  BY <1>1, <1>4, <1>5

\* A rank of the written jobs ranks the IDs, if these are apart: expansion makes
\* no cycle, for every job keeps at least one ID.
LEMMA ExpansionAcyclic ==
  ASSUME NEW w, IsWorkflow(w), Valid(w), JobsApart(w), NEW from, IsOrigin(w, from)
  PROVE  Acyclic(ExpandMatrix(w, from))
<1> DEFINE D   == ExpandMatrix(w, from)
           J   == JobsOf(w)
           Ids == AllIds(w, J)
           Origin(id) == from[id][1]
<1>1. /\ IsFiniteSet(Ids) /\ D \in [Ids -> Seq(Ids)]
      /\ \A id \in Ids : Origin(id) \in J
      /\ \A id \in Ids : NeedSet(D, id) = AllIds(w, NeedSet(w.needs, Origin(id)))
  BY ExpansionIs DEF IsOrigin
<1>2. /\ w.needs \in [J -> Seq(J)] /\ IsFiniteSet(J)
      /\ \A j \in J : \A n \in NeedSet(w.needs, j) : n \in J
  BY NeedsListFinite DEF IsWorkflow, NeedSet
<1>3. \A j \in J : IdsFor(w, j) # {} /\ \A id \in IdsFor(w, j) : Origin(id) = j
  BY ExpandedShape, IdsTellJob
<1> HIDE DEF Origin
<1>4. PICK rank \in [J -> 0..Cardinality(J)] :
         \A j \in J : \A n \in NeedSet(w.needs, j) : rank[n] < rank[j]
  <2>1. Acyclic(w.needs)
    BY DEF Valid, NeedsSortable
  <2>2. DOMAIN w.needs = J
    BY DEF JobsOf
  <2> QED
    BY <2>1, <2>2 DEF Acyclic
<1>5. Cardinality(J) <= Cardinality(Ids) /\ Cardinality(J) \in Nat /\ Cardinality(Ids) \in Nat
  <2> DEFINE f == [id \in Ids |-> Origin(id)]
  <2>1. \A j \in J : \E id \in Ids : f[id] = j
    BY <1>3 DEF AllIds
  <2>2. f \in Surjection(Ids, J)
    BY <1>1, <2>1 DEF Surjection
  <2> HIDE DEF f, Ids
  <2> QED
    BY <1>1, <1>2, <2>2, FS_Surjection, FS_CardinalityType
<1> DEFINE level == [id \in Ids |-> rank[Origin(id)]]
<1>6. level \in [Ids -> 0..Cardinality(Ids)]
  <2>1. \A id \in Ids : rank[Origin(id)] \in 0..Cardinality(J)
    BY <1>1
  <2> HIDE DEF Ids
  <2>2. \A id \in Ids : rank[Origin(id)] \in 0..Cardinality(Ids)
    BY <1>5, <2>1
  <2> QED
    BY <2>2
<1>7. ASSUME NEW id \in Ids, NEW n \in NeedSet(D, id)
      PROVE  level[n] < level[id]
  <2>1. PICK j \in NeedSet(w.needs, Origin(id)) : n \in IdsFor(w, j)
    BY <1>1, <1>7 DEF AllIds
  <2>2. j \in J /\ Origin(n) = j /\ n \in Ids
    BY <1>1, <1>2, <1>3, <2>1 DEF AllIds
  <2> QED
    BY <1>1, <1>4, <2>1, <2>2
<1>8. DOMAIN D = Ids
  BY <1>1
<1> HIDE DEF level, D, Ids
<1>9. Acyclic(D)
  BY <1>6, <1>7, <1>8 DEF Acyclic
<1> QED
  BY <1>9 DEF D

\* What is upstream of an ID are the IDs of what is upstream of its job.
LEMMA ExpansionUpstream ==
  ASSUME NEW w, IsWorkflow(w), Valid(w), JobsApart(w), NEW from, IsOrigin(w, from),
         NEW id \in AllIds(w, JobsOf(w))
  PROVE  Upstream(ExpandMatrix(w, from), id) = AllIds(w, Upstream(w.needs, from[id][1]))
<1> DEFINE D   == ExpandMatrix(w, from)
           J   == JobsOf(w)
           Ids == AllIds(w, J)
           Origin(i) == from[i][1]
           j   == Origin(id)
<1>1. /\ IsFiniteSet(Ids) /\ D \in [Ids -> Seq(Ids)]
      /\ \A i \in Ids : Origin(i) \in J
      /\ \A i \in Ids : NeedSet(D, i) = AllIds(w, NeedSet(w.needs, Origin(i)))
  BY ExpansionIs DEF IsOrigin
<1>2. /\ w.needs \in [J -> Seq(J)] /\ IsFiniteSet(J) /\ j \in J
      /\ \A k \in J : \A n \in NeedSet(w.needs, k) : n \in J
  BY <1>1, NeedsListFinite DEF IsWorkflow, NeedSet
<1>3. \A k \in J : IdsFor(w, k) # {} /\ \A i \in IdsFor(w, k) : Origin(i) = k /\ i \in Ids
  BY ExpandedShape, IdsTellJob
<1> HIDE DEF Origin
<1>4. /\ NeedSet(w.needs, j) \subseteq Upstream(w.needs, j) /\ Upstream(w.needs, j) \subseteq J
      /\ \A n \in Upstream(w.needs, j) : NeedSet(w.needs, n) \subseteq Upstream(w.needs, j)
  <2> HIDE DEF J, j
  <2> QED
    BY <1>2, UpstreamClosed DEF Closed
<1>5. /\ NeedSet(D, id) \subseteq Upstream(D, id)
      /\ \A n \in Upstream(D, id) : NeedSet(D, n) \subseteq Upstream(D, id)
      /\ Upstream(D, id) \subseteq Ids
  <2>1. id \in Ids
    OBVIOUS
  <2> HIDE DEF D, Ids
  <2> QED
    BY <1>1, <2>1, UpstreamClosed DEF Closed
<1>6. Upstream(D, id) \subseteq AllIds(w, Upstream(w.needs, j))
  <2> DEFINE S == AllIds(w, Upstream(w.needs, j))
  <2>1. NeedSet(D, id) \subseteq S
    BY <1>1, <1>4 DEF AllIds
  <2>2. Closed(D, S)
    <3> SUFFICES ASSUME NEW i \in S, NEW n \in NeedSet(D, i) PROVE n \in S
      BY DEF Closed
    <3>1. PICK k \in Upstream(w.needs, j) : i \in IdsFor(w, k)
      BY DEF AllIds
    <3>2. k \in J /\ Origin(i) = k /\ i \in Ids
      BY <1>3, <1>4, <3>1
    <3>3. n \in AllIds(w, NeedSet(w.needs, k))
      BY <1>1, <3>2
    <3> QED
      BY <1>4, <3>1, <3>3 DEF AllIds
  <2>3. id \in Ids
    OBVIOUS
  <2> HIDE DEF S, D, Ids
  <2>4. Upstream(D, id) \subseteq S
    BY <1>1, <2>1, <2>2, <2>3, UpstreamLeast
  <2> QED
    BY <2>4 DEF S
<1>7. AllIds(w, Upstream(w.needs, j)) \subseteq Upstream(D, id)
  <2> DEFINE S == {k \in J : IdsFor(w, k) \subseteq Upstream(D, id)}
  <2>1. NeedSet(w.needs, j) \subseteq S
    BY <1>1, <1>2, <1>5 DEF AllIds
  <2>2. Closed(w.needs, S)
    <3> SUFFICES ASSUME NEW k \in S, NEW n \in NeedSet(w.needs, k) PROVE n \in S
      BY DEF Closed
    <3>1. PICK i \in IdsFor(w, k) : i \in Ids /\ Origin(i) = k
      BY <1>3
    <3>2. NeedSet(D, i) \subseteq Upstream(D, id)
      BY <1>5, <3>1
    <3>3. IdsFor(w, n) \subseteq NeedSet(D, i)
      BY <1>1, <3>1 DEF AllIds
    <3> QED
      BY <1>2, <3>2, <3>3
  <2>3. Upstream(w.needs, j) \subseteq S
    <3> HIDE DEF S, J, j
    <3> QED
      BY <1>2, <2>1, <2>2, UpstreamLeast
  <2> QED
    BY <2>3 DEF AllIds
<1> QED
  BY <1>6, <1>7 DEF Origin

----------------------------------------------------------------------------
----------------------------------------------------------------------------
(* Chains, and the calls among them. *)

\* A chain from its if to the branch at i.
Chain(kinds, h, i) ==
  /\ h \in DOMAIN kinds /\ i \in DOMAIN kinds /\ h < i
  /\ kinds[h] = "if" /\ kinds[i] \in {"elif", "else"}
  /\ \A k \in h+1..i-1 : kinds[k] = "elif"

\* Where what decides about step i begins: the if of its chain, or i itself.
Begins(kinds, h, i) == (kinds[i] \notin {"elif", "else"} /\ h = i) \/ Chain(kinds, h, i)

\* The last if before a branch of a valid list begins its chain.
LEMMA ChainBegins ==
  ASSUME NEW kinds \in Seq(StepKinds), ChainsValid(kinds), NEW i \in DOMAIN kinds
  PROVE  \E h \in DOMAIN kinds : Begins(kinds, h, i) /\ h <= i
<1> DEFINE n == Len(kinds)
<1>1. n \in Nat /\ DOMAIN kinds = 1..n /\ \A k \in 1..n : kinds[k] \in StepKinds
  OBVIOUS
<1> HIDE DEF n
<1>2. CASE kinds[i] \notin {"elif", "else"}
  BY <1>1, <1>2 DEF Begins
<1>3. CASE kinds[i] \in {"elif", "else"}
  <2> DEFINE S == {d \in 1..i-1 : /\ kinds[i - d] = "if"
                                  /\ \A k \in (i-d)+1..i-1 : ~Closes(kinds[k])}
  <2>1. PICK g \in 1..i-1 : kinds[g] = "if" /\ \A k \in g+1..i-1 : ~Closes(kinds[k])
    BY <1>3 DEF ChainsValid, ChainOpen
  <2>2. i - g \in S
    <3>1. i - g \in 1..i-1 /\ i - (i - g) = g
      BY <1>1
    <3> QED
      BY <2>1, <3>1
  <2>3. S \in SUBSET Nat
    BY <1>1
  <2>4. PICK d \in S : \A e \in S : d <= e
    <3> HIDE DEF S
    <3> QED
      BY <2>2, <2>3, NatMinimum
  <2> DEFINE h == i - d
  <2>5. h \in 1..i-1 /\ d = i - h /\ h < i /\ h \in 1..n
    BY <1>1
  <2>6. kinds[h] = "if" /\ \A k \in h+1..i-1 : ~Closes(kinds[k])
    OBVIOUS
  <2> HIDE DEF h
  <2>7. ASSUME NEW k \in h+1..i-1 PROVE kinds[k] = "elif"
    <3>1. k \in 1..n /\ k \in 1..i-1 /\ i - k \in 1..i-1 /\ i - (i - k) = k /\ i - k < d
      BY <1>1, <2>5
    <3>2. \A m \in k+1..i-1 : m \in h+1..i-1
      BY <2>5, <3>1
    <3>3. kinds[k] # "if"
      <4> SUFFICES ASSUME kinds[k] = "if" PROVE FALSE
        OBVIOUS
      <4>1. i - k \in S
        BY <2>6, <3>1, <3>2
      <4>2. d <= i - k
        BY <2>4, <4>1
      <4> QED
        BY <2>5, <3>1, <4>2
    <3>4. kinds[k] \in StepKinds /\ ~Closes(kinds[k])
      BY <1>1, <2>6, <3>1
    <3> QED
      BY <3>3, <3>4 DEF StepKinds, PlainKinds, Closes
  <2>8. Chain(kinds, h, i)
    BY <1>1, <1>3, <2>5, <2>6, <2>7 DEF Chain
  <2> QED
    BY <1>1, <2>5, <2>8 DEF Begins
<1> QED
  BY <1>2, <1>3

\* What the flag tells at step i of a chain, and so whether the step runs.
LEMMA ChainDecides ==
  ASSUME NEW kinds \in Seq(StepKinds), NEW truth \in [DOMAIN kinds -> BOOLEAN],
         NEW i \in DOMAIN kinds, NEW h, Begins(kinds, h, i)
  PROVE  i \in Executed(kinds, truth)
           <=> /\ kinds[i] \in {"if", "elif"} => truth[i]
               /\ \A k \in h..i-1 : ~truth[k]
<1> DEFINE n == Len(kinds)
           Eq(f) == f = [k \in 0..n |-> IF k = 0 THEN FALSE
                                        ELSE TakenAfter(kinds[k], f[k - 1], truth[k])]
           taken == CHOOSE f : Eq(f)
<1>1. n \in Nat /\ DOMAIN kinds = 1..n /\ \A k \in 1..n : kinds[k] \in StepKinds
  OBVIOUS
<1>2. Executed(kinds, truth) = {k \in 1..n : ShouldRun(kinds[k], taken[k - 1], truth[k])}
  BY <1>1 DEF Executed
<1> HIDE DEF n
<1>3. \E f : Eq(f)
  <2> DEFINE step == [p \in BOOLEAN \X Nat |->
                        IF p[2] \in 1..n THEN TakenAfter(kinds[p[2]], p[1], truth[p[2]]) ELSE FALSE]
  <2>1. step \in [BOOLEAN \X Nat -> BOOLEAN]
    <3> SUFFICES ASSUME NEW x \in BOOLEAN, NEW k \in Nat
                 PROVE  (IF k \in 1..n THEN TakenAfter(kinds[k], x, truth[k]) ELSE FALSE) \in BOOLEAN
      OBVIOUS
    <3>1. CASE k \in 1..n
      <4>1. truth[k] \in BOOLEAN
        BY <1>1, <3>1
      <4> QED
        BY <3>1, <4>1 DEF TakenAfter
    <3>2. CASE k \notin 1..n
      BY <3>2
    <3> QED
      BY <3>1, <3>2
  <2>2. \A k \in 1..n : \A x \in BOOLEAN : step[<<x, k>>] = TakenAfter(kinds[k], x, truth[k])
    <3> SUFFICES ASSUME NEW k \in 1..n, NEW x \in BOOLEAN
                 PROVE  step[<<x, k>>] = TakenAfter(kinds[k], x, truth[k])
      OBVIOUS
    <3> DEFINE p == <<x, k>>
    <3>1. p \in BOOLEAN \X Nat /\ p[1] = x /\ p[2] = k
      BY <1>1
    <3> HIDE DEF p
    <3>2. step[p] = IF p[2] \in 1..n THEN TakenAfter(kinds[p[2]], p[1], truth[p[2]]) ELSE FALSE
      BY <3>1, Zenon
    <3>3. step[p] = TakenAfter(kinds[k], x, truth[k])
      BY <3>1, <3>2, Zenon
    <3> QED
      BY <3>3 DEF p
  <2> HIDE DEF step
  <2>3. \E f : Computes(f, BOOLEAN, FALSE, step, n)
    <3>1. FALSE \in BOOLEAN /\ n \in Nat
      BY <1>1
    <3> QED
      BY <2>1, <3>1, Recursion
  <2>4. PICK f \in [0..n -> BOOLEAN] : f[0] = FALSE /\ \A k \in 1..n : f[k] = step[<<f[k - 1], k>>]
    BY <2>3 DEF Computes
  <2>5. ASSUME NEW k \in 0..n
        PROVE  f[k] = IF k = 0 THEN FALSE ELSE TakenAfter(kinds[k], f[k - 1], truth[k])
    <3>1. CASE k = 0
      BY <2>4, <3>1
    <3>2. CASE k # 0
      <4>1. k \in 1..n /\ k - 1 \in 0..n
        BY <1>1, <3>2
      <4>2. f[k - 1] \in BOOLEAN
        BY <4>1
      <4>3. f[k] = TakenAfter(kinds[k], f[k - 1], truth[k])
        BY <2>2, <2>4, <4>1, <4>2
      <4> QED
        BY <3>2, <4>3
    <3> QED
      BY <3>1, <3>2
  <2>6. f = [k \in 0..n |-> IF k = 0 THEN FALSE ELSE TakenAfter(kinds[k], f[k - 1], truth[k])]
    BY <2>5
  <2> QED
    BY <2>6
<1>4. Eq(taken)
  BY <1>3
<1> HIDE DEF taken
<1>5. \A k \in 1..n : taken[k] = TakenAfter(kinds[k], taken[k - 1], truth[k])
  <2>1. taken = [k \in 0..n |-> IF k = 0 THEN FALSE ELSE TakenAfter(kinds[k], taken[k - 1], truth[k])]
    BY <1>4
  <2>2. \A k \in 0..n : taken[k] = IF k = 0 THEN FALSE ELSE TakenAfter(kinds[k], taken[k - 1], truth[k])
    BY <2>1, Zenon
  <2>3. \A k \in 1..n : k \in 0..n /\ k # 0
    BY <1>1
  <2> QED
    BY <2>2, <2>3, Zenon
<1>6. i \in Executed(kinds, truth) <=> ShouldRun(kinds[i], taken[i - 1], truth[i])
  BY <1>1, <1>2
<1>7. CASE kinds[i] \notin {"elif", "else"} /\ h = i
  <2>1. h..i-1 = {}
    BY <1>1, <1>7
  <2>2. kinds[i] \in StepKinds
    BY <1>1
  <2>3. ShouldRun(kinds[i], taken[i - 1], truth[i]) <=> (kinds[i] = "if" => truth[i])
    BY <1>7, <2>2 DEF ShouldRun, StepKinds, PlainKinds
  <2> QED
    BY <1>6, <1>7, <2>1, <2>3
<1>8. CASE Chain(kinds, h, i)
  <2>1. /\ h \in 1..n /\ i \in 1..n /\ h < i /\ kinds[h] = "if" /\ kinds[i] \in {"elif", "else"}
        /\ \A k \in h+1..i-1 : kinds[k] = "elif"
    BY <1>1, <1>8 DEF Chain
  <2> DEFINE Right(m) == taken[m] <=> \E k \in h..m : truth[k]
             Bad == {m \in h..i-1 : ~Right(m)}
  <2>2. Bad = {}
    <3> SUFFICES ASSUME Bad # {} PROVE FALSE
      OBVIOUS
    <3>1. Bad \in SUBSET Nat
      BY <1>1, <2>1
    <3>2. PICK m \in Bad : \A k \in Bad : m <= k
      <4> HIDE DEF Bad
      <4> QED
        BY <3>1, NatMinimum
    <3>3. m \in h..i-1 /\ m \in 1..n
      BY <1>1, <2>1
    <3>4. taken[m] = TakenAfter(kinds[m], taken[m - 1], truth[m])
      BY <1>5, <3>3
    <3>5. CASE m = h
      <4>1. h..m = {m}
        BY <1>1, <2>1, <3>5
      <4>2. taken[m] = truth[m]
        BY <2>1, <3>4, <3>5 DEF TakenAfter
      <4>3. Right(m)
        BY <4>1, <4>2
      <4> QED
        BY <4>3
    <3>6. CASE m # h
      <4>1. m - 1 \in h..i-1 /\ m \in h+1..i-1 /\ h..m = (h..m-1) \cup {m}
        BY <1>1, <2>1, <3>3, <3>6
      <4>2. m - 1 \notin Bad
        <5> HIDE DEF Bad
        <5> QED
          BY <1>1, <2>1, <3>2, <3>3
      <4>3. Right(m - 1)
        BY <4>1, <4>2
      <4>4. taken[m] = (taken[m - 1] \/ truth[m])
        BY <2>1, <3>4, <4>1 DEF TakenAfter
      <4>5. Right(m)
        BY <4>1, <4>3, <4>4
      <4> QED
        BY <4>5
    <3> QED
      BY <3>5, <3>6
  <2>3. i - 1 \in h..i-1
    BY <1>1, <2>1
  <2>4. taken[i - 1] <=> \E k \in h..i-1 : truth[k]
    BY <2>2, <2>3
  <2>5. ShouldRun(kinds[i], taken[i - 1], truth[i])
          <=> (kinds[i] = "elif" => truth[i]) /\ ~taken[i - 1]
    BY <2>1 DEF ShouldRun
  <2> QED
    BY <1>6, <2>1, <2>4, <2>5
<1> QED
  BY <1>7, <1>8 DEF Begins

\* What the reference says of step i, in the same terms.
LEMMA ReferenceDecides ==
  ASSUME NEW kinds \in Seq(StepKinds), NEW truth \in [DOMAIN kinds -> BOOLEAN],
         NEW i \in DOMAIN kinds, NEW h, Begins(kinds, h, i)
  PROVE  i \in ReferenceRuns(kinds, truth)
           <=> /\ kinds[i] \in {"if", "elif"} => truth[i]
               /\ \A k \in h..i-1 : ~truth[k]
<1> DEFINE n == Len(kinds)
<1>1. n \in Nat /\ DOMAIN kinds = 1..n /\ kinds[i] \in StepKinds
  OBVIOUS
<1> HIDE DEF n
<1>2. CASE kinds[i] \notin {"elif", "else"} /\ h = i
  <2>1. h..i-1 = {}
    BY <1>1, <1>2
  <2> QED
    BY <1>1, <1>2, <2>1 DEF ReferenceRuns, StepKinds, PlainKinds
<1>3. CASE Chain(kinds, h, i)
  <2>1. /\ h \in 1..n /\ i \in 1..n /\ h < i /\ kinds[h] = "if" /\ kinds[i] \in {"elif", "else"}
        /\ \A k \in h+1..i-1 : kinds[k] = "elif"
    BY <1>1, <1>3 DEF Chain
  <2>2. Branch(kinds, i) = h..i-1
    <3>1. ASSUME NEW k \in h..i-1 PROVE k \in Branch(kinds, i)
      <4>1. k \in 1..i-1
        BY <1>1, <2>1
      <4>2. ASSUME NEW m \in k+1..i PROVE kinds[m] \in {"elif", "else"}
        <5>1. m = i \/ m \in h+1..i-1
          BY <1>1, <2>1
        <5> QED
          BY <2>1, <5>1
      <4> QED
        BY <4>1, <4>2 DEF Branch
    <3>2. ASSUME NEW k \in Branch(kinds, i) PROVE k \in h..i-1
      <4>1. k \in 1..i-1 /\ \A m \in k+1..i : kinds[m] \in {"elif", "else"}
        BY DEF Branch
      <4>2. h \notin k+1..i
        BY <2>1, <4>1
      <4> QED
        BY <1>1, <2>1, <4>1, <4>2
    <3> QED
      BY <3>1, <3>2
  <2> QED
    BY <2>1, <2>2 DEF ReferenceRuns
<1> QED
  BY <1>2, <1>3 DEF Begins

\* Moving an interval.
LEMMA ShiftedRange ==
  ASSUME NEW h \in Int, NEW i \in Int, NEW d \in Int
  PROVE  \A k \in (h+d)+1..(i+d)-1 : k - d \in h+1..i-1 /\ k - d \in h..i /\ (k - d) + d = k
OBVIOUS

\* A step does in a longer list what the reference says of it in its own, if
\* the list contains all of its chain up to it.
LEMMA OccurrenceAgrees ==
  ASSUME NEW kinds \in Seq(StepKinds), NEW truth \in [DOMAIN kinds -> BOOLEAN],
         NEW list \in Seq(StepKinds), NEW t \in [DOMAIN list -> BOOLEAN],
         NEW i \in DOMAIN list, NEW h \in DOMAIN list, h <= i, Begins(list, h, i),
         NEW d \in Int,
         \A k \in h..i : k + d \in DOMAIN kinds /\ kinds[k + d] = list[k] /\ t[k] = truth[k + d]
  PROVE  i + d \in Executed(kinds, truth) <=> i \in ReferenceRuns(list, t)
<1>1. DOMAIN kinds = 1..Len(kinds) /\ DOMAIN list = 1..Len(list)
  OBVIOUS
<1>2. i \in Int /\ h \in Int /\ i \in h..i /\ h \in h..i /\ h + d \in Int /\ i + d \in Int
  BY <1>1
<1>3. i + d \in DOMAIN kinds /\ kinds[i + d] = list[i] /\ t[i] = truth[i + d]
  BY <1>2
<1>4. Begins(kinds, h + d, i + d)
  <2>1. CASE list[i] \notin {"elif", "else"} /\ h = i
    BY <1>3, <2>1 DEF Begins
  <2>2. CASE Chain(list, h, i)
    <3>1. /\ h < i /\ list[h] = "if" /\ list[i] \in {"elif", "else"}
          /\ \A k \in h+1..i-1 : list[k] = "elif"
      BY <2>2 DEF Chain
    <3>2. h + d \in DOMAIN kinds /\ kinds[h + d] = "if"
      BY <1>2, <3>1
    <3>3. ASSUME NEW k \in (h+d)+1..(i+d)-1 PROVE kinds[k] = "elif"
      <4>1. k - d \in h+1..i-1 /\ k - d \in h..i /\ (k - d) + d = k
        <5> HIDE DEF Begins
        <5>1. h \in Int /\ i \in Int /\ d \in Int
          BY <1>2
        <5>2. \A g \in (h+d)+1..(i+d)-1 : g - d \in h+1..i-1 /\ g - d \in h..i /\ (g - d) + d = g
          BY <5>1, ShiftedRange, SMTT(30)
        <5> QED
          BY <5>2
      <4>2. kinds[(k - d) + d] = list[k - d]
        BY <4>1
      <4> QED
        BY <3>1, <4>1, <4>2
    <3>4. h + d < i + d
      BY <1>2, <3>1
    <3> QED
      BY <1>3, <3>1, <3>2, <3>3, <3>4 DEF Begins, Chain
  <2> QED
    BY <2>1, <2>2 DEF Begins
<1>5. i + d \in Executed(kinds, truth)
        <=> /\ kinds[i + d] \in {"if", "elif"} => truth[i + d]
            /\ \A k \in (h+d)..(i+d)-1 : ~truth[k]
  BY <1>3, <1>4, ChainDecides
<1>6. i \in ReferenceRuns(list, t)
        <=> /\ list[i] \in {"if", "elif"} => t[i]
            /\ \A k \in h..i-1 : ~t[k]
  BY ReferenceDecides
<1>7. (\A k \in (h+d)..(i+d)-1 : ~truth[k]) <=> \A k \in h..i-1 : ~t[k]
  <2>1. \A k \in (h+d)..(i+d)-1 : k - d \in h..i-1 /\ k - d \in h..i /\ (k - d) + d = k
    BY <1>2, SMTT(30)
  <2>2. \A k \in h..i-1 : k + d \in (h+d)..(i+d)-1 /\ k \in h..i
    BY <1>2, SMTT(30)
  <2> QED
    BY <2>1, <2>2
<1> QED
  BY <1>3, <1>5, <1>6, <1>7

\* Where the lists that FlattenSeq joins are in the outcome.
Parts(f, ss, T) ==
  /\ f \in [0..Len(ss) -> Seq(T)] /\ f[0] = <<>>
  /\ \A i \in 1..Len(ss) : f[i] = f[i - 1] \o ss[i]
  /\ \A i \in 0..Len(ss) : FlattenSeq(SubSeq(ss, 1, i)) = f[i]

\* Any prefix of the lists is joined to a prefix of the outcome.
LEMMA FlattenParts ==
  ASSUME NEW T, NEW ss \in Seq(Seq(T))
  PROVE  \E f : Parts(f, ss, T)
<1> DEFINE n == Len(ss)
           f == [i \in 0..n |-> FlattenSeq(SubSeq(ss, 1, i))]
<1>1. n \in Nat /\ \A i \in 1..n : ss[i] \in Seq(T)
  OBVIOUS
<1>2. ASSUME NEW m \in 0..n
      PROVE  /\ SubSeq(ss, 1, m) \in Seq(Seq(T)) /\ Len(SubSeq(ss, 1, m)) = m
             /\ \A i \in 1..m : SubSeq(ss, 1, m)[i] = ss[i]
  BY <1>1, SubSeqProperties
<1>3. \A m \in 0..n : FlattenSeq(SubSeq(ss, 1, m)) \in Seq(T)
  BY <1>2, FlattenRange
<1>4. FlattenSeq(SubSeq(ss, 1, 0)) = <<>>
  <2>1. SubSeq(ss, 1, 0) = <<>>
    BY SubSeqEmpty
  <2> QED
    BY <2>1 DEF FlattenSeq
<1> DEFINE Appends(g, m) ==
             /\ FlattenSeq(SubSeq(ss, 1, m)) = g[m] /\ g[1] = ss[1]
             /\ \A i \in 2..m : g[i] = g[i - 1] \o ss[i]
<1>5. ASSUME NEW m \in 1..n
      PROVE  \E g : Appends(g, m)
  <2> DEFINE s == SubSeq(ss, 1, m)
  <2>1. m \in 0..n /\ m \in Nat /\ m >= 1
    BY <1>1
  <2>2. s \in Seq(Seq(T)) /\ Len(s) = m /\ \A i \in 1..m : s[i] = ss[i]
    BY <1>2, <2>1
  <2> HIDE DEF s
  <2>3. s # <<>>
    BY <2>1, <2>2
  <2>4. PICK g : Joins(g, s, T)
    BY <2>2, <2>3, FlattenSteps
  <2>5. 1 \in 1..m /\ \A i \in 2..m : i \in 1..m
    BY <2>1
  <2>6. Appends(g, m)
    BY <2>2, <2>4, <2>5 DEF s, Joins
  <2> QED
    BY <2>6
<1>6. ASSUME NEW m \in 1..n
      PROVE  FlattenSeq(SubSeq(ss, 1, m)) = FlattenSeq(SubSeq(ss, 1, m - 1)) \o ss[m]
  <2>1. PICK g : Appends(g, m)
    BY <1>5
  <2>2. CASE m = 1
    <3>1. FlattenSeq(SubSeq(ss, 1, m)) = ss[1] /\ m - 1 = 0
      BY <2>1, <2>2
    <3>2. <<>> \o ss[1] = ss[1]
      BY <1>1, <2>2, ConcatEmptySeq
    <3> QED
      BY <1>4, <2>2, <3>1, <3>2
  <2>3. CASE m # 1
    <3>1. m - 1 \in 1..n /\ m \in 2..m
      BY <1>1, <2>3
    <3>2. PICK e : Appends(e, m - 1)
      BY <1>5, <3>1
    <3>3. e[m - 1] = g[m - 1]
      <4> DEFINE Bad == {i \in 1..m-1 : e[i] # g[i]}
      <4> SUFFICES ASSUME Bad # {} PROVE FALSE
        BY <3>1
      <4>1. Bad \in SUBSET Nat
        BY <1>1
      <4>2. PICK i \in Bad : \A k \in Bad : i <= k
        <5> HIDE DEF Bad
        <5> QED
          BY <4>1, NatMinimum
      <4>3. i \in 1..m-1 /\ e[i] # g[i]
        OBVIOUS
      <4>4. i # 1
        BY <2>1, <3>2, <4>3
      <4>5. i - 1 \in 1..m-1 /\ i \in 2..m-1 /\ i \in 2..m
        BY <1>1, <4>3, <4>4
      <4>6. i - 1 \notin Bad
        <5> HIDE DEF Bad
        <5> QED
          BY <1>1, <4>2, <4>3
      <4>7. e[i - 1] = g[i - 1]
        BY <4>5, <4>6
      <4>8. e[i] = e[i - 1] \o ss[i] /\ g[i] = g[i - 1] \o ss[i]
        BY <2>1, <3>2, <4>5
      <4> QED
        BY <4>3, <4>7, <4>8
    <3>4. g[m] = g[m - 1] \o ss[m]
      BY <2>1, <3>1
    <3> QED
      BY <2>1, <3>2, <3>3, <3>4
  <2> QED
    BY <2>2, <2>3
<1>7. f \in [0..n -> Seq(T)]
  BY <1>3
<1>8. \A i \in 0..n : f[i] = FlattenSeq(SubSeq(ss, 1, i))
  OBVIOUS
<1>9. 0 \in 0..n /\ \A i \in 1..n : i \in 0..n /\ i - 1 \in 0..n
  BY <1>1
<1> HIDE DEF f
<1>10. Parts(f, ss, T)
  BY <1>4, <1>6, <1>7, <1>8, <1>9 DEF Parts
<1> QED
  BY <1>10

\* Every element of the i-th list is behind all of the lists before it.
LEMMA FlattenAt ==
  ASSUME NEW T, NEW ss \in Seq(Seq(T)), NEW f, Parts(f, ss, T),
         NEW i \in DOMAIN ss, NEW k \in DOMAIN ss[i]
  PROVE  /\ k + Len(f[i - 1]) \in DOMAIN FlattenSeq(ss)
         /\ FlattenSeq(ss)[k + Len(f[i - 1])] = ss[i][k]
<1> DEFINE n == Len(ss)
           p == k + Len(f[i - 1])
<1>1. /\ n \in Nat /\ DOMAIN ss = 1..n /\ \A m \in 1..n : ss[m] \in Seq(T)
  OBVIOUS
<1>2. /\ f \in [0..n -> Seq(T)]
      /\ \A m \in 1..n : f[m] = f[m - 1] \o ss[m]
  BY DEF Parts
<1>3. FlattenSeq(ss) = f[n]
  <2>1. SubSeq(ss, 1, n) = ss
    BY SubSeqFull
  <2>2. n \in 0..n
    BY <1>1
  <2> QED
    BY <2>1, <2>2 DEF Parts
<1>4. i \in 1..n /\ i - 1 \in 0..n /\ ss[i] \in Seq(T) /\ f[i - 1] \in Seq(T)
  BY <1>1, <1>2
<1> HIDE DEF n
<1>5. p \in Nat /\ p \in 1..Len(f[i]) /\ f[i][p] = ss[i][k]
  <2> DEFINE a == f[i - 1]
             b == ss[i]
  <2>1. a \in Seq(T) /\ b \in Seq(T) /\ f[i] = a \o b /\ k \in DOMAIN b
    BY <1>2, <1>4
  <2> HIDE DEF a, b
  <2>2. k + Len(a) \in 1..Len(a \o b) /\ (a \o b)[k + Len(a)] = b[k] /\ k + Len(a) \in Nat
    BY <2>1
  <2> QED
    BY <2>1, <2>2 DEF a, b
<1> HIDE DEF p
<1> DEFINE At(m) == p \in 1..Len(f[m]) /\ f[m][p] = ss[i][k]
           Bad == {m \in i..n : ~At(m)}
<1>6. Bad = {}
  <2> SUFFICES ASSUME Bad # {} PROVE FALSE
    OBVIOUS
  <2>1. Bad \in SUBSET Nat
    BY <1>1, <1>4
  <2>2. PICK m \in Bad : \A l \in Bad : m <= l
    <3> HIDE DEF Bad
    <3> QED
      BY <2>1, NatMinimum
  <2>3. m \in i..n /\ ~At(m)
    OBVIOUS
  <2>4. m # i
    BY <1>5, <2>3
  <2>5. m \in 1..n /\ m - 1 \in 0..n /\ m - 1 \in i..n
    BY <1>1, <1>4, <2>3, <2>4
  <2>6. m - 1 \notin Bad
    <3> HIDE DEF Bad
    <3> QED
      BY <1>1, <1>4, <2>2, <2>3
  <2>7. At(m - 1)
    BY <2>5, <2>6
  <2> DEFINE a == f[m - 1]
             b == ss[m]
  <2>8. a \in Seq(T) /\ b \in Seq(T) /\ f[m] = a \o b
    BY <1>1, <1>2, <2>5
  <2>9. p \in 1..Len(a) /\ a[p] = ss[i][k]
    BY <2>7
  <2> HIDE DEF a, b
  <2>10. p \in 1..Len(a \o b) /\ (a \o b)[p] = a[p]
    BY <2>8, <2>9
  <2>11. At(m)
    BY <2>8, <2>9, <2>10
  <2> QED
    BY <2>3, <2>11
<1>7. n \in i..n
  BY <1>1, <1>4
<1>8. At(n)
  BY <1>6, <1>7
<1>9. p \in DOMAIN f[n]
  <2>1. f[n] \in Seq(T)
    BY <1>1, <1>2
  <2> QED
    BY <1>8, <2>1
<1> QED
  BY <1>3, <1>8, <1>9 DEF p

\* The steps of a valid list, each where it is inlined.
LEMMA ChainsOfSteps ==
  ASSUME NEW steps \in Seq(Steps), StepsValid(steps),
         NEW truth \in [DOMAIN ExpandCalls(steps) -> BOOLEAN], NEW i \in DOMAIN steps
  PROVE  LET ran     == Executed(ExpandCalls(steps), truth)
             written == [k \in DOMAIN steps |-> truth[Place(steps, k)]]
             first   == Place(steps, i)
             body    == Inlined(steps[i])
             inner   == [k \in DOMAIN body |-> truth[first + k - 1]]
         IN  IF steps[i].kind = "call"
             THEN {k \in DOMAIN body : first + k - 1 \in ran} = ReferenceRuns(body, inner)
             ELSE first \in ran <=> i \in ReferenceRuns(Kinds(steps), written)
<1> DEFINE n == Len(steps)
           ss == [k \in DOMAIN steps |-> Inlined(steps[k])]
           kinds == ExpandCalls(steps)
           list == Kinds(steps)
           written == [k \in DOMAIN steps |-> truth[Place(steps, k)]]
<1>1. n \in Nat /\ DOMAIN steps = 1..n /\ \A k \in 1..n : steps[k] \in Steps
  BY LenProperties, ElementOfSeq
<1>2. /\ ChainsValid(list)
      /\ \A k \in 1..n : steps[k].kind = "call" =>
           steps[k].body # <<>> /\ ChainsValid(steps[k].body)
  BY <1>1 DEF StepsValid
<1>3. ASSUME NEW k \in 1..n
      PROVE  /\ Inlined(steps[k]) \in Seq(StepKinds) /\ steps[k].kind \in StepKinds
             /\ steps[k].kind = "call" => Inlined(steps[k]) = steps[k].body
             /\ steps[k].kind # "call" => Inlined(steps[k]) = <<steps[k].kind>>
  <2>1. steps[k] \in Steps
    BY <1>1
  <2>2. CASE steps[k] \in [kind : PlainKinds]
    <3>1. steps[k].kind \in StepKinds /\ steps[k].kind # "call"
      BY <2>2 DEF PlainKinds, StepKinds
    <3>2. <<steps[k].kind>> \in Seq(StepKinds)
      BY <3>1
    <3> QED
      BY <3>1, <3>2 DEF Inlined
  <2>3. CASE steps[k] \in [kind : {"call"}, body : Seq(StepKinds)]
    BY <2>3 DEF Inlined, StepKinds
  <2> QED
    BY <2>1, <2>2, <2>3 DEF Steps
<1>4. ss \in Seq(Seq(StepKinds)) /\ DOMAIN ss = 1..n /\ Len(ss) = n /\ \A k \in 1..n : ss[k] = Inlined(steps[k])
  <2>1. ss \in [1..n -> Seq(StepKinds)] /\ \A k \in 1..n : ss[k] = Inlined(steps[k])
    BY <1>1, <1>3
  <2> HIDE DEF ss, n
  <2> QED
    BY <1>1, <2>1, SeqDef, LenProperties
<1>5. kinds = FlattenSeq(ss)
  BY DEF ExpandCalls
<1>6. list \in Seq(StepKinds) /\ DOMAIN list = 1..n /\ \A k \in 1..n : list[k] = steps[k].kind
  <2>1. list \in [1..n -> StepKinds] /\ \A k \in 1..n : list[k] = steps[k].kind
    BY <1>1, <1>3 DEF Kinds
  <2> HIDE DEF list, n
  <2> QED
    BY <1>1, <2>1, SeqDef
<1> HIDE DEF ss, kinds, list, n
<1>7. PICK f : Parts(f, ss, StepKinds)
  BY <1>4, FlattenParts
<1>8. /\ f \in [0..n -> Seq(StepKinds)]
      /\ \A k \in 1..n : f[k] = f[k - 1] \o ss[k]
      /\ \A k \in 0..n : FlattenSeq(SubSeq(ss, 1, k)) = f[k]
  BY <1>4, <1>7 DEF Parts
<1>9. kinds \in Seq(StepKinds) /\ truth \in [DOMAIN kinds -> BOOLEAN]
  BY <1>4, <1>5, FlattenRange DEF kinds
<1>10. ASSUME NEW k \in 1..n
       PROVE  Place(steps, k) = 1 + Len(f[k - 1]) /\ Len(f[k - 1]) \in Nat
  <2> DEFINE before == SubSeq(steps, 1, k - 1)
             inlined == [m \in DOMAIN before |-> Inlined(before[m])]
  <2>1. k - 1 \in 0..n /\ k - 1 \in Nat
    BY <1>1
  <2>2. /\ before \in Seq(Steps) /\ Len(before) = k - 1
        /\ \A m \in 1..k-1 : before[m] = steps[m]
    BY <1>1, <2>1, SubSeqProperties DEF n
  <2>3. /\ SubSeq(ss, 1, k - 1) \in Seq(Seq(StepKinds)) /\ Len(SubSeq(ss, 1, k - 1)) = k - 1
        /\ \A m \in 1..k-1 : SubSeq(ss, 1, k - 1)[m] = ss[m]
    BY <1>4, <2>1, SubSeqProperties
  <2> HIDE DEF before
  <2>4. DOMAIN before = 1..k-1 /\ DOMAIN SubSeq(ss, 1, k - 1) = 1..k-1
    BY <2>1, <2>2, <2>3, LenProperties
  <2>5. \A m \in 1..k-1 : inlined[m] = SubSeq(ss, 1, k - 1)[m]
    BY <1>1, <1>4, <2>1, <2>2, <2>3, <2>4
  <2>6. SubSeq(ss, 1, k - 1) = [m \in 1..k-1 |-> SubSeq(ss, 1, k - 1)[m]]
    <3> DEFINE e == SubSeq(ss, 1, k - 1)
    <3>1. e \in Seq(Seq(StepKinds)) /\ DOMAIN e = 1..k-1
      BY <2>3, <2>4
    <3> HIDE DEF e
    <3>2. e = [m \in 1..k-1 |-> e[m]]
      BY <3>1
    <3> QED
      BY <3>2 DEF e
  <2>7. inlined = SubSeq(ss, 1, k - 1)
    BY <2>4, <2>5, <2>6
  <2>8. ExpandCalls(before) = f[k - 1]
    BY <1>8, <2>1, <2>7 DEF ExpandCalls
  <2>9. f[k - 1] \in Seq(StepKinds)
    BY <1>8, <2>1
  <2> QED
    BY <2>8, <2>9, LenProperties DEF Place, before
<1>11. ASSUME NEW m \in 1..n, NEW k \in DOMAIN ss[m]
       PROVE  /\ k + Len(f[m - 1]) \in DOMAIN kinds
              /\ kinds[k + Len(f[m - 1])] = ss[m][k]
  <2>1. m \in DOMAIN ss /\ ss \in Seq(Seq(StepKinds)) /\ Parts(f, ss, StepKinds)
    BY <1>4, <1>7
  <2>2. /\ k + Len(f[m - 1]) \in DOMAIN FlattenSeq(ss)
        /\ FlattenSeq(ss)[k + Len(f[m - 1])] = ss[m][k]
    BY <2>1, FlattenAt
  <2> QED
    BY <1>5, <2>2
<1> DEFINE first == Place(steps, i)
           ran == Executed(kinds, truth)
<1>12. i \in 1..n /\ first = 1 + Len(f[i - 1]) /\ Len(f[i - 1]) \in Nat
  BY <1>1, <1>10
<1>13. ASSUME steps[i].kind = "call"
       PROVE  LET body  == Inlined(steps[i])
                  inner == [k \in DOMAIN body |-> truth[first + k - 1]]
              IN  {k \in DOMAIN body : first + k - 1 \in ran} = ReferenceRuns(body, inner)
  <2> DEFINE d == Len(f[i - 1])
             body == Inlined(steps[i])
             inner == [k \in DOMAIN body |-> truth[first + k - 1]]
  <2>1. /\ body \in Seq(StepKinds) /\ ChainsValid(body) /\ body = ss[i]
        /\ d \in Nat /\ first = 1 + d
    BY <1>2, <1>3, <1>4, <1>12, <1>13
  <2> HIDE DEF body, first, d
  <2>2. DOMAIN body = 1..Len(body) /\ Len(body) \in Nat
    BY <2>1, LenProperties
  <2>3. \A k \in DOMAIN body : first + k - 1 = k + d
    BY <2>1, <2>2
  <2>4. \A k \in DOMAIN body : k + d \in DOMAIN kinds /\ kinds[k + d] = body[k]
    BY <1>11, <1>12, <2>1 DEF d
  <2>5. \A k \in DOMAIN body : inner[k] = truth[k + d]
    BY <2>3
  <2>6. inner \in [DOMAIN body -> BOOLEAN]
    <3>1. \A k \in DOMAIN body : truth[first + k - 1] \in BOOLEAN
      BY <1>9, <2>3, <2>4
    <3> QED
      BY <3>1
  <2> HIDE DEF inner
  <2>7. ASSUME NEW k \in DOMAIN body
        PROVE  first + k - 1 \in ran <=> k \in ReferenceRuns(body, inner)
    <3>1. PICK h \in DOMAIN body : Begins(body, h, k) /\ h <= k
      BY <2>1, ChainBegins
    <3>2. \A g \in h..k : g \in DOMAIN body
      BY <2>2
    <3>3. \A g \in h..k : g + d \in DOMAIN kinds /\ kinds[g + d] = body[g] /\ inner[g] = truth[g + d]
      BY <2>4, <2>5, <3>2
    <3>4. k \in DOMAIN body /\ h \in DOMAIN body /\ Begins(body, h, k) /\ h <= k /\ d \in Int
      BY <2>1, <3>1
    <3>5. body \in Seq(StepKinds)
      BY <2>1
    <3>6. k + d \in Executed(kinds, truth) <=> k \in ReferenceRuns(body, inner)
      BY <1>9, <2>6, <3>3, <3>4, <3>5, OccurrenceAgrees
    <3> QED
      BY <2>3, <3>6
  <2>8. ReferenceRuns(body, inner) \subseteq DOMAIN body
    BY DEF ReferenceRuns
  <2> HIDE DEF ran
  <2>9. {k \in DOMAIN body : first + k - 1 \in ran} = ReferenceRuns(body, inner)
    BY <2>7, <2>8
  <2> QED
    BY <2>9 DEF body, inner
<1>14. ASSUME steps[i].kind # "call"
       PROVE  first \in ran <=> i \in ReferenceRuns(list, written)
  <2>1. PICK h \in DOMAIN list : Begins(list, h, i) /\ h <= i
    BY <1>2, <1>6, <1>12, ChainBegins
  <2> DEFINE d == Len(f[h - 1]) + 1 - h
  <2>2. /\ h \in 1..n /\ i \in 1..n /\ \A k \in h..i : k \in 1..n
        /\ Len(f[h - 1]) \in Nat /\ d \in Int
    BY <1>1, <1>6, <1>10, <1>12, <2>1
  <2>3. ASSUME NEW k \in h..i
        PROVE  list[k] # "call"
    <3>1. list[i] # "call"
      BY <1>6, <1>12, <1>14
    <3>2. CASE h = i
      <4>1. k = i
        BY <2>2, <3>2
      <4> QED
        BY <3>1, <4>1
    <3>3. CASE Chain(list, h, i)
      <4>1. list[h] = "if" /\ \A m \in h+1..i-1 : list[m] = "elif"
        BY <3>3 DEF Chain
      <4>2. k = h \/ k = i \/ k \in h+1..i-1
        BY <2>2
      <4> QED
        BY <3>1, <4>1, <4>2
    <3> QED
      BY <2>1, <3>2, <3>3 DEF Begins
  <2>4. ASSUME NEW k \in h..i
        PROVE  ss[k] = <<list[k]>> /\ k \in 1..n /\ list[k] \in StepKinds
    BY <1>3, <1>4, <1>6, <2>2, <2>3
  <2>5. ASSUME NEW k \in h..i
        PROVE  Len(f[k]) = Len(f[k - 1]) + 1 /\ Len(f[k - 1]) \in Nat
    <3> DEFINE a == f[k - 1]
               c == list[k]
    <3>1. a \in Seq(StepKinds) /\ c \in StepKinds /\ f[k] = a \o <<c>>
      <4>1. k \in 1..n /\ k - 1 \in 0..n /\ ss[k] = <<c>> /\ c \in StepKinds
        BY <1>1, <2>4
      <4> QED
        BY <1>8, <4>1
    <3> HIDE DEF a, c
    <3>2. Len(a \o <<c>>) = Len(a) + 1 /\ Len(a) \in Nat
      BY <3>1
    <3> QED
      BY <3>1, <3>2 DEF a
  <2> HIDE DEF d
  <2>6. \A k \in h..i : Len(f[k - 1]) + 1 = k + d
    <3> DEFINE Bad == {k \in h..i : Len(f[k - 1]) + 1 # k + d}
    <3> SUFFICES ASSUME Bad # {} PROVE FALSE
      OBVIOUS
    <3>1. Bad \in SUBSET Nat
      BY <1>1, <2>2
    <3>2. PICK k \in Bad : \A m \in Bad : k <= m
      <4> HIDE DEF Bad
      <4> QED
        BY <3>1, NatMinimum
    <3>3. k \in h..i /\ Len(f[k - 1]) + 1 # k + d
      OBVIOUS
    <3>4. k # h
      BY <2>2, <3>3, SMTT(30) DEF d
    <3>5. k - 1 \in h..i
      BY <1>1, <2>2, <3>3, <3>4
    <3>6. k - 1 \notin Bad
      <4> HIDE DEF Bad
      <4> QED
        BY <1>1, <2>2, <3>2, <3>3
    <3>7. Len(f[(k - 1) - 1]) + 1 = (k - 1) + d
      BY <3>5, <3>6
    <3>8. Len(f[k - 1]) = Len(f[(k - 1) - 1]) + 1 /\ Len(f[(k - 1) - 1]) \in Nat
      BY <2>5, <3>5
    <3> QED
      BY <2>2, <3>3, <3>7, <3>8
  <2>7. ASSUME NEW k \in h..i
        PROVE  k + d \in DOMAIN kinds /\ kinds[k + d] = list[k] /\ written[k] = truth[k + d]
    <3>1. k \in 1..n /\ ss[k] = <<list[k]>> /\ 1 \in DOMAIN ss[k] /\ ss[k][1] = list[k]
      BY <2>4
    <3>2. 1 + Len(f[k - 1]) = k + d
      BY <2>5, <2>6
    <3>3. 1 + Len(f[k - 1]) \in DOMAIN kinds /\ kinds[1 + Len(f[k - 1])] = ss[k][1]
      BY <1>11, <3>1
    <3>4. written[k] = truth[Place(steps, k)]
      BY <1>1, <3>1
    <3> QED
      BY <1>10, <3>1, <3>2, <3>3, <3>4
  <2>8. ASSUME NEW k \in DOMAIN list PROVE truth[Place(steps, k)] \in BOOLEAN
    <3>1. k \in 1..n /\ Place(steps, k) = 1 + Len(f[k - 1])
      BY <1>6, <1>10
    <3>2. 1 \in DOMAIN ss[k]
      <4>1. ss[k] \in Seq(StepKinds) /\ ss[k] # <<>>
        <5>1. ss[k] = Inlined(steps[k]) /\ Inlined(steps[k]) \in Seq(StepKinds)
          BY <1>3, <1>4, <3>1
        <5>2. CASE steps[k].kind = "call"
          <6>1. ss[k] = steps[k].body /\ steps[k].body # <<>>
            BY <1>2, <1>3, <3>1, <5>1, <5>2
          <6> QED
            BY <5>1, <6>1
        <5>3. CASE steps[k].kind # "call"
          <6>1. ss[k] = <<steps[k].kind>>
            BY <1>3, <3>1, <5>1, <5>3
          <6>2. <<steps[k].kind>> # <<>>
            OBVIOUS
          <6> QED
            BY <5>1, <6>1, <6>2
        <5> QED
          BY <5>1, <5>2, <5>3
      <4> QED
        BY <4>1
    <3>3. 1 + Len(f[k - 1]) \in DOMAIN kinds
      BY <1>11, <3>1, <3>2
    <3> QED
      BY <1>9, <3>1, <3>3
  <2>9. written \in [DOMAIN list -> BOOLEAN]
    BY <1>1, <1>6, <2>8
  <2> HIDE DEF written
  <2>10. i \in DOMAIN list /\ h \in DOMAIN list /\ Begins(list, h, i) /\ h <= i /\ d \in Int
    BY <1>6, <2>1, <2>2
  <2>11. i + d \in Executed(kinds, truth) <=> i \in ReferenceRuns(list, written)
    BY <1>6, <1>9, <2>7, <2>9, <2>10, OccurrenceAgrees
  <2>12. first = i + d
    <3>1. i \in h..i
      BY <2>1, <2>2
    <3> QED
      BY <1>12, <2>5, <2>6, <3>1
  <2> QED
    BY <2>11, <2>12
<1> QED
  BY <1>13, <1>14 DEF kinds, list

----------------------------------------------------------------------------
(* Conditions.  The parser as a table of what it finds at each position, and *)
(* the grammar as a table of what each span of tokens means.  The parser is  *)
(* right in both directions: what it finds is a meaning of the span it       *)
(* passed, and it finds every meaning of a span that nothing behind could    *)
(* continue, so a list has at most one.                                      *)

\* A list of tokens.
Listed(tokens) == Len(tokens) \in Nat /\ DOMAIN tokens = 1..Len(tokens)

\* r is a result of parsing from i: a failure, or a value and a later position.
IsResult(r, i, n) ==
  r = Failed \/ \E b \in BOOLEAN, e \in i + 1..n + 1 : r = Parsed(b, e)

\* A failure is none of the results that hold a value.
LEMMA FailedIs == ~Failed.ok
BY DEF Failed

\* The parts of a result.
LEMMA ParsedIs ==
  ASSUME NEW b, NEW e
  PROVE  Parsed(b, e).ok /\ Parsed(b, e).true = b /\ Parsed(b, e).end = e
BY DEF Parsed

\* A result has succeeded, with a value and a later position, or it is the failure.
LEMMA ResultIs ==
  ASSUME NEW r, NEW i, NEW n, IsResult(r, i, n)
  PROVE  /\ r.ok \in BOOLEAN /\ (~r.ok <=> r = Failed)
         /\ r.ok => r.true \in BOOLEAN /\ r.end \in i + 1..n + 1 /\ r = Parsed(r.true, r.end)
<1>1. CASE r = Failed
  BY <1>1 DEF Failed
<1>2. CASE \E b \in BOOLEAN, e \in i + 1..n + 1 : r = Parsed(b, e)
  <2>1. PICK b \in BOOLEAN, e \in i + 1..n + 1 : r = Parsed(b, e)
    BY <1>2
  <2>2. r.ok /\ r.true = b /\ r.end = e
    BY <2>1, ParsedIs
  <2>3. r.ok \in BOOLEAN
    BY <2>1 DEF Parsed
  <2> QED
    BY <2>1, <2>2, <2>3, FailedIs
<1> QED
  BY <1>1, <1>2 DEF IsResult

\* What has another kind than the end of the list is a position of it.
LEMMA KindIn ==
  ASSUME NEW tokens, Listed(tokens), NEW i, KindAt(tokens, i) # "end"
  PROVE  i \in 1..Len(tokens)
BY DEF KindAt, Listed

\* What a parser finds at the positions behind i.
Behind(f, i, n) ==
  \A k \in i + 1..n + 1 :
    IsResult(f[k].or, k, n) /\ IsResult(f[k].and, k, n) /\ IsResult(f[k].unary, k, n)

\* What parsePrimary finds depends on the later positions alone.
LEMMA PrimaryLocal ==
  ASSUME NEW tokens, NEW env, NEW f, NEW g, NEW i \in 1..Len(tokens) + 1, Listed(tokens),
         Behind(f, i, Len(tokens)), \A k \in i + 1..Len(tokens) + 1 : g[k] = f[k]
  PROVE  /\ ParsePrimary(tokens, env, g, i) = ParsePrimary(tokens, env, f, i)
         /\ IsResult(ParsePrimary(tokens, env, f, i), i, Len(tokens))
<1> DEFINE n == Len(tokens)
           text(k) == Resolve(tokens[k], env)
<1>0. n \in Nat /\ DOMAIN tokens = 1..n
  BY DEF Listed
<1>1. CASE KindAt(tokens, i) = "("
  <2>1. i \in 1..n /\ i + 1 \in i + 1..n + 1
    BY <1>0, <1>1, KindIn
  <2> DEFINE r == f[i + 1].or
  <2>2. g[i + 1].or = r /\ IsResult(r, i + 1, n)
    BY <2>1 DEF Behind
  <2>3. /\ ParsePrimary(tokens, env, f, i)
             = IF r.ok /\ KindAt(tokens, r.end) = ")" THEN Parsed(r.true, r.end + 1) ELSE Failed
        /\ ParsePrimary(tokens, env, g, i) = ParsePrimary(tokens, env, f, i)
    <3>0. ~ValueAt(tokens, i)
      BY <1>1 DEF ValueAt, KindAt, IsValue
    <3>1. g[i + 1].or = f[i + 1].or
      BY <2>2
    <3>2. ParsePrimary(tokens, env, f, i)
            = IF r.ok /\ KindAt(tokens, r.end) = ")" THEN Parsed(r.true, r.end + 1) ELSE Failed
      BY ONLY <1>1, <3>0 DEF ParsePrimary
    <3>3. ParsePrimary(tokens, env, g, i)
            = IF r.ok /\ KindAt(tokens, r.end) = ")" THEN Parsed(r.true, r.end + 1) ELSE Failed
      BY ONLY <1>1, <3>0, <3>1 DEF ParsePrimary
    <3> QED
      BY <3>2, <3>3
  <2>4. ASSUME r.ok, KindAt(tokens, r.end) = ")" PROVE r.true \in BOOLEAN /\ r.end + 1 \in i + 1..n + 1
    <3>1. r.true \in BOOLEAN /\ r.end \in i + 1 + 1..n + 1
      BY <2>2, <2>4, ResultIs
    <3>2. r.end \in 1..n
      BY <1>0, <2>4, KindIn
    <3> QED
      BY <1>0, <3>1, <3>2
  <2> QED
    BY <2>3, <2>4 DEF IsResult
<1>2. CASE KindAt(tokens, i) # "(" /\ ValueAt(tokens, i) /\ KindAt(tokens, i + 1) \in {"eq", "ne"}
  <2>1. /\ ParsePrimary(tokens, env, f, i)
             = IF ValueAt(tokens, i + 2)
               THEN Parsed((text(i) = text(i + 2)) <=> (KindAt(tokens, i + 1) = "eq"), i + 3)
               ELSE Failed
        /\ ParsePrimary(tokens, env, g, i) = ParsePrimary(tokens, env, f, i)
    BY <1>2 DEF ParsePrimary
  <2>2. ValueAt(tokens, i + 2) => i + 3 \in i + 1..n + 1
    BY <1>0 DEF ValueAt
  <2> DEFINE b == (text(i) = text(i + 2)) <=> (KindAt(tokens, i + 1) = "eq")
  <2>3. b \in BOOLEAN
    OBVIOUS
  <2> HIDE DEF b
  <2> QED
    BY <2>1, <2>2, <2>3 DEF IsResult, b
<1>3. CASE KindAt(tokens, i) # "(" /\ ValueAt(tokens, i) /\ KindAt(tokens, i + 1) \notin {"eq", "ne"}
  <2>1. /\ ParsePrimary(tokens, env, f, i) = Parsed(Truthy(text(i)), i + 1)
        /\ ParsePrimary(tokens, env, g, i) = ParsePrimary(tokens, env, f, i)
    BY <1>3 DEF ParsePrimary
  <2>2. i + 1 \in i + 1..n + 1
    BY <1>0, <1>3 DEF ValueAt
  <2>3. Truthy(text(i)) \in BOOLEAN
    BY DEF Truthy
  <2> QED
    BY <2>1, <2>2, <2>3 DEF IsResult
<1>4. CASE KindAt(tokens, i) # "(" /\ ~ValueAt(tokens, i)
  <2>1. /\ ParsePrimary(tokens, env, f, i) = Failed
        /\ ParsePrimary(tokens, env, g, i) = Failed
    BY <1>4 DEF ParsePrimary
  <2> QED
    BY <2>1 DEF IsResult
<1> QED
  BY <1>1, <1>2, <1>3, <1>4

\* A property of numbers that has no first exception has none.
LEMMA Upwards ==
  ASSUME NEW Bad \in SUBSET Nat,
         \A n \in Nat : (\A i \in 0..n - 1 : i \notin Bad) => n \notin Bad
  PROVE  Bad = {}
<1> SUFFICES ASSUME Bad # {} PROVE FALSE
  OBVIOUS
<1>1. PICK x \in Bad : \A y \in Bad : x <= y
  BY NatMinimum
<1>2. \A i \in 0..x - 1 : i \notin Bad
  BY <1>1
<1> QED
  BY <1>1, <1>2

\* So does what parseUnary finds.
LEMMA UnaryLocal ==
  ASSUME NEW tokens, NEW env, NEW f, NEW g, NEW i \in 1..Len(tokens) + 1, Listed(tokens),
         Behind(f, i, Len(tokens)), \A k \in i + 1..Len(tokens) + 1 : g[k] = f[k]
  PROVE  /\ ParseUnary(tokens, env, g, i) = ParseUnary(tokens, env, f, i)
         /\ IsResult(ParseUnary(tokens, env, f, i), i, Len(tokens))
<1> DEFINE n == Len(tokens)
<1>0. n \in Nat /\ DOMAIN tokens = 1..n
  BY DEF Listed
<1>1. CASE KindAt(tokens, i) # "not"
  BY <1>1, PrimaryLocal DEF ParseUnary
<1>2. CASE KindAt(tokens, i) = "not"
  <2>1. i \in 1..n /\ i + 1 \in i + 1..n + 1
    BY <1>0, <1>2, KindIn
  <2> DEFINE x == f[i + 1].unary
  <2>2. g[i + 1].unary = x /\ IsResult(x, i + 1, n)
    BY <2>1 DEF Behind
  <2>3. /\ ParseUnary(tokens, env, f, i) = IF x.ok THEN Parsed(~x.true, x.end) ELSE Failed
        /\ ParseUnary(tokens, env, g, i) = ParseUnary(tokens, env, f, i)
    BY <1>2, <2>2 DEF ParseUnary, Negates
  <2>4. ASSUME x.ok PROVE (~x.true) \in BOOLEAN /\ x.end \in i + 1..n + 1
    <3>1. x.end \in i + 1 + 1..n + 1
      BY <2>2, <2>4, ResultIs
    <3> QED
      BY <1>0, <3>1
  <2> QED
    BY <2>3, <2>4 DEF IsResult
<1> QED
  BY <1>1, <1>2

\* What parseAnd finds.
LEMMA AndLocal ==
  ASSUME NEW tokens, NEW env, NEW f, NEW g, NEW i \in 1..Len(tokens) + 1, Listed(tokens),
         Behind(f, i, Len(tokens)), \A k \in i + 1..Len(tokens) + 1 : g[k] = f[k]
  PROVE  /\ ParseAnd(tokens, env, g, i) = ParseAnd(tokens, env, f, i)
         /\ IsResult(ParseAnd(tokens, env, f, i), i, Len(tokens))
<1> DEFINE n == Len(tokens)
           l == ParseUnary(tokens, env, f, i)
           r == f[l.end + 1].and
<1>0. n \in Nat /\ DOMAIN tokens = 1..n
  BY DEF Listed
<1>1. ParseUnary(tokens, env, g, i) = l /\ IsResult(l, i, n)
  BY UnaryLocal
<1>2. CASE ~l.ok \/ KindAt(tokens, l.end) # "and"
  <2>1. ParseAnd(tokens, env, f, i) = l /\ ParseAnd(tokens, env, g, i) = l
    BY <1>1, <1>2 DEF ParseAnd
  <2> QED
    BY <1>1, <2>1
<1>3. CASE l.ok /\ KindAt(tokens, l.end) = "and"
  <2>1. l.true \in BOOLEAN /\ l.end \in i + 1..n + 1
    BY <1>1, <1>3, ResultIs
  <2>2. l.end \in 1..n
    BY <1>3, KindIn
  <2>3. l.end + 1 \in i + 1..n + 1
    BY <1>0, <2>1, <2>2
  <2>4. g[l.end + 1].and = r /\ IsResult(r, l.end + 1, n)
    BY <2>3 DEF Behind
  <2>5. /\ ParseAnd(tokens, env, f, i) = IF r.ok THEN Parsed(l.true /\ r.true, r.end) ELSE Failed
        /\ ParseAnd(tokens, env, g, i) = IF r.ok THEN Parsed(l.true /\ r.true, r.end) ELSE Failed
    <3> HIDE DEF l
    <3>1. g[l.end + 1].and = f[l.end + 1].and
      BY <2>4
    <3>2. ParseUnary(tokens, env, f, i) = l /\ ParseUnary(tokens, env, g, i) = l
      BY <1>1 DEF l
    <3> QED
      BY ONLY <1>3, <3>1, <3>2 DEF ParseAnd
  <2>6. ASSUME r.ok PROVE (l.true /\ r.true) \in BOOLEAN /\ r.end \in i + 1..n + 1
    <3> HIDE DEF l, r, n
    <3>1. r.end \in l.end + 1 + 1..n + 1
      BY <2>4, <2>6, ResultIs
    <3> QED
      BY <1>0, <2>1, <3>1
  <2> DEFINE b == l.true /\ r.true
  <2> HIDE DEF l, r, b
  <2>7. ParseAnd(tokens, env, f, i) = (IF r.ok THEN Parsed(b, r.end) ELSE Failed)
    BY <2>5 DEF b
  <2>8. r.ok => b \in BOOLEAN /\ r.end \in i + 1..n + 1
    BY <2>6 DEF b
  <2>9. ParseAnd(tokens, env, g, i) = ParseAnd(tokens, env, f, i)
    BY <2>5
  <2> QED
    BY <2>7, <2>8, <2>9 DEF IsResult
<1> QED
  BY <1>2, <1>3

\* And what parseOr finds.
LEMMA OrLocal ==
  ASSUME NEW tokens, NEW env, NEW f, NEW g, NEW i \in 1..Len(tokens) + 1, Listed(tokens),
         Behind(f, i, Len(tokens)), \A k \in i + 1..Len(tokens) + 1 : g[k] = f[k]
  PROVE  /\ ParseOr(tokens, env, g, i) = ParseOr(tokens, env, f, i)
         /\ IsResult(ParseOr(tokens, env, f, i), i, Len(tokens))
<1> DEFINE n == Len(tokens)
           l == ParseAnd(tokens, env, f, i)
           r == f[l.end + 1].or
<1>0. n \in Nat /\ DOMAIN tokens = 1..n
  BY DEF Listed
<1>1. ParseAnd(tokens, env, g, i) = l /\ IsResult(l, i, n)
  BY AndLocal
<1>2. CASE ~l.ok \/ KindAt(tokens, l.end) # "or"
  <2>1. ParseOr(tokens, env, f, i) = l /\ ParseOr(tokens, env, g, i) = l
    BY <1>1, <1>2 DEF ParseOr
  <2> QED
    BY <1>1, <2>1
<1>3. CASE l.ok /\ KindAt(tokens, l.end) = "or"
  <2>1. l.true \in BOOLEAN /\ l.end \in i + 1..n + 1
    BY <1>1, <1>3, ResultIs
  <2>2. l.end \in 1..n
    BY <1>3, KindIn
  <2>3. l.end + 1 \in i + 1..n + 1
    BY <1>0, <2>1, <2>2
  <2>4. g[l.end + 1].or = r /\ IsResult(r, l.end + 1, n)
    BY <2>3 DEF Behind
  <2>5. /\ ParseOr(tokens, env, f, i) = IF r.ok THEN Parsed(l.true \/ r.true, r.end) ELSE Failed
        /\ ParseOr(tokens, env, g, i) = IF r.ok THEN Parsed(l.true \/ r.true, r.end) ELSE Failed
    <3> HIDE DEF l
    <3>1. g[l.end + 1].or = f[l.end + 1].or
      BY <2>4
    <3>2. ParseAnd(tokens, env, f, i) = l /\ ParseAnd(tokens, env, g, i) = l
      BY <1>1 DEF l
    <3> QED
      BY ONLY <1>3, <3>1, <3>2 DEF ParseOr
  <2>6. ASSUME r.ok PROVE (l.true \/ r.true) \in BOOLEAN /\ r.end \in i + 1..n + 1
    <3> HIDE DEF l, r, n
    <3>1. r.end \in l.end + 1 + 1..n + 1
      BY <2>4, <2>6, ResultIs
    <3> QED
      BY <1>0, <2>1, <3>1
  <2> DEFINE b == l.true \/ r.true
  <2> HIDE DEF l, r, b
  <2>7. ParseOr(tokens, env, f, i) = (IF r.ok THEN Parsed(b, r.end) ELSE Failed)
    BY <2>5 DEF b
  <2>8. r.ok => b \in BOOLEAN /\ r.end \in i + 1..n + 1
    BY <2>6 DEF b
  <2>9. ParseOr(tokens, env, g, i) = ParseOr(tokens, env, f, i)
    BY <2>5
  <2> QED
    BY <2>7, <2>8, <2>9 DEF IsResult
<1> QED
  BY <1>2, <1>3

\* What a parser that has the table f of later positions enters for position i.
Entry(tokens, env, f, i) ==
  [or    |-> ParseOr(tokens, env, f, i),
   and   |-> ParseAnd(tokens, env, f, i),
   unary |-> ParseUnary(tokens, env, f, i)]

\* Hence the whole entry.
LEMMA EntryLocal ==
  ASSUME NEW tokens, NEW env, NEW f, NEW g, NEW i \in 1..Len(tokens) + 1, Listed(tokens),
         Behind(f, i, Len(tokens)), \A k \in i + 1..Len(tokens) + 1 : g[k] = f[k]
  PROVE  /\ Entry(tokens, env, g, i) = Entry(tokens, env, f, i)
         /\ IsResult(Entry(tokens, env, f, i).or, i, Len(tokens))
         /\ IsResult(Entry(tokens, env, f, i).and, i, Len(tokens))
         /\ IsResult(Entry(tokens, env, f, i).unary, i, Len(tokens))
BY UnaryLocal, AndLocal, OrLocal DEF Entry

\* f is the parser of the list.
IsParser(f, tokens, env) ==
  /\ ParserOf(tokens, env) = f
  /\ Behind(f, 0, Len(tokens))
  /\ \A i \in 1..Len(tokens) + 1 : /\ f[i].or = ParseOr(tokens, env, f, i)
                                   /\ f[i].and = ParseAnd(tokens, env, f, i)
                                   /\ f[i].unary = ParseUnary(tokens, env, f, i)

\* The recursion of the four methods ends: it has a solution, and that is the parser.
LEMMA ParserExists ==
  ASSUME NEW tokens, NEW env, Listed(tokens)
  PROVE  \E f : IsParser(f, tokens, env)
<1> DEFINE n == Len(tokens)
           Solves(f, m) == /\ DOMAIN f = n + 1 - m..n + 1
                           /\ f = [i \in n + 1 - m..n + 1 |-> Entry(tokens, env, f, i)]
                           /\ Behind(f, n - m, n)
           Bad == {m \in Nat : m \in 0..n /\ ~ \E f : Solves(f, m)}
<1>0. n \in Nat
  BY DEF Listed
<1>1. \E f : Solves(f, 0)
  <2> DEFINE e == Entry(tokens, env, <<>>, n + 1)
             f == [i \in n + 1..n + 1 |-> e]
  <2>1. Behind(<<>>, n + 1, n) /\ Behind(f, n + 1, n)
    BY <1>0 DEF Behind
  <2>2. \A k \in n + 1 + 1..Len(tokens) + 1 : f[k] = <<>>[k]
    BY <1>0
  <2>3. /\ Entry(tokens, env, f, n + 1) = e
        /\ IsResult(e.or, n + 1, n) /\ IsResult(e.and, n + 1, n) /\ IsResult(e.unary, n + 1, n)
    <3> HIDE DEF f
    <3>1. n + 1 \in 1..Len(tokens) + 1
      BY <1>0
    <3> QED
      BY ONLY <2>1, <2>2, <3>1, Listed(tokens), EntryLocal
  <2>4. f[n + 1] = e /\ DOMAIN f = n + 1..n + 1
    BY <1>0
  <2>5. Behind(f, n, n)
    <3> HIDE DEF e, f
    <3> QED
      BY <1>0, <2>3, <2>4, SMTT(30) DEF Behind
  <2>6. f = [i \in n + 1..n + 1 |-> Entry(tokens, env, f, i)]
    <3>1. \A i \in n + 1..n + 1 : e = Entry(tokens, env, f, i)
      <4> HIDE DEF e, f
      <4> QED
        BY <1>0, <2>3
    <3> HIDE DEF e
    <3> QED
      BY <3>1
  <2>7. Solves(f, 0)
    <3> HIDE DEF e, f
    <3> QED
      BY <1>0, <2>4, <2>5, <2>6
  <2> QED
    BY <2>7
<1>2. ASSUME NEW m \in Nat, \A i \in 0..m - 1 : i \notin Bad PROVE m \notin Bad
  <2> SUFFICES ASSUME m \in 1..n PROVE \E f : Solves(f, m)
    <3> HIDE DEF Solves
    <3>1. m = 0 => m \notin Bad
      BY <1>1
    <3>2. m \notin 0..n => m \notin Bad
      OBVIOUS
    <3>3. m = 0 \/ m \notin 0..n \/ m \in 1..n
      BY <1>0
    <3> QED
      BY <3>1, <3>2, <3>3
  <2>1. m - 1 \in 0..m - 1 /\ m - 1 \in Nat /\ m - 1 \in 0..n
    BY <1>0
  <2>2. PICK f : Solves(f, m - 1)
    BY <1>2, <2>1
  <2> DEFINE j == n + 1 - m
             e == Entry(tokens, env, f, j)
             g == [i \in j..n + 1 |-> IF i = j THEN e ELSE f[i]]
  <2>3. j \in 1..n /\ n + 1 - (m - 1) = j + 1 /\ n - (m - 1) = j /\ n - m = j - 1
    BY <1>0
  <2> HIDE DEF j, e
  <2>4. Behind(f, j, n) /\ f = [i \in j + 1..n + 1 |-> Entry(tokens, env, f, i)]
    BY <2>2, <2>3
  <2>5. g[j] = e /\ DOMAIN g = j..n + 1 /\ \A k \in j + 1..n + 1 : g[k] = f[k]
    BY <1>0, <2>3
  <2>6. IsResult(e.or, j, n) /\ IsResult(e.and, j, n) /\ IsResult(e.unary, j, n)
    <3>1. j \in 1..Len(tokens) + 1
      BY <1>0, <2>3
    <3>2. \A k \in j + 1..Len(tokens) + 1 : f[k] = f[k]
      OBVIOUS
    <3> QED
      BY ONLY <2>4, <3>1, <3>2, Listed(tokens), EntryLocal DEF e
  <2> HIDE DEF g
  <2>7. Behind(g, j - 1, n)
    BY <1>0, <2>3, <2>4, <2>5, <2>6 DEF Behind
  <2>8. ASSUME NEW i \in j..n + 1 PROVE g[i] = Entry(tokens, env, g, i)
    <3>1. i \in 1..Len(tokens) + 1
      BY <1>0, <2>3
    <3>2. Behind(f, i, Len(tokens))
      BY <1>0, <2>3, <2>4 DEF Behind
    <3>3. \A k \in i + 1..Len(tokens) + 1 : g[k] = f[k]
      BY <1>0, <2>3, <2>5
    <3>4. Entry(tokens, env, g, i) = Entry(tokens, env, f, i)
      BY ONLY <3>1, <3>2, <3>3, Listed(tokens), EntryLocal
    <3>5. CASE i = j
      BY <2>5, <3>4, <3>5 DEF e
    <3>6. CASE i # j
      <4>1. i \in j + 1..n + 1
        BY <1>0, <2>3, <3>6
      <4> QED
        BY <2>4, <2>5, <3>4, <4>1
    <3> QED
      BY <3>5, <3>6
  <2>9. g = [i \in j..n + 1 |-> Entry(tokens, env, g, i)]
    <3>1. g = [i \in j..n + 1 |-> IF i = j THEN e ELSE f[i]]
      BY DEF g
    <3>2. g = [i \in j..n + 1 |-> g[i]]
      BY <3>1
    <3> QED
      BY <2>8, <3>2
  <2>10. j = n + 1 - m
    BY DEF j
  <2>11. Solves(g, m)
    BY <2>3, <2>5, <2>7, <2>9, <2>10
  <2> QED
    BY <2>11
<1>3. \A m \in 0..n : \E f : Solves(f, m)
  <2>1. Bad = {}
    <3>1. Bad \in SUBSET Nat
      OBVIOUS
    <3> HIDE DEF Bad
    <3> QED
      BY <1>2, <3>1, Upwards
  <2> QED
    BY <1>0, <2>1
<1>4. PICK f : Solves(f, n)
  BY <1>0, <1>3
<1>5. n + 1 - n = 1 /\ n - n = 0
  BY <1>0
<1> DEFINE Eq(h) == h = [i \in 1..Len(tokens) + 1 |->
                           [or    |-> ParseOr(tokens, env, h, i),
                            and   |-> ParseAnd(tokens, env, h, i),
                            unary |-> ParseUnary(tokens, env, h, i)]]
<1>6. Eq(f)
  BY <1>4, <1>5 DEF Entry
<1>7. ParserOf(tokens, env) = CHOOSE h : Eq(h)
  BY DEF ParserOf
<1> DEFINE p == CHOOSE h : Eq(h)
<1>8. Eq(p)
  <2> HIDE DEF Eq
  <2> QED
    BY <1>6
<1> HIDE DEF p
<1>9. \A i \in 1..Len(tokens) + 1 : p[i] = Entry(tokens, env, p, i)
  BY <1>8 DEF Entry
<1> DEFINE Wrong == {m \in Nat : m \in 0..n /\ ~Behind(p, n - m, n)}
<1>10. ASSUME NEW m \in Nat, \A i \in 0..m - 1 : i \notin Wrong PROVE m \notin Wrong
  <2> SUFFICES ASSUME m \in 0..n PROVE Behind(p, n - m, n)
    OBVIOUS
  <2> DEFINE j == n - m + 1
  <2>1. j \in 1..n + 1 /\ n - m = j - 1 /\ m = n + 1 - j
    BY <1>0
  <2> HIDE DEF j
  <2>2. Behind(p, j, n)
    <3>1. CASE m = 0
      BY <1>0, <2>1, <3>1 DEF Behind
    <3>2. CASE m # 0
      <4>1. m - 1 \in 0..m - 1 /\ m - 1 \in Nat /\ m - 1 \in 0..n /\ n - (m - 1) = j
        BY <1>0, <2>1, <3>2
      <4> QED
        BY <1>10, <4>1
    <3> QED
      BY <3>1, <3>2
  <2>3. \A k \in j + 1..Len(tokens) + 1 : p[k] = p[k]
    OBVIOUS
  <2>4. IsResult(p[j].or, j, n) /\ IsResult(p[j].and, j, n) /\ IsResult(p[j].unary, j, n)
    BY ONLY <1>9, <2>1, <2>2, <2>3, Listed(tokens), EntryLocal
  <2> QED
    BY <1>0, <2>1, <2>2, <2>4 DEF Behind
<1>11. Behind(p, 0, n)
  <2>1. Wrong = {}
    <3>1. Wrong \in SUBSET Nat
      OBVIOUS
    <3> HIDE DEF Wrong
    <3> QED
      BY <1>10, <3>1, Upwards
  <2>2. n \notin Wrong
    BY <2>1
  <2> QED
    BY <1>0, <1>5, <2>2
<1>12. IsParser(p, tokens, env)
  <2>1. ParserOf(tokens, env) = p
    BY <1>7 DEF p
  <2>2. ASSUME NEW i \in 1..Len(tokens) + 1
        PROVE  /\ p[i].or = ParseOr(tokens, env, p, i)
               /\ p[i].and = ParseAnd(tokens, env, p, i)
               /\ p[i].unary = ParseUnary(tokens, env, p, i)
    <3>1. p[i] = Entry(tokens, env, p, i)
      BY <1>9
    <3> QED
      BY ONLY <3>1 DEF Entry
  <2> QED
    BY <1>11, <2>1, <2>2 DEF IsParser
<1> QED
  BY <1>12

\* The two tables agree on the spans inside i..j.
Alike(d, e, i, j) == \A h, k \in i..j : h <= k /\ k - h < j - i => d[<<h, k>>] = e[<<h, k>>]

\* What a table d of shorter spans makes of the span i..j.
Meant(tokens, env, d, i, j) ==
  [or    |-> MeansOr(tokens, env, d, i, j),
   and   |-> MeansAnd(tokens, env, d, i, j),
   unary |-> MeansUnary(tokens, env, d, i, j)]

\* What a span means depends on the shorter spans inside it alone.
LEMMA MeantLocal ==
  ASSUME NEW tokens, NEW env, NEW d, NEW e, NEW i \in Nat, NEW j \in Nat, i <= j, Alike(d, e, i, j)
  PROVE  Meant(tokens, env, d, i, j) = Meant(tokens, env, e, i, j)
<1>1. MeansPrimary(tokens, env, d, i, j) = MeansPrimary(tokens, env, e, i, j)
  <2>1. i + 1 < j => d[<<i + 1, j - 1>>] = e[<<i + 1, j - 1>>]
    BY DEF Alike
  <2> QED
    BY <2>1, Zenon DEF MeansPrimary
<1>2. MeansUnary(tokens, env, d, i, j) = MeansUnary(tokens, env, e, i, j)
  <2>1. i < j => d[<<i + 1, j>>] = e[<<i + 1, j>>]
    BY DEF Alike
  <2> QED
    BY <1>1, <2>1, Zenon DEF MeansUnary
<1>3. ASSUME NEW kind, NEW k \in Splits(tokens, kind, i, j)
      PROVE  d[<<i, k - 1>>] = e[<<i, k - 1>>] /\ d[<<k + 1, j>>] = e[<<k + 1, j>>]
  BY DEF Splits, Alike
<1>4. MeansAnd(tokens, env, d, i, j) = MeansAnd(tokens, env, e, i, j)
  <2> DEFINE both(f, k) == {p /\ q : p \in f[<<i, k - 1>>].and, q \in f[<<k + 1, j>>].unary}
  <2>1. \A k \in Splits(tokens, "and", i, j) : both(d, k) = both(e, k)
    BY <1>3
  <2>2. {both(d, k) : k \in Splits(tokens, "and", i, j)} = {both(e, k) : k \in Splits(tokens, "and", i, j)}
    <3> HIDE DEF both
    <3> QED
      BY <2>1
  <2>3. MeansAnd(tokens, env, d, i, j)
          = MeansUnary(tokens, env, d, i, j) \cup UNION {both(d, k) : k \in Splits(tokens, "and", i, j)}
    BY DEF MeansAnd
  <2>4. MeansAnd(tokens, env, e, i, j)
          = MeansUnary(tokens, env, e, i, j) \cup UNION {both(e, k) : k \in Splits(tokens, "and", i, j)}
    BY DEF MeansAnd
  <2> HIDE DEF both
  <2> QED
    BY <1>2, <2>2, <2>3, <2>4
<1>5. MeansOr(tokens, env, d, i, j) = MeansOr(tokens, env, e, i, j)
  <2> DEFINE both(f, k) == {p \/ q : p \in f[<<i, k - 1>>].or, q \in f[<<k + 1, j>>].and}
  <2>1. \A k \in Splits(tokens, "or", i, j) : both(d, k) = both(e, k)
    BY <1>3
  <2>2. {both(d, k) : k \in Splits(tokens, "or", i, j)} = {both(e, k) : k \in Splits(tokens, "or", i, j)}
    <3> HIDE DEF both
    <3> QED
      BY <2>1
  <2>3. MeansOr(tokens, env, d, i, j)
          = MeansAnd(tokens, env, d, i, j) \cup UNION {both(d, k) : k \in Splits(tokens, "or", i, j)}
    BY DEF MeansOr
  <2>4. MeansOr(tokens, env, e, i, j)
          = MeansAnd(tokens, env, e, i, j) \cup UNION {both(e, k) : k \in Splits(tokens, "or", i, j)}
    BY DEF MeansOr
  <2> HIDE DEF both
  <2> QED
    BY <1>4, <2>2, <2>3, <2>4
<1> QED
  BY <1>2, <1>4, <1>5 DEF Meant

\* d is the table of what the spans of the list mean.
IsSpans(d, tokens, env) ==
  /\ SpansOf(tokens, env) = d
  /\ \A i, j \in 1..Len(tokens) : i <= j =>
       /\ d[<<i, j>>].or = MeansOr(tokens, env, d, i, j)
       /\ d[<<i, j>>].and = MeansAnd(tokens, env, d, i, j)
       /\ d[<<i, j>>].unary = MeansUnary(tokens, env, d, i, j)

\* The grammar's recursion has a solution too.
LEMMA SpansExist ==
  ASSUME NEW tokens, NEW env, Listed(tokens)
  PROVE  \E d : IsSpans(d, tokens, env)
<1> DEFINE n == Len(tokens)
           S == Spans(tokens)
           Solves(d, m) == \A i, j \in 1..n : i <= j /\ j - i < m =>
                              d[<<i, j>>] = Meant(tokens, env, d, i, j)
           Bad == {m \in Nat : ~ \E d : DOMAIN d = S /\ d = [s \in S |-> d[s]] /\ Solves(d, m)}
<1>0. n \in Nat /\ DOMAIN tokens = 1..n
  BY DEF Listed
<1>1. \A i, j \in 1..n : i <= j <=> <<i, j>> \in S
  BY <1>0 DEF Spans
<1>s. \A s \in S : s = <<s[1], s[2]>> /\ s[1] \in 1..n /\ s[2] \in 1..n /\ s[1] <= s[2]
  BY <1>0 DEF Spans
<1> HIDE DEF S
<1>2. ASSUME NEW m \in Nat, \A i \in 0..m - 1 : i \notin Bad PROVE m \notin Bad
  <2>1. CASE m = 0
    <3> DEFINE d == [s \in S |-> {}]
    <3>1. DOMAIN d = S /\ d = [s \in S |-> d[s]]
      OBVIOUS
    <3> HIDE DEF d
    <3>2. Solves(d, m)
      BY <1>0, <2>1
    <3> HIDE DEF Solves
    <3> QED
      BY <3>1, <3>2
  <2>2. CASE m # 0
    <3>1. m - 1 \in 0..m - 1 /\ m - 1 \in Nat
      BY <2>2
    <3>2. PICK d : Solves(d, m - 1)
      BY <1>2, <3>1
    <3> DEFINE g == [s \in S |-> IF s[2] - s[1] < m - 1 THEN d[s] ELSE Meant(tokens, env, d, s[1], s[2])]
    <3>3. DOMAIN g = S /\ g = [s \in S |-> g[s]]
      OBVIOUS
    <3>4. ASSUME NEW i \in 1..n, NEW j \in 1..n, i <= j
          PROVE  /\ j - i < m - 1 => g[<<i, j>>] = d[<<i, j>>]
                 /\ ~(j - i < m - 1) => g[<<i, j>>] = Meant(tokens, env, d, i, j)
      <4>1. <<i, j>> \in S
        BY <1>1, <3>4
      <4> QED
        BY <4>1
    <3> HIDE DEF g
    <3>5. ASSUME NEW i \in 1..n, NEW j \in 1..n, i <= j, j - i < m
          PROVE  g[<<i, j>>] = Meant(tokens, env, g, i, j)
      <4>1. Alike(g, d, i, j)
        <5> SUFFICES ASSUME NEW h \in i..j, NEW k \in i..j, h <= k, k - h < j - i
                     PROVE  g[<<h, k>>] = d[<<h, k>>]
          BY DEF Alike
        <5>1. h \in 1..n /\ k \in 1..n /\ k - h < m - 1
          BY <1>0, <3>5
        <5> QED
          BY <3>4, <5>1
      <4>2. Meant(tokens, env, g, i, j) = Meant(tokens, env, d, i, j)
        BY <1>0, <3>5, <4>1, MeantLocal
      <4>3. CASE j - i < m - 1
        BY <3>2, <3>4, <3>5, <4>2, <4>3
      <4>4. CASE ~(j - i < m - 1)
        BY <3>4, <3>5, <4>2, <4>4
      <4> QED
        BY <4>3, <4>4
    <3>6. Solves(g, m)
      BY <3>5
    <3> HIDE DEF Solves
    <3> QED
      BY <3>3, <3>6
  <2> QED
    BY <2>1, <2>2
<1>3. PICK d : DOMAIN d = S /\ d = [s \in S |-> d[s]] /\ Solves(d, n)
  <2>1. Bad = {}
    <3>1. Bad \in SUBSET Nat
      OBVIOUS
    <3> HIDE DEF Bad
    <3> QED
      BY <1>2, <3>1, Upwards
  <2>2. n \notin Bad
    BY <2>1
  <2> HIDE DEF Solves
  <2> QED
    BY <1>0, <2>2
<1> DEFINE Eq(f) == f = [s \in Spans(tokens) |->
                           [or    |-> MeansOr(tokens, env, f, s[1], s[2]),
                            and   |-> MeansAnd(tokens, env, f, s[1], s[2]),
                            unary |-> MeansUnary(tokens, env, f, s[1], s[2])]]
<1>4. Eq(d)
  <2>1. ASSUME NEW s \in S PROVE d[s] = Meant(tokens, env, d, s[1], s[2])
    <3>1. s[1] \in 1..n /\ s[2] \in 1..n /\ s[1] <= s[2] /\ s[2] - s[1] < n /\ s = <<s[1], s[2]>>
      BY <1>0, <1>s
    <3> DEFINE i == s[1]
               j == s[2]
    <3> HIDE DEF i, j
    <3>2. i \in 1..n /\ j \in 1..n /\ i <= j /\ j - i < n /\ s = <<i, j>>
      BY <3>1 DEF i, j
    <3>3. d[<<i, j>>] = Meant(tokens, env, d, i, j)
      BY <1>3, <3>2
    <3> QED
      BY <3>2, <3>3 DEF i, j
  <2>2. d = [s \in S |-> Meant(tokens, env, d, s[1], s[2])]
    BY <1>3, <2>1
  <2> QED
    BY <2>2 DEF Meant, S
<1>5. SpansOf(tokens, env) = CHOOSE f : Eq(f)
  BY DEF SpansOf
<1> DEFINE p == CHOOSE f : Eq(f)
<1>6. Eq(p)
  <2> HIDE DEF Eq
  <2> QED
    BY <1>4
<1> HIDE DEF p
<1>7. \A s \in S : p[s] = Meant(tokens, env, p, s[1], s[2])
  BY <1>6 DEF Meant, S
<1>8. ASSUME NEW i \in 1..n, NEW j \in 1..n, i <= j
      PROVE  /\ p[<<i, j>>].or = MeansOr(tokens, env, p, i, j)
             /\ p[<<i, j>>].and = MeansAnd(tokens, env, p, i, j)
             /\ p[<<i, j>>].unary = MeansUnary(tokens, env, p, i, j)
  <2>1. p[<<i, j>>] = Meant(tokens, env, p, i, j)
    BY <1>1, <1>7, <1>8
  <2> QED
    BY ONLY <2>1 DEF Meant
<1>9. IsSpans(p, tokens, env)
  <2>1. SpansOf(tokens, env) = p
    BY <1>5 DEF p
  <2> QED
    BY <1>8, <2>1 DEF IsSpans
<1> QED
  BY <1>9

\* v is a value of i..j that the production takes apart.
OrSplit(tokens, d, i, j, v) ==
  \E k \in Splits(tokens, "or", i, j) :
    \E p \in d[<<i, k - 1>>].or, q \in d[<<k + 1, j>>].and : v = (p \/ q)

\* A span is a disjunction if it is a conjunction, or is split at an or.
LEMMA OrMeans ==
  ASSUME NEW tokens, NEW env, NEW d, IsSpans(d, tokens, env),
         NEW i \in 1..Len(tokens), NEW j \in 1..Len(tokens), i <= j, NEW v
  PROVE  v \in d[<<i, j>>].or <=>
           \/ v \in d[<<i, j>>].and
           \/ OrSplit(tokens, d, i, j, v)
<1>1. d[<<i, j>>].or = MeansOr(tokens, env, d, i, j) /\ d[<<i, j>>].and = MeansAnd(tokens, env, d, i, j)
  BY DEF IsSpans
<1> QED
  BY ONLY <1>1 DEF MeansOr, OrSplit

\* v is a value of i..j that the production takes apart.
AndSplit(tokens, d, i, j, v) ==
  \E k \in Splits(tokens, "and", i, j) :
    \E p \in d[<<i, k - 1>>].and, q \in d[<<k + 1, j>>].unary : v = (p /\ q)

\* A span is a conjunction if it is a negation, or is split at an and.
LEMMA AndMeans ==
  ASSUME NEW tokens, NEW env, NEW d, IsSpans(d, tokens, env),
         NEW i \in 1..Len(tokens), NEW j \in 1..Len(tokens), i <= j, NEW v
  PROVE  v \in d[<<i, j>>].and <=>
           \/ v \in d[<<i, j>>].unary
           \/ AndSplit(tokens, d, i, j, v)
<1>1. d[<<i, j>>].and = MeansAnd(tokens, env, d, i, j) /\ d[<<i, j>>].unary = MeansUnary(tokens, env, d, i, j)
  BY DEF IsSpans
<1> DEFINE both(k) == {p /\ q : p \in d[<<i, k - 1>>].and, q \in d[<<k + 1, j>>].unary}
<1>2. \A k : v \in both(k) <=> \E p \in d[<<i, k - 1>>].and, q \in d[<<k + 1, j>>].unary : v = (p /\ q)
  OBVIOUS
<1>3. d[<<i, j>>].and = d[<<i, j>>].unary \cup UNION {both(k) : k \in Splits(tokens, "and", i, j)}
  BY ONLY <1>1 DEF MeansAnd
<1> HIDE DEF both
<1>4. v \in d[<<i, j>>].and <=>
        v \in d[<<i, j>>].unary \/ \E k \in Splits(tokens, "and", i, j) : v \in both(k)
  BY ONLY <1>3
<1> QED
  BY ONLY <1>2, <1>4 DEF AndSplit

\* A span is a negation if it is a primary, or a not stands before one.
LEMMA UnaryMeans ==
  ASSUME NEW tokens, NEW env, NEW d, IsSpans(d, tokens, env),
         NEW i \in 1..Len(tokens), NEW j \in 1..Len(tokens), i <= j, NEW v
  PROVE  v \in d[<<i, j>>].unary <=>
           \/ v \in MeansPrimary(tokens, env, d, i, j)
           \/ /\ KindAt(tokens, i) = "not" /\ i < j
              /\ \E p \in d[<<i + 1, j>>].unary : v = (~p)
<1>1. d[<<i, j>>].unary = MeansUnary(tokens, env, d, i, j)
  BY DEF IsSpans
<1> QED
  BY ONLY <1>1 DEF MeansUnary

\* v is a value of i..j that can be taken apart at the first connective.
OrOpens(tokens, d, i, j, v) ==
  \E k \in Splits(tokens, "or", i, j) :
    \E p \in d[<<i, k - 1>>].and, q \in d[<<k + 1, j>>].or : v = (p \/ q)

\* A disjunction that the grammar takes apart at its last connective can be
\* taken apart at its first one.
LEMMA OrFirst ==
  ASSUME NEW tokens, NEW env, NEW d, IsSpans(d, tokens, env), Listed(tokens)
  PROVE  \A i, j \in 1..Len(tokens) : i <= j => \A v \in d[<<i, j>>].or :
           \/ v \in d[<<i, j>>].and
           \/ OrOpens(tokens, d, i, j, v)
<1> DEFINE n == Len(tokens)
           First(i, j, v) ==
             \/ v \in d[<<i, j>>].and
             \/ \E k \in Splits(tokens, "or", i, j) :
                  \E p \in d[<<i, k - 1>>].and, q \in d[<<k + 1, j>>].or : v = (p \/ q)
           Bad == {m \in Nat : \E i, j \in 1..n : /\ i <= j /\ j - i = m
                                                 /\ \E v \in d[<<i, j>>].or : ~First(i, j, v)}
<1>0. n \in Nat
  BY DEF Listed
<1>1. ASSUME NEW m \in Nat, \A x \in 0..m - 1 : x \notin Bad PROVE m \notin Bad
  <2> SUFFICES ASSUME NEW i \in 1..n, NEW j \in 1..n, i <= j, j - i = m, NEW v \in d[<<i, j>>].or
               PROVE  First(i, j, v)
    <3> HIDE DEF First
    <3> QED
      OBVIOUS
  <2>1. CASE v \in d[<<i, j>>].and
    BY <2>1
  <2>2. CASE \E k \in Splits(tokens, "or", i, j) :
                \E p \in d[<<i, k - 1>>].or, q \in d[<<k + 1, j>>].and : v = (p \/ q)
    <3>1. PICK k \in Splits(tokens, "or", i, j) :
                \E p \in d[<<i, k - 1>>].or, q \in d[<<k + 1, j>>].and : v = (p \/ q)
      BY <2>2
    <3>2. PICK p \in d[<<i, k - 1>>].or, q \in d[<<k + 1, j>>].and : v = (p \/ q)
      BY <3>1
    <3>3. /\ k \in i + 1..j - 1 /\ KindAt(tokens, k) = "or" /\ k - 1 \in 1..n /\ k + 1 \in 1..n
          /\ i <= k - 1 /\ k + 1 <= j /\ k - 1 - i \in 0..m - 1
      BY <1>0, <3>1 DEF Splits
    <3>4. First(i, k - 1, p)
      <4> HIDE DEF First
      <4>1. k - 1 - i \notin Bad
        BY <1>1, <3>3, Zenon
      <4>2. k - 1 - i \in Nat
        BY <1>0, <3>3
      <4> QED
        BY <3>2, <3>3, <4>1, <4>2
    <3>5. q \in d[<<k + 1, j>>].or
      BY <3>2, <3>3, OrMeans DEF OrSplit
    <3>6. CASE p \in d[<<i, k - 1>>].and
      BY <3>1, <3>2, <3>5, <3>6
    <3>7. CASE \E h \in Splits(tokens, "or", i, k - 1) :
                  \E x \in d[<<i, h - 1>>].and, y \in d[<<h + 1, k - 1>>].or : p = (x \/ y)
      <4>1. PICK h \in Splits(tokens, "or", i, k - 1) :
                  \E x \in d[<<i, h - 1>>].and, y \in d[<<h + 1, k - 1>>].or : p = (x \/ y)
        BY <3>7
      <4>2. PICK x \in d[<<i, h - 1>>].and, y \in d[<<h + 1, k - 1>>].or : p = (x \/ y)
        BY <4>1
      <4>3. h \in i + 1..k - 1 - 1 /\ KindAt(tokens, h) = "or"
        BY <4>1 DEF Splits
      <4>4. /\ h \in Splits(tokens, "or", i, j) /\ k \in Splits(tokens, "or", h + 1, j)
            /\ h + 1 \in 1..n /\ h + 1 <= j
        BY <1>0, <3>3, <4>3 DEF Splits
      <4>5. (y \/ q) \in d[<<h + 1, j>>].or
        <5>1. \E g \in Splits(tokens, "or", h + 1, j) :
                \E a \in d[<<h + 1, g - 1>>].or, b \in d[<<g + 1, j>>].and : (y \/ q) = (a \/ b)
          BY <3>2, <4>2, <4>4
        <5> QED
          BY <4>4, <5>1, OrMeans DEF OrSplit
      <4>6. v = (x \/ (y \/ q))
        BY <3>2, <4>2
      <4> QED
        BY <4>2, <4>4, <4>5, <4>6
    <3> QED
      BY <3>4, <3>6, <3>7
  <2> QED
    BY <2>1, <2>2, OrMeans DEF OrSplit
<1>2. Bad = {}
  <2>1. Bad \in SUBSET Nat
    OBVIOUS
  <2> HIDE DEF Bad
  <2> QED
    BY <1>1, <2>1, Upwards
<1>3. ASSUME NEW i \in 1..n, NEW j \in 1..n, i <= j, NEW v \in d[<<i, j>>].or PROVE First(i, j, v)
  <2> HIDE DEF First
  <2>1. j - i \in Nat
    BY <1>0, <1>3
  <2>2. j - i \notin Bad
    BY <1>2, Zenon
  <2> QED
    BY <1>3, <2>1, <2>2
<1> QED
  BY <1>3 DEF OrOpens

\* And what is put together at its first connective is a disjunction.
LEMMA OrJoined ==
  ASSUME NEW tokens, NEW env, NEW d, IsSpans(d, tokens, env), Listed(tokens)
  PROVE  \A i, j \in 1..Len(tokens) : i <= j => \A k \in Splits(tokens, "or", i, j) :
           \A p \in d[<<i, k - 1>>].and, q \in d[<<k + 1, j>>].or : (p \/ q) \in d[<<i, j>>].or
<1> DEFINE n == Len(tokens)
           Joined(i, j, k) == \A p \in d[<<i, k - 1>>].and, q \in d[<<k + 1, j>>].or :
                                (p \/ q) \in d[<<i, j>>].or
           Bad == {m \in Nat : \E i, j \in 1..n : /\ i <= j /\ j - i = m
                                                 /\ \E k \in Splits(tokens, "or", i, j) : ~Joined(i, j, k)}
<1>0. n \in Nat
  BY DEF Listed
<1>1. ASSUME NEW m \in Nat, \A x \in 0..m - 1 : x \notin Bad PROVE m \notin Bad
  <2> SUFFICES ASSUME NEW i \in 1..n, NEW j \in 1..n, i <= j, j - i = m, NEW k \in Splits(tokens, "or", i, j)
               PROVE  Joined(i, j, k)
    <3> HIDE DEF Joined
    <3> QED
      OBVIOUS
  <2> SUFFICES ASSUME NEW p \in d[<<i, k - 1>>].and, NEW q \in d[<<k + 1, j>>].or
               PROVE  (p \/ q) \in d[<<i, j>>].or
    OBVIOUS
  <2>1. /\ k \in i + 1..j - 1 /\ KindAt(tokens, k) = "or" /\ k - 1 \in 1..n /\ k + 1 \in 1..n
        /\ i <= k - 1 /\ k + 1 <= j
    BY <1>0 DEF Splits
  <2>2. p \in d[<<i, k - 1>>].or
    BY <2>1, OrMeans DEF OrSplit
  <2>3. CASE q \in d[<<k + 1, j>>].and
    <3>1. \E h \in Splits(tokens, "or", i, j) :
            \E x \in d[<<i, h - 1>>].or, y \in d[<<h + 1, j>>].and : (p \/ q) = (x \/ y)
      BY <2>2, <2>3
    <3> QED
      BY <3>1, OrMeans DEF OrSplit
  <2>4. CASE \E h \in Splits(tokens, "or", k + 1, j) :
                \E x \in d[<<k + 1, h - 1>>].or, y \in d[<<h + 1, j>>].and : q = (x \/ y)
    <3>1. PICK h \in Splits(tokens, "or", k + 1, j) :
                \E x \in d[<<k + 1, h - 1>>].or, y \in d[<<h + 1, j>>].and : q = (x \/ y)
      BY <2>4
    <3>2. PICK x \in d[<<k + 1, h - 1>>].or, y \in d[<<h + 1, j>>].and : q = (x \/ y)
      BY <3>1
    <3>3. h \in k + 1 + 1..j - 1 /\ KindAt(tokens, h) = "or"
      BY <3>1 DEF Splits
    <3>4. /\ h \in Splits(tokens, "or", i, j) /\ k \in Splits(tokens, "or", i, h - 1)
          /\ h - 1 \in 1..n /\ i <= h - 1 /\ h - 1 - i \in 0..m - 1 /\ h - 1 - i \in Nat
      BY <1>0, <2>1, <3>3 DEF Splits
    <3>5. Joined(i, h - 1, k)
      <4> HIDE DEF Joined
      <4>1. h - 1 - i \notin Bad
        BY <1>1, <3>4
      <4> QED
        BY <3>4, <4>1
    <3>6. (p \/ x) \in d[<<i, h - 1>>].or
      BY <3>2, <3>5
    <3>7. (p \/ q) = ((p \/ x) \/ y)
      BY <3>2
    <3>8. \E g \in Splits(tokens, "or", i, j) :
            \E a \in d[<<i, g - 1>>].or, b \in d[<<g + 1, j>>].and : (p \/ q) = (a \/ b)
      BY <3>2, <3>4, <3>6, <3>7
    <3> QED
      BY <3>8, OrMeans DEF OrSplit
  <2>5. \/ q \in d[<<k + 1, j>>].and
        \/ \E h \in Splits(tokens, "or", k + 1, j) :
             \E x \in d[<<k + 1, h - 1>>].or, y \in d[<<h + 1, j>>].and : q = (x \/ y)
    <3> DEFINE c == k + 1
    <3>1. c \in 1..Len(tokens) /\ j \in 1..Len(tokens) /\ c <= j /\ q \in d[<<c, j>>].or
      BY <2>1
    <3> HIDE DEF c
    <3>2. q \in d[<<c, j>>].and \/ OrSplit(tokens, d, c, j, q)
      BY ONLY <3>1, IsSpans(d, tokens, env), OrMeans
    <3> QED
      BY ONLY <3>2 DEF c, OrSplit
  <2> QED
    BY <2>3, <2>4, <2>5
<1>2. Bad = {}
  <2>1. Bad \in SUBSET Nat
    OBVIOUS
  <2> HIDE DEF Bad
  <2> QED
    BY <1>1, <2>1, Upwards
<1>3. ASSUME NEW i \in 1..n, NEW j \in 1..n, i <= j, NEW k \in Splits(tokens, "or", i, j) PROVE Joined(i, j, k)
  <2> HIDE DEF Joined
  <2>1. j - i \in Nat
    BY <1>0, <1>3
  <2>2. j - i \notin Bad
    BY <1>2, Zenon
  <2> QED
    BY <1>3, <2>1, <2>2
<1> QED
  BY <1>3
\* v is a value of i..j that can be taken apart at the first connective.
AndOpens(tokens, d, i, j, v) ==
  \E k \in Splits(tokens, "and", i, j) :
    \E p \in d[<<i, k - 1>>].unary, q \in d[<<k + 1, j>>].and : v = (p /\ q)

\* A conjunction that the grammar takes apart at its last connective can be
\* taken apart at its first one.
LEMMA AndFirst ==
  ASSUME NEW tokens, NEW env, NEW d, IsSpans(d, tokens, env), Listed(tokens)
  PROVE  \A i, j \in 1..Len(tokens) : i <= j => \A v \in d[<<i, j>>].and :
           \/ v \in d[<<i, j>>].unary
           \/ AndOpens(tokens, d, i, j, v)
<1> DEFINE n == Len(tokens)
           First(i, j, v) ==
             \/ v \in d[<<i, j>>].unary
             \/ \E k \in Splits(tokens, "and", i, j) :
                  \E p \in d[<<i, k - 1>>].unary, q \in d[<<k + 1, j>>].and : v = (p /\ q)
           Bad == {m \in Nat : \E i, j \in 1..n : /\ i <= j /\ j - i = m
                                                 /\ \E v \in d[<<i, j>>].and : ~First(i, j, v)}
<1>0. n \in Nat
  BY DEF Listed
<1>1. ASSUME NEW m \in Nat, \A x \in 0..m - 1 : x \notin Bad PROVE m \notin Bad
  <2> SUFFICES ASSUME NEW i \in 1..n, NEW j \in 1..n, i <= j, j - i = m, NEW v \in d[<<i, j>>].and
               PROVE  First(i, j, v)
    <3> HIDE DEF First
    <3> QED
      OBVIOUS
  <2>1. CASE v \in d[<<i, j>>].unary
    BY <2>1
  <2>2. CASE \E k \in Splits(tokens, "and", i, j) :
                \E p \in d[<<i, k - 1>>].and, q \in d[<<k + 1, j>>].unary : v = (p /\ q)
    <3>1. PICK k \in Splits(tokens, "and", i, j) :
                \E p \in d[<<i, k - 1>>].and, q \in d[<<k + 1, j>>].unary : v = (p /\ q)
      BY <2>2
    <3>2. PICK p \in d[<<i, k - 1>>].and, q \in d[<<k + 1, j>>].unary : v = (p /\ q)
      BY <3>1
    <3>3. /\ k \in i + 1..j - 1 /\ KindAt(tokens, k) = "and" /\ k - 1 \in 1..n /\ k + 1 \in 1..n
          /\ i <= k - 1 /\ k + 1 <= j /\ k - 1 - i \in 0..m - 1
      BY <1>0, <3>1 DEF Splits
    <3>4. First(i, k - 1, p)
      <4> HIDE DEF First
      <4>1. k - 1 - i \notin Bad
        BY <1>1, <3>3, Zenon
      <4>2. k - 1 - i \in Nat
        BY <1>0, <3>3
      <4> QED
        BY <3>2, <3>3, <4>1, <4>2
    <3>5. q \in d[<<k + 1, j>>].and
      BY <3>2, <3>3, AndMeans DEF AndSplit
    <3>6. CASE p \in d[<<i, k - 1>>].unary
      BY <3>1, <3>2, <3>5, <3>6
    <3>7. CASE \E h \in Splits(tokens, "and", i, k - 1) :
                  \E x \in d[<<i, h - 1>>].unary, y \in d[<<h + 1, k - 1>>].and : p = (x /\ y)
      <4>1. PICK h \in Splits(tokens, "and", i, k - 1) :
                  \E x \in d[<<i, h - 1>>].unary, y \in d[<<h + 1, k - 1>>].and : p = (x /\ y)
        BY <3>7
      <4>2. PICK x \in d[<<i, h - 1>>].unary, y \in d[<<h + 1, k - 1>>].and : p = (x /\ y)
        BY <4>1
      <4>3. h \in i + 1..k - 1 - 1 /\ KindAt(tokens, h) = "and"
        BY <4>1 DEF Splits
      <4>4. /\ h \in Splits(tokens, "and", i, j) /\ k \in Splits(tokens, "and", h + 1, j)
            /\ h + 1 \in 1..n /\ h + 1 <= j
        BY <1>0, <3>3, <4>3 DEF Splits
      <4>5. (y /\ q) \in d[<<h + 1, j>>].and
        <5>1. \E g \in Splits(tokens, "and", h + 1, j) :
                \E a \in d[<<h + 1, g - 1>>].and, b \in d[<<g + 1, j>>].unary : (y /\ q) = (a /\ b)
          BY <3>2, <4>2, <4>4
        <5> QED
          BY <4>4, <5>1, AndMeans DEF AndSplit
      <4>6. v = (x /\ (y /\ q))
        BY <3>2, <4>2
      <4> QED
        BY <4>2, <4>4, <4>5, <4>6
    <3> QED
      BY <3>4, <3>6, <3>7
  <2>3. \/ v \in d[<<i, j>>].unary
        \/ \E k \in Splits(tokens, "and", i, j) :
             \E p \in d[<<i, k - 1>>].and, q \in d[<<k + 1, j>>].unary : v = (p /\ q)
    <3>1. v \in d[<<i, j>>].unary \/ AndSplit(tokens, d, i, j, v)
      BY AndMeans
    <3> QED
      BY ONLY <3>1 DEF AndSplit
  <2> QED
    BY <2>1, <2>2, <2>3
<1>2. Bad = {}
  <2>1. Bad \in SUBSET Nat
    OBVIOUS
  <2> HIDE DEF Bad
  <2> QED
    BY <1>1, <2>1, Upwards
<1>3. ASSUME NEW i \in 1..n, NEW j \in 1..n, i <= j, NEW v \in d[<<i, j>>].and PROVE First(i, j, v)
  <2> HIDE DEF First
  <2>1. j - i \in Nat
    BY <1>0, <1>3
  <2>2. j - i \notin Bad
    BY <1>2, Zenon
  <2> QED
    BY <1>3, <2>1, <2>2
<1> QED
  BY <1>3 DEF AndOpens

\* And what is put together at its first connective is a conjunction.
LEMMA AndJoined ==
  ASSUME NEW tokens, NEW env, NEW d, IsSpans(d, tokens, env), Listed(tokens)
  PROVE  \A i, j \in 1..Len(tokens) : i <= j => \A k \in Splits(tokens, "and", i, j) :
           \A p \in d[<<i, k - 1>>].unary, q \in d[<<k + 1, j>>].and : (p /\ q) \in d[<<i, j>>].and
<1> DEFINE n == Len(tokens)
           Joined(i, j, k) == \A p \in d[<<i, k - 1>>].unary, q \in d[<<k + 1, j>>].and :
                                (p /\ q) \in d[<<i, j>>].and
           Bad == {m \in Nat : \E i, j \in 1..n : /\ i <= j /\ j - i = m
                                                 /\ \E k \in Splits(tokens, "and", i, j) : ~Joined(i, j, k)}
<1>0. n \in Nat
  BY DEF Listed
<1>1. ASSUME NEW m \in Nat, \A x \in 0..m - 1 : x \notin Bad PROVE m \notin Bad
  <2> SUFFICES ASSUME NEW i \in 1..n, NEW j \in 1..n, i <= j, j - i = m, NEW k \in Splits(tokens, "and", i, j)
               PROVE  Joined(i, j, k)
    <3> HIDE DEF Joined
    <3> QED
      OBVIOUS
  <2> SUFFICES ASSUME NEW p \in d[<<i, k - 1>>].unary, NEW q \in d[<<k + 1, j>>].and
               PROVE  (p /\ q) \in d[<<i, j>>].and
    OBVIOUS
  <2>1. /\ k \in i + 1..j - 1 /\ KindAt(tokens, k) = "and" /\ k - 1 \in 1..n /\ k + 1 \in 1..n
        /\ i <= k - 1 /\ k + 1 <= j
    BY <1>0 DEF Splits
  <2>2. p \in d[<<i, k - 1>>].and
    BY <2>1, AndMeans DEF AndSplit
  <2>3. CASE q \in d[<<k + 1, j>>].unary
    <3>1. \E h \in Splits(tokens, "and", i, j) :
            \E x \in d[<<i, h - 1>>].and, y \in d[<<h + 1, j>>].unary : (p /\ q) = (x /\ y)
      BY <2>2, <2>3
    <3> QED
      BY <3>1, AndMeans DEF AndSplit
  <2>4. CASE \E h \in Splits(tokens, "and", k + 1, j) :
                \E x \in d[<<k + 1, h - 1>>].and, y \in d[<<h + 1, j>>].unary : q = (x /\ y)
    <3>1. PICK h \in Splits(tokens, "and", k + 1, j) :
                \E x \in d[<<k + 1, h - 1>>].and, y \in d[<<h + 1, j>>].unary : q = (x /\ y)
      BY <2>4
    <3>2. PICK x \in d[<<k + 1, h - 1>>].and, y \in d[<<h + 1, j>>].unary : q = (x /\ y)
      BY <3>1
    <3>3. h \in k + 1 + 1..j - 1 /\ KindAt(tokens, h) = "and"
      BY <3>1 DEF Splits
    <3>4. /\ h \in Splits(tokens, "and", i, j) /\ k \in Splits(tokens, "and", i, h - 1)
          /\ h - 1 \in 1..n /\ i <= h - 1 /\ h - 1 - i \in 0..m - 1 /\ h - 1 - i \in Nat
      BY <1>0, <2>1, <3>3 DEF Splits
    <3>5. Joined(i, h - 1, k)
      <4> HIDE DEF Joined
      <4>1. h - 1 - i \notin Bad
        BY <1>1, <3>4
      <4> QED
        BY <3>4, <4>1
    <3>6. (p /\ x) \in d[<<i, h - 1>>].and
      BY <3>2, <3>5
    <3>7. (p /\ q) = ((p /\ x) /\ y)
      BY <3>2
    <3>8. \E g \in Splits(tokens, "and", i, j) :
            \E a \in d[<<i, g - 1>>].and, b \in d[<<g + 1, j>>].unary : (p /\ q) = (a /\ b)
      BY <3>2, <3>4, <3>6, <3>7
    <3> QED
      BY <3>8, AndMeans DEF AndSplit
  <2>5. \/ q \in d[<<k + 1, j>>].unary
        \/ \E h \in Splits(tokens, "and", k + 1, j) :
             \E x \in d[<<k + 1, h - 1>>].and, y \in d[<<h + 1, j>>].unary : q = (x /\ y)
    <3> DEFINE c == k + 1
    <3>1. c \in 1..Len(tokens) /\ j \in 1..Len(tokens) /\ c <= j /\ q \in d[<<c, j>>].and
      BY <2>1
    <3> HIDE DEF c
    <3>2. q \in d[<<c, j>>].unary \/ AndSplit(tokens, d, c, j, q)
      BY ONLY <3>1, IsSpans(d, tokens, env), AndMeans
    <3> QED
      BY ONLY <3>2 DEF c, AndSplit
  <2> QED
    BY <2>3, <2>4, <2>5
<1>2. Bad = {}
  <2>1. Bad \in SUBSET Nat
    OBVIOUS
  <2> HIDE DEF Bad
  <2> QED
    BY <1>1, <2>1, Upwards
<1>3. ASSUME NEW i \in 1..n, NEW j \in 1..n, i <= j, NEW k \in Splits(tokens, "and", i, j) PROVE Joined(i, j, k)
  <2> HIDE DEF Joined
  <2>1. j - i \in Nat
    BY <1>0, <1>3
  <2>2. j - i \notin Bad
    BY <1>2, Zenon
  <2> QED
    BY <1>3, <2>1, <2>2
<1> QED
  BY <1>3

\* At position i the parser finds every meaning of a span that nothing behind
\* it could continue.
ReadsUnary(tokens, f, d, i) ==
  \A j \in i..Len(tokens) : KindAt(tokens, j + 1) \notin {"eq", "ne"} =>
    \A v \in d[<<i, j>>].unary : f[i].unary = Parsed(v, j + 1)

ReadsAnd(tokens, f, d, i) ==
  \A j \in i..Len(tokens) : KindAt(tokens, j + 1) \notin {"eq", "ne", "and"} =>
    \A v \in d[<<i, j>>].and : f[i].and = Parsed(v, j + 1)

ReadsOr(tokens, f, d, i) ==
  \A j \in i..Len(tokens) : KindAt(tokens, j + 1) \notin {"eq", "ne", "and", "or"} =>
    \A v \in d[<<i, j>>].or : f[i].or = Parsed(v, j + 1)

Reads(tokens, f, d, i) ==
  ReadsUnary(tokens, f, d, i) /\ ReadsAnd(tokens, f, d, i) /\ ReadsOr(tokens, f, d, i)

\* A primary is found, whatever the parser finds behind position i being right.
LEMMA ReadsPrimary ==
  ASSUME NEW tokens, NEW env, NEW f, NEW d, Listed(tokens), IsParser(f, tokens, env), IsSpans(d, tokens, env),
         NEW i \in 1..Len(tokens), \A k \in i + 1..Len(tokens) : Reads(tokens, f, d, k),
         NEW j \in i..Len(tokens), KindAt(tokens, j + 1) \notin {"eq", "ne"},
         NEW v \in MeansPrimary(tokens, env, d, i, j)
  PROVE  ParsePrimary(tokens, env, f, i) = Parsed(v, j + 1) /\ KindAt(tokens, i) # "not"
<1> DEFINE n == Len(tokens)
<1>0. n \in Nat /\ DOMAIN tokens = 1..n /\ j \in 1..n
  BY DEF Listed
<1>1. CASE /\ KindAt(tokens, i) = "(" /\ KindAt(tokens, j) = ")" /\ i + 1 < j
           /\ v \in d[<<i + 1, j - 1>>].or
  <2>1. i + 1 \in i + 1..n /\ j - 1 \in i + 1..n /\ j - 1 + 1 = j
    BY <1>0, <1>1
  <2>2. f[i + 1].or = Parsed(v, j)
    <3>1. ReadsOr(tokens, f, d, i + 1)
      BY <2>1 DEF Reads
    <3>2. KindAt(tokens, j - 1 + 1) \notin {"eq", "ne", "and", "or"}
      BY <1>1, <2>1
    <3>3. f[i + 1].or = Parsed(v, j - 1 + 1)
      BY ONLY <1>1, <2>1, <3>1, <3>2 DEF ReadsOr
    <3> QED
      BY <2>1, <3>3
  <2>3. ~ValueAt(tokens, i)
    BY <1>1 DEF ValueAt, KindAt, IsValue
  <2>4. f[i + 1].or.ok /\ f[i + 1].or.true = v /\ f[i + 1].or.end = j
    BY <2>2, ParsedIs
  <2>5. ParsePrimary(tokens, env, f, i) = Parsed(v, j + 1)
    BY ONLY <1>1, <2>3, <2>4 DEF ParsePrimary
  <2> QED
    BY <1>1, <2>5
<1>2. CASE i = j /\ IsValue(tokens[i]) /\ v = Truthy(Resolve(tokens[i], env))
  <2>1. ValueAt(tokens, i) /\ KindAt(tokens, i) \notin {"(", "not"}
    BY <1>0, <1>2 DEF ValueAt, KindAt, IsValue
  <2>2. ParsePrimary(tokens, env, f, i) = Parsed(Truthy(Resolve(tokens[i], env)), i + 1)
    BY <1>2, <2>1 DEF ParsePrimary
  <2> QED
    BY <1>2, <2>1, <2>2
<1>3. CASE /\ j = i + 2 /\ IsValue(tokens[i]) /\ IsValue(tokens[j])
           /\ KindAt(tokens, i + 1) \in {"eq", "ne"}
           /\ v = ((KindAt(tokens, i + 1) = "eq") <=>
                     Resolve(tokens[i], env) = Resolve(tokens[j], env))
  <2>1. ValueAt(tokens, i) /\ ValueAt(tokens, i + 2) /\ KindAt(tokens, i) \notin {"(", "not"}
    BY <1>0, <1>3 DEF ValueAt, KindAt, IsValue
  <2> DEFINE b == (Resolve(tokens[i], env) = Resolve(tokens[i + 2], env)) <=> (KindAt(tokens, i + 1) = "eq")
  <2>2. ParsePrimary(tokens, env, f, i) = Parsed(b, i + 3)
    BY <1>3, <2>1 DEF ParsePrimary
  <2>3. v = b
    BY <1>3
  <2>4. j + 1 = i + 3
    BY <1>0, <1>3
  <2> HIDE DEF b
  <2> QED
    BY <2>1, <2>2, <2>3, <2>4
<1>4. \/ /\ KindAt(tokens, i) = "(" /\ KindAt(tokens, j) = ")" /\ i + 1 < j
         /\ v \in d[<<i + 1, j - 1>>].or
      \/ i = j /\ IsValue(tokens[i]) /\ v = Truthy(Resolve(tokens[i], env))
      \/ /\ j = i + 2 /\ IsValue(tokens[i]) /\ IsValue(tokens[j])
         /\ KindAt(tokens, i + 1) \in {"eq", "ne"}
         /\ v = ((KindAt(tokens, i + 1) = "eq") <=>
                   Resolve(tokens[i], env) = Resolve(tokens[j], env))
  BY ONLY v \in MeansPrimary(tokens, env, d, i, j) DEF MeansPrimary
<1> QED
  BY <1>1, <1>2, <1>3, <1>4

\* Then so is a negation.
LEMMA ReadsUnaryStep ==
  ASSUME NEW tokens, NEW env, NEW f, NEW d, Listed(tokens), IsParser(f, tokens, env), IsSpans(d, tokens, env),
         NEW i \in 1..Len(tokens), \A k \in i + 1..Len(tokens) : Reads(tokens, f, d, k)
  PROVE  ReadsUnary(tokens, f, d, i)
<1> DEFINE n == Len(tokens)
<1>0. n \in Nat
  BY DEF Listed
<1> SUFFICES ASSUME NEW j \in i..n, KindAt(tokens, j + 1) \notin {"eq", "ne"}, NEW v \in d[<<i, j>>].unary
             PROVE  f[i].unary = Parsed(v, j + 1)
  BY DEF ReadsUnary
<1>1. j \in 1..n /\ i <= j
  BY <1>0
<1>2. f[i].unary = ParseUnary(tokens, env, f, i)
  BY <1>0 DEF IsParser
<1>3. CASE v \in MeansPrimary(tokens, env, d, i, j)
  <2>1. ParsePrimary(tokens, env, f, i) = Parsed(v, j + 1) /\ KindAt(tokens, i) # "not"
    BY <1>3, ReadsPrimary
  <2> QED
    BY <1>2, <2>1 DEF ParseUnary
<1>4. CASE /\ KindAt(tokens, i) = "not" /\ i < j
           /\ \E p \in d[<<i + 1, j>>].unary : v = (~p)
  <2>1. PICK p \in d[<<i + 1, j>>].unary : v = (~p)
    BY <1>4
  <2>2. i + 1 \in i + 1..n /\ j \in i + 1..n
    BY <1>0, <1>4
  <2>3. ReadsUnary(tokens, f, d, i + 1)
    BY <2>2 DEF Reads
  <2>4. f[i + 1].unary = Parsed(p, j + 1)
    BY <2>2, <2>3 DEF ReadsUnary
  <2>5. f[i + 1].unary.ok /\ f[i + 1].unary.true = p /\ f[i + 1].unary.end = j + 1
    BY <2>4, ParsedIs
  <2> QED
    BY ONLY <1>2, <1>4, <2>1, <2>5 DEF ParseUnary, Negates
<1> QED
  BY <1>1, <1>3, <1>4, UnaryMeans

\* A conjunction, which the parser takes apart at its first connective.
LEMMA ReadsAndStep ==
  ASSUME NEW tokens, NEW env, NEW f, NEW d, Listed(tokens), IsParser(f, tokens, env), IsSpans(d, tokens, env),
         NEW i \in 1..Len(tokens), \A k \in i + 1..Len(tokens) : Reads(tokens, f, d, k),
         ReadsUnary(tokens, f, d, i)
  PROVE  ReadsAnd(tokens, f, d, i)
<1> DEFINE n == Len(tokens)
<1>0. n \in Nat
  BY DEF Listed
<1> SUFFICES ASSUME NEW j \in i..n, KindAt(tokens, j + 1) \notin {"eq", "ne", "and"}, NEW v \in d[<<i, j>>].and
             PROVE  f[i].and = Parsed(v, j + 1)
  BY DEF ReadsAnd
<1>1. j \in 1..n /\ i <= j
  BY <1>0
<1>2. f[i].and = ParseAnd(tokens, env, f, i) /\ f[i].unary = ParseUnary(tokens, env, f, i)
  BY <1>0 DEF IsParser
<1>3. CASE v \in d[<<i, j>>].unary
  <2>1. f[i].unary = Parsed(v, j + 1)
    BY <1>3 DEF ReadsUnary
  <2>2. f[i].unary.end = j + 1
    BY <2>1, ParsedIs
  <2> QED
    BY <1>2, <2>1, <2>2 DEF ParseAnd
<1>4. ASSUME NEW k \in Splits(tokens, "and", i, j), NEW p \in d[<<i, k - 1>>].unary,
             NEW q \in d[<<k + 1, j>>].and, v = (p /\ q)
      PROVE  f[i].and = Parsed(v, j + 1)
  <2>1. /\ KindAt(tokens, k) = "and" /\ k - 1 \in i..n /\ k - 1 + 1 = k
        /\ k + 1 \in i + 1..n /\ j \in k + 1..n
    BY <1>0, <1>1 DEF Splits
  <2>2. f[i].unary = Parsed(p, k)
    BY <2>1 DEF ReadsUnary
  <2>3. f[i].unary.ok /\ f[i].unary.true = p /\ f[i].unary.end = k
    BY <2>2, ParsedIs
  <2>4. f[k + 1].and = Parsed(q, j + 1)
    BY <2>1 DEF Reads, ReadsAnd
  <2>5. f[k + 1].and.ok /\ f[k + 1].and.true = q /\ f[k + 1].and.end = j + 1
    BY <2>4, ParsedIs
  <2> QED
    BY ONLY <1>2, <1>4, <2>1, <2>3, <2>5 DEF ParseAnd
<1>5. \/ v \in d[<<i, j>>].unary
      \/ \E k \in Splits(tokens, "and", i, j) :
           \E p \in d[<<i, k - 1>>].unary, q \in d[<<k + 1, j>>].and : v = (p /\ q)
  <2>1. v \in d[<<i, j>>].unary \/ AndOpens(tokens, d, i, j, v)
    BY <1>1, AndFirst
  <2> QED
    BY ONLY <2>1 DEF AndOpens
<1> QED
  BY <1>3, <1>4, <1>5

\* And a disjunction.
LEMMA ReadsOrStep ==
  ASSUME NEW tokens, NEW env, NEW f, NEW d, Listed(tokens), IsParser(f, tokens, env), IsSpans(d, tokens, env),
         NEW i \in 1..Len(tokens), \A k \in i + 1..Len(tokens) : Reads(tokens, f, d, k),
         ReadsAnd(tokens, f, d, i)
  PROVE  ReadsOr(tokens, f, d, i)
<1> DEFINE n == Len(tokens)
<1>0. n \in Nat
  BY DEF Listed
<1> SUFFICES ASSUME NEW j \in i..n, KindAt(tokens, j + 1) \notin {"eq", "ne", "and", "or"}, NEW v \in d[<<i, j>>].or
             PROVE  f[i].or = Parsed(v, j + 1)
  BY DEF ReadsOr
<1>1. j \in 1..n /\ i <= j
  BY <1>0
<1>2. f[i].or = ParseOr(tokens, env, f, i) /\ f[i].and = ParseAnd(tokens, env, f, i)
  BY <1>0 DEF IsParser
<1>3. CASE v \in d[<<i, j>>].and
  <2>1. f[i].and = Parsed(v, j + 1)
    BY <1>3 DEF ReadsAnd
  <2>2. f[i].and.end = j + 1
    BY <2>1, ParsedIs
  <2> QED
    BY <1>2, <2>1, <2>2 DEF ParseOr
<1>4. ASSUME NEW k \in Splits(tokens, "or", i, j), NEW p \in d[<<i, k - 1>>].and,
             NEW q \in d[<<k + 1, j>>].or, v = (p \/ q)
      PROVE  f[i].or = Parsed(v, j + 1)
  <2>1. /\ KindAt(tokens, k) = "or" /\ k - 1 \in i..n /\ k - 1 + 1 = k
        /\ k + 1 \in i + 1..n /\ j \in k + 1..n
    BY <1>0, <1>1 DEF Splits
  <2>2. f[i].and = Parsed(p, k)
    BY <2>1 DEF ReadsAnd
  <2>3. f[i].and.ok /\ f[i].and.true = p /\ f[i].and.end = k
    BY <2>2, ParsedIs
  <2>4. f[k + 1].or = Parsed(q, j + 1)
    BY <2>1 DEF Reads, ReadsOr
  <2>5. f[k + 1].or.ok /\ f[k + 1].or.true = q /\ f[k + 1].or.end = j + 1
    BY <2>4, ParsedIs
  <2> QED
    BY ONLY <1>2, <1>4, <2>1, <2>3, <2>5 DEF ParseOr
<1>5. \/ v \in d[<<i, j>>].and
      \/ \E k \in Splits(tokens, "or", i, j) :
           \E p \in d[<<i, k - 1>>].and, q \in d[<<k + 1, j>>].or : v = (p \/ q)
  <2>1. v \in d[<<i, j>>].and \/ OrOpens(tokens, d, i, j, v)
    BY <1>1, OrFirst
  <2> QED
    BY ONLY <2>1 DEF OrOpens
<1> QED
  BY <1>3, <1>4, <1>5

\* The parser finds every meaning of what begins at a position, at each.
LEMMA ParserReads ==
  ASSUME NEW tokens, NEW env, NEW f, NEW d, Listed(tokens), IsParser(f, tokens, env), IsSpans(d, tokens, env)
  PROVE  \A i \in 1..Len(tokens) : Reads(tokens, f, d, i)
<1> DEFINE n == Len(tokens)
           Bad == {m \in Nat : m \in 0..n - 1 /\ ~Reads(tokens, f, d, n - m)}
<1>0. n \in Nat
  BY DEF Listed
<1>1. ASSUME NEW m \in Nat, \A x \in 0..m - 1 : x \notin Bad PROVE m \notin Bad
  <2> SUFFICES ASSUME m \in 0..n - 1 PROVE Reads(tokens, f, d, n - m)
    OBVIOUS
  <2> DEFINE i == n - m
  <2>1. i \in 1..Len(tokens)
    BY <1>0
  <2>2. ASSUME NEW k \in i + 1..Len(tokens) PROVE Reads(tokens, f, d, k)
    <3>1. n - k \in 0..m - 1 /\ n - k \in Nat /\ n - k \in 0..n - 1 /\ n - (n - k) = k
      BY <1>0
    <3> QED
      BY <1>1, <3>1
  <2> HIDE DEF i
  <2>3. ReadsUnary(tokens, f, d, i)
    BY <2>1, <2>2, ReadsUnaryStep
  <2>4. ReadsAnd(tokens, f, d, i)
    BY <2>1, <2>2, <2>3, ReadsAndStep
  <2>5. ReadsOr(tokens, f, d, i)
    BY <2>1, <2>2, <2>4, ReadsOrStep
  <2> QED
    BY <2>3, <2>4, <2>5 DEF Reads, i
<1>2. Bad = {}
  <2>1. Bad \in SUBSET Nat
    OBVIOUS
  <2> HIDE DEF Bad
  <2> QED
    BY <1>1, <2>1, Upwards
<1> SUFFICES ASSUME NEW i \in 1..Len(tokens) PROVE Reads(tokens, f, d, i)
  OBVIOUS
<1>3. n - i \in Nat /\ n - i \in 0..n - 1 /\ n - (n - i) = i
  BY <1>0
<1> QED
  BY <1>2, <1>3

\* What a production of the parser finds at position i is a meaning of the span
\* it has passed.
SoundUnary(f, d, i) ==
  f[i].unary.ok => f[i].unary.true \in d[<<i, f[i].unary.end - 1>>].unary

SoundAnd(f, d, i) ==
  f[i].and.ok => f[i].and.true \in d[<<i, f[i].and.end - 1>>].and

SoundOr(f, d, i) ==
  f[i].or.ok => f[i].or.true \in d[<<i, f[i].or.end - 1>>].or

Sound(f, d, i) == SoundUnary(f, d, i) /\ SoundAnd(f, d, i) /\ SoundOr(f, d, i)

\* What an entry that succeeded holds.
LEMMA EntryTyped ==
  ASSUME NEW tokens, NEW env, NEW f, Listed(tokens), IsParser(f, tokens, env), NEW i \in 1..Len(tokens) + 1
  PROVE  /\ f[i].unary.ok => f[i].unary.true \in BOOLEAN /\ f[i].unary.end \in i + 1..Len(tokens) + 1
         /\ f[i].and.ok => f[i].and.true \in BOOLEAN /\ f[i].and.end \in i + 1..Len(tokens) + 1
         /\ f[i].or.ok => f[i].or.true \in BOOLEAN /\ f[i].or.end \in i + 1..Len(tokens) + 1
<1>1. /\ IsResult(f[i].unary, i, Len(tokens)) /\ IsResult(f[i].and, i, Len(tokens))
      /\ IsResult(f[i].or, i, Len(tokens))
  BY DEF IsParser, Behind, Listed
<1> QED
  BY <1>1, ResultIs

\* What parsePrimary finds is a primary.
LEMMA SoundPrimary ==
  ASSUME NEW tokens, NEW env, NEW f, NEW d, Listed(tokens), IsParser(f, tokens, env),
         NEW i \in 1..Len(tokens) + 1, \A k \in i + 1..Len(tokens) + 1 : Sound(f, d, k),
         NEW r, r = ParsePrimary(tokens, env, f, i), r.ok
  PROVE  r.end - 1 \in i..Len(tokens) /\ r.true \in MeansPrimary(tokens, env, d, i, r.end - 1)
<1> DEFINE n == Len(tokens)
<1>0. n \in Nat /\ DOMAIN tokens = 1..n
  BY DEF Listed
<1>1. CASE KindAt(tokens, i) = "("
  <2>1. i \in 1..n /\ i + 1 \in i + 1..n + 1 /\ i + 1 \in 1..n + 1
    BY <1>0, <1>1, KindIn
  <2> DEFINE x == f[i + 1].or
  <2>2. ~ValueAt(tokens, i)
    BY <1>1 DEF ValueAt, KindAt, IsValue
  <2>3. r = IF x.ok /\ KindAt(tokens, x.end) = ")" THEN Parsed(x.true, x.end + 1) ELSE Failed
    BY ONLY <1>1, <2>2, r = ParsePrimary(tokens, env, f, i) DEF ParsePrimary
  <2>4. x.ok /\ KindAt(tokens, x.end) = ")" /\ r = Parsed(x.true, x.end + 1)
    <3> HIDE DEF x
    <3> QED
      BY <2>3, FailedIs
  <2>5. x.true \in d[<<i + 1, x.end - 1>>].or
    BY <2>1, <2>4 DEF Sound, SoundOr
  <2>6. x.end \in i + 1 + 1..n + 1
    BY <2>1, <2>4, EntryTyped
  <2>7. x.end \in 1..n
    BY <2>4, KindIn
  <2>8. r.true = x.true /\ r.end = x.end + 1
    BY <2>4, ParsedIs
  <2> DEFINE j == r.end - 1
  <2> HIDE DEF x
  <2>9. j = x.end /\ i + 1 < j /\ j \in i..n
    BY <1>0, <2>6, <2>7, <2>8
  <2>10. KindAt(tokens, j) = ")" /\ r.true \in d[<<i + 1, j - 1>>].or
    BY <2>4, <2>5, <2>8, <2>9
  <2> HIDE DEF j
  <2>11. r.true \in MeansPrimary(tokens, env, d, i, j)
    BY ONLY <1>1, <2>9, <2>10 DEF MeansPrimary
  <2> QED
    BY <2>9, <2>11 DEF j
<1>2. CASE KindAt(tokens, i) # "(" /\ ValueAt(tokens, i) /\ KindAt(tokens, i + 1) \in {"eq", "ne"}
  <2> DEFINE b == (Resolve(tokens[i], env) = Resolve(tokens[i + 2], env)) <=> (KindAt(tokens, i + 1) = "eq")
             j == i + 2
  <2>1. r = IF ValueAt(tokens, i + 2) THEN Parsed(b, i + 3) ELSE Failed
    BY <1>2 DEF ParsePrimary
  <2>2. ValueAt(tokens, i + 2) /\ r = Parsed(b, i + 3)
    <3> HIDE DEF b
    <3> QED
      BY <2>1, FailedIs
  <2>3. r.end = i + 3 /\ r.true = b
    <3> HIDE DEF b
    <3> QED
      BY <2>2, ParsedIs
  <2>4. IsValue(tokens[i]) /\ IsValue(tokens[j]) /\ i + 2 \in i..n
    BY <1>0, <1>2, <2>2 DEF ValueAt
  <2>5. b = ((KindAt(tokens, i + 1) = "eq") <=> Resolve(tokens[i], env) = Resolve(tokens[j], env))
    OBVIOUS
  <2>6. j = i + 2 /\ r.end - 1 = j
    BY <2>3
  <2> HIDE DEF b, j
  <2>7. b \in MeansPrimary(tokens, env, d, i, j)
    BY ONLY <1>2, <2>4, <2>5, <2>6 DEF MeansPrimary
  <2> QED
    BY <2>3, <2>4, <2>6, <2>7
<1>3. CASE KindAt(tokens, i) # "(" /\ ValueAt(tokens, i) /\ KindAt(tokens, i + 1) \notin {"eq", "ne"}
  <2>1. r = Parsed(Truthy(Resolve(tokens[i], env)), i + 1)
    BY <1>3 DEF ParsePrimary
  <2>2. r.end = i + 1 /\ r.true = Truthy(Resolve(tokens[i], env))
    BY <2>1, ParsedIs
  <2>3. r.end - 1 = i /\ i \in i..n /\ IsValue(tokens[i])
    BY <1>0, <1>3, <2>2 DEF ValueAt
  <2>4. r.true \in MeansPrimary(tokens, env, d, i, i)
    BY <2>2, <2>3 DEF MeansPrimary
  <2> QED
    BY <2>3, <2>4
<1>4. CASE KindAt(tokens, i) # "(" /\ ~ValueAt(tokens, i)
  BY <1>4, FailedIs DEF ParsePrimary
<1> QED
  BY <1>1, <1>2, <1>3, <1>4

\* What parseUnary finds is a negation.
LEMMA SoundUnaryStep ==
  ASSUME NEW tokens, NEW env, NEW f, NEW d, Listed(tokens), IsParser(f, tokens, env), IsSpans(d, tokens, env),
         NEW i \in 1..Len(tokens) + 1, \A k \in i + 1..Len(tokens) + 1 : Sound(f, d, k)
  PROVE  SoundUnary(f, d, i)
<1> DEFINE n == Len(tokens)
           r == f[i].unary
<1>0. n \in Nat
  BY DEF Listed
<1> SUFFICES ASSUME r.ok PROVE r.true \in d[<<i, r.end - 1>>].unary
  BY DEF SoundUnary
<1>2. f[i].unary = ParseUnary(tokens, env, f, i)
  BY DEF IsParser
<1>3. CASE KindAt(tokens, i) # "not"
  <2>1. r = ParsePrimary(tokens, env, f, i)
    BY <1>2, <1>3 DEF ParseUnary
  <2> HIDE DEF r
  <2>2. r.end - 1 \in i..n /\ r.true \in MeansPrimary(tokens, env, d, i, r.end - 1)
    BY <2>1, SoundPrimary
  <2> DEFINE j == r.end - 1
  <2>3. i \in 1..n /\ j \in 1..n /\ i <= j
    BY <1>0, <2>2
  <2> HIDE DEF j
  <2>4. r.true \in MeansPrimary(tokens, env, d, i, j)
    BY <2>2 DEF j
  <2>5. r.true \in d[<<i, j>>].unary
    BY <2>3, <2>4, UnaryMeans
  <2> QED
    BY <2>5 DEF j
<1>4. CASE KindAt(tokens, i) = "not"
  <2>1. i \in 1..n /\ i + 1 \in i + 1..n + 1 /\ i + 1 \in 1..n + 1
    BY <1>0, <1>4, KindIn
  <2> DEFINE x == f[i + 1].unary
  <2>2. r = IF x.ok THEN Parsed(~x.true, x.end) ELSE Failed
    BY <1>2, <1>4 DEF ParseUnary, Negates
  <2> DEFINE b == ~x.true
  <2>3. x.ok /\ r = Parsed(b, x.end)
    <3> HIDE DEF x, r
    <3> QED
      BY <2>2, FailedIs
  <2>4. r.true = b /\ r.end = x.end
    <3> HIDE DEF x, b
    <3> QED
      BY <2>3, ParsedIs
  <2>5. x.end \in i + 1 + 1..n + 1 /\ x.true \in d[<<i + 1, x.end - 1>>].unary
    BY <2>1, <2>3, EntryTyped DEF Sound, SoundUnary
  <2> DEFINE j == x.end - 1
             p == x.true
  <2>6. j \in 1..n /\ i < j /\ i <= j
    BY <1>0, <2>1, <2>5, SMTT(30)
  <2>7. p \in d[<<i + 1, j>>].unary /\ b = (~p)
    BY <2>5
  <2> HIDE DEF j, p, b
  <2>8. b \in d[<<i, j>>].unary
    BY <1>4, <2>1, <2>6, <2>7, UnaryMeans
  <2> QED
    BY <2>4, <2>8 DEF j
<1> QED
  BY <1>3, <1>4

\* What parseAnd finds is a conjunction.
LEMMA SoundAndStep ==
  ASSUME NEW tokens, NEW env, NEW f, NEW d, Listed(tokens), IsParser(f, tokens, env), IsSpans(d, tokens, env),
         NEW i \in 1..Len(tokens) + 1, \A k \in i + 1..Len(tokens) + 1 : Sound(f, d, k),
         SoundUnary(f, d, i)
  PROVE  SoundAnd(f, d, i)
<1> DEFINE n == Len(tokens)
           l == f[i].unary
           r == f[i].and
<1>0. n \in Nat
  BY DEF Listed
<1> SUFFICES ASSUME r.ok PROVE r.true \in d[<<i, r.end - 1>>].and
  BY DEF SoundAnd
<1>2. r = ParseAnd(tokens, env, f, i) /\ l = ParseUnary(tokens, env, f, i)
  BY DEF IsParser
<1>3. CASE l.ok /\ KindAt(tokens, l.end) # "and"
  <2>1. r = l
    BY <1>2, <1>3 DEF ParseAnd
  <2>2. l.true \in d[<<i, l.end - 1>>].unary /\ l.end \in i + 1..n + 1
    BY <1>3, EntryTyped DEF SoundUnary
  <2> DEFINE j == l.end - 1
  <2>3. i \in 1..n /\ j \in 1..n /\ i <= j
    BY <1>0, <2>2
  <2>4. l.true \in d[<<i, j>>].unary
    BY <2>2
  <2> HIDE DEF j, l, r
  <2>5. l.true \in d[<<i, j>>].and
    BY <2>3, <2>4, AndMeans
  <2> QED
    BY <2>1, <2>5 DEF j
<1>4. CASE l.ok /\ KindAt(tokens, l.end) = "and"
  <2> DEFINE k == l.end
             x == f[k + 1].and
             b == l.true /\ x.true
  <2>1. k \in i + 1..n + 1 /\ l.true \in d[<<i, k - 1>>].unary
    BY <1>4, EntryTyped DEF SoundUnary
  <2>2. k \in 1..n
    BY <1>4, KindIn
  <2>3. k + 1 \in i + 1..n + 1 /\ k + 1 \in 1..n + 1
    BY <1>0, <2>1, <2>2
  <2>4. r = IF x.ok THEN Parsed(b, x.end) ELSE Failed
    <3> HIDE DEF l, r
    <3> QED
      BY ONLY <1>2, <1>4 DEF ParseAnd
  <2>5. x.ok /\ r = Parsed(b, x.end)
    <3> HIDE DEF l, x, r, b
    <3> QED
      BY <2>4, FailedIs
  <2>6. r.true = b /\ r.end = x.end
    <3> HIDE DEF l, x, b
    <3> QED
      BY <2>5, ParsedIs
  <2>7. x.end \in k + 1 + 1..n + 1 /\ x.true \in d[<<k + 1, x.end - 1>>].and
    <3> HIDE DEF k
    <3> QED
      BY <2>3, <2>5, EntryTyped DEF Sound, SoundAnd
  <2> DEFINE j == x.end - 1
             p == l.true
             q == x.true
  <2> HIDE DEF l, x, k
  <2>8. i \in 1..n /\ j \in 1..n /\ i <= j /\ k \in i + 1..j - 1
    BY <1>0, <2>1, <2>2, <2>7
  <2>9. k \in Splits(tokens, "and", i, j)
    BY <1>4, <2>8 DEF Splits, k
  <2>10. p \in d[<<i, k - 1>>].unary /\ q \in d[<<k + 1, j>>].and
    BY <2>1, <2>7
  <2>11. b = (p /\ q)
    OBVIOUS
  <2> HIDE DEF j, p, q, b
  <2>12. (p /\ q) \in d[<<i, j>>].and
    BY <2>8, <2>9, <2>10, AndJoined
  <2> QED
    BY <2>6, <2>11, <2>12 DEF j
<1>5. CASE ~l.ok
  BY <1>2, <1>5 DEF ParseAnd
<1> QED
  BY <1>3, <1>4, <1>5

\* What parseOr finds is a disjunction.
LEMMA SoundOrStep ==
  ASSUME NEW tokens, NEW env, NEW f, NEW d, Listed(tokens), IsParser(f, tokens, env), IsSpans(d, tokens, env),
         NEW i \in 1..Len(tokens) + 1, \A k \in i + 1..Len(tokens) + 1 : Sound(f, d, k),
         SoundAnd(f, d, i)
  PROVE  SoundOr(f, d, i)
<1> DEFINE n == Len(tokens)
           l == f[i].and
           r == f[i].or
<1>0. n \in Nat
  BY DEF Listed
<1> SUFFICES ASSUME r.ok PROVE r.true \in d[<<i, r.end - 1>>].or
  BY DEF SoundOr
<1>2. r = ParseOr(tokens, env, f, i) /\ l = ParseAnd(tokens, env, f, i)
  BY DEF IsParser
<1>3. CASE l.ok /\ KindAt(tokens, l.end) # "or"
  <2>1. r = l
    BY <1>2, <1>3 DEF ParseOr
  <2>2. l.true \in d[<<i, l.end - 1>>].and /\ l.end \in i + 1..n + 1
    BY <1>3, EntryTyped DEF SoundAnd
  <2> DEFINE j == l.end - 1
  <2>3. i \in 1..n /\ j \in 1..n /\ i <= j
    BY <1>0, <2>2
  <2>4. l.true \in d[<<i, j>>].and
    BY <2>2
  <2> HIDE DEF j, l, r
  <2>5. l.true \in d[<<i, j>>].or
    BY <2>3, <2>4, OrMeans
  <2> QED
    BY <2>1, <2>5 DEF j
<1>4. CASE l.ok /\ KindAt(tokens, l.end) = "or"
  <2> DEFINE k == l.end
             x == f[k + 1].or
             b == l.true \/ x.true
  <2>1. k \in i + 1..n + 1 /\ l.true \in d[<<i, k - 1>>].and
    BY <1>4, EntryTyped DEF SoundAnd
  <2>2. k \in 1..n
    BY <1>4, KindIn
  <2>3. k + 1 \in i + 1..n + 1 /\ k + 1 \in 1..n + 1
    BY <1>0, <2>1, <2>2
  <2>4. r = IF x.ok THEN Parsed(b, x.end) ELSE Failed
    <3> HIDE DEF l, r
    <3> QED
      BY ONLY <1>2, <1>4 DEF ParseOr
  <2>5. x.ok /\ r = Parsed(b, x.end)
    <3> HIDE DEF l, x, r, b
    <3> QED
      BY <2>4, FailedIs
  <2>6. r.true = b /\ r.end = x.end
    <3> HIDE DEF l, x, b
    <3> QED
      BY <2>5, ParsedIs
  <2>7. x.end \in k + 1 + 1..n + 1 /\ x.true \in d[<<k + 1, x.end - 1>>].or
    <3> HIDE DEF k
    <3> QED
      BY <2>3, <2>5, EntryTyped DEF Sound, SoundOr
  <2> DEFINE j == x.end - 1
             p == l.true
             q == x.true
  <2> HIDE DEF l, x, k
  <2>8. i \in 1..n /\ j \in 1..n /\ i <= j /\ k \in i + 1..j - 1
    BY <1>0, <2>1, <2>2, <2>7
  <2>9. k \in Splits(tokens, "or", i, j)
    BY <1>4, <2>8 DEF Splits, k
  <2>10. p \in d[<<i, k - 1>>].and /\ q \in d[<<k + 1, j>>].or
    BY <2>1, <2>7
  <2>11. b = (p \/ q)
    OBVIOUS
  <2> HIDE DEF j, p, q, b
  <2>12. (p \/ q) \in d[<<i, j>>].or
    BY <2>8, <2>9, <2>10, OrJoined
  <2> QED
    BY <2>6, <2>11, <2>12 DEF j
<1>5. CASE ~l.ok
  BY <1>2, <1>5 DEF ParseOr
<1> QED
  BY <1>3, <1>4, <1>5

\* What the parser finds anywhere is a meaning of the span it has passed.
LEMMA ParserSound ==
  ASSUME NEW tokens, NEW env, NEW f, NEW d, Listed(tokens), IsParser(f, tokens, env), IsSpans(d, tokens, env)
  PROVE  \A i \in 1..Len(tokens) + 1 : Sound(f, d, i)
<1> DEFINE n == Len(tokens)
           Bad == {m \in Nat : m \in 0..n /\ ~Sound(f, d, n + 1 - m)}
<1>0. n \in Nat
  BY DEF Listed
<1>1. ASSUME NEW m \in Nat, \A x \in 0..m - 1 : x \notin Bad PROVE m \notin Bad
  <2> SUFFICES ASSUME m \in 0..n PROVE Sound(f, d, n + 1 - m)
    OBVIOUS
  <2> DEFINE i == n + 1 - m
  <2>1. i \in 1..Len(tokens) + 1
    BY <1>0
  <2>2. ASSUME NEW k \in i + 1..Len(tokens) + 1 PROVE Sound(f, d, k)
    <3>1. n + 1 - k \in 0..m - 1 /\ n + 1 - k \in Nat /\ n + 1 - k \in 0..n /\ n + 1 - (n + 1 - k) = k
      BY <1>0
    <3> QED
      BY <1>1, <3>1
  <2> HIDE DEF i
  <2>3. SoundUnary(f, d, i)
    BY <2>1, <2>2, SoundUnaryStep
  <2>4. SoundAnd(f, d, i)
    BY <2>1, <2>2, <2>3, SoundAndStep
  <2>5. SoundOr(f, d, i)
    BY <2>1, <2>2, <2>4, SoundOrStep
  <2> QED
    BY <2>3, <2>4, <2>5 DEF Sound, i
<1>2. Bad = {}
  <2>1. Bad \in SUBSET Nat
    OBVIOUS
  <2> HIDE DEF Bad
  <2> QED
    BY <1>1, <2>1, Upwards
<1> SUFFICES ASSUME NEW i \in 1..Len(tokens) + 1 PROVE Sound(f, d, i)
  OBVIOUS
<1>3. n + 1 - i \in Nat /\ n + 1 - i \in 0..n /\ n + 1 - (n + 1 - i) = i
  BY <1>0
<1> QED
  BY <1>2, <1>3

\* Two results that differ at most in the value.
Match(r, s) == (r.ok <=> s.ok) /\ (r.ok => r.end = s.end)

Matched(f, g, i) == Match(f[i].unary, g[i].unary) /\ Match(f[i].and, g[i].and) /\ Match(f[i].or, g[i].or)

\* Results with the same position match.
LEMMA MatchParsed ==
  ASSUME NEW b, NEW c, NEW e
  PROVE  Match(Parsed(b, e), Parsed(c, e)) /\ Match(Failed, Failed)
BY ParsedIs DEF Match

\* parseUnary and parsePrimary succeed, and end, alike in any two environments.
LEMMA MatchUnary ==
  ASSUME NEW tokens, Listed(tokens), NEW env, NEW f, IsParser(f, tokens, env),
         NEW other, NEW g, IsParser(g, tokens, other),
         NEW i \in 1..Len(tokens) + 1, \A k \in i + 1..Len(tokens) + 1 : Matched(f, g, k)
  PROVE  Match(f[i].unary, g[i].unary)
<1> DEFINE n == Len(tokens)
<1>0. n \in Nat
  BY DEF Listed
<1>1. f[i].unary = ParseUnary(tokens, env, f, i) /\ g[i].unary = ParseUnary(tokens, other, g, i)
  BY DEF IsParser
<1>2. CASE KindAt(tokens, i) = "not"
  <2>1. i + 1 \in i + 1..n + 1
    BY <1>0, <1>2, KindIn
  <2> DEFINE x == f[i + 1].unary
             y == g[i + 1].unary
  <2>2. Match(x, y)
    BY <2>1 DEF Matched
  <2>3. /\ f[i].unary = IF x.ok THEN Parsed(~x.true, x.end) ELSE Failed
        /\ g[i].unary = IF y.ok THEN Parsed(~y.true, y.end) ELSE Failed
    BY ONLY <1>1, <1>2 DEF ParseUnary, Negates
  <2> DEFINE b == ~x.true
             c == ~y.true
  <2> HIDE DEF x, y
  <2>4. CASE x.ok
    <3>1. f[i].unary = Parsed(b, x.end) /\ g[i].unary = Parsed(c, x.end)
      BY <2>2, <2>3, <2>4 DEF Match
    <3> HIDE DEF b, c
    <3> QED
      BY <3>1, MatchParsed
  <2>5. CASE ~x.ok
    <3>1. f[i].unary = Failed /\ g[i].unary = Failed
      BY <2>2, <2>3, <2>5 DEF Match
    <3> QED
      BY <3>1, MatchParsed
  <2> QED
    BY <2>4, <2>5
<1>3. CASE KindAt(tokens, i) # "not"
  <2> DEFINE r == ParsePrimary(tokens, env, f, i)
             s == ParsePrimary(tokens, other, g, i)
  <2>1. f[i].unary = r /\ g[i].unary = s
    BY ONLY <1>1, <1>3 DEF ParseUnary
  <2>2. CASE KindAt(tokens, i) = "("
    <3>1. i + 1 \in i + 1..n + 1 /\ ~ValueAt(tokens, i)
      BY <1>0, <2>2, KindIn DEF ValueAt, KindAt, IsValue
    <3> DEFINE x == f[i + 1].or
               y == g[i + 1].or
    <3>2. Match(x, y)
      BY <3>1 DEF Matched
    <3>3. r = IF x.ok /\ KindAt(tokens, x.end) = ")" THEN Parsed(x.true, x.end + 1) ELSE Failed
      BY ONLY <2>2, <3>1 DEF ParsePrimary
    <3>4. s = IF y.ok /\ KindAt(tokens, y.end) = ")" THEN Parsed(y.true, y.end + 1) ELSE Failed
      BY ONLY <2>2, <3>1 DEF ParsePrimary
    <3> HIDE DEF x, y, r, s
    <3>5. CASE x.ok /\ KindAt(tokens, x.end) = ")"
      <4>1. r = Parsed(x.true, x.end + 1) /\ s = Parsed(y.true, x.end + 1)
        BY <3>2, <3>3, <3>4, <3>5 DEF Match
      <4> QED
        BY <2>1, <4>1, MatchParsed
    <3>6. CASE ~(x.ok /\ KindAt(tokens, x.end) = ")")
      <4>1. r = Failed /\ s = Failed
        BY <3>2, <3>3, <3>4, <3>6 DEF Match
      <4> QED
        BY <2>1, <4>1, MatchParsed
    <3> QED
      BY <3>5, <3>6
  <2>3. CASE KindAt(tokens, i) # "(" /\ ValueAt(tokens, i) /\ KindAt(tokens, i + 1) \in {"eq", "ne"}
    <3> DEFINE b == (Resolve(tokens[i], env) = Resolve(tokens[i + 2], env)) <=> (KindAt(tokens, i + 1) = "eq")
               c == (Resolve(tokens[i], other) = Resolve(tokens[i + 2], other)) <=> (KindAt(tokens, i + 1) = "eq")
    <3>1. r = IF ValueAt(tokens, i + 2) THEN Parsed(b, i + 3) ELSE Failed
      BY ONLY <2>3 DEF ParsePrimary
    <3>2. s = IF ValueAt(tokens, i + 2) THEN Parsed(c, i + 3) ELSE Failed
      BY ONLY <2>3 DEF ParsePrimary
    <3> HIDE DEF b, c, r, s
    <3> QED
      BY <2>1, <3>1, <3>2, MatchParsed
  <2>4. CASE KindAt(tokens, i) # "(" /\ ValueAt(tokens, i) /\ KindAt(tokens, i + 1) \notin {"eq", "ne"}
    <3>1. r = Parsed(Truthy(Resolve(tokens[i], env)), i + 1) /\ s = Parsed(Truthy(Resolve(tokens[i], other)), i + 1)
      BY ONLY <2>4 DEF ParsePrimary
    <3> HIDE DEF r, s
    <3> QED
      BY <2>1, <3>1, MatchParsed
  <2>5. CASE KindAt(tokens, i) # "(" /\ ~ValueAt(tokens, i)
    <3>1. r = Failed /\ s = Failed
      BY ONLY <2>5 DEF ParsePrimary
    <3> QED
      BY <2>1, <3>1, MatchParsed
  <2> QED
    BY <2>2, <2>3, <2>4, <2>5
<1> QED
  BY <1>2, <1>3

\* So does parseAnd.
LEMMA MatchAnd ==
  ASSUME NEW tokens, Listed(tokens), NEW env, NEW f, IsParser(f, tokens, env),
         NEW other, NEW g, IsParser(g, tokens, other),
         NEW i \in 1..Len(tokens) + 1, \A k \in i + 1..Len(tokens) + 1 : Matched(f, g, k),
         Match(f[i].unary, g[i].unary)
  PROVE  Match(f[i].and, g[i].and)
<1> DEFINE n == Len(tokens)
           l == f[i].unary
           m == g[i].unary
<1>0. n \in Nat /\ Match(l, m)
  BY DEF Listed
<1>1. /\ f[i].and = ParseAnd(tokens, env, f, i) /\ g[i].and = ParseAnd(tokens, other, g, i)
      /\ l = ParseUnary(tokens, env, f, i) /\ m = ParseUnary(tokens, other, g, i)
  BY DEF IsParser
<1>2. CASE l.ok /\ KindAt(tokens, l.end) = "and"
  <2> DEFINE k == l.end + 1
             x == f[k].and
             y == g[k].and
  <2>1. l.end \in i + 1..n + 1
    BY <1>2, EntryTyped
  <2>2. l.end \in 1..n
    BY <1>2, KindIn
  <2>3. k \in i + 1..n + 1
    BY <1>0, <2>1, <2>2
  <2>4. Match(x, y)
    <3> HIDE DEF k
    <3> QED
      BY <2>3 DEF Matched
  <2>5. m.ok /\ m.end = l.end
    BY <1>0, <1>2 DEF Match
  <2>6. f[i].and = IF x.ok THEN Parsed(l.true /\ x.true, x.end) ELSE Failed
    <3> HIDE DEF l
    <3> QED
      BY ONLY <1>1, <1>2 DEF ParseAnd
  <2>7. g[i].and = IF y.ok THEN Parsed(m.true /\ y.true, y.end) ELSE Failed
    <3> HIDE DEF l, m
    <3> QED
      BY ONLY <1>1, <1>2, <2>5 DEF ParseAnd
  <2> DEFINE b == l.true /\ x.true
             c == m.true /\ y.true
  <2> HIDE DEF l, m, x, y
  <2>8. CASE x.ok
    <3>1. f[i].and = Parsed(b, x.end) /\ g[i].and = Parsed(c, x.end)
      BY <2>4, <2>6, <2>7, <2>8 DEF Match
    <3> HIDE DEF b, c
    <3> QED
      BY <3>1, MatchParsed
  <2>9. CASE ~x.ok
    <3>1. f[i].and = Failed /\ g[i].and = Failed
      BY <2>4, <2>6, <2>7, <2>9 DEF Match
    <3> QED
      BY <3>1, MatchParsed
  <2> QED
    BY <2>8, <2>9
<1>3. CASE ~(l.ok /\ KindAt(tokens, l.end) = "and")
  <2>1. ~(m.ok /\ KindAt(tokens, m.end) = "and")
    BY <1>0, <1>3 DEF Match
  <2>2. f[i].and = l /\ g[i].and = m
    <3> HIDE DEF l, m
    <3> QED
      BY ONLY <1>1, <1>3, <2>1 DEF ParseAnd
  <2> QED
    BY <1>0, <2>2
<1> QED
  BY <1>2, <1>3

\* So does parseOr.
LEMMA MatchOr ==
  ASSUME NEW tokens, Listed(tokens), NEW env, NEW f, IsParser(f, tokens, env),
         NEW other, NEW g, IsParser(g, tokens, other),
         NEW i \in 1..Len(tokens) + 1, \A k \in i + 1..Len(tokens) + 1 : Matched(f, g, k),
         Match(f[i].and, g[i].and)
  PROVE  Match(f[i].or, g[i].or)
<1> DEFINE n == Len(tokens)
           l == f[i].and
           m == g[i].and
<1>0. n \in Nat /\ Match(l, m)
  BY DEF Listed
<1>1. /\ f[i].or = ParseOr(tokens, env, f, i) /\ g[i].or = ParseOr(tokens, other, g, i)
      /\ l = ParseAnd(tokens, env, f, i) /\ m = ParseAnd(tokens, other, g, i)
  BY DEF IsParser
<1>2. CASE l.ok /\ KindAt(tokens, l.end) = "or"
  <2> DEFINE k == l.end + 1
             x == f[k].or
             y == g[k].or
  <2>1. l.end \in i + 1..n + 1
    BY <1>2, EntryTyped
  <2>2. l.end \in 1..n
    BY <1>2, KindIn
  <2>3. k \in i + 1..n + 1
    BY <1>0, <2>1, <2>2
  <2>4. Match(x, y)
    <3> HIDE DEF k
    <3> QED
      BY <2>3 DEF Matched
  <2>5. m.ok /\ m.end = l.end
    BY <1>0, <1>2 DEF Match
  <2>6. f[i].or = IF x.ok THEN Parsed(l.true \/ x.true, x.end) ELSE Failed
    <3> HIDE DEF l
    <3> QED
      BY ONLY <1>1, <1>2 DEF ParseOr
  <2>7. g[i].or = IF y.ok THEN Parsed(m.true \/ y.true, y.end) ELSE Failed
    <3> HIDE DEF l, m
    <3> QED
      BY ONLY <1>1, <1>2, <2>5 DEF ParseOr
  <2> DEFINE b == l.true \/ x.true
             c == m.true \/ y.true
  <2> HIDE DEF l, m, x, y
  <2>8. CASE x.ok
    <3>1. f[i].or = Parsed(b, x.end) /\ g[i].or = Parsed(c, x.end)
      BY <2>4, <2>6, <2>7, <2>8 DEF Match
    <3> HIDE DEF b, c
    <3> QED
      BY <3>1, MatchParsed
  <2>9. CASE ~x.ok
    <3>1. f[i].or = Failed /\ g[i].or = Failed
      BY <2>4, <2>6, <2>7, <2>9 DEF Match
    <3> QED
      BY <3>1, MatchParsed
  <2> QED
    BY <2>8, <2>9
<1>3. CASE ~(l.ok /\ KindAt(tokens, l.end) = "or")
  <2>1. ~(m.ok /\ KindAt(tokens, m.end) = "or")
    BY <1>0, <1>3 DEF Match
  <2>2. f[i].or = l /\ g[i].or = m
    <3> HIDE DEF l, m
    <3> QED
      BY ONLY <1>1, <1>3, <2>1 DEF ParseOr
  <2> QED
    BY <1>0, <2>2
<1> QED
  BY <1>2, <1>3

\* Whether a list parses, and how far, does not depend on what the variables are.
LEMMA ParsersMatch ==
  ASSUME NEW tokens, Listed(tokens), NEW env, NEW f, IsParser(f, tokens, env),
         NEW other, NEW g, IsParser(g, tokens, other)
  PROVE  \A i \in 1..Len(tokens) + 1 : Matched(f, g, i)
<1> DEFINE n == Len(tokens)
           Bad == {m \in Nat : m \in 0..n /\ ~Matched(f, g, n + 1 - m)}
<1>0. n \in Nat
  BY DEF Listed
<1>1. ASSUME NEW m \in Nat, \A x \in 0..m - 1 : x \notin Bad PROVE m \notin Bad
  <2> SUFFICES ASSUME m \in 0..n PROVE Matched(f, g, n + 1 - m)
    OBVIOUS
  <2> DEFINE i == n + 1 - m
  <2>1. i \in 1..Len(tokens) + 1
    BY <1>0
  <2>2. ASSUME NEW k \in i + 1..Len(tokens) + 1 PROVE Matched(f, g, k)
    <3>1. n + 1 - k \in 0..m - 1 /\ n + 1 - k \in Nat /\ n + 1 - k \in 0..n /\ n + 1 - (n + 1 - k) = k
      BY <1>0
    <3> QED
      BY <1>1, <3>1
  <2> HIDE DEF i
  <2>3. Match(f[i].unary, g[i].unary)
    BY <2>1, <2>2, MatchUnary
  <2>4. Match(f[i].and, g[i].and)
    BY <2>1, <2>2, <2>3, MatchAnd
  <2>5. Match(f[i].or, g[i].or)
    BY <2>1, <2>2, <2>4, MatchOr
  <2> QED
    BY <2>3, <2>4, <2>5 DEF Matched, i
<1>2. Bad = {}
  <2>1. Bad \in SUBSET Nat
    OBVIOUS
  <2> HIDE DEF Bad
  <2> QED
    BY <1>1, <2>1, Upwards
<1> SUFFICES ASSUME NEW i \in 1..Len(tokens) + 1 PROVE Matched(f, g, i)
  OBVIOUS
<1>3. n + 1 - i \in Nat /\ n + 1 - i \in 0..n /\ n + 1 - (n + 1 - i) = i
  BY <1>0
<1> QED
  BY <1>2, <1>3

\* In one environment: the whole list has the meaning that the parser finds and
\* no other, and the parser finds one only if it has a meaning.
LEMMA ListMeans ==
  ASSUME NEW T, NEW tokens \in Seq(T), NEW env, NEW f, IsParser(f, tokens, env)
  PROVE  /\ Parse(tokens, env).ok => Parse(tokens, env).true \in Meanings(tokens, env) \cap BOOLEAN
         /\ \A v \in Meanings(tokens, env) : Parse(tokens, env) = Parsed(v, Len(tokens) + 1)
<1> DEFINE n == Len(tokens)
           r == f[1].or
           M == Meanings(tokens, env)
<1>0. n \in Nat /\ DOMAIN tokens = 1..n /\ 1 \in 1..n + 1 /\ Listed(tokens)
  BY DEF Listed
<1>1. Parse(tokens, env) = IF r.ok /\ r.end = n + 1 THEN r ELSE Failed
  BY DEF Parse, IsParser
<1>2. PICK d : IsSpans(d, tokens, env)
  BY <1>0, SpansExist
<1>3. M = IF tokens = <<>> THEN {} ELSE d[<<1, n>>].or
  BY <1>2 DEF Meanings, IsSpans
<1>4. ASSUME Parse(tokens, env).ok PROVE Parse(tokens, env).true \in M \cap BOOLEAN
  <2> HIDE DEF r
  <2>1. r.ok /\ r.end = n + 1 /\ Parse(tokens, env) = r
    BY <1>1, <1>4, FailedIs
  <2>2. r.true \in BOOLEAN /\ r.end \in 1 + 1..n + 1
    BY <1>0, <2>1, EntryTyped DEF r
  <2>3. tokens # <<>>
    BY <1>0, <2>1, <2>2
  <2>4. r.true \in d[<<1, r.end - 1>>].or
    BY <1>0, <1>2, <2>1, ParserSound DEF Sound, SoundOr, r
  <2>5. r.end - 1 = n
    BY <1>0, <2>1
  <2> QED
    BY <1>3, <2>1, <2>2, <2>3, <2>4, <2>5
<1>5. ASSUME NEW v \in M PROVE Parse(tokens, env) = Parsed(v, n + 1)
  <2>1. tokens # <<>> /\ v \in d[<<1, n>>].or
    BY <1>3, <1>5
  <2>2. 1 \in 1..n /\ n \in 1..n
    BY <1>0, <2>1
  <2>3. ReadsOr(tokens, f, d, 1)
    BY <1>0, <1>2, <2>2, ParserReads DEF Reads
  <2>4. KindAt(tokens, n + 1) = "end"
    BY <1>0 DEF KindAt
  <2>5. r = Parsed(v, n + 1)
    BY <2>1, <2>2, <2>3, <2>4 DEF ReadsOr
  <2>6. r.ok /\ r.end = n + 1
    BY <2>5, ParsedIs
  <2> QED
    BY <1>1, <2>5, <2>6
<1> QED
  BY <1>4, <1>5

\* Check accepts what has a meaning, and what it accepts has one in every
\* environment, the one that Eval computes.
LEMMA ConditionMeans ==
  ASSUME NEW T, NEW tokens \in Seq(T)
  PROVE  /\ Check(tokens) <=> Meanings(tokens, <<>>) # {}
         /\ Check(tokens) => \A env : /\ Meanings(tokens, env) = {Eval(tokens, env)}
                                      /\ Eval(tokens, env) \in BOOLEAN
<1>0. Listed(tokens) /\ 1 \in 1..Len(tokens) + 1
  BY DEF Listed
<1>1. PICK f : IsParser(f, tokens, <<>>)
  BY <1>0, ParserExists
<1>2. Check(tokens) <=> Meanings(tokens, <<>>) # {}
  <2>1. ASSUME NEW v \in Meanings(tokens, <<>>) PROVE Check(tokens)
    <3>1. Parse(tokens, <<>>) = Parsed(v, Len(tokens) + 1)
      BY <1>1, ListMeans
    <3> QED
      BY <3>1, ParsedIs DEF Check
  <2>2. ASSUME Check(tokens) PROVE Meanings(tokens, <<>>) # {}
    <3>1. Parse(tokens, <<>>).ok
      BY <2>2 DEF Check
    <3> QED
      BY <1>1, <3>1, ListMeans
  <2> QED
    BY <2>1, <2>2
<1>3. ASSUME Check(tokens), NEW env
      PROVE  Meanings(tokens, env) = {Eval(tokens, env)} /\ Eval(tokens, env) \in BOOLEAN
  <2>1. PICK g : IsParser(g, tokens, env)
    BY <1>0, ParserExists
  <2> DEFINE r == f[1].or
             s == g[1].or
  <2>2. Match(r, s)
    BY <1>0, <1>1, <2>1, ParsersMatch DEF Matched
  <2>3. /\ Parse(tokens, <<>>) = IF r.ok /\ r.end = Len(tokens) + 1 THEN r ELSE Failed
        /\ Parse(tokens, env) = IF s.ok /\ s.end = Len(tokens) + 1 THEN s ELSE Failed
    BY <1>1, <2>1 DEF Parse, IsParser
  <2> HIDE DEF r, s
  <2>4. Parse(tokens, env).ok
    <3>1. r.ok /\ r.end = Len(tokens) + 1
      BY <1>3, <2>3, FailedIs DEF Check
    <3> QED
      BY <2>2, <2>3, <3>1 DEF Match
  <2>5. Eval(tokens, env) \in Meanings(tokens, env) \cap BOOLEAN
    BY <2>1, <2>4, ListMeans DEF Eval
  <2>6. ASSUME NEW v \in Meanings(tokens, env) PROVE v = Eval(tokens, env)
    <3>1. Parse(tokens, env) = Parsed(v, Len(tokens) + 1)
      BY <2>1, ListMeans
    <3> QED
      BY <3>1, ParsedIs DEF Eval
  <2> QED
    BY <2>5, <2>6
<1> QED
  BY <1>2, <1>3

----------------------------------------------------------------------------
(* The invariant: that of the walk, for the graph of either call, and whose  *)
(* graph it is.                                                              *)

RunInv ==
  call = "run" =>
    IsWorkflow(wf) /\ Valid(wf) /\ IsOrigin(wf, origin) /\ deps = ExpandMatrix(wf, origin)

PlanInv == IInv /\ RunInv

\* What the assumptions say of the workflows a file may hold.
LEMMA FileIsWorkflow ==
  ASSUME NEW family \in Families, NEW w \in family
  PROVE  IsWorkflow(w)
<1>1. /\ DOMAIN w.needs \subseteq Nat /\ IsFiniteSet(DOMAIN w.needs)
      /\ w.needs \in [DOMAIN w.needs -> Seq(DOMAIN w.needs)]
      /\ NoJob \notin DOMAIN w.needs /\ w.inherit \in [DOMAIN w.needs -> DOMAIN w.needs \cup {NoJob}]
      /\ w.matrix \in [DOMAIN w.needs -> Seq(Seq(Nat))]
      /\ w.steps \in Seq(Steps)
  BY WorkflowsAssumption
<1>2. \A copy \in Copies(w) : ComboId(w, copy) \in Nat
  BY LabelsAssumption
<1> QED
  BY <1>1, <1>2 DEF IsWorkflow, JobsOf

\* Whichever call of Build it is, the walk begins with a map as it must be.
LEMMA PlanInductive == PlanSpec => []PlanInv
<1>1. PlanInit => PlanInv
  <2> SUFFICES ASSUME PlanInit PROVE PlanInv
    OBVIOUS
  <2>1. PICK family \in Families :
           \/ call = "validate" /\ wf \in family /\ deps = wf.needs
           \/ /\ call = "run" /\ wf \in Accepted(family)
              /\ \E visit \in Visits(wf) : origin = Expansion(wf, visit)
              /\ deps = ExpandMatrix(wf, origin)
    BY DEF PlanInit
  <2>2. InitWalk
    BY DEF PlanInit
  <2>3. wf \in family
    BY <2>1 DEF Accepted
  <2>4. IsWorkflow(wf)
    BY <2>3, FileIsWorkflow
  <2>5. CASE call = "validate" /\ deps = wf.needs
    <3>1. MapInv
      BY <2>4, <2>5 DEF MapInv, Nodes, IsWorkflow, JobsOf
    <3> QED
      BY <2>2, <2>5, <3>1, InitIInv DEF PlanInv, RunInv
  <2>6. CASE /\ call = "run" /\ wf \in Accepted(family)
             /\ \E visit \in Visits(wf) : origin = Expansion(wf, visit)
             /\ deps = ExpandMatrix(wf, origin)
    <3>1. Valid(wf)
      BY <2>6 DEF Accepted
    <3>2. IsOrigin(wf, origin)
      <4>1. PICK visit \in Visits(wf) : origin = Expansion(wf, visit)
        BY <2>6
      <4> QED
        BY <2>4, <3>1, <4>1, ExpansionOrigin
    <3>3. /\ AllIds(wf, JobsOf(wf)) \subseteq Nat /\ IsFiniteSet(AllIds(wf, JobsOf(wf)))
          /\ deps \in [AllIds(wf, JobsOf(wf)) -> Seq(AllIds(wf, JobsOf(wf)))]
      BY <2>4, <2>6, <3>1, <3>2, ExpansionIs
    <3>4. MapInv
      BY <3>3 DEF MapInv, Nodes
    <3> QED
      BY <2>2, <2>4, <2>6, <3>1, <3>2, <3>4, InitIInv DEF PlanInv, RunInv
  <2> QED
    BY <2>1, <2>5, <2>6
<1>2. PlanInv /\ [PlanNext]_planVars => PlanInv'
  <2> SUFFICES ASSUME PlanInv, [PlanNext]_planVars PROVE PlanInv'
    OBVIOUS
  <2>1. [Next]_vars /\ UNCHANGED <<wf, call, origin>>
    BY DEF PlanNext, planVars
  <2>2. IInv'
    BY <2>1, NextIInv DEF PlanInv
  <2>3. deps' = deps
    BY <2>1 DEF Next, Visit, EndWalk, Wave, EndWaves, vars
  <2>4. RunInv'
    BY <2>1, <2>3 DEF PlanInv, RunInv
  <2> QED
    BY <2>2, <2>4 DEF PlanInv
<1> QED
  BY <1>1, <1>2, PTL DEF PlanSpec

\* A condition is a list of tokens.
ListInv == wf.when # NoCondition => wf.when \in Seq(Range(wf.when))

\* The file says so, and no step of the walk changes it.
LEMMA ListInductive == PlanSpec => []ListInv
<1>1. PlanInit => ListInv
  <2> SUFFICES ASSUME PlanInit PROVE ListInv
    OBVIOUS
  <2>1. PICK family \in Families : wf \in family
    BY DEF PlanInit, Accepted
  <2> QED
    BY <2>1, WorkflowsAssumption DEF ListInv
<1>2. ListInv /\ [PlanNext]_planVars => ListInv'
  BY DEF PlanNext, ListInv, planVars
<1> QED
  BY <1>1, <1>2, PTL DEF PlanSpec

----------------------------------------------------------------------------
(* The theorems. *)

\* While the IDs of different jobs are apart, expansion makes no cycle, so that
\* Build cannot fail after Validate (engine.go:55-56); whatever the IDs are, the
\* parent a job inherits from is one job, the written one, still among its needs.
THEOREM ExpansionIsValid == PlanSpec => []ExpansionStaysValid
<1>1. PlanInv => ExpansionStaysValid
  <2> SUFFICES ASSUME PlanInv, call = "run"
               PROVE  /\ JobsApart(wf) => pc # "cycle"
                      /\ \A id \in Nodes :
                           LET p == wf.inherit[origin[id][1]]
                           IN  p # NoJob => p \in NeedSet(deps, id) /\ origin[p] = <<p, <<>>>>
    BY DEF ExpansionStaysValid
  <2>1. IsWorkflow(wf) /\ Valid(wf) /\ IsOrigin(wf, origin) /\ deps = ExpandMatrix(wf, origin) /\ IInv
    BY DEF PlanInv, RunInv
  <2>2. JobsApart(wf) => pc # "cycle"
    BY <2>1, ExpansionAcyclic, ReportsCycles DEF CyclesReported
  <2>3. ASSUME NEW id \in Nodes, wf.inherit[origin[id][1]] # NoJob
        PROVE  LET p == wf.inherit[origin[id][1]]
               IN  p \in NeedSet(deps, id) /\ origin[p] = <<p, <<>>>>
    <3> DEFINE J == JobsOf(wf)
               j == origin[id][1]
               p == wf.inherit[j]
    <3>1. /\ Nodes = AllIds(wf, J)
          /\ \A i \in AllIds(wf, J) : NeedSet(deps, i) = AllIds(wf, NeedSet(wf.needs, origin[i][1]))
      BY <2>1, ExpansionIs DEF Nodes
    <3>2. j \in J
      BY <2>1, <3>1 DEF IsOrigin
    <3>3. ~IsMatrix(wf, p) /\ p \in NeedSet(wf.needs, j)
      BY <2>1, <2>3, <3>2 DEF Valid, InheritValid
    <3>4. p \in J
      BY <2>1, <2>3, <3>2 DEF IsWorkflow
    <3> HIDE DEF J, p
    <3>5. p \in IdsFor(wf, p)
      <4>1. CopiesOf(wf, p) = << <<p, <<>>>> >>
        BY <2>1, <3>3, <3>4, ExpandedShape DEF J
      <4>2. IdsFor(wf, p) = {ComboId(wf, copy) : copy \in Range(CopiesOf(wf, p))}
        BY <2>1, <3>4, ExpandedShape DEF J
      <4>3. <<p, <<>>>> \in Range(CopiesOf(wf, p))
        BY <4>1 DEF Range
      <4>4. ComboId(wf, <<p, <<>>>>) = p
        BY DEF ComboId
      <4> QED
        BY <4>2, <4>3, <4>4
    <3>6. p \in NeedSet(deps, id)
      BY <3>1, <3>3, <3>5 DEF AllIds
    <3>7. p \in AllIds(wf, J)
      BY <3>4, <3>5 DEF AllIds
    <3>8. origin[p] = <<p, <<>>>>
      BY <2>1, <3>3, <3>4, <3>7 DEF IsOrigin, J
    <3> QED
      BY <3>6, <3>8 DEF p
  <2> QED
    BY <2>2, <2>3
<1> QED
  BY <1>1, PlanInductive, PTL

\* While the IDs of different jobs are apart, what is upstream of an expanded job is
\* what was written upstream of its own, with all its combinations; and where no two
\* copies share an ID, each combination of each job is there, as itself.
THEOREM FanOutIsExact == PlanSpec => []FanOutExact
<1>1. PlanInv => FanOutExact
  <2> SUFFICES ASSUME PlanInv, call = "run"
               PROVE  /\ JobsApart(wf) => \A id \in Nodes :
                           Upstream(deps, id) = IdsOf(Upstream(wf.needs, origin[id][1]))
                      /\ IdsApart(wf) => \A copy \in Copies(wf) :
                           ComboId(wf, copy) \in Nodes /\ origin[ComboId(wf, copy)] = copy
    BY DEF FanOutExact
  <2> DEFINE J == JobsOf(wf)
  <2>1. IsWorkflow(wf) /\ Valid(wf) /\ IsOrigin(wf, origin) /\ deps = ExpandMatrix(wf, origin)
    BY DEF PlanInv, RunInv
  <2>2. Nodes = AllIds(wf, J)
    BY <2>1, ExpansionIs DEF Nodes
  <2>3. \A S \in SUBSET J : AllIds(wf, S) = IdsOf(S)
    BY <2>1, AllIdsAre DEF IdsOf
  <2>4. ASSUME JobsApart(wf), NEW id \in Nodes
        PROVE  Upstream(deps, id) = IdsOf(Upstream(wf.needs, origin[id][1]))
    <3> DEFINE j == origin[id][1]
    <3>1. j \in J
      BY <2>1, <2>2 DEF IsOrigin
    <3>2. Upstream(wf.needs, j) \subseteq J
      <4>1. wf.needs \in [J -> Seq(J)] /\ IsFiniteSet(J)
        BY <2>1 DEF IsWorkflow
      <4> HIDE DEF J, j
      <4> QED
        BY <3>1, <4>1, UpstreamClosed
    <3>3. Upstream(deps, id) = AllIds(wf, Upstream(wf.needs, j))
      BY <2>1, <2>2, <2>4, ExpansionUpstream
    <3> QED
      BY <2>3, <3>2, <3>3
  <2>5. ASSUME IdsApart(wf), NEW copy \in Copies(wf)
        PROVE  ComboId(wf, copy) \in Nodes /\ origin[ComboId(wf, copy)] = copy
    <3> DEFINE id == ComboId(wf, copy)
    <3>1. id \in AllIds(wf, J)
      BY <2>1, AllIdsAre
    <3> HIDE DEF id
    <3>2. origin[id] \in Copies(wf) /\ ComboId(wf, origin[id]) = id
      BY <2>1, <3>1 DEF IsOrigin
    <3>3. origin[id] = copy
      BY <2>5, <3>2 DEF IdsApart, id
    <3> QED
      BY <2>2, <3>1, <3>3 DEF id
  <2> QED
    BY <2>4, <2>5
<1> QED
  BY <1>1, PlanInductive, PTL

\* What Dag's theorems say of any map holds of the two graphs that Build is
\* given for a file: the needs as written, which Validate builds before it knows
\* that they have no cycle, and the expanded ones of Run and DryRun.
THEOREM BothGraphsAreWalked == PlanSpec => [](Deterministic /\ CyclesReported /\ WavesExact)
<1>1. PlanInv => Deterministic
  BY DEF PlanInv, IInv, WalkInv
<1>2. PlanInv => CyclesReported /\ WavesExact
  BY ReportsCycles, PlansWaves DEF PlanInv
<1> QED
  BY <1>1, <1>2, PlanInductive, PTL

\* Every accepted list of steps, however long, runs of each chain the first
\* branch whose condition holds, also around calls and within their bodies.
THEOREM ChainsAreExact == PlanSpec => []ChainsExact
<1>1. PlanInv => ChainsExact
  <2> SUFFICES ASSUME PlanInv, call = "run" PROVE ChainsExact
    BY DEF ChainsExact
  <2>1. wf.steps \in Seq(Steps) /\ StepsValid(wf.steps)
    BY DEF PlanInv, RunInv, IsWorkflow, Valid
  <2> QED
    BY <2>1, ChainsOfSteps DEF ChainsExact
<1> QED
  BY <1>1, PlanInductive, PTL

\* A condition is accepted exactly when the grammar of the package's comment
\* derives it (cond.go:8-14), and then it has one meaning in every environment,
\* the one by which runOne decides: it cannot meet a condition it must refuse.
THEOREM ConditionsAreExact == PlanSpec => []ConditionExact
<1>1. PlanInv /\ ListInv => ConditionExact
  <2> SUFFICES ASSUME PlanInv, ListInv, wf.when # NoCondition
               PROVE  /\ call = "validate" => (Check(wf.when) <=> Meanings(wf.when, <<>>) # {})
                      /\ call = "run" =>
                           \A env \in Environments : Meanings(wf.when, env) = {JobRuns(wf, env)}
    BY DEF ConditionExact
  <2> DEFINE tokens == wf.when
  <2>1. tokens \in Seq(Range(tokens))
    BY DEF ListInv
  <2> HIDE DEF tokens
  <2>2. /\ Check(tokens) <=> Meanings(tokens, <<>>) # {}
        /\ Check(tokens) => \A env : /\ Meanings(tokens, env) = {Eval(tokens, env)}
                                     /\ Eval(tokens, env) \in BOOLEAN
    BY <2>1, ConditionMeans
  <2>3. ASSUME call = "run", NEW env \in Environments
        PROVE  Meanings(wf.when, env) = {JobRuns(wf, env)}
    <3>1. Check(tokens)
      BY <2>3 DEF PlanInv, RunInv, Valid, ConditionValid, tokens
    <3>2. Meanings(tokens, env) = {Eval(tokens, env)} /\ Eval(tokens, env) \in BOOLEAN
      BY <2>2, <3>1
    <3>3. JobRuns(wf, env) = Eval(tokens, env)
      <4>1. JobRuns(wf, env) = (wf.when # NoCondition => Eval(tokens, env))
        BY DEF JobRuns, tokens
      <4> QED
        BY <3>2, <4>1
    <3> QED
      BY <3>2, <3>3 DEF tokens
  <2> QED
    BY <2>2, <2>3 DEF tokens
<1> QED
  BY <1>1, PlanInductive, ListInductive, PTL
=============================================================================
