---------------------------- MODULE RenderProofs ----------------------------
(***************************************************************************)
(* Proofs about render, for any number of memories and of globs, entries   *)
(* of any length and any budget: what the loop over the memories of a      *)
(* section takes, and what the block therefore holds.                      *)
(***************************************************************************)
EXTENDS Render, FiniteSetTheorems, WellFoundedInduction, SequenceTheorems, TLAPS

-----------------------------------------------------------------------------
\* Counting up.  The recursive functions of Render run over the numbers up to n,
\* and what holds of them is shown by looking at the least number for which it
\* would not.

LEMMA LeastNumber ==
  ASSUME NEW T, T \subseteq Nat, T # {}
  PROVE  \E n \in T : \A k \in T : n <= k
<1> DEFINE below == {0..n : n \in T}
<1>1. below # {} /\ below \subseteq FiniteSubsetsOf(Nat)
  <2>1. \A n \in T : n \in Int /\ 0 \in Int /\ 0..n \in SUBSET Nat
    OBVIOUS
  <2>2. \A n \in T : IsFiniteSet(0..n)
    BY <2>1, FS_Interval
  <2> QED
    BY <2>1, <2>2, Zenon DEF FiniteSubsetsOf
<1>2. PICK X \in below : \A Y \in below : <<Y, X>> \notin StrictSubsetOrdering(Nat)
  <2> HIDE DEF below
  <2> QED
    BY <1>1, FS_StrictSubsetOrderingWellFounded, WFMin, Zenon
<1>3. PICK n \in T : X = 0..n
  OBVIOUS
<1>4. \A k \in T : n <= k
  <2>1. SUFFICES ASSUME NEW k \in T, k < n PROVE FALSE
    OBVIOUS
  <2>2. 0..k \in below /\ 0..k \subseteq 0..n /\ 0..k # 0..n
    BY <2>1
  <2> QED
    <3>1. ~ (0..k \subseteq X /\ 0..k # X)
      <4>1. <<0..k, X>> \notin StrictSubsetOrdering(Nat)
        BY <1>2, <2>2
      <4>2. 0..k \in SUBSET Nat /\ X \in SUBSET Nat
        BY <1>3
      <4> QED
        BY <4>1, <4>2, Zenon DEF StrictSubsetOrdering
    <3> QED
      BY <1>3, <2>2, <3>1
<1> QED
  BY <1>4

LEMMA CountingUp ==
  ASSUME NEW N \in Nat, NEW S, 0 \in S, \A n \in 1..N : n - 1 \in S => n \in S
  PROVE  \A n \in 0..N : n \in S
<1> DEFINE T == {n \in 0..N : n \notin S}
<1>1. SUFFICES ASSUME T # {} PROVE FALSE
  OBVIOUS
<1>2. PICK m \in T : \A k \in T : m <= k
  <2>1. T \subseteq Nat
    OBVIOUS
  <2> HIDE DEF T
  <2> QED
    BY <1>1, <2>1, LeastNumber
<1>3. m \in 1..N /\ m - 1 \in 0..N /\ m - 1 \notin T
  BY <1>2
<1> QED
  BY <1>2, <1>3

\* A function may be defined by its value at 0 and each next value by the one before.
Unfolds(f, N, V, base, step) ==
  f \in [0..N -> V] /\ f[0] = base /\ \A n \in 1..N : f[n] = step[n][f[n - 1]]

LEMMA Recursion ==
  ASSUME NEW N \in Nat, NEW V, NEW base \in V, NEW step \in [1..N -> [V -> V]]
  PROVE  \E f : Unfolds(f, N, V, base, step)
<1> DEFINE Upto(f, m) == Unfolds(f, m, V, base, step)
           T == {m \in 0..N : ~\E f : Upto(f, m)}
<1> USE DEF Unfolds
<1>1. SUFFICES ASSUME T # {} PROVE FALSE
  <2>1. ~(N \in T) => \E f : Upto(f, N)
    OBVIOUS
  <2> QED
    BY <1>1, <2>1
<1>2. PICK m \in T : \A k \in T : m <= k
  <2>1. T \subseteq Nat
    OBVIOUS
  <2> HIDE DEF T
  <2> QED
    BY <1>1, <2>1, LeastNumber
<1>3. m # 0
  <2> DEFINE f == [n \in 0..0 |-> base]
  <2>1. Upto(f, 0)
    OBVIOUS
  <2> QED
    BY <2>1
<1>4. m - 1 \in 0..N /\ m - 1 \notin T /\ m \in 1..N
  <2> HIDE DEF Upto
  <2> QED
    BY <1>2, <1>3
<1>5. PICK f : Upto(f, m - 1)
  BY <1>4
<1> DEFINE g == [n \in 0..m |-> IF n = m THEN step[m][f[m - 1]] ELSE f[n]]
<1>6. f[m - 1] \in V /\ step[m][f[m - 1]] \in V
  BY <1>4, <1>5
<1>7. g \in [0..m -> V] /\ g[0] = base
  <2>1. \A n \in 0..m : n # m => f[n] \in V
    BY <1>4, <1>5
  <2> QED
    BY <1>4, <1>5, <1>6, <2>1
<1>8. \A n \in 1..m : g[n] = step[n][g[n - 1]]
  <2> TAKE n \in 1..m
  <2>1. n - 1 \in 0..m /\ n - 1 # m /\ g[n - 1] = f[n - 1]
    BY <1>4
  <2>2. CASE n = m
    BY <2>1, <2>2
  <2>3. CASE n # m
    <3>1. n \in 1..(m - 1) /\ g[n] = f[n]
      BY <1>4, <2>3
    <3> QED
      BY <1>5, <2>1, <3>1
  <2> QED
    BY <2>2, <2>3
<1>9. Upto(g, m)
  BY <1>7, <1>8
<1> QED
  BY <1>2, <1>9

\* The sum is what its name says.

LEMMA SumUnfolds ==
  ASSUME NEW n \in Nat, NEW f, \A k \in 1..n : f[k] \in Nat
  PROVE  \E s \in [0..n -> Nat] :
           /\ s[0] = 0 /\ \A k \in 1..n : s[k] = s[k - 1] + f[k]
           /\ Sum(f, n) = s[n]
<1> DEFINE Body(s) == [k \in 0..n |-> IF k = 0 THEN 0 ELSE s[k - 1] + f[k]]
           upTo == CHOOSE s : s = Body(s)
           step == [k \in 1..n |-> [v \in Nat |-> v + f[k]]]
<1>1. step \in [1..n -> [Nat -> Nat]]
  OBVIOUS
<1>2. PICK s : Unfolds(s, n, Nat, 0, step)
  <2>1. 0 \in Nat
    OBVIOUS
  <2> HIDE DEF step
  <2> QED
    BY <1>1, <2>1, Recursion
<1> USE DEF Unfolds
<1>3. \A k \in 1..n : s[k] = s[k - 1] + f[k]
  <2> TAKE k \in 1..n
  <2>1. s[k - 1] \in Nat
    BY <1>2
  <2>2. step[k][s[k - 1]] = s[k - 1] + f[k]
    BY <2>1
  <2> QED
    BY <1>2, <2>2
<1> HIDE DEF step
<1>4. s = Body(s)
  <2>1. \A k \in 0..n : s[k] = IF k = 0 THEN 0 ELSE s[k - 1] + f[k]
    BY <1>2, <1>3
  <2> QED
    BY <1>2, <2>1
<1>5. upTo = Body(upTo)
  <2> HIDE DEF Body
  <2> QED
    BY <1>4
<1>6. DOMAIN upTo = 0..n /\ \A k \in 0..n : upTo[k] = IF k = 0 THEN 0 ELSE upTo[k - 1] + f[k]
  <2> HIDE DEF upTo
  <2> QED
    BY <1>5
<1>7. Sum(f, n) = upTo[n]
  BY DEF Sum
<1> HIDE DEF upTo, Body
<1>8. \A k \in 0..n : k \in {j \in 0..n : upTo[j] \in Nat}
  <2> DEFINE S == {j \in 0..n : upTo[j] \in Nat}
  <2>1. 0 \in S
    BY <1>6
  <2>2. \A k \in 1..n : k - 1 \in S => k \in S
    <3> SUFFICES ASSUME NEW k \in 1..n, upTo[k - 1] \in Nat PROVE upTo[k] \in Nat
      OBVIOUS
    <3>1. upTo[k] = upTo[k - 1] + f[k] /\ f[k] \in Nat
      BY <1>6
    <3> QED
      BY <3>1
  <2> HIDE DEF S
  <2>3. \A k \in 0..n : k \in S
    BY <2>1, <2>2, CountingUp
  <2> QED
    BY <2>3 DEF S
<1>9. upTo \in [0..n -> Nat]
  BY <1>5, <1>8 DEF Body
<1>10. upTo[0] = 0 /\ \A k \in 1..n : upTo[k] = upTo[k - 1] + f[k]
  BY <1>6
<1> QED
  BY <1>7, <1>9, <1>10
LEMMA SumSteps ==
  ASSUME NEW n \in Nat, NEW f, \A k \in 1..n : f[k] \in Nat
  PROVE  /\ Sum(f, n) \in Nat
         /\ n > 0 => Sum(f, n) = Sum(f, n - 1) + f[n]
         /\ n = 0 => Sum(f, n) = 0
<1>1. PICK s \in [0..n -> Nat] :
         /\ s[0] = 0 /\ \A k \in 1..n : s[k] = s[k - 1] + f[k]
         /\ Sum(f, n) = s[n]
  BY SumUnfolds
<1>2. CASE n = 0
  BY <1>1, <1>2
<1>3. CASE n # 0
  <2> DEFINE m == n - 1
  <2>1. m \in Nat /\ n \in 1..n /\ m \in 0..n /\ \A k \in 1..m : f[k] \in Nat /\ k \in 1..n
    BY <1>3
  <2> HIDE DEF m
  <2>2. PICK r \in [0..m -> Nat] :
           /\ r[0] = 0 /\ \A k \in 1..m : r[k] = r[k - 1] + f[k]
           /\ Sum(f, m) = r[m]
    BY <2>1, SumUnfolds
  <2> DEFINE S == {k \in 0..m : r[k] = s[k]}
  <2>3. 0 \in S
    BY <1>1, <2>1, <2>2
  <2>4. \A k \in 1..m : k - 1 \in S => k \in S
    BY <1>1, <2>1, <2>2
  <2> HIDE DEF S
  <2>5. \A k \in 0..m : k \in S
    BY <2>1, <2>3, <2>4, CountingUp
  <2>6. r[m] = s[m]
    BY <2>1, <2>5 DEF S
  <2>7. s[n] = s[n - 1] + f[n]
    BY <1>1, <2>1
  <2>8. Sum(f, n) = Sum(f, m) + f[n]
    BY <1>1, <2>2, <2>6, <2>7 DEF m
  <2>9. Sum(f, n) \in Nat /\ n > 0
    <3>1. n \in 0..n /\ n > 0
      BY <1>3
    <3> QED
      BY <1>1, <3>1
  <2> QED
    BY <1>3, <2>8, <2>9 DEF m
<1> QED
  BY <1>2, <1>3

LEMMA SumAgrees ==
  ASSUME NEW n \in Nat, NEW f, NEW g, \A k \in 1..n : f[k] \in Nat /\ g[k] = f[k]
  PROVE  Sum(f, n) = Sum(g, n)
<1>1. PICK s \in [0..n -> Nat] :
         /\ s[0] = 0 /\ \A k \in 1..n : s[k] = s[k - 1] + f[k]
         /\ Sum(f, n) = s[n]
  BY SumUnfolds
<1>2. PICK r \in [0..n -> Nat] :
         /\ r[0] = 0 /\ \A k \in 1..n : r[k] = r[k - 1] + g[k]
         /\ Sum(g, n) = r[n]
  <2>1. \A k \in 1..n : g[k] \in Nat
    OBVIOUS
  <2> QED
    BY <2>1, SumUnfolds
<1> DEFINE S == {k \in 0..n : r[k] = s[k]}
<1>3. 0 \in S
  BY <1>1, <1>2
<1>4. \A k \in 1..n : k - 1 \in S => k \in S
  BY <1>1, <1>2
<1> HIDE DEF S
<1>5. \A k \in 0..n : k \in S
  BY <1>3, <1>4, CountingUp
<1> QED
  BY <1>1, <1>2, <1>5 DEF S

\* The characters of the chosen memories, one memory more.
LEMMA LinesStep ==
  ASSUME NEW length \in [Memories -> Nat], NEW chosen, NEW n \in 0..Count
  PROVE  /\ Lines(chosen, length, n) \in Nat
         /\ n = 0 => Lines(chosen, length, n) = 0
         /\ n > 0 => Lines(chosen, length, n) =
                       Lines(chosen, length, n - 1) + IF n \in chosen THEN length[n] + 1 ELSE 0
<1> DEFINE F(m) == [k \in 1..m |-> IF k \in chosen THEN length[k] + 1 ELSE 0]
<1>1. n \in Nat /\ \A k \in 1..n : F(n)[k] \in Nat /\ k \in Memories
  <2>1. n \in Nat /\ \A k \in 1..n : k \in Memories
    BY LengthsAssumption DEF Memories
  <2> QED
    BY <2>1
<1>2. \A m : Lines(chosen, length, m) = Sum(F(m), m)
  BY DEF Lines
<1>3. CASE n = 0
  <2> HIDE DEF F
  <2> QED
    BY <1>1, <1>2, <1>3, SumSteps
<1>4. CASE n # 0
  <2>1. n - 1 \in Nat /\ \A k \in 1..(n - 1) : F(n)[k] \in Nat /\ F(n - 1)[k] = F(n)[k]
    BY <1>1, <1>4
  <2>2. F(n)[n] = IF n \in chosen THEN length[n] + 1 ELSE 0
    BY <1>1, <1>4
  <2> HIDE DEF F
  <2>3. Sum(F(n), n) = Sum(F(n), n - 1) + F(n)[n] /\ Sum(F(n), n) \in Nat
    BY <1>1, <1>4, SumSteps
  <2>4. Sum(F(n), n - 1) = Sum(F(n - 1), n - 1)
    BY <2>1, SumAgrees
  <2> QED
    BY <1>2, <1>4, <2>2, <2>3, <2>4
<1> QED
  BY <1>3, <1>4

\* They depend on the choice among those memories only.
LEMMA LinesAgree ==
  ASSUME NEW length \in [Memories -> Nat], NEW other \in [Memories -> Nat],
         NEW chosen, NEW ones, NEW n \in 0..Count,
         \A m \in 1..n : other[m] = length[m] /\ (m \in ones <=> m \in chosen)
  PROVE  Lines(chosen, length, n) = Lines(ones, other, n)
<1> DEFINE F == [k \in 1..n |-> IF k \in chosen THEN length[k] + 1 ELSE 0]
           G == [k \in 1..n |-> IF k \in ones THEN other[k] + 1 ELSE 0]
<1>1. n \in Nat /\ \A k \in 1..n : k \in Memories
  BY LengthsAssumption DEF Memories
<1>2. \A k \in 1..n : F[k] \in Nat /\ G[k] = F[k]
  BY <1>1
<1> HIDE DEF F, G
<1>3. Sum(F, n) = Sum(G, n)
  BY <1>1, <1>2, SumAgrees
<1> QED
  BY <1>3 DEF Lines, F, G
-----------------------------------------------------------------------------
\* The loop over the memories of a section.

Acc == [entries : Seq(Memories), used : Nat, demoted : Nat]

\* What it does with the n-th memory.
Take(acc, n, ms, length, budget) ==
  IF n \notin ms THEN acc
  ELSE IF acc.used + length[n] > budget THEN [acc EXCEPT !.demoted = @ + 1]
  ELSE [acc EXCEPT !.used = @ + length[n] + 1, !.entries = Append(@, n)]

LEMMA TakeType ==
  ASSUME NEW acc \in Acc, NEW n \in Memories, NEW ms,
         NEW length \in [Memories -> Nat], NEW budget
  PROVE  Take(acc, n, ms, length, budget) \in Acc
<1>1. Append(acc.entries, n) \in Seq(Memories)
  BY AppendProperties DEF Acc
<1>2. length[n] \in Nat /\ acc.used + length[n] + 1 \in Nat /\ acc.demoted + 1 \in Nat
  BY DEF Acc
<1> QED
  BY <1>1, <1>2 DEF Take, Acc

LEMMA TakenUnfolds ==
  ASSUME NEW ms, NEW length \in [Memories -> Nat], NEW budget
  PROVE  LET t == Taken(ms, length, budget)
         IN  /\ t \in [0..Count -> Acc]
             /\ t[0] = Nothing
             /\ \A n \in 1..Count : t[n] = Take(t[n - 1], n, ms, length, budget)
<1> DEFINE Body(t) == [n \in 0..Count |->
                         IF n = 0 THEN Nothing ELSE Take(t[n - 1], n, ms, length, budget)]
           t == CHOOSE u : u = Body(u)
           step == [n \in 1..Count |-> [acc \in Acc |-> Take(acc, n, ms, length, budget)]]
<1>1. Nothing \in Acc /\ Count \in Nat /\ 1..Count = Memories
  BY LengthsAssumption DEF Nothing, Acc, Memories
<1>2. step \in [1..Count -> [Acc -> Acc]]
  BY <1>1, TakeType
<1>3. PICK u : Unfolds(u, Count, Acc, Nothing, step)
  <2> HIDE DEF step
  <2> QED
    BY <1>1, <1>2, Recursion
<1>4. u \in [0..Count -> Acc] /\ u[0] = Nothing
  BY <1>3 DEF Unfolds
<1>5. \A n \in 1..Count : u[n] = Take(u[n - 1], n, ms, length, budget)
  <2> TAKE n \in 1..Count
  <2>1. u[n - 1] \in Acc
    BY <1>1, <1>4
  <2>2. step[n][u[n - 1]] = Take(u[n - 1], n, ms, length, budget)
    BY <2>1
  <2> QED
    BY <1>3, <2>2 DEF Unfolds
<1>6. u = Body(u)
  <2>1. \A n \in 0..Count : u[n] = IF n = 0 THEN Nothing ELSE Take(u[n - 1], n, ms, length, budget)
    BY <1>1, <1>4, <1>5
  <2> QED
    BY <1>4, <2>1
<1>7. t = Body(t)
  <2> HIDE DEF Body
  <2> QED
    BY <1>6
<1>8. Taken(ms, length, budget) = t
  BY DEF Taken, Take
<1> HIDE DEF t
<1>9. t[0] = Nothing /\ \A n \in 1..Count : t[n] = Take(t[n - 1], n, ms, length, budget)
  BY <1>1, <1>7
<1>10. \A n \in 0..Count : t[n] \in Acc
  <2> DEFINE S == {n \in 0..Count : t[n] \in Acc}
  <2>1. 0 \in S
    BY <1>1, <1>9
  <2>2. \A n \in 1..Count : n - 1 \in S => n \in S
    <3> SUFFICES ASSUME NEW n \in 1..Count, t[n - 1] \in Acc PROVE t[n] \in Acc
      OBVIOUS
    <3> QED
      BY <1>1, <1>9, TakeType
  <2> HIDE DEF S
  <2>3. \A n \in 0..Count : n \in S
    BY <1>1, <2>1, <2>2, CountingUp
  <2> QED
    BY <2>3 DEF S
<1>11. t \in [0..Count -> Acc]
  BY <1>7, <1>10
<1> QED
  BY <1>8, <1>9, <1>11
\* What the loop has done after the n-th memory.

Chosen(acc) == Range(acc.entries)
UpTo(ms, n) == ms \cap (1..n)

InItsSection(acc, n, ms) == IsInjective(acc.entries) /\ Chosen(acc) \subseteq UpTo(ms, n)
CountsChars(acc, n, length, budget) ==
  acc.used = Lines(Chosen(acc), length, n) /\ acc.used <= budget + 1
CountsRest(acc, n, ms) == acc.demoted = Cardinality(UpTo(ms, n) \ Chosen(acc))
FitsFirst(acc, n, ms, length, budget) ==
  FirstFit(UpTo(ms, n), Chosen(acc), length, budget)

LoopInv(acc, n, ms, length, budget) ==
  /\ InItsSection(acc, n, ms) /\ CountsChars(acc, n, length, budget)
  /\ CountsRest(acc, n, ms) /\ FitsFirst(acc, n, ms, length, budget)

LEMMA OneMore ==
  ASSUME NEW n \in 1..Count, NEW ms
  PROVE  /\ n \in Nat /\ n - 1 \in Nat /\ n \in Memories /\ n \in 0..Count /\ n - 1 \in 0..Count
         /\ n \in ms => UpTo(ms, n) = UpTo(ms, n - 1) \cup {n}
         /\ n \notin ms => UpTo(ms, n) = UpTo(ms, n - 1)
         /\ n \notin UpTo(ms, n - 1)
         /\ \A m \in UpTo(ms, n) : m \in 1..n /\ m \in Memories /\ m - 1 \in 0..Count
         /\ \A m \in UpTo(ms, n - 1) : m \in 1..(n - 1) /\ m < n
BY LengthsAssumption DEF UpTo, Memories

LEMMA FiniteUpTo ==
  ASSUME NEW n \in Nat, NEW ms
  PROVE  IsFiniteSet(UpTo(ms, n))
<1>1. IsFiniteSet(1..n)
  BY FS_Interval
<1> QED
  BY <1>1, FS_Subset DEF UpTo

\* Appending the next memory.
LEMMA AppendNext ==
  ASSUME NEW s \in Seq(Memories), NEW n \in Memories, n \notin Range(s), IsInjective(s)
  PROVE  IsInjective(Append(s, n)) /\ Range(Append(s, n)) = Range(s) \cup {n}
<1> DEFINE t == Append(s, n)
<1>1. /\ Len(t) = Len(s) + 1 /\ Len(s) \in Nat
      /\ \A i \in 1..Len(s) : t[i] = s[i]
      /\ t[Len(s) + 1] = n /\ DOMAIN t = 1..(Len(s) + 1) /\ DOMAIN s = 1..Len(s)
  BY AppendProperties
<1> HIDE DEF t
<1>2. Range(t) = Range(s) \cup {n}
  BY <1>1 DEF Range
<1>3. IsInjective(t)
  BY <1>1 DEF IsInjective, Range
<1> QED
  BY <1>2, <1>3 DEF t
\* One memory further, what was chosen before takes as many characters as before.

LEMMA LinesBefore ==
  ASSUME NEW length \in [Memories -> Nat], NEW n \in 1..Count, NEW chosen,
         NEW m \in 0..Count, m < n
  PROVE  Lines(chosen \cup {n}, length, m) = Lines(chosen, length, m)
<1> DEFINE more == chosen \cup {n}
<1>1. \A k \in 1..m : k \in chosen <=> k \in more
  BY LengthsAssumption
<1> HIDE DEF more
<1>2. Lines(chosen, length, m) = Lines(more, length, m)
  BY <1>1, LinesAgree
<1> QED
  BY <1>2 DEF more

LEMMA LinesWithout ==
  ASSUME NEW length \in [Memories -> Nat], NEW n \in 1..Count, NEW chosen, n \notin chosen
  PROVE  /\ Lines(chosen, length, n) = Lines(chosen, length, n - 1)
         /\ Lines(chosen, length, n - 1) \in Nat
<1>1. n \in 0..Count /\ n > 0 /\ n - 1 \in 0..Count
  BY OneMore
<1>2. Lines(chosen, length, n - 1) \in Nat
  BY <1>1, LinesStep
<1>3. Lines(chosen, length, n) = Lines(chosen, length, n - 1) + 0
  BY <1>1, LinesStep
<1> QED
  BY <1>2, <1>3

LEMMA LinesWith ==
  ASSUME NEW length \in [Memories -> Nat], NEW n \in 1..Count, NEW chosen
  PROVE  /\ Lines(chosen \cup {n}, length, n) = Lines(chosen, length, n - 1) + length[n] + 1
         /\ Lines(chosen, length, n - 1) \in Nat
<1> DEFINE more == chosen \cup {n}
<1>1. n \in 0..Count /\ n > 0 /\ n - 1 \in 0..Count /\ n \in Memories /\ n - 1 < n /\ n \in more
  BY OneMore
<1>2. Lines(more, length, n - 1) = Lines(chosen, length, n - 1)
  BY <1>1, LinesBefore
<1> HIDE DEF more
<1>3. Lines(chosen, length, n - 1) \in Nat /\ length[n] \in Nat
  BY <1>1, LinesStep
<1>4. Lines(more, length, n) = Lines(more, length, n - 1) + (length[n] + 1)
  BY <1>1, LinesStep
<1>5. Lines(more, length, n) = Lines(chosen, length, n - 1) + length[n] + 1
  BY <1>2, <1>3, <1>4
<1> QED
  BY <1>3, <1>5 DEF more

LEMMA LoopStarts ==
  ASSUME NEW ms, NEW length \in [Memories -> Nat], NEW budget \in Nat
  PROVE  LoopInv(Nothing, 0, ms, length, budget)
<1>1. Chosen(Nothing) = {} /\ UpTo(ms, 0) = {}
  BY DEF Chosen, Nothing, Range, UpTo
<1>2. InItsSection(Nothing, 0, ms)
  BY <1>1 DEF InItsSection, Nothing, IsInjective
<1>3. CountsChars(Nothing, 0, length, budget)
  <2>1. 0 \in 0..Count
    BY LengthsAssumption
  <2>2. Lines({}, length, 0) = 0
    BY <2>1, LinesStep
  <2>3. Nothing.used = 0 /\ 0 <= budget + 1
    BY DEF Nothing
  <2> QED
    BY <1>1, <2>2, <2>3 DEF CountsChars
<1>4. CountsRest(Nothing, 0, ms)
  <2>1. {} \ {} = {} /\ Cardinality({}) = 0
    BY FS_EmptySet
  <2> QED
    BY <1>1, <2>1 DEF CountsRest, Nothing
<1>5. FitsFirst(Nothing, 0, ms, length, budget)
  BY <1>1 DEF FitsFirst, FirstFit
<1> QED
  BY <1>2, <1>3, <1>4, <1>5 DEF LoopInv

LEMMA LoopSkips ==
  ASSUME NEW ms, NEW length \in [Memories -> Nat], NEW budget \in Nat,
         NEW n \in 1..Count, NEW acc \in Acc, LoopInv(acc, n - 1, ms, length, budget),
         n \notin ms
  PROVE  LoopInv(acc, n, ms, length, budget)
<1>1. UpTo(ms, n) = UpTo(ms, n - 1)
  BY OneMore
<1>2. n \notin Chosen(acc)
  BY OneMore DEF LoopInv, InItsSection
<1>3. Lines(Chosen(acc), length, n) = Lines(Chosen(acc), length, n - 1)
  BY <1>2, LinesWithout
<1> QED
  BY <1>1, <1>3 DEF LoopInv, InItsSection, CountsChars, CountsRest, FitsFirst

LEMMA LoopDemotes ==
  ASSUME NEW ms, NEW length \in [Memories -> Nat], NEW budget \in Nat,
         NEW n \in 1..Count, NEW acc \in Acc, LoopInv(acc, n - 1, ms, length, budget),
         n \in ms, acc.used + length[n] > budget
  PROVE  LoopInv([acc EXCEPT !.demoted = @ + 1], n, ms, length, budget)
<1> DEFINE more == [acc EXCEPT !.demoted = @ + 1]
           C == Chosen(acc)
<1>1. /\ more.used = acc.used /\ more.demoted = acc.demoted + 1 /\ Chosen(more) = C
      /\ more.entries = acc.entries
  BY DEF Acc, Chosen
<1> HIDE DEF more
<1>2. C \subseteq UpTo(ms, n - 1) /\ n \notin C
  BY OneMore DEF LoopInv, InItsSection
<1>4. Lines(C, length, n) = Lines(C, length, n - 1) /\ Lines(C, length, n - 1) \in Nat
  BY <1>2, LinesWithout
<1>5. UpTo(ms, n) = UpTo(ms, n - 1) \cup {n} /\ n \notin UpTo(ms, n - 1)
  BY OneMore
<1>6. InItsSection(more, n, ms)
  BY <1>1, <1>2, <1>5 DEF LoopInv, InItsSection
<1>7. CountsChars(more, n, length, budget)
  BY <1>1, <1>4 DEF LoopInv, CountsChars
<1>8. CountsRest(more, n, ms)
  <2>1. IsFiniteSet(UpTo(ms, n - 1) \ C)
    BY OneMore, FiniteUpTo, FS_Subset
  <2>2. UpTo(ms, n) \ C = (UpTo(ms, n - 1) \ C) \cup {n} /\ n \notin UpTo(ms, n - 1) \ C
    BY <1>2, <1>5
  <2>3. Cardinality(UpTo(ms, n) \ C) = Cardinality(UpTo(ms, n - 1) \ C) + 1
    BY <2>1, <2>2, FS_AddElement
  <2> QED
    BY <1>1, <2>3 DEF LoopInv, CountsRest
<1>9. FitsFirst(more, n, ms, length, budget)
  <2>1. n \notin C
    BY <1>2, <1>5
  <2>2. Lines(C, length, n - 1) + length[n] > budget /\ Lines(C, length, n - 1) \in Nat
    BY <1>4 DEF LoopInv, CountsChars
  <2>3. ~(Lines(C, length, n - 1) + length[n] <= budget)
    BY <2>2, OneMore
  <2> QED
    BY <1>1, <1>5, <2>1, <2>3 DEF LoopInv, FitsFirst, FirstFit
<1> QED
  BY <1>6, <1>7, <1>8, <1>9 DEF LoopInv, more

LEMMA LoopTakes ==
  ASSUME NEW ms, NEW length \in [Memories -> Nat], NEW budget \in Nat,
         NEW n \in 1..Count, NEW acc \in Acc, LoopInv(acc, n - 1, ms, length, budget),
         n \in ms, ~(acc.used + length[n] > budget), NEW more,
         more = [acc EXCEPT !.used = @ + length[n] + 1, !.entries = Append(@, n)]
  PROVE  LoopInv(more, n, ms, length, budget)
<1> DEFINE C == Chosen(acc)
           D == C \cup {n}
<1>1. /\ more.used = acc.used + length[n] + 1 /\ more.demoted = acc.demoted
      /\ more.entries = Append(acc.entries, n)
  BY DEF Acc
<1>2. C \subseteq UpTo(ms, n - 1) /\ IsInjective(acc.entries)
  BY OneMore DEF LoopInv, InItsSection
<1>3. n - 1 \in 0..Count /\ n - 1 < n /\ n \in Memories /\ n \in Nat
  BY OneMore
<1>4. UpTo(ms, n) = UpTo(ms, n - 1) \cup {n} /\ n \notin UpTo(ms, n - 1)
  BY OneMore
<1>5. n \notin C
  BY <1>2, <1>4
<1>6. IsInjective(more.entries) /\ Chosen(more) = D
  <2>1. acc.entries \in Seq(Memories) /\ n \notin Range(acc.entries)
    BY <1>5 DEF Acc, Chosen
  <2> QED
    BY <1>1, <1>2, <1>3, <2>1, AppendNext DEF Chosen
<1>7. \A m \in 0..Count : m < n => Lines(D, length, m) = Lines(C, length, m)
  BY LinesBefore
<1>8. /\ Lines(D, length, n) = Lines(C, length, n - 1) + length[n] + 1
      /\ Lines(C, length, n - 1) \in Nat
  BY LinesWith
<1>9. acc.used = Lines(C, length, n - 1) /\ length[n] \in Nat
  BY <1>3 DEF LoopInv, CountsChars
<1>10. InItsSection(more, n, ms)
  BY <1>2, <1>4, <1>6 DEF InItsSection
<1>11. CountsChars(more, n, length, budget)
  <2>1. more.used <= budget + 1
    BY <1>1, <1>8, <1>9
  <2> QED
    BY <1>1, <1>6, <1>8, <1>9, <2>1 DEF CountsChars
<1>12. CountsRest(more, n, ms)
  <2>1. UpTo(ms, n) \ D = UpTo(ms, n - 1) \ C
    BY <1>2, <1>4
  <2> QED
    BY <1>1, <1>6, <2>1 DEF LoopInv, CountsRest
<1>13. FitsFirst(more, n, ms, length, budget)
  <2>1. Lines(D, length, n - 1) + length[n] <= budget
    <3>1. Lines(D, length, n - 1) = Lines(C, length, n - 1)
      BY <1>3, <1>7
    <3> QED
      BY <1>8, <1>9, <3>1
  <2>2. \A m \in UpTo(ms, n - 1) : m - 1 \in 0..Count /\ m - 1 < n /\ m # n
    <3> TAKE m \in UpTo(ms, n - 1)
    <3>1. m \in 1..(n - 1)
      BY OneMore
    <3> QED
      BY <1>3, <3>1, LengthsAssumption
  <2>3. \A m \in UpTo(ms, n - 1) :
          m \in D <=> Lines(D, length, m - 1) + length[m] <= budget
    <3> TAKE m \in UpTo(ms, n - 1)
    <3>1. m \in C <=> Lines(C, length, m - 1) + length[m] <= budget
      BY DEF LoopInv, FitsFirst, FirstFit
    <3> QED
      BY <1>7, <2>2, <3>1
  <2> QED
    BY <1>4, <1>6, <2>1, <2>3 DEF FitsFirst, FirstFit
<1> QED
  BY <1>10, <1>11, <1>12, <1>13 DEF LoopInv

\* What holds of the loop when it ends, for a section of any memories.
LEMMA LoopHolds ==
  ASSUME NEW ms, NEW length \in [Memories -> Nat], NEW budget \in Nat, NEW n \in 0..Count
  PROVE  LoopInv(Taken(ms, length, budget)[n], n, ms, length, budget)
<1> DEFINE t == Taken(ms, length, budget)
           S == {k \in 0..Count : LoopInv(t[k], k, ms, length, budget)}
<1>1. /\ t \in [0..Count -> Acc] /\ t[0] = Nothing
      /\ \A k \in 1..Count : t[k] = Take(t[k - 1], k, ms, length, budget)
  BY TakenUnfolds
<1> HIDE DEF t
<1>2. 0 \in S
  BY <1>1, LoopStarts, LengthsAssumption
<1>3. \A k \in 1..Count : k - 1 \in S => k \in S
  <2> SUFFICES ASSUME NEW k \in 1..Count, LoopInv(t[k - 1], k - 1, ms, length, budget)
               PROVE  LoopInv(t[k], k, ms, length, budget)
    BY OneMore
  <2>1. t[k - 1] \in Acc /\ t[k] = Take(t[k - 1], k, ms, length, budget)
    BY <1>1, OneMore
  <2>2. CASE k \notin ms
    BY <2>1, <2>2, LoopSkips DEF Take
  <2>3. CASE k \in ms /\ t[k - 1].used + length[k] > budget
    BY <2>1, <2>3, LoopDemotes DEF Take
  <2>4. CASE k \in ms /\ ~(t[k - 1].used + length[k] > budget)
    <3>1. t[k] = [t[k - 1] EXCEPT !.used = @ + length[k] + 1, !.entries = Append(@, k)]
      BY <2>1, <2>4 DEF Take
    <3> QED
      BY <2>1, <2>4, <3>1, LoopTakes
  <2> QED
    BY <2>2, <2>3, <2>4
<1> HIDE DEF S
<1>4. n \in S
  BY <1>2, <1>3, CountingUp, LengthsAssumption
<1> QED
  BY <1>4 DEF S, t

\* What is taken of a section of memories in the end.

LEMMA UpToAll ==
  ASSUME NEW ms, ms \subseteq Memories
  PROVE  Count \in 0..Count /\ 0 \in 0..Count /\ UpTo(ms, Count) = ms /\ UpTo(ms, 0) = {}
<1>1. Count \in Nat
  BY LengthsAssumption
<1>2. UpTo(ms, Count) = ms
  BY Zenon DEF UpTo, Memories
<1>3. UpTo(ms, 0) = {}
  BY DEF UpTo
<1> QED
  BY <1>1, <1>2, <1>3

LEMMA FitHolds ==
  ASSUME NEW ms, ms \subseteq Memories, NEW length \in [Memories -> Nat], NEW budget \in Nat,
         NEW fit, fit = Fit(ms, length, budget)
  PROVE  /\ fit \in Acc /\ IsInjective(fit.entries) /\ Range(fit.entries) \subseteq ms
         /\ Lines(Range(fit.entries), length, Count) <= budget + 1
         /\ fit.demoted = Cardinality(ms \ Range(fit.entries))
         /\ FirstFit(ms, Range(fit.entries), length, budget)
<1>1. Count \in 0..Count /\ UpTo(ms, Count) = ms
  BY UpToAll
<1>2. Taken(ms, length, budget) \in [0..Count -> Acc]
  BY TakenUnfolds
<1>3. fit \in Acc
  BY <1>1, <1>2 DEF Fit
<1>4. LoopInv(fit, Count, ms, length, budget)
  BY <1>1, LoopHolds DEF Fit
<1> QED
  BY <1>1, <1>3, <1>4
     DEF LoopInv, InItsSection, CountsChars, CountsRest, FitsFirst, Chosen

\* The memories of a tier that is listed whole.
AppendIfIn(s, n, ms) == IF n \in ms THEN Append(s, n) ELSE s

LEMMA InOrderUnfolds ==
  ASSUME NEW ms, ms \subseteq Memories
  PROVE  \E t : /\ t[0] = << >> /\ \A n \in 1..Count : t[n] = AppendIfIn(t[n - 1], n, ms)
                /\ InOrder(ms) = t[Count]
<1> DEFINE none == << >>
           Body(t) == [n \in 0..Count |-> IF n = 0 THEN none ELSE AppendIfIn(t[n - 1], n, ms)]
           t == CHOOSE u : u = Body(u)
           V == Seq(Memories)
           step == [n \in 1..Count |-> [v \in V |-> AppendIfIn(v, n, ms)]]
<1>1. none \in V /\ Count \in Nat /\ 1..Count = Memories
  BY LengthsAssumption DEF Memories
<1>2. InOrder(ms) = t[Count]
  BY DEF InOrder, AppendIfIn
<1>3. \A n \in 1..Count, v \in V : AppendIfIn(v, n, ms) \in V
  BY <1>1, AppendProperties DEF AppendIfIn
<1> HIDE DEF none, V
<1>4. step \in [1..Count -> [V -> V]]
  BY <1>3
<1>5. PICK u : Unfolds(u, Count, V, none, step)
  <2> HIDE DEF step
  <2> QED
    BY <1>1, <1>4, Recursion
<1>6. u \in [0..Count -> V] /\ u[0] = none
  BY <1>5 DEF Unfolds
<1>7. \A n \in 1..Count : u[n] = AppendIfIn(u[n - 1], n, ms)
  <2> TAKE n \in 1..Count
  <2>1. u[n - 1] \in V
    BY <1>1, <1>6
  <2>2. step[n][u[n - 1]] = AppendIfIn(u[n - 1], n, ms)
    BY <2>1
  <2> QED
    BY <1>5, <2>2 DEF Unfolds
<1>8. u = Body(u)
  <2>1. \A n \in 0..Count : u[n] = IF n = 0 THEN none ELSE AppendIfIn(u[n - 1], n, ms)
    BY <1>1, <1>6, <1>7
  <2> QED
    BY <1>6, <2>1
<1>9. t = Body(t)
  <2> HIDE DEF Body
  <2> QED
    BY <1>8
<1> HIDE DEF t
<1>10. t[0] = none /\ \A n \in 1..Count : t[n] = AppendIfIn(t[n - 1], n, ms)
  BY <1>1, <1>9
<1> QED
  BY <1>2, <1>10 DEF none

InOrderUpTo(s, n, ms) == s \in Seq(Memories) /\ IsInjective(s) /\ Range(s) = UpTo(ms, n)

LEMMA InOrderHolds ==
  ASSUME NEW ms, ms \subseteq Memories
  PROVE  InOrder(ms) \in Seq(Memories) /\ IsInjective(InOrder(ms)) /\ Range(InOrder(ms)) = ms
<1>1. PICK t : /\ t[0] = << >> /\ \A n \in 1..Count : t[n] = AppendIfIn(t[n - 1], n, ms)
               /\ InOrder(ms) = t[Count]
  BY InOrderUnfolds
<1> DEFINE S == {n \in 0..Count : InOrderUpTo(t[n], n, ms)}
<1>2. InOrderUpTo(t[0], 0, ms)
  BY <1>1, UpToAll DEF InOrderUpTo, IsInjective, Range
<1>3. 0 \in S
  BY <1>2, UpToAll
<1>4. \A n \in 1..Count : n - 1 \in S => n \in S
  <2> SUFFICES ASSUME NEW n \in 1..Count, InOrderUpTo(t[n - 1], n - 1, ms)
               PROVE  InOrderUpTo(t[n], n, ms)
    BY OneMore
  <2>1. t[n] = AppendIfIn(t[n - 1], n, ms)
    BY <1>1
  <2>2. CASE n \notin ms
    BY <2>1, <2>2, OneMore DEF InOrderUpTo, AppendIfIn
  <2>3. CASE n \in ms
    <3>1. t[n - 1] \in Seq(Memories) /\ n \in Memories /\ n \notin Range(t[n - 1])
      BY OneMore DEF InOrderUpTo
    <3>2. IsInjective(t[n - 1]) /\ t[n] = Append(t[n - 1], n)
      BY <2>1, <2>3 DEF InOrderUpTo, AppendIfIn
    <3>3. IsInjective(t[n]) /\ Range(t[n]) = Range(t[n - 1]) \cup {n}
      BY <3>1, <3>2, AppendNext
    <3>4. t[n] \in Seq(Memories)
      BY <3>1, <3>2, AppendProperties
    <3>5. UpTo(ms, n) = UpTo(ms, n - 1) \cup {n}
      BY <2>3, OneMore
    <3> QED
      BY <3>3, <3>4, <3>5 DEF InOrderUpTo
  <2> QED
    BY <2>2, <2>3
<1>5. InOrderUpTo(t[Count], Count, ms)
  <2> HIDE DEF S
  <2>1. Count \in S
    BY <1>3, <1>4, CountingUp, UpToAll, LengthsAssumption
  <2> QED
    BY <2>1 DEF S
<1> QED
  BY <1>1, <1>5, UpToAll DEF InOrderUpTo

-----------------------------------------------------------------------------
\* The memory files, and the sections of the block.

FilesType == files \in [Memories -> Active \cup {Inactive}]

\* Every memory has no file, an inactive one, or one of a known tier, scope and size.
THEOREM FilesTyped == Spec => []FilesType
<1>1. Init => FilesType
  BY DEF Init, FilesType
<1>2. FilesType /\ [Next]_files => FilesType'
  BY DEF FilesType, Next, WriteFile, Withdraw
<1> QED
  BY <1>1, <1>2, PTL DEF Spec

LEMMA FileFields ==
  ASSUME FilesType, NEW m \in Memories
  PROVE  /\ files[m].size \in Nat /\ files[m].scope \in Globs
         /\ files[m].tier \in Tiers \cup {"none"}
         /\ files[m].tier # "none" <=> files[m] # Inactive
<1>1. CASE files[m] = Inactive
  BY <1>1, GlobsAssumption DEF Inactive, Globs
<1>2. CASE files[m] \in Active
  <2>1. files[m].tier \in Tiers /\ files[m].scope \in Globs /\ files[m].size \in Nat
    BY <1>2, LengthsAssumption DEF Active
  <2>2. files[m].tier # "none"
    BY <2>1 DEF Tiers, Requested
  <2>3. files[m] # Inactive
    BY <2>2 DEF Inactive
  <2> QED
    BY <2>1, <2>2, <2>3
<1> QED
  BY <1>1, <1>2 DEF FilesType

LEMMA Lengths ==
  ASSUME FilesType
  PROVE  AlwaysLength \in [Memories -> Nat] /\ ScopedLength \in [Memories -> Nat]
<1>1. \A m \in Memories : files[m].size \in Nat
  BY FileFields
<1> QED
  BY <1>1, LengthsAssumption DEF AlwaysLength, ScopedLength

\* What is taken of a section.
Holds(ms, fit, length, budget) ==
  /\ fit \in Acc /\ IsInjective(fit.entries) /\ Range(fit.entries) \subseteq ms
  /\ Lines(Range(fit.entries), length, Count) <= budget + 1
  /\ fit.demoted = Cardinality(ms \ Range(fit.entries))
  /\ FirstFit(ms, Range(fit.entries), length, budget)

LEMMA SectionsHold ==
  ASSUME FilesType
  PROVE  /\ Holds(In("always"), Always, AlwaysLength, AlwaysChars)
         /\ \A g \in Globs : Holds(InScope(g), Scoped(g), ScopedLength, ScopedChars)
<1>1. In("always") \subseteq Memories /\ \A g \in Globs : InScope(g) \subseteq Memories
  BY DEF In, InScope
<1>2. AlwaysChars \in Nat /\ ScopedChars \in Nat
  BY LengthsAssumption
<1>3. Holds(In("always"), Always, AlwaysLength, AlwaysChars)
  BY <1>1, <1>2, Lengths, FitHolds DEF Holds, Always
<1>4. ASSUME NEW g \in Globs
      PROVE  Holds(InScope(g), Scoped(g), ScopedLength, ScopedChars)
  BY <1>1, <1>2, Lengths, FitHolds DEF Holds, Scoped
<1> QED
  BY <1>3, <1>4

LEMMA BlockSections ==
  /\ Block.always = Always.entries
  /\ \A g \in Globs : Block.scoped[g] = Scoped(g).entries
  /\ Block.request = InOrder(In("on_demand")) \o InOrder(In("pre_action"))
  /\ Block.demoted = Always.demoted + Sum([g \in Globs |-> Scoped(g).demoted], GlobCount)
BY DEF Block

\* However many memories there are, no section is longer than its budget.
THEOREM SectionsWithinBudget == Spec => []WithinBudget
<1>1. FilesType => WithinBudget
  BY SectionsHold, BlockSections DEF WithinBudget, Holds
<1> QED
  BY <1>1, FilesTyped, PTL

\* A memory is listed exactly when it fits after those listed before it.
THEOREM TakenInTurn == Spec => []TakesWhatFits
<1>1. FilesType => TakesWhatFits
  BY SectionsHold, BlockSections DEF TakesWhatFits, Holds
<1> QED
  BY <1>1, FilesTyped, PTL

-----------------------------------------------------------------------------
\* Nothing is left out without a word.

LEMMA JoinApart ==
  ASSUME NEW s \in Seq(Memories), NEW r \in Seq(Memories), IsInjective(s), IsInjective(r),
         Range(s) \cap Range(r) = {}
  PROVE  IsInjective(s \o r) /\ Range(s \o r) = Range(s) \cup Range(r)
<1> DEFINE t == s \o r
<1>1. /\ Len(s) \in Nat /\ Len(r) \in Nat /\ Len(t) = Len(s) + Len(r)
      /\ DOMAIN s = 1..Len(s) /\ DOMAIN r = 1..Len(r) /\ DOMAIN t = 1..(Len(s) + Len(r))
  BY ConcatProperties, LenProperties
<1>2. \A i \in DOMAIN t : t[i] = IF i <= Len(s) THEN s[i] ELSE r[i - Len(s)]
  BY <1>1, ConcatProperties
<1>3. \A i \in DOMAIN s : i \in DOMAIN t /\ t[i] = s[i]
  BY <1>1, <1>2
<1>4. \A i \in DOMAIN r : i + Len(s) \in DOMAIN t /\ t[i + Len(s)] = r[i]
  <2> TAKE i \in DOMAIN r
  <2>1. i + Len(s) \in DOMAIN t /\ ~(i + Len(s) <= Len(s)) /\ i + Len(s) - Len(s) = i
    BY <1>1
  <2> QED
    BY <1>2, <2>1
<1>5. \A i \in DOMAIN t : \/ i \in DOMAIN s /\ t[i] = s[i]
                          \/ i - Len(s) \in DOMAIN r /\ t[i] = r[i - Len(s)] /\ i > Len(s)
  <2> TAKE i \in DOMAIN t
  <2>1. CASE i <= Len(s)
    BY <1>1, <1>2, <2>1
  <2>2. CASE ~(i <= Len(s))
    BY <1>1, <1>2, <2>2
  <2> QED
    BY <2>1, <2>2
<1>6. DOMAIN t \subseteq Int
  BY <1>1
<1> HIDE DEF t
<1>7. Range(t) = Range(s) \cup Range(r)
  <2>1. Range(t) \subseteq Range(s) \cup Range(r)
    BY <1>5 DEF Range
  <2>2. Range(s) \subseteq Range(t)
    BY <1>3 DEF Range
  <2>3. Range(r) \subseteq Range(t)
    BY <1>4 DEF Range
  <2> QED
    BY <2>1, <2>2, <2>3
<1>8. IsInjective(t)
  <2> SUFFICES ASSUME NEW i \in DOMAIN t, NEW j \in DOMAIN t, t[i] = t[j] PROVE i = j
    BY DEF IsInjective
  <2>1. CASE i \in DOMAIN s /\ j \in DOMAIN s
    BY <1>3, <2>1 DEF IsInjective
  <2>2. CASE i - Len(s) \in DOMAIN r /\ j - Len(s) \in DOMAIN r /\ i > Len(s) /\ j > Len(s)
    <3>1. t[i] = r[i - Len(s)] /\ t[j] = r[j - Len(s)]
      <4>1. ~(i \in DOMAIN s) /\ ~(j \in DOMAIN s)
        BY <1>1, <2>2
      <4> QED
        BY <1>5, <4>1
    <3>2. i - Len(s) = j - Len(s)
      BY <2>2, <3>1 DEF IsInjective
    <3> QED
      BY <1>1, <1>6, <3>2
  <2>3. ASSUME NEW k \in DOMAIN s, NEW l \in DOMAIN r, s[k] = r[l]
        PROVE  FALSE
    BY <2>3 DEF Range
  <2> QED
    BY <1>5, <2>1, <2>2, <2>3
<1> QED
  BY <1>7, <1>8 DEF t

\* What several sections leave out is what they leave out together.

Together(rest, N) == UNION {rest[g] : g \in 1..N}

LEMMA SumOfRests ==
  ASSUME NEW rest, NEW counts, NEW N \in Nat,
         \A g \in 1..N : IsFiniteSet(rest[g]) /\ counts[g] = Cardinality(rest[g]),
         \A g, h \in 1..N : g # h => rest[g] \cap rest[h] = {}
  PROVE  /\ IsFiniteSet(Together(rest, N))
         /\ Sum(counts, N) = Cardinality(Together(rest, N))
<1> DEFINE All(n) == UNION {rest[g] : g \in 1..n}
           S == {n \in 0..N : IsFiniteSet(All(n)) /\ Sum(counts, n) = Cardinality(All(n))}
<1>1. \A g \in 1..N : counts[g] \in Nat
  BY FS_CardinalityType
<1>2. 0 \in S
  <2>1. All(0) = {} /\ 0 \in 0..N /\ \A g \in 1..0 : counts[g] \in Nat
    OBVIOUS
  <2>2. Sum(counts, 0) = 0
    BY <2>1, SumSteps
  <2> HIDE DEF All
  <2> QED
    BY <2>1, <2>2, FS_EmptySet
<1>3. \A n \in 1..N : n - 1 \in S => n \in S
  <2> SUFFICES ASSUME NEW n \in 1..N, n - 1 \in S PROVE n \in S
    OBVIOUS
  <2>1. n \in Nat /\ n > 0 /\ n \in 0..N /\ \A g \in 1..n : g \in 1..N
    OBVIOUS
  <2>2. Sum(counts, n) = Sum(counts, n - 1) + counts[n]
    BY <1>1, <2>1, SumSteps
  <2>3. All(n) = All(n - 1) \cup rest[n]
    <3>1. 1..n = 1..(n - 1) \cup {n}
      OBVIOUS
    <3> QED
      BY <3>1
  <2>4. All(n - 1) \cap rest[n] = {}
    <3>1. \A g \in 1..(n - 1) : g \in 1..N /\ g # n
      OBVIOUS
    <3>2. \A g \in 1..(n - 1) : rest[g] \cap rest[n] = {}
      BY <3>1
    <3> QED
      BY <3>2
  <2>5. IsFiniteSet(All(n - 1)) /\ Sum(counts, n - 1) = Cardinality(All(n - 1))
    OBVIOUS
  <2> HIDE DEF All
  <2>6. /\ IsFiniteSet(All(n))
        /\ Cardinality(All(n)) = Cardinality(All(n - 1)) + Cardinality(rest[n]) - Cardinality({})
    BY <2>3, <2>4, <2>5, FS_Union
  <2>7. Cardinality({}) = 0 /\ Cardinality(All(n - 1)) \in Nat /\ Cardinality(rest[n]) \in Nat
    BY <2>5, FS_EmptySet, FS_CardinalityType
  <2>8. Cardinality(All(n)) = Cardinality(All(n - 1)) + Cardinality(rest[n])
    BY <2>6, <2>7
  <2> QED
    BY <2>1, <2>2, <2>5, <2>6, <2>8
<1> HIDE DEF S
<1>4. N \in S
  <2>1. \A n \in 0..N : n \in S
    BY <1>2, <1>3, CountingUp
  <2> QED
    BY <2>1
<1> QED
  BY <1>4 DEF S, Together

\* The tiers, and the scopes of the scoped tier, divide the active memories.
LEMMA Sections ==
  ASSUME FilesType
  PROVE  /\ \A g, h \in Globs : g # h => InScope(g) \cap InScope(h) = {}
         /\ UNION {InScope(g) : g \in Globs} = In("scoped")
         /\ {m \in Memories : files[m] # Inactive}
              = In("always") \cup In("scoped") \cup In("on_demand") \cup In("pre_action")
         /\ \A s, r : s # r => In(s) \cap In(r) = {}
<1>1. \A m \in Memories : /\ files[m].scope \in Globs
                          /\ files[m].tier \in Tiers \cup {"none"}
                          /\ files[m].tier # "none" <=> files[m] # Inactive
  BY FileFields
<1>2. \A g, h \in Globs : g # h => InScope(g) \cap InScope(h) = {}
  BY DEF InScope
<1>3. UNION {InScope(g) : g \in Globs} = In("scoped")
  <2>1. \A m \in In("scoped") : files[m].scope \in Globs
    BY <1>1 DEF In
  <2>2. \A m \in In("scoped") : m \in InScope(files[m].scope)
    BY DEF InScope
  <2>3. \A g \in Globs : InScope(g) \subseteq In("scoped")
    BY DEF InScope
  <2> QED
    BY <2>1, <2>2, <2>3
<1>4. {m \in Memories : files[m] # Inactive}
        = In("always") \cup In("scoped") \cup In("on_demand") \cup In("pre_action")
  BY <1>1 DEF In, Tiers, Requested
<1>5. \A s, r : s # r => In(s) \cap In(r) = {}
  BY DEF In
<1> QED
  BY <1>2, <1>3, <1>4, <1>5

LEMMA ScopeRests ==
  ASSUME FilesType
  PROVE  LET rests == UNION {InScope(g) \ Range(Block.scoped[g]) : g \in Globs}
         IN  /\ IsFiniteSet(rests)
             /\ Sum([g \in Globs |-> Scoped(g).demoted], GlobCount) = Cardinality(rests)
<1> DEFINE rest == [g \in Globs |-> InScope(g) \ Range(Block.scoped[g])]
           counts == [g \in Globs |-> Scoped(g).demoted]
<1>1. GlobCount \in Nat /\ Globs = 1..GlobCount
  BY GlobsAssumption DEF Globs
<1>2. \A g \in Globs : IsFiniteSet(rest[g]) /\ counts[g] = Cardinality(rest[g])
  <2> TAKE g \in Globs
  <2>1. InScope(g) \subseteq 1..Count /\ IsFiniteSet(1..Count)
    BY FS_Interval, LengthsAssumption DEF InScope, In, Memories
  <2>2. IsFiniteSet(rest[g])
    BY <2>1, FS_Subset
  <2>3. counts[g] = Cardinality(rest[g])
    BY SectionsHold, BlockSections DEF Holds
  <2> QED
    BY <2>2, <2>3
<1>3. \A g, h \in Globs : g # h => rest[g] \cap rest[h] = {}
  <2> TAKE g, h \in Globs
  <2>1. g # h => InScope(g) \cap InScope(h) = {}
    BY Sections
  <2> QED
    BY <2>1
<1>4. {rest[g] : g \in Globs} = {InScope(g) \ Range(Block.scoped[g]) : g \in Globs}
  OBVIOUS
<1> HIDE DEF rest, counts
<1>5. /\ IsFiniteSet(Together(rest, GlobCount))
      /\ Sum(counts, GlobCount) = Cardinality(Together(rest, GlobCount))
  <2>1. GlobCount \in Nat
    BY <1>1
  <2>2. \A g \in 1..GlobCount : IsFiniteSet(rest[g]) /\ counts[g] = Cardinality(rest[g])
    BY <1>1, <1>2
  <2>3. \A g, h \in 1..GlobCount : g # h => rest[g] \cap rest[h] = {}
    BY <1>1, <1>3
  <2> QED
    BY <2>1, <2>2, <2>3, SumOfRests
<1> QED
  BY <1>1, <1>4, <1>5 DEF counts, Together

LEMMA RequestHolds ==
  ASSUME FilesType
  PROVE  /\ IsInjective(Block.request)
         /\ Range(Block.request) = In("on_demand") \cup In("pre_action")
<1> DEFINE s == InOrder(In("on_demand"))
           r == InOrder(In("pre_action"))
<1>1. In("on_demand") \subseteq Memories /\ In("pre_action") \subseteq Memories
  BY DEF In
<1>2. /\ s \in Seq(Memories) /\ IsInjective(s) /\ Range(s) = In("on_demand")
      /\ r \in Seq(Memories) /\ IsInjective(r) /\ Range(r) = In("pre_action")
  BY <1>1, InOrderHolds
<1>3. In("on_demand") \cap In("pre_action") = {}
  BY Sections
<1>4. Block.request = s \o r
  BY BlockSections
<1> HIDE DEF s, r
<1> QED
  BY <1>2, <1>3, <1>4, JoinApart

\* Every active memory is listed or counted, and never both.
LEMMA CountedOnce ==
  ASSUME FilesType
  PROVE  Cardinality(Listed) + Block.demoted = Cardinality({m \in Memories : files[m] # Inactive})
<1> DEFINE active == {m \in Memories : files[m] # Inactive}
           scopes == UNION {InScope(g) \ Range(Block.scoped[g]) : g \in Globs}
           rest   == (In("always") \ Range(Block.always)) \cup scopes
<1>1. IsFiniteSet(Memories) /\ active \subseteq Memories
  BY FS_Interval, LengthsAssumption DEF Memories
<1>2. /\ Range(Block.always) \subseteq In("always")
      /\ Always.demoted = Cardinality(In("always") \ Range(Block.always))
  BY SectionsHold, BlockSections DEF Holds
<1>3. \A g \in Globs : Range(Block.scoped[g]) \subseteq InScope(g)
  BY SectionsHold, BlockSections DEF Holds
<1>4. /\ IsFiniteSet(scopes)
      /\ Sum([g \in Globs |-> Scoped(g).demoted], GlobCount) = Cardinality(scopes)
  BY ScopeRests
<1>5. Range(Block.request) = In("on_demand") \cup In("pre_action")
  BY RequestHolds
<1>6. /\ UNION {InScope(g) : g \in Globs} = In("scoped")
      /\ active = In("always") \cup In("scoped") \cup In("on_demand") \cup In("pre_action")
      /\ \A s, r : s # r => In(s) \cap In(r) = {}
      /\ \A g, h \in Globs : g # h => InScope(g) \cap InScope(h) = {}
  BY Sections
<1>7. \A g \in Globs : InScope(g) \subseteq In("scoped")
  BY DEF InScope
<1>8. In("always") \cap In("scoped") = {} /\ In("always") \cap In("on_demand") = {}
      /\ In("always") \cap In("pre_action") = {} /\ In("scoped") \cap In("on_demand") = {}
      /\ In("scoped") \cap In("pre_action") = {}
  BY <1>6
<1> DEFINE taken == UNION {Range(Block.scoped[g]) : g \in Globs}
<1>9. Listed = Range(Block.always) \cup In("on_demand") \cup In("pre_action") \cup taken
  BY <1>5 DEF Listed
<1>10. scopes \cup taken = In("scoped") /\ scopes \cap taken = {}
  <2>1. taken \subseteq In("scoped") /\ scopes \subseteq In("scoped")
    BY <1>3, <1>7
  <2>2. \A m \in In("scoped") : m \in scopes \/ m \in taken
    <3> SUFFICES ASSUME NEW m \in In("scoped") PROVE m \in scopes \/ m \in taken
      OBVIOUS
    <3>1. PICK g \in Globs : m \in InScope(g)
      BY <1>6
    <3> QED
      BY <3>1
  <2>3. ASSUME NEW g \in Globs, NEW h \in Globs, NEW m,
               m \in InScope(g) \ Range(Block.scoped[g]), m \in Range(Block.scoped[h])
        PROVE  FALSE
    <3>1. m \in InScope(g) /\ m \in InScope(h)
      BY <1>3, <2>3
    <3> QED
      BY <1>6, <2>3, <3>1
  <2> QED
    BY <2>1, <2>2, <2>3
<1> HIDE DEF scopes, taken
<1>11. Cardinality(rest) = Block.demoted
  <2>1. IsFiniteSet(In("always") \ Range(Block.always))
    BY <1>1, FS_Subset DEF In
  <2>2. (In("always") \ Range(Block.always)) \cap scopes = {}
    BY <1>8, <1>10
  <2>3. Cardinality(rest)
          = Cardinality(In("always") \ Range(Block.always)) + Cardinality(scopes) - Cardinality({})
    BY <1>4, <2>1, <2>2, FS_Union
  <2>4. Block.demoted = Cardinality(In("always") \ Range(Block.always)) + Cardinality(scopes)
    BY <1>2, <1>4, BlockSections
  <2>5. Cardinality({}) = 0 /\ Cardinality(scopes) \in Nat
        /\ Cardinality(In("always") \ Range(Block.always)) \in Nat
    BY <1>4, <2>1, FS_EmptySet, FS_CardinalityType
  <2> QED
    BY <2>3, <2>4, <2>5
<1>12. active = Listed \cup rest
  BY <1>2, <1>6, <1>9, <1>10
<1>13. Listed \cap rest = {}
  BY <1>2, <1>8, <1>9, <1>10
<1> HIDE DEF rest, active
<1>14. IsFiniteSet(Listed) /\ IsFiniteSet(rest)
  BY <1>1, <1>12, FS_Subset
<1>15. Cardinality(active) = Cardinality(Listed) + Cardinality(rest) - Cardinality({})
  BY <1>12, <1>13, <1>14, FS_Union
<1>16. Cardinality({}) = 0 /\ Cardinality(Listed) \in Nat /\ Cardinality(rest) \in Nat
  BY <1>14, FS_EmptySet, FS_CardinalityType
<1> QED
  BY <1>11, <1>15, <1>16 DEF active

\* "Never truncate silently": every active memory is listed in its place, or counted
\* in the notice.
THEOREM NothingSilent == Spec => []NeverSilent
<1>1. ASSUME FilesType PROVE NeverSilent
  <2>1. IsInjective(Block.always) /\ Range(Block.always) \subseteq In("always")
    BY <1>1, SectionsHold, BlockSections DEF Holds
  <2>2. \A g \in Globs :
          IsInjective(Block.scoped[g]) /\ Range(Block.scoped[g]) \subseteq InScope(g)
    BY <1>1, SectionsHold, BlockSections DEF Holds
  <2> QED
    BY <1>1, <2>1, <2>2, RequestHolds, CountedOnce DEF NeverSilent
<1> QED
  BY <1>1, FilesTyped, PTL

-----------------------------------------------------------------------------
\* A change to one file does not move the memories before it.

\* What fits first among the memories up to the n-th depends on those memories only.
LEMMA FirstFitAgrees ==
  ASSUME NEW length \in [Memories -> Nat], NEW other \in [Memories -> Nat],
         NEW ms, NEW os, NEW chosen, NEW ones, NEW budget, NEW n \in 0..Count,
         chosen \subseteq ms, ones \subseteq os,
         FirstFit(ms, chosen, length, budget), FirstFit(os, ones, other, budget),
         \A m \in 1..n : other[m] = length[m] /\ (m \in os <=> m \in ms)
  PROVE  \A m \in 1..n : m \in chosen <=> m \in ones
<1> DEFINE S == {k \in 0..n : \A m \in 1..k : m \in chosen <=> m \in ones}
<1>1. n \in Nat /\ Count \in Nat /\ n <= Count
  BY LengthsAssumption
<1>2. 0 \in S
  BY <1>1
<1>3. \A k \in 1..n : k - 1 \in S => k \in S
  <2> SUFFICES ASSUME NEW k \in 1..n, \A m \in 1..(k - 1) : m \in chosen <=> m \in ones
               PROVE  \A m \in 1..k : m \in chosen <=> m \in ones
    BY <1>1
  <2>1. k - 1 \in 0..Count /\ \A m \in 1..(k - 1) : m \in 1..n
    BY <1>1
  <2>2. \A m \in 1..(k - 1) : other[m] = length[m] /\ (m \in ones <=> m \in chosen)
    BY <2>1
  <2>3. Lines(chosen, length, k - 1) = Lines(ones, other, k - 1)
    BY <2>1, <2>2, LinesAgree
  <2>4. k \in chosen <=> k \in ones
    <3>1. CASE k \in ms
      <4>1. k \in os /\ other[k] = length[k]
        BY <3>1
      <4>2. k \in chosen <=> Lines(chosen, length, k - 1) + length[k] <= budget
        BY <3>1 DEF FirstFit
      <4>3. k \in ones <=> Lines(ones, other, k - 1) + other[k] <= budget
        BY <4>1 DEF FirstFit
      <4> QED
        BY <2>3, <4>1, <4>2, <4>3
    <3>2. CASE k \notin ms
      BY <3>2
    <3> QED
      BY <3>1, <3>2
  <2>5. \A m \in 1..k : m = k \/ m \in 1..(k - 1)
    BY <1>1
  <2> QED
    BY <2>4, <2>5
<1> HIDE DEF S
<1>4. n \in S
  <2>1. \A k \in 0..n : k \in S
    BY <1>1, <1>2, <1>3, CountingUp
  <2> QED
    BY <1>1, <2>1
<1> QED
  BY <1>4 DEF S

\* A memory is listed in its own section, if anywhere.
Placed ==
  \A m \in Memories :
    /\ files[m].tier = "always" => (m \in Listed <=> m \in Range(Always.entries))
    /\ files[m].tier = "scoped" =>
         (m \in Listed <=> m \in Range(Scoped(files[m].scope).entries))
    /\ files[m].tier \in Requested => m \in Listed
    /\ files[m].tier \notin Tiers => m \notin Listed

LEMMA PlacedInItsSection ==
  ASSUME FilesType
  PROVE  Placed
<1>1. /\ Block.always = Always.entries /\ Range(Always.entries) \subseteq In("always")
      /\ \A g \in Globs : /\ Block.scoped[g] = Scoped(g).entries
                          /\ Range(Scoped(g).entries) \subseteq InScope(g)
  BY SectionsHold, BlockSections DEF Holds
<1>2. Range(Block.request) = In("on_demand") \cup In("pre_action")
  BY RequestHolds
<1> SUFFICES ASSUME NEW m \in Memories
             PROVE  /\ files[m].tier = "always" => (m \in Listed <=> m \in Range(Always.entries))
                    /\ files[m].tier = "scoped" =>
                         (m \in Listed <=> m \in Range(Scoped(files[m].scope).entries))
                    /\ files[m].tier \in Requested => m \in Listed
                    /\ files[m].tier \notin Tiers => m \notin Listed
  BY DEF Placed
<1>3. m \in Listed <=> \/ m \in Range(Always.entries)
                       \/ m \in In("on_demand") \/ m \in In("pre_action")
                       \/ \E g \in Globs : m \in Range(Scoped(g).entries)
  BY <1>1, <1>2 DEF Listed
<1>4. m \in Range(Always.entries) => files[m].tier = "always"
  BY <1>1 DEF In
<1>5. \A g \in Globs : m \in Range(Scoped(g).entries) =>
                         files[m].tier = "scoped" /\ files[m].scope = g
  BY <1>1 DEF InScope, In
<1>6. \A s : m \in In(s) <=> files[m].tier = s
  BY DEF In
<1>7. files[m].scope \in Globs
  BY FileFields
<1>8. CASE files[m].tier = "always"
  BY <1>3, <1>5, <1>6, <1>8 DEF Tiers, Requested
<1>9. CASE files[m].tier = "scoped"
  BY <1>3, <1>4, <1>5, <1>6, <1>7, <1>9 DEF Tiers, Requested
<1>10. CASE files[m].tier \in Requested
  BY <1>3, <1>6, <1>10 DEF Tiers, Requested
<1>11. CASE files[m].tier \notin Tiers
  BY <1>3, <1>4, <1>5, <1>6, <1>11 DEF Tiers, Requested
<1> QED
  BY <1>8, <1>9, <1>10, <1>11 DEF Tiers, Requested

SectionsFit ==
  /\ AlwaysLength \in [Memories -> Nat] /\ ScopedLength \in [Memories -> Nat]
  /\ Range(Always.entries) \subseteq In("always")
  /\ FirstFit(In("always"), Range(Always.entries), AlwaysLength, AlwaysChars)
  /\ \A g \in Globs :
       /\ Range(Scoped(g).entries) \subseteq InScope(g)
       /\ FirstFit(InScope(g), Range(Scoped(g).entries), ScopedLength, ScopedChars)

LEMMA SectionsAlwaysFit == Spec => [](FilesType /\ SectionsFit /\ Placed)
<1>1. FilesType => SectionsFit /\ Placed
  BY Lengths, SectionsHold, PlacedInItsSection DEF SectionsFit, Holds
<1> QED
  BY <1>1, FilesTyped, PTL

\* A new memory does not crowd out one before it: a change to one file leaves every
\* memory before it, in the order of the block, where it was.
THEOREM NoneCrowdedOut == Spec => EarlierStand
<1> DEFINE Stand ==
      \A n \in Memories :
        (\A m \in Memories : files'[m] # files[m] => n < m) => (n \in Listed <=> n \in Listed')
<1>1. ASSUME FilesType, SectionsFit, Placed, FilesType', SectionsFit', Placed'
      PROVE  Stand
  <2> SUFFICES ASSUME NEW n \in Memories,
                      \A m \in Memories : files'[m] # files[m] => n < m
               PROVE  n \in Listed <=> n \in Listed'
    OBVIOUS
  <2>1. n \in 0..Count /\ n \in 1..n
    BY LengthsAssumption DEF Memories
  <2>2. \A m \in 1..n : m \in Memories /\ files'[m] = files[m]
    BY LengthsAssumption DEF Memories
  <2>3. files'[n] = files[n] /\ files[n].scope \in Globs
    BY <1>1, <2>1, <2>2, FileFields
  <2>4. CASE files[n].tier = "always"
    <3>1. \A m \in 1..n : /\ AlwaysLength'[m] = AlwaysLength[m]
                          /\ m \in In("always")' <=> m \in In("always")
      BY <2>2 DEF AlwaysLength, In
    <3>2. n \in Range(Always.entries) <=> n \in Range(Always.entries)'
      BY <1>1, <2>1, <3>1, FirstFitAgrees DEF SectionsFit
    <3>3. n \in Listed <=> n \in Range(Always.entries)
      BY <1>1, <2>4 DEF Placed
    <3>4. n \in Listed' <=> n \in Range(Always.entries)'
      BY <1>1, <2>3, <2>4 DEF Placed
    <3> QED
      BY <3>2, <3>3, <3>4
  <2>5. CASE files[n].tier = "scoped"
    <3> DEFINE g == files[n].scope
    <3>1. \A m \in 1..n : /\ ScopedLength'[m] = ScopedLength[m]
                          /\ m \in InScope(g)' <=> m \in InScope(g)
      BY <2>2, <2>3 DEF ScopedLength, InScope, In
    <3>2. n \in Range(Scoped(g).entries) <=> n \in Range(Scoped(g).entries)'
      BY <1>1, <2>1, <2>3, <3>1, FirstFitAgrees DEF SectionsFit
    <3>3. n \in Listed <=> n \in Range(Scoped(g).entries)
      BY <1>1, <2>5 DEF Placed
    <3>4. n \in Listed' <=> n \in Range(Scoped(g).entries)'
      BY <1>1, <2>3, <2>5 DEF Placed
    <3> QED
      BY <3>2, <3>3, <3>4
  <2>6. CASE files[n].tier \in Requested
    BY <1>1, <2>3, <2>6 DEF Placed
  <2>7. CASE files[n].tier \notin Tiers
    BY <1>1, <2>3, <2>7 DEF Placed
  <2> QED
    BY <2>4, <2>5, <2>6, <2>7 DEF Tiers
<1>2. Stand <=> LET before == Listed
                    after  == Listed'
                IN  \A n \in Memories :
                      (\A m \in Memories : files'[m] # files[m] => n < m)
                        => (n \in before <=> n \in after)
  OBVIOUS
<1> HIDE DEF Stand
<1>3. FilesType /\ SectionsFit /\ Placed /\ (FilesType /\ SectionsFit /\ Placed)' => Stand
  BY <1>1
<1> QED
  BY <1>2, <1>3, SectionsAlwaysFit, PTL DEF EarlierStand
=============================================================================
