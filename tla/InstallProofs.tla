---------------------------- MODULE InstallProofs ----------------------------
(***************************************************************************)
(* Proofs about install and uninstall, for any number of agents, commands, *)
(* edits and kills, and for settings files with lists of any length: what  *)
(* they do to a settings file, and what overlapping commands leave of it.  *)
(***************************************************************************)
EXTENDS Install, FiniteSetTheorems, WellFoundedInduction, SequenceTheorems, TLAPS

-----------------------------------------------------------------------------
\* Counting up.  The recursive function of Install runs over the numbers up to n,
\* and what holds of them is shown by looking at the least number for which it
\* would not.

LEMMA LeastNumber ==
  ASSUME NEW T, T \subseteq Nat, T # {}
  PROVE  \E n \in T : \A k \in T : n <= k
<1> DEFINE below == {0..n : n \in T}
<1>1. below # {} /\ below \subseteq FiniteSubsetsOf(Nat)
  <2>1. \A n \in T : n \in Int /\ 0 \in Int /\ 0..n \in SUBSET Nat
    OBVIOUS
  <2>2. \A n \in T : IsFiniteSet(0..n)
    BY <2>1, FS_Interval
  <2> QED
    BY <2>1, <2>2, Zenon DEF FiniteSubsetsOf
<1>2. PICK X \in below : \A Y \in below : <<Y, X>> \notin StrictSubsetOrdering(Nat)
  <2> HIDE DEF below
  <2> QED
    BY <1>1, FS_StrictSubsetOrderingWellFounded, WFMin, Zenon
<1>3. PICK n \in T : X = 0..n
  OBVIOUS
<1>4. \A k \in T : n <= k
  <2>1. SUFFICES ASSUME NEW k \in T, k < n PROVE FALSE
    OBVIOUS
  <2>2. 0..k \in below /\ 0..k \subseteq 0..n /\ 0..k # 0..n
    BY <2>1
  <2> QED
    <3>1. ~ (0..k \subseteq X /\ 0..k # X)
      <4>1. <<0..k, X>> \notin StrictSubsetOrdering(Nat)
        BY <1>2, <2>2
      <4>2. 0..k \in SUBSET Nat /\ X \in SUBSET Nat
        BY <1>3
      <4> QED
        BY <4>1, <4>2, Zenon DEF StrictSubsetOrdering
    <3> QED
      BY <1>3, <2>2, <3>1
<1> QED
  BY <1>4

LEMMA CountingUp ==
  ASSUME NEW N \in Nat, NEW S, 0 \in S, \A n \in 1..N : n - 1 \in S => n \in S
  PROVE  \A n \in 0..N : n \in S
<1> DEFINE T == {n \in 0..N : n \notin S}
<1>1. SUFFICES ASSUME T # {} PROVE FALSE
  OBVIOUS
<1>2. PICK m \in T : \A k \in T : m <= k
  <2>1. T \subseteq Nat
    OBVIOUS
  <2> HIDE DEF T
  <2> QED
    BY <1>1, <2>1, LeastNumber
<1>3. m \in 1..N /\ m - 1 \in 0..N /\ m - 1 \notin T
  BY <1>2
<1> QED
  BY <1>2, <1>3

\* A function may be defined by its value at 0 and each next value by the one before.
Unfolds(f, N, V, base, step) ==
  f \in [0..N -> V] /\ f[0] = base /\ \A n \in 1..N : f[n] = step[n][f[n - 1]]

LEMMA Recursion ==
  ASSUME NEW N \in Nat, NEW V, NEW base \in V, NEW step \in [1..N -> [V -> V]]
  PROVE  \E f : Unfolds(f, N, V, base, step)
<1> DEFINE Upto(f, m) == Unfolds(f, m, V, base, step)
           T == {m \in 0..N : ~\E f : Upto(f, m)}
<1> USE DEF Unfolds
<1>1. SUFFICES ASSUME T # {} PROVE FALSE
  <2>1. ~(N \in T) => \E f : Upto(f, N)
    OBVIOUS
  <2> QED
    BY <1>1, <2>1
<1>2. PICK m \in T : \A k \in T : m <= k
  <2>1. T \subseteq Nat
    OBVIOUS
  <2> HIDE DEF T
  <2> QED
    BY <1>1, <2>1, LeastNumber
<1>3. m # 0
  <2> DEFINE f == [n \in 0..0 |-> base]
  <2>1. Upto(f, 0)
    OBVIOUS
  <2> QED
    BY <2>1
<1>4. m - 1 \in 0..N /\ m - 1 \notin T /\ m \in 1..N
  <2> HIDE DEF Upto
  <2> QED
    BY <1>2, <1>3
<1>5. PICK f : Upto(f, m - 1)
  BY <1>4
<1> DEFINE g == [n \in 0..m |-> IF n = m THEN step[m][f[m - 1]] ELSE f[n]]
<1>6. f[m - 1] \in V /\ step[m][f[m - 1]] \in V
  BY <1>4, <1>5
<1>7. g \in [0..m -> V] /\ g[0] = base
  <2>1. \A n \in 0..m : n # m => f[n] \in V
    BY <1>4, <1>5
  <2> QED
    BY <1>4, <1>5, <1>6, <2>1
<1>8. \A n \in 1..m : g[n] = step[n][g[n - 1]]
  <2> TAKE n \in 1..m
  <2>1. n - 1 \in 0..m /\ n - 1 # m /\ g[n - 1] = f[n - 1]
    BY <1>4
  <2>2. CASE n = m
    BY <2>1, <2>2
  <2>3. CASE n # m
    <3>1. n \in 1..(m - 1) /\ g[n] = f[n]
      BY <1>4, <2>3
    <3> QED
      BY <1>5, <2>1, <3>1
  <2> QED
    BY <2>2, <2>3
<1>9. Upto(g, m)
  BY <1>7, <1>8
<1> QED
  BY <1>2, <1>9


-----------------------------------------------------------------------------
\* Lists without some entries.

Keep(s, e, es) == IF e \in es THEN s ELSE Append(s, e)

Filters(u, list, es, S) ==
  /\ u \in [0..Len(list) -> Seq(S)] /\ u[0] = << >>
  /\ \A n \in 1..Len(list) : u[n] = Keep(u[n - 1], list[n], es)
  /\ Without(list, es) = u[Len(list)]

LEMMA WithoutUnfolds ==
  ASSUME NEW S, NEW list \in Seq(S), NEW es
  PROVE  \E u : Filters(u, list, es, S)
<1> DEFINE none == << >>
           N == Len(list)
           Body(t) == [n \in 0..N |-> IF n = 0 THEN none ELSE Keep(t[n - 1], list[n], es)]
           t == CHOOSE u : u = Body(u)
           V == Seq(S)
           step == [n \in 1..N |-> [v \in V |-> Keep(v, list[n], es)]]
<1>1. none \in V /\ N \in Nat /\ \A n \in 1..N : list[n] \in S
  BY LenProperties, ElementOfSeq
<1>2. Without(list, es) = t[N]
  BY DEF Without, Keep
<1>3. \A n \in 1..N, v \in V : Keep(v, list[n], es) \in V
  BY <1>1, AppendProperties DEF Keep
<1> HIDE DEF none, V, N
<1>4. step \in [1..N -> [V -> V]]
  BY <1>3
<1>5. PICK u : Unfolds(u, N, V, none, step)
  <2> HIDE DEF step
  <2> QED
    BY <1>1, <1>4, Recursion
<1>6. u \in [0..N -> V] /\ u[0] = none
  BY <1>5 DEF Unfolds
<1>7. \A n \in 1..N : u[n] = Keep(u[n - 1], list[n], es)
  <2> TAKE n \in 1..N
  <2>1. u[n - 1] \in V
    BY <1>1, <1>6
  <2>2. step[n][u[n - 1]] = Keep(u[n - 1], list[n], es)
    BY <2>1
  <2> QED
    BY <1>5, <2>2 DEF Unfolds
<1>8. u = Body(u)
  <2>1. \A n \in 0..N : u[n] = IF n = 0 THEN none ELSE Keep(u[n - 1], list[n], es)
    BY <1>1, <1>6, <1>7
  <2> QED
    BY <1>6, <2>1
<1>9. t = Body(t)
  <2> HIDE DEF Body
  <2> QED
    BY <1>8
<1> HIDE DEF t
<1>10. t[0] = none /\ \A n \in 1..N : t[n] = Keep(t[n - 1], list[n], es)
  BY <1>1, <1>9
<1>11. \A n \in 0..N : n \in {k \in 0..N : t[k] \in V}
  <2> DEFINE T == {k \in 0..N : t[k] \in V}
  <2>1. 0 \in T
    BY <1>1, <1>10
  <2>2. \A n \in 1..N : n - 1 \in T => n \in T
    BY <1>1, <1>3, <1>10
  <2> HIDE DEF T
  <2>3. \A n \in 0..N : n \in T
    BY <1>1, <2>1, <2>2, CountingUp
  <2> QED
    BY <2>3 DEF T
<1>12. t \in [0..N -> V]
  BY <1>9, <1>11 DEF Body
<1>13. Filters(t, list, es, S)
  BY <1>2, <1>10, <1>12 DEF Filters, none, V, N
<1> QED
  BY <1>13

LEMMA WithoutType ==
  ASSUME NEW S, NEW list \in Seq(S), NEW es
  PROVE  Without(list, es) \in Seq(S)
<1>1. PICK u : Filters(u, list, es, S)
  BY WithoutUnfolds
<1>2. Len(list) \in 0..Len(list)
  BY LenProperties
<1> QED
  BY <1>1, <1>2 DEF Filters

LEMMA WithoutNone ==
  ASSUME NEW es
  PROVE  Without(<< >>, es) = << >>
<1>1. << >> \in Seq({}) /\ Len(<< >>) = 0
  OBVIOUS
<1>2. PICK u : Filters(u, << >>, es, {})
  BY <1>1, WithoutUnfolds
<1> QED
  BY <1>1, <1>2 DEF Filters

LEMMA WithoutAppend ==
  ASSUME NEW S, NEW list \in Seq(S), NEW e \in S, NEW es
  PROVE  Without(Append(list, e), es) = Keep(Without(list, es), e, es)
<1> DEFINE more == Append(list, e)
           N == Len(list)
<1>1. more \in Seq(S) /\ Len(more) = N + 1 /\ more[N + 1] = e /\ N \in Nat
      /\ \A n \in 1..N : more[n] = list[n]
  BY AppendProperties, LenProperties
<1> HIDE DEF more
<1>2. PICK u : Filters(u, list, es, S)
  BY WithoutUnfolds
<1>3. PICK w : Filters(w, more, es, S)
  BY <1>1, WithoutUnfolds
<1> DEFINE T == {n \in 0..N : w[n] = u[n]}
<1>4. 0 \in T
  BY <1>1, <1>2, <1>3 DEF Filters
<1>5. \A n \in 1..N : n - 1 \in T => n \in T
  <2> SUFFICES ASSUME NEW n \in 1..N, w[n - 1] = u[n - 1] PROVE w[n] = u[n]
    OBVIOUS
  <2>1. w[n] = Keep(w[n - 1], more[n], es) /\ u[n] = Keep(u[n - 1], list[n], es)
    BY <1>1, <1>2, <1>3 DEF Filters
  <2> QED
    BY <1>1, <2>1
<1>6. w[N] = u[N]
  <2> HIDE DEF T, N
  <2>1. \A n \in 0..N : n \in T
    BY <1>1, <1>4, <1>5, CountingUp
  <2>2. N \in T
    BY <1>1, <2>1
  <2> QED
    BY <2>2 DEF T
<1>7. N + 1 \in 1..(N + 1) /\ N + 1 - 1 = N
  BY <1>1
<1>8. w[N + 1] = Keep(w[N], e, es)
  BY <1>1, <1>3, <1>7 DEF Filters
<1> QED
  BY <1>1, <1>2, <1>3, <1>6, <1>8 DEF Filters, more

\* Taking the entries out once is enough.
LEMMA WithoutTwice ==
  ASSUME NEW S, NEW list \in Seq(S), NEW es
  PROVE  Without(Without(list, es), es) = Without(list, es)
<1> DEFINE N == Len(list)
<1>1. PICK u : Filters(u, list, es, S)
  BY WithoutUnfolds
<1>2. N \in Nat /\ \A n \in 1..N : list[n] \in S
  BY LenProperties, ElementOfSeq
<1> HIDE DEF N
<1> DEFINE T == {n \in 0..N : Without(u[n], es) = u[n]}
<1>3. 0 \in T
  BY <1>1, <1>2, WithoutNone DEF Filters
<1>4. \A n \in 1..N : n - 1 \in T => n \in T
  <2> SUFFICES ASSUME NEW n \in 1..N, Without(u[n - 1], es) = u[n - 1]
               PROVE  Without(u[n], es) = u[n]
    BY <1>2
  <2>1. u[n] = Keep(u[n - 1], list[n], es) /\ u[n - 1] \in Seq(S)
    BY <1>1, <1>2 DEF Filters, N
  <2>2. CASE list[n] \in es
    BY <2>1, <2>2 DEF Keep
  <2>3. CASE list[n] \notin es
    <3>1. u[n] = Append(u[n - 1], list[n]) /\ list[n] \in S
      BY <1>2, <2>1, <2>3 DEF Keep
    <3>2. Without(Append(u[n - 1], list[n]), es) = Keep(Without(u[n - 1], es), list[n], es)
      BY <2>1, <3>1, WithoutAppend
    <3> QED
      BY <2>3, <3>1, <3>2 DEF Keep
  <2> QED
    BY <2>2, <2>3
<1> HIDE DEF T
<1>5. N \in T
  <2>1. \A n \in 0..N : n \in T
    BY <1>2, <1>3, <1>4, CountingUp
  <2> QED
    BY <1>2, <2>1
<1> QED
  BY <1>1, <1>5 DEF T, N, Filters

LEMMA WithoutLeaves ==
  ASSUME NEW S, NEW list \in Seq(S), NEW es, NEW i \in 1..Len(list), list[i] \notin es
  PROVE  Without(list, es) # << >>
<1> DEFINE N == Len(list)
<1>1. PICK u : Filters(u, list, es, S)
  BY WithoutUnfolds
<1>2. N \in Nat /\ \A n \in 1..N : list[n] \in S
  BY LenProperties, ElementOfSeq
<1>3. /\ u \in [0..N -> Seq(S)] /\ \A n \in 1..N : u[n] = Keep(u[n - 1], list[n], es)
      /\ Without(list, es) = u[N]
  BY <1>1 DEF Filters
<1>4. i \in 1..N
  OBVIOUS
<1> HIDE DEF N
<1> DEFINE T == {n \in 0..N : i <= n => u[n] # << >>}
<1>5. \A s \in Seq(S), e \in S : Append(s, e) # << >>
  OBVIOUS
<1>6. 0 \in T
  BY <1>2, <1>4
<1>7. \A n \in 1..N : n - 1 \in T => n \in T
  <2> SUFFICES ASSUME NEW n \in 1..N, i <= n - 1 => u[n - 1] # << >>, i <= n
               PROVE  u[n] # << >>
    BY <1>2
  <2>1. u[n] = Keep(u[n - 1], list[n], es) /\ u[n - 1] \in Seq(S) /\ list[n] \in S
    BY <1>2, <1>3
  <2>2. CASE i = n
    BY <1>5, <2>1, <2>2 DEF Keep
  <2>3. CASE i # n
    <3>1. u[n - 1] # << >>
      BY <1>2, <1>4, <2>3
    <3> QED
      BY <1>5, <2>1, <3>1 DEF Keep
  <2> QED
    BY <2>2, <2>3
<1> HIDE DEF T
<1>8. N \in T
  <2>1. \A n \in 0..N : n \in T
    BY <1>2, <1>6, <1>7, CountingUp
  <2> QED
    BY <1>2, <2>1
<1> QED
  BY <1>2, <1>3, <1>4, <1>8 DEF T

-----------------------------------------------------------------------------
\* Lists without our entries.

LEMMA OddIsNoList ==
  /\ \A list \in Seq(Entries) : list # Odd /\ list \in Values
  /\ \A v \in Values : v # Odd => v \in Seq(Entries)
  /\ << >> \in Seq(Entries) /\ Odd \in Values
BY FormsAssumption DEF Values

LEMMA OthersType ==
  ASSUME NEW list \in Seq(Entries)
  PROVE  Others(list) \in Seq(Entries) /\ Others(Others(list)) = Others(list)
BY WithoutType, WithoutTwice DEF Others

LEMMA OthersNone == Others(<< >>) = << >>
BY WithoutNone DEF Others

LEMMA OthersAppend ==
  ASSUME NEW list \in Seq(Entries), NEW e \in Ours
  PROVE  /\ Append(Others(list), e) \in Seq(Entries)
         /\ Others(Append(Others(list), e)) = Others(list)
<1>1. Others(list) \in Seq(Entries) /\ e \in Entries
  BY OthersType, EntriesAssumption
<1>2. Without(Append(Others(list), e), Ours) = Keep(Without(Others(list), Ours), e, Ours)
  BY <1>1, WithoutAppend
<1>3. Others(Append(Others(list), e)) = Others(Others(list))
  BY <1>2 DEF Others, Keep
<1> QED
  BY <1>1, <1>3, OthersType, AppendProperties

-----------------------------------------------------------------------------
\* Hooks and settings as functions.

IsFun(f) == f = [k \in DOMAIN f |-> f[k]]

LEMMA SameFun ==
  ASSUME NEW f, NEW g, IsFun(f), IsFun(g), DOMAIN f = DOMAIN g, \A k \in DOMAIN f : f[k] = g[k]
  PROVE  f = g
BY DEF IsFun

LEMMA HooksForm ==
  ASSUME NEW h
  PROVE  IsHooks(h) <=> IsFun(h) /\ DOMAIN h \subseteq Events /\ \A e \in DOMAIN h : h[e] \in Values
<1>1. ASSUME IsHooks(h)
      PROVE  IsFun(h) /\ DOMAIN h \subseteq Events /\ \A e \in DOMAIN h : h[e] \in Values
  <2>1. PICK es \in SUBSET Events : h \in [es -> Values]
    BY <1>1 DEF IsHooks
  <2> QED
    BY <2>1 DEF IsFun
<1>2. ASSUME IsFun(h), DOMAIN h \subseteq Events, \A e \in DOMAIN h : h[e] \in Values
      PROVE  IsHooks(h)
  <2>1. h \in [DOMAIN h -> Values]
    BY <1>2 DEF IsFun
  <2> QED
    BY <1>2, <2>1 DEF IsHooks
<1> QED
  BY <1>1, <1>2

LEMMA OddIsNoHooks == \A h : IsHooks(h) => h # Odd
BY FormsAssumption

LEMMA EmptyForms == DOMAIN Empty = {} /\ IsFun(Empty) /\ IsHooks(Empty) /\ IsSettings(Empty)
<1>1. DOMAIN Empty = {} /\ IsFun(Empty)
  BY DEF Empty, IsFun
<1> QED
  BY <1>1, HooksForm DEF IsSettings, IsFun

LEMMA SettingsAreDocs ==
  ASSUME NEW d, IsSettings(d)
  PROVE  IsDoc(d)
<1> DEFINE ks == DOMAIN d
           h  == IF "hooks" \in ks /\ d["hooks"] # Odd THEN d["hooks"] ELSE Empty
<1>1. IsHooks(h)
  BY EmptyForms DEF IsSettings
<1>2. PICK es \in SUBSET Events : h \in [es -> Values]
  BY <1>1 DEF IsHooks
<1>3. ks \in SUBSET Keys
  BY DEF IsSettings
<1>4. \A k \in ks : d[k] \in [es -> Values] \cup Values
  <2> TAKE k \in ks
  <2>1. k = "hooks" \/ k = "packages" \/ k = "rest"
    BY <1>3 DEF Keys
  <2> QED
    BY <1>2, <2>1, OddIsNoList DEF IsSettings
<1>5. d \in [ks -> [es -> Values] \cup Values]
  BY <1>4 DEF IsSettings
<1> QED
  BY <1>3, <1>5, FormsAssumption DEF IsDoc

-----------------------------------------------------------------------------
\* merge_hooks and strip_hooks.

Session == "SessionStart"

LEMMA MergeLeavesOdd ==
  ASSUME NEW h, Get(h, Session, << >>) = Odd
  PROVE  MergeHooks(h) = h
BY DEF MergeHooks, Session

LEMMA MergePuts ==
  ASSUME NEW h, IsHooks(h), Get(h, Session, << >>) # Odd, NEW l, l = Get(h, Session, << >>),
         NEW m, m = MergeHooks(h)
  PROVE  /\ l \in Seq(Entries) /\ IsHooks(m) /\ DOMAIN m = DOMAIN h \cup {Session}
         /\ m[Session] = Append(Others(l), Hook)
         /\ \A e \in DOMAIN h : e # Session => m[e] = h[e]
<1>1. l \in Seq(Entries)
  BY HooksForm, OddIsNoList DEF Get
<1>2. PICK more : more = Append(Others(l), Hook)
  OBVIOUS
<1>3. /\ IsFun(m) /\ DOMAIN m = DOMAIN h \cup {Session} /\ m[Session] = Append(Others(l), Hook)
      /\ \A e \in DOMAIN h : e # Session => m[e] = h[e]
  <2>1. m = Put(h, Session, more)
    BY <1>2 DEF MergeHooks, Session
  <2>2. /\ IsFun(m) /\ DOMAIN m = DOMAIN h \cup {Session} /\ m[Session] = more
        /\ \A e \in DOMAIN h : e # Session => m[e] = h[e]
    BY <2>1 DEF Put, IsFun
  <2> QED
    BY <1>2, <2>2
<1>4. m[Session] \in Values
  <2>1. Hook \in Ours
    BY DEF Ours
  <2>2. Append(Others(l), Hook) \in Seq(Entries)
    BY <1>1, <2>1, OthersAppend
  <2> QED
    BY <1>3, <2>2, OddIsNoList
<1>5. \A e \in DOMAIN m : m[e] \in Values
  BY <1>3, <1>4, HooksForm
<1>6. DOMAIN m \subseteq Events
  BY <1>3, HooksForm, EventsAssumption DEF Session
<1>7. IsHooks(m)
  BY <1>3, <1>5, <1>6, HooksForm
<1> QED
  BY <1>1, <1>3, <1>7

LEMMA MergeType ==
  ASSUME NEW h, IsHooks(h)
  PROVE  IsHooks(MergeHooks(h))
BY MergeLeavesOdd, MergePuts

\* Merging again changes nothing.
LEMMA MergeTwice ==
  ASSUME NEW h, IsHooks(h)
  PROVE  MergeHooks(MergeHooks(h)) = MergeHooks(h)
<1> DEFINE l == Get(h, Session, << >>)
           m == MergeHooks(h)
<1>1. CASE l = Odd
  BY <1>1, MergeLeavesOdd
<1>2. CASE l # Odd
  <2>1. /\ l \in Seq(Entries) /\ IsHooks(m) /\ Session \in DOMAIN m
        /\ m[Session] = Append(Others(l), Hook)
    BY <1>2, MergePuts
  <2> DEFINE k == Get(m, Session, << >>)
             mm == MergeHooks(m)
  <2> HIDE DEF m
  <2>2. k = Append(Others(l), Hook) /\ Hook \in Ours
    BY <2>1 DEF Get, Ours
  <2>3. k \in Seq(Entries) /\ Others(k) = Others(l) /\ k # Odd
    <3>1. Append(Others(l), Hook) \in Seq(Entries) /\ Others(Append(Others(l), Hook)) = Others(l)
      BY <2>1, <2>2, OthersAppend
    <3> QED
      BY <2>2, <3>1, OddIsNoList
  <2>4. /\ IsHooks(mm) /\ DOMAIN mm = DOMAIN m \cup {Session} /\ mm[Session] = Append(Others(k), Hook)
        /\ \A e \in DOMAIN m : e # Session => mm[e] = m[e]
    BY <2>1, <2>3, MergePuts
  <2> HIDE DEF k, mm
  <2>5. DOMAIN mm = DOMAIN m /\ \A e \in DOMAIN m : mm[e] = m[e]
    BY <2>1, <2>3, <2>4
  <2>6. mm = m
    BY <2>1, <2>4, <2>5, HooksForm, SameFun
  <2> QED
    BY <2>6 DEF mm, m
<1> QED
  BY <1>1, <1>2

LEMMA StripHolds ==
  ASSUME NEW h, IsHooks(h), NEW s, s = StripHooks(h)
  PROVE  /\ IsHooks(s)
         /\ DOMAIN s = {e \in DOMAIN h : h[e] = Odd \/ Others(h[e]) # << >>}
         /\ \A e \in DOMAIN s : s[e] = IF h[e] = Odd THEN Odd ELSE Others(h[e])
<1>1. /\ IsFun(s) /\ DOMAIN s = {e \in DOMAIN h : h[e] = Odd \/ Others(h[e]) # << >>}
      /\ \A e \in DOMAIN s : s[e] = IF h[e] = Odd THEN Odd ELSE Others(h[e])
  BY DEF StripHooks, IsFun
<1>2. \A e \in DOMAIN h : h[e] \in Values
  BY HooksForm
<1>3. \A e \in DOMAIN s : s[e] \in Values
  <2> TAKE e \in DOMAIN s
  <2>1. e \in DOMAIN h /\ h[e] \in Values
    BY <1>1, <1>2
  <2>2. CASE h[e] = Odd
    BY <1>1, <2>2, OddIsNoList
  <2>3. CASE h[e] # Odd
    BY <1>1, <2>1, <2>3, OddIsNoList, OthersType
  <2> QED
    BY <2>2, <2>3
<1>4. IsHooks(s)
  BY <1>1, <1>3, HooksForm
<1> QED
  BY <1>1, <1>4

\* Stripping takes back what merging added.
LEMMA StripMerged ==
  ASSUME NEW h, IsHooks(h)
  PROVE  StripHooks(MergeHooks(h)) = StripHooks(h)
<1> DEFINE l == Get(h, Session, << >>)
           m == MergeHooks(h)
           s == StripHooks(h)
           t == StripHooks(m)
<1>1. CASE l = Odd
  BY <1>1, MergeLeavesOdd
<1>2. CASE l # Odd
  <2>1. /\ l \in Seq(Entries) /\ IsHooks(m) /\ DOMAIN m = DOMAIN h \cup {Session}
        /\ m[Session] = Append(Others(l), Hook)
        /\ \A e \in DOMAIN h : e # Session => m[e] = h[e]
    BY <1>2, MergePuts
  <2>2. /\ IsHooks(s) /\ DOMAIN s = {e \in DOMAIN h : h[e] = Odd \/ Others(h[e]) # << >>}
        /\ \A e \in DOMAIN s : s[e] = IF h[e] = Odd THEN Odd ELSE Others(h[e])
    BY StripHolds
  <2> HIDE DEF s, m
  <2>3. /\ IsHooks(t) /\ DOMAIN t = {e \in DOMAIN m : m[e] = Odd \/ Others(m[e]) # << >>}
        /\ \A e \in DOMAIN t : t[e] = IF m[e] = Odd THEN Odd ELSE Others(m[e])
    BY <2>1, StripHolds
  <2> HIDE DEF t
  <2>4. m[Session] # Odd /\ Others(m[Session]) = Others(l)
    BY <2>1, OthersAppend, OddIsNoList DEF Ours
  <2>5. IF Session \in DOMAIN h THEN h[Session] = l ELSE Others(l) = << >>
    BY OthersNone DEF Get
  <2> HIDE DEF l
  <2>6. \A e \in DOMAIN m : e # Session => e \in DOMAIN h /\ m[e] = h[e]
    BY <2>1
  <2>7. DOMAIN t = DOMAIN s
    <3>1. Session \in DOMAIN t <=> Session \in DOMAIN s
      BY <1>2, <2>1, <2>2, <2>3, <2>4, <2>5
    <3>2. \A e : e # Session => (e \in DOMAIN t <=> e \in DOMAIN s)
      BY <2>1, <2>2, <2>3, <2>6
    <3> QED
      BY <3>1, <3>2
  <2>8. \A e \in DOMAIN t : t[e] = s[e]
    <3> TAKE e \in DOMAIN t
    <3>1. CASE e = Session
      BY <1>2, <2>2, <2>3, <2>4, <2>5, <2>7, <3>1
    <3>2. CASE e # Session
      BY <2>2, <2>3, <2>6, <2>7, <3>2
    <3> QED
      BY <3>1, <3>2
  <2>9. t = s
    BY <2>2, <2>3, <2>7, <2>8, HooksForm, SameFun
  <2> QED
    BY <2>9 DEF t, s, m
<1> QED
  BY <1>1, <1>2

-----------------------------------------------------------------------------
\* install_agent and uninstall_agent.

LEMMA PackagesAccepted ==
  ASSUME NEW d, IsSettings(d), NEW a, Accepts(a, d), IsPi(a)
  PROVE  Get(d, "packages", << >>) \in Seq(Entries)
BY OddIsNoList DEF Get, IsSettings, Accepts

LEMMA HooksAccepted ==
  ASSUME NEW d, IsSettings(d), NEW a, Accepts(a, d), ~IsPi(a)
  PROVE  IsHooks(Get(d, "hooks", Empty))
BY EmptyForms DEF Get, IsSettings, Accepts

\* What install leaves: our reference in d["packages"], our hook in d["hooks"].
ReferenceIn(g, a, d, l, v) ==
  /\ IsSettings(g) /\ Accepts(a, g) /\ DOMAIN g = DOMAIN d \cup {"packages"}
  /\ g["packages"] = Append(Others(l), v) /\ g["packages"] \in Seq(Entries)
  /\ Others(g["packages"]) = Others(l)
  /\ \A k \in DOMAIN d : k # "packages" => g[k] = d[k]

HookIn(g, a, d, h) ==
  /\ IsSettings(g) /\ Accepts(a, g) /\ DOMAIN g = DOMAIN d \cup {"hooks"}
  /\ g["hooks"] = MergeHooks(h) /\ IsHooks(h) /\ IsHooks(g["hooks"])
  /\ \A k \in DOMAIN d : k # "hooks" => g[k] = d[k]

LEMMA PackageInstalled ==
  ASSUME NEW d, IsSettings(d), NEW a, Accepts(a, d), IsPi(a), NEW v \in Pins,
         NEW l, l = Get(d, "packages", << >>), NEW g, g = Installed(a, d, v)
  PROVE  ReferenceIn(g, a, d, l, v)
<1>1. PICK more : more = Append(Others(l), v)
  OBVIOUS
<1>2. g = Put(d, "packages", more)
  BY <1>1 DEF Installed
<1>3. /\ IsFun(g) /\ DOMAIN g = DOMAIN d \cup {"packages"} /\ g["packages"] = more
      /\ \A k \in DOMAIN d : k # "packages" => g[k] = d[k]
  BY <1>2 DEF Put, IsFun
<1>4. more \in Seq(Entries) /\ Others(more) = Others(l)
  <2>1. l \in Seq(Entries) /\ v \in Ours
    BY PackagesAccepted DEF Ours
  <2> QED
    BY <1>1, <2>1, OthersAppend
<1>5. more # Odd /\ more \in Values
  BY <1>4, OddIsNoList
<1>6. IsSettings(g)
  <2>1. DOMAIN g \subseteq Keys /\ g = [k \in DOMAIN g |-> g[k]]
    BY <1>3 DEF IsSettings, Keys, IsFun
  <2>2. "hooks" \in DOMAIN g => "hooks" \in DOMAIN d /\ g["hooks"] = d["hooks"]
    BY <1>3
  <2>3. "rest" \in DOMAIN g => "rest" \in DOMAIN d /\ g["rest"] = d["rest"]
    BY <1>3
  <2> QED
    BY <1>3, <1>5, <2>1, <2>2, <2>3 DEF IsSettings
<1>7. Accepts(a, g)
  BY <1>3, <1>5 DEF Accepts, Get
<1> QED
  BY <1>1, <1>3, <1>4, <1>6, <1>7 DEF ReferenceIn

LEMMA HookInstalled ==
  ASSUME NEW d, IsSettings(d), NEW a, Accepts(a, d), ~IsPi(a), NEW v,
         NEW h, h = Get(d, "hooks", Empty), NEW g, g = Installed(a, d, v)
  PROVE  HookIn(g, a, d, h)
<1>1. PICK merged : merged = MergeHooks(h)
  OBVIOUS
<1>2. g = Put(d, "hooks", merged)
  BY <1>1 DEF Installed
<1>3. /\ IsFun(g) /\ DOMAIN g = DOMAIN d \cup {"hooks"} /\ g["hooks"] = merged
      /\ \A k \in DOMAIN d : k # "hooks" => g[k] = d[k]
  BY <1>2 DEF Put, IsFun
<1>4. IsHooks(h) /\ IsHooks(merged) /\ merged # Odd
  BY <1>1, HooksAccepted, MergeType, OddIsNoHooks
<1>5. IsSettings(g)
  <2>1. DOMAIN g \subseteq Keys /\ g = [k \in DOMAIN g |-> g[k]]
    BY <1>3 DEF IsSettings, Keys, IsFun
  <2>2. "packages" \in DOMAIN g => "packages" \in DOMAIN d /\ g["packages"] = d["packages"]
    BY <1>3
  <2>3. "rest" \in DOMAIN g => "rest" \in DOMAIN d /\ g["rest"] = d["rest"]
    BY <1>3
  <2> QED
    BY <1>3, <1>4, <2>1, <2>2, <2>3 DEF IsSettings
<1>6. Accepts(a, g)
  BY <1>3, <1>4 DEF Accepts, Get
<1> QED
  BY <1>1, <1>3, <1>4, <1>5, <1>6 DEF HookIn

LEMMA InstalledType ==
  ASSUME NEW d, IsSettings(d), NEW a, Accepts(a, d), NEW v \in Pins
  PROVE  IsSettings(Installed(a, d, v)) /\ Accepts(a, Installed(a, d, v))
<1>1. CASE IsPi(a)
  BY <1>1, PackageInstalled DEF ReferenceIn
<1>2. CASE ~IsPi(a)
  BY <1>2, HookInstalled DEF HookIn
<1> QED
  BY <1>1, <1>2

\* Installing another version leaves no trace of the first.
LEMMA InstalledTwice ==
  ASSUME NEW d, IsSettings(d), NEW a, Accepts(a, d), NEW v1 \in Pins, NEW v2 \in Pins
  PROVE  Installed(a, Installed(a, d, v1), v2) = Installed(a, d, v2)
<1> DEFINE g == Installed(a, d, v1)
           f == Installed(a, d, v2)
           gf == Installed(a, g, v2)
<1>1. CASE IsPi(a)
  <2> DEFINE l == Get(d, "packages", << >>)
             m == Get(g, "packages", << >>)
  <2>1. ReferenceIn(g, a, d, l, v1) /\ ReferenceIn(f, a, d, l, v2)
    BY <1>1, PackageInstalled
  <2>2. IsSettings(g) /\ Accepts(a, g)
    BY <2>1 DEF ReferenceIn
  <2> HIDE DEF g, f, l
  <2>3. ReferenceIn(gf, a, g, m, v2)
    BY <1>1, <2>2, PackageInstalled
  <2>4. m = g["packages"]
    BY <2>1 DEF Get, ReferenceIn
  <2> HIDE DEF m, gf
  <2>5. DOMAIN gf = DOMAIN f /\ \A k \in DOMAIN gf : gf[k] = f[k]
    BY <2>1, <2>3, <2>4 DEF ReferenceIn
  <2>6. gf = f
    BY <2>1, <2>3, <2>5, SameFun DEF IsSettings, IsFun, ReferenceIn
  <2> QED
    BY <2>6 DEF gf, f, g
<1>2. CASE ~IsPi(a)
  <2> DEFINE h == Get(d, "hooks", Empty)
             m == Get(g, "hooks", Empty)
  <2>1. HookIn(g, a, d, h) /\ HookIn(f, a, d, h)
    BY <1>2, HookInstalled
  <2>2. IsSettings(g) /\ Accepts(a, g)
    BY <2>1 DEF HookIn
  <2> HIDE DEF g, f, h
  <2>3. HookIn(gf, a, g, m)
    BY <1>2, <2>2, HookInstalled
  <2>4. m = MergeHooks(h)
    BY <2>1 DEF Get, HookIn
  <2> HIDE DEF m, gf
  <2>5. MergeHooks(m) = MergeHooks(h)
    BY <2>1, <2>4, MergeTwice DEF HookIn
  <2>6. DOMAIN gf = DOMAIN f /\ \A k \in DOMAIN gf : gf[k] = f[k]
    BY <2>1, <2>3, <2>5 DEF HookIn
  <2>7. gf = f
    BY <2>1, <2>3, <2>6, SameFun DEF IsSettings, IsFun, HookIn
  <2> QED
    BY <2>7 DEF gf, f, g
<1> QED
  BY <1>1, <1>2

\* What uninstall keeps under a key, and of settings.
Kept(d, k) == IF d[k] = Odd THEN Odd ELSE IF k = "hooks" THEN StripHooks(d[k]) ELSE Others(d[k])

KeptOf(g, d) ==
  /\ IsSettings(g)
  /\ DOMAIN g = {k \in DOMAIN d : Kept(d, k) = Odd \/ DOMAIN Kept(d, k) # {}}
  /\ \A k \in DOMAIN g : g[k] = Kept(d, k)

LEMMA KeptForms ==
  ASSUME NEW d, IsSettings(d), NEW k \in DOMAIN d
  PROVE  /\ k = "hooks" => Kept(d, k) = Odd \/ IsHooks(Kept(d, k))
         /\ k = "packages" => Kept(d, k) \in Values
         /\ k = "rest" => Kept(d, k) = Odd
<1>1. CASE k = "hooks"
  BY <1>1, StripHolds DEF Kept, IsSettings
<1>2. CASE k = "packages"
  <2>1. d[k] \in Values
    BY <1>2 DEF IsSettings
  <2>2. CASE d[k] = Odd
    BY <1>2, <2>2, OddIsNoList DEF Kept
  <2>3. CASE d[k] # Odd
    <3>1. Others(d[k]) \in Values
      BY <2>1, <2>3, OddIsNoList, OthersType
    <3> QED
      BY <1>2, <2>3, <3>1 DEF Kept
  <2> QED
    BY <2>2, <2>3
<1>3. CASE k = "rest"
  BY <1>3 DEF Kept, IsSettings
<1> QED
  BY <1>1, <1>2, <1>3

LEMMA StrippedHolds ==
  ASSUME NEW d, IsSettings(d), NEW g, g = Stripped(d)
  PROVE  KeptOf(g, d)
<1>1. /\ IsFun(g) /\ DOMAIN g = {k \in DOMAIN d : Kept(d, k) = Odd \/ DOMAIN Kept(d, k) # {}}
      /\ \A k \in DOMAIN g : g[k] = Kept(d, k)
  BY DEF Stripped, Kept, IsFun
<1>2. DOMAIN g \subseteq Keys /\ g = [k \in DOMAIN g |-> g[k]]
  BY <1>1 DEF IsSettings, IsFun
<1>3. \A k \in DOMAIN g : /\ k = "hooks" => g[k] = Odd \/ IsHooks(g[k])
                          /\ k = "packages" => g[k] \in Values
                          /\ k = "rest" => g[k] = Odd
  BY <1>1, KeptForms
<1>4. IsSettings(g)
  BY <1>2, <1>3 DEF IsSettings
<1> QED
  BY <1>1, <1>4 DEF KeptOf

LEMMA NoElements == \A list \in Seq(Entries) : DOMAIN list = {} <=> list = << >>
OBVIOUS

\* uninstall takes back what install added.
LEMMA StrippedInstalled ==
  ASSUME NEW d, IsSettings(d), NEW a, Accepts(a, d), NEW v \in Pins
  PROVE  Stripped(Installed(a, d, v)) = Stripped(d)
<1> DEFINE g == Installed(a, d, v)
           s == Stripped(d)
           t == Stripped(g)
           key == IF IsPi(a) THEN "packages" ELSE "hooks"
<1>1. KeptOf(s, d)
  BY StrippedHolds
<1>2. KeptOf(t, g)
  BY InstalledType, StrippedHolds
<1>3. /\ DOMAIN g = DOMAIN d \cup {key} /\ \A k \in DOMAIN d : k # key => g[k] = d[k]
      /\ key \in DOMAIN d => Kept(g, key) = Kept(d, key)
      /\ key \notin DOMAIN d => Kept(g, key) # Odd /\ DOMAIN Kept(g, key) = {}
  <2>1. CASE IsPi(a)
    <3> DEFINE l == Get(d, "packages", << >>)
    <3>1. ReferenceIn(g, a, d, l, v) /\ l \in Seq(Entries)
      BY <2>1, PackageInstalled, PackagesAccepted
    <3> HIDE DEF g
    <3>2. Kept(g, "packages") = Others(l)
      BY <3>1, OddIsNoList DEF ReferenceIn, Kept
    <3>3. "packages" \in DOMAIN d => Kept(d, "packages") = Others(l)
      BY <3>1, OddIsNoList DEF Get, Kept
    <3>4. "packages" \notin DOMAIN d => Others(l) = << >>
      BY OthersNone DEF Get
    <3> HIDE DEF l
    <3> QED
      BY <2>1, <3>1, <3>2, <3>3, <3>4, NoElements, OddIsNoList DEF ReferenceIn
  <2>2. CASE ~IsPi(a)
    <3> DEFINE h == Get(d, "hooks", Empty)
    <3>1. HookIn(g, a, d, h)
      BY <2>2, HookInstalled
    <3> HIDE DEF g
    <3>2. Kept(g, "hooks") = StripHooks(h) /\ IsHooks(StripHooks(h))
      BY <3>1, OddIsNoHooks, StripMerged, StripHolds DEF HookIn, Kept
    <3>3. "hooks" \in DOMAIN d => Kept(d, "hooks") = StripHooks(h)
      BY <3>1, OddIsNoHooks DEF Get, Kept, HookIn
    <3>4. "hooks" \notin DOMAIN d => DOMAIN StripHooks(h) = {}
      BY EmptyForms, StripHolds DEF Get
    <3> HIDE DEF h
    <3> QED
      BY <2>2, <3>1, <3>2, <3>3, <3>4, OddIsNoHooks DEF HookIn
  <2> QED
    BY <2>1, <2>2
<1> HIDE DEF g, s, t, key
<1>4. \A k \in DOMAIN d : Kept(g, k) = Kept(d, k)
  BY <1>3 DEF Kept
<1>5. DOMAIN t = DOMAIN s
  BY <1>1, <1>2, <1>3, <1>4 DEF KeptOf
<1>6. \A k \in DOMAIN t : t[k] = s[k]
  BY <1>1, <1>2, <1>4, <1>5 DEF KeptOf
<1>7. t = s
  BY <1>1, <1>2, <1>5, <1>6, SameFun DEF KeptOf, IsSettings, IsFun
<1> QED
  BY <1>7 DEF t, s, g

-----------------------------------------------------------------------------
\* What the commands do at each place of the settings.

LEMMA GetEvent ==
  ASSUME NEW h, IsHooks(h), NEW e
  PROVE  Get(h, e, << >>) \in Values
BY HooksForm, OddIsNoList DEF Get

LEMMA UnderType ==
  ASSUME NEW d, IsSettings(d), NEW place \in Places
  PROVE  Under(d, place) \in Values
<1> DEFINE hooks == Get(d, "hooks", Odd)
<1>1. hooks = Odd \/ IsHooks(hooks)
  BY DEF Get, IsSettings
<1>2. CASE place \in Events
  BY <1>1, <1>2, GetEvent, OddIsNoList DEF Under
<1>3. CASE place \notin Events
  <2>1. place \in Keys
    BY <1>3 DEF Places
  <2>2. CASE place = "hooks"
    BY <1>3, <2>2, OddIsNoList DEF Under, Get
  <2>3. CASE place = "packages"
    BY <1>3, <2>3, OddIsNoList DEF Under, Get, IsSettings
  <2>4. CASE place = "rest"
    BY <1>3, <2>4, OddIsNoList DEF Under, Get, IsSettings
  <2> QED
    BY <2>1, <2>2, <2>3, <2>4 DEF Keys
<1> QED
  BY <1>2, <1>3

\* A list without our entries.
Rest(v) == IF v = Odd THEN Odd ELSE Others(v)

LEMMA RestOfRest ==
  ASSUME NEW v \in Values
  PROVE  Rest(v) \in Values /\ Rest(Rest(v)) = Rest(v) /\ (Rest(v) = Odd <=> v = Odd)
<1>1. CASE v = Odd
  BY <1>1, OddIsNoList DEF Rest
<1>2. CASE v # Odd
  <2>1. Others(v) \in Seq(Entries) /\ Others(Others(v)) = Others(v)
    BY <1>2, OddIsNoList, OthersType
  <2> QED
    BY <1>2, <2>1, OddIsNoList DEF Rest
<1> QED
  BY <1>1, <1>2

LEMMA RestOfNone == Rest(<< >>) = << >>
BY OddIsNoList, OthersNone DEF Rest

LEMMA GetStripped ==
  ASSUME NEW h, IsHooks(h), NEW e
  PROVE  Get(StripHooks(h), e, << >>) = Rest(Get(h, e, << >>))
<1> DEFINE s == StripHooks(h)
<1>1. /\ DOMAIN s = {k \in DOMAIN h : h[k] = Odd \/ Others(h[k]) # << >>}
      /\ \A k \in DOMAIN s : s[k] = IF h[k] = Odd THEN Odd ELSE Others(h[k])
  BY StripHolds
<1> HIDE DEF s
<1> SUFFICES Get(s, e, << >>) = Rest(Get(h, e, << >>))
  BY DEF s
<1>2. CASE e \in DOMAIN s
  BY <1>1, <1>2 DEF Get, Rest
<1>3. CASE e \notin DOMAIN s /\ e \in DOMAIN h
  BY <1>1, <1>3 DEF Get, Rest
<1>4. CASE e \notin DOMAIN s /\ e \notin DOMAIN h
  BY <1>1, <1>4, RestOfNone DEF Get
<1> QED
  BY <1>1, <1>2, <1>3, <1>4

LEMMA StrippedUnder ==
  ASSUME NEW d, IsSettings(d), NEW place \in Places
  PROVE  Under(Stripped(d), place) = Rest(Under(d, place))
<1> DEFINE g == Stripped(d)
           hooks == Get(d, "hooks", Odd)
           left  == Get(g, "hooks", Odd)
<1>1. KeptOf(g, d)
  BY StrippedHolds
<1> HIDE DEF g
<1>2. hooks = Odd \/ IsHooks(hooks)
  BY DEF Get, IsSettings
<1>3. CASE hooks = Odd
  <2>1. "hooks" \in DOMAIN d => d["hooks"] = Odd
    BY <1>3 DEF Get
  <2>2. /\ "hooks" \in DOMAIN g <=> "hooks" \in DOMAIN d
        /\ "hooks" \in DOMAIN g => g["hooks"] = Odd
    BY <1>1, <2>1 DEF KeptOf, Kept
  <2>3. left = Odd /\ Get(g, "hooks", << >>) = Rest(Get(d, "hooks", << >>))
    BY <2>1, <2>2, RestOfNone DEF Get, Rest
  <2>4. /\ place \in Events => Under(d, place) = << >> /\ Under(g, place) = << >>
        /\ place \notin Events => /\ Under(d, place) = Get(d, place, << >>)
                                  /\ Under(g, place) = Get(g, place, << >>)
    BY <1>3, <2>3 DEF Under
  <2> QED
    <3>1. CASE place \in Events
      BY <2>4, <3>1, RestOfNone DEF g
    <3>2. CASE place = "hooks" /\ place \notin Events
      BY <2>3, <2>4, <3>2 DEF g
    <3>3. CASE place \in {"packages", "rest"} /\ place \notin Events
      <4>1. Get(g, place, << >>) = Rest(Get(d, place, << >>))
        <5>1. CASE place \notin DOMAIN d
          BY <1>1, <5>1, RestOfNone DEF KeptOf, Get
        <5>2. CASE place \in DOMAIN d
          <6>1. d[place] \in Values /\ Kept(d, place) = Rest(d[place])
            BY <3>3, <5>2, OddIsNoList DEF IsSettings, Kept, Rest
          <6>2. Rest(d[place]) \in Values
            BY <6>1, RestOfRest
          <6>3. place \notin DOMAIN g => Rest(d[place]) = << >>
            BY <1>1, <5>2, <6>1, <6>2, NoElements, OddIsNoList DEF KeptOf
          <6> QED
            BY <1>1, <5>2, <6>1, <6>3 DEF KeptOf, Get
        <5> QED
          BY <5>1, <5>2
      <4> QED
        BY <2>4, <3>3, <4>1 DEF g
    <3> QED
      BY <3>1, <3>2, <3>3 DEF Places, Keys
<1>4. CASE hooks # Odd
  <2>1. "hooks" \in DOMAIN d /\ d["hooks"] = hooks /\ IsHooks(hooks)
    BY <1>2, <1>4 DEF Get
  <2> HIDE DEF hooks
  <2>2. Kept(d, "hooks") = StripHooks(hooks) /\ IsHooks(StripHooks(hooks))
    BY <1>4, <2>1, StripHolds DEF Kept
  <2>3. /\ "hooks" \in DOMAIN g => left = StripHooks(hooks) /\ left # Odd
        /\ "hooks" \notin DOMAIN g => left = Odd /\ DOMAIN StripHooks(hooks) = {}
    BY <1>1, <2>1, <2>2, OddIsNoHooks DEF KeptOf, Get
  <2> HIDE DEF left
  <2>4. \A e : (IF left = Odd THEN << >> ELSE Get(left, e, << >>)) = Rest(Get(hooks, e, << >>))
    <3> TAKE e
    <3>1. Get(StripHooks(hooks), e, << >>) = Rest(Get(hooks, e, << >>))
      BY <2>1, GetStripped
    <3> QED
      BY <2>3, <3>1 DEF Get
  <2>5. CASE place \in Events
    <3>1. Under(d, place) = Get(hooks, place, << >>)
      BY <1>4, <2>5 DEF Under, hooks
    <3>2. Under(g, place) = IF left = Odd THEN << >> ELSE Get(left, place, << >>)
      BY <2>5 DEF Under, left
    <3> QED
      BY <2>4, <3>1, <3>2 DEF g
  <2>6. CASE place = "hooks" /\ place \notin Events
    <3>1. Under(d, place) = << >>
      BY <1>4, <2>6 DEF Under, hooks
    <3>2. Under(g, place) = << >>
      BY <2>3, <2>6 DEF Under, left, Get
    <3> QED
      BY <3>1, <3>2, RestOfNone DEF g
  <2>7. CASE place \in {"packages", "rest"} /\ place \notin Events
    <3>1. /\ Under(d, place) = Get(d, place, << >>)
          /\ Under(g, place) = Get(g, place, << >>)
      BY <2>7 DEF Under
    <3>2. Get(g, place, << >>) = Rest(Get(d, place, << >>))
      <4>1. CASE place \notin DOMAIN d
        BY <1>1, <4>1, RestOfNone DEF KeptOf, Get
      <4>2. CASE place \in DOMAIN d
        <5>1. d[place] \in Values /\ Kept(d, place) = Rest(d[place])
          BY <2>7, <4>2, OddIsNoList DEF IsSettings, Kept, Rest
        <5>2. Rest(d[place]) \in Values
          BY <5>1, RestOfRest
        <5>3. place \notin DOMAIN g => Rest(d[place]) = << >>
          BY <1>1, <4>2, <5>1, <5>2, NoElements, OddIsNoList DEF KeptOf
        <5> QED
          BY <1>1, <4>2, <5>1, <5>3 DEF KeptOf, Get
      <4> QED
        BY <4>1, <4>2
    <3> QED
      BY <3>1, <3>2 DEF g
  <2> QED
    BY <2>5, <2>6, <2>7 DEF Places, Keys
<1> QED
  BY <1>3, <1>4

\* uninstalling again finds nothing.
LEMMA StrippedIsClean ==
  ASSUME NEW d, IsSettings(d)
  PROVE  ~Shrinks(Stripped(d))
<1> SUFFICES ASSUME NEW place \in Places, Under(Stripped(d), place) # Odd
             PROVE  Others(Under(Stripped(d), place)) = Under(Stripped(d), place)
  BY DEF Shrinks
<1>1. Under(Stripped(d), place) = Rest(Under(d, place)) /\ Under(d, place) \in Values
  BY StrippedUnder, UnderType
<1>2. Rest(Rest(Under(d, place))) = Rest(Under(d, place))
  BY <1>1, RestOfRest
<1> QED
  BY <1>1, <1>2 DEF Rest

\* Where install puts our entry, and what it does there.
Mine(a) == IF IsPi(a) THEN "packages" ELSE "SessionStart"

EndsWithOurs(list, before) ==
  \E e \in Ours : list = Append(Others(before), e)

PutsOurs(g, d, a, place) ==
  IF place = Mine(a) /\ Under(d, place) # Odd
    THEN EndsWithOurs(Under(g, place), Under(d, place))
    ELSE Under(g, place) = Under(d, place)

LEMMA GetMerged ==
  ASSUME NEW h, IsHooks(h), NEW e
  PROVE  IF e = Session /\ Get(h, e, << >>) # Odd
           THEN EndsWithOurs(Get(MergeHooks(h), e, << >>), Get(h, e, << >>))
           ELSE Get(MergeHooks(h), e, << >>) = Get(h, e, << >>)
<1> DEFINE l == Get(h, Session, << >>)
           m == MergeHooks(h)
<1>1. CASE l = Odd
  BY <1>1, MergeLeavesOdd
<1>2. CASE l # Odd
  <2>1. /\ DOMAIN m = DOMAIN h \cup {Session} /\ m[Session] = Append(Others(l), Hook)
        /\ \A k \in DOMAIN h : k # Session => m[k] = h[k]
    BY <1>2, MergePuts
  <2>2. Hook \in Ours
    BY DEF Ours
  <2> HIDE DEF m
  <2>3. CASE e = Session
    <3>1. EndsWithOurs(Get(m, e, << >>), l)
      BY <2>1, <2>2, <2>3 DEF Get, EndsWithOurs
    <3> QED
      BY <1>2, <2>3, <3>1 DEF m
  <2>4. CASE e # Session
    <3>1. Get(m, e, << >>) = Get(h, e, << >>)
      BY <2>1, <2>4 DEF Get
    <3> QED
      BY <2>4, <3>1 DEF m
  <2> QED
    BY <2>3, <2>4
<1> QED
  BY <1>1, <1>2

LEMMA InstalledUnder ==
  ASSUME NEW d, IsSettings(d), NEW a, Accepts(a, d), NEW v \in Pins, NEW place \in Places
  PROVE  PutsOurs(Installed(a, d, v), d, a, place)
<1> DEFINE g == Installed(a, d, v)
<1>1. "packages" \notin Events /\ "hooks" \notin Events /\ Session \in Events
      /\ \A k \in Keys : k \notin Events
  BY EventsAssumption DEF Keys, Session
<1>2. CASE IsPi(a)
  <2> DEFINE l == Get(d, "packages", << >>)
  <2>1. ReferenceIn(g, a, d, l, v) /\ l \in Seq(Entries)
    BY <1>2, PackageInstalled, PackagesAccepted
  <2> HIDE DEF g
  <2>2. \A k : k # "packages" => Get(g, k, << >>) = Get(d, k, << >>)
    BY <2>1 DEF ReferenceIn, Get
  <2>3. Get(g, "hooks", Odd) = Get(d, "hooks", Odd)
    BY <2>1 DEF ReferenceIn, Get
  <2>4. CASE place = "packages"
    <3>1. Under(d, place) = l /\ Under(g, place) = Append(Others(l), v)
      BY <1>1, <2>1, <2>4 DEF Under, ReferenceIn, Get
    <3>2. v \in Ours
      BY DEF Ours
    <3>3. EndsWithOurs(Under(g, place), Under(d, place))
      BY <3>1, <3>2 DEF EndsWithOurs
    <3> QED
      BY <1>2, <2>1, <2>4, <3>1, <3>3, OddIsNoList DEF PutsOurs, Mine, g
  <2>5. CASE place # "packages"
    <3>1. Under(g, place) = Under(d, place)
      BY <2>2, <2>3, <2>5 DEF Under
    <3> QED
      BY <1>2, <2>5, <3>1 DEF PutsOurs, Mine, g
  <2> QED
    BY <2>4, <2>5
<1>3. CASE ~IsPi(a)
  <2> DEFINE h == Get(d, "hooks", Empty)
             m == MergeHooks(h)
  <2>1. HookIn(g, a, d, h)
    BY <1>3, HookInstalled
  <2> HIDE DEF g
  <2>2. \A k : k # "hooks" => Get(g, k, << >>) = Get(d, k, << >>)
    BY <2>1 DEF HookIn, Get
  <2>3. Get(g, "hooks", Odd) = m /\ m # Odd
    BY <2>1, OddIsNoHooks DEF HookIn, Get
  <2>4. "hooks" \in DOMAIN d => d["hooks"] # Odd
    BY <2>1, OddIsNoHooks DEF HookIn, Get
  <2>5. CASE place \in Events
    <3>1. Under(g, place) = Get(m, place, << >>)
      BY <2>3, <2>5 DEF Under
    <3>2. Under(d, place) = Get(h, place, << >>)
      <4>1. CASE "hooks" \in DOMAIN d
        BY <2>4, <2>5, <4>1 DEF Under, Get
      <4>2. CASE "hooks" \notin DOMAIN d
        BY <2>5, <4>2, EmptyForms DEF Under, Get
      <4> QED
        BY <4>1, <4>2
    <3>3. IF place = Session /\ Get(h, place, << >>) # Odd
            THEN EndsWithOurs(Get(m, place, << >>), Get(h, place, << >>))
            ELSE Get(m, place, << >>) = Get(h, place, << >>)
      BY <2>1, GetMerged DEF HookIn
    <3> HIDE DEF h, m
    <3> QED
      BY <1>3, <3>1, <3>2, <3>3 DEF PutsOurs, Mine, Session, g
  <2>6. CASE place = "hooks"
    <3>1. Under(g, place) = << >>
      BY <1>1, <2>3, <2>6 DEF Under
    <3>2. Under(d, place) = << >>
      BY <1>1, <2>4, <2>6 DEF Under, Get
    <3> QED
      BY <1>3, <2>6, <3>1, <3>2 DEF PutsOurs, Mine, g
  <2>7. CASE place \notin Events /\ place # "hooks"
    <3>1. Under(g, place) = Under(d, place)
      BY <2>2, <2>7 DEF Under
    <3>2. place # Mine(a)
      BY <1>1, <1>3, <2>7 DEF Mine, Session
    <3> QED
      BY <3>1, <3>2 DEF PutsOurs, g
  <2> QED
    BY <2>5, <2>6, <2>7
<1> QED
  BY <1>2, <1>3

LEMMA RestOfInstalled ==
  ASSUME NEW d, IsSettings(d), NEW a, Accepts(a, d), NEW v \in Pins, NEW place \in Places
  PROVE  Rest(Under(Installed(a, d, v), place)) = Rest(Under(d, place))
<1> DEFINE before == Under(d, place)
           after  == Under(Installed(a, d, v), place)
<1>1. PutsOurs(Installed(a, d, v), d, a, place) /\ before \in Values
  BY InstalledUnder, UnderType
<1>2. CASE place = Mine(a) /\ before # Odd
  <2>1. PICK e \in Ours : after = Append(Others(before), e)
    BY <1>1, <1>2 DEF PutsOurs, EndsWithOurs
  <2>2. before \in Seq(Entries)
    BY <1>1, <1>2, OddIsNoList
  <2> HIDE DEF before, after
  <2>3. after \in Seq(Entries) /\ Others(after) = Others(before)
    <3>1. /\ Append(Others(before), e) \in Seq(Entries)
          /\ Others(Append(Others(before), e)) = Others(before)
      BY <2>2, OthersAppend
    <3> QED
      BY <2>1, <3>1
  <2>4. Rest(after) = Rest(before)
    BY <2>2, <2>3, OddIsNoList DEF Rest
  <2> QED
    BY <2>4 DEF after, before
<1>3. CASE ~(place = Mine(a) /\ before # Odd)
  BY <1>1, <1>3 DEF PutsOurs
<1> QED
  BY <1>2, <1>3

LEMMA InstalledOnce ==
  ASSUME NEW d, IsSettings(d), NEW a, Accepts(a, d), NEW v \in Pins,
         NEW list, list = Under(Installed(a, d, v), Mine(a)), list # Odd
  PROVE  Len(list) = Len(Others(list)) + 1 /\ list[Len(list)] \in Ours
<1> DEFINE before == Under(d, Mine(a))
<1>1. Mine(a) \in Places
  BY EventsAssumption DEF Mine, Places, Keys
<1>2. PutsOurs(Installed(a, d, v), d, a, Mine(a)) /\ before \in Values
  BY <1>1, InstalledUnder, UnderType
<1>3. before # Odd
  BY <1>2 DEF PutsOurs
<1>4. PICK e \in Ours : list = Append(Others(before), e)
  BY <1>2, <1>3 DEF PutsOurs, EndsWithOurs
<1> HIDE DEF before
<1>5. before \in Seq(Entries)
  BY <1>2, <1>3, OddIsNoList
<1>6. Others(Append(Others(before), e)) = Others(before) /\ Others(before) \in Seq(Entries)
  BY <1>5, OthersAppend, OthersType
<1>7. e \in Entries
  BY EntriesAssumption
<1>8. /\ Len(list) = Len(Others(before)) + 1 /\ list[Len(Others(before)) + 1] = e
      /\ Others(list) = Others(before)
  BY <1>4, <1>6, <1>7, AppendProperties
<1> QED
  BY <1>8

-----------------------------------------------------------------------------
\* Type correctness, in four parts.

FilesOK == DOMAIN files = Agents /\ \A a \in Agents : IsFile(files[a])

RestOK ==
  /\ attrs \in Attrs /\ githooks \in [Names -> Hooks]
  /\ driver \in BOOLEAN
  /\ last \in [Agents -> {"none", "installed", "uninstalled"}]

CommandOK(p) ==
  /\ IsSettings(doc[p])
  /\ todo[p] \in Seq(IF at[p] \in {"githooks", "hookwrite"} THEN Names ELSE Agents)
  /\ at[p] \in {"read", "write"} => todo[p] # << >> /\ mode[p] # "none"
  /\ at[p] = "hookwrite" => todo[p] # << >>
  /\ mode[p] = "install" => pin[p] \in Pins
  /\ at[p] = "write" /\ mode[p] = "install" => Accepts(Head(todo[p]), doc[p])

CommandsOK ==
  /\ at \in [Procs -> Labels]
  /\ mode \in [Procs -> {"none", "install", "uninstall"}]
  /\ pin \in [Procs -> Pins \cup {NoPin}]
  /\ DOMAIN doc = Procs /\ todo \in [Procs -> Seq(Agents) \cup Seq(Names)]
  /\ \A p \in Procs : CommandOK(p)

SeenOK ==
  /\ DOMAIN seen = Procs
  /\ \A p \in Procs : /\ at[p] = "hookwrite" => seen[p] \in Hooks
                      /\ at[p] = "attrwrite" => seen[p] \in Attrs

\* What TypeOK says of one command.
PartsOK(p) ==
  /\ IsSettings(doc[p])
  /\ todo[p] \in Seq(IF at[p] \in {"githooks", "hookwrite"} THEN Names ELSE Agents)
  /\ at[p] \in {"read", "write"} => todo[p] # << >> /\ mode[p] # "none"
  /\ at[p] = "hookwrite" => todo[p] # << >> /\ seen[p] \in Hooks
  /\ at[p] = "attrwrite" => seen[p] \in Attrs
  /\ mode[p] = "install" => pin[p] \in Pins
  /\ at[p] = "write" /\ mode[p] = "install" => Accepts(Head(todo[p]), doc[p])

HeldOK(p) ==
  /\ at[p] = "hookwrite" => seen[p] \in Hooks
  /\ at[p] = "attrwrite" => seen[p] \in Attrs

LEMMA TypeParts == TypeOK <=> FilesOK /\ RestOK /\ CommandsOK /\ SeenOK /\ edits \in Nat
<1>1. \A p \in Procs : PartsOK(p) <=> CommandOK(p) /\ HeldOK(p)
  BY Zenon DEF PartsOK, CommandOK, HeldOK
<1>2. ASSUME TypeOK PROVE FilesOK /\ RestOK /\ CommandsOK /\ SeenOK /\ edits \in Nat
  <2>1. FilesOK /\ RestOK /\ edits \in Nat
    BY <1>2 DEF TypeOK, FilesOK, RestOK
  <2>2. \A p \in Procs : PartsOK(p)
    BY <1>2 DEF TypeOK, PartsOK
  <2>3. CommandsOK
    BY <1>1, <1>2, <2>2 DEF TypeOK, CommandsOK
  <2>4. SeenOK
    BY <1>1, <1>2, <2>2 DEF TypeOK, SeenOK, HeldOK
  <2> QED
    BY <2>1, <2>3, <2>4
<1>3. ASSUME FilesOK, RestOK, CommandsOK, SeenOK, edits \in Nat PROVE TypeOK
  <2>1. \A p \in Procs : CommandOK(p) /\ HeldOK(p)
    <3>1. \A p \in Procs : CommandOK(p)
      BY <1>3 DEF CommandsOK
    <3>2. \A p \in Procs : HeldOK(p)
      BY <1>3, Zenon DEF SeenOK, HeldOK
    <3> QED
      BY <3>1, <3>2
  <2>2. \A p \in Procs : PartsOK(p)
    BY <1>1, <2>1
  <2> QED
    BY <1>3, <2>2, Zenon DEF TypeOK, FilesOK, RestOK, CommandsOK, SeenOK, PartsOK
<1> QED
  BY <1>2, <1>3

LEMMA TypePartsNext ==
  ASSUME FilesOK', RestOK', CommandsOK', SeenOK', edits' \in Nat
  PROVE  TypeOK'
<1>1. \A p \in Procs : CommandOK(p)' /\ HeldOK(p)'
  <2>1. \A p \in Procs : CommandOK(p)'
    BY DEF CommandsOK
  <2>2. \A p \in Procs : HeldOK(p)'
    BY Zenon DEF SeenOK, HeldOK
  <2> QED
    BY <2>1, <2>2
<1>2. \A p \in Procs : PartsOK(p)'
  BY <1>1, Zenon DEF PartsOK, CommandOK, HeldOK
<1> QED
  BY <1>2, Zenon DEF TypeOK, FilesOK, RestOK, CommandsOK, SeenOK, PartsOK

LEMMA AtAnAgent ==
  ASSUME CommandsOK, NEW p \in Procs, at[p] \in {"read", "write"}
  PROVE  /\ todo[p] \in Seq(Agents) /\ todo[p] # << >> /\ Head(todo[p]) \in Agents
         /\ Tail(todo[p]) \in Seq(Agents) /\ Len(todo[p]) > 1 => Tail(todo[p]) # << >>
         /\ mode[p] \in {"install", "uninstall"}
<1>1. todo[p] \in Seq(Agents) /\ todo[p] # << >>
  BY DEF CommandsOK, CommandOK
<1>2. Head(todo[p]) \in Agents /\ Tail(todo[p]) \in Seq(Agents) /\ Len(Tail(todo[p])) = Len(todo[p]) - 1
  BY <1>1, HeadTailProperties
<1>3. Len(todo[p]) > 1 => Tail(todo[p]) # << >>
  <2>1. Len(todo[p]) \in Nat /\ Len(<< >>) = 0
    BY <1>1, LenProperties
  <2>2. PICK t : t = Tail(todo[p])
    OBVIOUS
  <2>3. Len(t) = Len(todo[p]) - 1
    BY <1>2, <2>2
  <2>4. Len(todo[p]) > 1 => t # << >>
    BY <2>1, <2>3
  <2> QED
    BY <2>2, <2>4
<1>4. mode[p] \in {"install", "uninstall"}
  BY DEF CommandsOK, CommandOK
<1> QED
  BY <1>1, <1>2, <1>3, <1>4

LEMMA ExitOK ==
  ASSUME CommandsOK, NEW p \in Procs, NEW how \in {"done", "killed"}, Exit(p, how)
  PROVE  CommandsOK'
<1>1. /\ at' \in [Procs -> Labels] /\ mode' \in [Procs -> {"none", "install", "uninstall"}]
      /\ pin' \in [Procs -> Pins \cup {NoPin}] /\ DOMAIN doc' = Procs
      /\ todo' \in [Procs -> Seq(Agents) \cup Seq(Names)]
  BY DEF CommandsOK, Exit, Labels
<1>2. ASSUME NEW q \in Procs PROVE CommandOK(q)'
  <2>1. CASE q = p
    <3>1. at'[p] = how /\ mode'[p] = "none" /\ todo'[p] = << >> /\ doc'[p] = Empty
      BY DEF CommandsOK, Exit
    <3>2. << >> \in Seq(Agents)
      OBVIOUS
    <3> QED
      BY <2>1, <3>1, <3>2, EmptyForms DEF CommandOK
  <2>2. CASE q # p
    <3>1. /\ at'[q] = at[q] /\ mode'[q] = mode[q] /\ todo'[q] = todo[q]
          /\ doc'[q] = doc[q] /\ pin'[q] = pin[q]
      BY <2>2 DEF CommandsOK, Exit
    <3> QED
      BY <3>1 DEF CommandsOK, CommandOK
  <2> QED
    BY <2>1, <2>2
<1> QED
  BY <1>1, <1>2 DEF CommandsOK

LEMMA NextAgentOK ==
  ASSUME CommandsOK, NEW p \in Procs, at[p] \in {"read", "write"}, NextAgent(p)
  PROVE  CommandsOK'
<1>1. CASE Len(todo[p]) = 1 /\ mode[p] = "uninstall"
  BY <1>1, ExitOK DEF NextAgent, Ends
<1>2. CASE ~(Len(todo[p]) = 1 /\ mode[p] = "uninstall")
  <2>1. /\ todo' = [todo EXCEPT ![p] = Tail(@)] /\ doc' = [doc EXCEPT ![p] = Empty]
        /\ at' = [at EXCEPT ![p] = IF Len(todo[p]) > 1 THEN "read" ELSE "driver"]
        /\ UNCHANGED <<mode, pin>>
    BY <1>2 DEF NextAgent
  <2>2. /\ at' \in [Procs -> Labels] /\ DOMAIN doc' = Procs
        /\ todo' \in [Procs -> Seq(Agents) \cup Seq(Names)]
    BY <2>1, AtAnAgent DEF CommandsOK, Labels
  <2>3. ASSUME NEW q \in Procs PROVE CommandOK(q)'
    <3>1. CASE q = p
      <4>1. /\ at'[p] = (IF Len(todo[p]) > 1 THEN "read" ELSE "driver")
            /\ todo'[p] = Tail(todo[p]) /\ doc'[p] = Empty
        BY <2>1 DEF CommandsOK
      <4>2. mode'[p] = mode[p] /\ pin'[p] = pin[p] /\ (mode[p] = "install" => pin[p] \in Pins)
        BY <2>1 DEF CommandsOK, CommandOK
      <4> QED
        BY <3>1, <4>1, <4>2, AtAnAgent, EmptyForms DEF CommandOK
    <3>2. CASE q # p
      <4>1. /\ at'[q] = at[q] /\ mode'[q] = mode[q] /\ todo'[q] = todo[q]
            /\ doc'[q] = doc[q] /\ pin'[q] = pin[q]
        BY <2>1, <3>2 DEF CommandsOK
      <4> QED
        BY <4>1 DEF CommandsOK, CommandOK
    <3> QED
      BY <3>1, <3>2
  <2> QED
    BY <2>1, <2>2, <2>3 DEF CommandsOK
<1> QED
  BY <1>1, <1>2

LEMMA WillWriteOK ==
  ASSUME CommandsOK, NEW p \in Procs, at[p] = "read", NEW d, IsSettings(d), WillWrite(p, d),
         mode[p] = "install" => Accepts(Head(todo[p]), d)
  PROVE  CommandsOK'
<1>1. /\ at' \in [Procs -> Labels] /\ DOMAIN doc' = Procs
      /\ mode' = mode /\ pin' = pin /\ todo' = todo
  BY DEF CommandsOK, Labels, WillWrite
<1>2. ASSUME NEW q \in Procs PROVE CommandOK(q)'
  <2>1. CASE q = p
    <3>1. at'[p] = "write" /\ doc'[p] = d
      BY DEF CommandsOK, WillWrite
    <3>2. CommandOK(p)
      BY DEF CommandsOK
    <3> QED
      BY <1>1, <2>1, <3>1, <3>2 DEF CommandOK
  <2>2. CASE q # p
    <3>1. at'[q] = at[q] /\ doc'[q] = doc[q]
      BY <2>2 DEF CommandsOK, WillWrite
    <3>2. CommandOK(q)
      BY DEF CommandsOK
    <3> QED
      BY <1>1, <3>1, <3>2 DEF CommandOK
  <2> QED
    BY <2>1, <2>2
<1> QED
  BY <1>1, <1>2 DEF CommandsOK

LEMMA StartOK ==
  ASSUME CommandsOK, NEW p \in Procs, NEW how \in {"install", "uninstall"},
         NEW wanted \in SUBSET Agents, NEW version, Start(p, how, wanted, version)
  PROVE  CommandsOK'
<1> DEFINE visits == Without(AllAgents, Agents \ wanted)
<1>1. visits \in Seq(Agents)
  BY AgentsAssumption, WithoutType
<1>2. wanted # {} => visits # << >>
  <2> SUFFICES ASSUME NEW a \in wanted PROVE visits # << >>
    OBVIOUS
  <2>1. PICK i \in DOMAIN AllAgents : a = AllAgents[i]
    BY DEF Agents
  <2>2. i \in 1..Len(AllAgents) /\ AllAgents[i] \notin Agents \ wanted
    BY <2>1, AgentsAssumption, LenProperties
  <2> QED
    BY <2>2, AgentsAssumption, WithoutLeaves
<1> HIDE DEF visits
<1>3. /\ mode' = [mode EXCEPT ![p] = how] /\ pin' = [pin EXCEPT ![p] = version]
      /\ todo' = [todo EXCEPT ![p] = visits] /\ doc' = doc
      /\ at' = [at EXCEPT ![p] = IF wanted = {} THEN "driver" ELSE "read"]
      /\ version \in Pins \cup {NoPin} /\ (how = "install" => version \in Pins)
  BY DEF Start, visits
<1>4. /\ at' \in [Procs -> Labels] /\ mode' \in [Procs -> {"none", "install", "uninstall"}]
      /\ pin' \in [Procs -> Pins \cup {NoPin}] /\ DOMAIN doc' = Procs
      /\ todo' \in [Procs -> Seq(Agents) \cup Seq(Names)]
  BY <1>1, <1>3 DEF CommandsOK, Labels
<1>5. ASSUME NEW q \in Procs PROVE CommandOK(q)'
  <2>1. CommandOK(q)
    BY DEF CommandsOK
  <2>2. CASE q = p
    <3>1. /\ mode'[p] = how /\ pin'[p] = version /\ todo'[p] = visits /\ doc'[p] = doc[p]
          /\ at'[p] = (IF wanted = {} THEN "driver" ELSE "read")
      BY <1>3 DEF CommandsOK
    <3> QED
      BY <1>1, <1>2, <1>3, <2>1, <2>2, <3>1 DEF CommandOK
  <2>3. CASE q # p
    <3>1. /\ at'[q] = at[q] /\ mode'[q] = mode[q] /\ todo'[q] = todo[q]
          /\ doc'[q] = doc[q] /\ pin'[q] = pin[q]
      BY <1>3, <2>3 DEF CommandsOK
    <3> QED
      BY <2>1, <3>1 DEF CommandOK
  <2> QED
    BY <2>2, <2>3
<1> QED
  BY <1>4, <1>5 DEF CommandsOK

\* Later stages: the git hooks are visited, and no settings are to be written.
LEMMA LaterOK ==
  ASSUME CommandsOK, NEW p \in Procs,
         NEW stage \in {"attributes", "attrwrite", "githooks", "hookwrite"},
         NEW visits \in Seq(IF stage \in {"githooks", "hookwrite"} THEN Names ELSE Agents),
         stage = "hookwrite" => visits # << >>,
         at' = [at EXCEPT ![p] = stage], todo' = [todo EXCEPT ![p] = visits],
         UNCHANGED <<mode, pin, doc>>
  PROVE  CommandsOK'
<1>1. at' \in [Procs -> Labels] /\ todo' \in [Procs -> Seq(Agents) \cup Seq(Names)]
  BY DEF CommandsOK, Labels
<1>2. ASSUME NEW q \in Procs PROVE CommandOK(q)'
  <2>1. CommandOK(q)
    BY DEF CommandsOK
  <2>2. CASE q = p
    <3>1. at'[p] = stage /\ todo'[p] = visits
      BY DEF CommandsOK
    <3> QED
      BY <2>1, <2>2, <3>1 DEF CommandOK
  <2>3. CASE q # p
    <3>1. at'[q] = at[q] /\ todo'[q] = todo[q]
      BY <2>3 DEF CommandsOK
    <3> QED
      BY <2>1, <3>1 DEF CommandOK
  <2> QED
    BY <2>2, <2>3
<1> QED
  BY <1>1, <1>2 DEF CommandsOK

LEMMA ToGitHooksOK ==
  ASSUME CommandsOK, NEW p \in Procs, ToGitHooks(p)
  PROVE  CommandsOK'
<1>1. HookNames \in Seq(Names)
  BY AgentsAssumption
<1> QED
  BY <1>1, LaterOK DEF ToGitHooks

\* A stage that leaves what is to be visited as it is.
LEMMA StageOK ==
  ASSUME CommandsOK, NEW p \in Procs, at[p] \in {"driver", "attributes"},
         NEW stage \in {"attributes", "attrwrite"},
         at' = [at EXCEPT ![p] = stage], UNCHANGED <<mode, pin, todo, doc>>
  PROVE  CommandsOK'
<1>1. todo[p] \in Seq(Agents) /\ todo' = [todo EXCEPT ![p] = todo[p]]
  BY DEF CommandsOK, CommandOK
<1> QED
  BY <1>1, LaterOK

LEMMA SetDriverOK ==
  ASSUME CommandsOK, NEW p \in Procs, SetDriver(p)
  PROVE  CommandsOK'
BY ToGitHooksOK, StageOK DEF SetDriver

LEMMA ReadAttributesOK ==
  ASSUME CommandsOK, NEW p \in Procs, ReadAttributes(p)
  PROVE  CommandsOK'
BY ToGitHooksOK, StageOK DEF ReadAttributes

LEMMA WriteAttributesOK ==
  ASSUME CommandsOK, NEW p \in Procs, WriteAttributes(p)
  PROVE  CommandsOK'
BY ToGitHooksOK DEF WriteAttributes

LEMMA EndsOK ==
  ASSUME CommandsOK, NEW p \in Procs, Ends(p)
  PROVE  CommandsOK'
BY ExitOK DEF Ends

\* The next hook is looked at, or the one that is looked at is to be written.
LEMMA HookStepOK ==
  ASSUME CommandsOK, NEW p \in Procs, at[p] \in {"githooks", "hookwrite"}, todo[p] # << >>,
         UNCHANGED <<mode, pin, doc>>,
         \/ at' = [at EXCEPT ![p] = "hookwrite"] /\ todo' = todo
         \/ at' = [at EXCEPT ![p] = "githooks"] /\ todo' = [todo EXCEPT ![p] = Tail(@)]
  PROVE  CommandsOK'
<1>1. todo[p] \in Seq(Names)
  BY DEF CommandsOK, CommandOK
<1>2. Tail(todo[p]) \in Seq(Names)
  BY <1>1, HeadTailProperties
<1>3. CASE at' = [at EXCEPT ![p] = "hookwrite"] /\ todo' = todo
  <2>1. todo' = [todo EXCEPT ![p] = todo[p]]
    BY <1>3 DEF CommandsOK
  <2> QED
    BY <1>1, <1>3, <2>1, LaterOK
<1>4. CASE at' = [at EXCEPT ![p] = "githooks"] /\ todo' = [todo EXCEPT ![p] = Tail(@)]
  BY <1>2, <1>4, LaterOK
<1> QED
  BY <1>3, <1>4

LEMMA ReadHookOK ==
  ASSUME CommandsOK, NEW p \in Procs, ReadHook(p)
  PROVE  CommandsOK'
<1>1. CASE Ends(p)
  BY <1>1, EndsOK
<1>2. CASE ~Ends(p)
  <2>1. /\ at[p] = "githooks" /\ todo[p] # << >> /\ UNCHANGED <<mode, pin, doc>>
        /\ \/ at' = [at EXCEPT ![p] = "hookwrite"] /\ todo' = todo
           \/ todo' = [todo EXCEPT ![p] = Tail(@)] /\ at' = at
    BY <1>2 DEF ReadHook
  <2>2. at' = at => at' = [at EXCEPT ![p] = "githooks"]
    BY <2>1 DEF CommandsOK
  <2> QED
    BY <2>1, <2>2, HookStepOK
<1> QED
  BY <1>1, <1>2

LEMMA WriteHookOK ==
  ASSUME CommandsOK, NEW p \in Procs, WriteHook(p)
  PROVE  CommandsOK'
<1>1. CASE Ends(p)
  BY <1>1, EndsOK
<1>2. CASE ~Ends(p)
  <2>1. /\ at[p] = "hookwrite" /\ todo[p] # << >> /\ UNCHANGED <<mode, pin, doc>>
        /\ at' = [at EXCEPT ![p] = "githooks"] /\ todo' = [todo EXCEPT ![p] = Tail(@)]
    BY <1>2 DEF WriteHook, CommandsOK, CommandOK
  <2> QED
    BY <2>1, HookStepOK
<1> QED
  BY <1>1, <1>2

LEMMA ReadOK ==
  ASSUME FilesOK, CommandsOK, NEW p \in Procs, Read(p)
  PROVE  CommandsOK'
<1> DEFINE a == Head(todo[p])
           file == files[a]
           d == IF file = Absent THEN Empty ELSE file
<1>1. at[p] = "read" /\ a \in Agents /\ IsFile(file)
  BY AtAnAgent DEF Read, FilesOK
<1>2. CASE mode[p] = "install"
  <2>1. ReadInstall(p, file)
    BY <1>2 DEF Read
  <2>2. CASE file \in {Bad, Odd} \/ ~Accepts(a, d)
    BY <2>1, <2>2, EndsOK DEF ReadInstall
  <2>3. CASE ~(file \in {Bad, Odd} \/ ~Accepts(a, d))
    <3>1. IsSettings(d) /\ Accepts(a, d)
      BY <1>1, <2>3, EmptyForms DEF IsFile
    <3>2. WillWrite(p, d)
      BY <2>1, <2>3 DEF ReadInstall
    <3> HIDE DEF d
    <3> QED
      BY <1>1, <3>1, <3>2, WillWriteOK
  <2> QED
    BY <2>2, <2>3
<1>3. CASE mode[p] # "install"
  <2>1. ReadUninstall(p, file)
    BY <1>3 DEF Read
  <2>2. CASE Ends(p)
    BY <2>2, EndsOK
  <2>3. CASE NextAgent(p)
    BY <1>1, <2>3, NextAgentOK
  <2>4. CASE ~Ends(p) /\ ~NextAgent(p)
    <3>1. WillWrite(p, file) /\ IsDoc(file)
      BY <2>1, <2>4 DEF ReadUninstall
    <3>2. IsSettings(file)
      BY <1>1, <3>1 DEF IsFile, IsDoc
    <3> QED
      BY <1>1, <1>3, <3>1, <3>2, WillWriteOK
  <2> QED
    BY <2>2, <2>3, <2>4
<1> QED
  BY <1>2, <1>3

LEMMA ReadRestOK ==
  ASSUME RestOK, CommandsOK, NEW p \in Procs, Read(p)
  PROVE  RestOK'
<1>1. Head(todo[p]) \in Agents
  BY AtAnAgent DEF Read
<1>2. last' = last \/ last' = [last EXCEPT ![Head(todo[p])] = "uninstalled"]
  BY DEF Read, ReadInstall, ReadUninstall, WillWrite
<1>3. last' \in [Agents -> {"none", "installed", "uninstalled"}]
  BY <1>1, <1>2 DEF RestOK
<1> QED
  BY <1>3 DEF RestOK, Read

\* What Write leaves in the file of its agent.
Written(p, file) ==
  \/ mode[p] = "install" /\ file = Installed(Head(todo[p]), doc[p], pin[p])
  \/ /\ mode[p] # "install"
     /\ file = IF Stripped(doc[p]) = Empty THEN Absent ELSE Stripped(doc[p])

LEMMA WriteFiles ==
  ASSUME CommandsOK, NEW p \in Procs, Write(p)
  PROVE  \/ UNCHANGED <<files, last>> /\ Ends(p)
         \/ /\ NextAgent(p)
            /\ \E file : Written(p, file) /\ files' = [files EXCEPT ![Head(todo[p])] = file]
            /\ last' = [last EXCEPT ![Head(todo[p])] =
                          IF mode[p] = "install" THEN "installed" ELSE "uninstalled"]
<1>1. CASE mode[p] = "install"
  BY <1>1 DEF Write, WriteInstalled, Written
<1>2. CASE mode[p] # "install"
  BY <1>2 DEF Write, WriteStripped, Written
<1> QED
  BY <1>1, <1>2

LEMMA WrittenOK ==
  ASSUME CommandsOK, NEW p \in Procs, at[p] = "write", NEW file, Written(p, file)
  PROVE  IsFile(file)
<1>1. IsSettings(doc[p]) /\ (mode[p] = "install" => pin[p] \in Pins /\ Accepts(Head(todo[p]), doc[p]))
  BY DEF CommandsOK, CommandOK
<1>2. CASE mode[p] = "install"
  BY <1>1, <1>2, InstalledType DEF Written, IsFile
<1>3. CASE mode[p] # "install"
  BY <1>1, <1>3, StrippedHolds DEF Written, IsFile, KeptOf
<1> QED
  BY <1>2, <1>3

LEMMA WriteOK ==
  ASSUME FilesOK, RestOK, CommandsOK, NEW p \in Procs, Write(p)
  PROVE  FilesOK' /\ RestOK' /\ CommandsOK'
<1>1. at[p] = "write" /\ Head(todo[p]) \in Agents /\ UNCHANGED <<attrs, githooks, driver>>
  BY AtAnAgent DEF Write
<1>2. CASE UNCHANGED <<files, last>> /\ Ends(p)
  BY <1>1, <1>2, EndsOK DEF FilesOK, RestOK
<1>3. CASE ~(UNCHANGED <<files, last>> /\ Ends(p))
  <2>1. PICK file : Written(p, file) /\ files' = [files EXCEPT ![Head(todo[p])] = file]
    BY <1>3, WriteFiles
  <2>2. IsFile(file)
    BY <1>1, <2>1, WrittenOK
  <2>3. FilesOK'
    BY <1>1, <2>1, <2>2 DEF FilesOK
  <2>4. RestOK'
    BY <1>1, <1>3, WriteFiles DEF RestOK
  <2>5. CommandsOK'
    BY <1>1, <1>3, WriteFiles, NextAgentOK
  <2> QED
    BY <2>3, <2>4, <2>5
<1> QED
  BY <1>2, <1>3

\* The beginnings of a text, and what a hook may hold after a write.
LEMMA TextsOK ==
  /\ \A a \in Attrs : WithLines(a) \in Attrs
  /\ \A a \in Attrs : Beginnings(a) \subseteq Attrs
  /\ HookBeginnings \cup {"mentions", "absent", "theirs"} \subseteq Hooks
<1>1. ASSUME NEW a \in Attrs PROVE WithLines(a) \in Attrs
  BY DEF Attrs, Unread, WithLines, Readable
<1>2. ASSUME NEW a \in Attrs PROVE Beginnings(a) \subseteq Attrs
  BY DEF Attrs, Unread, Beginnings
<1> QED
  BY <1>1, <1>2 DEF HookBeginnings, Hooks

\* What a command does to attributes and hooks.
LEMMA ClonesOK ==
  ASSUME RestOK, SeenOK, NEW p \in Procs, UNCHANGED last, driver' \in BOOLEAN,
         \/ attrs' = attrs
         \/ /\ at[p] = "attrwrite"
            /\ \/ attrs' = WithLines(seen[p])
               \/ attrs' \in Beginnings(WithLines(seen[p])),
         \/ githooks' = githooks
         \/ \E h : \E content \in Hooks : githooks' = [githooks EXCEPT ![h] = content]
  PROVE  RestOK'
<1>1. attrs' \in Attrs
  BY TextsOK DEF RestOK, SeenOK
<1>2. githooks' \in [Names -> Hooks]
  BY DEF RestOK
<1> QED
  BY <1>1, <1>2 DEF RestOK

LEMMA KilledOK ==
  ASSUME FilesOK, RestOK, CommandsOK, SeenOK, NEW p \in Procs, Killed(p)
  PROVE  FilesOK' /\ RestOK' /\ CommandsOK'
<1>1. CommandsOK'
  BY ExitOK DEF Killed
<1>2. CASE UNCHANGED <<files, last>>
  <2>1. FilesOK'
    BY <1>2 DEF FilesOK
  <2>2. driver' \in BOOLEAN
    BY DEF Killed, RestOK
  <2>3. \/ attrs' = attrs
        \/ at[p] = "attrwrite" /\ attrs' \in Beginnings(WithLines(seen[p]))
    BY DEF Killed
  <2>4. \/ githooks' = githooks
        \/ \E h : \E content \in Hooks : githooks' = [githooks EXCEPT ![h] = content]
    BY TextsOK DEF Killed
  <2> QED
    BY <1>1, <1>2, <2>1, <2>2, <2>3, <2>4, ClonesOK
<1>3. CASE ~UNCHANGED <<files, last>>
  <2>1. /\ at[p] = "write" /\ UNCHANGED <<attrs, githooks, driver>>
        /\ last' = [last EXCEPT ![Head(todo[p])] = "none"]
    BY <1>3 DEF Killed
  <2>2. PICK file \in {Empty, Bad} : files' = [files EXCEPT ![Head(todo[p])] = file]
    BY <1>3 DEF Killed
  <2>3. Head(todo[p]) \in Agents /\ IsFile(file)
    BY <2>1, AtAnAgent, EmptyForms DEF IsFile
  <2>4. FilesOK'
    BY <2>2, <2>3 DEF FilesOK
  <2>5. RestOK'
    BY <2>1, <2>3 DEF RestOK
  <2> QED
    BY <1>1, <2>4, <2>5
<1> QED
  BY <1>2, <1>3

\* Someone else saves a settings file, the attributes or a git hook.
Saves ==
  \/ \E a \in Agents, file \in Drafts : Edit(a, file)
  \/ \E text \in Texts, lines \in SUBSET Targets : EditAttributes(text, lines)
  \/ \E h \in Names, content \in {"absent", "theirs"} : EditHook(h, content)

LEMMA SavesOK ==
  ASSUME FilesOK, RestOK, CommandsOK, SeenOK, Saves
  PROVE  FilesOK' /\ RestOK' /\ CommandsOK' /\ SeenOK'
<1>1. UNCHANGED command
  BY DEF Saves, Edit, EditAttributes, EditHook
<1>2. CommandsOK' /\ SeenOK'
  BY <1>1 DEF command, CommandsOK, CommandOK, SeenOK
<1>3. ASSUME NEW a \in Agents, NEW file \in Drafts, Edit(a, file) PROVE FilesOK' /\ RestOK'
  <2>1. IsFile(file)
    BY DraftsAssumption
  <2> QED
    BY <1>3, <2>1 DEF Edit, FilesOK, RestOK
<1>4. ASSUME NEW text \in Texts, NEW lines \in SUBSET Targets, EditAttributes(text, lines)
      PROVE  FilesOK' /\ RestOK'
  BY <1>4 DEF EditAttributes, FilesOK, RestOK, Attrs
<1>5. ASSUME NEW h \in Names, NEW content \in {"absent", "theirs"}, EditHook(h, content)
      PROVE  FilesOK' /\ RestOK'
  BY <1>5 DEF EditHook, FilesOK, RestOK, Hooks
<1> QED
  BY <1>2, <1>3, <1>4, <1>5 DEF Saves

\* The steps of an install that follow the agents.
GitStep(p) ==
  SetDriver(p) \/ ReadAttributes(p) \/ WriteAttributes(p) \/ ReadHook(p) \/ WriteHook(p)

LEMMA GitStepsOK ==
  ASSUME FilesOK, RestOK, SeenOK, NEW p \in Procs, GitStep(p)
  PROVE  FilesOK' /\ RestOK'
<1>1. UNCHANGED <<files, last>>
  BY DEF GitStep, SetDriver, ReadAttributes, WriteAttributes, ReadHook, WriteHook
<1>2. driver' \in BOOLEAN
  <2>1. driver' = driver \/ driver' = TRUE
    BY DEF GitStep, SetDriver, ReadAttributes, WriteAttributes, ReadHook, WriteHook
  <2> QED
    BY <2>1, Zenon DEF RestOK
<1>3. \/ attrs' = attrs
      \/ /\ at[p] = "attrwrite"
         /\ attrs' = WithLines(seen[p]) \/ attrs' \in Beginnings(WithLines(seen[p]))
  BY DEF GitStep, SetDriver, ReadAttributes, WriteAttributes, ReadHook, WriteHook
<1>4. \/ githooks' = githooks
      \/ \E h : \E content \in Hooks : githooks' = [githooks EXCEPT ![h] = content]
  BY TextsOK DEF GitStep, SetDriver, ReadAttributes, WriteAttributes, ReadHook, WriteHook
<1> QED
  BY <1>1, <1>2, <1>3, <1>4, ClonesOK DEF FilesOK

LEMMA GitStepCommandsOK ==
  ASSUME CommandsOK, NEW p \in Procs, GitStep(p)
  PROVE  CommandsOK'
BY SetDriverOK, ReadAttributesOK, WriteAttributesOK, ReadHookOK, WriteHookOK DEF GitStep

\* What was read stays what it is until the command goes on.
LEMMA SeenStays ==
  ASSUME CommandsOK, SeenOK, NEW p \in Procs,
         NEW stage, stage \notin {"attrwrite", "hookwrite"}, at' = [at EXCEPT ![p] = stage],
         seen' = seen \/ \E v : seen' = [seen EXCEPT ![p] = v]
  PROVE  SeenOK'
<1>1. at \in [Procs -> Labels] /\ DOMAIN seen' = Procs
  BY DEF CommandsOK, SeenOK
<1>2. \A q \in Procs \ {p} : at'[q] = at[q] /\ seen'[q] = seen[q]
  BY <1>1 DEF SeenOK
<1>3. at'[p] \notin {"attrwrite", "hookwrite"}
  BY <1>1
<1> QED
  BY <1>1, <1>2, <1>3 DEF SeenOK

LEMMA SeenHeld ==
  ASSUME CommandsOK, SeenOK, NEW p \in Procs, NEW v,
         \/ at' = [at EXCEPT ![p] = "attrwrite"] /\ v \in Attrs
         \/ at' = [at EXCEPT ![p] = "hookwrite"] /\ v \in Hooks,
         seen' = [seen EXCEPT ![p] = v]
  PROVE  SeenOK'
<1>1. at \in [Procs -> Labels] /\ DOMAIN seen' = Procs
  BY DEF CommandsOK, SeenOK
<1>2. \A q \in Procs \ {p} : at'[q] = at[q] /\ seen'[q] = seen[q]
  BY <1>1 DEF SeenOK
<1>3. /\ seen'[p] = v
      /\ \/ at'[p] = "attrwrite" /\ v \in Attrs
         \/ at'[p] = "hookwrite" /\ v \in Hooks
  BY <1>1 DEF SeenOK
<1> QED
  BY <1>1, <1>2, <1>3 DEF SeenOK

LEMMA ExitSeen ==
  ASSUME CommandsOK, SeenOK, NEW p \in Procs, NEW how \in {"done", "killed"}, Exit(p, how)
  PROVE  SeenOK'
BY SeenStays DEF Exit

LEMMA NextAgentSeen ==
  ASSUME CommandsOK, SeenOK, NEW p \in Procs, NextAgent(p)
  PROVE  SeenOK'
BY SeenStays, ExitSeen DEF NextAgent, Ends

LEMMA ToGitHooksSeen ==
  ASSUME CommandsOK, SeenOK, NEW p \in Procs, ToGitHooks(p)
  PROVE  SeenOK'
BY SeenStays DEF ToGitHooks

LEMMA GitStepSeen ==
  ASSUME CommandsOK, RestOK, SeenOK, NEW p \in Procs, GitStep(p)
  PROVE  SeenOK'
<1>1. CASE SetDriver(p)
  BY <1>1, SeenStays, ToGitHooksSeen DEF SetDriver
<1>2. CASE ReadAttributes(p)
  BY <1>2, SeenHeld, ToGitHooksSeen DEF ReadAttributes, RestOK
<1>3. CASE WriteAttributes(p)
  BY <1>3, ToGitHooksSeen DEF WriteAttributes
<1>4. CASE ReadHook(p)
  <2>1. CASE Ends(p)
    BY <2>1, ExitSeen DEF Ends
  <2>2. CASE UNCHANGED <<at, seen>>
    BY <2>2 DEF SeenOK
  <2>3. CASE /\ at' = [at EXCEPT ![p] = "hookwrite"]
             /\ seen' = [seen EXCEPT ![p] = githooks[Head(todo[p])]]
    <3>1. todo[p] \in Seq(Names) /\ todo[p] # << >>
      BY <1>4, <2>3 DEF ReadHook, CommandsOK, CommandOK, Ends, Exit, Labels
    <3>2. githooks[Head(todo[p])] \in Hooks
      BY <3>1, HeadTailProperties DEF RestOK
    <3> QED
      BY <2>3, <3>2, SeenHeld
  <2> QED
    BY <1>4, <2>1, <2>2, <2>3 DEF ReadHook
<1>5. CASE WriteHook(p)
  BY <1>5, SeenStays, ExitSeen DEF WriteHook, Ends
<1> QED
  BY <1>1, <1>2, <1>3, <1>4, <1>5 DEF GitStep

LEMMA OtherStepsSeen ==
  ASSUME CommandsOK, SeenOK, NEW p \in Procs,
         \/ Read(p) \/ Write(p) \/ Killed(p)
         \/ \E how, wanted, version : Start(p, how, wanted, version)
  PROVE  SeenOK'
<1>1. CASE Read(p)
  <2>1. Ends(p) \/ NextAgent(p) \/ (at' = [at EXCEPT ![p] = "write"] /\ seen' = seen)
    BY <1>1 DEF Read, ReadInstall, ReadUninstall, WillWrite
  <2> QED
    BY <2>1, ExitSeen, NextAgentSeen, SeenStays DEF Ends
<1>2. CASE Write(p)
  <2>1. Ends(p) \/ NextAgent(p)
    BY <1>2 DEF Write, WriteInstalled, WriteStripped
  <2> QED
    BY <2>1, ExitSeen, NextAgentSeen DEF Ends
<1>3. CASE Killed(p)
  BY <1>3, ExitSeen DEF Killed
<1>4. ASSUME NEW how, NEW wanted, NEW version, Start(p, how, wanted, version) PROVE SeenOK'
  <2>1. at' = [at EXCEPT ![p] = IF wanted = {} THEN "driver" ELSE "read"] /\ seen' = seen
    BY <1>4 DEF Start
  <2> QED
    BY <2>1, SeenStays
<1> QED
  BY <1>1, <1>2, <1>3, <1>4

LEMMA InitOK ==
  ASSUME Init
  PROVE  FilesOK /\ RestOK /\ CommandsOK /\ SeenOK
<1>1. FilesOK
  BY DraftsAssumption DEF Init, FilesOK
<1>2. RestOK
  BY ClonesAssumption DEF Init, RestOK
<1>3. ASSUME NEW p \in Procs PROVE CommandOK(p)
  <2>1. << >> \in Seq(Agents)
    OBVIOUS
  <2> QED
    BY <2>1, EmptyForms DEF Init, CommandOK
<1>4. CommandsOK
  <2>1. << >> \in Seq(Agents)
    OBVIOUS
  <2> QED
    BY <1>3, <2>1 DEF Init, CommandsOK, Labels
<1>5. SeenOK
  BY DEF Init, SeenOK
<1> QED
  BY <1>1, <1>2, <1>4, <1>5

LEMMA EditsCount == [Next]_vars => edits' = edits \/ edits' = edits + 1
<1> SUFFICES ASSUME [Next]_vars PROVE edits' = edits \/ edits' = edits + 1
  OBVIOUS
<1>1. ASSUME NEW p \in Procs, Step(p) \/ Killed(p) PROVE edits' = edits \/ edits' = edits + 1
  BY <1>1 DEF Step, Read, Write, SetDriver, ReadAttributes, WriteAttributes, ReadHook, WriteHook,
              Killed, Mishap
<1>2. Saves => edits' = edits \/ edits' = edits + 1
  BY DEF Saves, Edit, EditAttributes, EditHook, Mishap
<1>3. ASSUME NEW p, NEW how, NEW wanted, NEW version, Start(p, how, wanted, version)
      PROVE  edits' = edits
  BY <1>3 DEF Start
<1>4. CASE UNCHANGED vars
  BY <1>4 DEF vars
<1>5. CASE Next
  <2>1. \/ \E p \in Procs : Step(p) \/ Killed(p)
        \/ \E p, how, wanted, version : Start(p, how, wanted, version)
        \/ Saves
    BY <1>5 DEF Next, Saves
  <2> QED
    BY <1>1, <1>2, <1>3, <2>1
<1> QED
  BY <1>4, <1>5

\* Settings stay of a form that the commands can take apart, and a command writes only
\* what it has read and can change, however commands, edits and kills overlap.
THEOREM Typing == Spec => []TypeOK
<1>1. Init => TypeOK
  <2>1. Init => edits \in Nat
    BY DEF Init
  <2> QED
    BY <2>1, InitOK, TypeParts
<1>2. ASSUME TypeOK, [Next]_vars PROVE TypeOK'
  <2>1. FilesOK /\ RestOK /\ CommandsOK /\ SeenOK /\ edits \in Nat
    BY <1>2, TypeParts
  <2>2. edits' \in Nat
    BY <1>2, <2>1, EditsCount
  <2>0. SUFFICES FilesOK' /\ RestOK' /\ CommandsOK' /\ SeenOK'
    BY <2>2, TypePartsNext
  <2>3. CASE UNCHANGED vars
    BY <2>1, <2>3 DEF vars, command, FilesOK, RestOK, CommandsOK, CommandOK, SeenOK
  <2>4. ASSUME NEW p \in Procs, Read(p) PROVE FilesOK' /\ RestOK' /\ CommandsOK' /\ SeenOK'
    BY <2>1, <2>4, ReadOK, ReadRestOK, OtherStepsSeen DEF Read, FilesOK
  <2>5. ASSUME NEW p \in Procs, GitStep(p)
        PROVE  FilesOK' /\ RestOK' /\ CommandsOK' /\ SeenOK'
    BY <2>1, <2>5, GitStepsOK, GitStepCommandsOK, GitStepSeen
  <2>6. ASSUME NEW p \in Procs, NEW how \in {"install", "uninstall"},
               NEW wanted \in SUBSET Agents, NEW version \in Pins \cup {NoPin},
               Start(p, how, wanted, version)
        PROVE  FilesOK' /\ RestOK' /\ CommandsOK' /\ SeenOK'
    <3>1. SeenOK'
      BY <2>1, <2>6, OtherStepsSeen
    <3> QED
      BY <2>1, <2>6, <3>1, StartOK DEF Start, FilesOK, RestOK
  <2>7. ASSUME NEW p \in Procs, Write(p) \/ Killed(p)
        PROVE  FilesOK' /\ RestOK' /\ CommandsOK' /\ SeenOK'
    BY <2>1, <2>7, WriteOK, KilledOK, OtherStepsSeen
  <2> QED
    BY <1>2, <2>1, <2>3, <2>4, <2>5, <2>6, <2>7, SavesOK DEF Next, Step, GitStep, Saves
<1> QED
  BY <1>1, <1>2, PTL DEF Spec

-----------------------------------------------------------------------------
\* The settings files.

\* "Running install twice equals running it once."
THEOREM InstallIsIdempotent == Spec => []Idempotent
<1>1. TypeOK => Idempotent
  <2> SUFFICES ASSUME TypeOK, NEW a \in Agents, IsDoc(files[a]), Accepts(a, files[a]),
                      NEW v1 \in Pins, NEW v2 \in Pins
               PROVE  Installed(a, Installed(a, files[a], v1), v2) = Installed(a, files[a], v2)
    BY DEF Idempotent
  <2>1. IsSettings(files[a])
    BY DEF TypeOK, IsFile, IsDoc
  <2> QED
    BY <2>1, InstalledTwice
<1> QED
  BY <1>1, Typing, PTL

\* uninstall takes back what install added, and all of it.
THEOREM InstallIsReversible == Spec => []Reversible
<1>1. TypeOK => Reversible
  <2> SUFFICES ASSUME TypeOK, NEW a \in Agents, IsDoc(files[a]), Accepts(a, files[a])
               PROVE  /\ \A v \in Pins : Stripped(Installed(a, files[a], v)) = Stripped(files[a])
                      /\ ~Shrinks(Stripped(files[a]))
    BY DEF Reversible
  <2>1. IsSettings(files[a])
    BY DEF TypeOK, IsFile, IsDoc
  <2> QED
    BY <2>1, StrippedInstalled, StrippedIsClean
<1> QED
  BY <1>1, Typing, PTL

Told(a) ==
  IsDoc(files[a]) =>
    /\ last[a] = "installed" =>
         LET list == Under(files[a], Mine(a))
         IN  list # Odd => Len(list) = Len(Others(list)) + 1 /\ list[Len(list)] \in Ours
    /\ last[a] = "uninstalled" => ~Shrinks(files[a])

LEMMA AllTold == AsLastTold <=> \A a \in Agents : Told(a)
BY DEF AsLastTold, Told, Mine

LEMMA ToldStays ==
  ASSUME NEW a \in Agents, Told(a), files'[a] = files[a], last'[a] \in {last[a], "none"}
  PROVE  Told(a)'
<1>1. CASE last'[a] = last[a]
  BY <1>1 DEF Told, Mine
<1>2. CASE last'[a] = "none"
  BY <1>2 DEF Told
<1> QED
  BY <1>1, <1>2

LEMMA ReadTells ==
  ASSUME TypeOK, NEW p \in Procs, Read(p), NEW a \in Agents, Told(a)
  PROVE  Told(a)'
<1> DEFINE b == Head(todo[p])
<1>1. files' = files /\ b \in Agents /\ DOMAIN last = Agents
  BY TypeParts, AtAnAgent DEF Read, RestOK
<1>2. CASE last' = last
  BY <1>1, <1>2, ToldStays
<1>3. CASE last' # last
  <2>1. last' = [last EXCEPT ![b] = "uninstalled"]
    BY <1>3 DEF Read, ReadInstall, ReadUninstall, WillWrite
  <2>2. IsDoc(files[b]) => ~Shrinks(files[b])
    BY <1>3 DEF Read, ReadInstall, ReadUninstall, WillWrite
  <2>3. CASE a = b
    <3>1. last'[a] = "uninstalled" /\ files'[a] = files[b]
      BY <1>1, <2>1, <2>3
    <3> QED
      BY <2>2, <3>1 DEF Told
  <2>4. CASE a # b
    <3>1. last'[a] = last[a]
      BY <1>1, <2>1, <2>4
    <3> QED
      BY <1>1, <3>1, ToldStays
  <2> QED
    BY <2>3, <2>4
<1> QED
  BY <1>2, <1>3

LEMMA WriteTells ==
  ASSUME TypeOK, NEW p \in Procs, Write(p), NEW a \in Agents, Told(a)
  PROVE  Told(a)'
<1> DEFINE b == Head(todo[p])
<1>1. /\ FilesOK /\ RestOK /\ CommandsOK /\ at[p] = "write" /\ b \in Agents
      /\ DOMAIN last = Agents /\ DOMAIN files = Agents
  BY TypeParts, AtAnAgent DEF Write, RestOK, FilesOK
<1>2. CASE UNCHANGED <<files, last>>
  BY <1>2, ToldStays
<1>3. CASE ~UNCHANGED <<files, last>>
  <2>1. PICK file : Written(p, file) /\ files' = [files EXCEPT ![b] = file]
    BY <1>1, <1>3, WriteFiles
  <2>2. last' = [last EXCEPT ![b] = IF mode[p] = "install" THEN "installed" ELSE "uninstalled"]
    BY <1>1, <1>3, WriteFiles
  <2>3. CASE a = b
    <3>1. files'[a] = file /\ last'[a] = IF mode[p] = "install" THEN "installed" ELSE "uninstalled"
      BY <1>1, <2>1, <2>2, <2>3
    <3>2. /\ IsSettings(doc[p])
          /\ mode[p] = "install" => pin[p] \in Pins /\ Accepts(a, doc[p])
      BY <1>1, <2>3 DEF CommandsOK, CommandOK
    <3>3. CASE mode[p] = "install"
      <4>1. file = Installed(a, doc[p], pin[p])
        BY <2>1, <2>3, <3>3 DEF Written
      <4>2. LET list == Under(file, Mine(a))
            IN  list # Odd => Len(list) = Len(Others(list)) + 1 /\ list[Len(list)] \in Ours
        BY <3>2, <3>3, <4>1, InstalledOnce
      <4> QED
        BY <3>1, <3>3, <4>2 DEF Told, Mine
    <3>4. CASE mode[p] # "install"
      <4>1. file = Absent \/ file = Stripped(doc[p])
        BY <2>1, <3>4 DEF Written
      <4>2. IsDoc(file) => ~Shrinks(file)
        BY <3>2, <4>1, StrippedIsClean DEF IsDoc
      <4> QED
        BY <3>1, <3>4, <4>2 DEF Told
    <3> QED
      BY <3>3, <3>4
  <2>4. CASE a # b
    <3>1. files'[a] = files[a] /\ last'[a] = last[a]
      BY <1>1, <2>1, <2>2, <2>4
    <3> QED
      BY <3>1, ToldStays
  <2> QED
    BY <2>3, <2>4
<1> QED
  BY <1>2, <1>3

LEMMA OthersTell ==
  ASSUME TypeOK, NEW b \in Agents, NEW a \in Agents, Told(a),
         NEW file, files' = [files EXCEPT ![b] = file], last' = [last EXCEPT ![b] = "none"]
  PROVE  Told(a)'
<1>1. DOMAIN last = Agents /\ DOMAIN files = Agents
  BY DEF TypeOK
<1>2. CASE a = b
  BY <1>1, <1>2 DEF Told
<1>3. CASE a # b
  BY <1>1, <1>3, ToldStays
<1> QED
  BY <1>2, <1>3

\* What a command tells of an agent stays so until its file is edited, however commands
\* overlap, and whatever kills or edits come between.
THEOREM ToldIsSo == Spec => []AsLastTold
<1>1. Init => AsLastTold
  BY DEF Init, AsLastTold
<1>2. ASSUME TypeOK, AsLastTold, [Next]_vars PROVE AsLastTold'
  <2> SUFFICES ASSUME NEW a \in Agents PROVE Told(a)'
    BY DEF AsLastTold, Told, Mine
  <2>1. Told(a)
    BY <1>2, AllTold
  <2>2. CASE UNCHANGED vars
    BY <2>1, <2>2, ToldStays DEF vars
  <2>3. ASSUME NEW p \in Procs, Killed(p) PROVE Told(a)'
    <3>1. CASE UNCHANGED <<files, last>>
      BY <2>1, <3>1, ToldStays
    <3>2. CASE ~UNCHANGED <<files, last>>
      <4>1. at[p] = "write" /\ last' = [last EXCEPT ![Head(todo[p])] = "none"]
        BY <2>3, <3>2 DEF Killed
      <4>2. PICK file : files' = [files EXCEPT ![Head(todo[p])] = file]
        BY <2>3, <3>2 DEF Killed
      <4>3. Head(todo[p]) \in Agents
        BY <1>2, <4>1, TypeParts, AtAnAgent
      <4> QED
        BY <1>2, <2>1, <4>1, <4>2, <4>3, OthersTell
    <3> QED
      BY <3>1, <3>2
  <2>4. ASSUME NEW p \in Procs, GitStep(p) PROVE Told(a)'
    <3>1. UNCHANGED <<files, last>>
      BY <2>4 DEF GitStep, SetDriver, ReadAttributes, WriteAttributes, ReadHook, WriteHook
    <3> QED
      BY <2>1, <3>1, ToldStays
  <2>5. ASSUME NEW p \in Procs, NEW how, NEW wanted, NEW version, Start(p, how, wanted, version)
        PROVE  Told(a)'
    BY <2>1, <2>5, ToldStays DEF Start
  <2>6. ASSUME NEW b \in Agents, NEW file \in Drafts, Edit(b, file) PROVE Told(a)'
    BY <1>2, <2>1, <2>6, OthersTell DEF Edit
  <2>7. ASSUME NEW x, NEW y, EditAttributes(x, y) \/ EditHook(x, y) PROVE Told(a)'
    BY <2>1, <2>7, ToldStays DEF EditAttributes, EditHook
  <2> QED
    BY <1>2, <2>1, <2>2, <2>3, <2>4, <2>5, <2>6, <2>7, ReadTells, WriteTells
       DEF Next, Step, GitStep
<1> QED
  BY <1>1, <1>2, Typing, PTL DEF Spec

\* A hook that is to be written was free when the command looked at it.
SeenFree == \A p \in Procs : at[p] = "hookwrite" => Free(seen[p])

LEMMA SeenFreeStays == TypeOK /\ SeenFree /\ [Next]_vars => SeenFree'
<1> SUFFICES ASSUME TypeOK, SeenFree, [Next]_vars, NEW q \in Procs, at'[q] = "hookwrite"
             PROVE  Free(seen'[q])
  BY DEF SeenFree
<1> DEFINE Stays == at'[q] = at[q] /\ seen'[q] = seen[q]
<1>1. at \in [Procs -> Labels] /\ DOMAIN seen = Procs
  BY DEF TypeOK
<1>2. Stays => Free(seen'[q])
  BY DEF SeenFree
<1>3. ASSUME NEW p \in Procs, Exit(p, "done") \/ Exit(p, "killed") \/ NextAgent(p) \/ ToGitHooks(p)
      PROVE  Stays
  BY <1>1, <1>3 DEF Exit, NextAgent, Ends, ToGitHooks
<1>4. ASSUME NEW p \in Procs, Read(p) \/ Write(p) PROVE Stays
  <2>1. CASE NextAgent(p) \/ Ends(p)
    BY <1>3, <2>1 DEF Ends
  <2>2. CASE ~(NextAgent(p) \/ Ends(p))
    <3>1. \E d : WillWrite(p, d)
      BY <1>4, <2>2 DEF Read, ReadInstall, ReadUninstall, Write, WriteInstalled, WriteStripped
    <3> QED
      BY <1>1, <3>1 DEF WillWrite
  <2> QED
    BY <2>1, <2>2
<1>5. ASSUME NEW p \in Procs, SetDriver(p) \/ ReadAttributes(p) \/ WriteAttributes(p) PROVE Stays
  <2>1. CASE ToGitHooks(p)
    BY <1>3, <2>1
  <2>2. CASE ~ToGitHooks(p)
    BY <1>1, <1>5, <2>2 DEF SetDriver, ReadAttributes, WriteAttributes
  <2> QED
    BY <2>1, <2>2
<1>6. ASSUME NEW p \in Procs, ReadHook(p) PROVE Stays \/ Free(seen'[q])
  <2>1. CASE Ends(p)
    BY <1>3, <2>1 DEF Ends
  <2>2. CASE ~Ends(p)
    BY <1>1, <1>6, <2>2 DEF ReadHook
  <2> QED
    BY <2>1, <2>2
<1>7. ASSUME NEW p \in Procs, WriteHook(p) PROVE Stays
  <2>1. CASE Ends(p)
    BY <1>3, <2>1 DEF Ends
  <2>2. CASE ~Ends(p)
    BY <1>1, <1>7, <2>2 DEF WriteHook
  <2> QED
    BY <2>1, <2>2
<1>8. ASSUME NEW p \in Procs, Killed(p) PROVE Stays
  BY <1>3, <1>8 DEF Killed
<1>9. ASSUME NEW p \in Procs, NEW how, NEW wanted, NEW version, Start(p, how, wanted, version)
      PROVE  Stays
  BY <1>1, <1>9 DEF Start
<1>10. Saves \/ UNCHANGED vars => Stays
  BY DEF Saves, Edit, EditAttributes, EditHook, vars, command
<1> QED
  BY <1>2, <1>4, <1>5, <1>6, <1>7, <1>8, <1>9, <1>10 DEF Next, Step, Saves

LEMMA WriteAttributesKeeps ==
  ASSUME TypeOK, NEW p \in Procs, WriteAttributes(p), edits' = edits
  PROVE  KeepsAttributes
<1>1. /\ at[p] = "attrwrite" /\ seen[p] \in Attrs /\ attrs \in Attrs
      /\ at \in [Procs -> Labels] /\ edits \in Nat
  BY DEF TypeOK, WriteAttributes
<1>2. attrs' \in {attrs, WithLines(seen[p])} /\ at'[p] = "githooks"
  BY <1>1 DEF WriteAttributes, ToGitHooks, Mishap
<1>3. CASE seen[p] # attrs
  BY <1>1, <1>2, <1>3 DEF KeepsAttributes
<1>4. CASE seen[p] = attrs /\ attrs.text # "undecodable"
  <2>1. WithLines(attrs).text = attrs.text /\ WithLines(attrs).lines = attrs.lines \cup Targets
    BY <1>1, <1>4 DEF WithLines, Readable, Attrs
  <2> QED
    BY <1>2, <1>4, <2>1 DEF KeepsAttributes
<1> QED
  BY <1>3, <1>4 DEF KeepsAttributes

LEMMA WriteHookKeeps ==
  ASSUME TypeOK, SeenFree, NEW p \in Procs, WriteHook(p), edits' = edits, NEW h \in DOMAIN githooks
  PROVE  KeepsHook(h)
<1>1. at[p] = "hookwrite" /\ Free(seen[p]) /\ at \in [Procs -> Labels] /\ edits \in Nat
  BY DEF TypeOK, SeenFree, WriteHook
<1>2. CASE githooks' = githooks
  BY <1>2 DEF KeepsHook
<1>3. CASE githooks' # githooks
  <2>1. githooks' = [githooks EXCEPT ![Head(todo[p])] = "mentions"] /\ at'[p] = "githooks"
    BY <1>1, <1>3 DEF WriteHook, Mishap
  <2>2. CASE h # Head(todo[p])
    BY <2>1, <2>2 DEF KeepsHook
  <2>3. CASE h = Head(todo[p])
    <3>1. githooks[h] \in {"mentions", "theirs", "cut"} => seen[p] # githooks[h]
      BY <1>1 DEF Free
    <3> QED
      BY <1>1, <2>1, <2>3, <3>1 DEF KeepsHook
  <2> QED
    BY <2>2, <2>3
<1> QED
  BY <1>2, <1>3

\* A command that goes its way leaves the text that jedimem can read, users' git hooks
\* and .gitattributes, as it found it, for any hooks and targets: it writes a hook only
\* after it was free, and a user's lines come back with ours, so that only a save after
\* the command's reading is lost.
THEOREM ReadableTextIsKept == Spec => ReadableTextKept
<1>1. ASSUME TypeOK, SeenFree, [Next]_vars, edits' = edits
      PROVE  (\A h \in DOMAIN githooks : KeepsHook(h)) /\ KeepsAttributes
  <2>0. edits \in Nat
    BY <1>1 DEF TypeOK
  <2>1. CASE UNCHANGED <<attrs, githooks>>
    BY <2>1 DEF KeepsHook, KeepsAttributes
  <2>2. ASSUME NEW p \in Procs, WriteAttributes(p)
        PROVE  (\A h \in DOMAIN githooks : KeepsHook(h)) /\ KeepsAttributes
    <3>1. githooks' = githooks
      BY <2>2 DEF WriteAttributes
    <3> QED
      BY <1>1, <2>2, <3>1, WriteAttributesKeeps DEF KeepsHook
  <2>3. ASSUME NEW p \in Procs, WriteHook(p)
        PROVE  (\A h \in DOMAIN githooks : KeepsHook(h)) /\ KeepsAttributes
    <3>1. attrs' = attrs
      BY <2>3 DEF WriteHook
    <3>2. KeepsAttributes
      BY <3>1 DEF KeepsAttributes
    <3> QED
      BY <1>1, <2>3, <3>2, WriteHookKeeps
  <2>4. ASSUME NEW p \in Procs,
               Read(p) \/ Write(p) \/ SetDriver(p) \/ ReadAttributes(p) \/ ReadHook(p)
        PROVE  UNCHANGED <<attrs, githooks>>
    BY <2>4 DEF Read, Write, SetDriver, ReadAttributes, ReadHook
  <2>5. ASSUME NEW p, NEW how, NEW wanted, NEW version, Start(p, how, wanted, version)
        PROVE  UNCHANGED <<attrs, githooks>>
    BY <2>5 DEF Start
  <2>6. ~Mishap
    BY <1>1, <2>0 DEF Mishap
  <2>7. ~Saves /\ \A p \in Procs : ~Killed(p)
    BY <2>6 DEF Saves, Edit, EditAttributes, EditHook, Killed
  <2>8. UNCHANGED vars => UNCHANGED <<attrs, githooks>>
    BY DEF vars
  <2> QED
    BY <1>1, <2>1, <2>2, <2>3, <2>4, <2>5, <2>7, <2>8 DEF Next, Step, Saves
<1>2. Init => SeenFree
  BY DEF Init, SeenFree
<1>3. TypeOK /\ SeenFree /\ [Next]_vars => [KeepsText]_vars
  BY <1>1 DEF KeepsText
<1> QED
  BY <1>2, <1>3, SeenFreeStays, Typing, PTL DEF Spec, ReadableTextKept

-----------------------------------------------------------------------------
\* What users wrote.

LEMMA TheirsIsRest == \A v : Theirs(v) = Rest(v)
BY DEF Theirs, Rest, Others, Ours

\* The settings a command starts from when it finds this file.
Settings(file) == IF file = Absent THEN Empty ELSE file

LEMMA SameUserPart ==
  ASSUME NEW f, NEW g, f \notin {Bad, Odd}, g \notin {Bad, Odd},
         \A place \in Places : Rest(Under(Settings(g), place)) = Rest(Under(Settings(f), place))
  PROVE  UserPart(g) = UserPart(f)
<1>1. /\ UserPart(f) = [place \in Places |-> Theirs(Under(Settings(f), place))]
      /\ UserPart(g) = [place \in Places |-> Theirs(Under(Settings(g), place))]
  BY DEF UserPart, Settings
<1>2. \A place \in Places : Theirs(Under(Settings(g), place)) = Theirs(Under(Settings(f), place))
  BY TheirsIsRest
<1> QED
  BY <1>1, <1>2

\* A command that writes what it made of the file that is still there changes nothing
\* of a user's.
LEMMA WrittenKeeps ==
  ASSUME TypeOK, NEW p \in Procs, at[p] = "write", NEW f, f \notin {Bad, Odd},
         doc[p] = Settings(f), NEW file, Written(p, file)
  PROVE  UserPart(file) = UserPart(f)
<1> DEFINE d == doc[p]
           a == Head(todo[p])
<1>1. CommandsOK /\ IsSettings(d)
  BY TypeParts DEF CommandsOK, CommandOK
<1>2. CASE mode[p] = "install"
  <2>1. pin[p] \in Pins /\ Accepts(a, d) /\ file = Installed(a, d, pin[p])
    BY <1>1, <1>2 DEF CommandsOK, CommandOK, Written
  <2>2. IsSettings(file)
    BY <1>1, <2>1, InstalledType
  <2>3. IsDoc(file)
    BY <2>2, SettingsAreDocs
  <2>4. Settings(file) = file
    BY <2>3 DEF Settings, IsDoc
  <2>5. \A place \in Places : Rest(Under(file, place)) = Rest(Under(d, place))
    BY <1>1, <2>1, RestOfInstalled
  <2> QED
    BY <2>3, <2>4, <2>5, SameUserPart DEF IsDoc
<1>3. CASE mode[p] # "install"
  <2> DEFINE s == Stripped(d)
  <2>1. IsSettings(s) /\ file = IF s = Empty THEN Absent ELSE s
    BY <1>1, <1>3, StrippedHolds DEF Written, KeptOf
  <2>2. IsDoc(s)
    BY <2>1, SettingsAreDocs
  <2>3. Settings(file) = s /\ file \notin {Bad, Odd}
    BY <2>1, <2>2, FormsAssumption DEF Settings, IsDoc
  <2>4. \A place \in Places : Rest(Under(s, place)) = Rest(Under(d, place))
    <3> TAKE place \in Places
    <3>1. Under(s, place) = Rest(Under(d, place)) /\ Under(d, place) \in Values
      BY <1>1, StrippedUnder, UnderType
    <3> QED
      BY <3>1, RestOfRest
  <2> HIDE DEF s
  <2> QED
    BY <2>3, <2>4, SameUserPart
<1> QED
  BY <1>2, <1>3

LEMMA NextAgentLeaves ==
  ASSUME TypeOK, NEW p \in Procs, NextAgent(p)
  PROVE  at'[p] # "write"
BY DEF TypeOK, NextAgent, Ends, Exit

\* What holds of one agent's file in a step of a command that nobody kills.
KeepsUserPart(a) ==
  \/ UserPart(files'[a]) = UserPart(files[a])
  \/ \E p \in Procs : at[p] = "write" /\ at'[p] # "write" /\ Head(todo[p]) = a
       /\ doc[p] # (IF files[a] = Absent THEN Empty ELSE files[a])

LEMMA WriteKeeps ==
  ASSUME TypeOK, NEW p \in Procs, Write(p), NEW a \in Agents
  PROVE  KeepsUserPart(a)
<1> DEFINE b == Head(todo[p])
<1>1. /\ FilesOK /\ CommandsOK /\ at[p] = "write" /\ b \in Agents
      /\ DOMAIN files = Agents /\ IsSettings(doc[p])
  BY TypeParts, AtAnAgent DEF Write, FilesOK, CommandsOK, CommandOK
<1>2. CASE UNCHANGED <<files, last>>
  BY <1>2 DEF KeepsUserPart
<1>3. CASE ~UNCHANGED <<files, last>>
  <2>1. PICK file : Written(p, file) /\ files' = [files EXCEPT ![b] = file]
    BY <1>1, <1>3, WriteFiles
  <2>2. at'[p] # "write"
    BY <1>1, <1>3, WriteFiles, NextAgentLeaves
  <2>3. CASE a # b
    <3>1. files'[a] = files[a]
      BY <1>1, <2>1, <2>3
    <3> QED
      BY <3>1 DEF KeepsUserPart
  <2>4. CASE a = b /\ doc[p] # Settings(files[a])
    BY <1>1, <2>2, <2>4 DEF KeepsUserPart, Settings
  <2>5. CASE a = b /\ doc[p] = Settings(files[a])
    <3>1. IsDoc(doc[p])
      BY <1>1, SettingsAreDocs
    <3>2. files[a] \notin {Bad, Odd}
      BY <2>5, <3>1, FormsAssumption DEF Settings, IsDoc
    <3>3. files'[a] = file
      BY <1>1, <2>1, <2>5
    <3>4. UserPart(file) = UserPart(files[a])
      BY <1>1, <2>1, <2>5, <3>2, WrittenKeeps
    <3> QED
      BY <3>3, <3>4 DEF KeepsUserPart
  <2> QED
    BY <2>3, <2>4, <2>5
<1> QED
  BY <1>2, <1>3

\* "Never clobber": what users wrote in the settings survives install and uninstall,
\* whatever the agents, the entries and the form of the files, where nobody saves the
\* file between a command's reading and writing it, and no kill cuts the writing short.
THEOREM UserEntriesAreKept == Spec => UserEntriesKept
<1>1. ASSUME TypeOK, [Next]_vars, NEW a \in Agents, command' # command,
             \A p \in Procs : at'[p] = "killed" => at[p] = "killed"
      PROVE  KeepsUserPart(a)
  <2>1. CASE files' = files
    BY <2>1 DEF KeepsUserPart
  <2>2. ASSUME NEW p \in Procs, Read(p) \/ GitStep(p)
        PROVE  files' = files
    BY <2>2 DEF Read, GitStep, SetDriver, ReadAttributes, WriteAttributes, ReadHook, WriteHook
  <2>3. ASSUME NEW p, NEW how, NEW wanted, NEW version, Start(p, how, wanted, version)
        PROVE  files' = files
    BY <2>3 DEF Start
  <2>4. ASSUME NEW p \in Procs PROVE ~Killed(p)
    BY <1>1 DEF TypeOK, Killed, Exit
  <2>5. /\ \A b, file : ~Edit(b, file)
        /\ \A x, y : ~EditAttributes(x, y) /\ ~EditHook(x, y)
    BY <1>1 DEF Edit, EditAttributes, EditHook
  <2>6. ~UNCHANGED vars
    BY <1>1 DEF vars
  <2> QED
    BY <1>1, <2>1, <2>2, <2>3, <2>4, <2>5, <2>6, WriteKeeps DEF Next, Step, GitStep
<1>2. TypeOK /\ [Next]_vars =>
        \A a \in Agents :
          command' # command /\ (\A p \in Procs : at'[p] = "killed" => at[p] = "killed") =>
            \/ UserPart(files'[a]) = UserPart(files[a])
            \/ \E p \in Procs : at[p] = "write" /\ at'[p] # "write" /\ Head(todo[p]) = a
                 /\ doc[p] # (IF files[a] = Absent THEN Empty ELSE files[a])
  BY <1>1 DEF KeepsUserPart
<1> QED
  BY <1>2, Typing, PTL DEF Spec, UserEntriesKept
=============================================================================
