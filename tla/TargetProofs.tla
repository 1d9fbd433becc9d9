---------------------------- MODULE TargetProofs ----------------------------
(***************************************************************************)
(* Proofs about Target, for instruction files of any length and any sets   *)
(* of memories and words.  First splice on its own, for texts over any     *)
(* set of tokens; then what edits, compiles and merges do to a text; then  *)
(* the invariants of the two clones and what a step does to their words.   *)
(***************************************************************************)
EXTENDS Target, FiniteSetTheorems, WellFoundedInduction, SequenceTheorems, TLAPS

-----------------------------------------------------------------------------
\* Tokens are told apart by what they hold.

LEMMA TokensDiffer ==
  /\ NL # BEGIN /\ NL # END /\ NL # SP /\ BEGIN # END /\ SP # BEGIN /\ SP # END
  /\ \A ms : Body(ms) # BEGIN /\ Body(ms) # END /\ Body(ms) # NL
BY DEF NL, SP, BEGIN, END, Body

LEMMA LeastNumber ==
  ASSUME NEW T, T \subseteq Nat, T # {}
  PROVE  \E n \in T : \A k \in T : n <= k
<1> DEFINE below == {0..n : n \in T}
<1>1. below # {} /\ below \subseteq FiniteSubsetsOf(Nat)
  <2>1. \A n \in T : n \in Int /\ 0 \in Int /\ 0..n \in SUBSET Nat
    OBVIOUS
  <2>2. \A n \in T : IsFiniteSet(0..n)
    BY <2>1, FS_Interval
  <2> QED
    BY <2>1, <2>2, Zenon DEF FiniteSubsetsOf
<1>2. PICK X \in below : \A Y \in below : <<Y, X>> \notin StrictSubsetOrdering(Nat)
  <2> HIDE DEF below
  <2> QED
    BY <1>1, FS_StrictSubsetOrderingWellFounded, WFMin, Zenon
<1>3. PICK n \in T : X = 0..n
  OBVIOUS
<1>4. \A k \in T : n <= k
  <2>1. SUFFICES ASSUME NEW k \in T, k < n PROVE FALSE
    OBVIOUS
  <2>2. 0..k \in below /\ 0..k \subseteq 0..n /\ 0..k # 0..n
    BY <2>1
  <2> QED
    <3>1. ~ (0..k \subseteq X /\ 0..k # X)
      <4>1. <<0..k, X>> \notin StrictSubsetOrdering(Nat)
        BY <1>2, <2>2
      <4>2. 0..k \in SUBSET Nat /\ X \in SUBSET Nat
        BY <1>3
      <4> QED
        BY <4>1, <4>2, Zenon DEF StrictSubsetOrdering
    <3> QED
      BY <1>3, <2>2, <3>1
<1> QED
  BY <1>4

\* The first and the last place of a token, which the code finds by scanning.

LEMMA FirstIsFirst ==
  ASSUME NEW S, NEW s \in Seq(S), NEW token, Has(s, token)
  PROVE  /\ First(s, token) \in 1..Len(s)
         /\ s[First(s, token)] = token
         /\ \A j \in 1..(First(s, token) - 1) : s[j] # token
<1> DEFINE places == {i \in 1..Len(s) : s[i] = token}
<1>1. places \subseteq Nat /\ places # {}
  BY DEF Has
<1>2. PICK i \in places : \A j \in places : i <= j
  BY <1>1, LeastNumber
<1>3. i \in 1..Len(s) /\ s[i] = token /\ \A j \in 1..(i - 1) : s[j] # token
  BY <1>2
<1> QED
  BY <1>3 DEF First

LEMMA LastInkIsLast ==
  ASSUME NEW S, NEW s \in Seq(S)
  PROVE  /\ LastInk(s) \in 0..Len(s)
         /\ LastInk(s) = 0 \/ s[LastInk(s)] # NL
         /\ \A i \in (LastInk(s) + 1)..Len(s) : s[i] = NL
<1> DEFINE tails == {k \in 0..Len(s) : \A i \in (k + 1)..Len(s) : s[i] = NL}
<1>1. tails \subseteq Nat /\ Len(s) \in tails
  OBVIOUS
<1>2. PICK n \in tails : \A k \in tails : n <= k
  BY <1>1, LeastNumber
<1>3. n = 0 \/ s[n] # NL
  <2>1. SUFFICES ASSUME n # 0, s[n] = NL PROVE FALSE
    OBVIOUS
  <2>2. n - 1 \in tails
    BY <2>1, <1>2
  <2> QED
    BY <2>2, <1>2
<1>4. /\ n \in 0..Len(s) /\ (n = 0 \/ s[n] # NL)
      /\ \A i \in (n + 1)..Len(s) : s[i] = NL
  BY <1>2, <1>3
<1> QED
  BY <1>4 DEF LastInk

LEMMA LeadNLIsLead ==
  ASSUME NEW S, NEW s \in Seq(S)
  PROVE  /\ LeadNL(s) \in 0..Len(s)
         /\ LeadNL(s) = Len(s) \/ s[LeadNL(s) + 1] # NL
         /\ \A i \in 1..LeadNL(s) : s[i] = NL
<1> DEFINE inks == {k \in 0..Len(s) : k = Len(s) \/ s[k + 1] # NL}
<1>1. inks \subseteq Nat /\ Len(s) \in inks
  OBVIOUS
<1>2. PICK n \in inks : \A k \in inks : n <= k
  BY <1>1, LeastNumber
<1>3. \A i \in 1..n : s[i] = NL
  <2>1. SUFFICES ASSUME NEW i \in 1..n, s[i] # NL PROVE FALSE
    OBVIOUS
  <2>2. i - 1 \in inks
    BY <2>1, <1>2
  <2> QED
    BY <2>2, <1>2
<1>4. n \in 0..Len(s) /\ (n = Len(s) \/ s[n + 1] # NL)
  BY <1>2
<1> QED
  BY <1>3, <1>4 DEF LeadNL

-----------------------------------------------------------------------------
\* Texts by their size and their tokens.  The provers see these operators only
\* through the lemmas below, never as sequences.

Text(S)    == Seq(S)
Size(s)    == Len(s)
At(s, i)   == s[i]
Glue(s, t) == s \o t

LEMMA Sizes ==
  ASSUME NEW S, NEW s \in Text(S)
  PROVE  Size(s) \in Nat
BY DEF Text, Size

LEMMA SameText ==
  ASSUME NEW S, NEW s \in Text(S), NEW t \in Text(S), Size(s) = Size(t),
         \A i \in 1..Size(s) : At(s, i) = At(t, i)
  PROVE  s = t
BY SeqEqual DEF Text, Size, At

LEMMA GlueSize ==
  ASSUME NEW S, NEW s \in Text(S), NEW t \in Text(S)
  PROVE  Glue(s, t) \in Text(S) /\ Size(Glue(s, t)) = Size(s) + Size(t)
BY DEF Text, Size, Glue

LEMMA GlueLeft ==
  ASSUME NEW S, NEW s \in Text(S), NEW t \in Text(S), NEW i \in 1..Size(s)
  PROVE  At(Glue(s, t), i) = At(s, i)
BY DEF Text, Size, Glue, At

LEMMA GlueRight ==
  ASSUME NEW S, NEW s \in Text(S), NEW t \in Text(S), NEW i \in 1..Size(t)
  PROVE  At(Glue(s, t), Size(s) + i) = At(t, i)
BY DEF Text, Size, Glue, At

LEMMA EmptyText ==
  ASSUME NEW S
  PROVE  /\ << >> \in Text(S) /\ Size(<< >>) = 0
         /\ \A s \in Text(S) : Size(s) = 0 => s = << >>
BY DEF Text, Size

\* A part of a text, up to or from a place.
LEMMA Prefix ==
  ASSUME NEW S, NEW s \in Text(S), NEW n \in 0..Size(s)
  PROVE  /\ SubSeq(s, 1, n) \in Text(S) /\ Size(SubSeq(s, 1, n)) = n
         /\ \A i \in 1..n : At(SubSeq(s, 1, n), i) = At(s, i)
<1>1. n \in Int /\ s \in Seq(S) /\ n \in 0..Len(s)
  BY DEF Text, Size
<1>2. \A i \in 1..n : s[i] \in S
  BY <1>1, ElementOfSeq
<1>3. /\ SubSeq(s, 1, n) \in Seq(S)
      /\ Len(SubSeq(s, 1, n)) = IF 1 <= n THEN n - 1 + 1 ELSE 0
      /\ \A i \in 1..(n - 1 + 1) : SubSeq(s, 1, n)[i] = s[1 + i - 1]
  BY <1>1, <1>2, SubSeqProperties
<1>4. Len(SubSeq(s, 1, n)) = n
  BY <1>1, <1>3
<1>5. \A i \in 1..n : SubSeq(s, 1, n)[i] = s[i]
  <2>1. \A i \in 1..n : i \in 1..(n - 1 + 1) /\ 1 + i - 1 = i
    BY <1>1
  <2> QED
    BY <1>3, <2>1
<1> QED
  BY <1>3, <1>4, <1>5 DEF Text, Size, At

LEMMA Suffix ==
  ASSUME NEW S, NEW s \in Text(S), NEW n \in 0..Size(s)
  PROVE  /\ SubSeq(s, n + 1, Len(s)) \in Text(S)
         /\ Size(SubSeq(s, n + 1, Len(s))) = Size(s) - n
         /\ \A i \in 1..(Size(s) - n) : At(SubSeq(s, n + 1, Len(s)), i) = At(s, n + i)
<1> DEFINE m == n + 1
           l == Len(s)
           t == SubSeq(s, m, l)
<1>1. s \in Seq(S) /\ n \in 0..Len(s)
  BY DEF Text, Size
<1>2. m \in Int /\ l \in Int /\ \A i \in m..l : s[i] \in S
  BY <1>1, ElementOfSeq
<1> HIDE DEF m, l
<1>3. /\ t \in Seq(S) /\ Len(t) = (IF m <= l THEN l - m + 1 ELSE 0)
      /\ \A i \in 1..(l - m + 1) : t[i] = s[m + i - 1]
  BY <1>2, SubSeqProperties
<1> HIDE DEF t
<1>4. /\ (IF m <= l THEN l - m + 1 ELSE 0) = l - n /\ l - m + 1 = l - n
      /\ \A i \in 1..(l - n) : m + i - 1 = n + i
  BY <1>1 DEF m, l
<1>5. t \in Seq(S) /\ Len(t) = l - n /\ \A i \in 1..(l - n) : t[i] = s[n + i]
  BY <1>3, <1>4
<1> QED
  BY <1>5 DEF t, m, l, Text, Size, At

\* The places that the code looks for, in these terms.
LEMMA FirstAt ==
  ASSUME NEW S, NEW s \in Text(S), NEW token, NEW i \in 1..Size(s),
         At(s, i) = token, \A j \in 1..(i - 1) : At(s, j) # token
  PROVE  Has(s, token) /\ First(s, token) = i
<1>1. /\ s \in Seq(S) /\ i \in 1..Len(s) /\ s[i] = token
      /\ \A j \in 1..(i - 1) : s[j] # token
  BY DEF Text, Size, At
<1>2. Has(s, token)
  BY <1>1 DEF Has
<1>3. /\ First(s, token) \in 1..Len(s) /\ s[First(s, token)] = token
      /\ \A j \in 1..(First(s, token) - 1) : s[j] # token
  BY <1>1, <1>2, FirstIsFirst
<1>4. ~(First(s, token) < i) /\ ~(i < First(s, token))
  BY <1>1, <1>3
<1> QED
  BY <1>1, <1>2, <1>3, <1>4

LEMMA FirstPlace ==
  ASSUME NEW S, NEW s \in Text(S), NEW token, Has(s, token)
  PROVE  /\ First(s, token) \in 1..Size(s) /\ At(s, First(s, token)) = token
         /\ \A j \in 1..(First(s, token) - 1) : At(s, j) # token
BY FirstIsFirst DEF Text, Size, At

LEMMA LastInkAt ==
  ASSUME NEW S, NEW s \in Text(S), NEW n \in 0..Size(s), n = 0 \/ At(s, n) # NL,
         \A i \in (n + 1)..Size(s) : At(s, i) = NL
  PROVE  LastInk(s) = n
<1>1. /\ s \in Seq(S) /\ n \in 0..Len(s) /\ (n = 0 \/ s[n] # NL)
      /\ \A i \in (n + 1)..Len(s) : s[i] = NL
  BY DEF Text, Size, At
<1>2. /\ LastInk(s) \in 0..Len(s) /\ (LastInk(s) = 0 \/ s[LastInk(s)] # NL)
      /\ \A i \in (LastInk(s) + 1)..Len(s) : s[i] = NL
  BY <1>1, LastInkIsLast
<1>3. ~(LastInk(s) < n) /\ ~(n < LastInk(s))
  BY <1>1, <1>2
<1> QED
  BY <1>1, <1>2, <1>3

LEMMA LeadNLAt ==
  ASSUME NEW S, NEW s \in Text(S), NEW n \in 0..Size(s), n = Size(s) \/ At(s, n + 1) # NL,
         \A i \in 1..n : At(s, i) = NL
  PROVE  LeadNL(s) = n
<1>1. /\ s \in Seq(S) /\ n \in 0..Len(s) /\ (n = Len(s) \/ s[n + 1] # NL)
      /\ \A i \in 1..n : s[i] = NL
  BY DEF Text, Size, At
<1>2. /\ LeadNL(s) \in 0..Len(s) /\ (LeadNL(s) = Len(s) \/ s[LeadNL(s) + 1] # NL)
      /\ \A i \in 1..LeadNL(s) : s[i] = NL
  BY <1>1, LeadNLIsLead
<1>3. ~(LeadNL(s) < n) /\ ~(n < LeadNL(s))
  BY <1>1, <1>2
<1> QED
  BY <1>1, <1>2, <1>3

LEMMA BlankText ==
  ASSUME NEW s
  PROVE  Blank(s) <=> \A i \in 1..Size(s) : At(s, i) \in {NL, SP}
BY DEF Blank, Size, At

LEMMA BeforeText ==
  ASSUME NEW S, NEW s \in Text(S), NEW token, Has(s, token)
  PROVE  /\ Before(s, token) \in Text(S) /\ Size(Before(s, token)) = First(s, token) - 1
         /\ \A i \in 1..(First(s, token) - 1) : At(Before(s, token), i) = At(s, i)
<1> DEFINE n == First(s, token) - 1
<1>1. n \in 0..Size(s)
  BY FirstPlace, Sizes
<1> HIDE DEF n
<1>2. /\ SubSeq(s, 1, n) \in Text(S) /\ Size(SubSeq(s, 1, n)) = n
      /\ \A i \in 1..n : At(SubSeq(s, 1, n), i) = At(s, i)
  BY <1>1, Prefix
<1> QED
  BY <1>2 DEF Before, n

LEMMA AfterText ==
  ASSUME NEW S, NEW s \in Text(S), NEW token, Has(s, token)
  PROVE  /\ After(s, token) \in Text(S)
         /\ Size(After(s, token)) = Size(s) - First(s, token)
         /\ \A i \in 1..(Size(s) - First(s, token)) :
              At(After(s, token), i) = At(s, First(s, token) + i)
<1>1. First(s, token) \in 0..Size(s)
  BY FirstPlace, Sizes
<1> QED
  BY <1>1, Suffix DEF After

LEMMA TrimEndText ==
  ASSUME NEW S, NEW s \in Text(S)
  PROVE  /\ LastInk(s) \in 0..Size(s) /\ (LastInk(s) = 0 \/ At(s, LastInk(s)) # NL)
         /\ \A i \in (LastInk(s) + 1)..Size(s) : At(s, i) = NL
         /\ TrimEnd(s) \in Text(S) /\ Size(TrimEnd(s)) = LastInk(s)
         /\ \A i \in 1..LastInk(s) : At(TrimEnd(s), i) = At(s, i)
<1>1. /\ LastInk(s) \in 0..Size(s) /\ (LastInk(s) = 0 \/ At(s, LastInk(s)) # NL)
      /\ \A i \in (LastInk(s) + 1)..Size(s) : At(s, i) = NL
  BY LastInkIsLast DEF Text, Size, At
<1> QED
  BY <1>1, Prefix DEF TrimEnd

LEMMA TrimStartText ==
  ASSUME NEW S, NEW s \in Text(S)
  PROVE  /\ LeadNL(s) \in 0..Size(s) /\ (LeadNL(s) = Size(s) \/ At(s, LeadNL(s) + 1) # NL)
         /\ TrimStart(s) \in Text(S) /\ Size(TrimStart(s)) = Size(s) - LeadNL(s)
         /\ \A i \in 1..(Size(s) - LeadNL(s)) : At(TrimStart(s), i) = At(s, LeadNL(s) + i)
<1>1. /\ LeadNL(s) \in 0..Size(s) /\ (LeadNL(s) = Size(s) \/ At(s, LeadNL(s) + 1) # NL)
  BY LeadNLIsLead DEF Text, Size, At
<1> QED
  BY <1>1, Suffix DEF TrimStart

-----------------------------------------------------------------------------
\* What splice leaves: text, the section, and text again, set off by an empty line.

\* Nothing, or text that ends in ink and an empty line, with no marker in it.
IsHead(h) ==
  /\ \A i \in 1..Size(h) : At(h, i) # BEGIN /\ At(h, i) # END
  /\ \/ Size(h) = 0
     \/ /\ ~Blank(h) /\ Size(h) > 2
        /\ At(h, Size(h) - 2) # NL /\ At(h, Size(h) - 1) = NL /\ At(h, Size(h)) = NL

\* Nothing, or a line end and text that begins with ink.
IsTail(r) == Size(r) = 0 \/ (Size(r) > 1 /\ At(r, 1) = NL /\ At(r, 2) # NL)

\* The tokens are those of the texts in question.
Spells(S, ms) == NL \in S /\ BEGIN \in S /\ END \in S /\ Body(ms) \in S

Spliced(h, ms, r) == Glue(Glue(h, Section(ms)), r)

LEMMA SectionText ==
  ASSUME NEW S, NEW ms, Spells(S, ms)
  PROVE  /\ Section(ms) \in Text(S) /\ Size(Section(ms)) = 4
         /\ At(Section(ms), 1) = BEGIN /\ At(Section(ms), 2) = Body(ms)
         /\ At(Section(ms), 3) = END /\ At(Section(ms), 4) = NL
BY DEF Section, Spells, Text, Size, At

\* The size and the tokens of such a text.
LEMMA SplicedTokens ==
  ASSUME NEW S, NEW ms, Spells(S, ms), NEW h \in Text(S), NEW r \in Text(S),
         NEW y, y = Spliced(h, ms, r)
  PROVE  /\ y \in Text(S) /\ Size(y) = Size(h) + 4 + Size(r)
         /\ \A i \in 1..Size(h) : At(y, i) = At(h, i)
         /\ At(y, Size(h) + 1) = BEGIN /\ At(y, Size(h) + 2) = Body(ms)
         /\ At(y, Size(h) + 3) = END /\ At(y, Size(h) + 4) = NL
         /\ \A i \in 1..Size(r) : At(y, Size(h) + 4 + i) = At(r, i)
<1> DEFINE sec == Section(ms)
           a == Glue(h, sec)
<1>1. Size(h) \in Nat /\ Size(r) \in Nat
  BY Sizes
<1>2. /\ sec \in Text(S) /\ Size(sec) = 4 /\ At(sec, 1) = BEGIN /\ At(sec, 2) = Body(ms)
      /\ At(sec, 3) = END /\ At(sec, 4) = NL
  BY SectionText
<1> HIDE DEF sec
<1>3. a \in Text(S) /\ Size(a) = Size(h) + 4
  BY <1>2, GlueSize
<1>4. \A i \in 1..Size(h) : At(a, i) = At(h, i)
  BY <1>2, GlueLeft
<1>5. \A i \in 1..4 : At(a, Size(h) + i) = At(sec, i)
  BY <1>2, GlueRight
<1>6. y = Glue(a, r)
  BY DEF Spliced, sec
<1> HIDE DEF a
<1>7. y \in Text(S) /\ Size(y) = Size(h) + 4 + Size(r)
  BY <1>3, <1>6, GlueSize
<1>8. \A i \in 1..(Size(h) + 4) : At(y, i) = At(a, i)
  BY <1>3, <1>6, GlueLeft
<1>9. \A i \in 1..Size(r) : At(y, Size(h) + 4 + i) = At(r, i)
  BY <1>3, <1>6, GlueRight
<1>10. \A i \in 1..Size(h) : At(y, i) = At(h, i)
  BY <1>1, <1>4, <1>8
<1>11. \A i \in 1..4 : At(y, Size(h) + i) = At(sec, i)
  BY <1>1, <1>5, <1>8
<1>12. /\ At(y, Size(h) + 1) = BEGIN /\ At(y, Size(h) + 2) = Body(ms)
       /\ At(y, Size(h) + 3) = END /\ At(y, Size(h) + 4) = NL
  BY <1>2, <1>11
<1> QED
  BY <1>7, <1>9, <1>10, <1>12

\* Such a text has its markers where the section is.
LEMMA SplicedMarks ==
  ASSUME NEW S, NEW ms, Spells(S, ms), NEW h \in Text(S), NEW r \in Text(S),
         IsHead(h), NEW y, y = Spliced(h, ms, r)
  PROVE  Marked(y) /\ First(y, BEGIN) = Size(h) + 1 /\ First(y, END) = Size(h) + 3
<1>1. /\ y \in Text(S) /\ Size(y) = Size(h) + 4 + Size(r)
      /\ \A i \in 1..Size(h) : At(y, i) = At(h, i)
      /\ At(y, Size(h) + 1) = BEGIN /\ At(y, Size(h) + 2) = Body(ms)
      /\ At(y, Size(h) + 3) = END
  BY SplicedTokens
<1>2. Size(h) \in Nat /\ Size(r) \in Nat
  BY Sizes
<1>3. \A i \in 1..Size(h) : At(y, i) # BEGIN /\ At(y, i) # END
  BY <1>1 DEF IsHead
<1>4. Has(y, BEGIN) /\ First(y, BEGIN) = Size(h) + 1
  <2> DEFINE n == Size(h) + 1
  <2>1. n \in 1..Size(y) /\ \A j \in 1..(n - 1) : j \in 1..Size(h)
    BY <1>1, <1>2
  <2>2. At(y, n) = BEGIN /\ \A j \in 1..(n - 1) : At(y, j) # BEGIN
    BY <1>1, <1>3, <2>1
  <2> HIDE DEF n
  <2>3. Has(y, BEGIN) /\ First(y, BEGIN) = n
    BY <1>1, <2>1, <2>2, FirstAt
  <2> QED
    BY <2>3 DEF n
<1>5. Has(y, END) /\ First(y, END) = Size(h) + 3
  <2> DEFINE n == Size(h) + 3
  <2>1. n \in 1..Size(y)
    BY <1>1, <1>2
  <2>2. \A j \in 1..(n - 1) : j \in 1..Size(h) \/ j = Size(h) + 1 \/ j = Size(h) + 2
    BY <1>2
  <2>3. At(y, n) = END /\ \A j \in 1..(n - 1) : At(y, j) # END
    BY <1>1, <1>3, <2>2, TokensDiffer
  <2> HIDE DEF n
  <2>4. Has(y, END) /\ First(y, END) = n
    BY <1>1, <2>1, <2>3, FirstAt
  <2> QED
    BY <2>4 DEF n
<1> QED
  BY <1>4, <1>5 DEF Marked

\* The head and the tail that splice takes from it are the ones it has.

LEMMA SplicedHead ==
  ASSUME NEW S, NEW ms, Spells(S, ms), NEW h \in Text(S), NEW r \in Text(S),
         IsHead(h), NEW y, y = Spliced(h, ms, r)
  PROVE  Before(y, BEGIN) = h
<1>1. /\ y \in Text(S) /\ \A i \in 1..Size(h) : At(y, i) = At(h, i)
  BY SplicedTokens
<1>2. Has(y, BEGIN) /\ First(y, BEGIN) = Size(h) + 1
  BY SplicedMarks DEF Marked
<1>3. Size(h) \in Nat /\ Size(h) + 1 - 1 = Size(h)
  BY Sizes
<1>4. /\ Before(y, BEGIN) \in Text(S) /\ Size(Before(y, BEGIN)) = Size(h)
      /\ \A i \in 1..Size(h) : At(Before(y, BEGIN), i) = At(y, i)
  BY <1>1, <1>2, <1>3, BeforeText
<1> QED
  BY <1>1, <1>4, SameText

\* A head loses nothing when its end is trimmed and set again.
LEMMA HeadSettles ==
  ASSUME NEW S, NL \in S, NEW h \in Text(S), IsHead(h)
  PROVE  IF Blank(h) THEN h = << >> ELSE Glue(TrimEnd(h), <<NL, NL>>) = h
<1> DEFINE gap == <<NL, NL>>
<1>1. gap \in Text(S) /\ Size(gap) = 2 /\ At(gap, 1) = NL /\ At(gap, 2) = NL
  BY DEF Text, Size, At
<1>2. Size(h) \in Nat
  BY Sizes
<1>3. CASE Size(h) = 0
  <2>1. Blank(h)
    BY <1>3, BlankText
  <2> QED
    BY <1>3, <2>1, EmptyText
<1>4. CASE Size(h) # 0
  <2> DEFINE n == Size(h) - 2
  <2>1. /\ ~Blank(h) /\ n \in 1..Size(h) /\ Size(h) = n + 2
        /\ At(h, n) # NL /\ At(h, n + 1) = NL /\ At(h, n + 2) = NL
    BY <1>2, <1>4 DEF IsHead
  <2> HIDE DEF n
  <2>2. n \in 0..Size(h) /\ \A i \in (n + 1)..Size(h) : At(h, i) = NL
    <3>1. \A i \in (n + 1)..Size(h) : i = n + 1 \/ i = n + 2
      BY <1>2, <2>1
    <3> QED
      BY <1>2, <2>1, <3>1
  <2>3. LastInk(h) = n
    BY <2>1, <2>2, LastInkAt
  <2>4. /\ TrimEnd(h) \in Text(S) /\ Size(TrimEnd(h)) = n
        /\ \A i \in 1..n : At(TrimEnd(h), i) = At(h, i)
    BY <2>3, TrimEndText
  <2> DEFINE again == Glue(TrimEnd(h), gap)
  <2> HIDE DEF gap
  <2>5. again \in Text(S) /\ Size(again) = n + 2
    BY <1>1, <2>4, GlueSize
  <2>6. \A i \in 1..n : At(again, i) = At(h, i)
    BY <1>1, <2>4, GlueLeft
  <2>7. At(again, n + 1) = NL /\ At(again, n + 2) = NL
    BY <1>1, <2>4, GlueRight
  <2> HIDE DEF again
  <2>8. \A i \in 1..Size(again) : i \in 1..n \/ i = n + 1 \/ i = n + 2
    BY <1>2, <2>1, <2>5
  <2>9. again = h
    BY <2>1, <2>5, <2>6, <2>7, <2>8, SameText
  <2> QED
    BY <2>1, <2>9 DEF again, gap
<1> QED
  BY <1>3, <1>4

LEMMA SplicedTail ==
  ASSUME NEW S, NEW ms, Spells(S, ms), NEW h \in Text(S), NEW r \in Text(S),
         IsHead(h), NEW y, y = Spliced(h, ms, r)
  PROVE  After(y, END) = Glue(<<NL>>, r)
<1> DEFINE a == After(y, END)
           e == <<NL>>
           b == Glue(e, r)
<1>1. /\ y \in Text(S) /\ Size(y) = Size(h) + 4 + Size(r) /\ At(y, Size(h) + 4) = NL
      /\ \A i \in 1..Size(r) : At(y, Size(h) + 4 + i) = At(r, i)
  BY SplicedTokens
<1>2. Has(y, END) /\ First(y, END) = Size(h) + 3
  BY SplicedMarks DEF Marked
<1>3. Size(h) \in Nat /\ Size(r) \in Nat
  BY Sizes
<1>4. /\ a \in Text(S) /\ Size(a) = Size(y) - (Size(h) + 3)
      /\ \A i \in 1..(Size(y) - (Size(h) + 3)) : At(a, i) = At(y, Size(h) + 3 + i)
  BY <1>1, <1>2, AfterText
<1>5. e \in Text(S) /\ Size(e) = 1 /\ At(e, 1) = NL
  BY DEF Text, Size, At, Spells
<1> HIDE DEF a, e
<1>6. b \in Text(S) /\ Size(b) = 1 + Size(r)
  BY <1>5, GlueSize
<1>7. At(b, 1) = NL
  BY <1>5, GlueLeft
<1>8. \A i \in 1..Size(r) : At(b, 1 + i) = At(r, i)
  BY <1>5, GlueRight
<1> HIDE DEF b
<1>9. Size(a) = 1 + Size(r) /\ \A i \in 1..(1 + Size(r)) : At(a, i) = At(y, Size(h) + 3 + i)
  BY <1>1, <1>3, <1>4
<1>10. At(a, 1) = NL
  BY <1>1, <1>3, <1>9
<1>11. \A i \in 1..Size(r) : At(a, 1 + i) = At(r, i)
  <2>1. \A i \in 1..Size(r) : 1 + i \in 1..(1 + Size(r)) /\ Size(h) + 3 + (1 + i) = Size(h) + 4 + i
    BY <1>3
  <2> QED
    BY <1>1, <1>9, <2>1
<1>12. \A i \in 1..Size(a) : i = 1 \/ \E j \in 1..Size(r) : i = 1 + j
  <2>1. \A i \in 1..Size(a) : i = 1 \/ (i - 1 \in 1..Size(r) /\ i = 1 + (i - 1))
    BY <1>3, <1>9
  <2> QED
    BY <2>1
<1>13. \A i \in 1..Size(a) : At(a, i) = At(b, i)
  BY <1>7, <1>8, <1>10, <1>11, <1>12
<1>14. a = b
  BY <1>4, <1>6, <1>9, <1>13, SameText
<1> QED
  BY <1>14 DEF a, b, e

LEMMA TailSettles ==
  ASSUME NEW S, NL \in S, NEW r \in Text(S), IsTail(r),
         NEW t, t = TrimStart(Glue(<<NL>>, r))
  PROVE  (IF t = << >> THEN << >> ELSE Glue(<<NL>>, t)) = r
<1> DEFINE e == <<NL>>
           a == Glue(e, r)
<1>1. e \in Text(S) /\ Size(e) = 1 /\ At(e, 1) = NL
  BY DEF Text, Size, At
<1>2. t = TrimStart(a)
  OBVIOUS
<1>3. Size(r) \in Nat
  BY Sizes
<1> HIDE DEF e
<1>4. a \in Text(S) /\ Size(a) = 1 + Size(r)
  BY <1>1, GlueSize
<1>5. At(a, 1) = NL
  BY <1>1, GlueLeft
<1>6. \A i \in 1..Size(r) : At(a, 1 + i) = At(r, i)
  BY <1>1, GlueRight
<1> HIDE DEF a
<1>7. CASE Size(r) = 0
  <2>1. LeadNL(a) = 1
    <3>1. 1 \in 0..Size(a) /\ 1 = Size(a) /\ \A i \in 1..1 : At(a, i) = NL
      BY <1>4, <1>5, <1>7
    <3> QED
      BY <1>4, <3>1, LeadNLAt
  <2>2. t \in Text(S) /\ Size(t) = 0
    BY <1>2, <1>4, <1>7, <2>1, TrimStartText
  <2> QED
    BY <1>7, <2>2, EmptyText
<1>8. CASE Size(r) # 0
  <2>1. Size(r) > 1 /\ At(r, 1) = NL /\ At(r, 2) # NL
    BY <1>8 DEF IsTail
  <2>2. 1 \in 1..Size(r) /\ 2 \in 1..Size(r)
    BY <1>3, <2>1
  <2>3. At(a, 1 + 1) = NL /\ At(a, 1 + 2) # NL
    BY <1>6, <2>1, <2>2
  <2>4. LeadNL(a) = 2
    <3>1. 2 \in 0..Size(a) /\ \A i \in 1..2 : i = 1 \/ i = 1 + 1
      BY <1>3, <1>4, <2>1
    <3>2. At(a, 2 + 1) # NL /\ \A i \in 1..2 : At(a, i) = NL
      BY <1>5, <2>3, <3>1
    <3> QED
      BY <1>4, <3>1, <3>2, LeadNLAt
  <2>5. t \in Text(S) /\ Size(t) = Size(a) - 2
    BY <1>2, <1>4, <2>4, TrimStartText
  <2>55. \A i \in 1..(Size(a) - 2) : At(t, i) = At(a, 2 + i)
    BY <1>2, <1>4, <2>4, TrimStartText
  <2>6. Size(t) \in Nat /\ Size(r) = 1 + Size(t) /\ Size(t) # 0
    BY <1>3, <1>4, <2>1, <2>5
  <2>7. \A i \in 1..Size(t) : At(t, i) = At(r, 1 + i)
    <3>1. \A i \in 1..Size(t) : 1 + i \in 1..Size(r) /\ 2 + i = 1 + (1 + i)
      BY <2>6
    <3> QED
      BY <1>6, <2>5, <2>55, <3>1
  <2> DEFINE b == Glue(e, t)
  <2>8. b \in Text(S) /\ Size(b) = 1 + Size(t)
    BY <1>1, <2>5, GlueSize
  <2>9. At(b, 1) = NL
    BY <1>1, <2>5, GlueLeft
  <2>10. \A i \in 1..Size(t) : At(b, 1 + i) = At(t, i)
    BY <1>1, <2>5, GlueRight
  <2> HIDE DEF b
  <2>11. \A i \in 1..Size(b) : i = 1 \/ \E j \in 1..Size(t) : i = 1 + j
    <3>1. \A i \in 1..Size(b) : i = 1 \/ (i - 1 \in 1..Size(t) /\ i = 1 + (i - 1))
      BY <2>6, <2>8
    <3> QED
      BY <3>1
  <2>12. \A i \in 1..Size(b) : At(b, i) = At(r, i)
    BY <2>1, <2>7, <2>9, <2>10, <2>11
  <2>13. b = r
    BY <2>6, <2>8, <2>12, SameText
  <2>14. t # << >>
    BY <2>6, EmptyText
  <2> QED
    BY <2>13, <2>14 DEF b, e
<1> QED
  BY <1>7, <1>8

\* Splicing a text that was spliced replaces the section and nothing else.
LEMMA SplicedAgain ==
  ASSUME NEW S, NEW ms, NEW ns, Spells(S, ms), NEW h \in Text(S), NEW r \in Text(S),
         IsHead(h), IsTail(r)
  PROVE  Compiled(Spliced(h, ms, r), ns) = Spliced(h, ns, r)
<1> DEFINE y == Spliced(h, ms, r)
           t == TrimStart(Glue(<<NL>>, r))
<1> HIDE DEF y
<1>1. Marked(y)
  BY SplicedMarks DEF y
<1>2. Before(y, BEGIN) = h
  BY SplicedHead DEF y
<1>3. After(y, END) = Glue(<<NL>>, r)
  BY SplicedTail DEF y
<1>4. NL \in S
  BY DEF Spells
<1>5. (IF Blank(h) THEN << >> ELSE TrimEnd(h) \o <<NL, NL>>) = h
  BY <1>4, HeadSettles DEF Glue
<1>6. (IF t = << >> THEN << >> ELSE <<NL>> \o t) = r
  BY <1>4, TailSettles DEF Glue
<1> HIDE DEF t
<1>7. Compiled(y, ns) = (IF Blank(h) THEN << >> ELSE TrimEnd(h) \o <<NL, NL>>)
                          \o Section(ns) \o (IF t = << >> THEN << >> ELSE <<NL>> \o t)
  BY <1>1, <1>2, <1>3 DEF Compiled, Splice, t
<1> QED
  BY <1>5, <1>6, <1>7 DEF y, Spliced, Glue

-----------------------------------------------------------------------------
\* Any tidy text becomes such a text: one with no marker, or whose first end
\* marker comes after its first begin marker.

Tidy(s) ==
  \/ ~Has(s, BEGIN) /\ ~Has(s, END)
  \/ Marked(s) /\ First(s, BEGIN) < First(s, END)

\* Text without markers, its end trimmed and set off, is a head.
LEMMA HeadShape ==
  ASSUME NEW S, NL \in S, NEW p \in Text(S),
         \A i \in 1..Size(p) : At(p, i) # BEGIN /\ At(p, i) # END,
         NEW h, h = IF Blank(p) THEN << >> ELSE Glue(TrimEnd(p), <<NL, NL>>)
  PROVE  h \in Text(S) /\ IsHead(h)
<1> DEFINE gap == <<NL, NL>>
           q == TrimEnd(p)
<1>1. gap \in Text(S) /\ Size(gap) = 2 /\ At(gap, 1) = NL /\ At(gap, 2) = NL
  BY DEF Text, Size, At
<1>2. CASE Blank(p)
  <2>1. h \in Text(S) /\ Size(h) = 0
    BY <1>2, EmptyText
  <2> QED
    BY <2>1 DEF IsHead
<1>3. CASE ~Blank(p)
  <2> DEFINE n == LastInk(p)
  <2>1. h = Glue(q, gap)
    BY <1>3
  <2> HIDE DEF gap
  <2>2. Size(p) \in Nat /\ n \in 0..Size(p) /\ (n = 0 \/ At(p, n) # NL)
    BY Sizes, TrimEndText
  <2>3. \A i \in (n + 1)..Size(p) : At(p, i) = NL
    BY TrimEndText
  <2>4. q \in Text(S) /\ Size(q) = n
    BY TrimEndText
  <2>5. \A i \in 1..n : At(q, i) = At(p, i)
    BY TrimEndText
  <2> HIDE DEF n, q
  <2>6. h \in Text(S) /\ Size(h) = n + 2
    BY <1>1, <2>1, <2>4, GlueSize
  <2>7. \A i \in 1..n : At(h, i) = At(q, i)
    BY <1>1, <2>1, <2>4, GlueLeft
  <2>8. At(h, n + 1) = NL /\ At(h, n + 2) = NL
    BY <1>1, <2>1, <2>4, GlueRight
  <2>9. PICK k \in 1..Size(p) : At(p, k) # NL /\ At(p, k) # SP
    BY <1>3, BlankText
  <2>10. k \in 1..n /\ n > 0
    BY <2>2, <2>3, <2>9
  <2>11. ~Blank(h)
    <3>1. k \in 1..Size(h) /\ At(h, k) = At(p, k)
      BY <2>2, <2>5, <2>6, <2>7, <2>10
    <3> QED
      BY <2>9, <3>1, BlankText
  <2>12. \A i \in 1..Size(h) : At(h, i) # BEGIN /\ At(h, i) # END
    <3>1. \A i \in 1..Size(h) : i \in 1..n \/ i = n + 1 \/ i = n + 2
      BY <2>2, <2>6
    <3>2. \A i \in 1..n : i \in 1..Size(p)
      BY <2>2
    <3> QED
      BY <2>5, <2>7, <2>8, <3>1, <3>2, TokensDiffer
  <2>13. /\ Size(h) > 2 /\ Size(h) - 2 = n /\ Size(h) - 1 = n + 1
         /\ n \in 1..n /\ Size(h) # 0
    BY <2>2, <2>6, <2>10
  <2>14. At(h, n) # NL
    BY <2>2, <2>5, <2>7, <2>10, <2>13
  <2> QED
    BY <2>6, <2>8, <2>11, <2>12, <2>13, <2>14 DEF IsHead
<1> QED
  BY <1>2, <1>3

LEMMA EmptyTail ==
  ASSUME NEW r, Size(r) = 0
  PROVE  IsTail(r)
BY DEF IsTail

\* Text with its leading line ends cut down to one is a tail.
LEMMA TailShape ==
  ASSUME NEW S, NL \in S, NEW a \in Text(S), NEW t, t = TrimStart(a),
         NEW r, r = IF t = << >> THEN << >> ELSE Glue(<<NL>>, t)
  PROVE  r \in Text(S) /\ IsTail(r)
<1> DEFINE e == <<NL>>
<1>1. e \in Text(S) /\ Size(e) = 1 /\ At(e, 1) = NL
  BY DEF Text, Size, At
<1>2. CASE t = << >>
  <2>1. r \in Text(S) /\ Size(r) = 0
    BY <1>2, EmptyText
  <2> QED
    BY <2>1, EmptyTail
<1>3. CASE t # << >>
  <2> DEFINE n == LeadNL(a)
  <2>1. r = Glue(e, t)
    BY <1>3
  <2> HIDE DEF e
  <2>2. t \in Text(S) /\ Size(t) = Size(a) - n
    BY TrimStartText
  <2>3. n \in 0..Size(a) /\ (n = Size(a) \/ At(a, n + 1) # NL) /\ Size(a) \in Nat
    BY Sizes, TrimStartText
  <2>4. \A i \in 1..(Size(a) - n) : At(t, i) = At(a, n + i)
    BY TrimStartText
  <2> HIDE DEF n
  <2>5. Size(t) # 0 /\ Size(t) \in Nat
    BY <1>3, <2>2, EmptyText, Sizes
  <2>6. 1 \in 1..(Size(a) - n) /\ 1 \in 1..Size(t) /\ n # Size(a)
    BY <2>2, <2>3, <2>5
  <2>7. At(t, 1) # NL
    BY <2>3, <2>4, <2>6
  <2>8. r \in Text(S) /\ Size(r) = 1 + Size(t)
    BY <1>1, <2>1, <2>2, GlueSize
  <2>9. At(r, 1) = NL
    BY <1>1, <2>1, <2>2, GlueLeft
  <2>10. At(r, 1 + 1) = At(t, 1)
    BY <1>1, <2>1, <2>2, <2>6, GlueRight
  <2>11. Size(r) > 1 /\ At(r, 2) # NL
    BY <2>5, <2>7, <2>8, <2>10
  <2> QED
    BY <2>8, <2>9, <2>11 DEF IsTail
<1> QED
  BY <1>2, <1>3

\* A head, the section and a tail: that is what splice leaves of a tidy text.
LEMMA SpliceShape ==
  ASSUME NEW S, NEW ms, Spells(S, ms), NEW s \in Text(S), Tidy(s)
  PROVE  \E h, r \in Text(S) : IsHead(h) /\ IsTail(r) /\ Compiled(s, ms) = Spliced(h, ms, r)
<1>1. NL \in S
  BY DEF Spells
<1>2. CASE Marked(s)
  <2> DEFINE p == Before(s, BEGIN)
             a == After(s, END)
             h == IF Blank(p) THEN << >> ELSE Glue(TrimEnd(p), <<NL, NL>>)
             t == TrimStart(a)
             r == IF t = << >> THEN << >> ELSE Glue(<<NL>>, t)
  <2>1. /\ Has(s, BEGIN) /\ Has(s, END) /\ First(s, BEGIN) < First(s, END)
    BY <1>2 DEF Marked, Tidy
  <2>2. /\ First(s, BEGIN) \in 1..Size(s)
        /\ \A j \in 1..(First(s, BEGIN) - 1) : At(s, j) # BEGIN
    BY <2>1, FirstPlace
  <2>3. /\ First(s, END) \in 1..Size(s)
        /\ \A j \in 1..(First(s, END) - 1) : At(s, j) # END
    BY <2>1, FirstPlace
  <2>4. p \in Text(S) /\ Size(p) = First(s, BEGIN) - 1
    BY <2>1, BeforeText
  <2>5. \A i \in 1..(First(s, BEGIN) - 1) : At(p, i) = At(s, i)
    BY <2>1, BeforeText
  <2>6. a \in Text(S)
    BY <2>1, AfterText
  <2>7. Size(s) \in Nat
    BY Sizes
  <2> HIDE DEF p, a
  <2>8. \A i \in 1..Size(p) : At(p, i) # BEGIN /\ At(p, i) # END
    <3>1. \A i \in 1..(First(s, BEGIN) - 1) : i \in 1..(First(s, END) - 1)
      BY <2>1, <2>2, <2>3, <2>7
    <3> QED
      BY <2>2, <2>3, <2>4, <2>5, <3>1
  <2>9. h \in Text(S) /\ IsHead(h)
    BY <1>1, <2>4, <2>8, HeadShape
  <2>10. r \in Text(S) /\ IsTail(r)
    BY <1>1, <2>6, TailShape
  <2>11. Compiled(s, ms) = h \o Section(ms) \o r
    BY <1>2 DEF Compiled, Splice, p, a, Glue
  <2> HIDE DEF h, r
  <2>12. Compiled(s, ms) = Spliced(h, ms, r)
    BY <2>11 DEF Spliced, Glue
  <2> QED
    BY <2>9, <2>10, <2>12
<1>3. CASE ~Marked(s)
  <2> DEFINE h == IF Blank(s) THEN << >> ELSE Glue(TrimEnd(s), <<NL, NL>>)
             none == << >>
  <2>1. ~Has(s, BEGIN) /\ ~Has(s, END)
    BY <1>3 DEF Tidy
  <2>2. \A i \in 1..Size(s) : At(s, i) # BEGIN /\ At(s, i) # END
    BY <2>1 DEF Has, Size, At
  <2>3. h \in Text(S) /\ IsHead(h)
    BY <1>1, <2>2, HeadShape
  <2>4. none \in Text(S) /\ IsTail(none)
    BY EmptyText, EmptyTail
  <2>5. Compiled(s, ms) = Glue(h, Section(ms))
    <3>1. CASE Blank(s)
      <4>1. Compiled(s, ms) = Section(ms) /\ h = << >>
        BY <1>3, <3>1 DEF Compiled, Splice
      <4>2. Section(ms) \in Seq(S)
        BY SectionText DEF Text
      <4>3. << >> \o Section(ms) = Section(ms)
        BY <4>2, ConcatEmptySeq
      <4> QED
        BY <4>1, <4>3 DEF Glue
    <3>2. CASE ~Blank(s)
      BY <1>3, <3>2 DEF Compiled, Splice, Glue
    <3> QED
      BY <3>1, <3>2
  <2> HIDE DEF h
  <2>6. Glue(h, Section(ms)) \in Text(S)
    BY <2>3, GlueSize, SectionText
  <2>7. Glue(Glue(h, Section(ms)), none) = Glue(h, Section(ms))
    BY <2>6, ConcatEmptySeq DEF Glue, Text
  <2> HIDE DEF none
  <2>8. Compiled(s, ms) = Spliced(h, ms, none)
    BY <2>5, <2>7 DEF Spliced
  <2> QED
    BY <2>3, <2>4, <2>8
<1> QED
  BY <1>2, <1>3

-----------------------------------------------------------------------------
\* "splice(splice(x)) == splice(x)": whatever the user wrote around the block,
\* compiling a second time changes nothing.
THEOREM SpliceSettles ==
  ASSUME NEW S, NEW ms, NEW s \in Seq(S), Tidy(s), Spells(S, ms)
  PROVE  Compiled(Compiled(s, ms), ms) = Compiled(s, ms)
<1>1. s \in Text(S)
  BY DEF Text
<1>2. PICK h \in Text(S), r \in Text(S) :
         IsHead(h) /\ IsTail(r) /\ Compiled(s, ms) = Spliced(h, ms, r)
  BY <1>1, SpliceShape
<1> QED
  BY <1>2, SplicedAgain

\* And after other memories were compiled in between, only the section differs:
\* the block of one compile does not depend on those before it.
THEOREM SpliceForgets ==
  ASSUME NEW S, NEW ms, NEW ns, NEW s \in Seq(S), Tidy(s), Spells(S, ms)
  PROVE  \E h, r \in Seq(S) : /\ Compiled(s, ms) = Spliced(h, ms, r)
                              /\ Compiled(Compiled(s, ms), ns) = Spliced(h, ns, r)
<1>1. s \in Text(S)
  BY DEF Text
<1>2. PICK h \in Text(S), r \in Text(S) :
         IsHead(h) /\ IsTail(r) /\ Compiled(s, ms) = Spliced(h, ms, r)
  BY <1>1, SpliceShape
<1>3. Compiled(Spliced(h, ms, r), ns) = Spliced(h, ns, r)
  BY <1>2, SplicedAgain
<1> QED
  BY <1>2, <1>3 DEF Text

\* The compiled text is tidy, shows the memories it was compiled from, and has no
\* second block before the one it shows.
THEOREM SpliceShows ==
  ASSUME NEW S, NEW ms, NEW s \in Seq(S), Tidy(s), Spells(S, ms)
  PROVE  Tidy(Compiled(s, ms)) /\ Shows(Compiled(s, ms), ms)
<1>1. s \in Text(S)
  BY DEF Text
<1>2. PICK h \in Text(S), r \in Text(S) :
         IsHead(h) /\ IsTail(r) /\ Compiled(s, ms) = Spliced(h, ms, r)
  BY <1>1, SpliceShape
<1> DEFINE y == Compiled(s, ms)
<1> HIDE DEF y
<1>3. Marked(y) /\ First(y, BEGIN) = Size(h) + 1 /\ First(y, END) = Size(h) + 3
  BY <1>2, SplicedMarks DEF y
<1>4. /\ y \in Text(S) /\ Size(y) = Size(h) + 4 + Size(r)
      /\ At(y, Size(h) + 1) = BEGIN /\ At(y, Size(h) + 2) = Body(ms)
      /\ At(y, Size(h) + 3) = END
  BY <1>2, SplicedTokens DEF y
<1>5. Size(h) \in Nat /\ Size(r) \in Nat
  BY Sizes
<1>6. Tidy(y)
  BY <1>3, <1>5 DEF Tidy
<1>7. SubSeq(y, Size(h) + 1, Size(h) + 3) = <<BEGIN, Body(ms), END>>
  <2> DEFINE m == Size(h) + 1
             n == Size(h) + 3
  <2>1. m \in Int /\ n \in Int /\ n - m + 1 = 3 /\ m <= n /\ m + 1 = Size(h) + 2 /\ m + 2 = n
    BY <1>5
  <2>2. y[m] = BEGIN /\ y[m + 1] = Body(ms) /\ y[m + 2] = END
    BY <1>4, <2>1 DEF At
  <2>3. \A i \in m..n : i = m \/ i = m + 1 \/ i = m + 2
    BY <2>1
  <2>4. \A i \in m..n : y[i] \in S
    BY <2>2, <2>3 DEF Spells
  <2> DEFINE z == SubSeq(y, m, n)
  <2> HIDE DEF m, n
  <2>5. /\ z \in Seq(S) /\ Len(z) = IF m <= n THEN n - m + 1 ELSE 0
        /\ \A i \in 1..(n - m + 1) : z[i] = y[m + i - 1]
    BY <2>1, <2>4, SubSeqProperties
  <2> HIDE DEF z
  <2>6. Len(z) = 3 /\ \A i \in 1..3 : z[i] = y[m + i - 1]
    BY <2>1, <2>5
  <2>7. m + 1 - 1 = m /\ m + 2 - 1 = m + 1 /\ m + 3 - 1 = m + 2
    BY <2>1
  <2>8. z[1] = y[m] /\ z[2] = y[m + 1] /\ z[3] = y[m + 2]
    BY <2>6, <2>7
  <2>9. z \in Seq(S) /\ z[1] = BEGIN /\ z[2] = Body(ms) /\ z[3] = END
    BY <2>2, <2>5, <2>8
  <2>10. z = <<BEGIN, Body(ms), END>>
    BY <2>6, <2>9
  <2> QED
    BY <2>10 DEF z, m, n
<1> QED
  BY <1>3, <1>6, <1>7 DEF Shows, y
-----------------------------------------------------------------------------
\* Well-formed texts, by their tokens.

LEMMA TokensPlain ==
  /\ NL \in Tokens /\ SP \in Tokens /\ \A w \in Words : Word(w) \in Tokens
  /\ \A t \in Tokens : t # BEGIN /\ t # END /\ \A ms : t # Body(ms)
  /\ \A ms, ns : Body(ms) = Body(ns) => ms = ns
  /\ \A w : Word(w) # NL /\ Word(w) # SP /\ Word(w) # BEGIN /\ Word(w) # END
  /\ \A w, ms : Word(w) # Body(ms)
  /\ \A v, w : Word(v) = Word(w) => v = w
<1>1. \A w : Word(w) # NL /\ Word(w) # SP /\ Word(w) # BEGIN /\ Word(w) # END
  BY DEF Word, NL, SP, BEGIN, END
<1>2. \A w, ms : Word(w) # Body(ms)
  BY DEF Word, Body
<1>3. \A v, w : Word(v) = Word(w) => v = w
  BY DEF Word
<1>4. \A ms, ns : Body(ms) = Body(ns) => ms = ns
  BY DEF Body
<1>5. \A ms : SP # Body(ms)
  BY DEF SP, Body
<1>6. \A t : t \in Tokens <=> t = NL \/ t = SP \/ \E w \in Words : t = Word(w)
  BY DEF Tokens
<1> QED
  BY <1>1, <1>2, <1>3, <1>4, <1>5, <1>6, TokensDiffer

LEMMA TextsWithin ==
  ASSUME NEW S, NEW T, S \subseteq T, NEW s \in Text(S)
  PROVE  s \in Text(T)
<1>1. s \in Seq(S) /\ Len(s) \in Nat /\ \A i \in 1..Len(s) : s[i] \in S
  BY ElementOfSeq, LenProperties DEF Text
<1> QED
  BY <1>1 DEF Text

LEMMA TokenOf ==
  ASSUME NEW S, NEW s \in Text(S), NEW i \in 1..Size(s)
  PROVE  At(s, i) \in S
BY ElementOfSeq DEF Text, Size, At

LEMMA TextFrom ==
  ASSUME NEW S, NEW T, NEW s \in Text(S), \A i \in 1..Size(s) : At(s, i) \in T
  PROVE  s \in Text(T)
<1>1. s \in Seq(S) /\ Len(s) \in Nat /\ \A i \in 1..Len(s) : s[i] \in T
  BY LenProperties DEF Text, Size, At
<1>2. s = [i \in 1..Len(s) |-> s[i]]
  BY <1>1
<1>3. [i \in 1..Len(s) |-> s[i]] \in Seq(T)
  BY <1>1
<1> QED
  BY <1>2, <1>3 DEF Text

\* What the definitions say in terms of sizes and places.
HasBlock(s, i, ms) ==
  /\ i \in 1..(Size(s) - 2)
  /\ At(s, i) = BEGIN /\ At(s, i + 1) = Body(ms) /\ At(s, i + 2) = END
  /\ \A j \in 1..Size(s) : j < i \/ j > i + 2 => At(s, j) \in Tokens

LEMMA BlockPlaces ==
  ASSUME NEW S, NEW s \in Text(S), NEW i \in 1..(Size(s) - 2), NEW ms
  PROVE  BlockAt(s, i, ms) <=> HasBlock(s, i, ms)
<1>1. Len(s) \in Nat /\ i \in 1..(Len(s) - 2)
  BY Sizes DEF Size
<1>2. \A j \in 1..Len(s) : j \in (1..Len(s)) \ (i..(i + 2)) <=> j < i \/ j > i + 2
  BY <1>1
<1> QED
  BY <1>1, <1>2 DEF BlockAt, HasBlock, Size, At

Singly(s) ==
  \A i, j \in 1..Size(s), w \in Words : At(s, i) = Word(w) /\ At(s, j) = Word(w) => i = j

LEMMA FormedPlaces ==
  ASSUME NEW s
  PROVE  WellFormed(s) <=>
           /\ s \in Text(Alphabet) /\ Singly(s)
           /\ s \in Text(Tokens) \/ \E i \in Nat, ms \in SUBSET Memories : HasBlock(s, i, ms)
<1>1. Once(s) <=> Singly(s)
  BY DEF Once, Singly, Size, At
<1>2. s \in Text(Alphabet) =>
        \A i, ms : i \in 1..(Len(s) - 2) /\ BlockAt(s, i, ms) <=> i \in Nat /\ HasBlock(s, i, ms)
  <2> SUFFICES ASSUME s \in Text(Alphabet), NEW i, NEW ms
               PROVE  i \in 1..(Len(s) - 2) /\ BlockAt(s, i, ms) <=> i \in Nat /\ HasBlock(s, i, ms)
    OBVIOUS
  <2>1. Size(s) \in Nat /\ Size(s) = Len(s)
    BY Sizes DEF Size
  <2>2. i \in 1..(Size(s) - 2) => i \in Nat
    BY <2>1
  <2> QED
    BY <2>1, <2>2, BlockPlaces DEF HasBlock
<1>3. (\E i \in 1..(Len(s) - 2), ms \in SUBSET Memories : BlockAt(s, i, ms)) <=>
      (\E i, ms : i \in 1..(Len(s) - 2) /\ ms \in SUBSET Memories /\ BlockAt(s, i, ms))
  OBVIOUS
<1>4. (\E i \in Nat, ms \in SUBSET Memories : HasBlock(s, i, ms)) <=>
      (\E i, ms : i \in Nat /\ ms \in SUBSET Memories /\ HasBlock(s, i, ms))
  OBVIOUS
<1> QED
  BY <1>1, <1>2, <1>3, <1>4 DEF WellFormed, Text

LEMMA PlainMarks ==
  ASSUME NEW s \in Text(Tokens)
  PROVE  ~Has(s, BEGIN) /\ ~Has(s, END) /\ ~Marked(s)
<1>1. \A i \in 1..Size(s) : At(s, i) # BEGIN /\ At(s, i) # END
  BY TokenOf, TokensPlain
<1> QED
  BY <1>1 DEF Has, Marked, Size, At

LEMMA BlockMarks ==
  ASSUME NEW S, NEW s \in Text(S), NEW i \in Nat, NEW ms, HasBlock(s, i, ms)
  PROVE  /\ Marked(s) /\ Has(s, BEGIN) /\ First(s, BEGIN) = i
         /\ Has(s, END) /\ First(s, END) = i + 2
<1> DEFINE n == i + 2
<1>1. Size(s) \in Nat /\ i \in 1..Size(s) /\ n \in 1..Size(s)
  BY Sizes DEF HasBlock
<1>2. \A j \in 1..(i - 1) : At(s, j) # BEGIN /\ At(s, j) # END
  <2>1. \A j \in 1..(i - 1) : j \in 1..Size(s) /\ j < i
    BY <1>1
  <2> QED
    BY <2>1, TokensPlain DEF HasBlock
<1>3. Has(s, BEGIN) /\ First(s, BEGIN) = i
  BY <1>1, <1>2, FirstAt DEF HasBlock
<1>4. \A j \in 1..(n - 1) : At(s, j) # END
  <2>1. \A j \in 1..(n - 1) : j \in 1..(i - 1) \/ j = i \/ j = i + 1
    BY <1>1
  <2> QED
    BY <1>2, <2>1, TokensDiffer DEF HasBlock
<1>5. At(s, n) = END
  BY DEF HasBlock
<1> HIDE DEF n
<1>6. Has(s, END) /\ First(s, END) = n
  BY <1>1, <1>4, <1>5, FirstAt
<1> QED
  BY <1>3, <1>6 DEF Marked, n

\* What stands at three places in a row.
LEMMA ThreeTokens ==
  ASSUME NEW S, NEW s \in Text(S), NEW i \in 1..(Size(s) - 2)
  PROVE  SubSeq(s, i, i + 2) = <<At(s, i), At(s, i + 1), At(s, i + 2)>>
<1> DEFINE n == i + 2
           z == SubSeq(s, i, n)
<1>1. s \in Seq(S) /\ Len(s) \in Nat /\ i \in 1..(Len(s) - 2)
  BY LenProperties DEF Text, Size
<1>2. i \in Int /\ n \in Int /\ n - i + 1 = 3 /\ i <= n /\ \A j \in i..n : j \in 1..Len(s)
  BY <1>1
<1>3. \A j \in i..n : s[j] \in S
  BY <1>1, <1>2, ElementOfSeq
<1> HIDE DEF n
<1>4. /\ z \in Seq(S) /\ Len(z) = (IF i <= n THEN n - i + 1 ELSE 0)
      /\ \A j \in 1..(n - i + 1) : z[j] = s[i + j - 1]
  BY <1>2, <1>3, SubSeqProperties
<1> HIDE DEF z
<1>5. Len(z) = 3 /\ \A j \in 1..3 : z[j] = s[i + j - 1]
  BY <1>2, <1>4
<1>6. i + 1 - 1 = i /\ i + 2 - 1 = i + 1 /\ i + 3 - 1 = i + 2
  BY <1>1
<1>7. z[1] = s[i] /\ z[2] = s[i + 1] /\ z[3] = s[i + 2]
  BY <1>5, <1>6
<1>8. z = <<z[1], z[2], z[3]>>
  BY <1>4, <1>5
<1>9. z = <<At(s, i), At(s, i + 1), At(s, i + 2)>>
  BY <1>7, <1>8 DEF At
<1> QED
  BY <1>9 DEF z, n

LEMMA BlockShown ==
  ASSUME NEW S, NEW s \in Text(S), NEW i \in Nat, NEW ms, HasBlock(s, i, ms), NEW ns
  PROVE  Shows(s, ns) <=> ns = ms
<1>1. SubSeq(s, i, i + 2) = <<BEGIN, Body(ms), END>>
  BY ThreeTokens DEF HasBlock
<1>2. Shows(s, ns) <=> SubSeq(s, i, i + 2) = <<BEGIN, Body(ns), END>>
  BY BlockMarks DEF Shows
<1>3. <<BEGIN, Body(ms), END>> = <<BEGIN, Body(ns), END>> <=> Body(ms) = Body(ns)
  OBVIOUS
<1> QED
  BY <1>1, <1>2, <1>3, TokensPlain

\* A well-formed text shows a set of memories if it has their block.
LEMMA ShownBlock ==
  ASSUME NEW s, WellFormed(s), NEW ms, Shows(s, ms)
  PROVE  \E i \in Nat : HasBlock(s, i, ms)
<1>1. s \in Text(Alphabet)
  BY FormedPlaces
<1>2. s \notin Text(Tokens)
  BY PlainMarks DEF Shows
<1>3. PICK i \in Nat, ns \in SUBSET Memories : HasBlock(s, i, ns)
  BY <1>2, FormedPlaces
<1>4. ms = ns
  BY <1>1, <1>3, BlockShown
<1> QED
  BY <1>3, <1>4

\* Edits that leave at most one block leave the text tidy.
LEMMA WellFormedIsTidy ==
  ASSUME NEW s, WellFormed(s)
  PROVE  Tidy(s)
<1>1. CASE s \in Text(Tokens)
  BY <1>1, PlainMarks DEF Tidy
<1>2. CASE s \notin Text(Tokens)
  <2>1. PICK i \in Nat, ms \in SUBSET Memories : HasBlock(s, i, ms)
    BY <1>2, FormedPlaces
  <2>2. s \in Text(Alphabet)
    BY FormedPlaces
  <2>3. Marked(s) /\ First(s, BEGIN) = i /\ First(s, END) = i + 2
    BY <2>1, <2>2, BlockMarks
  <2> QED
    BY <2>3 DEF Tidy
<1> QED
  BY <1>1, <1>2

-----------------------------------------------------------------------------
\* The words of a text, and of two texts put together.

LEMMA HasPlaces ==
  ASSUME NEW s, NEW token
  PROVE  Has(s, token) <=> \E i \in 1..Size(s) : At(s, i) = token
BY DEF Has, Size, At

LEMMA GlueAt ==
  ASSUME NEW S, NEW s \in Text(S), NEW t \in Text(S), NEW i \in 1..(Size(s) + Size(t))
  PROVE  \/ i \in 1..Size(s) /\ At(Glue(s, t), i) = At(s, i)
         \/ i - Size(s) \in 1..Size(t) /\ At(Glue(s, t), i) = At(t, i - Size(s))
<1> DEFINE j == i - Size(s)
<1>1. Size(s) \in Nat /\ Size(t) \in Nat
  BY Sizes
<1>2. CASE i \in 1..Size(s)
  BY <1>2, GlueLeft
<1>3. CASE i \notin 1..Size(s)
  <2>1. j \in 1..Size(t) /\ Size(s) + j = i
    BY <1>1, <1>3
  <2> HIDE DEF j
  <2>2. At(Glue(s, t), Size(s) + j) = At(t, j)
    BY <2>1, GlueRight
  <2>3. At(Glue(s, t), i) = At(t, j)
    BY <2>1, <2>2
  <2> QED
    BY <2>1, <2>3 DEF j
<1> QED
  BY <1>2, <1>3

LEMMA GlueHas ==
  ASSUME NEW S, NEW s \in Text(S), NEW t \in Text(S), NEW token
  PROVE  Has(Glue(s, t), token) <=> Has(s, token) \/ Has(t, token)
<1> DEFINE y == Glue(s, t)
<1>1. Size(s) \in Nat /\ Size(t) \in Nat /\ Size(y) = Size(s) + Size(t)
  BY Sizes, GlueSize
<1>2. ASSUME NEW i \in 1..Size(y), At(y, i) = token
      PROVE  Has(s, token) \/ Has(t, token)
  BY <1>1, <1>2, GlueAt, HasPlaces
<1>3. ASSUME NEW i \in 1..Size(s), At(s, i) = token PROVE Has(y, token)
  <2>1. i \in 1..Size(y) /\ At(y, i) = token
    BY <1>1, <1>3, GlueLeft
  <2> QED
    BY <2>1, HasPlaces
<1>4. ASSUME NEW i \in 1..Size(t), At(t, i) = token PROVE Has(y, token)
  <2>1. Size(s) + i \in 1..Size(y) /\ At(y, Size(s) + i) = token
    BY <1>1, <1>4, GlueRight
  <2> QED
    BY <2>1, HasPlaces
<1> QED
  BY <1>2, <1>3, <1>4, HasPlaces

LEMMA GlueWords ==
  ASSUME NEW S, NEW s \in Text(S), NEW t \in Text(S)
  PROVE  WordsOf(Glue(s, t)) = WordsOf(s) \cup WordsOf(t)
BY GlueHas DEF WordsOf

LEMMA GlueSingly ==
  ASSUME NEW S, NEW s \in Text(S), NEW t \in Text(S)
  PROVE  Singly(Glue(s, t)) <=> Singly(s) /\ Singly(t) /\ WordsOf(s) \cap WordsOf(t) = {}
<1> DEFINE y == Glue(s, t)
<1>1. Size(s) \in Nat /\ Size(t) \in Nat /\ Size(y) = Size(s) + Size(t)
  BY Sizes, GlueSize
<1> HIDE DEF y
<1>2. ASSUME Singly(y) PROVE Singly(s)
  <2> SUFFICES ASSUME NEW i \in 1..Size(s), NEW j \in 1..Size(s), NEW w \in Words,
                      At(s, i) = Word(w), At(s, j) = Word(w)
               PROVE  i = j
    BY DEF Singly
  <2>1. i \in 1..Size(y) /\ j \in 1..Size(y)
    BY <1>1
  <2>2. At(y, i) = Word(w) /\ At(y, j) = Word(w)
    BY GlueLeft DEF y
  <2> QED
    BY <1>2, <2>1, <2>2 DEF Singly
<1>3. ASSUME Singly(y) PROVE Singly(t)
  <2> SUFFICES ASSUME NEW i \in 1..Size(t), NEW j \in 1..Size(t), NEW w \in Words,
                      At(t, i) = Word(w), At(t, j) = Word(w)
               PROVE  i = j
    BY DEF Singly
  <2>1. Size(s) + i \in 1..Size(y) /\ Size(s) + j \in 1..Size(y)
    BY <1>1
  <2>2. At(y, Size(s) + i) = Word(w) /\ At(y, Size(s) + j) = Word(w)
    BY GlueRight DEF y
  <2>3. Size(s) + i = Size(s) + j
    BY <1>3, <2>1, <2>2 DEF Singly
  <2> QED
    BY <1>1, <2>3
<1>4. ASSUME Singly(y) PROVE WordsOf(s) \cap WordsOf(t) = {}
  <2> SUFFICES ASSUME NEW w \in Words, Has(s, Word(w)), Has(t, Word(w)) PROVE FALSE
    BY DEF WordsOf
  <2>1. PICK i \in 1..Size(s) : At(s, i) = Word(w)
    BY HasPlaces
  <2>2. PICK j \in 1..Size(t) : At(t, j) = Word(w)
    BY HasPlaces
  <2>3. i \in 1..Size(y) /\ Size(s) + j \in 1..Size(y) /\ i # Size(s) + j
    BY <1>1
  <2>4. At(y, i) = Word(w) /\ At(y, Size(s) + j) = Word(w)
    BY <2>1, <2>2, GlueLeft, GlueRight DEF y
  <2> QED
    BY <1>4, <2>3, <2>4 DEF Singly
<1>5. ASSUME Singly(s), Singly(t), WordsOf(s) \cap WordsOf(t) = {} PROVE Singly(y)
  <2> SUFFICES ASSUME NEW i \in 1..Size(y), NEW j \in 1..Size(y), NEW w \in Words,
                      At(y, i) = Word(w), At(y, j) = Word(w)
               PROVE  i = j
    BY DEF Singly
  <2> DEFINE k == i - Size(s)
             l == j - Size(s)
  <2>1. \/ i \in 1..Size(s) /\ At(s, i) = Word(w)
        \/ k \in 1..Size(t) /\ At(t, k) = Word(w)
    BY <1>1, GlueAt DEF y
  <2>2. \/ j \in 1..Size(s) /\ At(s, j) = Word(w)
        \/ l \in 1..Size(t) /\ At(t, l) = Word(w)
    BY <1>1, GlueAt DEF y
  <2>3. k = l => i = j
    BY <1>1
  <2> HIDE DEF k, l
  <2>4. ~(Has(s, Word(w)) /\ Has(t, Word(w)))
    BY <1>5 DEF WordsOf
  <2>5. \/ i \in 1..Size(s) /\ At(s, i) = Word(w) /\ j \in 1..Size(s) /\ At(s, j) = Word(w)
        \/ k \in 1..Size(t) /\ At(t, k) = Word(w) /\ l \in 1..Size(t) /\ At(t, l) = Word(w)
    BY <2>1, <2>2, <2>4, HasPlaces
  <2> QED
    BY <1>5, <2>3, <2>5 DEF Singly
<1> QED
  BY <1>2, <1>3, <1>4, <1>5 DEF y

\* Text in which the user wrote no word.
LEMMA Wordless ==
  ASSUME NEW s, \A i \in 1..Size(s) : \A w : At(s, i) # Word(w)
  PROVE  WordsOf(s) = {} /\ Singly(s)
BY HasPlaces DEF WordsOf, Singly

\* A text is what stands up to a place and what stands after it.
LEMMA Halves ==
  ASSUME NEW S, NEW s \in Text(S), NEW n \in 0..Size(s)
  PROVE  s = Glue(SubSeq(s, 1, n), SubSeq(s, n + 1, Len(s)))
<1> DEFINE p == SubSeq(s, 1, n)
           q == SubSeq(s, n + 1, Len(s))
<1>1. p \in Text(S) /\ Size(p) = n /\ \A i \in 1..n : At(p, i) = At(s, i)
  BY Prefix
<1>2. q \in Text(S) /\ Size(q) = Size(s) - n /\ \A i \in 1..(Size(s) - n) : At(q, i) = At(s, n + i)
  BY Suffix
<1> HIDE DEF p, q
<1>3. Size(s) \in Nat /\ n \in Nat /\ n <= Size(s)
  BY Sizes
<1>4. Glue(p, q) \in Text(S) /\ Size(Glue(p, q)) = Size(s)
  BY <1>1, <1>2, <1>3, GlueSize
<1>5. \A i \in 1..Size(s) : At(s, i) = At(Glue(p, q), i)
  <2> TAKE i \in 1..Size(s)
  <2>1. \/ i \in 1..n /\ At(Glue(p, q), i) = At(p, i)
        \/ i - n \in 1..(Size(s) - n) /\ At(Glue(p, q), i) = At(q, i - n)
    BY <1>1, <1>2, <1>3, GlueAt
  <2>2. n + (i - n) = i
    BY <1>3
  <2> QED
    BY <1>1, <1>2, <2>1, <2>2
<1>6. s = Glue(p, q)
  BY <1>4, <1>5, SameText
<1> QED
  BY <1>6 DEF p, q

\* A token more, or one less.
Inserted(s, i, token) == SubSeq(s, 1, i) \o <<token>> \o SubSeq(s, i + 1, Len(s))
Deleted(s, i) == SubSeq(s, 1, i - 1) \o SubSeq(s, i + 1, Len(s))

LEMMA InsertedTokens ==
  ASSUME NEW S, NEW s \in Text(S), NEW i \in 0..Size(s), NEW token \in S,
         NEW y, y = Inserted(s, i, token)
  PROVE  /\ y \in Text(S) /\ Size(y) = Size(s) + 1
         /\ \A j \in 1..i : At(y, j) = At(s, j)
         /\ At(y, i + 1) = token
         /\ \A j \in (i + 2)..Size(y) : At(y, j) = At(s, j - 1)
<1> DEFINE p == SubSeq(s, 1, i)
           q == SubSeq(s, i + 1, Len(s))
           e == <<token>>
           pe == Glue(p, e)
<1>1. p \in Text(S) /\ Size(p) = i /\ \A j \in 1..i : At(p, j) = At(s, j)
  BY Prefix
<1>2. q \in Text(S) /\ Size(q) = Size(s) - i /\ \A j \in 1..(Size(s) - i) : At(q, j) = At(s, i + j)
  BY Suffix
<1>3. e \in Text(S) /\ Size(e) = 1 /\ At(e, 1) = token
  BY DEF Text, Size, At
<1>4. y = Glue(pe, q)
  BY DEF Inserted, Glue
<1> HIDE DEF p, q, e
<1>5. Size(s) \in Nat /\ i \in Nat /\ i <= Size(s)
  BY Sizes
<1>6. pe \in Text(S) /\ Size(pe) = i + 1
  BY <1>1, <1>3, GlueSize
<1>7. \A j \in 1..i : At(pe, j) = At(p, j)
  BY <1>1, <1>3, GlueLeft
<1>8. At(pe, i + 1) = token
  BY <1>1, <1>3, GlueRight
<1> HIDE DEF pe
<1>9. y \in Text(S) /\ Size(y) = Size(s) + 1
  BY <1>2, <1>4, <1>5, <1>6, GlueSize
<1>10. \A j \in 1..(i + 1) : At(y, j) = At(pe, j)
  BY <1>2, <1>4, <1>6, GlueLeft
<1>11. \A j \in (i + 2)..Size(y) : At(y, j) = At(s, j - 1)
  <2> TAKE j \in (i + 2)..Size(y)
  <2> DEFINE k == j - i - 1
  <2>1. k \in 1..(Size(s) - i) /\ i + 1 + k = j /\ i + k = j - 1
    BY <1>5, <1>9
  <2> HIDE DEF k
  <2>2. At(y, i + 1 + k) = At(q, k)
    BY <1>2, <1>4, <1>6, <2>1, GlueRight
  <2>3. At(q, k) = At(s, i + k)
    BY <1>2, <2>1
  <2> QED
    BY <2>1, <2>2, <2>3
<1>12. \A j \in 1..i : j \in 1..(i + 1)
  BY <1>5
<1>13. i + 1 \in 1..(i + 1)
  BY <1>5
<1> QED
  BY <1>1, <1>7, <1>8, <1>9, <1>10, <1>11, <1>12, <1>13

LEMMA DeletedTokens ==
  ASSUME NEW S, NEW s \in Text(S), NEW i \in 1..Size(s), NEW y, y = Deleted(s, i)
  PROVE  /\ y \in Text(S) /\ Size(y) = Size(s) - 1
         /\ \A j \in 1..(i - 1) : At(y, j) = At(s, j)
         /\ \A j \in i..Size(y) : At(y, j) = At(s, j + 1)
<1> DEFINE n == i - 1
           p == SubSeq(s, 1, n)
           q == SubSeq(s, i + 1, Len(s))
<1>1. Size(s) \in Nat /\ i \in Nat /\ n \in 0..Size(s) /\ i \in 0..Size(s)
  BY Sizes
<1>2. q \in Text(S) /\ Size(q) = Size(s) - i /\ \A j \in 1..(Size(s) - i) : At(q, j) = At(s, i + j)
  BY <1>1, Suffix
<1>3. y = Glue(p, q)
  BY DEF Deleted, Glue
<1> HIDE DEF n, q
<1>4. p \in Text(S) /\ Size(p) = n /\ \A j \in 1..n : At(p, j) = At(s, j)
  BY <1>1, Prefix
<1> HIDE DEF p
<1>5. y \in Text(S) /\ Size(y) = Size(s) - 1
  BY <1>1, <1>2, <1>3, <1>4, GlueSize DEF n
<1>6. \A j \in 1..n : At(y, j) = At(s, j)
  BY <1>2, <1>3, <1>4, GlueLeft
<1>7. \A j \in i..Size(y) : At(y, j) = At(s, j + 1)
  <2> TAKE j \in i..Size(y)
  <2> DEFINE k == j - n
  <2>1. k \in 1..(Size(s) - i) /\ n + k = j /\ i + k = j + 1
    BY <1>1, <1>5 DEF n
  <2> HIDE DEF k
  <2>2. At(y, n + k) = At(q, k)
    BY <1>2, <1>3, <1>4, <2>1, GlueRight
  <2>3. At(q, k) = At(s, i + k)
    BY <1>2, <2>1
  <2> QED
    BY <2>1, <2>2, <2>3
<1> QED
  BY <1>5, <1>6, <1>7 DEF n

\* A user who types outside the markers leaves the text well formed, and its block as
\* it is.
LEMMA InsertKeeps ==
  ASSUME NEW s, WellFormed(s), NEW i \in 0..Size(s), NEW token \in Tokens,
         Marked(s) => i < First(s, BEGIN) \/ i >= First(s, END),
         ~(\E w \in Words : token = Word(w) /\ Has(s, token)),
         NEW y, y = Inserted(s, i, token)
  PROVE  WellFormed(y) /\ \A ms : Shows(s, ms) => Shows(y, ms)
<1>1. s \in Text(Alphabet) /\ Singly(s) /\ Size(s) \in Nat
  BY FormedPlaces, Sizes
<1>2. token \in Alphabet
  BY DEF Alphabet
<1>3. /\ y \in Text(Alphabet) /\ Size(y) = Size(s) + 1
      /\ \A j \in 1..i : At(y, j) = At(s, j)
      /\ At(y, i + 1) = token
      /\ \A j \in (i + 2)..Size(y) : At(y, j) = At(s, j - 1)
  BY <1>1, <1>2, InsertedTokens
<1>4. ASSUME NEW j \in 1..Size(y)
      PROVE  \/ j \in 1..i /\ j \in 1..Size(s) /\ At(y, j) = At(s, j)
             \/ j = i + 1
             \/ j \in (i + 2)..Size(y) /\ j - 1 \in 1..Size(s) /\ At(y, j) = At(s, j - 1)
  <2>1. j \in 1..i \/ j = i + 1 \/ j \in (i + 2)..Size(y)
    BY <1>1, <1>3
  <2>2. j \in 1..i => j \in 1..Size(s)
    BY <1>1
  <2>3. j \in (i + 2)..Size(y) => j - 1 \in 1..Size(s)
    BY <1>1, <1>3
  <2> QED
    BY <1>3, <2>1, <2>2, <2>3
<1>5. Singly(y)
  <2> SUFFICES ASSUME NEW j \in 1..Size(y), NEW k \in 1..Size(y), NEW w \in Words,
                      At(y, j) = Word(w), At(y, k) = Word(w)
               PROVE  j = k
    BY DEF Singly
  <2>1. token = Word(w) => \A n \in 1..Size(s) : At(s, n) # Word(w)
    BY HasPlaces
  <2>2. (j = i + 1 /\ k = i + 1) \/ ~(j = i + 1 \/ k = i + 1)
    BY <1>3, <1>4, <2>1
  <2>3. CASE ~(j = i + 1 \/ k = i + 1)
    <3> DEFINE g(n) == IF n \in 1..i THEN n ELSE n - 1
    <3>1. g(j) \in 1..Size(s) /\ At(s, g(j)) = Word(w) /\ g(k) \in 1..Size(s) /\ At(s, g(k)) = Word(w)
      <4>1. \A n \in (i + 2)..Size(y) : n \notin 1..i
        BY <1>1
      <4> QED
        BY <1>4, <2>3, <4>1
    <3>2. g(j) = g(k)
      <4> HIDE DEF g
      <4> QED
        BY <1>1, <3>1 DEF Singly
    <3> QED
      BY <1>1, <2>3, <3>2
  <2> QED
    BY <2>2, <2>3
<1>6. s \in Text(Tokens) => y \in Text(Tokens)
  BY InsertedTokens
<1>7. ASSUME NEW k \in Nat, NEW ms, HasBlock(s, k, ms)
      PROVE  \E n \in Nat : HasBlock(y, n, ms)
  <2>1. i < k \/ i >= k + 2
    BY <1>1, <1>7, BlockMarks
  <2>2. k \in 1..(Size(s) - 2)
    BY <1>7 DEF HasBlock
  <2>3. CASE i < k
    <3> DEFINE n == k + 1
    <3>1. /\ n \in 1..(Size(y) - 2) /\ n \in (i + 2)..Size(y) /\ n + 1 \in (i + 2)..Size(y)
          /\ n + 2 \in (i + 2)..Size(y) /\ n - 1 = k /\ n + 1 - 1 = k + 1 /\ n + 2 - 1 = k + 2
      BY <1>1, <1>3, <2>2, <2>3
    <3>2. \A j \in 1..Size(y) : j < n \/ j > n + 2 => At(y, j) \in Tokens
      <4> SUFFICES ASSUME NEW j \in 1..Size(y), j < n \/ j > n + 2
                   PROVE  At(y, j) \in Tokens
        OBVIOUS
      <4>1. j \in 1..i => j < k
        BY <1>1, <2>3
      <4>2. j - 1 < k \/ j - 1 > k + 2
        BY <1>1, <1>3
      <4> HIDE DEF n
      <4> QED
        BY <1>3, <1>4, <1>7, <4>1, <4>2 DEF HasBlock
    <3> HIDE DEF n
    <3>3. HasBlock(y, n, ms)
      BY <1>3, <1>7, <3>1, <3>2 DEF HasBlock
    <3> QED
      BY <3>1, <3>3 DEF n
  <2>4. CASE i >= k + 2
    <3>1. k \in 1..(Size(y) - 2) /\ k \in 1..i /\ k + 1 \in 1..i /\ k + 2 \in 1..i
      BY <1>1, <1>3, <2>2, <2>4
    <3>2. \A j \in 1..Size(y) : j < k \/ j > k + 2 => At(y, j) \in Tokens
      <4> SUFFICES ASSUME NEW j \in 1..Size(y), j < k \/ j > k + 2
                   PROVE  At(y, j) \in Tokens
        OBVIOUS
      <4>1. j \in (i + 2)..Size(y) => j - 1 > k + 2
        BY <1>1, <1>3, <2>4
      <4> QED
        BY <1>3, <1>4, <1>7, <4>1 DEF HasBlock
    <3>3. HasBlock(y, k, ms)
      BY <1>3, <1>7, <3>1, <3>2 DEF HasBlock
    <3> QED
      BY <3>3
  <2> QED
    BY <1>1, <2>1, <2>2, <2>3, <2>4
<1>8. WellFormed(y)
  BY <1>3, <1>5, <1>6, <1>7, FormedPlaces
<1>9. ASSUME NEW ms, Shows(s, ms) PROVE Shows(y, ms)
  <2>1. PICK n \in Nat : HasBlock(y, n, ms)
    BY <1>7, <1>9, ShownBlock
  <2> QED
    BY <1>3, <2>1, BlockShown
<1> QED
  BY <1>8, <1>9

LEMMA DeleteKeeps ==
  ASSUME NEW s, WellFormed(s), NEW i \in 1..Size(s),
         Marked(s) => i < First(s, BEGIN) \/ i > First(s, END),
         NEW y, y = Deleted(s, i)
  PROVE  WellFormed(y) /\ \A ms : Shows(s, ms) => Shows(y, ms)
<1>1. s \in Text(Alphabet) /\ Singly(s) /\ Size(s) \in Nat
  BY FormedPlaces, Sizes
<1>2. /\ y \in Text(Alphabet) /\ Size(y) = Size(s) - 1
      /\ \A j \in 1..(i - 1) : At(y, j) = At(s, j)
      /\ \A j \in i..Size(y) : At(y, j) = At(s, j + 1)
  BY <1>1, DeletedTokens
<1>3. ASSUME NEW j \in 1..Size(y)
      PROVE  \/ j < i /\ j \in 1..Size(s) /\ At(y, j) = At(s, j)
             \/ j >= i /\ j + 1 \in 1..Size(s) /\ At(y, j) = At(s, j + 1)
  <2>1. j < i => j \in 1..(i - 1) /\ j \in 1..Size(s)
    BY <1>1, <1>2
  <2>2. ~(j < i) => j >= i /\ j \in i..Size(y) /\ j + 1 \in 1..Size(s)
    BY <1>1, <1>2
  <2> QED
    BY <1>2, <2>1, <2>2
<1>4. Singly(y)
  <2> SUFFICES ASSUME NEW j \in 1..Size(y), NEW k \in 1..Size(y), NEW w \in Words,
                      At(y, j) = Word(w), At(y, k) = Word(w)
               PROVE  j = k
    BY DEF Singly
  <2> DEFINE g(n) == IF n < i THEN n ELSE n + 1
  <2>1. g(j) \in 1..Size(s) /\ At(s, g(j)) = Word(w) /\ g(k) \in 1..Size(s) /\ At(s, g(k)) = Word(w)
    BY <1>3
  <2>2. g(j) = g(k)
    <3> HIDE DEF g
    <3> QED
      BY <1>1, <2>1 DEF Singly
  <2> QED
    BY <1>1, <2>2
<1>5. s \in Text(Tokens) => y \in Text(Tokens)
  BY DeletedTokens
<1>6. ASSUME NEW k \in Nat, NEW ms, HasBlock(s, k, ms)
      PROVE  \E n \in Nat : HasBlock(y, n, ms)
  <2>1. i < k \/ i > k + 2
    BY <1>1, <1>6, BlockMarks
  <2>2. k \in 1..(Size(s) - 2)
    BY <1>6 DEF HasBlock
  <2>3. CASE i < k
    <3> DEFINE n == k - 1
    <3>1. /\ n \in Nat /\ n \in 1..(Size(y) - 2) /\ n \in i..Size(y) /\ n + 1 \in i..Size(y)
          /\ n + 2 \in i..Size(y) /\ n + 1 = k /\ n + 1 + 1 = k + 1 /\ n + 2 + 1 = k + 2
      BY <1>1, <1>2, <2>2, <2>3
    <3>2. \A j \in 1..Size(y) : j < n \/ j > n + 2 => At(y, j) \in Tokens
      <4> SUFFICES ASSUME NEW j \in 1..Size(y), j < n \/ j > n + 2
                   PROVE  At(y, j) \in Tokens
        OBVIOUS
      <4>1. j < i => j < k
        BY <1>1, <2>2, <2>3
      <4>2. j + 1 < k \/ j + 1 > k + 2
        BY <1>1, <1>2, <2>2
      <4> HIDE DEF n
      <4> QED
        BY <1>3, <1>6, <4>1, <4>2 DEF HasBlock
    <3> HIDE DEF n
    <3>3. HasBlock(y, n, ms)
      BY <1>2, <1>6, <3>1, <3>2 DEF HasBlock
    <3> QED
      BY <3>1, <3>3
  <2>4. CASE i > k + 2
    <3>1. /\ k \in 1..(Size(y) - 2) /\ k \in 1..(i - 1)
          /\ k + 1 \in 1..(i - 1) /\ k + 2 \in 1..(i - 1)
      BY <1>1, <1>2, <2>2, <2>4
    <3>2. \A j \in 1..Size(y) : j < k \/ j > k + 2 => At(y, j) \in Tokens
      <4> SUFFICES ASSUME NEW j \in 1..Size(y), j < k \/ j > k + 2
                   PROVE  At(y, j) \in Tokens
        OBVIOUS
      <4>1. j >= i => j + 1 > k + 2
        BY <1>1, <1>2, <2>2, <2>4
      <4> QED
        BY <1>3, <1>6, <4>1 DEF HasBlock
    <3>3. HasBlock(y, k, ms)
      BY <1>2, <1>6, <3>1, <3>2 DEF HasBlock
    <3> QED
      BY <3>3
  <2> QED
    BY <1>1, <2>1, <2>2, <2>3, <2>4
<1>7. WellFormed(y)
  BY <1>2, <1>4, <1>5, <1>6, FormedPlaces
<1>8. ASSUME NEW ms, Shows(s, ms) PROVE Shows(y, ms)
  <2>1. PICK n \in Nat : HasBlock(y, n, ms)
    BY <1>6, <1>8, ShownBlock
  <2> QED
    BY <1>2, <2>1, BlockShown
<1> QED
  BY <1>7, <1>8

-----------------------------------------------------------------------------
\* What trimming leaves of a text, and what splice and strip_section make of a
\* well-formed one.

\* A text with the same words as before, each once.
SameWords(y, s) == WordsOf(y) = WordsOf(s) /\ (Singly(s) => Singly(y))

LEMMA LineEnds ==
  ASSUME NEW s, \A i \in 1..Size(s) : At(s, i) \in {NL, SP}
  PROVE  WordsOf(s) = {} /\ Singly(s)
BY TokensPlain, Wordless

LEMMA TrimEndWords ==
  ASSUME NEW S, NEW s \in Text(S)
  PROVE  SameWords(TrimEnd(s), s)
<1> DEFINE n == LastInk(s)
           p == SubSeq(s, 1, n)
           q == SubSeq(s, n + 1, Len(s))
<1>1. n \in 0..Size(s) /\ \A i \in (n + 1)..Size(s) : At(s, i) = NL
  BY TrimEndText
<1>2. p = TrimEnd(s)
  BY DEF TrimEnd
<1> HIDE DEF n
<1>3. s = Glue(p, q) /\ p \in Text(S)
  BY <1>1, Halves, Prefix
<1>4. q \in Text(S) /\ Size(q) = Size(s) - n /\ \A i \in 1..(Size(s) - n) : At(q, i) = At(s, n + i)
  BY <1>1, Suffix
<1> HIDE DEF p, q
<1>5. \A i \in 1..Size(q) : At(q, i) = NL
  <2>1. \A i \in 1..(Size(s) - n) : n + i \in (n + 1)..Size(s)
    BY <1>1, Sizes
  <2> QED
    BY <1>1, <1>4, <2>1
<1>6. WordsOf(q) = {} /\ Singly(q)
  BY <1>5, LineEnds
<1>7. WordsOf(s) = WordsOf(p) \cup WordsOf(q) /\ (Singly(s) => Singly(p))
  BY <1>3, <1>4, GlueWords, GlueSingly
<1> QED
  BY <1>2, <1>6, <1>7 DEF SameWords

LEMMA TrimStartWords ==
  ASSUME NEW S, NEW s \in Text(S)
  PROVE  SameWords(TrimStart(s), s)
<1> DEFINE n == LeadNL(s)
           p == SubSeq(s, 1, n)
           q == SubSeq(s, n + 1, Len(s))
<1>1. n \in 0..Size(s) /\ \A i \in 1..n : At(s, i) = NL
  BY LeadNLIsLead DEF Text, Size, At
<1>2. q = TrimStart(s)
  BY DEF TrimStart
<1> HIDE DEF n
<1>3. p \in Text(S) /\ Size(p) = n /\ \A i \in 1..n : At(p, i) = At(s, i)
  BY <1>1, Prefix
<1>4. s = Glue(p, q) /\ q \in Text(S)
  BY <1>1, Halves, Suffix
<1> HIDE DEF p, q
<1>5. WordsOf(p) = {} /\ Singly(p)
  BY <1>1, <1>3, LineEnds
<1>6. WordsOf(s) = WordsOf(p) \cup WordsOf(q) /\ (Singly(s) => Singly(q))
  BY <1>3, <1>4, GlueWords, GlueSingly
<1> QED
  BY <1>2, <1>5, <1>6 DEF SameWords

LEMMA HeadWords ==
  ASSUME NEW S, NL \in S, NEW p \in Text(S),
         NEW h, h = IF Blank(p) THEN << >> ELSE Glue(TrimEnd(p), <<NL, NL>>)
  PROVE  SameWords(h, p)
<1> DEFINE e == <<NL, NL>>
           q == TrimEnd(p)
<1>1. e \in Text(S) /\ \A i \in 1..Size(e) : At(e, i) = NL
  BY DEF Text, Size, At
<1>2. WordsOf(e) = {} /\ Singly(e)
  BY <1>1, LineEnds
<1>3. CASE Blank(p)
  <2>1. WordsOf(p) = {}
    BY <1>3, BlankText, LineEnds
  <2>2. h = << >> /\ Size(<< >>) = 0
    BY <1>3, EmptyText
  <2>3. WordsOf(h) = {} /\ Singly(h)
    BY <2>2, LineEnds
  <2> QED
    BY <2>1, <2>3 DEF SameWords
<1>4. CASE ~Blank(p)
  <2>1. h = Glue(q, e) /\ q \in Text(S) /\ SameWords(q, p)
    BY <1>4, TrimEndText, TrimEndWords
  <2> HIDE DEF e, q
  <2>2. WordsOf(h) = WordsOf(q) \cup WordsOf(e)
    BY <1>1, <2>1, GlueWords
  <2>3. Singly(q) => Singly(h)
    BY <1>1, <1>2, <2>1, GlueSingly
  <2> QED
    BY <1>2, <2>1, <2>2, <2>3 DEF SameWords
<1> QED
  BY <1>3, <1>4

LEMMA TailWords ==
  ASSUME NEW S, NL \in S, NEW a \in Text(S), NEW t, t = TrimStart(a),
         NEW r, r = IF t = << >> THEN << >> ELSE Glue(<<NL>>, t)
  PROVE  SameWords(r, a)
<1> DEFINE e == <<NL>>
<1>1. e \in Text(S) /\ \A i \in 1..Size(e) : At(e, i) = NL
  BY DEF Text, Size, At
<1>2. WordsOf(e) = {} /\ Singly(e)
  BY <1>1, LineEnds
<1>3. t \in Text(S) /\ SameWords(t, a)
  BY TrimStartText, TrimStartWords
<1>4. CASE t = << >>
  BY <1>3, <1>4
<1>5. CASE t # << >>
  <2>1. r = Glue(e, t)
    BY <1>5
  <2> HIDE DEF e
  <2>2. WordsOf(r) = WordsOf(e) \cup WordsOf(t)
    BY <1>1, <1>3, <2>1, GlueWords
  <2>3. Singly(t) => Singly(r)
    BY <1>1, <1>2, <1>3, <2>1, GlueSingly
  <2> QED
    BY <1>2, <1>3, <2>2, <2>3 DEF SameWords
<1> QED
  BY <1>4, <1>5

\* The text around the block.
IsAround(p, a, s) ==
  /\ p \in Text(Tokens) /\ a \in Text(Tokens)
  /\ WordsOf(s) = WordsOf(p) \cup WordsOf(a)
  /\ Singly(p) /\ Singly(a) /\ WordsOf(p) \cap WordsOf(a) = {}

LEMMA Around ==
  ASSUME NEW s, WellFormed(s), Marked(s)
  PROVE  IsAround(Before(s, BEGIN), After(s, END), s)
<1> DEFINE p == Before(s, BEGIN)
           a == After(s, END)
<1>1. s \in Text(Alphabet) /\ Singly(s) /\ s \notin Text(Tokens) /\ Size(s) \in Nat
  BY FormedPlaces, PlainMarks, Sizes
<1>2. PICK k \in Nat, ms \in SUBSET Memories : HasBlock(s, k, ms)
  BY <1>1, FormedPlaces
<1>3. Has(s, BEGIN) /\ First(s, BEGIN) = k /\ Has(s, END) /\ First(s, END) = k + 2
  BY <1>1, <1>2, BlockMarks
<1>4. k \in 1..(Size(s) - 2)
  BY <1>2 DEF HasBlock
<1>5. p \in Text(Alphabet) /\ Size(p) = k - 1 /\ \A i \in 1..(k - 1) : At(p, i) = At(s, i)
  BY <1>1, <1>3, BeforeText
<1>6. /\ a \in Text(Alphabet) /\ Size(a) = Size(s) - (k + 2)
      /\ \A i \in 1..(Size(s) - (k + 2)) : At(a, i) = At(s, k + 2 + i)
  BY <1>1, <1>3, AfterText
<1> HIDE DEF p, a
<1>7. p \in Text(Tokens)
  <2>1. \A i \in 1..(k - 1) : i \in 1..Size(s) /\ i < k
    BY <1>1, <1>4
  <2>2. \A i \in 1..Size(p) : At(p, i) \in Tokens
    BY <1>2, <1>5, <2>1 DEF HasBlock
  <2> QED
    BY <1>5, <2>2, TextFrom
<1>8. a \in Text(Tokens)
  <2>1. \A i \in 1..(Size(s) - (k + 2)) : k + 2 + i \in 1..Size(s) /\ k + 2 + i > k + 2
    BY <1>1, <1>4
  <2>2. \A i \in 1..Size(a) : At(a, i) \in Tokens
    BY <1>2, <1>6, <2>1 DEF HasBlock
  <2> QED
    BY <1>6, <2>2, TextFrom
<1> DEFINE m == <<BEGIN, Body(ms), END>>
           pm == Glue(p, m)
<1>9. /\ m \in Text(Alphabet) /\ Size(m) = 3
      /\ At(m, 1) = BEGIN /\ At(m, 2) = Body(ms) /\ At(m, 3) = END
  BY DEF Text, Size, At, Alphabet
<1> HIDE DEF m
<1>10. pm \in Text(Alphabet) /\ Size(pm) = k + 2
  BY <1>4, <1>5, <1>9, GlueSize
<1>11. \A i \in 1..(k + 2) : At(pm, i) = At(s, i)
  <2> TAKE i \in 1..(k + 2)
  <2>1. \/ i \in 1..(k - 1) /\ At(pm, i) = At(p, i)
        \/ i - (k - 1) \in 1..3 /\ At(pm, i) = At(m, i - (k - 1))
    <3>1. i \in 1..(Size(p) + Size(m))
      BY <1>4, <1>5, <1>9
    <3> QED
      BY <1>5, <1>9, <3>1, GlueAt
  <2>2. CASE i \in 1..(k - 1) /\ At(pm, i) = At(p, i)
    BY <1>5, <2>2
  <2>3. CASE i - (k - 1) \in 1..3 /\ At(pm, i) = At(m, i - (k - 1))
    <3> DEFINE j == i - (k - 1)
    <3>1. j \in 1..3 /\ i = k - 1 + j /\ (j = 1 \/ j = 2 \/ j = 3)
      BY <1>4, <2>3
    <3>2. j = 1 => i = k
      BY <1>4, <3>1
    <3>3. j = 2 => i = k + 1
      BY <1>4, <3>1
    <3>4. j = 3 => i = k + 2
      BY <1>4, <3>1
    <3>5. At(pm, i) = At(m, j)
      BY <2>3
    <3> HIDE DEF j
    <3> QED
      BY <1>2, <1>9, <3>1, <3>2, <3>3, <3>4, <3>5 DEF HasBlock
  <2> QED
    BY <2>1, <2>2, <2>3
<1> HIDE DEF pm
<1>12. s = Glue(pm, a)
  <2>1. Glue(pm, a) \in Text(Alphabet) /\ Size(Glue(pm, a)) = Size(s)
    BY <1>1, <1>4, <1>6, <1>10, GlueSize
  <2>2. \A i \in 1..Size(s) : At(s, i) = At(Glue(pm, a), i)
    <3> TAKE i \in 1..Size(s)
    <3>1. i \in 1..(Size(pm) + Size(a))
      BY <1>1, <1>4, <1>6, <1>10
    <3>2. \/ i \in 1..(k + 2) /\ At(Glue(pm, a), i) = At(pm, i)
          \/ /\ i - (k + 2) \in 1..(Size(s) - (k + 2))
             /\ At(Glue(pm, a), i) = At(a, i - (k + 2))
      BY <1>6, <1>10, <3>1, GlueAt
    <3>3. k + 2 + (i - (k + 2)) = i
      BY <1>4
    <3> QED
      BY <1>6, <1>11, <3>2, <3>3
  <2> QED
    BY <1>1, <2>1, <2>2, SameText
<1>13. WordsOf(m) = {} /\ Singly(m)
  <2>1. \A i \in 1..Size(m) : i = 1 \/ i = 2 \/ i = 3
    BY <1>9
  <2> QED
    BY <1>9, <2>1, TokensPlain, Wordless
<1>14. WordsOf(pm) = WordsOf(p) \cup WordsOf(m) /\ (Singly(pm) => Singly(p))
  BY <1>5, <1>9, GlueWords, GlueSingly DEF pm
<1>15. /\ WordsOf(s) = WordsOf(pm) \cup WordsOf(a) /\ Singly(pm) /\ Singly(a)
       /\ WordsOf(pm) \cap WordsOf(a) = {}
  BY <1>1, <1>6, <1>10, <1>12, GlueWords, GlueSingly
<1> QED
  BY <1>7, <1>8, <1>13, <1>14, <1>15 DEF IsAround, p, a

\* strip_section leaves the user's words, and nothing else but spaces and line ends.
LEMMA StripKeeps ==
  ASSUME NEW s, WellFormed(s), NEW y, y = StripSection(s)
  PROVE  y \in Text(Tokens) /\ Singly(y) /\ WordsOf(y) = WordsOf(s)
<1>1. CASE Marked(s)
  <2> DEFINE p == Before(s, BEGIN)
             a == After(s, END)
             q == TrimEnd(p)
  <2>1. IsAround(p, a, s)
    BY <1>1, Around
  <2>2. y = Glue(q, a)
    BY <1>1 DEF StripSection, Glue
  <2> HIDE DEF p, a
  <2>3. q \in Text(Tokens) /\ SameWords(q, p)
    BY <2>1, TrimEndText, TrimEndWords DEF IsAround
  <2> HIDE DEF q
  <2>4. y \in Text(Tokens)
    BY <2>1, <2>2, <2>3, GlueSize DEF IsAround
  <2>6. WordsOf(y) = WordsOf(q) \cup WordsOf(a)
    BY <2>1, <2>2, <2>3, GlueWords DEF IsAround
  <2>5. Singly(y)
    BY <2>1, <2>2, <2>3, GlueSingly DEF IsAround, SameWords
  <2> QED
    BY <2>1, <2>3, <2>4, <2>5, <2>6 DEF IsAround, SameWords
<1>2. CASE ~Marked(s)
  <2>1. \A i \in Nat : \A ms : ~HasBlock(s, i, ms)
    BY <1>2, FormedPlaces, BlockMarks
  <2> QED
    BY <1>2, <2>1, FormedPlaces DEF StripSection
<1> QED
  BY <1>1, <1>2

LEMMA SplicedFormed ==
  ASSUME NEW ms \in SUBSET Memories, NEW h \in Text(Tokens), NEW r \in Text(Tokens),
         Singly(h), Singly(r), WordsOf(h) \cap WordsOf(r) = {},
         NEW y, y = Spliced(h, ms, r)
  PROVE  /\ WellFormed(y) /\ Shows(y, ms)
         /\ WordsOf(y) = WordsOf(h) \cup WordsOf(r)
<1> DEFINE sec == Section(ms)
           hs == Glue(h, sec)
           k == Size(h) + 1
<1>1. Spells(Alphabet, ms) /\ Tokens \subseteq Alphabet
  BY TokensPlain DEF Spells, Alphabet
<1>2. h \in Text(Alphabet) /\ r \in Text(Alphabet)
  BY <1>1, TextsWithin
<1>3. /\ y \in Text(Alphabet) /\ Size(y) = Size(h) + 4 + Size(r)
      /\ \A i \in 1..Size(h) : At(y, i) = At(h, i)
      /\ At(y, Size(h) + 1) = BEGIN /\ At(y, Size(h) + 2) = Body(ms)
      /\ At(y, Size(h) + 3) = END /\ At(y, Size(h) + 4) = NL
      /\ \A i \in 1..Size(r) : At(y, Size(h) + 4 + i) = At(r, i)
  BY <1>1, <1>2, SplicedTokens
<1>4. Size(h) \in Nat /\ Size(r) \in Nat
  BY Sizes
<1>5. HasBlock(y, k, ms) /\ k \in Nat
  <2>1. k \in Nat /\ k \in 1..(Size(y) - 2) /\ k + 1 = Size(h) + 2 /\ k + 2 = Size(h) + 3
    BY <1>3, <1>4
  <2>2. \A j \in 1..Size(y) : j < k \/ j > k + 2 => At(y, j) \in Tokens
    <3> SUFFICES ASSUME NEW j \in 1..Size(y), j < k \/ j > k + 2 PROVE At(y, j) \in Tokens
      OBVIOUS
    <3> DEFINE i == j - (Size(h) + 4)
    <3>1. \/ j \in 1..Size(h)
          \/ j = Size(h) + 4
          \/ i \in 1..Size(r) /\ j = Size(h) + 4 + i
      BY <1>3, <1>4
    <3> HIDE DEF i
    <3> QED
      BY <1>3, <3>1, TokenOf, TokensPlain
  <2> HIDE DEF k
  <2> QED
    BY <1>3, <2>1, <2>2 DEF HasBlock, k
<1> HIDE DEF k
<1>6. sec \in Text(Alphabet) /\ WordsOf(sec) = {} /\ Singly(sec)
  <2>1. /\ sec \in Text(Alphabet) /\ Size(sec) = 4 /\ At(sec, 1) = BEGIN
        /\ At(sec, 2) = Body(ms) /\ At(sec, 3) = END /\ At(sec, 4) = NL
    BY <1>1, SectionText
  <2>2. \A i \in 1..Size(sec) : i = 1 \/ i = 2 \/ i = 3 \/ i = 4
    BY <2>1
  <2> HIDE DEF sec
  <2> QED
    BY <2>1, <2>2, TokensPlain, Wordless
<1>7. y = Glue(hs, r)
  BY DEF Spliced
<1> HIDE DEF sec
<1>8. hs \in Text(Alphabet) /\ WordsOf(hs) = WordsOf(h) /\ Singly(hs)
  <2>1. hs \in Text(Alphabet)
    BY <1>2, <1>6, GlueSize
  <2>2. WordsOf(hs) = WordsOf(h) \cup WordsOf(sec)
    <3> HIDE DEF hs
    <3>1. h \in Text(Alphabet) /\ sec \in Text(Alphabet)
      BY <1>2, <1>6
    <3>2. WordsOf(Glue(h, sec)) = WordsOf(h) \cup WordsOf(sec)
      BY <3>1, GlueWords
    <3> QED
      BY <3>2 DEF hs
  <2>3. Singly(hs)
    <3>1. WordsOf(h) \cap WordsOf(sec) = {}
      BY <1>6
    <3> HIDE DEF hs
    <3>2. Singly(Glue(h, sec))
      BY <1>2, <1>6, <3>1, GlueSingly
    <3> QED
      BY <3>2 DEF hs
  <2> QED
    BY <1>6, <2>1, <2>2, <2>3
<1> HIDE DEF hs
<1>9. WordsOf(y) = WordsOf(h) \cup WordsOf(r) /\ Singly(y)
  BY <1>2, <1>7, <1>8, GlueWords, GlueSingly
<1>10. WellFormed(y)
  BY <1>3, <1>5, <1>9, FormedPlaces
<1>11. Shows(y, ms)
  BY <1>3, <1>5, BlockShown
<1> QED
  BY <1>9, <1>10, <1>11

\* compile leaves a well-formed text that shows the memories, and the user's words.
LEMMA CompileKeeps ==
  ASSUME NEW s, WellFormed(s), NEW ms \in SUBSET Memories, NEW y, y = Compiled(s, ms)
  PROVE  WellFormed(y) /\ Shows(y, ms) /\ WordsOf(y) = WordsOf(s)
<1>1. NL \in Tokens
  BY TokensPlain
<1>2. CASE Marked(s)
  <2> DEFINE p == Before(s, BEGIN)
             a == After(s, END)
             h == IF Blank(p) THEN << >> ELSE Glue(TrimEnd(p), <<NL, NL>>)
             t == TrimStart(a)
             r == IF t = << >> THEN << >> ELSE Glue(<<NL>>, t)
  <2>1. IsAround(p, a, s)
    BY <1>2, Around
  <2> HIDE DEF p, a
  <2>2. p \in Text(Tokens) /\ a \in Text(Tokens)
    BY <2>1 DEF IsAround
  <2>3. h \in Text(Tokens) /\ SameWords(h, p)
    <3>1. \A i \in 1..Size(p) : At(p, i) # BEGIN /\ At(p, i) # END
      BY <2>2, TokenOf, TokensPlain
    <3> QED
      BY <1>1, <2>2, <3>1, HeadShape, HeadWords
  <2>4. r \in Text(Tokens) /\ SameWords(r, a)
    BY <1>1, <2>2, TailShape, TailWords
  <2>5. Compiled(s, ms) = h \o Section(ms) \o r
    BY <1>2 DEF Compiled, Splice, p, a, Glue
  <2> HIDE DEF h, r
  <2>6. y = Spliced(h, ms, r)
    BY <2>5 DEF Spliced, Glue
  <2> QED
    BY <2>1, <2>3, <2>4, <2>6, SplicedFormed DEF IsAround, SameWords
<1>3. CASE ~Marked(s)
  <2> DEFINE h == IF Blank(s) THEN << >> ELSE Glue(TrimEnd(s), <<NL, NL>>)
             none == << >>
  <2>1. s \in Text(Tokens) /\ Singly(s)
    BY <1>3, FormedPlaces, BlockMarks
  <2>2. h \in Text(Tokens) /\ SameWords(h, s)
    <3>1. \A i \in 1..Size(s) : At(s, i) # BEGIN /\ At(s, i) # END
      BY <2>1, TokenOf, TokensPlain
    <3> QED
      BY <1>1, <2>1, <3>1, HeadShape, HeadWords
  <2>3. none \in Text(Tokens) /\ WordsOf(none) = {} /\ Singly(none)
    BY EmptyText, LineEnds
  <2>4. Compiled(s, ms) = Glue(h, Section(ms))
    <3>1. Section(ms) \in Text(Alphabet)
      BY TokensPlain, SectionText DEF Spells, Alphabet
    <3>2. << >> \o Section(ms) = Section(ms)
      BY <3>1, ConcatEmptySeq DEF Text
    <3> QED
      BY <1>3, <3>2 DEF Compiled, Splice, Glue
  <2> HIDE DEF h
  <2>5. Glue(Glue(h, Section(ms)), none) = Glue(h, Section(ms))
    <3>1. Section(ms) \in Text(Alphabet) /\ h \in Text(Alphabet)
      <4>1. Tokens \subseteq Alphabet
        BY DEF Alphabet
      <4> QED
        BY <2>2, <4>1, TextsWithin, TokensPlain, SectionText DEF Spells, Alphabet
    <3>2. Glue(h, Section(ms)) \in Text(Alphabet)
      BY <3>1, GlueSize
    <3> QED
      BY <3>2, ConcatEmptySeq DEF Glue, Text
  <2> HIDE DEF none
  <2>6. y = Spliced(h, ms, none)
    BY <2>4, <2>5 DEF Spliced
  <2> QED
    BY <2>1, <2>2, <2>3, <2>6, SplicedFormed DEF SameWords
<1> QED
  BY <1>2, <1>3

-----------------------------------------------------------------------------
\* The merge of the texts around the blocks.  What a text holds of some tokens is a
\* recursive function of its length.

LEMMA CountingUp ==
  ASSUME NEW N \in Nat, NEW S, 0 \in S, \A n \in 1..N : n - 1 \in S => n \in S
  PROVE  \A n \in 0..N : n \in S
<1> DEFINE T == {n \in 0..N : n \notin S}
<1>1. SUFFICES ASSUME T # {} PROVE FALSE
  OBVIOUS
<1>2. PICK m \in T : \A k \in T : m <= k
  <2>1. T \subseteq Nat
    OBVIOUS
  <2> HIDE DEF T
  <2> QED
    BY <1>1, <2>1, LeastNumber
<1>3. m \in 1..N /\ m - 1 \in 0..N /\ m - 1 \notin T
  BY <1>2
<1> QED
  BY <1>2, <1>3

\* A function may be defined by its value at 0 and each next value by the one before.
Unfolds(f, N, V, start, step) ==
  f \in [0..N -> V] /\ f[0] = start /\ \A n \in 1..N : f[n] = step[n][f[n - 1]]

LEMMA Recursion ==
  ASSUME NEW N \in Nat, NEW V, NEW start \in V, NEW step \in [1..N -> [V -> V]]
  PROVE  \E f : Unfolds(f, N, V, start, step)
<1> DEFINE Upto(f, m) == Unfolds(f, m, V, start, step)
           T == {m \in 0..N : ~\E f : Upto(f, m)}
<1> USE DEF Unfolds
<1>1. SUFFICES ASSUME T # {} PROVE FALSE
  <2>1. ~(N \in T) => \E f : Upto(f, N)
    OBVIOUS
  <2> QED
    BY <1>1, <2>1
<1>2. PICK m \in T : \A k \in T : m <= k
  <2>1. T \subseteq Nat
    OBVIOUS
  <2> HIDE DEF T
  <2> QED
    BY <1>1, <2>1, LeastNumber
<1>3. m # 0
  <2> DEFINE f == [n \in 0..0 |-> start]
  <2>1. Upto(f, 0)
    OBVIOUS
  <2> QED
    BY <2>1
<1>4. m - 1 \in 0..N /\ m - 1 \notin T /\ m \in 1..N
  <2> HIDE DEF Upto
  <2> QED
    BY <1>2, <1>3
<1>5. PICK f : Upto(f, m - 1)
  BY <1>4
<1> DEFINE g == [n \in 0..m |-> IF n = m THEN step[m][f[m - 1]] ELSE f[n]]
<1>6. f[m - 1] \in V /\ step[m][f[m - 1]] \in V
  BY <1>4, <1>5
<1>7. g \in [0..m -> V] /\ g[0] = start
  <2>1. \A n \in 0..m : n # m => f[n] \in V
    BY <1>4, <1>5
  <2> QED
    BY <1>4, <1>5, <1>6, <2>1
<1>8. \A n \in 1..m : g[n] = step[n][g[n - 1]]
  <2> TAKE n \in 1..m
  <2>1. n - 1 \in 0..m /\ n - 1 # m /\ g[n - 1] = f[n - 1]
    BY <1>4
  <2>2. CASE n = m
    BY <2>1, <2>2
  <2>3. CASE n # m
    <3>1. n \in 1..(m - 1) /\ g[n] = f[n]
      BY <1>4, <2>3
    <3> QED
      BY <1>5, <2>1, <3>1
  <2> QED
    BY <2>2, <2>3
<1>9. Upto(g, m)
  BY <1>7, <1>8
<1> QED
  BY <1>2, <1>9

\* A text that is kept, or grows by one token.
Keep(v, e, tokens) == IF e \in tokens THEN Append(v, e) ELSE v

Filters(u, s, tokens, S) ==
  /\ u \in [0..Len(s) -> Seq(S)] /\ u[0] = << >>
  /\ \A n \in 1..Len(s) : u[n] = Keep(u[n - 1], s[n], tokens)
  /\ Among(s, tokens) = u[Len(s)]

LEMMA AmongUnfolds ==
  ASSUME NEW S, NEW s \in Seq(S), NEW tokens
  PROVE  \E u : Filters(u, s, tokens, S)
<1> DEFINE none == << >>
           N == Len(s)
           Turn(t) == [n \in 0..N |-> IF n = 0 THEN none ELSE Keep(t[n - 1], s[n], tokens)]
           t == CHOOSE u : u = Turn(u)
           V == Seq(S)
           step == [n \in 1..N |-> [v \in V |-> Keep(v, s[n], tokens)]]
<1>1. none \in V /\ N \in Nat /\ \A n \in 1..N : s[n] \in S
  BY LenProperties, ElementOfSeq
<1>2. Among(s, tokens) = t[N]
  BY DEF Among, Keep
<1>3. \A n \in 1..N, v \in V : Keep(v, s[n], tokens) \in V
  BY <1>1, AppendProperties DEF Keep
<1> HIDE DEF none, V, N
<1>4. step \in [1..N -> [V -> V]]
  BY <1>3
<1>5. PICK u : Unfolds(u, N, V, none, step)
  <2> HIDE DEF step
  <2> QED
    BY <1>1, <1>4, Recursion
<1>6. u \in [0..N -> V] /\ u[0] = none
  BY <1>5 DEF Unfolds
<1>7. \A n \in 1..N : u[n] = Keep(u[n - 1], s[n], tokens)
  <2> TAKE n \in 1..N
  <2>1. u[n - 1] \in V
    BY <1>1, <1>6
  <2>2. step[n][u[n - 1]] = Keep(u[n - 1], s[n], tokens)
    BY <2>1
  <2> QED
    BY <1>5, <2>2 DEF Unfolds
<1>8. u = Turn(u)
  <2>1. \A n \in 0..N : u[n] = IF n = 0 THEN none ELSE Keep(u[n - 1], s[n], tokens)
    BY <1>1, <1>6, <1>7
  <2> QED
    BY <1>6, <2>1
<1>9. t = Turn(t)
  <2> HIDE DEF Turn
  <2> QED
    BY <1>8
<1> HIDE DEF t
<1>10. t[0] = none /\ \A n \in 1..N : t[n] = Keep(t[n - 1], s[n], tokens)
  BY <1>1, <1>9
<1>11. \A n \in 0..N : n \in {k \in 0..N : t[k] \in V}
  <2> DEFINE T == {k \in 0..N : t[k] \in V}
  <2>1. 0 \in T
    BY <1>1, <1>10
  <2>2. \A n \in 1..N : n - 1 \in T => n \in T
    BY <1>1, <1>3, <1>10
  <2> HIDE DEF T
  <2>3. \A n \in 0..N : n \in T
    BY <1>1, <2>1, <2>2, CountingUp
  <2> QED
    BY <2>3 DEF T
<1>12. t \in [0..N -> V]
  BY <1>9, <1>11 DEF Turn
<1>13. Filters(t, s, tokens, S)
  BY <1>2, <1>10, <1>12 DEF Filters, none, V, N
<1> QED
  BY <1>13

LEMMA AmongType ==
  ASSUME NEW S, NEW s \in Seq(S), NEW tokens
  PROVE  Among(s, tokens) \in Seq(S)
<1>1. PICK u : Filters(u, s, tokens, S)
  BY AmongUnfolds
<1>2. Len(s) \in 0..Len(s)
  BY LenProperties
<1> QED
  BY <1>1, <1>2 DEF Filters

\* Among holds the tokens asked for, in a text's order, and no word more often.
LEMMA AmongKeeps ==
  ASSUME NEW S, NEW s \in Text(S), NEW tokens, NEW y, y = Among(s, tokens)
  PROVE  /\ y \in Text(S) /\ \A e : Has(y, e) <=> Has(s, e) /\ e \in tokens
         /\ Singly(s) => Singly(y)
<1> DEFINE N == Len(s)
           Held(v, n) == \A e : Has(v, e) <=> e \in tokens /\ \E i \in 1..n : s[i] = e
           Good(v, n) == Held(v, n) /\ (Singly(s) => Singly(v))
<1>1. s \in Seq(S) /\ N \in Nat /\ N = Size(s) /\ \A n \in 1..N : s[n] \in S
  BY LenProperties, ElementOfSeq DEF Text, Size
<1>2. PICK u : Filters(u, s, tokens, S)
  BY <1>1, AmongUnfolds
<1>3. /\ \A n \in 0..N : u[n] \in Text(S)
      /\ u[0] = << >> /\ y = u[N] /\ \A n \in 1..N : u[n] = Keep(u[n - 1], s[n], tokens)
  BY <1>2 DEF Filters, Text
<1>4. Good(u[0], 0)
  <2>1. Size(<< >>) = 0
    BY EmptyText
  <2>2. \A e : ~Has(<< >>, e)
    BY <2>1, HasPlaces
  <2>3. Singly(<< >>)
    BY <2>1, LineEnds
  <2> QED
    BY <1>3, <2>2, <2>3
<1>5. ASSUME NEW n \in 1..N, Good(u[n - 1], n - 1) PROVE Good(u[n], n)
  <2> DEFINE v == u[n - 1]
             e == s[n]
             one == <<e>>
  <2>1. n - 1 \in 0..N /\ v \in Text(S) /\ e \in S /\ e = At(s, n)
    BY <1>1, <1>3 DEF At
  <2>2. \A x : (\E i \in 1..n : s[i] = x) <=> x = e \/ \E i \in 1..(n - 1) : s[i] = x
    <3>1. \A i \in 1..n : i = n \/ i \in 1..(n - 1)
      BY <1>1
    <3>2. n \in 1..n /\ \A i \in 1..(n - 1) : i \in 1..n
      BY <1>1
    <3> QED
      BY <3>1, <3>2
  <2>3. Good(v, n - 1) /\ u[n] = Keep(v, e, tokens)
    BY <1>3, <1>5
  <2>4. one \in Text(S) /\ Size(one) = 1 /\ At(one, 1) = e
    BY <2>1 DEF Text, Size, At
  <2>5. Append(v, e) = Glue(v, one)
    BY <2>1 DEF Text, Glue
  <2>6. \A x : Has(one, x) <=> x = e
    BY <2>4, HasPlaces
  <2>7. Singly(one)
    <3>1. \A i, j \in 1..Size(one) : i = j
      BY <2>4
    <3> QED
      BY <3>1 DEF Singly
  <2> HIDE DEF v, e, one
  <2>8. CASE e \notin tokens
    <3>1. u[n] = v
      BY <2>3, <2>8 DEF Keep
    <3> QED
      BY <2>2, <2>3, <2>8, <3>1
  <2>9. CASE e \in tokens
    <3>1. u[n] = Glue(v, one)
      BY <2>3, <2>5, <2>9 DEF Keep
    <3>2. Held(u[n], n)
      <4>1. \A x : Has(Glue(v, one), x) <=> Has(v, x) \/ x = e
        BY <2>1, <2>4, <2>6, GlueHas
      <4> QED
        BY <2>2, <2>3, <2>9, <3>1, <4>1
    <3>3. Singly(s) => WordsOf(v) \cap WordsOf(one) = {}
      <4> SUFFICES ASSUME Singly(s), NEW w \in Words, Has(v, Word(w)), Has(one, Word(w))
                   PROVE  FALSE
        BY DEF WordsOf
      <4>1. PICK i \in 1..(n - 1) : s[i] = Word(w)
        BY <2>3
      <4>2. i \in 1..Size(s) /\ n \in 1..Size(s) /\ i # n
        BY <1>1
      <4>3. At(s, i) = Word(w) /\ At(s, n) = Word(w)
        BY <2>1, <2>6, <4>1 DEF At
      <4> QED
        BY <4>2, <4>3 DEF Singly
    <3>4. Singly(s) => Singly(Glue(v, one))
      BY <2>1, <2>3, <2>4, <2>7, <3>3, GlueSingly
    <3> QED
      BY <3>1, <3>2, <3>4
  <2> QED
    BY <2>8, <2>9
<1>6. Good(u[N], N)
  <2> DEFINE T == {n \in 0..N : Good(u[n], n)}
  <2>1. 0 \in T
    BY <1>1, <1>4
  <2>2. \A n \in 1..N : n - 1 \in T => n \in T
    <3> HIDE DEF Good
    <3> QED
      BY <1>1, <1>5
  <2> HIDE DEF T, N
  <2>3. \A n \in 0..N : n \in T
    BY <1>1, <2>1, <2>2, CountingUp
  <2>4. N \in T
    BY <1>1, <2>3
  <2> HIDE DEF Good
  <2> QED
    BY <2>4 DEF T
<1>7. \A e : (\E i \in 1..N : s[i] = e) <=> Has(s, e)
  BY DEF Has
<1>8. y \in Text(S)
  BY <1>1, <1>3
<1> QED
  BY <1>3, <1>6, <1>7, <1>8

LEMMA PlainFormed ==
  ASSUME NEW s \in Text(Tokens), Singly(s)
  PROVE  WellFormed(s)
<1>1. s \in Text(Alphabet)
  BY TextsWithin DEF Alphabet
<1> QED
  BY <1>1, FormedPlaces

\* The tokens that git takes from either side.
KeptTokens(b, ours, theirs) ==
  {NL, SP} \cup {Word(w) : w \in Merged(WordsOf(b), WordsOf(ours), WordsOf(theirs))}
NewTokens(ours, theirs) == {Word(w) : w \in WordsOf(theirs) \ WordsOf(ours)}

LEMMA WordKept ==
  ASSUME NEW b, NEW ours, NEW theirs, NEW w
  PROVE  /\ Word(w) \in KeptTokens(b, ours, theirs)
              <=> w \in Merged(WordsOf(b), WordsOf(ours), WordsOf(theirs))
         /\ Word(w) \in NewTokens(ours, theirs) <=> w \in WordsOf(theirs) \ WordsOf(ours)
<1>1. Word(w) # NL /\ Word(w) # SP /\ \A v : Word(v) = Word(w) <=> v = w
  BY TokensPlain
<1> QED
  BY <1>1 DEF KeptTokens, NewTokens

\* One text that git may make of three.
GitMerged(m, b, ours, theirs) ==
  \/ m = [text |-> ours, clean |-> TRUE] /\ (ours = theirs \/ theirs = b)
  \/ m = [text |-> theirs, clean |-> TRUE] /\ ours = b
  \/ m = [text |-> Glue(Among(ours, KeptTokens(b, ours, theirs)),
                        Among(theirs, NewTokens(ours, theirs) \cap KeptTokens(b, ours, theirs))),
          clean |-> TRUE]
  \/ m = [text |-> Glue(ours, Among(theirs, NewTokens(ours, theirs))), clean |-> FALSE]

LEMMA MergeFileCases ==
  ASSUME NEW b, NEW ours, NEW theirs, NEW m \in MergeFile(b, ours, theirs)
  PROVE  GitMerged(m, b, ours, theirs)
BY DEF MergeFile, GitMerged, KeptTokens, NewTokens, Glue

\* Words that git merges: of both sides, less those that one side deleted, unless
\* they are left in a conflict.
GoodMerge(m, b, ours, theirs) ==
  /\ m.clean => WordsOf(m.text) = Merged(WordsOf(b), WordsOf(ours), WordsOf(theirs))
  /\ Merged(WordsOf(b), WordsOf(ours), WordsOf(theirs)) \subseteq WordsOf(m.text)
  /\ WordsOf(m.text) \subseteq WordsOf(ours) \cup WordsOf(theirs)

LEMMA MergeFileKeeps ==
  ASSUME NEW b, NEW ours \in Text(Tokens), NEW theirs \in Text(Tokens),
         Singly(ours), Singly(theirs), NEW m \in MergeFile(b, ours, theirs)
  PROVE  /\ m = [text |-> m.text, clean |-> m.clean]
         /\ m.text \in Text(Tokens) /\ Singly(m.text) /\ GoodMerge(m, b, ours, theirs)
<1> DEFINE kept == KeptTokens(b, ours, theirs)
           new == NewTokens(ours, theirs)
           B == WordsOf(b)
           O == WordsOf(ours)
           T == WordsOf(theirs)
<1>1. CASE m = [text |-> ours, clean |-> TRUE] /\ (ours = theirs \/ theirs = b)
  <2>1. O = Merged(B, O, T) /\ O \subseteq O \cup T
    BY <1>1 DEF Merged
  <2> HIDE DEF B, O, T
  <2>2. m.text = ours /\ m = [text |-> m.text, clean |-> m.clean]
    BY <1>1
  <2> QED
    BY <2>1, <2>2 DEF GoodMerge, B, O, T
<1>2. CASE m = [text |-> theirs, clean |-> TRUE] /\ ours = b
  <2>1. T = Merged(B, O, T) /\ T \subseteq O \cup T
    BY <1>2 DEF Merged
  <2> HIDE DEF B, O, T
  <2>2. m.text = theirs /\ m = [text |-> m.text, clean |-> m.clean]
    BY <1>2
  <2> QED
    BY <2>1, <2>2 DEF GoodMerge, B, O, T
<1>3. CASE m = [text |-> Glue(Among(ours, kept), Among(theirs, new \cap kept)), clean |-> TRUE]
  <2> DEFINE x == Among(ours, kept)
             y == Among(theirs, new \cap kept)
  <2>1. x \in Text(Tokens) /\ Singly(x) /\ \A e : Has(x, e) <=> Has(ours, e) /\ e \in kept
    BY AmongKeeps
  <2>2. y \in Text(Tokens) /\ Singly(y) /\ \A e : Has(y, e) <=> Has(theirs, e) /\ e \in new \cap kept
    BY AmongKeeps
  <2>3. m.text = Glue(x, y) /\ m = [text |-> m.text, clean |-> m.clean]
    BY <1>3
  <2> HIDE DEF x, y
  <2>4. \A w : /\ Word(w) \in kept <=> w \in Merged(B, O, T)
               /\ Word(w) \in new <=> w \in T \ O
    BY WordKept
  <2> HIDE DEF kept, new
  <2>5. WordsOf(x) = O \cap Merged(B, O, T)
    BY <2>1, <2>4 DEF WordsOf
  <2>6. WordsOf(y) = (T \ O) \cap Merged(B, O, T)
    BY <2>2, <2>4 DEF WordsOf
  <2> HIDE DEF B, O, T
  <2>7. WordsOf(Glue(x, y)) = WordsOf(x) \cup WordsOf(y)
    BY <2>1, <2>2, GlueWords
  <2>8. WordsOf(x) \cup WordsOf(y) = Merged(B, O, T) /\ Merged(B, O, T) \subseteq O \cup T
    BY <2>5, <2>6 DEF Merged
  <2>9. WordsOf(x) \cap WordsOf(y) = {}
    BY <2>5, <2>6
  <2>10. Singly(Glue(x, y)) /\ Glue(x, y) \in Text(Tokens)
    BY <2>1, <2>2, <2>9, GlueSingly, GlueSize
  <2> QED
    BY <2>3, <2>7, <2>8, <2>10 DEF GoodMerge, B, O, T
<1>4. CASE m = [text |-> Glue(ours, Among(theirs, new)), clean |-> FALSE]
  <2> DEFINE y == Among(theirs, new)
  <2>1. y \in Text(Tokens) /\ Singly(y) /\ \A e : Has(y, e) <=> Has(theirs, e) /\ e \in new
    BY AmongKeeps
  <2>2. m.text = Glue(ours, y) /\ m.clean = FALSE /\ m = [text |-> m.text, clean |-> m.clean]
    BY <1>4
  <2> HIDE DEF y
  <2>3. \A w : Word(w) \in new <=> w \in T \ O
    BY WordKept
  <2> HIDE DEF new
  <2>4. WordsOf(ours) \cap WordsOf(y) = {}
    BY <2>1, <2>3 DEF WordsOf
  <2>5. Singly(Glue(ours, y)) /\ Glue(ours, y) \in Text(Tokens)
    BY <2>1, <2>4, GlueSingly, GlueSize
  <2>6. WordsOf(y) = T \ O
    BY <2>1, <2>3 DEF WordsOf
  <2>7. WordsOf(Glue(ours, y)) = O \cup WordsOf(y)
    BY <2>1, GlueWords
  <2> HIDE DEF B, O, T
  <2>8. Merged(B, O, T) \subseteq O \cup (T \ O) /\ O \cup (T \ O) \subseteq O \cup T
    BY DEF Merged
  <2>9. Merged(B, O, T) \subseteq WordsOf(m.text) /\ WordsOf(m.text) \subseteq O \cup T
    BY <2>2, <2>6, <2>7, <2>8
  <2> QED
    BY <2>2, <2>5, <2>9 DEF GoodMerge, B, O, T
<1> QED
  BY <1>1, <1>2, <1>3, <1>4, MergeFileCases DEF GitMerged

\* What git and the driver make of three well-formed texts.
LEMMA MergeTextsKeep ==
  ASSUME NEW b, NEW ours, NEW theirs, WellFormed(b), WellFormed(ours), WellFormed(theirs),
         NEW ms \in SUBSET Memories, NEW m \in MergeTexts(b, ours, theirs, ms)
  PROVE  WellFormed(m.text) /\ GoodMerge(m, b, ours, theirs)
<1>1. CASE ours = theirs \/ theirs = b \/ ours = b
  <2>1. \/ m = [text |-> ours, clean |-> TRUE] /\ (ours = theirs \/ theirs = b)
        \/ m = [text |-> theirs, clean |-> TRUE] /\ ours = b
    BY <1>1 DEF MergeTexts
  <2>2. \A B, O : /\ Merged(B, O, O) = O /\ Merged(B, O, B) = O /\ Merged(B, B, O) = O
                 /\ O \subseteq O \cup B /\ O \subseteq B \cup O
    BY DEF Merged
  <2> QED
    BY <2>1, <2>2 DEF GoodMerge
<1>2. CASE ~(ours = theirs \/ theirs = b \/ ours = b)
  <2> DEFINE sb == StripSection(b)
             so == StripSection(ours)
             st == StripSection(theirs)
  <2>1. WordsOf(sb) = WordsOf(b)
    BY StripKeeps
  <2>2. so \in Text(Tokens) /\ Singly(so) /\ WordsOf(so) = WordsOf(ours)
    BY StripKeeps
  <2>3. st \in Text(Tokens) /\ Singly(st) /\ WordsOf(st) = WordsOf(theirs)
    BY StripKeeps
  <2>4. PICK n \in MergeFile(sb, so, st) : m = [n EXCEPT !.text = Compiled(@, ms)]
    BY <1>2 DEF MergeTexts, MergeDriver
  <2> HIDE DEF sb, so, st
  <2>5. /\ n = [text |-> n.text, clean |-> n.clean] /\ n.text \in Text(Tokens)
        /\ Singly(n.text) /\ GoodMerge(n, sb, so, st)
    BY <2>2, <2>3, MergeFileKeeps
  <2>6. m.text = Compiled(n.text, ms) /\ m.clean = n.clean
    <3> DEFINE x == n.text
               z == n.clean
    <3>1. n = [text |-> x, clean |-> z]
      BY <2>5
    <3> HIDE DEF x, z
    <3>2. m = [text |-> Compiled(x, ms), clean |-> z]
      BY <2>4, <3>1
    <3> QED
      BY <3>2 DEF x, z
  <2>7. WellFormed(n.text)
    BY <2>5, PlainFormed
  <2>8. WellFormed(m.text) /\ WordsOf(m.text) = WordsOf(n.text)
    BY <2>6, <2>7, CompileKeeps
  <2> QED
    BY <2>1, <2>2, <2>3, <2>5, <2>6, <2>8 DEF GoodMerge
<1> QED
  BY <1>1, <1>2

-----------------------------------------------------------------------------
\* What the actions do to the texts.

TextsFormed == DOMAIN text = Clones /\ \A c \in Clones : WellFormed(text[c])

\* Clone c's text becomes y, and no other text changes.
Becomes(c, y) == text' = [text EXCEPT ![c] = y]

LEMMA OneText ==
  ASSUME DOMAIN text = Clones, NEW c \in Clones, NEW y, Becomes(c, y)
  PROVE  DOMAIN text' = Clones /\ text'[c] = y /\ \A d \in Clones \ {c} : text'[d] = text[d]
BY DEF Becomes

LEMMA FormedNext ==
  TextsFormed' <=> DOMAIN text' = Clones /\ \A d \in Clones : WellFormed(text'[d])
BY DEF TextsFormed, WellFormed, Once, BlockAt

LEMMA OneTextFormed ==
  ASSUME TextsFormed, NEW c \in Clones, NEW y, WellFormed(y), Becomes(c, y)
  PROVE  TextsFormed'
<1>1. DOMAIN text' = Clones /\ text'[c] = y /\ \A d \in Clones \ {c} : text'[d] = text[d]
  BY OneText DEF TextsFormed
<1>2. \A d \in Clones : WellFormed(text'[d])
  BY <1>1 DEF TextsFormed
<1> QED
  BY <1>1, <1>2, FormedNext

\* Editing the text around a block leaves what it shows.
LEMMA InsertText ==
  ASSUME TextsFormed, NEW c \in Clones, NEW i \in 0..Len(text[c]), NEW token \in Tokens,
         Insert(c, i, token)
  PROVE  \E y : /\ WellFormed(y) /\ Becomes(c, y)
                /\ \A ms : Shows(text[c], ms) => Shows(y, ms)
<1> DEFINE s == text[c]
           y == Inserted(s, i, token)
<1>1. WellFormed(s) /\ i \in 0..Size(s)
  BY DEF TextsFormed, Size
<1>2. /\ Marked(s) => i < First(s, BEGIN) \/ i >= First(s, END)
      /\ ~(\E w \in Words : token = Word(w) /\ Has(s, token))
  BY DEF Insert
<1>3. Becomes(c, y)
  BY DEF Insert, Becomes, Inserted, TextsFormed
<1> HIDE DEF s, y
<1>4. WellFormed(y) /\ \A ms : Shows(s, ms) => Shows(y, ms)
  BY <1>1, <1>2, InsertKeeps DEF y
<1> QED
  BY <1>3, <1>4 DEF s

LEMMA DeleteText ==
  ASSUME TextsFormed, NEW c \in Clones, NEW i \in 1..Len(text[c]), Delete(c, i)
  PROVE  \E y : /\ WellFormed(y) /\ Becomes(c, y)
                /\ \A ms : Shows(text[c], ms) => Shows(y, ms)
<1> DEFINE s == text[c]
           y == Deleted(s, i)
<1>1. WellFormed(s) /\ i \in 1..Size(s)
  BY DEF TextsFormed, Size
<1>2. Marked(s) => i < First(s, BEGIN) \/ i > First(s, END)
  BY DEF Delete
<1>3. Becomes(c, y)
  BY DEF Delete, Becomes, Deleted, TextsFormed
<1> HIDE DEF s, y
<1>4. WellFormed(y) /\ \A ms : Shows(s, ms) => Shows(y, ms)
  BY <1>1, <1>2, DeleteKeeps DEF y
<1> QED
  BY <1>3, <1>4 DEF s

\* What the memories of a clone compile to.
LEMMA CompiledText ==
  ASSUME TypeOK, NEW c \in Clones, NEW ms \in SUBSET Memories,
         text' = [text EXCEPT ![c] = Compiled(@, ms)]
  PROVE  \E y : /\ WellFormed(y) /\ Becomes(c, y) /\ Shows(y, ms)
                /\ WordsOf(y) = WordsOf(text[c])
<1> DEFINE y == Compiled(text[c], ms)
<1>1. WellFormed(text[c]) /\ DOMAIN text = Clones
  BY DEF TypeOK
<1>2. Becomes(c, y)
  BY <1>1 DEF Becomes
<1> HIDE DEF y
<1>3. WellFormed(y) /\ Shows(y, ms) /\ WordsOf(y) = WordsOf(text[c])
  BY <1>1, CompileKeeps DEF y
<1> QED
  BY <1>2, <1>3

\* A merge makes one text of three.
LEMMA MergeText ==
  ASSUME TypeOK, NEW c \in Clones, NEW d \in Clones \ {c}, Merge(c, d)
  PROVE  \E y : /\ WellFormed(y) /\ Becomes(c, y)
                /\ \/ /\ GoesTo(c, "merged") /\ UNCHANGED stopped
                      /\ WordsOf(y) =
                           Merged(WordsOf(base.text), WordsOf(text[c]), WordsOf(text[d]))
                   \/ GoesTo(c, "stopped") /\ stopped' = stopped \cup {c}
                /\ Merged(WordsOf(base.text), WordsOf(text[c]), WordsOf(text[d]))
                     \subseteq WordsOf(y)
                /\ WordsOf(y) \subseteq WordsOf(text[c]) \cup WordsOf(text[d])
<1>1. WellFormed(base.text) /\ WellFormed(text[c]) /\ WellFormed(text[d])
  BY DEF TypeOK
<1>2. mems[c] \in SUBSET Memories /\ mems[d] \in SUBSET Memories
  BY DEF TypeOK
<1>3. Merged(base.mems, mems[c], mems[d]) \in SUBSET Memories
  BY <1>2 DEF Merged
<1>4. PICK seen \in {mems[c], Merged(base.mems, mems[c], mems[d])} :
      \E m \in MergeTexts(base.text, text[c], text[d], seen) :
        /\ text' = [text EXCEPT ![c] = m.text]
        /\ \/ m.clean /\ GoesTo(c, "merged") /\ UNCHANGED stopped
           \/ GoesTo(c, "stopped") /\ stopped' = stopped \cup {c}
  BY DEF Merge
<1>5. PICK m \in MergeTexts(base.text, text[c], text[d], seen) :
        /\ text' = [text EXCEPT ![c] = m.text]
        /\ \/ m.clean /\ GoesTo(c, "merged") /\ UNCHANGED stopped
           \/ GoesTo(c, "stopped") /\ stopped' = stopped \cup {c}
  BY <1>4
<1>6. seen \in SUBSET Memories
  BY <1>2, <1>3, <1>4
<1>7. WellFormed(m.text) /\ GoodMerge(m, base.text, text[c], text[d])
  BY <1>1, <1>5, <1>6, MergeTextsKeep
<1>8. Becomes(c, m.text)
  BY <1>5 DEF Becomes
<1> QED
  BY <1>5, <1>7, <1>8 DEF GoodMerge

\* A pull takes the text of the other clone, compiled where a hook does so.
LEMMA PullText ==
  ASSUME TypeOK, NEW c \in Clones, NEW d \in Clones \ {c}, Pull(c, d)
  PROVE  \E y : /\ WellFormed(y) /\ Becomes(d, y) /\ WordsOf(y) = WordsOf(text[c])
                /\ \/ Shows(y, mems[c]) /\ Shown(d)
                   \/ unshown' = unshown \cup {d} /\ UNCHANGED stopped
<1>1. WellFormed(text[c]) /\ mems[c] \in SUBSET Memories
  BY DEF TypeOK
<1>2. CASE d \in Hooked
  <2> DEFINE y == Compiled(text[c], mems[c])
  <2>1. Becomes(d, y) /\ Shown(d)
    BY <1>2 DEF Pull, Becomes
  <2> HIDE DEF y
  <2>2. WellFormed(y) /\ Shows(y, mems[c]) /\ WordsOf(y) = WordsOf(text[c])
    BY <1>1, CompileKeeps DEF y
  <2> QED
    BY <2>1, <2>2
<1>3. CASE d \notin Hooked
  <2>1. Becomes(d, text[c]) /\ unshown' = unshown \cup {d} /\ UNCHANGED stopped
    BY <1>3 DEF Pull, Becomes
  <2> QED
    BY <1>1, <2>1
<1> QED
  BY <1>2, <1>3

\* Next, with what each action is given.
LEMMA Steps ==
  ASSUME TypeOK, Next
  PROVE  \/ \E c \in Clones : \E i \in 0..Len(text[c]), token \in Tokens : Insert(c, i, token)
         \/ \E c \in Clones : \E i \in 1..Len(text[c]) : Delete(c, i)
         \/ \E c \in Clones, ms \in SUBSET Memories : Command(c, ms)
         \/ \E c \in Clones, ms \in SUBSET Memories : EditMemory(c, ms)
         \/ \E c \in Clones : Compile(c)
         \/ \E c \in Clones : PostMerge(c)
         \/ \E c \in Clones : Resolve(c)
         \/ \E c \in Clones : \E d \in Clones \ {c} : Merge(c, d)
         \/ \E c \in Clones : \E d \in Clones \ {c} : Pull(c, d)
<1>1. \A c \in Clones, m \in Memories :
        mems[c] \cup {m} \in SUBSET Memories /\ mems[c] \ {m} \in SUBSET Memories
  BY DEF TypeOK
<1> QED
  BY <1>1, Zenon DEF Next

-----------------------------------------------------------------------------
\* The invariants.

TheRest ==
  /\ mems \in [Clones -> SUBSET Memories]
  /\ WellFormed(base.text) /\ base.mems \subseteq Memories
  /\ merge \in [Clones -> {"none", "merged", "stopped", "done"}]
  /\ changes \in 0..MaxChanges
  /\ unshown \subseteq Clones /\ stopped \subseteq Clones

LEMMA TypeParts == TypeOK <=> TextsFormed /\ TheRest
BY DEF TypeOK, TextsFormed, TheRest

LEMMA TypePartsNext == TypeOK' <=> TextsFormed' /\ TheRest'
BY DEF TypeOK, TextsFormed, TheRest, WellFormed, Once, BlockAt

LEMMA BaseKept ==
  ASSUME TypeOK, UNCHANGED base
  PROVE  WellFormed(base'.text) /\ base'.mems \subseteq Memories
BY DEF TypeOK

\* The other variables keep their types, whatever becomes of the texts.
LEMMA RestKept ==
  ASSUME TypeOK,
         mems' \in [Clones -> SUBSET Memories],
         WellFormed(base'.text), base'.mems \subseteq Memories,
         merge' \in [Clones -> {"none", "merged", "stopped", "done"}],
         changes' \in 0..MaxChanges, unshown' \subseteq Clones, stopped' \subseteq Clones
  PROVE  TheRest'
BY DEF TheRest, WellFormed, Once, BlockAt

\* Every text has its form in every reachable state: whatever the users type and
\* delete around the block, whichever clone compiles, merges, stops or pulls, and
\* in any order, a text holds at most one block, made by render of some memories.
THEOREM Typing == Spec => []TypeOK
<1>1. Init => TypeOK
  <2>1. SUFFICES ASSUME Init PROVE TypeOK
    OBVIOUS
  <2>2. PICK t \in Texts :
          text = [c \in Clones |-> t] /\ base = [text |-> t, mems |-> {}]
    BY <2>1 DEF Init
  <2>3. WellFormed(t)
    BY TextsAssumption
  <2>4. TextsFormed /\ WellFormed(base.text) /\ base.mems = {}
    BY <2>2, <2>3 DEF TextsFormed
  <2>5. /\ mems \in [Clones -> SUBSET Memories]
        /\ merge \in [Clones -> {"none", "merged", "stopped", "done"}]
        /\ changes \in 0..MaxChanges /\ unshown \subseteq Clones /\ stopped \subseteq Clones
    BY <2>1, ChangesAssumption DEF Init
  <2> QED
    BY <2>4, <2>5, TypeParts DEF TheRest
<1>2. TypeOK /\ [Next]_vars => TypeOK'
  <2> SUFFICES ASSUME TypeOK, [Next]_vars PROVE TypeOK'
    OBVIOUS
  <2>a. TextsFormed /\ TheRest
    BY TypeParts
  <2>b. \A c \in Clones, step \in {"none", "merged", "stopped", "done"} :
          GoesTo(c, step) => merge' \in [Clones -> {"none", "merged", "stopped", "done"}]
    BY <2>a DEF GoesTo, TheRest
  <2>c. \A c \in Clones, ms \in SUBSET Memories :
          mems' = [mems EXCEPT ![c] = ms] => mems' \in [Clones -> SUBSET Memories]
    BY <2>a DEF TheRest
  <2>d. Change => changes' \in 0..MaxChanges
    BY <2>a, ChangesAssumption DEF Change, TheRest
  <2>e. /\ UNCHANGED mems => mems' \in [Clones -> SUBSET Memories]
        /\ UNCHANGED merge => merge' \in [Clones -> {"none", "merged", "stopped", "done"}]
        /\ UNCHANGED changes => changes' \in 0..MaxChanges
        /\ UNCHANGED unshown => unshown' \subseteq Clones
        /\ UNCHANGED stopped => stopped' \subseteq Clones
        /\ \A c \in Clones : Shown(c) => unshown' \subseteq Clones /\ stopped' \subseteq Clones
    BY <2>a DEF TheRest, Shown
  <2>f. UNCHANGED text => TextsFormed'
    BY <2>a, FormedNext DEF TextsFormed
  <2>1. ASSUME NEW c \in Clones, NEW i \in 0..Len(text[c]), NEW token \in Tokens,
               Insert(c, i, token)
        PROVE  TypeOK'
    <3>1. TextsFormed'
      BY <2>1, <2>a, InsertText, OneTextFormed
    <3>2. TheRest'
      BY <2>1, <2>d, <2>e, BaseKept, RestKept DEF Insert
    <3> QED
      BY <3>1, <3>2, TypePartsNext
  <2>2. ASSUME NEW c \in Clones, NEW i \in 1..Len(text[c]), Delete(c, i)
        PROVE  TypeOK'
    <3>1. TextsFormed'
      BY <2>2, <2>a, DeleteText, OneTextFormed
    <3>2. TheRest'
      BY <2>2, <2>d, <2>e, BaseKept, RestKept DEF Delete
    <3> QED
      BY <3>1, <3>2, TypePartsNext
  <2>3. ASSUME NEW c \in Clones, NEW ms \in SUBSET Memories, Command(c, ms)
        PROVE  TypeOK'
    <3>0. text' = [text EXCEPT ![c] = Compiled(@, ms)]
      BY <2>3 DEF Command
    <3>1. TextsFormed'
      BY <3>0, <2>a, CompiledText, OneTextFormed
    <3>2. TheRest'
      BY <2>3, <2>c, <2>d, <2>e, BaseKept, RestKept DEF Command
    <3> QED
      BY <3>1, <3>2, TypePartsNext
  <2>4. ASSUME NEW c \in Clones, NEW ms \in SUBSET Memories, EditMemory(c, ms)
        PROVE  TypeOK'
    <3>1. TextsFormed'
      BY <2>4, <2>f DEF EditMemory
    <3>2. unshown' \subseteq Clones
      BY <2>4, <2>a DEF EditMemory, TheRest
    <3>3. TheRest'
      BY <2>4, <3>2, <2>c, <2>d, <2>e, BaseKept, RestKept DEF EditMemory
    <3> QED
      BY <3>1, <3>3, TypePartsNext
  <2>5. ASSUME NEW c \in Clones, Compile(c)
        PROVE  TypeOK'
    <3>0. text' = [text EXCEPT ![c] = Compiled(@, mems[c])] /\ mems[c] \in SUBSET Memories
      BY <2>5, <2>a DEF Compile, TheRest
    <3>1. TextsFormed'
      BY <3>0, <2>a, CompiledText, OneTextFormed
    <3>2. TheRest'
      BY <2>5, <2>e, BaseKept, RestKept DEF Compile
    <3> QED
      BY <3>1, <3>2, TypePartsNext
  <2>6. ASSUME NEW c \in Clones, PostMerge(c)
        PROVE  TypeOK'
    <3>0. /\ GoesTo(c, "done") /\ UNCHANGED <<mems, base, changes>>
          /\ \/ text' = [text EXCEPT ![c] = Compiled(@, mems[c])] /\ Shown(c)
             \/ unshown' = unshown \cup {c} /\ UNCHANGED <<text, stopped>>
      BY <2>6 DEF PostMerge
    <3>1. TextsFormed'
      <4>1. mems[c] \in SUBSET Memories
        BY <2>a DEF TheRest
      <4> QED
        BY <3>0, <4>1, <2>a, <2>f, CompiledText, OneTextFormed
    <3>2. unshown' \subseteq Clones /\ stopped' \subseteq Clones
      BY <3>0, <2>a, <2>e DEF TheRest
    <3>3. TheRest'
      BY <3>0, <3>2, <2>b, <2>e, BaseKept, RestKept
    <3> QED
      BY <3>1, <3>3, TypePartsNext
  <2>7. ASSUME NEW c \in Clones, Resolve(c)
        PROVE  TypeOK'
    <3>1. TextsFormed'
      BY <2>7, <2>f DEF Resolve
    <3>2. TheRest'
      BY <2>7, <2>b, <2>e, BaseKept, RestKept DEF Resolve
    <3> QED
      BY <3>1, <3>2, TypePartsNext
  <2>8. ASSUME NEW c \in Clones, NEW d \in Clones \ {c}, Merge(c, d)
        PROVE  TypeOK'
    <3>1. PICK y : /\ WellFormed(y) /\ Becomes(c, y)
                   /\ \/ GoesTo(c, "merged") /\ UNCHANGED stopped
                      \/ GoesTo(c, "stopped") /\ stopped' = stopped \cup {c}
      BY <2>8, MergeText
    <3>2. TextsFormed'
      BY <3>1, <2>a, OneTextFormed
    <3>3. mems' \in [Clones -> SUBSET Memories]
      <4>1. mems[c] \in SUBSET Memories /\ mems[d] \in SUBSET Memories
        BY <2>a DEF TheRest
      <4>2. Merged(base.mems, mems[c], mems[d]) \in SUBSET Memories
        BY <4>1 DEF Merged
      <4> QED
        BY <2>8, <4>2, <2>c DEF Merge
    <3>4. UNCHANGED <<base, changes>> /\ unshown' \subseteq Clones
      BY <2>8, <2>a DEF Merge, TheRest
    <3>5. stopped' \subseteq Clones /\ merge' \in [Clones -> {"none", "merged", "stopped", "done"}]
      BY <3>1, <2>a, <2>b DEF TheRest
    <3>6. TheRest'
      BY <3>3, <3>4, <3>5, <2>e, BaseKept, RestKept
    <3> QED
      BY <3>2, <3>6, TypePartsNext
  <2>9. ASSUME NEW c \in Clones, NEW d \in Clones \ {c}, Pull(c, d)
        PROVE  TypeOK'
    <3>1. PICK y : /\ WellFormed(y) /\ Becomes(d, y)
                   /\ Shown(d) \/ (unshown' = unshown \cup {d} /\ UNCHANGED stopped)
      BY <2>9, PullText
    <3>2. TextsFormed'
      BY <3>1, <2>a, OneTextFormed
    <3>3. /\ mems' = [mems EXCEPT ![d] = mems[c]] /\ mems[c] \in SUBSET Memories
          /\ base' = [text |-> text[c], mems |-> mems[c]] /\ WellFormed(text[c])
          /\ GoesTo(c, "none") /\ UNCHANGED changes
      BY <2>9, <2>a DEF Pull, TheRest, TextsFormed
    <3>4. WellFormed(base'.text) /\ base'.mems \subseteq Memories
      BY <3>3
    <3>5. unshown' \subseteq Clones /\ stopped' \subseteq Clones
      BY <3>1, <2>a, <2>e DEF TheRest
    <3>6. TheRest'
      BY <3>3, <3>4, <3>5, <2>b, <2>c, <2>e, RestKept
    <3> QED
      BY <3>2, <3>6, TypePartsNext
  <2>10. CASE UNCHANGED vars
    <3>1. TheRest'
      BY <2>10, <2>e, BaseKept, RestKept DEF vars
    <3> QED
      BY <2>10, <3>1, <2>f, TypePartsNext DEF vars
  <2> QED
    BY <2>1, <2>2, <2>3, <2>4, <2>5, <2>6, <2>7, <2>8, <2>9, <2>10, Steps
<1> QED
  BY <1>1, <1>2, PTL DEF Spec

\* Compiling settles in every reachable state.
THEOREM TextsSettle == Spec => []Settles
<1>1. TypeOK => Settles
  <2>1. SUFFICES ASSUME TypeOK, NEW c \in Clones
                 PROVE  Compiled(Compiled(text[c], mems[c]), mems[c]) = Compiled(text[c], mems[c])
    BY DEF Settles
  <2>2. text[c] \in Seq(Alphabet) /\ Tidy(text[c])
    BY <2>1, WellFormedIsTidy DEF TypeOK, WellFormed
  <2>3. Spells(Alphabet, mems[c])
    <3>1. mems[c] \in SUBSET Memories
      BY <2>1 DEF TypeOK
    <3> QED
      BY <3>1 DEF Spells, Alphabet, Tokens
  <2> QED
    BY <2>2, <2>3, SpliceSettles
<1> QED
  BY <1>1, Typing, PTL

\* What a clone shows after a step.
ShownBy(c) == merge[c] # "merged" => Shows(text[c], mems[c])

LEMMA ShownParts ==
  /\ BlockShows <=> \A c \in Clones \ (unshown \cup stopped) : ShownBy(c)
  /\ BlockShows' <=> \A c \in Clones \ (unshown' \cup stopped') :
                       merge'[c] # "merged" => Shows(text'[c], mems'[c])
<1>1. \A c \in Clones : Shows(text[c], mems[c])' <=> Shows(text'[c], mems'[c])
  BY DEF Shows, Marked, Has, First
<1>2. BlockShows' <=> \A c \in Clones \ (unshown' \cup stopped') :
                        merge'[c] # "merged" => Shows(text[c], mems[c])'
  BY DEF BlockShows
<1> QED
  BY <1>1, <1>2 DEF BlockShows, ShownBy

\* A clone whose step leaves the rest alone: it alone has to be looked at.
LEMMA OthersShow ==
  ASSUME TypeOK, BlockShows, NEW c \in Clones,
         \A d \in Clones \ {c} :
           text'[d] = text[d] /\ mems'[d] = mems[d] /\ merge'[d] = merge[d],
         unshown \ {c} \subseteq unshown', stopped \ {c} \subseteq stopped',
         c \in unshown' \cup stopped' \/ merge'[c] = "merged" \/ Shows(text'[c], mems'[c])
  PROVE  BlockShows'
<1>1. SUFFICES ASSUME NEW d \in Clones \ (unshown' \cup stopped'), merge'[d] # "merged"
               PROVE  Shows(text'[d], mems'[d])
  BY ShownParts
<1>2. CASE d = c
  BY <1>1, <1>2
<1>3. CASE d # c
  <2>1. d \notin unshown \cup stopped /\ merge[d] # "merged"
    BY <1>1, <1>3
  <2>2. Shows(text[d], mems[d])
    BY <2>1, ShownParts DEF ShownBy
  <2> QED
    BY <1>3, <2>2
<1> QED
  BY <1>2, <1>3

\* Wherever compile, a command or a merge with its hook was the last to touch the
\* memory files, the block shows the clone's memories, in every reachable state:
\* also where the driver ran before the merged memory files were in place, since
\* then the hook compiles once more, and whatever is typed around the block.
THEOREM BlockIsShown == Spec => []BlockShows
<1>1. Init => BlockShows
  BY DEF Init, BlockShows
<1>2. TypeOK /\ BlockShows /\ [Next]_vars => BlockShows'
  <2> SUFFICES ASSUME TypeOK, BlockShows, [Next]_vars PROVE BlockShows'
    OBVIOUS
  <2>a. TextsFormed /\ DOMAIN text = Clones
    BY TypeParts DEF TextsFormed
  <2>b. mems \in [Clones -> SUBSET Memories]
    BY DEF TypeOK
  <2>c. merge \in [Clones -> {"none", "merged", "stopped", "done"}]
    BY DEF TypeOK
  <2>d. \A c \in Clones : UNCHANGED <<unshown, stopped>> /\ merge[c] # "merged" =>
          c \in unshown' \cup stopped' \/ Shows(text[c], mems[c])
    BY ShownParts DEF ShownBy
  <2>e. \A c \in Clones : Shown(c) => unshown \ {c} \subseteq unshown' /\ stopped \ {c} \subseteq stopped'
    BY DEF Shown
  <2>f. Quiet => \A c \in Clones : merge[c] = "none"
    BY DEF Quiet
  <2>1. ASSUME NEW c \in Clones, NEW i \in 0..Len(text[c]), NEW token \in Tokens,
               Insert(c, i, token)
        PROVE  BlockShows'
    <3>1. PICK y : Becomes(c, y) /\ \A ms : Shows(text[c], ms) => Shows(y, ms)
      BY <2>1, <2>a, InsertText
    <3>2. Quiet /\ UNCHANGED <<mems, merge, unshown, stopped>>
      BY <2>1 DEF Insert, Change
    <3> QED
      BY <3>1, <3>2, <2>a, <2>d, <2>f, OneText, OthersShow
  <2>2. ASSUME NEW c \in Clones, NEW i \in 1..Len(text[c]), Delete(c, i)
        PROVE  BlockShows'
    <3>1. PICK y : Becomes(c, y) /\ \A ms : Shows(text[c], ms) => Shows(y, ms)
      BY <2>2, <2>a, DeleteText
    <3>2. Quiet /\ UNCHANGED <<mems, merge, unshown, stopped>>
      BY <2>2 DEF Delete, Change
    <3> QED
      BY <3>1, <3>2, <2>a, <2>d, <2>f, OneText, OthersShow
  <2>3. ASSUME NEW c \in Clones, NEW ms \in SUBSET Memories, Command(c, ms)
        PROVE  BlockShows'
    <3>1. /\ mems' = [mems EXCEPT ![c] = ms] /\ Shown(c) /\ UNCHANGED merge
          /\ text' = [text EXCEPT ![c] = Compiled(@, ms)]
      BY <2>3 DEF Command
    <3>2. PICK y : Becomes(c, y) /\ Shows(y, ms)
      BY <3>1, CompiledText
    <3>3. mems'[c] = ms /\ \A d \in Clones \ {c} : mems'[d] = mems[d]
      BY <3>1, <2>b
    <3> QED
      BY <3>1, <3>2, <3>3, <2>a, <2>e, OneText, OthersShow
  <2>4. ASSUME NEW c \in Clones, NEW ms \in SUBSET Memories, EditMemory(c, ms)
        PROVE  BlockShows'
    <3>1. /\ mems' = [mems EXCEPT ![c] = ms] /\ unshown' = unshown \cup {c}
          /\ UNCHANGED <<text, merge, stopped>>
      BY <2>4 DEF EditMemory
    <3>2. \A d \in Clones \ {c} : mems'[d] = mems[d]
      BY <3>1, <2>b
    <3> QED
      BY <3>1, <3>2, OthersShow
  <2>5. ASSUME NEW c \in Clones, Compile(c)
        PROVE  BlockShows'
    <3>1. /\ text' = [text EXCEPT ![c] = Compiled(@, mems[c])] /\ Shown(c)
          /\ UNCHANGED <<mems, merge>>
      BY <2>5 DEF Compile
    <3>2. mems[c] \in SUBSET Memories
      BY <2>b
    <3>3. PICK y : Becomes(c, y) /\ Shows(y, mems[c])
      BY <3>1, <3>2, CompiledText
    <3> QED
      BY <3>1, <3>3, <2>a, <2>e, OneText, OthersShow
  <2>6. ASSUME NEW c \in Clones, PostMerge(c)
        PROVE  BlockShows'
    <3>1. GoesTo(c, "done") /\ UNCHANGED mems
      BY <2>6 DEF PostMerge
    <3>2. \A d \in Clones \ {c} : merge'[d] = merge[d]
      BY <3>1, <2>c DEF GoesTo
    <3>3. CASE c \in Hooked
      <4>1. text' = [text EXCEPT ![c] = Compiled(@, mems[c])] /\ Shown(c)
        BY <2>6, <3>3 DEF PostMerge
      <4>2. mems[c] \in SUBSET Memories
        BY <2>b
      <4>3. PICK y : Becomes(c, y) /\ Shows(y, mems[c])
        BY <4>1, <4>2, CompiledText
      <4> QED
        BY <3>1, <3>2, <4>1, <4>3, <2>a, <2>e, OneText, OthersShow
    <3>4. CASE c \notin Hooked
      <4>1. unshown' = unshown \cup {c} /\ UNCHANGED <<text, stopped>>
        BY <2>6, <3>4 DEF PostMerge
      <4> QED
        BY <3>1, <3>2, <4>1, OthersShow
    <3> QED
      BY <3>3, <3>4
  <2>7. ASSUME NEW c \in Clones, Resolve(c)
        PROVE  BlockShows'
    <3>1. merge[c] = "stopped" /\ GoesTo(c, "done") /\ UNCHANGED <<text, mems, unshown, stopped>>
      BY <2>7 DEF Resolve
    <3>2. \A d \in Clones \ {c} : merge'[d] = merge[d]
      BY <3>1, <2>c DEF GoesTo
    <3>3. c \in unshown' \cup stopped' \/ Shows(text'[c], mems'[c])
      BY <3>1, <2>d
    <3> QED
      BY <3>1, <3>2, <3>3, OthersShow
  <2>8. ASSUME NEW c \in Clones, NEW d \in Clones \ {c}, Merge(c, d)
        PROVE  BlockShows'
    <3>1. PICK y : /\ Becomes(c, y)
                   /\ \/ GoesTo(c, "merged") /\ UNCHANGED stopped
                      \/ GoesTo(c, "stopped") /\ stopped' = stopped \cup {c}
      BY <2>8, MergeText
    <3>2. /\ unshown \subseteq unshown' /\ stopped \subseteq stopped'
          /\ \A e \in Clones \ {c} : mems'[e] = mems[e] /\ merge'[e] = merge[e]
      BY <2>8, <3>1, <2>b, <2>c DEF Merge, GoesTo
    <3>3. c \in stopped' \/ merge'[c] = "merged"
      BY <3>1, <2>c DEF GoesTo
    <3>4. \A e \in Clones \ {c} : text'[e] = text[e]
      BY <3>1, <2>a, OneText
    <3> QED
      BY <3>2, <3>3, <3>4, OthersShow
  <2>9. ASSUME NEW c \in Clones, NEW d \in Clones \ {c}, Pull(c, d)
        PROVE  BlockShows'
    <3>1. PICK y : /\ Becomes(d, y)
                   /\ \/ Shows(y, mems[c]) /\ Shown(d)
                      \/ unshown' = unshown \cup {d} /\ UNCHANGED stopped
      BY <2>9, PullText
    <3>2. /\ mems' = [mems EXCEPT ![d] = mems[c]] /\ GoesTo(c, "none")
          /\ merge[c] = "done" \/ merge[c] = "none"
      BY <2>9, <2>f DEF Pull
    <3>3. /\ mems'[d] = mems[c] /\ \A e \in Clones \ {d} : mems'[e] = mems[e]
          /\ \A e \in Clones \ {c} : merge'[e] = merge[e]
      BY <3>2, <2>b, <2>c DEF GoesTo
    <3>4. text'[d] = y /\ \A e \in Clones \ {d} : text'[e] = text[e]
      BY <3>1, <2>a, OneText
    <3>5. unshown \ {d} \subseteq unshown' /\ stopped \ {d} \subseteq stopped'
      BY <3>1, <2>e
    <3>6. SUFFICES ASSUME NEW e \in Clones \ (unshown' \cup stopped'), merge'[e] # "merged"
                   PROVE  Shows(text'[e], mems'[e])
      BY ShownParts
    <3>7. CASE e = d
      BY <3>1, <3>3, <3>4, <3>6, <3>7
    <3>8. CASE e # d
      <4>1. e \notin unshown \cup stopped /\ merge[e] # "merged"
        BY <3>2, <3>3, <3>5, <3>6, <3>8
      <4>2. Shows(text[e], mems[e])
        BY <4>1, ShownParts DEF ShownBy
      <4> QED
        BY <3>3, <3>4, <3>8, <4>2
    <3> QED
      BY <3>7, <3>8
  <2>10. CASE UNCHANGED vars
    <3>1. UNCHANGED <<text, mems, merge, unshown, stopped>>
      BY <2>10 DEF vars
    <3> QED
      BY <3>1, ShownParts DEF ShownBy
  <2> QED
    BY <2>1, <2>2, <2>3, <2>4, <2>5, <2>6, <2>7, <2>8, <2>9, <2>10, Steps
<1> QED
  BY <1>1, <1>2, Typing, PTL DEF Spec

\* The words around the block are the users' own: without an edit, a step leaves a
\* clone's words as they are, or makes them those it pulls, or merges them as sets,
\* where a merge that stops may keep what one side deleted.
THEOREM WordsAreKept == Spec => UserTextKept
<1> DEFINE step == changes' = changes => \A c, d \in Clones : c # d => KeepsWords(c, d)
<1>1. TypeOK /\ [Next]_vars => step \/ UNCHANGED vars
  <2>1. SUFFICES ASSUME TypeOK, Next, changes' = changes,
                        NEW x \in Clones, NEW z \in Clones, x # z
                 PROVE  KeepsWords(x, z)
    OBVIOUS
  <2> DEFINE ours == WordsOf(text[x])
             theirs == WordsOf(text[z])
             both == Merged(WordsOf(base.text), ours, theirs)
             now == WordsOf(text'[x])
             begun == Quiet /\ merge'[x] # "none"
  <2>s. ASSUME ~begun, now = ours \/ (Quiet /\ now = both) \/ (~Quiet /\ now = theirs)
        PROVE  KeepsWords(x, z)
    BY <2>s DEF KeepsWords
  <2>t. ASSUME begun, both \subseteq now, now \subseteq ours \cup theirs,
               now = both \/ merge'[x] = "stopped"
        PROVE  KeepsWords(x, z)
    BY <2>t DEF KeepsWords
  <2>a. DOMAIN text = Clones /\ changes \in Nat
    BY <2>1, ChangesAssumption DEF TypeOK
  <2>b. Clones = {x, z}
    BY <2>1, ClonesAssumption
  <2>c. ~Change
    BY <2>1, <2>a DEF Change
  <2>e. merge \in [Clones -> {"none", "merged", "stopped", "done"}]
    BY <2>1 DEF TypeOK
  <2>d. \A y : \A c \in Clones : WordsOf(y) = WordsOf(text[c]) /\ Becomes(c, y) =>
          WordsOf(text'[x]) = WordsOf(text[x])
    BY <2>a, OneText
  <2>1a. ~(\E c \in Clones : \E i \in 0..Len(text[c]), token \in Tokens : Insert(c, i, token))
    BY <2>c DEF Insert
  <2>1b. ~(\E c \in Clones : \E i \in 1..Len(text[c]) : Delete(c, i))
    BY <2>c DEF Delete
  <2>1c. ~(\E c \in Clones, ms \in SUBSET Memories : Command(c, ms) \/ EditMemory(c, ms))
    BY <2>c DEF Command, EditMemory
  <2>2. ASSUME NEW c \in Clones, Compile(c) PROVE KeepsWords(x, z)
    <3>1. text' = [text EXCEPT ![c] = Compiled(@, mems[c])] /\ mems[c] \in SUBSET Memories
      BY <2>1, <2>2 DEF Compile, TypeOK
    <3>2. now = ours
      BY <2>1, <3>1, <2>d, CompiledText
    <3>3. ~begun
      BY <2>2 DEF Compile, Quiet
    <3> QED
      BY <3>2, <3>3, <2>s
  <2>3. ASSUME NEW c \in Clones, PostMerge(c) PROVE KeepsWords(x, z)
    <3>1. /\ text' = [text EXCEPT ![c] = Compiled(@, mems[c])] \/ UNCHANGED text
          /\ mems[c] \in SUBSET Memories
      BY <2>1, <2>3 DEF PostMerge, TypeOK
    <3>2. now = ours
      BY <2>1, <3>1, <2>d, CompiledText
    <3>3. ~begun
      BY <2>3 DEF PostMerge, Quiet
    <3> QED
      BY <3>2, <3>3, <2>s
  <2>4. ASSUME NEW c \in Clones, Resolve(c) PROVE KeepsWords(x, z)
    <3>1. now = ours
      BY <2>4 DEF Resolve
    <3>2. ~begun
      BY <2>4 DEF Resolve, Quiet
    <3> QED
      BY <3>1, <3>2, <2>s
  <2>5. ASSUME NEW c \in Clones, NEW d \in Clones \ {c}, Merge(c, d) PROVE KeepsWords(x, z)
    <3> DEFINE all == Merged(WordsOf(base.text), WordsOf(text[c]), WordsOf(text[d]))
               any == WordsOf(text[c]) \cup WordsOf(text[d])
    <3>1. PICK y : /\ Becomes(c, y)
                   /\ \/ WordsOf(y) = all /\ GoesTo(c, "merged")
                      \/ GoesTo(c, "stopped")
                   /\ all \subseteq WordsOf(y) /\ WordsOf(y) \subseteq any
      BY <2>1, <2>5, MergeText
    <3>2. /\ \/ WordsOf(y) = all /\ merge'[c] = "merged"
             \/ merge'[c] = "stopped"
          /\ \A e \in Clones \ {c} : merge'[e] = merge[e]
      BY <3>1, <2>e DEF GoesTo
    <3>3. text'[c] = y /\ \A e \in Clones \ {c} : text'[e] = text[e]
      BY <3>1, <2>a, OneText
    <3>4. Quiet
      BY <2>5 DEF Merge
    <3>5. CASE x = c
      <4>1. z = d
        BY <3>5, <2>b
      <4>2. both = all /\ ours \cup theirs = any /\ now = WordsOf(y)
        BY <3>3, <3>5, <4>1
      <4>3. begun
        BY <3>2, <3>4, <3>5
      <4> HIDE DEF both, all, any, ours, theirs, now, begun
      <4> QED
        BY <3>1, <3>2, <3>5, <4>2, <4>3, <2>t
    <3>6. CASE x # c
      <4>1. now = ours
        BY <3>3, <3>6
      <4>2. ~begun
        BY <3>2, <3>4, <3>6 DEF Quiet
      <4> QED
        BY <4>1, <4>2, <2>s
    <3> QED
      BY <3>5, <3>6
  <2>6. ASSUME NEW c \in Clones, NEW d \in Clones \ {c}, Pull(c, d) PROVE KeepsWords(x, z)
    <3>5. ~begun
      BY <2>6, <2>e DEF Pull, GoesTo, Quiet
    <3>1. PICK y : Becomes(d, y) /\ WordsOf(y) = WordsOf(text[c])
      BY <2>1, <2>6, PullText
    <3>2. text'[d] = y /\ \A e \in Clones \ {d} : text'[e] = text[e]
      BY <3>1, <2>a, OneText
    <3>3. CASE x = d
      <4>1. z = c
        BY <3>3, <2>b
      <4>2. WordsOf(text'[x]) = WordsOf(text[z])
        BY <3>1, <3>2, <3>3, <4>1
      <4>3. Quiet => text[x] = base.text
        <5>1. Quiet => merge[c] # "done"
          BY DEF Quiet
        <5> QED
          BY <2>6, <3>3, <5>1 DEF Pull, Diverged
      <4>4. \A B, T : Merged(B, B, T) = T
        BY DEF Merged
      <4>5. (Quiet /\ now = both) \/ (~Quiet /\ now = theirs)
        BY <4>2, <4>3, <4>4
      <4> QED
        BY <3>5, <4>5, <2>s
    <3>4. CASE x # d
      <4>1. now = ours
        BY <3>2, <3>4
      <4> QED
        BY <3>5, <4>1, <2>s
    <3> QED
      BY <3>3, <3>4
  <2> QED
    BY <2>1, <2>1a, <2>1b, <2>1c, <2>2, <2>3, <2>4, <2>5, <2>6, Steps
<1> QED
  BY <1>1, Typing, PTL DEF Spec, UserTextKept
=============================================================================
