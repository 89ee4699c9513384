--------------------------- MODULE FrontierProofs ---------------------------
(***************************************************************************)
(* Theorems about LinkFrontier: the form of links, the site a crawl stays  *)
(* on, and the walk through sitemaps.  The first part is about recursive   *)
(* functions, the second about URLs, the third about the walk.             *)
(***************************************************************************)
EXTENDS LinkFrontier, FiniteSetTheorems, FunctionTheorems, SequenceTheorems, TLAPS

-----------------------------------------------------------------------------
(* Functions that are defined by recursion over the positions of a sequence. *)

\* What holds at 0 and passes on to the next number holds up to n.
LEMMA Induction ==
  ASSUME NEW n \in Nat, NEW S, 0 \in S, \A k \in 1 .. n : k - 1 \in S => k \in S
  PROVE  0 .. n \subseteq S
<1> DEFINE bad == (0 .. n) \ S
<1> SUFFICES ASSUME bad # {} PROVE FALSE
  OBVIOUS
<1>1. PICK x \in bad : \A y \in bad : <<y, x>> \notin OpToRel(<, Nat)
  <2>1. IsWellFoundedOn(OpToRel(<, Nat), Nat)
    BY NatLessThanWellFounded
  <2>2. bad \subseteq Nat
    OBVIOUS
  <2> HIDE DEF bad
  <2> QED
    BY <2>1, <2>2, WFMin
<1>2. x \in 1 .. n /\ x \notin S /\ x - 1 \in 0 .. n
  OBVIOUS
<1>3. <<x - 1, x>> \in OpToRel(<, Nat)
  BY <1>2 DEF OpToRel
<1>4. x - 1 \in S
  BY <1>1, <1>2, <1>3
<1> QED
  BY <1>2, <1>4

\* g is what step makes of v0 in n steps.
Unfolds(g, n, v0, step) == g[0] = v0 /\ \A k \in 1 .. n : g[k] = step[<<k, g[k - 1]>>]

LEMMA Recursion ==
  ASSUME NEW V, NEW n \in Nat, NEW v0 \in V, NEW step \in [(1 .. n) \X V -> V]
  PROVE  \E g \in [0 .. n -> V] : Unfolds(g, n, v0, step)
<1> DEFINE Upto(m) == \E g \in [0 .. m -> V] : g[0] = v0 /\ \A k \in 1 .. m : g[k] = step[<<k, g[k - 1]>>]
           S == {m \in 0 .. n : Upto(m)}
<1>1. 0 \in S
  <2>1. [k \in 0 .. 0 |-> v0] \in [0 .. 0 -> V]
    OBVIOUS
  <2>2. [k \in 0 .. 0 |-> v0][0] = v0 /\ 1 .. 0 = {}
    OBVIOUS
  <2>3. Upto(0)
    <3> DEFINE g == [k \in 0 .. 0 |-> v0]
    <3>1. g \in [0 .. 0 -> V] /\ g[0] = v0 /\ \A k \in 1 .. 0 : g[k] = step[<<k, g[k - 1]>>]
      BY <2>1, <2>2
    <3> HIDE DEF g
    <3> QED
      BY <3>1
  <2> QED
    BY <2>3
<1>2. ASSUME NEW m \in 1 .. n, m - 1 \in S
      PROVE  m \in S
  <2>1. PICK g \in [0 .. m - 1 -> V] : g[0] = v0 /\ \A k \in 1 .. m - 1 : g[k] = step[<<k, g[k - 1]>>]
    BY <1>2
  <2> DEFINE h == [k \in 0 .. m |-> IF k = m THEN step[<<m, g[m - 1]>>] ELSE g[k]]
  <2>2. g[m - 1] \in V /\ step[<<m, g[m - 1]>>] \in V
    OBVIOUS
  <2>3. h \in [0 .. m -> V]
    BY <2>2
  <2>4. h[0] = v0
    BY <2>1
  <2>5. ASSUME NEW k \in 1 .. m
        PROVE  h[k] = step[<<k, h[k - 1]>>]
    <3>1. h[k - 1] = g[k - 1]
      OBVIOUS
    <3>2. h[k] = IF k = m THEN step[<<m, g[m - 1]>>] ELSE g[k]
      OBVIOUS
    <3>3. CASE k = m
      BY <3>1, <3>2, <3>3
    <3>4. CASE k # m
      <4>1. k \in 1 .. m - 1
        BY <3>4
      <4> QED
        BY <2>1, <3>1, <3>2, <3>4, <4>1
    <3> QED
      BY <3>3, <3>4
  <2> HIDE DEF h
  <2>6. Upto(m)
    BY <2>3, <2>4, <2>5
  <2> QED
    BY <2>6
<1>3. n \in S
  <2>1. 0 .. n \subseteq S
    <3> HIDE DEF S
    <3> QED
      BY <1>1, <1>2, Induction
  <2> QED
    BY <2>1
<1> QED
  BY <1>3 DEF Unfolds

\* A function that appends one element after the other ends with all of them.
LEMMA Copied ==
  ASSUME NEW S, NEW s \in Seq(S), NEW f,
         f[0] = <<>>, \A n \in 1 .. Len(s) : f[n] = Append(f[n - 1], s[n])
  PROVE  f[Len(s)] = s
<1> DEFINE T == {n \in 0 .. Len(s) : f[n] \in Seq(S) /\ Len(f[n]) = n /\ \A k \in 1 .. n : f[n][k] = s[k]}
<1>1. Len(s) \in Nat /\ \A n \in 1 .. Len(s) : s[n] \in S
  BY ElementOfSeq, LenProperties
<1>2. 0 \in T
  <2>1. <<>> \in Seq(S) /\ Len(<<>>) = 0
    OBVIOUS
  <2>2. 0 \in 0 .. Len(s) /\ 1 .. 0 = {}
    BY <1>1
  <2> QED
    BY <2>1, <2>2
<1>3. ASSUME NEW n \in 1 .. Len(s), n - 1 \in T
      PROVE  n \in T
  <2>1. f[n - 1] \in Seq(S) /\ Len(f[n - 1]) = n - 1 /\ \A k \in 1 .. n - 1 : f[n - 1][k] = s[k]
    BY <1>3
  <2>2. f[n] = Append(f[n - 1], s[n]) /\ s[n] \in S
    BY <1>1
  <2>3. f[n] \in Seq(S) /\ Len(f[n]) = n
    BY <1>1, <2>1, <2>2, AppendProperties
  <2>4. ASSUME NEW k \in 1 .. n
        PROVE  f[n][k] = s[k]
    <3>1. CASE k = n
      BY <1>1, <2>1, <2>2, <3>1, AppendProperties
    <3>2. CASE k # n
      <4>1. k \in 1 .. n - 1
        BY <3>2
      <4> QED
        BY <1>1, <2>1, <2>2, <4>1, AppendProperties
    <3> QED
      BY <3>1, <3>2
  <2>5. n \in 0 .. Len(s)
    BY <1>1
  <2> QED
    BY <2>3, <2>4, <2>5
<1>4. Len(s) \in T
  <2> HIDE DEF T
  <2>1. 0 .. Len(s) \subseteq T
    BY <1>1, <1>2, <1>3, Induction
  <2> QED
    BY <1>1, <2>1
<1>5. f[Len(s)] \in Seq(S) /\ Len(f[Len(s)]) = Len(s) /\ \A k \in 1 .. Len(s) : f[Len(s)][k] = s[k]
  BY <1>4
<1> QED
  BY <1>5, SeqEqual

-----------------------------------------------------------------------------
(* What Select keeps.                                                      *)

\* kept[n] is what is selected of the first n elements.
Selecting(kept, s, I) ==
  /\ kept[0] = <<>>
  /\ \A n \in 1 .. Len(s) : kept[n] = IF n \in I THEN Append(kept[n - 1], s[n]) ELSE kept[n - 1]
  /\ Select(s, I) = kept[Len(s)]

LEMMA SelectDef ==
  ASSUME NEW S, NEW s \in Seq(S), NEW I
  PROVE  \E kept \in [0 .. Len(s) -> Seq(S)] : Selecting(kept, s, I)
<1> DEFINE Eq(g) == g = [n \in 0 .. Len(s) |->
                           IF n = 0 THEN <<>> ELSE IF n \in I THEN Append(g[n - 1], s[n]) ELSE g[n - 1]]
           kept == CHOOSE g : Eq(g)
<1>1. Len(s) \in Nat /\ <<>> \in Seq(S) /\ \A n \in 1 .. Len(s) : s[n] \in S
  BY LenProperties
<1>2. PICK step \in [(1 .. Len(s)) \X Seq(S) -> Seq(S)] :
        \A k \in 1 .. Len(s) : \A v \in Seq(S) : step[<<k, v>>] = IF k \in I THEN Append(v, s[k]) ELSE v
  <2> DEFINE f == [p \in (1 .. Len(s)) \X Seq(S) |-> IF p[1] \in I THEN Append(p[2], s[p[1]]) ELSE p[2]]
  <2>1. f \in [(1 .. Len(s)) \X Seq(S) -> Seq(S)]
    BY <1>1
  <2>2. ASSUME NEW k \in 1 .. Len(s), NEW v \in Seq(S)
        PROVE  f[<<k, v>>] = IF k \in I THEN Append(v, s[k]) ELSE v
    <3>1. <<k, v>> \in (1 .. Len(s)) \X Seq(S)
      OBVIOUS
    <3> QED
      BY <3>1
  <2> HIDE DEF f
  <2> QED
    BY <2>1, <2>2
<1>3. PICK g \in [0 .. Len(s) -> Seq(S)] : g[0] = <<>> /\ \A k \in 1 .. Len(s) : g[k] = step[<<k, g[k - 1]>>]
  <2> DEFINE n == Len(s)
             V == Seq(S)
             v0 == <<>>
  <2>1. n \in Nat /\ v0 \in V /\ step \in [(1 .. n) \X V -> V]
    BY <1>1
  <2> HIDE DEF kept, Eq
  <2> HIDE DEF n, V, v0
  <2>2. \E g \in [0 .. n -> V] : Unfolds(g, n, v0, step)
    BY <2>1, Recursion
  <2> QED
    BY <2>2 DEF n, V, v0, Unfolds
<1>4. Eq(g)
  <2>1. ASSUME NEW k \in 1 .. Len(s)
        PROVE  g[k] = IF k \in I THEN Append(g[k - 1], s[k]) ELSE g[k - 1]
    <3>1. k - 1 \in 0 .. Len(s)
      BY <1>1
    <3> QED
      BY <1>2, <1>3, <3>1
  <2>2. \A k \in 0 .. Len(s) : k # 0 => k \in 1 .. Len(s)
    BY <1>1
  <2> QED
    BY <1>3, <2>1, <2>2
<1>5. Eq(kept)
  <2> HIDE DEF Eq
  <2> QED
    BY <1>4
<1>6. Select(s, I) = kept[Len(s)]
  BY DEF Select
<1> HIDE DEF kept
<1>7. /\ kept[0] = <<>> /\ DOMAIN kept = 0 .. Len(s)
      /\ \A n \in 1 .. Len(s) : kept[n] = IF n \in I THEN Append(kept[n - 1], s[n]) ELSE kept[n - 1]
  <2>1. \A n \in 0 .. Len(s) : kept[n] = IF n = 0 THEN <<>> ELSE IF n \in I THEN Append(kept[n - 1], s[n]) ELSE kept[n - 1]
    BY <1>5
  <2>2. \A n \in 1 .. Len(s) : n # 0 /\ n \in 0 .. Len(s)
    BY <1>1
  <2>3. 0 \in 0 .. Len(s) /\ DOMAIN kept = 0 .. Len(s)
    BY <1>1, <1>5
  <2> HIDE DEF Eq
  <2> QED
    BY <2>1, <2>2, <2>3
<1> DEFINE T == {n \in 0 .. Len(s) : kept[n] \in Seq(S)}
<1>8. 0 \in T
  <2>1. 0 \in 0 .. Len(s)
    BY <1>1
  <2>2. kept[0] \in Seq(S)
    BY <1>1, <1>7
  <2> QED
    BY <2>1, <2>2
<1>9. ASSUME NEW n \in 1 .. Len(s), n - 1 \in T
      PROVE  n \in T
  <2>1. s[n] \in S /\ kept[n - 1] \in Seq(S) /\ n \in 0 .. Len(s)
    BY <1>1, <1>9
  <2>2. kept[n] = IF n \in I THEN Append(kept[n - 1], s[n]) ELSE kept[n - 1]
    BY <1>7
  <2>3. Append(kept[n - 1], s[n]) \in Seq(S)
    BY <2>1, AppendProperties
  <2>4. kept[n] \in Seq(S)
    BY <2>1, <2>2, <2>3
  <2> QED
    BY <2>1, <2>4
<1>10. 0 .. Len(s) \subseteq T
  <2> HIDE DEF T
  <2> QED
    BY <1>1, <1>8, <1>9, Induction
<1>11. kept = [n \in 0 .. Len(s) |-> kept[n]]
  BY <1>5
<1>12. kept \in [0 .. Len(s) -> Seq(S)]
  BY <1>10, <1>11
<1>13. Selecting(kept, s, I)
  BY <1>6, <1>7 DEF Selecting
<1> QED
  BY <1>12, <1>13

\* at lists the positions J, each once, of what sel has of s.
Picks(at, sel, s, J) ==
  /\ at \in [1 .. Len(sel) -> J]
  /\ \A k, m \in 1 .. Len(sel) : at[k] = at[m] => k = m
  /\ \A i \in J : \E k \in 1 .. Len(sel) : at[k] = i
  /\ \A k \in 1 .. Len(sel) : sel[k] = s[at[k]]

LEMMA PicksOneMore ==
  ASSUME NEW S, NEW s \in Seq(S), NEW sel \in Seq(S), NEW at, NEW J, NEW n \in 1 .. Len(s),
         Picks(at, sel, s, J), n \notin J
  PROVE  \E more : Picks(more, Append(sel, s[n]), s, J \union {n})
<1> DEFINE new == Append(sel, s[n])
           end == Len(sel) + 1
           more == [k \in 1 .. Len(new) |-> IF k = end THEN n ELSE at[k]]
<1>1. Len(s) \in Nat /\ Len(sel) \in Nat /\ s[n] \in S
  BY ElementOfSeq, LenProperties
<1>2. Len(new) = end /\ new[end] = s[n] /\ \A k \in 1 .. Len(sel) : new[k] = sel[k]
  BY <1>1, AppendProperties
<1>3. \A k \in 1 .. Len(new) : k = end \/ k \in 1 .. Len(sel)
  BY <1>1, <1>2
<1>4. /\ at \in [1 .. Len(sel) -> J]
      /\ \A k, m \in 1 .. Len(sel) : at[k] = at[m] => k = m
      /\ \A i \in J : \E k \in 1 .. Len(sel) : at[k] = i
      /\ \A k \in 1 .. Len(sel) : sel[k] = s[at[k]]
  BY DEF Picks
<1>5. end \in 1 .. Len(new) /\ \A k \in 1 .. Len(sel) : k \in 1 .. Len(new) /\ k # end
  BY <1>1, <1>2
<1> HIDE DEF new, end
<1>6. more[end] = n /\ \A k \in 1 .. Len(sel) : more[k] = at[k]
  BY <1>5
<1>7. more \in [1 .. Len(new) -> J \union {n}]
  BY <1>3, <1>4
<1> HIDE DEF more
<1>8. ASSUME NEW k \in 1 .. Len(new), NEW m \in 1 .. Len(new), more[k] = more[m]
      PROVE  k = m
  <2>1. \A j \in 1 .. Len(sel) : more[j] \in J
    BY <1>4, <1>6
  <2>2. CASE k = end
    BY <1>3, <1>6, <1>8, <2>1, <2>2
  <2>3. CASE m = end
    BY <1>3, <1>6, <1>8, <2>1, <2>3
  <2>4. CASE k \in 1 .. Len(sel) /\ m \in 1 .. Len(sel)
    BY <1>4, <1>6, <1>8, <2>4
  <2> QED
    BY <1>3, <2>2, <2>3, <2>4
<1>9. ASSUME NEW i \in J \union {n}
      PROVE  \E k \in 1 .. Len(new) : more[k] = i
  BY <1>4, <1>5, <1>6
<1>10. ASSUME NEW k \in 1 .. Len(new)
       PROVE  new[k] = s[more[k]]
  BY <1>2, <1>3, <1>4, <1>6
<1>11. Picks(more, new, s, J \union {n})
  BY <1>7, <1>8, <1>9, <1>10 DEF Picks
<1> QED
  BY <1>11 DEF new

LEMMA SelectPicks ==
  ASSUME NEW S, NEW s \in Seq(S), NEW I
  PROVE  /\ Select(s, I) \in Seq(S)
         /\ \E at : Picks(at, Select(s, I), s, I \intersect (1 .. Len(s)))
<1>1. PICK kept \in [0 .. Len(s) -> Seq(S)] : Selecting(kept, s, I)
  BY SelectDef
<1> DEFINE J(n) == I \intersect (1 .. n)
           T == {n \in 0 .. Len(s) : \E at : Picks(at, kept[n], s, J(n))}
<1>2. Len(s) \in Nat
  BY LenProperties
<1>3. /\ kept[0] = <<>>
      /\ \A n \in 1 .. Len(s) : kept[n] = IF n \in I THEN Append(kept[n - 1], s[n]) ELSE kept[n - 1]
      /\ Select(s, I) = kept[Len(s)]
  BY <1>1 DEF Selecting
<1>4. 0 \in T
  <2>1. J(0) = {} /\ 1 .. Len(kept[0]) = {} /\ 0 \in 0 .. Len(s)
    BY <1>2, <1>3
  <2> HIDE DEF J
  <2>2. Picks([k \in {} |-> 0], kept[0], s, J(0))
    BY <2>1 DEF Picks
  <2> QED
    BY <2>1, <2>2
<1>5. ASSUME NEW n \in 1 .. Len(s), n - 1 \in T
      PROVE  n \in T
  <2>1. PICK at : Picks(at, kept[n - 1], s, J(n - 1))
    BY <1>5
  <2>2. n \in 0 .. Len(s) /\ n - 1 \in 0 .. Len(s) /\ kept[n - 1] \in Seq(S)
    <3>1. n \in 0 .. Len(s) /\ n - 1 \in 0 .. Len(s)
      BY <1>2
    <3> QED
      BY <1>1, <3>1
  <2>3. 1 .. n = (1 .. n - 1) \union {n} /\ n \notin 1 .. n - 1
    <3>1. n \in Nat \ {0}
      BY <1>2
    <3> QED
      BY <3>1
  <2>4. CASE n \in I
    <3>1. J(n) = J(n - 1) \union {n} /\ n \notin J(n - 1)
      BY <2>3, <2>4
    <3>2. kept[n] = Append(kept[n - 1], s[n])
      BY <1>3, <2>4
    <3> HIDE DEF J
    <3>3. \E more : Picks(more, kept[n], s, J(n))
      BY <2>1, <2>2, <3>1, <3>2, PicksOneMore
    <3> QED
      BY <2>2, <3>3
  <2>5. CASE n \notin I
    <3>1. J(n) = J(n - 1)
      BY <2>3, <2>5
    <3>2. kept[n] = kept[n - 1]
      BY <1>3, <2>5
    <3> HIDE DEF J
    <3> QED
      BY <2>1, <2>2, <3>1, <3>2
  <2> QED
    BY <2>4, <2>5
<1>6. Len(s) \in T
  <2> HIDE DEF T
  <2>1. 0 .. Len(s) \subseteq T
    BY <1>2, <1>4, <1>5, Induction
  <2> QED
    BY <1>2, <2>1
<1>7. Select(s, I) \in Seq(S)
  BY <1>2, <1>3
<1> QED
  BY <1>6, <1>3, <1>7

\* Everything that is selected is from s, and everything at the positions is there.
LEMMA SelectElements ==
  ASSUME NEW S, NEW s \in Seq(S), NEW I
  PROVE  /\ Select(s, I) \in Seq(S)
         /\ \A k \in DOMAIN Select(s, I) : \E i \in I \intersect DOMAIN s : Select(s, I)[k] = s[i]
         /\ \A i \in I \intersect DOMAIN s : \E k \in DOMAIN Select(s, I) : Select(s, I)[k] = s[i]
<1> DEFINE sel == Select(s, I)
<1>1. sel \in Seq(S) /\ \E at : Picks(at, sel, s, I \intersect (1 .. Len(s)))
  BY SelectPicks
<1>2. DOMAIN s = 1 .. Len(s) /\ DOMAIN sel = 1 .. Len(sel)
  BY <1>1, LenProperties
<1> HIDE DEF sel
<1>3. PICK at : Picks(at, sel, s, I \intersect (1 .. Len(s)))
  BY <1>1
<1>4. /\ \A k \in DOMAIN sel : \E i \in I \intersect DOMAIN s : sel[k] = s[i]
      /\ \A i \in I \intersect DOMAIN s : \E k \in DOMAIN sel : sel[k] = s[i]
  BY <1>2, <1>3 DEF Picks
<1> QED
  BY <1>1, <1>4 DEF sel

\* Of elements that differ, none is selected twice.
LEMMA SelectInjective ==
  ASSUME NEW S, NEW s \in Seq(S), NEW I,
         \A i, j \in I \intersect DOMAIN s : s[i] = s[j] => i = j
  PROVE  \A k, m \in DOMAIN Select(s, I) : Select(s, I)[k] = Select(s, I)[m] => k = m
<1> DEFINE sel == Select(s, I)
<1>1. sel \in Seq(S) /\ \E at : Picks(at, sel, s, I \intersect (1 .. Len(s)))
  BY SelectPicks
<1>2. DOMAIN s = 1 .. Len(s) /\ DOMAIN sel = 1 .. Len(sel)
  BY <1>1, LenProperties
<1> HIDE DEF sel
<1>3. PICK at : Picks(at, sel, s, I \intersect (1 .. Len(s)))
  BY <1>1
<1>4. \A k, m \in DOMAIN sel : sel[k] = sel[m] => k = m
  BY <1>2, <1>3 DEF Picks
<1> QED
  BY <1>4 DEF sel

\* Where nothing is passed over, all of s is selected.
LEMMA SelectAll ==
  ASSUME NEW S, NEW s \in Seq(S), NEW I, DOMAIN s \subseteq I
  PROVE  Select(s, I) = s
<1>1. PICK kept \in [0 .. Len(s) -> Seq(S)] : Selecting(kept, s, I)
  BY SelectDef
<1>2. DOMAIN s = 1 .. Len(s)
  BY LenProperties
<1>3. kept[0] = <<>> /\ \A n \in 1 .. Len(s) : kept[n] = Append(kept[n - 1], s[n])
  BY <1>1, <1>2 DEF Selecting
<1>4. kept[Len(s)] = s
  BY <1>3, Copied
<1> QED
  BY <1>1, <1>4 DEF Selecting

\* Unique has the elements of s, and each of them once.
LEMMA UniqueElements ==
  ASSUME NEW S, NEW s \in Seq(S)
  PROVE  /\ Unique(s) \in Seq(S)
         /\ \A k, m \in DOMAIN Unique(s) : Unique(s)[k] = Unique(s)[m] => k = m
         /\ \A k \in DOMAIN Unique(s) : \E i \in DOMAIN s : Unique(s)[k] = s[i]
         /\ \A i \in DOMAIN s : \E k \in DOMAIN Unique(s) : Unique(s)[k] = s[i]
<1> DEFINE I == {i \in DOMAIN s : \A j \in 1 .. i - 1 : s[j] # s[i]}
           T == {n \in 0 .. Len(s) : \A i \in 1 .. n : \E j \in I : s[j] = s[i]}
<1>1. Len(s) \in Nat /\ DOMAIN s = 1 .. Len(s)
  BY LenProperties
<1>2. Unique(s) = Select(s, I)
  BY DEF Unique
<1>3. \A i, j \in I \intersect DOMAIN s : s[i] = s[j] => i = j
  <2>1. ASSUME NEW i \in I, NEW j \in I, s[i] = s[j], i # j
        PROVE  FALSE
    <3>1. i \in 1 .. Len(s) /\ j \in 1 .. Len(s)
      BY <1>1
    <3>2. CASE i < j
      BY <2>1, <3>1, <3>2
    <3>3. CASE j < i
      BY <2>1, <3>1, <3>3
    <3> QED
      BY <1>1, <2>1, <3>1, <3>2, <3>3
  <2> QED
    BY <2>1
<1>4. 0 \in T
  <2>1. 0 \in 0 .. Len(s) /\ 1 .. 0 = {}
    BY <1>1
  <2> QED
    BY <2>1
<1>5. ASSUME NEW n \in 1 .. Len(s), n - 1 \in T
      PROVE  n \in T
  <2>1. n \in 0 .. Len(s) /\ n \in DOMAIN s
    BY <1>1
  <2>2. \A i \in 1 .. n : i = n \/ i \in 1 .. n - 1
    BY <1>1
  <2>3. \A i \in 1 .. n - 1 : \E j \in I : s[j] = s[i]
    BY <1>5
  <2>4. \E j \in I : s[j] = s[n]
    <3>1. CASE \A j \in 1 .. n - 1 : s[j] # s[n]
      BY <2>1, <3>1
    <3>2. CASE \E j \in 1 .. n - 1 : s[j] = s[n]
      <4> HIDE DEF I
      <4> QED
        BY <2>3, <3>2
    <3> QED
      BY <3>1, <3>2
  <2> HIDE DEF I
  <2> QED
    BY <2>1, <2>2, <2>3, <2>4
<1>6. Len(s) \in T
  <2> HIDE DEF T
  <2>1. 0 .. Len(s) \subseteq T
    BY <1>1, <1>4, <1>5, Induction
  <2> QED
    BY <1>1, <2>1
<1>7. \A i \in DOMAIN s : \E j \in I \intersect DOMAIN s : s[j] = s[i]
  BY <1>1, <1>6
<1> HIDE DEF I
<1>8. \A k, m \in DOMAIN Select(s, I) : Select(s, I)[k] = Select(s, I)[m] => k = m
  BY <1>3, SelectInjective
<1>9. /\ Select(s, I) \in Seq(S)
      /\ \A k \in DOMAIN Select(s, I) : \E i \in I \intersect DOMAIN s : Select(s, I)[k] = s[i]
      /\ \A i \in I \intersect DOMAIN s : \E k \in DOMAIN Select(s, I) : Select(s, I)[k] = s[i]
  BY SelectElements
<1> QED
  BY <1>2, <1>7, <1>8, <1>9

-----------------------------------------------------------------------------
(* Paths.                                                                  *)

Dots == {".", ".."}

\* dir[n] is the directory the first n segments lead to.
Walking(dir, segs) ==
  /\ dir[0] = <<>>
  /\ \A n \in 1 .. Len(segs) :
       dir[n] = CASE segs[n] = "."  -> dir[n - 1]
                  [] segs[n] = ".." -> Parent(dir[n - 1])
                  [] OTHER          -> Append(dir[n - 1], segs[n])
  /\ RemoveDots(segs) = dir[Len(segs)]

\* A sequence is one over any set that its elements are of.
LEMMA Retyped ==
  ASSUME NEW S, NEW T, NEW s \in Seq(S), \A i \in 1 .. Len(s) : s[i] \in T
  PROVE  s \in Seq(T)
<1>1. SubSeq(s, 1, Len(s)) = s
  BY SubSeqFull
<1>2. 1 \in Int /\ Len(s) \in Int
  BY LenProperties
<1>3. SubSeq(s, 1, Len(s)) \in Seq(T)
  BY <1>2, SubSeqProperties
<1> QED
  BY <1>1, <1>3

LEMMA OneElement ==
  ASSUME NEW S, NEW x \in S
  PROVE  <<x>> \in Seq(S) /\ Len(<<x>>) = 1 /\ <<x>>[1] = x
OBVIOUS

LEMMA FrontType ==
  ASSUME NEW S, NEW v \in Seq(S), v # <<>>
  PROVE  /\ Front(v) \in Seq(S) /\ Len(Front(v)) = Len(v) - 1
         /\ \A i \in 1 .. Len(v) - 1 : Front(v)[i] = v[i]
<1>1. Len(v) \in Nat \ {0}
  BY EmptySeq
<1>2. \A i \in 1 .. Len(v) - 1 : v[i] \in S
  BY <1>1, ElementOfSeq
<1>3. 1 \in Int /\ Len(v) - 1 \in Int
  BY <1>1
<1>4. /\ SubSeq(v, 1, Len(v) - 1) \in Seq(S)
      /\ Len(SubSeq(v, 1, Len(v) - 1)) = IF 1 <= Len(v) - 1 THEN Len(v) - 1 - 1 + 1 ELSE 0
      /\ \A i \in 1 .. Len(v) - 1 - 1 + 1 : SubSeq(v, 1, Len(v) - 1)[i] = v[1 + i - 1]
  BY <1>2, <1>3, SubSeqProperties
<1>5. Front(v) = SubSeq(v, 1, Len(v) - 1)
  BY DEF Front
<1>6. Len(Front(v)) = Len(v) - 1
  <2> DEFINE n == Len(v)
  <2>1. n \in Nat \ {0} /\ Len(Front(v)) = IF 1 <= n - 1 THEN n - 1 - 1 + 1 ELSE 0
    BY <1>1, <1>4, <1>5
  <2> HIDE DEF n
  <2>2. Len(Front(v)) = n - 1
    BY <2>1
  <2> QED
    BY <2>2 DEF n
<1>7. \A i \in 1 .. Len(v) - 1 : Front(v)[i] = v[i]
  BY <1>1, <1>4, <1>5
<1> QED
  BY <1>4, <1>5, <1>6, <1>7

LEMMA ParentType ==
  ASSUME NEW S, NEW v \in Seq(S)
  PROVE  Parent(v) \in Seq(S)
<1>1. CASE v = <<>>
  BY <1>1 DEF Parent
<1>2. CASE v # <<>>
  BY <1>2, FrontType DEF Parent
<1> QED
  BY <1>1, <1>2

LEMMA RemoveDotsDef ==
  ASSUME NEW S, NEW segs \in Seq(S)
  PROVE  \E dir \in [0 .. Len(segs) -> Seq(S \ Dots)] : Walking(dir, segs)
<1> DEFINE n == Len(segs)
           V == Seq(S \ Dots)
           Down(v, s) == CASE s = "."  -> v
                           [] s = ".." -> Parent(v)
                           [] OTHER    -> Append(v, s)
           Eq(g) == g = [k \in 0 .. n |-> IF k = 0 THEN <<>>
                                          ELSE CASE segs[k] = "."  -> g[k - 1]
                                                 [] segs[k] = ".." -> Parent(g[k - 1])
                                                 [] OTHER          -> Append(g[k - 1], segs[k])]
           dir == CHOOSE g : Eq(g)
<1>1. n \in Nat /\ <<>> \in V /\ \A k \in 1 .. n : segs[k] \in S
  BY ElementOfSeq, LenProperties
<1>2. ASSUME NEW v \in V, NEW s \in S
      PROVE  Down(v, s) \in V
  <2>1. CASE s = "."
    BY <2>1
  <2>2. CASE s = ".."
    <3>1. Parent(v) \in V
      BY ParentType
    <3> QED
      BY <2>2, <3>1
  <2>3. CASE s \notin Dots
    <3>1. s \in S \ Dots
      BY <2>3
    <3>2. Append(v, s) \in V
      BY <3>1, AppendProperties
    <3>3. s # "." /\ s # ".."
      BY <2>3 DEF Dots
    <3> QED
      BY <3>2, <3>3
  <2> QED
    BY <2>1, <2>2, <2>3 DEF Dots
<1> HIDE DEF V
<1>3. PICK step \in [(1 .. n) \X V -> V] :
        \A k \in 1 .. n : \A v \in V : step[<<k, v>>] = Down(v, segs[k])
  <2> DEFINE f == [p \in (1 .. n) \X V |-> Down(p[2], segs[p[1]])]
  <2> HIDE DEF Down
  <2>1. f \in [(1 .. n) \X V -> V]
    BY <1>1, <1>2
  <2>2. ASSUME NEW k \in 1 .. n, NEW v \in V
        PROVE  f[<<k, v>>] = Down(v, segs[k])
    <3>1. <<k, v>> \in (1 .. n) \X V
      OBVIOUS
    <3> QED
      BY <3>1
  <2> HIDE DEF f
  <2> QED
    BY <2>1, <2>2
<1>4. PICK g \in [0 .. n -> V] : g[0] = <<>> /\ \A k \in 1 .. n : g[k] = step[<<k, g[k - 1]>>]
  <2> DEFINE v0 == <<>>
  <2>1. n \in Nat /\ v0 \in V
    BY <1>1
  <2> HIDE DEF dir, Eq, Down, n, v0
  <2>2. \E g \in [0 .. n -> V] : Unfolds(g, n, v0, step)
    BY <2>1, Recursion
  <2> QED
    BY <2>2 DEF v0, Unfolds
<1>5. Eq(g)
  <2>1. ASSUME NEW k \in 1 .. n
        PROVE  g[k] = Down(g[k - 1], segs[k])
    <3>1. k - 1 \in 0 .. n
      BY <1>1
    <3> HIDE DEF Down
    <3> QED
      BY <1>3, <1>4, <3>1
  <2>2. \A k \in 0 .. n : k # 0 => k \in 1 .. n
    BY <1>1
  <2> HIDE DEF n
  <2> QED
    BY <1>4, <2>1, <2>2
<1>6. Eq(dir)
  <2> HIDE DEF Eq
  <2> QED
    BY <1>5
<1>7. RemoveDots(segs) = dir[n]
  BY DEF RemoveDots
<1> HIDE DEF dir
<1>8. \A k \in 0 .. n : dir[k] = IF k = 0 THEN <<>> ELSE Down(dir[k - 1], segs[k])
  <2> HIDE DEF n
  <2> QED
    BY <1>6
<1>9. dir[0] = <<>> /\ \A k \in 1 .. n : dir[k] = Down(dir[k - 1], segs[k])
  <2>1. 0 \in 0 .. n /\ \A k \in 1 .. n : k # 0 /\ k \in 0 .. n
    BY <1>1
  <2> HIDE DEF Eq, Down
  <2> QED
    BY <1>8, <2>1
<1>10. dir = [k \in 0 .. n |-> dir[k]]
  <2> HIDE DEF n
  <2> QED
    BY <1>6
<1>11. Walking(dir, segs)
  BY <1>7, <1>9 DEF Walking
<1> DEFINE T == {k \in 0 .. n : dir[k] \in V}
<1>12. 0 \in T
  <2> HIDE DEF Eq, Down
  <2>1. 0 \in 0 .. n
    BY <1>1
  <2> QED
    BY <1>1, <1>9, <2>1
<1>13. ASSUME NEW k \in 1 .. n, k - 1 \in T
       PROVE  k \in T
  <2> HIDE DEF Eq, Down
  <2>1. dir[k - 1] \in V /\ segs[k] \in S /\ k \in 0 .. n
    BY <1>1, <1>13
  <2>2. dir[k] \in V
    BY <1>2, <1>9, <2>1
  <2> QED
    BY <2>1, <2>2
<1>14. 0 .. n \subseteq T
  <2> HIDE DEF T, n
  <2> QED
    BY <1>1, <1>12, <1>13, Induction
<1>15. dir \in [0 .. n -> V]
  <2> HIDE DEF n
  <2> QED
    BY <1>10, <1>14
<1> QED
  BY <1>11, <1>15 DEF V

\* Neither "." nor ".." is left.
LEMMA RemoveDotsType ==
  ASSUME NEW S, NEW segs \in Seq(S)
  PROVE  RemoveDots(segs) \in Seq(S \ Dots)
<1>1. PICK dir \in [0 .. Len(segs) -> Seq(S \ Dots)] : Walking(dir, segs)
  BY RemoveDotsDef
<1>2. Len(segs) \in 0 .. Len(segs)
  BY LenProperties
<1>3. dir[Len(segs)] \in Seq(S \ Dots)
  BY <1>2
<1> QED
  BY <1>1, <1>3 DEF Walking

\* A path without them stays as it is.
LEMMA RemoveNoDots ==
  ASSUME NEW S, NEW segs \in Seq(S), S \intersect Dots = {}
  PROVE  RemoveDots(segs) = segs
<1>1. PICK dir \in [0 .. Len(segs) -> Seq(S \ Dots)] : Walking(dir, segs)
  BY RemoveDotsDef
<1>2. \A n \in 1 .. Len(segs) : segs[n] # "." /\ segs[n] # ".."
  BY ElementOfSeq DEF Dots
<1>3. dir[0] = <<>> /\ \A n \in 1 .. Len(segs) : dir[n] = Append(dir[n - 1], segs[n])
  BY <1>1, <1>2 DEF Walking
<1>4. dir[Len(segs)] = segs
  BY <1>3, Copied
<1> QED
  BY <1>1, <1>4 DEF Walking

Plain == Segments \ {"", ".", ".."}

\* Clean leaves names only, and leaves names alone.
LEMMA CleanType ==
  ASSUME NEW segs \in Seq(Segments)
  PROVE  Clean(segs) \in Seq(Plain)
<1> DEFINE I == {i \in DOMAIN segs : segs[i] # ""}
           sel == Select(segs, I)
           Named == Segments \ {""}
<1>1. /\ sel \in Seq(Segments)
      /\ \A k \in DOMAIN sel : \E i \in I \intersect DOMAIN segs : sel[k] = segs[i]
  <2> HIDE DEF I
  <2> QED
    BY SelectElements
<1>2. \A k \in DOMAIN sel : sel[k] # ""
  BY <1>1
<1> HIDE DEF sel
<1>3. DOMAIN sel = 1 .. Len(sel)
  BY <1>1, LenProperties
<1>4. \A k \in 1 .. Len(sel) : sel[k] \in Named
  BY <1>1, <1>2, <1>3, ElementOfSeq
<1>5. sel \in Seq(Named)
  BY <1>1, <1>4, Retyped
<1>6. RemoveDots(sel) \in Seq(Named \ Dots)
  BY <1>5, RemoveDotsType
<1>7. Named \ Dots = Plain
  BY DEF Dots, Plain
<1> QED
  BY <1>6, <1>7 DEF Clean, sel

LEMMA CleanPlain ==
  ASSUME NEW segs \in Seq(Plain)
  PROVE  Clean(segs) = segs
<1> DEFINE I == {i \in DOMAIN segs : segs[i] # ""}
<1>1. \A i \in DOMAIN segs : segs[i] # ""
  <2>1. DOMAIN segs = 1 .. Len(segs)
    BY LenProperties
  <2>2. \A i \in 1 .. Len(segs) : segs[i] \in Plain
    BY ElementOfSeq
  <2> QED
    BY <2>1, <2>2 DEF Plain
<1>2. Select(segs, I) = segs
  <2>1. DOMAIN segs \subseteq I
    BY <1>1
  <2> HIDE DEF I
  <2> QED
    BY <2>1, SelectAll
<1>3. Plain \intersect Dots = {}
  BY DEF Plain, Dots
<1>4. RemoveDots(segs) = segs
  BY <1>3, RemoveNoDots
<1> QED
  BY <1>2, <1>4 DEF Clean

\* Slashes alone are the root.
NoName(x) == x = ""

LEMMA CleanSlashes ==
  ASSUME NEW S, \A x \in S : NoName(x), NEW slashes \in Seq(S)
  PROVE  Clean(slashes) = <<>>
<1> DEFINE I == {i \in DOMAIN slashes : slashes[i] # ""}
           sel == Select(slashes, I)
<1>1. I = {}
  <2>1. DOMAIN slashes = 1 .. Len(slashes)
    BY LenProperties
  <2>2. \A i \in 1 .. Len(slashes) : slashes[i] \in S
    BY ElementOfSeq
  <2> QED
    BY <2>1, <2>2 DEF NoName
<1> HIDE DEF I
<1>2. /\ sel \in Seq(S)
      /\ \A k \in DOMAIN sel : \E i \in I \intersect DOMAIN slashes : sel[k] = slashes[i]
  BY SelectElements
<1>3. DOMAIN sel = {}
  BY <1>1, <1>2
<1> HIDE DEF sel
<1>4. sel = <<>>
  BY <1>2, <1>3, EmptySeq, LenProperties
<1>5. RemoveDots(sel) = sel
  <2>1. S \intersect Dots = {}
    BY DEF Dots, NoName
  <2> QED
    BY <1>2, <2>1, RemoveNoDots
<1> QED
  BY <1>4, <1>5 DEF Clean, sel, I

\* A path that is clean once is clean.
LEMMA CleanPathTwice ==
  ASSUME NEW segs \in Seq(Segments)
  PROVE  cleanPath(segs) \in Seq(Segments) /\ cleanPath(cleanPath(segs)) = cleanPath(segs)
<1>1. Clean(segs) \in Seq(Plain)
  BY CleanType
<1>2. CASE Clean(segs) = <<>> \/ Clean(segs) \in IndexPaths
  <2>1. cleanPath(segs) = <<"">>
    BY <1>2 DEF cleanPath
  <2>2. <<"">> \in Seq(Segments)
    <3>1. "" \in Segments
      BY FormsAssumption
    <3> QED
      BY <3>1, OneElement
  <2>3. cleanPath(<<"">>) = <<"">>
    <3> DEFINE S == {""}
    <3>1. <<"">> \in Seq(S) /\ \A x \in S : NoName(x)
      BY DEF NoName
    <3> HIDE DEF S
    <3>2. Clean(<<"">>) = <<>>
      BY <3>1, CleanSlashes
    <3> QED
      BY <3>2 DEF cleanPath
  <2> QED
    BY <2>1, <2>2, <2>3
<1>3. CASE ~(Clean(segs) = <<>> \/ Clean(segs) \in IndexPaths)
  <2>1. cleanPath(segs) = Clean(segs)
    BY <1>3 DEF cleanPath
  <2>2. Clean(Clean(segs)) = Clean(segs)
    BY <1>1, CleanPlain
  <2>3. cleanPath(Clean(segs)) = Clean(segs)
    BY <1>3, <2>2 DEF cleanPath
  <2>4. Clean(segs) \in Seq(Segments)
    <3>1. Plain \subseteq Segments
      BY DEF Plain
    <3> QED
      BY <1>1, <3>1, SeqMonotonic
  <2> QED
    BY <2>1, <2>3, <2>4
<1> QED
  BY <1>2, <1>3

-----------------------------------------------------------------------------
(* URLs.                                                                   *)

LEMMA UrlFields ==
  ASSUME NEW u \in Url
  PROVE  /\ u.scheme \in Schemes /\ u.host \in Seq(Labels) /\ u.port \in Ports /\ u.rooted \in BOOLEAN
         /\ u.path \in Seq(Segments) /\ u.query \in {"none", "empty", "some"} /\ u.fragment \in BOOLEAN
BY DEF Url

\* URLs with the same components are the same.
LEMMA SameUrl ==
  ASSUME NEW u \in Url, NEW v \in Url,
         u.scheme = v.scheme, u.host = v.host, u.port = v.port, u.rooted = v.rooted,
         u.path = v.path, u.query = v.query, u.fragment = v.fragment
  PROVE  u = v
BY DEF Url

LEMMA LowerHostType ==
  ASSUME NEW u \in Url
  PROVE  /\ LowerHost(u) \in Seq(Labels) /\ Len(LowerHost(u)) = Len(u.host)
         /\ \A i \in 1 .. Len(u.host) : LowerHost(u)[i] = Lower[u.host[i]]
<1>1. u.host \in Seq(Labels)
  BY UrlFields
<1> DEFINE host == u.host
           n == Len(host)
<1>2. n \in Nat /\ \A i \in 1 .. n : host[i] \in Labels
  BY <1>1, LenProperties, ElementOfSeq
<1>3. \A i \in 1 .. n : Lower[host[i]] \in Labels
  BY <1>2, FormsAssumption
<1>4. LowerHost(u) = [i \in 1 .. n |-> Lower[host[i]]]
  BY DEF LowerHost
<1> HIDE DEF host, n
<1>5. [i \in 1 .. n |-> Lower[host[i]]] \in Seq(Labels)
  BY <1>2, <1>3
<1>6. Len([i \in 1 .. n |-> Lower[host[i]]]) = n
  BY <1>2
<1>7. LowerHost(u) \in Seq(Labels) /\ Len(LowerHost(u)) = n /\ \A i \in 1 .. n : LowerHost(u)[i] = Lower[host[i]]
  BY <1>4, <1>5, <1>6
<1> QED
  BY <1>7 DEF host, n

LEMMA CanonicalFields ==
  ASSUME NEW u \in Url
  PROVE  /\ Canonicalize(u) \in Url
         /\ Canonicalize(u).scheme = u.scheme /\ Canonicalize(u).host = LowerHost(u)
         /\ Canonicalize(u).port = PortOf(u) /\ Canonicalize(u).rooted = TRUE
         /\ Canonicalize(u).path = cleanPath(u.path) /\ Canonicalize(u).query = Query(u.query)
         /\ Canonicalize(u).fragment = FALSE
<1>1. LowerHost(u) \in Seq(Labels) /\ cleanPath(u.path) \in Seq(Segments)
  BY LowerHostType, CleanPathTwice, UrlFields
<1>2. PortOf(u) \in Ports /\ Query(u.query) \in {"none", "empty", "some"}
  <2>1. PortOf(u) \in {"", u.port}
    BY DEF PortOf
  <2>2. Query(u.query) \in {"none", u.query}
    BY DEF Query
  <2>3. u.port \in Ports /\ u.query \in {"none", "empty", "some"}
    BY UrlFields
  <2>4. PortOf(u) \in Ports
    BY <2>1, <2>3, FormsAssumption
  <2>5. Query(u.query) \in {"none", "empty", "some"}
    BY <2>2, <2>3
  <2> QED
    BY <2>4, <2>5
<1> QED
  BY <1>1, <1>2 DEF Canonicalize, Url

\* Canonicalize leaves what is canonical as it is.
LEMMA CanonicalTwice ==
  ASSUME NEW u \in Url
  PROVE  Canonicalize(Canonicalize(u)) = Canonicalize(u)
<1> DEFINE c == Canonicalize(u)
           d == Canonicalize(c)
<1>1. /\ c \in Url
      /\ c.scheme = u.scheme /\ c.host = LowerHost(u) /\ c.port = PortOf(u) /\ c.rooted = TRUE
      /\ c.path = cleanPath(u.path) /\ c.query = Query(u.query) /\ c.fragment = FALSE
  BY CanonicalFields
<1> HIDE DEF c
<1>2. /\ d \in Url
      /\ d.scheme = c.scheme /\ d.host = LowerHost(c) /\ d.port = PortOf(c) /\ d.rooted = TRUE
      /\ d.path = cleanPath(c.path) /\ d.query = Query(c.query) /\ d.fragment = FALSE
  BY <1>1, CanonicalFields
<1>3. LowerHost(c) = c.host
  <2>1. /\ c.host \in Seq(Labels) /\ Len(c.host) = Len(u.host)
        /\ \A i \in 1 .. Len(u.host) : c.host[i] = Lower[u.host[i]]
    BY <1>1, LowerHostType
  <2>2. /\ LowerHost(c) \in Seq(Labels) /\ Len(LowerHost(c)) = Len(c.host)
        /\ \A i \in 1 .. Len(c.host) : LowerHost(c)[i] = Lower[c.host[i]]
    BY <1>1, LowerHostType
  <2>3. \A i \in 1 .. Len(u.host) : u.host[i] \in Labels
    BY UrlFields, ElementOfSeq
  <2>4. \A l \in Labels : Lower[Lower[l]] = Lower[l]
    BY FormsAssumption
  <2>5. \A i \in 1 .. Len(c.host) : LowerHost(c)[i] = c.host[i]
    BY <2>1, <2>2, <2>3, <2>4
  <2> QED
    BY <2>1, <2>2, <2>5, SeqEqual
<1>4. PortOf(c) = c.port
  BY <1>1 DEF PortOf
<1>5. cleanPath(c.path) = c.path
  BY <1>1, CleanPathTwice, UrlFields
<1>6. Query(c.query) = c.query
  BY <1>1 DEF Query
<1>7. d = c
  <2> HIDE DEF d
  <2> QED
    BY <1>1, <1>2, <1>3, <1>4, <1>5, <1>6, SameUrl
<1> QED
  BY <1>7 DEF c

LEMMA DotlessType ==
  ASSUME NEW segs \in Seq(Segments)
  PROVE  RemoveDots(segs) \o (IF segs # <<>> /\ Last(segs) \in {".", ".."} THEN <<"">> ELSE <<>>) \in Seq(Segments)
<1> DEFINE end == IF segs # <<>> /\ Last(segs) \in {".", ".."} THEN <<"">> ELSE <<>>
<1>1. RemoveDots(segs) \in Seq(Segments)
  <2>1. RemoveDots(segs) \in Seq(Segments \ Dots) /\ Segments \ Dots \subseteq Segments
    BY RemoveDotsType
  <2> QED
    BY <2>1, SeqMonotonic
<1>2. end \in Seq(Segments)
  <2>1. "" \in Segments
    BY FormsAssumption
  <2>2. <<"">> \in Seq(Segments) /\ <<>> \in Seq(Segments)
    BY <2>1, OneElement, EmptySeq
  <2> QED
    BY <2>2
<1> HIDE DEF end
<1>3. RemoveDots(segs) \o end \in Seq(Segments)
  BY <1>1, <1>2, ConcatProperties
<1> QED
  BY <1>3 DEF end

LEMMA AbsoluteType ==
  ASSUME NEW base \in Url, NEW link \in Url
  PROVE  Absolute(base, link) \in Url
<1> DEFINE full == IF link.path = <<>> THEN base.path
                   ELSE IF link.rooted THEN link.path
                   ELSE (IF base.path = <<>> THEN <<>> ELSE Front(base.path)) \o link.path
           Dotless(segs) ==
             RemoveDots(segs) \o (IF segs # <<>> /\ Last(segs) \in {".", ".."} THEN <<"">> ELSE <<>>)
<1>1. full \in Seq(Segments)
  <2>1. base.path \in Seq(Segments) /\ link.path \in Seq(Segments)
    BY UrlFields
  <2> DEFINE above == IF base.path = <<>> THEN <<>> ELSE Front(base.path)
  <2>2. above \in Seq(Segments)
    BY <2>1, FrontType
  <2> HIDE DEF above
  <2>3. above \o link.path \in Seq(Segments)
    BY <2>1, <2>2, ConcatProperties
  <2> QED
    BY <2>1, <2>3 DEF above
<1>2. \A segs \in Seq(Segments) : Dotless(segs) \in Seq(Segments)
  BY DotlessType
<1>3. link.path \in Seq(Segments)
  BY UrlFields
<1> HIDE DEF full
<1>4. Dotless(full) \in Seq(Segments) /\ Dotless(link.path) \in Seq(Segments)
  <2> HIDE DEF Dotless
  <2> QED
    BY <1>1, <1>2, <1>3
<1> DEFINE query == IF link.path = <<>> /\ link.query = "none" /\ base.query = "some" THEN "some" ELSE link.query
           p == Dotless(full)
           q == Dotless(link.path)
<1>5. Resolve(base, link) = IF link.host # <<>>
                            THEN [link EXCEPT !.scheme = base.scheme, !.path = q]
                            ELSE [link EXCEPT !.scheme = base.scheme, !.host = base.host, !.port = base.port,
                                              !.rooted = TRUE, !.path = p, !.query = query]
  BY DEF Resolve, full
<1>6. query \in {"none", "empty", "some"}
  BY UrlFields
<1>7. p \in Seq(Segments) /\ q \in Seq(Segments)
  BY <1>4
<1> HIDE DEF p, q, query
<1>8. [link EXCEPT !.scheme = base.scheme, !.path = q] \in Url
  BY <1>7 DEF Url
<1>9. [link EXCEPT !.scheme = base.scheme, !.host = base.host, !.port = base.port,
                   !.rooted = TRUE, !.path = p, !.query = query] \in Url
  BY <1>6, <1>7 DEF Url
<1>10. Resolve(base, link) \in Url
  BY <1>5, <1>8, <1>9
<1> QED
  BY <1>10 DEF Absolute

\* Every link that filterLinks keeps is the canonical form of one that Keeps accepts.
LEMMA FilteredLinks ==
  ASSUME NEW base \in Url, NEW raws \in Seq(Url), NEW sameDomain
  PROVE  /\ filterLinks(base, raws, sameDomain) \in Seq(Url)
         /\ \A i \in DOMAIN filterLinks(base, raws, sameDomain) :
              \E l \in Url : /\ Keeps(base, l, sameDomain)
                             /\ filterLinks(base, raws, sameDomain)[i] = Canonicalize(Absolute(base, l))
<1> DEFINE I == {i \in DOMAIN raws : Keeps(base, raws[i], sameDomain)}
           kept == Select(raws, I)
           out == [i \in DOMAIN kept |-> Canonicalize(Absolute(base, kept[i]))]
<1>1. filterLinks(base, raws, sameDomain) = out
  BY DEF filterLinks
<1>2. /\ kept \in Seq(Url)
      /\ \A k \in DOMAIN kept : \E i \in I \intersect DOMAIN raws : kept[k] = raws[i]
  <2> HIDE DEF I
  <2> QED
    BY SelectElements
<1>3. \A i \in DOMAIN kept : Keeps(base, kept[i], sameDomain)
  BY <1>2
<1> HIDE DEF kept
<1>4. DOMAIN kept = 1 .. Len(kept) /\ Len(kept) \in Nat /\ \A i \in 1 .. Len(kept) : kept[i] \in Url
  BY <1>2, LenProperties, ElementOfSeq
<1>5. \A i \in 1 .. Len(kept) : Canonicalize(Absolute(base, kept[i])) \in Url
  BY <1>4, AbsoluteType, CanonicalFields
<1>6. out \in Seq(Url) /\ DOMAIN out = DOMAIN kept
  BY <1>4, <1>5
<1>7. \A i \in DOMAIN out : out[i] = Canonicalize(Absolute(base, kept[i]))
  OBVIOUS
<1> HIDE DEF out
<1>8. \A i \in DOMAIN out : \E l \in Url : Keeps(base, l, sameDomain) /\ out[i] = Canonicalize(Absolute(base, l))
  BY <1>3, <1>4, <1>6, <1>7
<1> QED
  BY <1>1, <1>6, <1>8

-----------------------------------------------------------------------------
(* Hosts and their subdomains.                                             *)

LEMMA SuffixMeans ==
  ASSUME NEW S, NEW s \in Seq(S), NEW t \in Seq(S)
  PROVE  IsSuffix(s, t) <=> /\ Len(s) <= Len(t)
                            /\ \A i \in 1 .. Len(s) : s[i] = t[Len(t) - Len(s) + i]
<1> DEFINE m == Len(s)
           n == Len(t)
           rs == [i \in 1 .. m |-> s[(m - i) + 1]]
           rt == [i \in 1 .. n |-> t[(n - i) + 1]]
           ends == SubSeq(rs, 1, m)
           endt == SubSeq(rt, 1, m)
<1>1. m \in Nat /\ n \in Nat /\ (\A i \in 1 .. m : s[i] \in S) /\ (\A i \in 1 .. n : t[i] \in S)
  BY LenProperties, ElementOfSeq
<1>2. IsSuffix(s, t) <=> Len(rs) <= Len(rt) /\ SubSeq(rs, 1, Len(rs)) = SubSeq(rt, 1, Len(rs))
  BY DEF IsSuffix, IsPrefix, Reverse
<1> HIDE DEF m, n
<1>3. Len(rs) = m /\ Len(rt) = n
  BY <1>1
<1>4. \A i \in 1 .. m : rs[i] = s[(m - i) + 1] /\ rs[i] \in S
  BY <1>1
<1>5. \A i \in 1 .. n : rt[i] = t[(n - i) + 1] /\ rt[i] \in S
  BY <1>1
<1>6. IsSuffix(s, t) <=> m <= n /\ ends = endt
  BY <1>2, <1>3
<1> HIDE DEF rs, rt
<1>7. ASSUME m <= n
      PROVE  ends = endt <=> \A i \in 1 .. m : rs[i] = rt[i]
  <2>1. 1 \in Int /\ m \in Int /\ \A i \in 1 .. m : rs[i] \in S /\ rt[i] \in S
    BY <1>1, <1>4, <1>5, <1>7
  <2>2. /\ ends \in Seq(S) /\ Len(ends) = IF 1 <= m THEN m - 1 + 1 ELSE 0
        /\ \A i \in 1 .. m - 1 + 1 : ends[i] = rs[1 + i - 1]
    BY <2>1, SubSeqProperties
  <2>3. /\ endt \in Seq(S) /\ Len(endt) = IF 1 <= m THEN m - 1 + 1 ELSE 0
        /\ \A i \in 1 .. m - 1 + 1 : endt[i] = rt[1 + i - 1]
    BY <2>1, SubSeqProperties
  <2> HIDE DEF ends, endt
  <2>4. Len(ends) = m /\ Len(endt) = m
    BY <1>1, <2>2, <2>3
  <2>5. \A i \in 1 .. m : ends[i] = rs[i] /\ endt[i] = rt[i]
    BY <1>1, <2>2, <2>3
  <2>6. (\A i \in 1 .. m : ends[i] = endt[i]) => ends = endt
    BY <2>2, <2>3, <2>4, SeqEqual
  <2> QED
    BY <2>5, <2>6
<1>8. ASSUME m <= n
      PROVE  (\A i \in 1 .. m : rs[i] = rt[i]) <=> (\A i \in 1 .. m : s[i] = t[n - m + i])
  <2>1. ASSUME NEW i \in 1 .. m
        PROVE  /\ (m - i) + 1 \in 1 .. m
               /\ rs[i] = s[(m - i) + 1] /\ rt[i] = t[n - m + ((m - i) + 1)]
               /\ rs[(m - i) + 1] = s[i] /\ rt[(m - i) + 1] = t[n - m + i]
    <3>1. /\ (m - i) + 1 \in 1 .. m /\ i \in 1 .. n /\ (m - i) + 1 \in 1 .. n
          /\ (m - ((m - i) + 1)) + 1 = i /\ (n - ((m - i) + 1)) + 1 = n - m + i
          /\ (n - i) + 1 = n - m + ((m - i) + 1)
      BY <1>1, <1>8
    <3> QED
      BY <1>4, <1>5, <3>1
  <2> QED
    BY <2>1
<1>9. IsSuffix(s, t) <=> m <= n /\ \A i \in 1 .. m : s[i] = t[n - m + i]
  BY <1>6, <1>7, <1>8
<1> QED
  BY <1>9 DEF m, n

LEMMA SuffixReflexive ==
  ASSUME NEW S, NEW s \in Seq(S)
  PROVE  IsSuffix(s, s)
<1> DEFINE n == Len(s)
<1>1. n \in Nat
  BY LenProperties
<1> HIDE DEF n
<1>2. n <= n /\ \A i \in 1 .. n : n - n + i = i
  BY <1>1
<1> QED
  BY <1>2, SuffixMeans DEF n

LEMMA SuffixTransitive ==
  ASSUME NEW S, NEW s \in Seq(S), NEW t \in Seq(S), NEW u \in Seq(S),
         IsSuffix(s, t), IsSuffix(t, u)
  PROVE  IsSuffix(s, u)
<1> DEFINE l == Len(s)
           m == Len(t)
           n == Len(u)
<1>1. l \in Nat /\ m \in Nat /\ n \in Nat
  BY LenProperties
<1>2. l <= m /\ \A i \in 1 .. l : s[i] = t[m - l + i]
  BY SuffixMeans
<1>3. m <= n /\ \A i \in 1 .. m : t[i] = u[n - m + i]
  BY SuffixMeans
<1> HIDE DEF l, m, n
<1>4. ASSUME NEW i \in 1 .. l
      PROVE  s[i] = u[n - l + i]
  <2>1. m - l + i \in 1 .. m /\ n - m + (m - l + i) = n - l + i
    BY <1>1, <1>2, <1>3
  <2> QED
    BY <1>2, <1>3, <2>1
<1>5. l <= n
  BY <1>1, <1>2, <1>3
<1> QED
  BY <1>4, <1>5, SuffixMeans DEF l, n

-----------------------------------------------------------------------------
(* The walk through the sitemaps: types.                                   *)

Frame == [depth : 0 .. maxDepth, locs : Seq(Sitemaps)]

LEMMA Limits == limit \in Nat \ {0} /\ maxDepth \in Nat \ {0}
BY SitesAssumption DEF limit, maxDepth

\* Advanced takes the first <loc> from the call on top of the stack.
LEMMA Advance ==
  ASSUME TypeOK, InLoop
  PROVE  /\ Len(stack) \in Nat \ {0} /\ Top = stack[Len(stack)]
         /\ Top.depth \in 0 .. maxDepth /\ Top.locs \in Seq(Sitemaps) /\ Top.locs # <<>>
         /\ Head(Top.locs) \in Sitemaps
         /\ Advanced \in Seq(Frame) /\ Len(Advanced) = Len(stack)
         /\ \A k \in 1 .. Len(stack) - 1 : Advanced[k] = stack[k]
         /\ Advanced[Len(stack)].depth = Top.depth /\ Advanced[Len(stack)].locs = Tail(Top.locs)
<1>1. stack \in Seq(Frame) /\ stack # <<>> /\ Top.locs # <<>>
  BY DEF TypeOK, InLoop, Frame
<1>2. Len(stack) \in Nat \ {0}
  BY <1>1, EmptySeq
<1>3. Top = stack[Len(stack)]
  BY DEF Top, Last
<1>4. Top \in Frame
  BY <1>1, <1>2, <1>3, ElementOfSeq
<1>5. Top.depth \in 0 .. maxDepth /\ Top.locs \in Seq(Sitemaps)
  BY <1>4 DEF Frame
<1>6. Head(Top.locs) \in Sitemaps /\ Tail(Top.locs) \in Seq(Sitemaps)
  BY <1>1, <1>5, HeadTailProperties
<1> DEFINE below == Front(stack)
           top == [Top EXCEPT !.locs = Tail(@)]
<1>7. top \in Frame /\ top.depth = Top.depth /\ top.locs = Tail(Top.locs)
  BY <1>4, <1>6 DEF Frame
<1>8. /\ below \in Seq(Frame) /\ Len(below) = Len(stack) - 1
      /\ \A k \in 1 .. Len(stack) - 1 : below[k] = stack[k]
  BY <1>1, FrontType
<1>9. Advanced = Append(below, top)
  BY DEF Advanced
<1> HIDE DEF below, top
<1>10. /\ Append(below, top) \in Seq(Frame) /\ Len(Append(below, top)) = Len(below) + 1
       /\ \A k \in 1 .. Len(below) : Append(below, top)[k] = below[k]
       /\ Append(below, top)[Len(below) + 1] = top
  BY <1>7, <1>8, AppendProperties
<1>11. Len(below) + 1 = Len(stack)
  BY <1>2, <1>8
<1>12. \A k \in 1 .. Len(stack) - 1 : Advanced[k] = stack[k]
  BY <1>8, <1>9, <1>10
<1>13. Advanced[Len(stack)] = top
  BY <1>9, <1>10, <1>11
<1> QED
  BY <1>1, <1>2, <1>3, <1>5, <1>6, <1>7, <1>9, <1>10, <1>11, <1>12, <1>13

\* What NewLocs takes of a urlset was not seen, occurs once, and fits; and it takes
\* everything unless the limit is reached.
LEMMA NewLocsTaken ==
  ASSUME NEW S, NEW locs \in Seq(S), NEW already, Len(raw) \in Nat, Len(raw) <= limit
  PROVE  /\ NewLocs(locs, already) \in Seq(S)
         /\ Len(raw) + Len(NewLocs(locs, already)) <= limit
         /\ \A k, m \in DOMAIN NewLocs(locs, already) :
              NewLocs(locs, already)[k] = NewLocs(locs, already)[m] => k = m
         /\ \A k \in DOMAIN NewLocs(locs, already) : NewLocs(locs, already)[k] \notin already
         /\ Len(raw) + Len(NewLocs(locs, already)) < limit =>
              \A i \in DOMAIN locs : \/ locs[i] \in already
                                     \/ \E k \in DOMAIN NewLocs(locs, already) :
                                          NewLocs(locs, already)[k] = locs[i]
<1> DEFINE I == {i \in DOMAIN locs : locs[i] \notin already}
           fresh == Select(locs, I)
           new == Unique(fresh)
           room == limit - Len(raw)
           n == Len(new)
           size == IF n < room THEN n ELSE room
           taken == SubSeq(new, 1, size)
<1>1. NewLocs(locs, already) = taken
  BY DEF NewLocs
<1>2. /\ fresh \in Seq(S)
      /\ \A k \in DOMAIN fresh : \E i \in I \intersect DOMAIN locs : fresh[k] = locs[i]
      /\ \A i \in I \intersect DOMAIN locs : \E k \in DOMAIN fresh : fresh[k] = locs[i]
  <2> HIDE DEF I
  <2> QED
    BY SelectElements
<1>3. (\A k \in DOMAIN fresh : fresh[k] \notin already) /\ \A i \in DOMAIN locs : locs[i] \in already \/ i \in I
  BY <1>2
<1> HIDE DEF I, fresh
<1>4. /\ new \in Seq(S)
      /\ \A k, m \in DOMAIN new : new[k] = new[m] => k = m
      /\ \A k \in DOMAIN new : \E i \in DOMAIN fresh : new[k] = fresh[i]
      /\ \A i \in DOMAIN fresh : \E k \in DOMAIN new : new[k] = fresh[i]
  BY <1>2, UniqueElements
<1> HIDE DEF new
<1> DEFINE had == Len(raw)
<1>5. n \in Nat /\ DOMAIN new = 1 .. n /\ \A k \in 1 .. n : new[k] \in S
  BY <1>4, LenProperties, ElementOfSeq
<1>6. had \in Nat /\ had <= limit /\ limit \in Nat
  BY Limits
<1> HIDE DEF n, had
<1>7. room \in Nat /\ had + room = limit
  BY <1>6 DEF had
<1> HIDE DEF room
<1>8. size \in 0 .. n /\ size <= room /\ (size < room => size = n)
  BY <1>5, <1>7
<1> HIDE DEF size
<1>9. /\ taken \in Seq(S) /\ Len(taken) = IF 1 <= size THEN size - 1 + 1 ELSE 0
      /\ \A k \in 1 .. size - 1 + 1 : taken[k] = new[1 + k - 1]
  <2>1. 1 \in Int /\ size \in Int /\ \A k \in 1 .. size : new[k] \in S
    BY <1>5, <1>8
  <2> QED
    BY <2>1, SubSeqProperties
<1> HIDE DEF taken
<1>10. Len(taken) = size
  BY <1>5, <1>8, <1>9
<1>11. DOMAIN taken = 1 .. size
  BY <1>9, <1>10, LenProperties
<1>12. \A k \in 1 .. size : taken[k] = new[k] /\ k \in DOMAIN new
  BY <1>5, <1>8, <1>9
<1>13. had + size <= limit /\ (had + size < limit => size = n)
  BY <1>5, <1>6, <1>7, <1>8
<1>14. \A k, m \in DOMAIN taken : taken[k] = taken[m] => k = m
  BY <1>4, <1>11, <1>12
<1>15. \A k \in DOMAIN taken : taken[k] \notin already
  BY <1>3, <1>4, <1>11, <1>12
<1>16. ASSUME had + size < limit, NEW i \in DOMAIN locs, locs[i] \notin already
       PROVE  \E k \in DOMAIN taken : taken[k] = locs[i]
  <2>1. DOMAIN taken = DOMAIN new
    BY <1>5, <1>11, <1>13, <1>16
  <2>2. \E k \in DOMAIN new : new[k] = locs[i]
    BY <1>2, <1>3, <1>4, <1>16
  <2> QED
    BY <1>11, <1>12, <2>1, <2>2
<1>17. had + Len(taken) <= limit
  BY <1>10, <1>13
<1>18. had + Len(taken) < limit =>
         \A i \in DOMAIN locs : locs[i] \in already \/ \E k \in DOMAIN taken : taken[k] = locs[i]
  BY <1>10, <1>16
<1> QED
  BY <1>1, <1>9, <1>14, <1>15, <1>17, <1>18 DEF had

\* A urlset that is fetched adds <loc>s of pages.
LEMMA Taken ==
  ASSUME TypeOK, NEW s \in Sitemaps, site.content[s].kind = "urlset"
  PROVE  /\ site.content[s].locs \in Seq(DOMAIN Loc)
         /\ Len(raw) \in Nat /\ Len(raw) <= limit
<1>1. site.content[s] \in Document /\ raw \in Seq(DOMAIN Loc) /\ Len(raw) <= limit
  BY SitesAssumption DEF TypeOK
<1>2. site.content[s].locs \in Seq(DOMAIN Loc)
  BY <1>1 DEF Document
<1>3. Len(raw) \in Nat
  BY <1>1, LenProperties
<1> QED
  BY <1>1, <1>2, <1>3

\* The <loc>s FetchSitemap adds.
New == LET s == Head(Top.locs)
       IN  IF site.content[s].kind = "urlset" THEN NewLocs(site.content[s].locs, Marked(s)) ELSE <<>>

LEMMA NewType ==
  ASSUME TypeOK, InLoop
  PROVE  /\ New \in Seq(DOMAIN Loc) /\ raw \o New \in Seq(DOMAIN Loc)
         /\ Len(raw) \in Nat /\ Len(New) \in Nat
         /\ Len(raw \o New) = Len(raw) + Len(New) /\ Len(raw) + Len(New) <= limit
         /\ \A k \in 1 .. Len(raw) : (raw \o New)[k] = raw[k]
         /\ \A k \in 1 .. Len(New) : (raw \o New)[Len(raw) + k] = New[k]
<1> DEFINE s == Head(Top.locs)
<1>1. s \in Sitemaps
  BY Advance
<1>2. raw \in Seq(DOMAIN Loc) /\ Len(raw) <= limit
  BY DEF TypeOK
<1>3. Len(raw) \in Nat
  BY <1>2, LenProperties
<1>4. New \in Seq(DOMAIN Loc) /\ Len(raw) + Len(New) <= limit
  <2>1. CASE site.content[s].kind = "urlset"
    <3> DEFINE locs == site.content[s].locs
               already == Marked(s)
    <3>1. locs \in Seq(DOMAIN Loc)
      BY <1>1, <2>1, Taken
    <3>2. New = NewLocs(locs, already)
      BY <2>1 DEF New
    <3> HIDE DEF locs, already
    <3>3. NewLocs(locs, already) \in Seq(DOMAIN Loc) /\ Len(raw) + Len(NewLocs(locs, already)) <= limit
      BY <1>2, <1>3, <3>1, NewLocsTaken
    <3> QED
      BY <3>2, <3>3
  <2>2. CASE site.content[s].kind # "urlset"
    <3>1. New = <<>>
      BY <2>2 DEF New
    <3>2. New \in Seq(DOMAIN Loc) /\ Len(New) = 0
      BY <3>1, EmptySeq
    <3> QED
      BY <1>2, <1>3, <3>2
  <2> QED
    BY <2>1, <2>2
<1>5. Len(New) \in Nat
  BY <1>4, LenProperties
<1>6. /\ raw \o New \in Seq(DOMAIN Loc) /\ Len(raw \o New) = Len(raw) + Len(New)
      /\ \A i \in 1 .. Len(raw) + Len(New) :
           (raw \o New)[i] = IF i <= Len(raw) THEN raw[i] ELSE New[i - Len(raw)]
  BY <1>2, <1>4, ConcatProperties
<1> DEFINE m == Len(raw)
           n == Len(New)
           all == raw \o New
<1>7. m \in Nat /\ n \in Nat /\ \A i \in 1 .. m + n : all[i] = IF i <= m THEN raw[i] ELSE New[i - m]
  BY <1>3, <1>5, <1>6
<1> HIDE DEF m, n, all
<1>8. \A k \in 1 .. m : all[k] = raw[k]
  BY <1>7
<1>9. \A k \in 1 .. n : all[m + k] = New[k]
  <2>1. \A k \in 1 .. n : m + k \in 1 .. m + n /\ ~(m + k <= m) /\ (m + k) - m = k
    BY <1>7
  <2> QED
    BY <1>7, <2>1
<1> QED
  BY <1>3, <1>4, <1>5, <1>6, <1>8, <1>9 DEF m, n, all

\* The types are kept by every step.
LEMMA InitTypes == Init => TypeOK
<1> SUFFICES ASSUME Init PROVE TypeOK
  OBVIOUS
<1>1. seed \in Seeds /\ site \in Sites /\ page \in Url /\ depth \in 0 .. MaxDepth
  BY SitesAssumption DEF Init
<1>2. pc \in {"read", "sitemaps", "collected"}
  BY DEF Init
<1>3. \A S : <<>> \in Seq(S) /\ Len(<<>>) = 0
  BY EmptySeq
<1>4. /\ links \in Seq(Url)
      /\ stack \in Seq([depth : 0 .. maxDepth, locs : Seq(Sitemaps)])
      /\ asked \in Seq([map : Sitemaps, depth : 1 .. maxDepth])
      /\ raw \in Seq(DOMAIN Loc)
  BY <1>3 DEF Init
<1>5. Len(raw) <= limit
  BY <1>3, Limits DEF Init
<1>6. lost \subseteq Sitemaps /\ seen \subseteq Sitemaps \union DOMAIN Loc
  BY DEF Init
<1> QED
  BY <1>1, <1>2, <1>4, <1>5, <1>6 DEF TypeOK

LEMMA ReadPageTypes ==
  ASSUME TypeOK, ReadPage
  PROVE  TypeOK'
<1>1. PICK rawLinks \in Pages : links' = Unique(filterLinks(page, rawLinks, SameDomain))
  BY DEF ReadPage
<1>2. rawLinks \in Seq(Url) /\ page \in Url
  BY SitesAssumption DEF TypeOK
<1>3. filterLinks(page, rawLinks, SameDomain) \in Seq(Url)
  BY <1>2, FilteredLinks
<1>4. links' \in Seq(Url)
  BY <1>1, <1>3, UniqueElements
<1>5. stack' \in Seq(Frame)
  <2>1. CASE depth = 0
    <3>1. stack' = <<[depth |-> 0, locs |-> site.robots]>>
      BY <2>1 DEF ReadPage
    <3>2. site.robots \in Seq(Sitemaps)
      BY SitesAssumption DEF TypeOK
    <3>3. [depth |-> 0, locs |-> site.robots] \in Frame
      BY <3>2, Limits DEF Frame
    <3> QED
      BY <3>1, <3>3, OneElement
  <2>2. CASE depth # 0
    BY <2>2 DEF ReadPage, TypeOK, Frame
  <2> QED
    BY <2>1, <2>2
<1>6. pc' \in {"read", "sitemaps", "collected"}
  BY DEF ReadPage
<1>7. UNCHANGED <<seed, site, page, depth, asked, lost, raw, seen>>
  BY DEF ReadPage
<1> QED
  BY <1>4, <1>5, <1>6, <1>7 DEF TypeOK, Frame

\* The sitemap that the call on top fetches, and that it marks.
LEMMA LoopTypes ==
  ASSUME TypeOK, InLoop
  PROVE  /\ Marked(Head(Top.locs)) \subseteq Sitemaps \union DOMAIN Loc
         /\ Top.depth + 1 <= maxDepth =>
              Append(asked, [map |-> Head(Top.locs), depth |-> Top.depth + 1])
                \in Seq([map : Sitemaps, depth : 1 .. maxDepth])
<1> DEFINE s == Head(Top.locs)
           d == Top.depth
           entry == [map |-> s, depth |-> d + 1]
           Entry == [map : Sitemaps, depth : 1 .. maxDepth]
<1>1. s \in Sitemaps /\ d \in 0 .. maxDepth
  BY Advance
<1>2. Marked(s) \subseteq seen \union {s}
  BY DEF Marked
<1>3. seen \subseteq Sitemaps \union DOMAIN Loc /\ asked \in Seq(Entry)
  BY DEF TypeOK
<1>4. ASSUME d + 1 <= maxDepth
      PROVE  Append(asked, entry) \in Seq(Entry)
  <2> HIDE DEF d, s
  <2>1. d + 1 \in 1 .. maxDepth
    BY <1>1, <1>4, Limits
  <2>2. entry \in Entry
    BY <1>1, <2>1
  <2> HIDE DEF entry, Entry
  <2> QED
    BY <1>3, <2>2, AppendProperties
<1> QED
  BY <1>1, <1>2, <1>3, <1>4

LEMMA PassOverTypes ==
  ASSUME TypeOK, PassOver
  PROVE  TypeOK'
<1>1. InLoop /\ stack' = Advanced /\ seen' = Marked(Head(Top.locs))
      /\ UNCHANGED <<seed, site, page, depth, pc, links, asked, lost, raw>>
  BY DEF PassOver
<1>2. stack' \in Seq(Frame) /\ seen' \subseteq Sitemaps \union DOMAIN Loc
  BY <1>1, Advance, LoopTypes
<1> QED
  BY <1>1, <1>2 DEF TypeOK, Frame

LEMMA FetchFailsTypes ==
  ASSUME TypeOK, FetchFails
  PROVE  TypeOK'
<1> DEFINE s == Head(Top.locs)
<1>1. InLoop /\ stack' = Advanced /\ seen' = Marked(s) /\ Top.depth + 1 <= maxDepth
      /\ asked' = Append(asked, [map |-> s, depth |-> Top.depth + 1]) /\ lost' = lost \union {s}
      /\ UNCHANGED <<seed, site, page, depth, pc, links, raw>>
  BY DEF FetchFails
<1>2. stack' \in Seq(Frame) /\ seen' \subseteq Sitemaps \union DOMAIN Loc /\ s \in Sitemaps
  BY <1>1, Advance, LoopTypes
<1>3. asked' \in Seq([map : Sitemaps, depth : 1 .. maxDepth])
  BY <1>1, LoopTypes
<1>4. lost' \subseteq Sitemaps
  BY <1>1, <1>2 DEF TypeOK
<1>5. raw' \in Seq(DOMAIN Loc) /\ Len(raw') <= limit /\ links' \in Seq(Url)
      /\ seed' \in Seeds /\ site' \in Sites /\ page' \in Url /\ depth' \in 0 .. MaxDepth
      /\ pc' \in {"read", "sitemaps", "collected"}
  BY <1>1 DEF TypeOK
<1> QED
  BY <1>2, <1>3, <1>4, <1>5 DEF TypeOK, Frame

\* What a fetch of a sitemap does, its three kinds apart.
LEMMA Fetched ==
  ASSUME TypeOK, FetchSitemap
  PROVE  /\ InLoop /\ ~Skipped(Head(Top.locs)) /\ Top.depth + 1 <= maxDepth
         /\ asked' = Append(asked, [map |-> Head(Top.locs), depth |-> Top.depth + 1])
         /\ raw' = raw \o New
         /\ seen' = Marked(Head(Top.locs)) \union ToSet(New)
         /\ site.content[Head(Top.locs)].kind = "index" =>
              stack' = Append(Advanced, [depth |-> Top.depth + 1, locs |-> site.content[Head(Top.locs)].locs])
         /\ site.content[Head(Top.locs)].kind # "index" => stack' = Advanced
         /\ UNCHANGED <<seed, site, page, depth, pc, links, lost>>
BY DEF FetchSitemap, New

LEMMA Entered ==
  ASSUME TypeOK, InLoop, Top.depth + 1 <= maxDepth, site.content[Head(Top.locs)].kind = "index"
  PROVE  /\ site.content[Head(Top.locs)].locs \in Seq(Sitemaps)
         /\ [depth |-> Top.depth + 1, locs |-> site.content[Head(Top.locs)].locs] \in Frame
<1> DEFINE s == Head(Top.locs)
           d == Top.depth
<1>1. s \in Sitemaps /\ d \in 0 .. maxDepth
  BY Advance
<1>2. site.content[s] \in Document
  BY <1>1, SitesAssumption DEF TypeOK
<1>3. site.content[s].locs \in Seq(Sitemaps)
  BY <1>2 DEF Document
<1> HIDE DEF d
<1>4. d + 1 \in 0 .. maxDepth
  BY <1>1, Limits DEF d
<1> HIDE DEF s
<1>5. [depth |-> d + 1, locs |-> site.content[s].locs] \in Frame
  BY <1>3, <1>4 DEF Frame
<1> QED
  BY <1>3, <1>5 DEF d, s

LEMMA FetchSitemapTypes ==
  ASSUME TypeOK, FetchSitemap
  PROVE  TypeOK'
<1> DEFINE s == Head(Top.locs)
<1>1. /\ InLoop /\ Top.depth + 1 <= maxDepth
      /\ asked' = Append(asked, [map |-> s, depth |-> Top.depth + 1])
      /\ raw' = raw \o New /\ seen' = Marked(s) \union ToSet(New)
      /\ UNCHANGED <<seed, site, page, depth, pc, links, lost>>
  BY Fetched
<1>2. raw' \in Seq(DOMAIN Loc) /\ Len(raw') <= limit
  BY <1>1, NewType
<1>3. ToSet(New) \subseteq DOMAIN Loc
  <2>1. New \in Seq(DOMAIN Loc)
    BY <1>1, NewType
  <2>2. DOMAIN New = 1 .. Len(New) /\ \A k \in 1 .. Len(New) : New[k] \in DOMAIN Loc
    BY <2>1, LenProperties, ElementOfSeq
  <2> QED
    BY <2>2 DEF ToSet
<1>4. seen' \subseteq Sitemaps \union DOMAIN Loc
  BY <1>1, <1>3, LoopTypes
<1>5. asked' \in Seq([map : Sitemaps, depth : 1 .. maxDepth])
  BY <1>1, LoopTypes
<1>6. stack' \in Seq(Frame)
  <2>1. Advanced \in Seq(Frame)
    BY <1>1, Advance
  <2>2. CASE site.content[s].kind = "index"
    <3> DEFINE frame == [depth |-> Top.depth + 1, locs |-> site.content[s].locs]
    <3>1. frame \in Frame /\ stack' = Append(Advanced, frame)
      BY <1>1, <2>2, Entered, Fetched
    <3> HIDE DEF frame
    <3> QED
      BY <2>1, <3>1, AppendProperties
  <2>3. CASE site.content[s].kind # "index"
    BY <2>1, <2>3, Fetched
  <2> QED
    BY <2>2, <2>3
<1>7. links' \in Seq(Url) /\ lost' \subseteq Sitemaps
      /\ seed' \in Seeds /\ site' \in Sites /\ page' \in Url /\ depth' \in 0 .. MaxDepth
      /\ pc' \in {"read", "sitemaps", "collected"}
  BY <1>1 DEF TypeOK
<1> QED
  BY <1>2, <1>4, <1>5, <1>6, <1>7 DEF TypeOK, Frame

LEMMA ReturnTypes ==
  ASSUME TypeOK, Return
  PROVE  TypeOK'
<1>1. stack \in Seq(Frame) /\ stack # <<>> /\ stack' = Front(stack)
  BY DEF TypeOK, Return, Frame
<1>2. stack' \in Seq(Frame)
  BY <1>1, FrontType
<1> QED
  BY <1>2 DEF TypeOK, Return, Frame

\* The <loc>s that were collected, as links.
LEMMA Located ==
  ASSUME TypeOK
  PROVE  [i \in DOMAIN raw |-> Loc[raw[i]]] \in Seq(Url)
<1>1. raw \in Seq(DOMAIN Loc)
  BY DEF TypeOK
<1>2. Len(raw) \in Nat /\ DOMAIN raw = 1 .. Len(raw) /\ \A i \in 1 .. Len(raw) : raw[i] \in DOMAIN Loc
  BY <1>1, LenProperties, ElementOfSeq
<1>3. \A i \in 1 .. Len(raw) : Loc[raw[i]] \in Url
  BY <1>2, SitesAssumption
<1> QED
  BY <1>2, <1>3

LEMMA CollectedTypes ==
  ASSUME TypeOK, Collected
  PROVE  TypeOK'
<1> DEFINE located == [i \in DOMAIN raw |-> Loc[raw[i]]]
           found == filterLinks(page, located, SameDomain)
<1>1. links' = Unique(links \o found) /\ pc' = "collected" /\ UNCHANGED <<seed, site, page, depth, walk>>
  BY DEF Collected
<1>2. links \in Seq(Url) /\ page \in Url
  BY DEF TypeOK
<1>3. found \in Seq(Url)
  <2>1. located \in Seq(Url)
    BY Located
  <2> HIDE DEF located
  <2> QED
    BY <1>2, <2>1, FilteredLinks
<1> HIDE DEF found
<1>4. links' \in Seq(Url)
  BY <1>1, <1>2, <1>3, ConcatProperties, UniqueElements
<1> QED
  BY <1>1, <1>4 DEF TypeOK, walk

LEMMA FollowLinkTypes ==
  ASSUME TypeOK, FollowLink
  PROVE  TypeOK'
<1>1. PICK i \in DOMAIN links : page' = links[i]
  BY DEF FollowLink
<1>2. page' \in Url
  BY <1>1, LenProperties, ElementOfSeq DEF TypeOK
<1>3. depth' \in 0 .. MaxDepth
  BY SitesAssumption DEF TypeOK, FollowLink
<1>4. \A S : <<>> \in Seq(S) /\ Len(<<>>) = 0
  BY EmptySeq
<1>5. /\ links' \in Seq(Url)
      /\ asked' \in Seq([map : Sitemaps, depth : 1 .. maxDepth])
      /\ raw' \in Seq(DOMAIN Loc)
  BY <1>4 DEF FollowLink
<1>6. Len(raw') <= limit
  BY <1>4, Limits DEF FollowLink
<1>7. pc' \in {"read", "sitemaps", "collected"} /\ lost' = {} /\ seen' = {} /\ UNCHANGED <<seed, site, stack>>
  BY DEF FollowLink
<1> QED
  BY <1>2, <1>3, <1>5, <1>6, <1>7 DEF TypeOK

LEMMA StepTypes == TypeOK /\ [Next]_vars => TypeOK'
<1> SUFFICES ASSUME TypeOK, [Next]_vars PROVE TypeOK'
  OBVIOUS
<1>1. CASE ReadPage
  BY <1>1, ReadPageTypes
<1>2. CASE PassOver
  BY <1>2, PassOverTypes
<1>3. CASE FetchFails
  BY <1>3, FetchFailsTypes
<1>4. CASE FetchSitemap
  BY <1>4, FetchSitemapTypes
<1>5. CASE Return
  BY <1>5, ReturnTypes
<1>6. CASE Collected
  BY <1>6, CollectedTypes
<1>7. CASE FollowLink
  BY <1>7, FollowLinkTypes
<1>8. CASE UNCHANGED vars
  BY <1>8 DEF vars, TypeOK
<1> QED
  BY <1>1, <1>2, <1>3, <1>4, <1>5, <1>6, <1>7, <1>8 DEF Next

\* The walk never leaves its limits: no call is nested deeper than maxDepth, and what is
\* collected fits the limit (worker.go:635-703).
THEOREM FrontierTypes == Spec => []TypeOK
<1>1. Init => TypeOK
  BY InitTypes
<1>2. TypeOK /\ [Next]_vars => TypeOK'
  BY StepTypes
<1> QED
  BY <1>1, <1>2, PTL DEF Spec

-----------------------------------------------------------------------------
(* Links.                                                                  *)

\* The page at hand, and its links, are on the site of the seed.
OnSite(u) == IsSuffix(LowerHost(seed), LowerHost(u))

\* A page's own host is the base of its links, so that the page is part of the invariant.
SiteInv == SameDomain => OnSite(page) /\ \A i \in DOMAIN links : OnSite(links[i])

LinkInv == LinksAreCanonical /\ SiteInv

LEMMA InitLinks == Init => LinkInv
<1> SUFFICES ASSUME Init PROVE LinkInv
  OBVIOUS
<1>1. links = <<>> /\ page = seed /\ seed \in Url
  BY SitesAssumption DEF Init
<1>2. DOMAIN links = {}
  BY <1>1
<1>3. OnSite(page)
  BY <1>1, LowerHostType, SuffixReflexive DEF OnSite
<1> QED
  BY <1>2, <1>3 DEF LinkInv, LinksAreCanonical, SiteInv

\* What filterLinks keeps is canonical, and on the site if the page is.
LEMMA FilteredOnSite ==
  ASSUME TypeOK, NEW l \in Url, Keeps(page, l, SameDomain), SameDomain => OnSite(page)
  PROVE  LET u == Canonicalize(Absolute(page, l))
         IN  u \in Url /\ Canonicalize(u) = u /\ (SameDomain => OnSite(u))
<1> DEFINE a == Absolute(page, l)
           u == Canonicalize(a)
<1>1. page \in Url /\ seed \in Url
  BY SitesAssumption DEF TypeOK
<1>2. a \in Url
  BY <1>1, AbsoluteType
<1> HIDE DEF a
<1>3. u \in Url /\ u.host = LowerHost(a) /\ Canonicalize(u) = u
  BY <1>2, CanonicalFields, CanonicalTwice
<1>4. LowerHost(u) = LowerHost(a)
  <2>1. Canonicalize(u).host = LowerHost(u)
    BY <1>3, CanonicalFields
  <2> HIDE DEF u
  <2> QED
    BY <1>3, <2>1
<1>5. ASSUME SameDomain
      PROVE  OnSite(u)
  <2>1. IsSuffix(LowerHost(page), LowerHost(a))
    BY <1>5 DEF Keeps, sameHostOrSubdomain, a
  <2>2. IsSuffix(LowerHost(seed), LowerHost(page))
    BY <1>5 DEF OnSite
  <2>3. LowerHost(seed) \in Seq(Labels) /\ LowerHost(page) \in Seq(Labels) /\ LowerHost(a) \in Seq(Labels)
    BY <1>1, <1>2, LowerHostType
  <2>4. IsSuffix(LowerHost(seed), LowerHost(a))
    BY <2>1, <2>2, <2>3, SuffixTransitive
  <2> QED
    BY <1>4, <2>4 DEF OnSite
<1> QED
  BY <1>3, <1>5 DEF a

LEMMA FilteredGood ==
  ASSUME TypeOK, NEW raws \in Seq(Url), SameDomain => OnSite(page)
  PROVE  LET found == filterLinks(page, raws, SameDomain)
         IN  /\ found \in Seq(Url)
             /\ \A i \in DOMAIN found :
                  Canonicalize(found[i]) = found[i] /\ (SameDomain => OnSite(found[i]))
<1> DEFINE found == filterLinks(page, raws, SameDomain)
<1>1. page \in Url
  BY DEF TypeOK
<1>2. /\ found \in Seq(Url)
      /\ \A i \in DOMAIN found : \E l \in Url : /\ Keeps(page, l, SameDomain)
                                               /\ found[i] = Canonicalize(Absolute(page, l))
  BY <1>1, FilteredLinks
<1> HIDE DEF found
<1>3. ASSUME NEW i \in DOMAIN found
      PROVE  Canonicalize(found[i]) = found[i] /\ (SameDomain => OnSite(found[i]))
  <2>1. PICK l \in Url : Keeps(page, l, SameDomain) /\ found[i] = Canonicalize(Absolute(page, l))
    BY <1>2
  <2> QED
    BY <2>1, FilteredOnSite
<1> QED
  BY <1>2, <1>3 DEF found

\* Taking each once keeps all of this.
LEMMA UniqueGood ==
  ASSUME NEW all \in Seq(Url), links' = Unique(all), UNCHANGED <<seed, page>>, SameDomain => OnSite(page),
         \A i \in DOMAIN all : Canonicalize(all[i]) = all[i] /\ (SameDomain => OnSite(all[i]))
  PROVE  LinkInv'
<1>1. /\ \A k, m \in DOMAIN Unique(all) : Unique(all)[k] = Unique(all)[m] => k = m
      /\ \A k \in DOMAIN Unique(all) : \E i \in DOMAIN all : Unique(all)[k] = all[i]
  BY UniqueElements
<1>2. \A u : OnSite(u)' <=> OnSite(u)
  BY DEF OnSite, LowerHost
<1>3. LinksAreCanonical'
  BY <1>1 DEF LinksAreCanonical
<1>4. SiteInv'
  BY <1>1, <1>2 DEF SiteInv
<1> QED
  BY <1>3, <1>4 DEF LinkInv

LEMMA ReadPageLinks ==
  ASSUME TypeOK, LinkInv, ReadPage
  PROVE  LinkInv'
<1>1. PICK rawLinks \in Pages : links' = Unique(filterLinks(page, rawLinks, SameDomain))
  BY DEF ReadPage
<1>2. rawLinks \in Seq(Url) /\ (SameDomain => OnSite(page))
  BY SitesAssumption DEF LinkInv, SiteInv
<1> DEFINE found == filterLinks(page, rawLinks, SameDomain)
<1>3. /\ found \in Seq(Url)
      /\ \A i \in DOMAIN found : Canonicalize(found[i]) = found[i] /\ (SameDomain => OnSite(found[i]))
  BY <1>2, FilteredGood
<1>4. links' = Unique(found) /\ UNCHANGED <<seed, page>>
  BY <1>1 DEF ReadPage
<1> HIDE DEF found
<1> QED
  BY <1>2, <1>3, <1>4, UniqueGood

LEMMA CollectedLinks ==
  ASSUME TypeOK, LinkInv, Collected
  PROVE  LinkInv'
<1> DEFINE located == [i \in DOMAIN raw |-> Loc[raw[i]]]
           found == filterLinks(page, located, SameDomain)
           all == links \o found
<1>1. links' = Unique(all) /\ UNCHANGED <<seed, page>>
  BY DEF Collected
<1>2. located \in Seq(Url) /\ (SameDomain => OnSite(page))
  BY Located DEF LinkInv, SiteInv
<1>3. /\ found \in Seq(Url)
      /\ \A i \in DOMAIN found : Canonicalize(found[i]) = found[i] /\ (SameDomain => OnSite(found[i]))
  <2> HIDE DEF located
  <2> QED
    BY <1>2, FilteredGood
<1>4. /\ links \in Seq(Url)
      /\ \A i \in DOMAIN links : Canonicalize(links[i]) = links[i] /\ (SameDomain => OnSite(links[i]))
  BY DEF TypeOK, LinkInv, LinksAreCanonical, SiteInv
<1> HIDE DEF found
<1>5. /\ all \in Seq(Url) /\ Len(all) = Len(links) + Len(found)
      /\ \A i \in 1 .. Len(links) + Len(found) :
           all[i] = IF i <= Len(links) THEN links[i] ELSE found[i - Len(links)]
  BY <1>3, <1>4, ConcatProperties
<1> HIDE DEF all
<1>6. \A i \in DOMAIN all : (\E j \in DOMAIN links : all[i] = links[j]) \/ (\E j \in DOMAIN found : all[i] = found[j])
  <2> DEFINE m == Len(links)
             n == Len(found)
  <2>1. /\ m \in Nat /\ n \in Nat /\ DOMAIN links = 1 .. m /\ DOMAIN found = 1 .. n
        /\ DOMAIN all = 1 .. m + n
        /\ \A i \in 1 .. m + n : all[i] = IF i <= m THEN links[i] ELSE found[i - m]
    BY <1>3, <1>4, <1>5, LenProperties
  <2> HIDE DEF m, n
  <2>2. ASSUME NEW i \in 1 .. m + n
        PROVE  (\E j \in 1 .. m : all[i] = links[j]) \/ (\E j \in 1 .. n : all[i] = found[j])
    <3>1. CASE i <= m
      <4>1. i \in 1 .. m
        BY <2>1, <3>1
      <4> QED
        BY <2>1, <3>1, <4>1
    <3>2. CASE ~(i <= m)
      <4>1. i - m \in 1 .. n
        BY <2>1, <3>2
      <4> QED
        BY <2>1, <3>2, <4>1
    <3> QED
      BY <3>1, <3>2
  <2> QED
    BY <2>1, <2>2
<1>7. \A i \in DOMAIN all : Canonicalize(all[i]) = all[i] /\ (SameDomain => OnSite(all[i]))
  BY <1>3, <1>4, <1>6
<1> QED
  BY <1>1, <1>2, <1>5, <1>7, UniqueGood

LEMMA FollowLinkLinks ==
  ASSUME TypeOK, LinkInv, FollowLink
  PROVE  LinkInv'
<1>1. PICK i \in DOMAIN links : page' = links[i]
  BY DEF FollowLink
<1>2. links' = <<>> /\ UNCHANGED seed
  BY DEF FollowLink
<1>3. DOMAIN links' = {}
  BY <1>2
<1>4. SameDomain => OnSite(links[i])
  BY DEF LinkInv, SiteInv
<1>5. SameDomain => OnSite(page)'
  BY <1>1, <1>2, <1>4 DEF OnSite, LowerHost
<1> QED
  BY <1>3, <1>5 DEF LinkInv, LinksAreCanonical, SiteInv

LEMMA StepLinks == TypeOK /\ LinkInv /\ [Next]_vars => LinkInv'
<1> SUFFICES ASSUME TypeOK, LinkInv, [Next]_vars PROVE LinkInv'
  OBVIOUS
<1>1. CASE ReadPage
  BY <1>1, ReadPageLinks
<1>2. CASE Collected
  BY <1>2, CollectedLinks
<1>3. CASE FollowLink
  BY <1>3, FollowLinkLinks
<1>4. ASSUME UNCHANGED <<seed, page, links>>
      PROVE  LinkInv'
  <2>1. \A u : OnSite(u)' <=> OnSite(u)
    BY <1>4 DEF OnSite, LowerHost
  <2> QED
    BY <1>4, <2>1 DEF LinkInv, LinksAreCanonical, SiteInv
<1>5. CASE PassOver \/ FetchFails \/ FetchSitemap \/ Return \/ UNCHANGED vars
  <2>1. UNCHANGED <<seed, page, links>>
    BY <1>5 DEF PassOver, FetchFails, FetchSitemap, Return, vars
  <2> QED
    BY <1>4, <2>1
<1> QED
  BY <1>1, <1>2, <1>3, <1>5 DEF Next

LEMMA LinksHold == Spec => [](TypeOK /\ LinkInv)
<1>1. Init => TypeOK /\ LinkInv
  BY InitTypes, InitLinks
<1>2. TypeOK /\ LinkInv /\ [Next]_vars => (TypeOK /\ LinkInv)'
  BY StepTypes, StepLinks
<1> QED
  BY <1>1, <1>2, PTL DEF Spec

\* Whatever the pages and sitemaps hold, a link that is stored is in the form Canonicalize
\* leaves alone, and occurs once (worker.go:572-615, urlutil.go:13-28).
THEOREM LinksKeepTheirForm == Spec => []LinksAreCanonical
<1>1. TypeOK /\ LinkInv => LinksAreCanonical
  BY DEF LinkInv
<1> QED
  BY <1>1, LinksHold, PTL

\* With same_domain no chain of links, of any length, leaves the host of the seed and
\* its subdomains (worker.go:573,592).
THEOREM CrawlStaysOnSite == Spec => []StaysOnSite
<1>1. ASSUME TypeOK, LinkInv
      PROVE  StaysOnSite
  <2>1. ASSUME NEW i \in DOMAIN links
        PROVE  LowerHost(links[i]) = links[i].host
    <3>1. links[i] \in Url
      BY <1>1, LenProperties, ElementOfSeq DEF TypeOK
    <3>2. Canonicalize(links[i]) = links[i]
      BY <1>1 DEF LinkInv, LinksAreCanonical
    <3>3. Canonicalize(links[i]).host = LowerHost(links[i])
      BY <3>1, CanonicalFields
    <3> QED
      BY <3>2, <3>3
  <2> QED
    BY <1>1, <2>1 DEF LinkInv, SiteInv, OnSite, StaysOnSite
<1> QED
  BY <1>1, LinksHold, PTL

-----------------------------------------------------------------------------
(* The walk through the sitemaps: what the calls on the stack have left.   *)

\* How many sitemaps of robots.txt the walk has left, and has seen.
Left     == IF stack = <<>> THEN 0 ELSE Len(stack[1].locs)
Consumed == Len(site.robots) - Left

WalkInv ==
  /\ pc # "sitemaps" => stack = <<>>
  /\ pc = "read" => asked = <<>> /\ raw = <<>> /\ seen = {}
  /\ \A k \in DOMAIN stack : stack[k].depth = k - 1
  /\ Left <= Len(site.robots)
  /\ \A i \in 1 .. Left : stack[1].locs[i] = site.robots[Consumed + i]

LEMMA Counts ==
  ASSUME TypeOK
  PROVE  /\ site.robots \in Seq(Sitemaps) /\ Len(site.robots) \in Nat /\ Left \in Nat /\ Len(stack) \in Nat
         /\ DOMAIN stack = 1 .. Len(stack)
         /\ stack # <<>> => 1 \in DOMAIN stack /\ Left = Len(stack[1].locs) /\ stack[1].locs \in Seq(Sitemaps)
<1>1. site.robots \in Seq(Sitemaps) /\ stack \in Seq(Frame)
  BY SitesAssumption DEF TypeOK, Frame
<1>2. Len(site.robots) \in Nat /\ Len(stack) \in Nat /\ DOMAIN stack = 1 .. Len(stack)
  BY <1>1, LenProperties
<1>3. ASSUME stack # <<>>
      PROVE  1 \in DOMAIN stack /\ Left = Len(stack[1].locs) /\ stack[1].locs \in Seq(Sitemaps)
  <2>1. Len(stack) \in Nat \ {0}
    BY <1>1, <1>3, EmptySeq
  <2>2. 1 \in 1 .. Len(stack)
    BY <2>1
  <2>3. stack[1] \in Frame
    BY <1>1, <2>2, ElementOfSeq
  <2> QED
    BY <1>2, <1>3, <2>2, <2>3 DEF Frame, Left
<1>4. Left \in Nat
  <2>1. CASE stack = <<>>
    BY <2>1 DEF Left
  <2>2. CASE stack # <<>>
    BY <1>3, <2>2, LenProperties
  <2> QED
    BY <2>1, <2>2
<1> QED
  BY <1>1, <1>2, <1>3, <1>4

Loop == PassOver \/ FetchFails \/ FetchSitemap

\* The stack after a step of the loop: the call on top has seen one <loc>, and a call
\* for an index may be above it.
LEMMA StackAfter ==
  ASSUME TypeOK, Loop
  PROVE  /\ InLoop
         /\ stack' \in Seq(Frame) /\ Len(stack) \in Nat \ {0}
         /\ \A k \in 1 .. Len(stack) - 1 : stack'[k] = stack[k]
         /\ stack'[Len(stack)].depth = Top.depth /\ stack'[Len(stack)].locs = Tail(Top.locs)
         /\ \/ Len(stack') = Len(stack)
            \/ /\ Len(stack') = Len(stack) + 1
               /\ FetchSitemap /\ site.content[Head(Top.locs)].kind = "index"
               /\ stack'[Len(stack) + 1].depth = Top.depth + 1
               /\ stack'[Len(stack) + 1].locs = site.content[Head(Top.locs)].locs
         /\ FetchSitemap /\ site.content[Head(Top.locs)].kind = "index" => Len(stack') = Len(stack) + 1
         /\ UNCHANGED <<seed, site, page, depth, pc, links>>
<1> DEFINE s == Head(Top.locs)
           n == Len(stack)
<1>1. InLoop /\ UNCHANGED <<seed, site, page, depth, pc, links>>
  BY DEF Loop, PassOver, FetchFails, FetchSitemap
<1>2. /\ n \in Nat \ {0} /\ Advanced \in Seq(Frame) /\ Len(Advanced) = n
      /\ \A k \in 1 .. n - 1 : Advanced[k] = stack[k]
      /\ Advanced[n].depth = Top.depth /\ Advanced[n].locs = Tail(Top.locs)
  BY <1>1, Advance
<1>3. CASE ~(FetchSitemap /\ site.content[s].kind = "index")
  <2>1. CASE PassOver \/ FetchFails
    BY <1>1, <1>2, <1>3, <2>1 DEF PassOver, FetchFails
  <2>2. CASE FetchSitemap
    BY <1>1, <1>2, <1>3, <2>2, Fetched
  <2> QED
    BY <2>1, <2>2 DEF Loop
<1>4. CASE FetchSitemap /\ site.content[s].kind = "index"
  <2> DEFINE frame == [depth |-> Top.depth + 1, locs |-> site.content[s].locs]
  <2>1. frame \in Frame /\ stack' = Append(Advanced, frame)
    BY <1>1, <1>4, Entered, Fetched
  <2>2. frame.depth = Top.depth + 1 /\ frame.locs = site.content[s].locs
    OBVIOUS
  <2> HIDE DEF frame
  <2>3. /\ stack' \in Seq(Frame) /\ Len(stack') = Len(Advanced) + 1
        /\ \A k \in 1 .. Len(Advanced) : stack'[k] = Advanced[k]
        /\ stack'[Len(Advanced) + 1] = frame
    BY <1>2, <2>1, AppendProperties
  <2> HIDE DEF n
  <2>4. Len(stack') = n + 1 /\ stack'[n + 1] = frame /\ \A k \in 1 .. n : stack'[k] = Advanced[k]
    BY <1>2, <2>3
  <2>5. (\A k \in 1 .. n - 1 : stack'[k] = stack[k]) /\ stack'[n] = Advanced[n]
    BY <1>2, <2>4
  <2> QED
    BY <1>1, <1>2, <1>4, <2>2, <2>3, <2>4, <2>5 DEF n
<1> QED
  BY <1>3, <1>4

\* The call at the bottom sees the sitemaps of robots.txt in their order.
LEMMA WalkAfter ==
  ASSUME TypeOK, WalkInv, Loop
  PROVE  /\ WalkInv'
         /\ Top.depth = Len(stack) - 1
         /\ Consumed \in Nat
         /\ Len(stack) = 1 => Consumed' = Consumed + 1 /\ Head(Top.locs) = site.robots[Consumed + 1]
         /\ Len(stack) > 1 => Consumed' = Consumed
<1> DEFINE n == Len(stack)
           r == Len(site.robots)
           top == Top.locs
<1>1. /\ InLoop /\ Top = stack[n] /\ n \in Nat \ {0}
      /\ top \in Seq(Sitemaps) /\ top # <<>> /\ Top.depth \in 0 .. maxDepth
  BY StackAfter, Advance
<1>2. /\ stack' \in Seq(Frame)
      /\ \A k \in 1 .. n - 1 : stack'[k] = stack[k]
      /\ stack'[n].depth = Top.depth /\ stack'[n].locs = Tail(top)
      /\ \/ Len(stack') = n
         \/ Len(stack') = n + 1 /\ stack'[n + 1].depth = Top.depth + 1
      /\ UNCHANGED <<site, pc>>
  BY StackAfter
<1>3. r \in Nat /\ Left \in Nat /\ DOMAIN stack = 1 .. n /\ 1 \in DOMAIN stack /\ stack # <<>>
      /\ Left = Len(stack[1].locs)
  BY <1>1, Counts DEF InLoop
<1>4. /\ pc = "sitemaps" /\ \A k \in 1 .. n : stack[k].depth = k - 1
      /\ Left <= r /\ \A i \in 1 .. Left : stack[1].locs[i] = site.robots[Consumed + i]
      /\ Consumed = r - Left
  BY <1>1, <1>3 DEF WalkInv, InLoop, Consumed
<1>5. Head(top) = top[1] /\ Len(Tail(top)) = Len(top) - 1 /\ \A i \in 1 .. Len(top) - 1 : Tail(top)[i] = top[i + 1]
  BY <1>1, HeadTailProperties
<1>6. Len(top) \in Nat \ {0}
  BY <1>1, EmptySeq
<1> HIDE DEF top, n, r
<1>7. Top.depth = n - 1
  BY <1>1, <1>4
<1>8. DOMAIN stack' = 1 .. Len(stack') /\ stack' # <<>> /\ Len(stack') \in Nat
  <2>1. DOMAIN stack' = 1 .. Len(stack') /\ Len(stack') \in Nat
    BY <1>2, LenProperties
  <2>2. Len(stack') # 0
    BY <1>1, <1>2
  <2> QED
    BY <2>1, <2>2, EmptySeq
<1>9. \A k \in DOMAIN stack' : stack'[k].depth = k - 1
  <2>1. ASSUME NEW k \in 1 .. Len(stack')
        PROVE  k \in 1 .. n - 1 \/ k = n \/ (k = n + 1 /\ Len(stack') = n + 1)
    BY <1>1, <1>2
  <2>2. ASSUME NEW k \in 1 .. Len(stack')
        PROVE  stack'[k].depth = k - 1
    <3>1. CASE k \in 1 .. n - 1
      <4>1. k \in 1 .. n
        BY <1>1, <3>1
      <4> QED
        BY <1>2, <1>4, <3>1, <4>1
    <3>2. CASE k = n
      BY <1>2, <1>7, <3>2
    <3>3. CASE k = n + 1 /\ Len(stack') = n + 1
      <4>1. stack'[k].depth = Top.depth + 1
        BY <1>1, <1>2, <3>3
      <4> QED
        BY <1>1, <1>7, <3>3, <4>1
    <3> QED
      BY <2>1, <3>1, <3>2, <3>3
  <2> QED
    BY <1>8, <2>2
<1>10. Left' = Len(stack'[1].locs) /\ Consumed' = r - Left'
  BY <1>2, <1>8 DEF Left, Consumed, r
<1>11. CASE n = 1
  <2>1. stack[1].locs = top /\ stack'[1].locs = Tail(top)
    BY <1>1, <1>2, <1>11 DEF top
  <2>2. Left = Len(top) /\ Left' = Len(top) - 1
    BY <1>3, <1>5, <1>10, <2>1
  <2>3. Left >= 1 /\ Left' = Left - 1 /\ Left' <= r /\ Consumed' = Consumed + 1 /\ Consumed \in Nat
    BY <1>3, <1>4, <1>6, <1>10, <2>2
  <2>4. Head(top) = site.robots[Consumed + 1]
    <3>1. 1 \in 1 .. Left
      BY <1>3, <2>3
    <3> QED
      BY <1>4, <1>5, <2>1, <3>1
  <2>5. ASSUME NEW i \in 1 .. Left'
        PROVE  stack'[1].locs[i] = site'.robots[Consumed' + i]
    <3>1. i \in 1 .. Len(top) - 1 /\ i + 1 \in 1 .. Left /\ Consumed' + i = Consumed + (i + 1)
      BY <1>3, <2>2, <2>3
    <3>2. stack'[1].locs[i] = top[i + 1]
      BY <1>5, <2>1, <3>1
    <3>3. top[i + 1] = site.robots[Consumed + (i + 1)]
      BY <1>4, <2>1, <3>1
    <3> QED
      BY <1>2, <3>1, <3>2, <3>3
  <2>6. WalkInv'
    BY <1>2, <1>4, <1>9, <2>3, <2>5 DEF WalkInv, r
  <2> QED
    BY <1>7, <1>11, <2>3, <2>4, <2>6 DEF n, top
<1>12. CASE n > 1
  <2>1. 1 \in 1 .. n - 1
    BY <1>1, <1>12
  <2>2. stack'[1] = stack[1]
    BY <1>2, <2>1
  <2>3. Left' = Left /\ Consumed' = Consumed /\ Consumed \in Nat
    BY <1>3, <1>4, <1>10, <2>2
  <2>4. WalkInv'
    BY <1>2, <1>4, <1>9, <2>2, <2>3 DEF WalkInv, r
  <2>5. n # 1
    BY <1>1, <1>12
  <2> QED
    BY <1>7, <2>3, <2>4, <2>5 DEF n
<1> QED
  BY <1>1, <1>11, <1>12

LEMMA ReturnWalk ==
  ASSUME TypeOK, WalkInv, Return
  PROVE  /\ WalkInv' /\ Consumed \in Nat /\ Consumed' \in Nat /\ Consumed <= Consumed'
         /\ Top.locs = <<>> => Consumed' = Consumed
<1> DEFINE n == Len(stack)
           r == Len(site.robots)
<1>1. /\ stack # <<>> /\ stack' = Front(stack) /\ pc = "sitemaps"
      /\ UNCHANGED <<pc, site, asked, raw, seen>>
  BY DEF Return
<1>2. r \in Nat /\ Left \in Nat /\ DOMAIN stack = 1 .. n /\ n \in Nat \ {0} /\ Left = Len(stack[1].locs)
  <2>1. n \in Nat \ {0}
    BY <1>1, EmptySeq DEF TypeOK
  <2> QED
    BY <1>1, <2>1, Counts
<1>3. stack' \in Seq(Frame) /\ Len(stack') = n - 1 /\ \A k \in 1 .. n - 1 : stack'[k] = stack[k]
  BY <1>1, FrontType DEF TypeOK, Frame
<1>4. /\ \A k \in 1 .. n : stack[k].depth = k - 1
      /\ Left <= r /\ \A i \in 1 .. Left : stack[1].locs[i] = site.robots[Consumed + i]
      /\ Consumed = r - Left
  BY <1>2 DEF WalkInv, Consumed
<1>5. DOMAIN stack' = 1 .. n - 1
  BY <1>3, LenProperties
<1> HIDE DEF n, r
<1>6. \A k \in DOMAIN stack' : stack'[k].depth = k - 1
  <2>1. \A k \in 1 .. n - 1 : k \in 1 .. n
    BY <1>2
  <2> QED
    BY <1>3, <1>4, <1>5, <2>1
<1>7. CASE n = 1
  <2>1. stack' = <<>>
    BY <1>3, <1>7, EmptySeq
  <2>2. Left' = 0 /\ Consumed' = r - Left'
    BY <1>1, <2>1 DEF Left, Consumed, r
  <2>3. Left' <= r /\ Consumed' = r /\ 1 .. Left' = {} /\ Consumed \in Nat /\ Consumed <= r
    BY <1>2, <1>4, <2>2
  <2>4. WalkInv'
    BY <1>1, <1>6, <2>3 DEF WalkInv, r
  <2>5. ASSUME Top.locs = <<>>
        PROVE  Consumed' = Consumed
    <3>1. stack[1].locs = <<>>
      BY <1>7, <2>5 DEF Top, Last, n
    <3>2. Left = 0
      BY <1>2, <3>1
    <3> QED
      BY <1>2, <1>4, <2>3, <3>2
  <2>6. Consumed' \in Nat /\ Consumed <= Consumed'
    BY <1>2, <2>3
  <2> QED
    BY <2>3, <2>4, <2>5, <2>6
<1>8. CASE n > 1
  <2>1. 1 \in 1 .. n - 1 /\ n - 1 # 0
    BY <1>2, <1>8
  <2>2. stack'[1] = stack[1] /\ stack' # <<>>
    BY <1>3, <2>1, EmptySeq
  <2>3. Left' = Left /\ Consumed' = Consumed /\ Consumed \in Nat /\ Consumed <= r
    <3>1. Left' = Left
      BY <1>1, <1>2, <2>2 DEF Left
    <3>2. Consumed' = r - Left'
      BY <1>1 DEF Consumed, r
    <3> QED
      BY <1>2, <1>4, <3>1, <3>2
  <2>4. WalkInv'
    BY <1>1, <1>4, <1>6, <2>2, <2>3 DEF WalkInv, r
  <2> QED
    BY <2>3, <2>4
<1> QED
  BY <1>2, <1>7, <1>8

LEMMA StepWalk == TypeOK /\ WalkInv /\ [Next]_vars => WalkInv'
<1> SUFFICES ASSUME TypeOK, WalkInv, [Next]_vars PROVE WalkInv'
  OBVIOUS
<1>1. CASE ReadPage
  <2>1. pc = "read" /\ stack = <<>> /\ asked = <<>> /\ raw = <<>> /\ seen = {}
    BY <1>1 DEF ReadPage, WalkInv
  <2>2. site' = site /\ pc' # "read"
    BY <1>1 DEF ReadPage
  <2>3. CASE depth = 0
    <3> DEFINE frame == [depth |-> 0, locs |-> site.robots]
    <3>1. pc' = "sitemaps" /\ stack' = <<frame>>
      BY <1>1, <2>3 DEF ReadPage
    <3>2. frame.depth = 0 /\ frame.locs = site.robots
      OBVIOUS
    <3> HIDE DEF frame
    <3>3. DOMAIN stack' = {1} /\ stack'[1] = frame /\ stack' # <<>>
      BY <3>1
    <3>4. Left' = Len(site.robots) /\ Consumed' = Len(site.robots) - Len(site.robots)
      BY <2>2, <3>2, <3>3 DEF Left, Consumed
    <3> DEFINE r == Len(site.robots)
    <3>5. r \in Nat /\ Left' = r /\ Consumed' = r - r
      BY <3>4, Counts
    <3> HIDE DEF r
    <3>6. Consumed' = 0 /\ Left' <= r /\ \A i \in 1 .. Left' : Consumed' + i = i
      BY <3>5
    <3>7. \A k \in DOMAIN stack' : stack'[k].depth = k - 1
      BY <3>2, <3>3
    <3>8. \A i \in 1 .. Left' : stack'[1].locs[i] = site'.robots[Consumed' + i]
      BY <2>2, <3>2, <3>3, <3>6
    <3>9. Left' <= Len(site'.robots)
      BY <2>2, <3>6 DEF r
    <3> QED
      BY <2>2, <3>1, <3>7, <3>8, <3>9 DEF WalkInv
  <2>4. CASE depth # 0
    <3>1. pc' = "collected" /\ stack' = <<>>
      BY <1>1, <2>1, <2>4 DEF ReadPage
    <3>2. Left' = 0 /\ DOMAIN stack' = {}
      BY <3>1 DEF Left
    <3>3. 0 <= Len(site.robots) /\ 1 .. 0 = {}
      BY Counts
    <3> QED
      BY <2>2, <3>1, <3>2, <3>3 DEF WalkInv
  <2> QED
    BY <2>3, <2>4
<1>2. CASE Loop
  BY <1>2, WalkAfter
<1>3. CASE Return
  BY <1>3, ReturnWalk
<1>4. CASE Collected
  <2>1. stack = <<>> /\ pc' = "collected" /\ UNCHANGED <<stack, asked, raw, seen, site>>
    BY <1>4 DEF Collected, walk
  <2>2. Left' = Left /\ Consumed' = Consumed
    BY <2>1 DEF Left, Consumed
  <2> QED
    BY <2>1, <2>2 DEF WalkInv
<1>5. CASE FollowLink
  <2>1. stack = <<>> /\ asked' = <<>> /\ raw' = <<>> /\ seen' = {} /\ UNCHANGED <<stack, site>>
    BY <1>5 DEF FollowLink, WalkInv
  <2>2. Left' = Left /\ Consumed' = Consumed
    BY <2>1 DEF Left, Consumed
  <2> QED
    BY <2>1, <2>2 DEF WalkInv
<1>6. CASE UNCHANGED vars
  <2>1. Left' = Left /\ Consumed' = Consumed
    BY <1>6 DEF Left, Consumed, vars
  <2> QED
    BY <1>6, <2>1 DEF WalkInv, vars
<1> QED
  BY <1>1, <1>2, <1>3, <1>4, <1>5, <1>6 DEF Next, Loop

LEMMA InitWalk == Init => WalkInv
<1> SUFFICES ASSUME Init PROVE WalkInv
  OBVIOUS
<1>1. stack = <<>> /\ asked = <<>> /\ raw = <<>> /\ seen = {} /\ DOMAIN stack = {} /\ Left = 0
  BY DEF Init, Left
<1>2. 0 <= Len(site.robots) /\ 1 .. 0 = {}
  BY InitTypes, Counts
<1> QED
  BY <1>1, <1>2 DEF WalkInv

-----------------------------------------------------------------------------
(* What the walk has collected.                                            *)

\* A <loc> that was collected has been seen, and is collected once.
RawInv ==
  /\ \A i, j \in DOMAIN raw : raw[i] = raw[j] => i = j
  /\ \A i \in DOMAIN raw : raw[i] \in seen

LEMMA NewUnseen ==
  ASSUME TypeOK, InLoop
  PROVE  /\ \A k, m \in 1 .. Len(New) : New[k] = New[m] => k = m
         /\ \A k \in 1 .. Len(New) : New[k] \notin Marked(Head(Top.locs))
<1> DEFINE s == Head(Top.locs)
<1>1. s \in Sitemaps
  BY Advance
<1>2. CASE site.content[s].kind = "urlset"
  <2> DEFINE locs == site.content[s].locs
             already == Marked(s)
  <2>1. locs \in Seq(DOMAIN Loc) /\ Len(raw) \in Nat /\ Len(raw) <= limit
    BY <1>1, <1>2, Taken
  <2>2. New = NewLocs(locs, already)
    BY <1>2 DEF New
  <2>3. DOMAIN New = 1 .. Len(New)
    BY NewType, LenProperties
  <2> HIDE DEF locs
  <2>4. /\ \A k, m \in DOMAIN NewLocs(locs, already) :
             NewLocs(locs, already)[k] = NewLocs(locs, already)[m] => k = m
        /\ \A k \in DOMAIN NewLocs(locs, already) : NewLocs(locs, already)[k] \notin already
    <3> HIDE DEF already
    <3> QED
      BY <2>1, NewLocsTaken
  <2> QED
    BY <2>2, <2>3, <2>4
<1>3. CASE site.content[s].kind # "urlset"
  <2>1. New = <<>>
    BY <1>3 DEF New
  <2>2. 1 .. Len(New) = {}
    BY <2>1
  <2> QED
    BY <2>2
<1> QED
  BY <1>2, <1>3

\* The elements of raw after a fetch are those of before and the new ones.
LEMMA RawAfter ==
  ASSUME TypeOK, FetchSitemap
  PROVE  /\ InLoop /\ raw' = raw \o New /\ seen' = Marked(Head(Top.locs)) \union ToSet(New)
         /\ DOMAIN raw = 1 .. Len(raw) /\ DOMAIN raw' = 1 .. Len(raw) + Len(New)
         /\ \A i \in DOMAIN raw' :
              \/ i \in DOMAIN raw /\ raw'[i] = raw[i]
              \/ i - Len(raw) \in 1 .. Len(New) /\ raw'[i] = New[i - Len(raw)]
         /\ ToSet(raw') = ToSet(raw) \union ToSet(New)
<1> DEFINE m == Len(raw)
           n == Len(New)
<1>1. InLoop /\ raw' = raw \o New /\ seen' = Marked(Head(Top.locs)) \union ToSet(New)
  BY Fetched
<1>2. /\ raw' \in Seq(DOMAIN Loc) /\ New \in Seq(DOMAIN Loc) /\ raw \in Seq(DOMAIN Loc)
      /\ m \in Nat /\ n \in Nat /\ Len(raw') = m + n
      /\ \A k \in 1 .. m : raw'[k] = raw[k]
      /\ \A k \in 1 .. n : raw'[m + k] = New[k]
  BY <1>1, NewType DEF TypeOK
<1>3. DOMAIN raw = 1 .. m /\ DOMAIN New = 1 .. n /\ DOMAIN raw' = 1 .. m + n
  BY <1>2, LenProperties
<1> HIDE DEF m, n
<1>4. \A i \in 1 .. m + n : i \in 1 .. m \/ (i - m \in 1 .. n /\ m + (i - m) = i)
  BY <1>2
<1>5. (\A k \in 1 .. m : k \in 1 .. m + n) /\ \A k \in 1 .. n : m + k \in 1 .. m + n
  BY <1>2
<1>6. \A i \in DOMAIN raw' : \/ i \in DOMAIN raw /\ raw'[i] = raw[i]
                             \/ i - m \in 1 .. n /\ raw'[i] = New[i - m]
  BY <1>2, <1>3, <1>4
<1>7. ToSet(raw') = ToSet(raw) \union ToSet(New)
  <2>1. ASSUME NEW x \in ToSet(raw')
        PROVE  x \in ToSet(raw) \union ToSet(New)
    <3>1. PICK i \in DOMAIN raw' : x = raw'[i]
      BY <2>1 DEF ToSet
    <3> QED
      BY <1>3, <1>6, <3>1 DEF ToSet
  <2>2. ASSUME NEW x \in ToSet(raw)
        PROVE  x \in ToSet(raw')
    <3>1. PICK i \in DOMAIN raw : x = raw[i]
      BY <2>2 DEF ToSet
    <3> QED
      BY <1>2, <1>3, <1>5, <3>1 DEF ToSet
  <2>3. ASSUME NEW x \in ToSet(New)
        PROVE  x \in ToSet(raw')
    <3>1. PICK i \in DOMAIN New : x = New[i]
      BY <2>3 DEF ToSet
    <3> QED
      BY <1>2, <1>3, <1>5, <3>1 DEF ToSet
  <2> QED
    BY <2>1, <2>2, <2>3
<1> QED
  BY <1>1, <1>3, <1>6, <1>7 DEF m, n

\* seen grows by the one sitemap at most, but for what is collected.
LEMMA MarkedIs ==
  ASSUME TypeOK, InLoop
  PROVE  /\ seen \subseteq Marked(Head(Top.locs))
         /\ Top.depth > 0 => Head(Top.locs) \in Marked(Head(Top.locs))
         /\ \A x \in Marked(Head(Top.locs)) : x \in seen \/ (x = Head(Top.locs) /\ Top.depth > 0)
<1> DEFINE s == Head(Top.locs)
<1> HIDE DEF s
<1>1. Marked(s) = IF Top.depth > 0 THEN seen \union {s} ELSE seen
  BY DEF Marked
<1> QED
  BY <1>1 DEF s

LEMMA StepRaw == TypeOK /\ WalkInv /\ RawInv /\ [Next]_vars => RawInv'
<1> SUFFICES ASSUME TypeOK, WalkInv, RawInv, [Next]_vars PROVE RawInv'
  OBVIOUS
<1>1. ASSUME UNCHANGED <<raw, seen>>
      PROVE  RawInv'
  BY <1>1 DEF RawInv
<1>2. CASE PassOver \/ FetchFails
  <2>1. InLoop /\ seen' = Marked(Head(Top.locs)) /\ raw' = raw
    BY <1>2 DEF PassOver, FetchFails
  <2>2. seen \subseteq seen'
    BY <2>1, MarkedIs
  <2> QED
    BY <2>1, <2>2 DEF RawInv
<1>3. CASE FetchSitemap
  <2> DEFINE s == Head(Top.locs)
             m == Len(raw)
             n == Len(New)
  <2>1. /\ InLoop /\ seen' = Marked(s) \union ToSet(New)
        /\ DOMAIN raw = 1 .. m /\ DOMAIN raw' = 1 .. m + n
        /\ \A i \in DOMAIN raw' : \/ i \in DOMAIN raw /\ raw'[i] = raw[i]
                                  \/ i - m \in 1 .. n /\ raw'[i] = New[i - m]
        /\ ToSet(raw') = ToSet(raw) \union ToSet(New)
    BY <1>3, RawAfter
  <2>2. /\ \A k, l \in 1 .. n : New[k] = New[l] => k = l
        /\ \A k \in 1 .. n : New[k] \notin Marked(s)
    BY <2>1, NewUnseen
  <2>3. seen \subseteq Marked(s)
    BY <2>1, MarkedIs
  <2>4. DOMAIN New = 1 .. n /\ m \in Nat /\ n \in Nat
    BY <2>1, NewType, LenProperties
  <2> HIDE DEF m, n, s
  <2>5. \A i \in DOMAIN raw : raw[i] \in Marked(s)
    BY <2>3 DEF RawInv
  <2>6. \A i \in DOMAIN raw' : raw'[i] \in seen'
    BY <2>1, <2>4, <2>5 DEF ToSet
  <2>7. ASSUME NEW i \in DOMAIN raw', NEW j \in DOMAIN raw', raw'[i] = raw'[j]
        PROVE  i = j
    <3>1. CASE i \in DOMAIN raw /\ raw'[i] = raw[i]
      <4>1. CASE j \in DOMAIN raw /\ raw'[j] = raw[j]
        BY <2>7, <3>1, <4>1 DEF RawInv
      <4>2. CASE j - m \in 1 .. n /\ raw'[j] = New[j - m]
        BY <2>2, <2>5, <2>7, <3>1, <4>2
      <4> QED
        BY <2>1, <4>1, <4>2
    <3>2. CASE i - m \in 1 .. n /\ raw'[i] = New[i - m]
      <4>1. CASE j \in DOMAIN raw /\ raw'[j] = raw[j]
        BY <2>2, <2>5, <2>7, <3>2, <4>1
      <4>2. CASE j - m \in 1 .. n /\ raw'[j] = New[j - m]
        <5>1. i - m = j - m
          BY <2>2, <2>7, <3>2, <4>2
        <5>2. i \in 1 .. m + n /\ j \in 1 .. m + n
          BY <2>1
        <5> QED
          BY <2>4, <5>1, <5>2
      <4> QED
        BY <2>1, <4>1, <4>2
    <3> QED
      BY <2>1, <3>1, <3>2
  <2> QED
    BY <2>6, <2>7 DEF RawInv
<1>4. CASE FollowLink
  <2>1. raw' = <<>> /\ seen' = {}
    BY <1>4 DEF FollowLink
  <2>2. DOMAIN raw' = {}
    BY <2>1
  <2> QED
    BY <2>1, <2>2 DEF RawInv
<1>5. CASE ReadPage \/ Return \/ Collected \/ UNCHANGED vars
  <2>1. UNCHANGED <<raw, seen>>
    BY <1>5 DEF ReadPage, Return, Collected, walk, vars
  <2> QED
    BY <1>1, <2>1
<1> QED
  BY <1>2, <1>3, <1>4, <1>5 DEF Next

LEMMA InitRaw == Init => RawInv
<1> SUFFICES ASSUME Init PROVE RawInv
  OBVIOUS
<1>1. raw = <<>> /\ seen = {} /\ DOMAIN raw = {}
  BY DEF Init
<1> QED
  BY <1>1 DEF RawInv

-----------------------------------------------------------------------------
(* Which sitemaps were fetched.                                            *)

\* The fetches of the call at the bottom, for robots.txt.
FirstAsked == {i \in DOMAIN asked : asked[i].depth = 1}

\* named tells which entry of robots.txt every one of these fetches was for.
NamedBy(named) ==
  /\ named \in [FirstAsked -> 1 .. Consumed]
  /\ \A i, j \in FirstAsked : named[i] = named[j] => i = j
  /\ \A i \in FirstAsked : asked[i].map = site.robots[named[i]]

\* Every sitemap is fetched once by the calls for indexes, which mark it, and once for
\* each time robots.txt names it.
AskedInv ==
  /\ \E named : NamedBy(named)
  /\ \A i \in DOMAIN asked \ FirstAsked : asked[i].map \in seen
  /\ \A i, j \in DOMAIN asked \ FirstAsked : asked[i].map = asked[j].map => i = j

LEMMA AskedSame ==
  ASSUME AskedInv, UNCHANGED <<asked, site>>, seen \subseteq seen',
         Consumed \in Int, Consumed' \in Int, Consumed <= Consumed'
  PROVE  AskedInv'
<1>1. PICK named : NamedBy(named)
  BY DEF AskedInv
<1>2. FirstAsked' = FirstAsked
  BY DEF FirstAsked
<1> DEFINE c == Consumed
           d == Consumed'
<1>3. c \in Int /\ d \in Int /\ c <= d
  OBVIOUS
<1>4. named \in [FirstAsked -> 1 .. c]
  BY <1>1 DEF NamedBy
<1> HIDE DEF c, d
<1>5. 1 .. c \subseteq 1 .. d
  BY <1>3
<1>6. named \in [FirstAsked -> 1 .. d]
  BY <1>4, <1>5
<1>7. NamedBy(named)'
  BY <1>1, <1>2, <1>6 DEF NamedBy, d
<1> QED
  BY <1>2, <1>7 DEF AskedInv

LEMMA AskedNone ==
  ASSUME asked' = <<>>
  PROVE  AskedInv'
<1>1. DOMAIN asked' = {}
  OBVIOUS
<1>2. FirstAsked' = {}
  BY <1>1 DEF FirstAsked
<1>3. NamedBy([i \in {} |-> 0])'
  BY <1>2 DEF NamedBy
<1> QED
  BY <1>1, <1>3 DEF AskedInv

\* A fetch, whether it fails or not.
LEMMA AskedAfter ==
  ASSUME TypeOK, FetchFails \/ FetchSitemap
  PROVE  /\ InLoop /\ ~Skipped(Head(Top.locs)) /\ site' = site
         /\ Marked(Head(Top.locs)) \subseteq seen'
         /\ Len(asked) \in Nat /\ DOMAIN asked = 1 .. Len(asked) /\ DOMAIN asked' = 1 .. Len(asked) + 1
         /\ \A i \in DOMAIN asked : asked'[i] = asked[i]
         /\ asked'[Len(asked) + 1] = [map |-> Head(Top.locs), depth |-> Top.depth + 1]
<1> DEFINE s == Head(Top.locs)
           entry == [map |-> s, depth |-> Top.depth + 1]
           Entry == [map : Sitemaps, depth : 1 .. maxDepth]
           n == Len(asked)
<1>1. /\ InLoop /\ ~Skipped(s) /\ site' = site /\ Top.depth + 1 <= maxDepth
      /\ asked' = Append(asked, entry) /\ Marked(s) \subseteq seen'
  <2>1. CASE FetchFails
    BY <2>1 DEF FetchFails
  <2>2. CASE FetchSitemap
    BY <2>2, Fetched
  <2> QED
    BY <2>1, <2>2
<1>2. asked \in Seq(Entry) /\ Append(asked, entry) \in Seq(Entry)
  BY <1>1, LoopTypes DEF TypeOK
<1> HIDE DEF entry
<1>3. n \in Nat /\ DOMAIN asked = 1 .. n /\ DOMAIN asked' = 1 .. Len(asked')
  <2> HIDE DEF Entry
  <2> QED
    BY <1>1, <1>2, LenProperties
<1>4. Len(Append(asked, entry)) = n + 1 /\ Append(asked, entry)[n + 1] = entry
      /\ \A i \in 1 .. n : Append(asked, entry)[i] = asked[i]
  <2> HIDE DEF Entry
  <2>1. asked \in Seq(Entry \union {entry})
    BY <1>2, SeqMonotonic
  <2>2. entry \in Entry \union {entry}
    OBVIOUS
  <2> QED
    BY <2>1, <2>2, AppendProperties
<1> QED
  BY <1>1, <1>3, <1>4 DEF entry

LEMMA FetchAsked ==
  ASSUME TypeOK, WalkInv, AskedInv, FetchFails \/ FetchSitemap
  PROVE  AskedInv'
<1> DEFINE s == Head(Top.locs)
           n == Len(asked)
           last == n + 1
           c == Consumed
<1>1. /\ InLoop /\ ~Skipped(s) /\ site' = site /\ Marked(s) \subseteq seen'
      /\ n \in Nat /\ DOMAIN asked = 1 .. n /\ DOMAIN asked' = 1 .. n + 1
      /\ \A i \in DOMAIN asked : asked'[i] = asked[i]
      /\ asked'[last].map = s /\ asked'[last].depth = Top.depth + 1
  BY AskedAfter
<1>2. /\ Top.depth = Len(stack) - 1 /\ c \in Nat
      /\ Len(stack) = 1 => Consumed' = c + 1 /\ s = site.robots[c + 1]
      /\ Len(stack) > 1 => Consumed' = c
  BY WalkAfter DEF Loop
<1>3. Len(stack) \in Nat \ {0} /\ Top.depth \in Nat
  BY <1>1, Advance
<1>4. seen \subseteq Marked(s) /\ (Top.depth > 0 => s \in Marked(s))
  BY <1>1, MarkedIs
<1>5. PICK named : NamedBy(named)
  BY DEF AskedInv
<1>6. /\ named \in [FirstAsked -> 1 .. c]
      /\ \A i, j \in FirstAsked : named[i] = named[j] => i = j
      /\ \A i \in FirstAsked : asked[i].map = site.robots[named[i]]
  BY <1>5 DEF NamedBy
<1> HIDE DEF n
<1>7. last \notin DOMAIN asked /\ DOMAIN asked' = DOMAIN asked \union {last}
  BY <1>1
<1> DEFINE d == Top.depth
           k == Len(stack)
<1> HIDE DEF last, s, c, d, k
<1>8. k \in Nat \ {0} /\ d = k - 1
  BY <1>2, <1>3 DEF k, d
<1>9. CASE d = 0
  <2>1. k = 1
    BY <1>9, <1>8
  <2>2. Consumed' = c + 1 /\ s = site.robots[c + 1]
    BY <1>2, <2>1 DEF k
  <2>3. FirstAsked' = FirstAsked \union {last} /\ last \notin FirstAsked
    BY <1>1, <1>7, <1>9 DEF FirstAsked, d
  <2>4. PICK also : also = [i \in FirstAsked \union {last} |-> IF i = last THEN c + 1 ELSE named[i]]
    OBVIOUS
  <2>5. c + 1 \in 1 .. c + 1 /\ c + 1 \notin 1 .. c /\ 1 .. c \subseteq 1 .. c + 1
    BY <1>2
  <2>6. also \in [FirstAsked' -> 1 .. Consumed']
    BY <1>6, <2>2, <2>3, <2>4, <2>5
  <2>7. also[last] = c + 1 /\ \A i \in FirstAsked : also[i] = named[i] /\ named[i] \in 1 .. c
    BY <1>6, <2>3, <2>4
  <2>8. \A i, j \in FirstAsked' : also[i] = also[j] => i = j
    BY <1>6, <2>3, <2>5, <2>7
  <2>9. \A i \in FirstAsked' : asked'[i].map = site'.robots[also[i]]
    <3>1. \A i \in FirstAsked : i \in DOMAIN asked
      BY DEF FirstAsked
    <3> QED
      BY <1>1, <1>6, <2>2, <2>3, <2>7, <3>1
  <2>10. NamedBy(also)'
    BY <2>6, <2>8, <2>9 DEF NamedBy
  <2>11. DOMAIN asked' \ FirstAsked' = DOMAIN asked \ FirstAsked
    BY <1>7, <2>3
  <2> QED
    BY <1>1, <1>4, <2>10, <2>11 DEF AskedInv
<1>10. CASE d # 0
  <2>1. k > 1 /\ d > 0 /\ d + 1 # 1
    BY <1>10, <1>8
  <2>2. Consumed' = c /\ s \notin seen /\ s \in seen'
    BY <1>1, <1>2, <1>4, <2>1 DEF Skipped, d, s, k
  <2>3. FirstAsked' = FirstAsked
    BY <1>1, <1>7, <2>1 DEF FirstAsked, d
  <2>4. \A i \in FirstAsked : asked'[i].map = asked[i].map
    BY <1>1 DEF FirstAsked
  <2>5. NamedBy(named)'
    BY <1>1, <1>6, <2>2, <2>3, <2>4 DEF NamedBy
  <2>6. DOMAIN asked' \ FirstAsked' = (DOMAIN asked \ FirstAsked) \union {last}
    BY <1>7, <2>3 DEF FirstAsked
  <2>7. \A i \in DOMAIN asked' \ FirstAsked' : asked'[i].map \in seen'
    BY <1>1, <1>4, <2>2, <2>6 DEF AskedInv
  <2>8. \A i, j \in DOMAIN asked' \ FirstAsked' : asked'[i].map = asked'[j].map => i = j
    BY <1>1, <2>2, <2>6 DEF AskedInv
  <2> QED
    BY <2>5, <2>7, <2>8 DEF AskedInv
<1> QED
  BY <1>9, <1>10

LEMMA StepAsked == TypeOK /\ WalkInv /\ AskedInv /\ [Next]_vars => AskedInv'
<1> SUFFICES ASSUME TypeOK, WalkInv, AskedInv, [Next]_vars PROVE AskedInv'
  OBVIOUS
<1>1. Consumed \in Int
  <2>1. Len(site.robots) \in Nat /\ Left \in Nat
    BY Counts
  <2> QED
    BY <2>1 DEF Consumed
<1>2. CASE ReadPage
  <2>1. asked' = <<>>
    BY <1>2 DEF ReadPage, WalkInv
  <2> QED
    BY <2>1, AskedNone
<1>3. CASE PassOver
  <2>1. InLoop /\ seen' = Marked(Head(Top.locs)) /\ UNCHANGED <<asked, site>>
    BY <1>3 DEF PassOver
  <2>2. seen \subseteq seen'
    BY <2>1, MarkedIs
  <2>3. /\ Len(stack) \in Nat \ {0} /\ Consumed \in Nat
        /\ Len(stack) = 1 => Consumed' = Consumed + 1
        /\ Len(stack) > 1 => Consumed' = Consumed
    BY <1>3, WalkAfter, StackAfter DEF Loop
  <2>4. Consumed' \in Int /\ Consumed <= Consumed'
    <3> DEFINE c == Consumed
               k == Len(stack)
               d == Consumed'
    <3>1. k \in Nat \ {0} /\ c \in Nat /\ (k = 1 => d = c + 1) /\ (k > 1 => d = c)
      BY <2>3
    <3> HIDE DEF c, d, k
    <3>2. d \in Int /\ c <= d
      BY <3>1
    <3> QED
      BY <3>2 DEF c, d
  <2> QED
    BY <1>1, <2>1, <2>2, <2>4, AskedSame
<1>4. CASE FetchFails \/ FetchSitemap
  BY <1>4, FetchAsked
<1>5. CASE Return
  <2>1. UNCHANGED <<asked, site>> /\ seen \subseteq seen'
    BY <1>5 DEF Return
  <2>2. Consumed' \in Int /\ Consumed <= Consumed'
    BY <1>5, ReturnWalk
  <2> QED
    BY <1>1, <2>1, <2>2, AskedSame
<1>6. CASE Collected \/ UNCHANGED vars
  <2>1. UNCHANGED <<asked, site, stack, seen>>
    BY <1>6 DEF Collected, walk, vars
  <2>2. Consumed' = Consumed
    BY <2>1 DEF Consumed, Left
  <2> QED
    BY <1>1, <2>1, <2>2, AskedSame
<1>7. CASE FollowLink
  <2>1. asked' = <<>>
    BY <1>7 DEF FollowLink
  <2> QED
    BY <2>1, AskedNone
<1> QED
  BY <1>2, <1>3, <1>4, <1>5, <1>6, <1>7 DEF Next

LEMMA WalksHold == Spec => [](TypeOK /\ WalkInv /\ RawInv /\ AskedInv)
<1>1. Init => TypeOK /\ WalkInv /\ RawInv /\ AskedInv
  <2>1. ASSUME Init
        PROVE  AskedInv
    <3>1. asked = <<>> /\ DOMAIN asked = {}
      BY <2>1 DEF Init
    <3>2. FirstAsked = {}
      BY <3>1 DEF FirstAsked
    <3>3. NamedBy([i \in {} |-> 0])
      BY <3>2 DEF NamedBy
    <3> QED
      BY <3>1, <3>3 DEF AskedInv
  <2> QED
    BY <2>1, InitTypes, InitWalk, InitRaw
<1>2. TypeOK /\ WalkInv /\ RawInv /\ AskedInv /\ [Next]_vars => (TypeOK /\ WalkInv /\ RawInv /\ AskedInv)'
  BY StepTypes, StepWalk, StepRaw, StepAsked
<1> QED
  BY <1>1, <1>2, PTL DEF Spec

LEMMA AskedOnceMore ==
  ASSUME TypeOK, WalkInv, AskedInv, NEW s \in Sitemaps
  PROVE  Cardinality({i \in DOMAIN asked : asked[i].map = s})
           <= Cardinality({i \in DOMAIN site.robots : site.robots[i] = s}) + 1
<1> DEFINE A == {i \in DOMAIN asked : asked[i].map = s}
           F == A \intersect FirstAsked
           D == A \ FirstAsked
           R == {i \in DOMAIN site.robots : site.robots[i] = s}
           r == Len(site.robots)
           c == Consumed
<1>1. PICK named : NamedBy(named)
  BY DEF AskedInv
<1>2. r \in Nat /\ DOMAIN site.robots = 1 .. r /\ c \in Int /\ c <= r
  <2>1. site.robots \in Seq(Sitemaps) /\ r \in Nat /\ Left \in Nat
    BY Counts
  <2>2. DOMAIN site.robots = 1 .. r
    BY <2>1, LenProperties
  <2>3. c = r - Left
    BY DEF Consumed
  <2> HIDE DEF r, c
  <2> QED
    BY <2>1, <2>2, <2>3
<1>3. IsFiniteSet(R)
  <2>1. IsFiniteSet(1 .. r) /\ R \in SUBSET (1 .. r)
    BY <1>2, FS_Interval
  <2> HIDE DEF r, R
  <2> QED
    BY <2>1, FS_Subset
<1>4. [i \in F |-> named[i]] \in Injection(F, R)
  <2> DEFINE f == [i \in F |-> named[i]]
  <2>1. ASSUME NEW i \in F
        PROVE  named[i] \in R
    <3>1. named[i] \in 1 .. c /\ asked[i].map = site.robots[named[i]] /\ asked[i].map = s
      BY <1>1 DEF NamedBy
    <3> HIDE DEF c, r
    <3>2. named[i] \in 1 .. r
      BY <1>2, <3>1
    <3> QED
      BY <1>2, <3>1, <3>2
  <2>2. \A i, j \in F : named[i] = named[j] => i = j
    BY <1>1 DEF NamedBy
  <2> HIDE DEF F, R
  <2>3. f \in [F -> R]
    BY <2>1
  <2>4. \A i, j \in F : f[i] = f[j] => i = j
    BY <2>2
  <2> HIDE DEF f
  <2>5. f \in Injection(F, R)
    BY <2>3, <2>4, Fun_IsInj
  <2> QED
    BY <2>5 DEF f
<1>5. IsFiniteSet(F) /\ Cardinality(F) <= Cardinality(R)
  <2> HIDE DEF F, R
  <2> QED
    BY <1>3, <1>4, FS_Injection
<1>6. Cardinality(F) \in Nat /\ Cardinality(R) \in Nat
  BY <1>3, <1>5, FS_CardinalityType
<1>7. A = F \union D
  OBVIOUS
<1>8. D = {} \/ \E x : D = {x} /\ x \notin F
  BY DEF AskedInv
<1> HIDE DEF A, F, D, R
<1>9. CASE D = {}
  <2>1. A = F
    BY <1>7, <1>9
  <2>2. Cardinality(A) <= Cardinality(R) + 1
    BY <1>5, <1>6, <2>1
  <2> QED
    BY <2>2 DEF A, R
<1>10. ASSUME NEW x, D = {x}, x \notin F
       PROVE  Cardinality(A) <= Cardinality(R) + 1
  <2>1. A = F \union {x}
    BY <1>7, <1>10
  <2>2. Cardinality(A) = Cardinality(F) + 1
    BY <1>5, <1>10, <2>1, FS_AddElement
  <2> QED
    BY <1>5, <1>6, <2>2
<1> QED
  BY <1>8, <1>9, <1>10 DEF A, R

\* However sitemaps refer to one another, in circles too, the walk keeps to its limits:
\* the set of what was seen stops the calls for indexes, and the bottom call sees each
\* entry of robots.txt once (worker.go:617-703).
THEOREM WalkIsBounded == Spec => []SitemapsAreBounded
<1>1. ASSUME TypeOK, WalkInv, RawInv, AskedInv
      PROVE  SitemapsAreBounded
  BY <1>1, AskedOnceMore DEF TypeOK, RawInv, SitemapsAreBounded
<1>2. TypeOK /\ WalkInv /\ RawInv /\ AskedInv => SitemapsAreBounded
  BY <1>1
<1> QED
  BY <1>2, WalksHold, PTL

-----------------------------------------------------------------------------
(* What the walk leaves out.                                               *)

\* n is among what a call has left of an index.
Pending(n) == \E k \in DOMAIN stack : k > 1 /\ n \in ToSet(stack[k].locs)

\* The walk is under way or over, and was not ended by the limit.
Open == pc # "read" /\ depth = 0 /\ Len(raw) < limit

FirstFollowed  == \A i \in 1 .. Consumed : Asked(site.robots[i])
SeenFollowed   == \A x \in seen : x \in ToSet(raw) \/ (Indexed(x) /\ (Asked(x) \/ TooDeep(x)))
CallsAreFor    == \A k \in DOMAIN stack : k > 1 =>
                    \E t \in Sitemaps : AskedAt(t, k - 1) /\ \A n \in ToSet(stack[k].locs) : Names(t, n)
UrlsetFollowed == \A s \in Sitemaps : Asked(s) /\ s \notin lost /\ site.content[s].kind = "urlset" =>
                    \A l \in ToSet(site.content[s].locs) : l \in ToSet(raw) \/ Indexed(l)
IndexFollowed  == \A s, n \in Sitemaps : Asked(s) /\ s \notin lost /\ Names(s, n) =>
                    Asked(n) \/ TooDeep(n) \/ n \in ToSet(raw) \/ Pending(n)

\* What robots.txt and the indexes name was fetched, is nested too deep, was collected as a
\* page, or is yet to come; what is marked as seen is a page that was collected or is named
\* by an index, and then was fetched or is nested too deep.
FollowInv == Open => FirstFollowed /\ SeenFollowed /\ CallsAreFor /\ UrlsetFollowed /\ IndexFollowed

\* Steps of the loop add the fetch of the sitemap at hand, if any.
LEMMA AskedGrows ==
  ASSUME TypeOK, Loop, NEW s, NEW d, s = Head(Top.locs), d = Top.depth
  PROVE  /\ \A t, e : AskedAt(t, e) => AskedAt(t, e)'
         /\ \A t : Asked(t) => Asked(t)'
         /\ \A n : TooDeep(n) => TooDeep(n)'
         /\ \A n : Indexed(n) => Indexed(n)'
         /\ \A t : Asked(t)' => Asked(t) \/ t = s
         /\ \/ PassOver /\ \A t : Asked(t)' => Asked(t)
            \/ (FetchFails \/ FetchSitemap) /\ AskedAt(s, d + 1)' /\ Asked(s)'
<1>1. InLoop /\ site' = site
  BY StackAfter
<1>2. CASE PassOver
  <2>1. asked' = asked
    BY <1>2 DEF PassOver
  <2>2. \A t, e : AskedAt(t, e)' <=> AskedAt(t, e)
    BY <2>1 DEF AskedAt
  <2>3. \A t : Asked(t)' <=> Asked(t)
    BY <2>2 DEF Asked
  <2>4. \A n : TooDeep(n)' <=> TooDeep(n)
    BY <1>1, <2>2 DEF TooDeep, Names
  <2>5. \A n : Indexed(n)' <=> Indexed(n)
    BY <1>1, <2>3 DEF Indexed, Names
  <2> QED
    BY <1>2, <2>2, <2>3, <2>4, <2>5
<1>3. CASE FetchFails \/ FetchSitemap
  <2> DEFINE n == Len(asked)
             entry == [map |-> s, depth |-> d + 1]
  <2>1. /\ n \in Nat /\ DOMAIN asked = 1 .. n /\ DOMAIN asked' = 1 .. n + 1
        /\ \A i \in DOMAIN asked : asked'[i] = asked[i]
        /\ asked'[n + 1] = entry
    BY <1>3, AskedAfter
  <2>2. d + 1 \in 1 .. maxDepth
    <3>1. d \in 0 .. maxDepth
      BY <1>1, Advance
    <3>2. d + 1 <= maxDepth
      BY <1>3, Fetched DEF FetchFails
    <3> QED
      BY <3>1, <3>2, Limits
  <2> HIDE DEF n
  <2>3. n + 1 \in DOMAIN asked' /\ \A i \in DOMAIN asked : i \in DOMAIN asked'
    BY <2>1
  <2>4. \A i \in DOMAIN asked' : i \in DOMAIN asked \/ i = n + 1
    BY <2>1
  <2>5. \A t, e : AskedAt(t, e) => AskedAt(t, e)'
    BY <2>1, <2>3 DEF AskedAt
  <2>6. AskedAt(s, d + 1)'
    BY <2>1, <2>3 DEF AskedAt
  <2>7. \A t, e : AskedAt(t, e)' => AskedAt(t, e) \/ t = s
    <3>1. ASSUME NEW t, NEW e, AskedAt(t, e)', t # s
          PROVE  AskedAt(t, e)
      <4> DEFINE it == [map |-> t, depth |-> e]
      <4>1. it.map = t /\ entry.map = s
        OBVIOUS
      <4>2. PICK i \in DOMAIN asked' : asked'[i] = it
        BY <3>1 DEF AskedAt
      <4>3. i # n + 1
        BY <2>1, <3>1, <4>1, <4>2
      <4>4. asked[i] = it /\ i \in DOMAIN asked
        BY <2>1, <2>4, <4>2, <4>3
      <4> QED
        BY <4>4 DEF AskedAt
    <3> QED
      BY <3>1
  <2>8. /\ \A t : Asked(t) => Asked(t)'
        /\ \A t : Asked(t)' => Asked(t) \/ t = s
        /\ Asked(s)'
    BY <2>2, <2>5, <2>6, <2>7 DEF Asked
  <2>9. \A m : TooDeep(m) => TooDeep(m)'
    BY <1>1, <2>5 DEF TooDeep, Names
  <2>10. \A m : Indexed(m) => Indexed(m)'
    BY <1>1, <2>8 DEF Indexed, Names
  <2> QED
    BY <1>3, <2>5, <2>6, <2>8, <2>9, <2>10
<1> QED
  BY <1>2, <1>3 DEF Loop

\* A sitemap that a nested call has at hand is named by the index the call is for.
LEMMA NestedIsNamed ==
  ASSUME TypeOK, WalkInv, Loop, CallsAreFor,
         NEW s, NEW d, s = Head(Top.locs), d = Top.depth, d > 0
  PROVE  \E t \in Sitemaps : AskedAt(t, d) /\ Names(t, s)
<1> DEFINE n == Len(stack)
           l == Top.locs
<1>1. /\ InLoop /\ n \in Nat \ {0} /\ d \in 0 .. maxDepth
      /\ Top = stack[n] /\ l \in Seq(Sitemaps) /\ l # <<>> /\ s = Head(l)
  BY StackAfter, Advance
<1>2. d = n - 1 /\ DOMAIN stack = 1 .. n
  BY WalkAfter, Counts
<1>3. l = stack[n].locs
  BY <1>1
<1> HIDE DEF n, l
<1>4. n > 1 /\ n \in DOMAIN stack
  BY <1>1, <1>2, Limits
<1>5. PICK t \in Sitemaps : AskedAt(t, n - 1) /\ \A m \in ToSet(stack[n].locs) : Names(t, m)
  BY <1>4 DEF CallsAreFor
<1>6. 1 \in DOMAIN l /\ Head(l) = l[1]
  BY <1>1
<1>7. s \in ToSet(l)
  BY <1>1, <1>6 DEF ToSet
<1> QED
  BY <1>2, <1>3, <1>5, <1>7

LEMMA NestedIsIndexed ==
  ASSUME TypeOK, WalkInv, Loop, CallsAreFor,
         NEW s, NEW d, s = Head(Top.locs), d = Top.depth, d > 0
  PROVE  Indexed(s)
<1>1. PICK t \in Sitemaps : AskedAt(t, d) /\ Names(t, s)
  BY NestedIsNamed
<1>2. d \in 1 .. maxDepth
  <2>1. d \in 0 .. maxDepth
    BY StackAfter, Advance
  <2> QED
    BY <2>1, Limits
<1> QED
  BY <1>1, <1>2 DEF Indexed, Asked

\* The sitemap at hand is fetched, was, is too deep, or was collected as a page.
LEMMA Settled ==
  ASSUME TypeOK, WalkInv, Loop, SeenFollowed, CallsAreFor,
         NEW s, NEW d, s = Head(Top.locs), d = Top.depth
  PROVE  Asked(s)' \/ (d > 0 /\ (TooDeep(s)' \/ s \in ToSet(raw)))
<1>1. PassOver \/ Asked(s)'
  BY AskedGrows
<1>2. CASE PassOver
  <2>1. d \in 0 .. maxDepth
    BY <1>2, Advance DEF PassOver
  <2>3. Skipped(s) \/ d + 1 > maxDepth
    BY <1>2 DEF PassOver
  <2>4. CASE Skipped(s)
    <3>1. d > 0 /\ s \in seen
      BY <2>4 DEF Skipped
    <3>2. s \in ToSet(raw) \/ Asked(s) \/ TooDeep(s)
      BY <3>1 DEF SeenFollowed
    <3> QED
      BY <3>1, <3>2, AskedGrows
  <2>5. CASE d + 1 > maxDepth
    <3>1. d = maxDepth /\ d > 0
      BY <2>1, <2>5, Limits
    <3>2. TooDeep(s)
      BY <3>1, NestedIsNamed DEF TooDeep
    <3> QED
      BY <3>1, <3>2, AskedGrows
  <2> QED
    BY <2>3, <2>4, <2>5
<1> QED
  BY <1>1, <1>2

\* What the call on top had left, it has left still or is the sitemap at hand.
LEMMA TopLeft ==
  ASSUME TypeOK, InLoop
  PROVE  /\ ToSet(Tail(Top.locs)) \subseteq ToSet(Top.locs)
         /\ \A x \in ToSet(Top.locs) : x = Head(Top.locs) \/ x \in ToSet(Tail(Top.locs))
<1> DEFINE l == Top.locs
           t == Tail(l)
<1>1. l \in Seq(Sitemaps) /\ l # <<>>
  BY Advance
<1> HIDE DEF l
<1>2. /\ t \in Seq(Sitemaps) /\ Len(t) = Len(l) - 1 /\ \A i \in 1 .. Len(t) : t[i] = l[i + 1]
      /\ Head(l) = l[1]
  BY <1>1, HeadTailProperties
<1> DEFINE n == Len(l)
<1>3. n \in Nat \ {0} /\ DOMAIN l = 1 .. n /\ DOMAIN t = 1 .. n - 1
  BY <1>1, <1>2, EmptySeq, LenProperties
<1>4. \A i \in 1 .. n - 1 : t[i] = l[i + 1]
  BY <1>2
<1> HIDE DEF n, t
<1>5. (\A i \in 1 .. n - 1 : i + 1 \in 1 .. n) /\ \A i \in 1 .. n : i = 1 \/ (i - 1 \in 1 .. n - 1 /\ (i - 1) + 1 = i)
  BY <1>3
<1>6. ToSet(t) \subseteq ToSet(l)
  BY <1>3, <1>4, <1>5 DEF ToSet
<1>7. ASSUME NEW x \in ToSet(l)
      PROVE  x = Head(l) \/ x \in ToSet(t)
  <2>1. PICK i \in 1 .. n : x = l[i]
    BY <1>3, <1>7 DEF ToSet
  <2>2. CASE i = 1
    BY <1>2, <2>1, <2>2
  <2>3. CASE i - 1 \in 1 .. n - 1 /\ (i - 1) + 1 = i
    BY <1>3, <1>4, <2>1, <2>3 DEF ToSet
  <2> QED
    BY <1>5, <2>2, <2>3
<1> QED
  BY <1>6, <1>7 DEF l, t

LEMMA FetchIsAsked ==
  ASSUME TypeOK, FetchFails \/ FetchSitemap, NEW s, NEW d, s = Head(Top.locs), d = Top.depth
  PROVE  AskedAt(s, d + 1)'
<1> DEFINE n == Len(asked)
           entry == [map |-> s, depth |-> d + 1]
<1>1. n \in Nat /\ DOMAIN asked' = 1 .. n + 1 /\ asked'[n + 1] = entry
  BY AskedAfter
<1> HIDE DEF n
<1>2. n + 1 \in DOMAIN asked'
  BY <1>1
<1> QED
  BY <1>1, <1>2 DEF AskedAt

LEMMA PassAsksNone ==
  ASSUME PassOver
  PROVE  \A t : Asked(t)' => Asked(t)
<1>1. asked' = asked
  BY DEF PassOver
<1>2. \A t, e : AskedAt(t, e)' <=> AskedAt(t, e)
  BY <1>1 DEF AskedAt
<1> QED
  BY <1>2 DEF Asked

\* Below the limit, a urlset that is fetched is collected as a whole, but for what an index
\* names as a sitemap.
LEMMA UrlsetTaken ==
  ASSUME TypeOK, WalkInv, FetchSitemap, SeenFollowed, CallsAreFor, NEW s, s = Head(Top.locs),
         site.content[s].kind = "urlset", Len(raw') < limit
  PROVE  \A l \in ToSet(site.content[s].locs) : l \in ToSet(raw') \/ Indexed(l)
<1>1. /\ InLoop /\ raw' = raw \o New /\ s \in Sitemaps
      /\ ToSet(raw') = ToSet(raw) \union ToSet(New)
  BY RawAfter, Advance
<1>2. PICK locs, already : locs = site.content[s].locs /\ already = Marked(s)
  OBVIOUS
<1>3. locs \in Seq(DOMAIN Loc) /\ Len(raw) \in Nat /\ Len(raw) <= limit
  BY <1>1, <1>2, Taken
<1>4. New = NewLocs(locs, already)
  BY <1>2 DEF New
<1>5. Len(raw) + Len(NewLocs(locs, already)) < limit
  BY <1>1, <1>4, NewType
<1>6. \A i \in DOMAIN locs : \/ locs[i] \in already
                             \/ \E k \in DOMAIN NewLocs(locs, already) : NewLocs(locs, already)[k] = locs[i]
  BY <1>3, <1>5, NewLocsTaken
<1>7. \A x \in already : x \in ToSet(raw) \/ Indexed(x)
  <2>1. ASSUME NEW x \in Marked(s)
        PROVE  x \in ToSet(raw) \/ Indexed(x)
    <3>1. x \in seen \/ (x = s /\ Top.depth > 0)
      BY <1>1, <2>1, MarkedIs
    <3>2. CASE x \in seen
      BY <3>2 DEF SeenFollowed
    <3>3. CASE x = s /\ Top.depth > 0
      BY <3>3, NestedIsIndexed DEF Loop
    <3> QED
      BY <3>1, <3>2, <3>3
  <2> QED
    BY <1>2, <2>1
<1>8. \A x \in ToSet(locs) : x \in ToSet(raw) \/ x \in ToSet(NewLocs(locs, already)) \/ Indexed(x)
  BY <1>6, <1>7 DEF ToSet
<1> QED
  BY <1>1, <1>2, <1>4, <1>8

LEMMA LoopFollows ==
  ASSUME TypeOK, WalkInv, FollowInv, Loop
  PROVE  FollowInv'
<1> SUFFICES ASSUME Open' PROVE (FirstFollowed /\ SeenFollowed /\ CallsAreFor /\ UrlsetFollowed /\ IndexFollowed)'
  BY DEF FollowInv
<1>1. PICK s, d : s = Head(Top.locs) /\ d = Top.depth
  OBVIOUS
<1>2. PICK n : n = Len(stack)
  OBVIOUS
<1>3. /\ InLoop /\ n \in Nat \ {0} /\ d = n - 1 /\ s \in Sitemaps /\ d \in 0 .. maxDepth
      /\ Top = stack[n] /\ DOMAIN stack = 1 .. n
  BY <1>1, <1>2, StackAfter, Advance, WalkAfter, Counts
<1>4. /\ stack' \in Seq(Frame)
      /\ \A k \in 1 .. n - 1 : stack'[k] = stack[k]
      /\ stack'[n].locs = Tail(Top.locs)
      /\ \/ Len(stack') = n
         \/ /\ Len(stack') = n + 1 /\ FetchSitemap /\ site.content[s].kind = "index"
            /\ stack'[n + 1].locs = site.content[s].locs
      /\ FetchSitemap /\ site.content[s].kind = "index" => Len(stack') = n + 1
      /\ site' = site /\ depth' = depth /\ pc' = pc
  BY <1>1, <1>2, StackAfter
<1>5. /\ DOMAIN stack' = 1 .. Len(stack')
      /\ \A k \in 1 .. n : k \in DOMAIN stack'
      /\ \A k \in DOMAIN stack' : k \in 1 .. n - 1 \/ k = n \/ (k = n + 1 /\ Len(stack') = n + 1)
  <2>1. DOMAIN stack' = 1 .. Len(stack')
    BY <1>4, LenProperties
  <2>2. PICK m : m = Len(stack')
    OBVIOUS
  <2>3. m = n \/ m = n + 1
    BY <1>4, <2>2
  <2>4. /\ \A k \in 1 .. n : k \in 1 .. m
        /\ \A k \in 1 .. m : k \in 1 .. n - 1 \/ k = n \/ (k = n + 1 /\ m = n + 1)
    BY <1>3, <2>3
  <2> QED
    BY <2>1, <2>2, <2>4
<1>6. /\ \A t, e : AskedAt(t, e) => AskedAt(t, e)'
      /\ \A t : Asked(t) => Asked(t)'
      /\ \A m : TooDeep(m) => TooDeep(m)'
      /\ \A m : Indexed(m) => Indexed(m)'
      /\ \A t : Asked(t)' => Asked(t) \/ t = s
      /\ \/ PassOver /\ \A t : Asked(t)' => Asked(t)
         \/ (FetchFails \/ FetchSitemap) /\ AskedAt(s, d + 1)' /\ Asked(s)'
  BY <1>1, AskedGrows
<1>7. /\ \/ UNCHANGED raw /\ seen' = Marked(s) /\ (PassOver \/ FetchFails)
         \/ FetchSitemap /\ seen' = Marked(s) \union ToSet(New) /\ ToSet(New) \subseteq ToSet(raw')
      /\ ToSet(raw) \subseteq ToSet(raw') /\ Len(raw) \in Nat /\ Len(raw') \in Nat /\ Len(raw) <= Len(raw')
  <2>1. CASE PassOver \/ FetchFails
    <3>1. raw' = raw /\ seen' = Marked(s)
      BY <1>1, <2>1 DEF PassOver, FetchFails
    <3>2. Len(raw) \in Nat
      BY <1>3, NewType
    <3> QED
      BY <2>1, <3>1, <3>2
  <2>2. CASE FetchSitemap
    <3>1. /\ seen' = Marked(s) \union ToSet(New) /\ raw' = raw \o New
          /\ ToSet(raw) \subseteq ToSet(raw') /\ ToSet(New) \subseteq ToSet(raw')
      BY <1>1, <2>2, RawAfter
    <3>2. New \in Seq(DOMAIN Loc) /\ Len(raw) \in Nat /\ Len(New) \in Nat /\ Len(raw \o New) = Len(raw) + Len(New)
      BY <1>3, NewType
    <3> DEFINE a == Len(raw)
               b == Len(New)
               c == Len(raw \o New)
    <3>4. a \in Nat /\ b \in Nat /\ c = a + b
      BY <3>2
    <3> HIDE DEF a, b, c
    <3>5. c \in Nat /\ a <= c
      BY <3>4
    <3>6. Len(raw) \in Nat /\ Len(raw') \in Nat /\ Len(raw) <= Len(raw')
      BY <3>1, <3>4, <3>5 DEF a, c
    <3> QED
      BY <2>2, <3>1, <3>6
  <2> QED
    BY <2>1, <2>2 DEF Loop
<1>8. FirstFollowed /\ SeenFollowed /\ CallsAreFor /\ UrlsetFollowed /\ IndexFollowed
  <2> DEFINE a == Len(raw)
             b == Len(raw')
  <2>1. a \in Nat /\ b \in Nat /\ a <= b /\ b < limit
    BY <1>7 DEF Open
  <2> HIDE DEF a, b
  <2>2. a < limit
    BY <2>1, Limits
  <2>3. Open
    BY <1>4, <2>2 DEF Open, a
  <2> QED
    BY <2>3 DEF FollowInv
<1>9. Asked(s)' \/ (d > 0 /\ (TooDeep(s)' \/ s \in ToSet(raw)))
  BY <1>1, <1>8, Settled
<1>10. FirstFollowed'
  <2>1. /\ Consumed \in Nat
        /\ n = 1 => Consumed' = Consumed + 1 /\ s = site.robots[Consumed + 1]
        /\ n > 1 => Consumed' = Consumed
    BY <1>1, <1>2, WalkAfter
  <2>0. PICK c, robots : c = Consumed /\ robots = site.robots
    OBVIOUS
  <2>2. \A i \in 1 .. c : Asked(robots[i])'
    BY <1>6, <1>8, <2>0 DEF FirstFollowed
  <2>3. ASSUME NEW m, Consumed' = m, \A i \in 1 .. m : Asked(robots[i])'
        PROVE  FirstFollowed'
    <3>1. site'.robots = robots
      BY <1>4, <2>0
    <3> QED
      BY <2>3, <3>1 DEF FirstFollowed
  <2>4. CASE n = 1
    <3>1. d = 0
      BY <1>3, <2>4
    <3>2. Asked(s)'
      BY <1>9, <3>1
    <3>3. \A i \in 1 .. c + 1 : i \in 1 .. c \/ i = c + 1
      BY <2>0, <2>1
    <3>4. s = robots[c + 1] /\ Consumed' = c + 1
      BY <2>0, <2>1, <2>4
    <3>5. \A i \in 1 .. c + 1 : Asked(robots[i])'
      BY <2>2, <3>2, <3>3, <3>4
    <3> QED
      BY <2>3, <3>4, <3>5
  <2>5. CASE n > 1
    BY <2>0, <2>1, <2>2, <2>3, <2>5
  <2> QED
    BY <1>3, <2>4, <2>5
<1>11. SeenFollowed'
  <2>1. ASSUME NEW x \in seen'
        PROVE  x \in ToSet(raw') \/ (Indexed(x)' /\ (Asked(x)' \/ TooDeep(x)'))
    <3>1. x \in ToSet(raw') \/ x \in Marked(s)
      BY <1>7, <2>1
    <3>2. x \in Marked(s) => x \in seen \/ (x = s /\ d > 0)
      BY <1>1, <1>3, MarkedIs
    <3>3. CASE x \in seen
      <4>1. x \in ToSet(raw) \/ (Indexed(x) /\ (Asked(x) \/ TooDeep(x)))
        BY <1>8, <3>3 DEF SeenFollowed
      <4> QED
        BY <1>6, <1>7, <4>1
    <3>4. CASE x = s /\ d > 0
      <4>1. Indexed(s)'
        BY <1>1, <1>6, <1>8, <3>4, NestedIsIndexed
      <4> QED
        BY <1>7, <1>9, <3>4, <4>1
    <3> QED
      BY <3>1, <3>2, <3>3, <3>4
  <2> QED
    BY <2>1 DEF SeenFollowed
<1>12. CallsAreFor'
  <2>1. ASSUME NEW k \in DOMAIN stack', k > 1
        PROVE  \E t \in Sitemaps : AskedAt(t, k - 1)' /\ \A m \in ToSet(stack'[k].locs) : Names(t, m)'
    <3>1. k \in 1 .. n - 1 \/ k = n \/ (k = n + 1 /\ Len(stack') = n + 1)
      BY <1>5, <2>1
    <3>2. ASSUME k \in 1 .. n, ToSet(stack'[k].locs) \subseteq ToSet(stack[k].locs)
          PROVE  \E t \in Sitemaps : AskedAt(t, k - 1)' /\ \A m \in ToSet(stack'[k].locs) : Names(t, m)'
      <4>1. PICK t \in Sitemaps : AskedAt(t, k - 1) /\ \A m \in ToSet(stack[k].locs) : Names(t, m)
        BY <1>3, <1>8, <2>1, <3>2 DEF CallsAreFor
      <4>2. AskedAt(t, k - 1)'
        BY <1>6, <4>1
      <4>3. \A m \in ToSet(stack'[k].locs) : Names(t, m)'
        BY <1>4, <3>2, <4>1 DEF Names
      <4> QED
        BY <4>2, <4>3
    <3>3. CASE k \in 1 .. n - 1
      <4>1. k \in 1 .. n /\ stack'[k] = stack[k]
        BY <1>3, <1>4, <3>3
      <4> QED
        BY <3>2, <4>1
    <3>4. CASE k = n
      <4>1. k \in 1 .. n
        BY <1>3, <3>4
      <4>2. ToSet(stack'[k].locs) \subseteq ToSet(stack[k].locs)
        BY <1>3, <1>4, <3>4, TopLeft
      <4> QED
        BY <3>2, <4>1, <4>2
    <3>5. CASE k = n + 1 /\ Len(stack') = n + 1
      <4>1. FetchSitemap /\ site.content[s].kind = "index" /\ stack'[n + 1].locs = site.content[s].locs
        BY <1>3, <1>4, <3>5
      <4>2. k - 1 = d + 1 /\ d + 1 = n
        BY <1>3, <3>5
      <4>3. AskedAt(s, d + 1)'
        BY <1>1, <4>1, FetchIsAsked
      <4>4. \A m \in ToSet(stack'[k].locs) : Names(s, m)'
        BY <1>4, <3>5, <4>1 DEF Names
      <4> QED
        BY <1>3, <4>2, <4>3, <4>4
    <3> QED
      BY <3>1, <3>3, <3>4, <3>5
  <2> QED
    BY <2>1 DEF CallsAreFor
<1>13. UrlsetFollowed'
  <2>1. ASSUME NEW t \in Sitemaps, Asked(t)', t \notin lost', site.content[t].kind = "urlset"
        PROVE  \A l \in ToSet(site.content[t].locs) : l \in ToSet(raw') \/ Indexed(l)'
    <3>1. lost \subseteq lost'
      BY DEF Loop, PassOver, FetchFails, FetchSitemap
    <3>2. CASE Asked(t)
      <4>1. \A l \in ToSet(site.content[t].locs) : l \in ToSet(raw) \/ Indexed(l)
        BY <1>8, <2>1, <3>1, <3>2 DEF UrlsetFollowed
      <4> QED
        BY <1>6, <1>7, <4>1
    <3>3. CASE ~Asked(t)
      <4>1. t = s /\ FetchSitemap
        <5>1. t = s /\ ~PassOver
          BY <1>1, <1>6, <2>1, <3>3, PassAsksNone
        <5>2. ~FetchFails
          BY <1>1, <2>1, <5>1 DEF FetchFails
        <5> QED
          BY <5>1, <5>2 DEF Loop
      <4>2. \A l \in ToSet(site.content[t].locs) : l \in ToSet(raw') \/ Indexed(l)
        BY <1>1, <1>8, <2>1, <4>1, UrlsetTaken DEF Open
      <4> QED
        BY <1>6, <4>2
    <3> QED
      BY <3>2, <3>3
  <2> QED
    BY <1>4, <2>1 DEF UrlsetFollowed
<1>14. IndexFollowed'
  <2>1. ASSUME NEW t \in Sitemaps, NEW x \in Sitemaps, Asked(t)', t \notin lost', Names(t, x)
        PROVE  Asked(x)' \/ TooDeep(x)' \/ x \in ToSet(raw') \/ Pending(x)'
    <3>1. lost \subseteq lost'
      BY DEF Loop, PassOver, FetchFails, FetchSitemap
    <3>2. CASE Asked(t)
      <4>1. Asked(x) \/ TooDeep(x) \/ x \in ToSet(raw) \/ Pending(x)
        BY <1>8, <2>1, <3>1, <3>2 DEF IndexFollowed
      <4>2. CASE Asked(x) \/ TooDeep(x) \/ x \in ToSet(raw)
        BY <1>6, <1>7, <4>2
      <4>3. CASE Pending(x)
        <5>1. PICK k \in DOMAIN stack : k > 1 /\ x \in ToSet(stack[k].locs)
          BY <4>3 DEF Pending
        <5>2. k \in 1 .. n /\ k \in DOMAIN stack'
          BY <1>3, <1>5
        <5>3. CASE k # n
          <6>1. k \in 1 .. n - 1
            BY <1>3, <5>3
          <6>2. stack'[k] = stack[k]
            BY <1>4, <6>1
          <6> QED
            BY <5>1, <5>2, <6>2 DEF Pending
        <5>4. CASE k = n
          <6>1. x = s \/ x \in ToSet(stack'[k].locs)
            BY <1>1, <1>3, <1>4, <5>1, <5>4, TopLeft
          <6>2. CASE x = s
            BY <1>7, <1>9, <6>2
          <6>3. CASE x \in ToSet(stack'[k].locs)
            BY <5>1, <5>2, <6>3 DEF Pending
          <6> QED
            BY <6>1, <6>2, <6>3
        <5> QED
          BY <5>3, <5>4
      <4> QED
        BY <4>1, <4>2, <4>3
    <3>3. CASE ~Asked(t)
      <4>1. t = s /\ FetchSitemap
        <5>1. t = s /\ ~PassOver
          BY <1>1, <1>6, <2>1, <3>3, PassAsksNone
        <5>2. ~FetchFails
          BY <1>1, <2>1, <5>1 DEF FetchFails
        <5> QED
          BY <5>1, <5>2 DEF Loop
      <4>2. site.content[s].kind = "index"
        BY <2>1, <4>1 DEF Names
      <4>3. Len(stack') = n + 1 /\ stack'[n + 1].locs = site.content[s].locs
        BY <1>3, <1>4, <4>1, <4>2
      <4>4. n + 1 \in DOMAIN stack' /\ n + 1 > 1
        BY <1>3, <1>5, <4>3
      <4> QED
        BY <2>1, <4>1, <4>3, <4>4 DEF Pending, Names
    <3> QED
      BY <3>2, <3>3
  <2>2. \A t, x : Names(t, x)' <=> Names(t, x)
    BY <1>4 DEF Names
  <2> QED
    BY <2>1, <2>2 DEF IndexFollowed
<1> QED
  BY <1>10, <1>11, <1>12, <1>13, <1>14


\* A call that returns while the limit is not reached has nothing left.
LEMMA ReturnFollows ==
  ASSUME TypeOK, WalkInv, FollowInv, Return
  PROVE  FollowInv'
<1> SUFFICES ASSUME Open' PROVE (FirstFollowed /\ SeenFollowed /\ CallsAreFor /\ UrlsetFollowed /\ IndexFollowed)'
  BY DEF FollowInv
<1>1. /\ pc = "sitemaps" /\ stack # <<>> /\ ~InLoop /\ stack' = Front(stack)
      /\ UNCHANGED <<site, pc, depth, asked, lost, raw, seen>>
  BY DEF Return
<1>2. Open /\ Len(raw) < limit
  BY <1>1 DEF Open
<1>3. Top.locs = <<>>
  BY <1>1, <1>2 DEF InLoop
<1>4. FirstFollowed /\ SeenFollowed /\ CallsAreFor /\ UrlsetFollowed /\ IndexFollowed
  BY <1>2 DEF FollowInv
<1>5. Consumed' = Consumed
  BY <1>3, ReturnWalk
<1>6. PICK n : n = Len(stack)
  OBVIOUS
<1>7. /\ n \in Nat \ {0} /\ DOMAIN stack = 1 .. n /\ DOMAIN stack' = 1 .. n - 1
      /\ \A k \in 1 .. n - 1 : stack'[k] = stack[k]
      /\ stack[n].locs = <<>>
  <2>1. stack \in Seq(Frame)
    BY DEF TypeOK, Frame
  <2>2. /\ n \in Nat \ {0} /\ DOMAIN stack = 1 .. n
    BY <1>1, <1>6, <2>1, EmptySeq, LenProperties
  <2>3. /\ stack' \in Seq(Frame) /\ Len(stack') = n - 1
        /\ \A k \in 1 .. n - 1 : stack'[k] = stack[k]
    BY <1>1, <1>6, <2>1, FrontType
  <2>4. DOMAIN stack' = 1 .. n - 1
    BY <2>3, LenProperties
  <2>5. Top = stack[n]
    BY <1>6 DEF Top, Last
  <2> QED
    BY <1>3, <2>2, <2>3, <2>4, <2>5
<1>8. \A t, e : AskedAt(t, e)' <=> AskedAt(t, e)
  BY <1>1 DEF AskedAt
<1>9. \A t : Asked(t)' <=> Asked(t)
  BY <1>8 DEF Asked
<1>10. \A m, t : Names(t, m)' <=> Names(t, m)
  BY <1>1 DEF Names
<1>11. \A m : (TooDeep(m)' <=> TooDeep(m)) /\ (Indexed(m)' <=> Indexed(m))
  BY <1>8, <1>9, <1>10 DEF TooDeep, Indexed
<1>12. \A m : Pending(m) => Pending(m)'
  <2>1. ASSUME NEW m, Pending(m)
        PROVE  Pending(m)'
    <3>1. PICK k \in DOMAIN stack : k > 1 /\ m \in ToSet(stack[k].locs)
      BY <2>1 DEF Pending
    <3>2. k # n
      <4>1. ToSet(stack[n].locs) = {}
        BY <1>7 DEF ToSet
      <4> QED
        BY <3>1, <4>1
    <3>3. k \in 1 .. n - 1
      BY <1>7, <3>2
    <3> QED
      BY <1>7, <3>1, <3>3 DEF Pending
  <2> QED
    BY <2>1
<1>13. FirstFollowed'
  <2>1. PICK c, robots : c = Consumed /\ robots = site.robots
    OBVIOUS
  <2>2. \A i \in 1 .. c : Asked(robots[i])'
    BY <1>4, <1>9, <2>1 DEF FirstFollowed
  <2> QED
    BY <1>1, <1>5, <2>1, <2>2 DEF FirstFollowed
<1>14. SeenFollowed'
  BY <1>1, <1>4, <1>9, <1>11 DEF SeenFollowed
<1>15. CallsAreFor'
  <2>1. \A k \in DOMAIN stack' : k \in DOMAIN stack /\ stack'[k] = stack[k]
    BY <1>7
  <2> QED
    BY <1>4, <1>8, <1>10, <2>1 DEF CallsAreFor
<1>16. UrlsetFollowed'
  BY <1>1, <1>4, <1>9, <1>11 DEF UrlsetFollowed
<1>17. IndexFollowed'
  BY <1>1, <1>4, <1>9, <1>10, <1>11, <1>12 DEF IndexFollowed
<1> QED
  BY <1>13, <1>14, <1>15, <1>16, <1>17

\* The walk starts with the whole of robots.txt in front of it.
LEMMA ReadFollows ==
  ASSUME TypeOK, WalkInv, ReadPage
  PROVE  FollowInv'
<1> SUFFICES ASSUME Open' PROVE (FirstFollowed /\ SeenFollowed /\ CallsAreFor /\ UrlsetFollowed /\ IndexFollowed)'
  BY DEF FollowInv
<1>1. asked' = <<>> /\ seen' = {} /\ UNCHANGED <<site, depth>>
  BY DEF ReadPage, WalkInv
<1>2. depth = 0
  BY <1>1 DEF Open
<1>3. stack' = <<[depth |-> 0, locs |-> site.robots]>>
  BY <1>2 DEF ReadPage
<1>4. DOMAIN stack' = {1} /\ stack' # <<>> /\ stack'[1].locs = site.robots
  BY <1>3
<1>5. Consumed' = 0
  <2>1. Left' = Len(site.robots) /\ Len(site.robots) \in Nat
    BY <1>4, Counts DEF Left
  <2>2. site' = site
    BY <1>1
  <2> DEFINE r == Len(site.robots)
  <2>3. Consumed' = r - r /\ r \in Nat
    BY <2>1, <2>2 DEF Consumed
  <2> HIDE DEF r
  <2> QED
    BY <2>3
<1>6. \A t, e : ~AskedAt(t, e)'
  BY <1>1 DEF AskedAt
<1>7. \A t : ~Asked(t)'
  BY <1>6 DEF Asked
<1>8. FirstFollowed'
  <2>1. 1 .. Consumed' = {}
    BY <1>5
  <2> QED
    BY <2>1 DEF FirstFollowed
<1>9. SeenFollowed'
  BY <1>1 DEF SeenFollowed
<1>10. CallsAreFor'
  BY <1>4 DEF CallsAreFor
<1>11. UrlsetFollowed'
  BY <1>7 DEF UrlsetFollowed
<1>12. IndexFollowed'
  BY <1>7 DEF IndexFollowed
<1> QED
  BY <1>8, <1>9, <1>10, <1>11, <1>12

LEMMA SameFollows ==
  ASSUME FollowInv, UNCHANGED <<site, depth, stack, asked, lost, raw, seen>>, pc' # "read" => pc # "read"
  PROVE  FollowInv'
<1>1. \A t, e : AskedAt(t, e)' <=> AskedAt(t, e)
  BY DEF AskedAt
<1>2. \A t : Asked(t)' <=> Asked(t)
  BY <1>1 DEF Asked
<1>3. \A m, t : Names(t, m)' <=> Names(t, m)
  BY DEF Names
<1>4. \A m : /\ TooDeep(m)' <=> TooDeep(m)
             /\ Indexed(m)' <=> Indexed(m)
             /\ Pending(m)' <=> Pending(m)
  BY <1>1, <1>2, <1>3 DEF TooDeep, Indexed, Pending
<1>5. FirstFollowed => FirstFollowed'
  <2>1. PICK c, robots : c = Consumed /\ robots = site.robots
    OBVIOUS
  <2>2. Consumed' = c /\ site'.robots = robots
    BY <2>1 DEF Consumed, Left
  <2>3. ASSUME FirstFollowed PROVE \A i \in 1 .. c : Asked(robots[i])'
    BY <1>2, <2>1, <2>3 DEF FirstFollowed
  <2> QED
    BY <2>2, <2>3 DEF FirstFollowed
<1>6. SeenFollowed => SeenFollowed'
  BY <1>2, <1>4 DEF SeenFollowed
<1>7. CallsAreFor => CallsAreFor'
  BY <1>1, <1>3 DEF CallsAreFor
<1>8. UrlsetFollowed => UrlsetFollowed'
  BY <1>2, <1>4 DEF UrlsetFollowed
<1>9. IndexFollowed => IndexFollowed'
  BY <1>2, <1>3, <1>4 DEF IndexFollowed
<1>10. Open' => Open
  BY DEF Open
<1> QED
  BY <1>5, <1>6, <1>7, <1>8, <1>9, <1>10 DEF FollowInv

LEMMA StepFollow == TypeOK /\ WalkInv /\ FollowInv /\ [Next]_vars => FollowInv'
<1> SUFFICES ASSUME TypeOK, WalkInv, FollowInv, [Next]_vars PROVE FollowInv'
  OBVIOUS
<1>1. CASE ReadPage
  BY <1>1, ReadFollows
<1>2. CASE PassOver \/ FetchFails \/ FetchSitemap
  BY <1>2, LoopFollows DEF Loop
<1>3. CASE Return
  BY <1>3, ReturnFollows
<1>4. CASE Collected \/ UNCHANGED vars
  <2>1. UNCHANGED <<site, depth, stack, asked, lost, raw, seen>> /\ (pc' # "read" => pc # "read")
    BY <1>4 DEF Collected, walk, vars
  <2> QED
    BY <2>1, SameFollows
<1>5. CASE FollowLink
  <2>1. pc' = "read"
    BY <1>5 DEF FollowLink
  <2> QED
    BY <2>1 DEF FollowInv, Open
<1> QED
  BY <1>1, <1>2, <1>3, <1>4, <1>5 DEF Next

\* At the end of the walk no call is left that could have something left.
LEMMA AllFollowed ==
  ASSUME TypeOK, WalkInv, FollowInv
  PROVE  SitemapsAreFollowed
<1> SUFFICES ASSUME pc = "collected", depth = 0, Len(raw) < limit
             PROVE  /\ \A i \in DOMAIN site.robots : Asked(site.robots[i])
                    /\ \A s \in Sitemaps : Asked(s) /\ s \notin lost =>
                         CASE site.content[s].kind = "urlset" ->
                                \A l \in ToSet(site.content[s].locs) : l \in ToSet(raw) \/ Indexed(l)
                           [] site.content[s].kind = "index"  ->
                                \A n \in ToSet(site.content[s].locs) : Asked(n) \/ TooDeep(n) \/ n \in ToSet(raw)
                           [] OTHER -> TRUE
  BY DEF SitemapsAreFollowed
<1>1. FirstFollowed /\ UrlsetFollowed /\ IndexFollowed
  BY DEF FollowInv, Open
<1>2. stack = <<>>
  BY DEF WalkInv
<1>3. \A i \in DOMAIN site.robots : Asked(site.robots[i])
  <2>1. PICK r : r = Len(site.robots)
    OBVIOUS
  <2>2. DOMAIN site.robots = 1 .. r /\ r \in Nat
    BY <2>1, Counts, LenProperties
  <2>3. Consumed = r
    <3>1. Consumed = r - 0
      BY <1>2, <2>1 DEF Consumed, Left
    <3> QED
      BY <2>2, <3>1
  <2> QED
    BY <1>1, <2>2, <2>3 DEF FirstFollowed
<1>4. \A n : ~Pending(n)
  <2>1. DOMAIN stack = {}
    BY <1>2
  <2> QED
    BY <2>1 DEF Pending
<1>5. ASSUME NEW s \in Sitemaps, Asked(s), s \notin lost
      PROVE  CASE site.content[s].kind = "urlset" ->
                    \A l \in ToSet(site.content[s].locs) : l \in ToSet(raw) \/ Indexed(l)
               [] site.content[s].kind = "index"  ->
                    \A n \in ToSet(site.content[s].locs) : Asked(n) \/ TooDeep(n) \/ n \in ToSet(raw)
               [] OTHER -> TRUE
  <2>1. CASE site.content[s].kind = "urlset"
    <3>1. site.content[s].kind # "index"
      BY <2>1
    <3>2. \A l \in ToSet(site.content[s].locs) : l \in ToSet(raw) \/ Indexed(l)
      BY <1>1, <1>5, <2>1 DEF UrlsetFollowed
    <3> QED
      BY <2>1, <3>1, <3>2
  <2>2. CASE site.content[s].kind = "index"
    <3>1. site.content[s].kind # "urlset"
      BY <2>2
    <3>2. ASSUME NEW n \in ToSet(site.content[s].locs)
          PROVE  Asked(n) \/ TooDeep(n) \/ n \in ToSet(raw)
      <4>1. n \in Sitemaps
        <5>1. PICK l : l = site.content[s].locs
          OBVIOUS
        <5>2. l \in Seq(Sitemaps)
          BY <2>2, <5>1, SitesAssumption DEF TypeOK, Document
        <5> QED
          BY <3>2, <5>1, <5>2, LenProperties, ElementOfSeq DEF ToSet
      <4>2. Names(s, n)
        BY <2>2, <3>2 DEF Names
      <4> QED
        BY <1>1, <1>4, <1>5, <4>1, <4>2 DEF IndexFollowed
    <3> QED
      BY <2>2, <3>1, <3>2
  <2>3. CASE site.content[s].kind # "urlset" /\ site.content[s].kind # "index"
    BY <2>3
  <2> QED
    BY <2>1, <2>2, <2>3
<1> QED
  BY <1>3, <1>5

\* Below the limit the walk leaves nothing out but what the set it shares between sitemaps
\* and pages hides from it: a sitemap first met where it is nested too deep, a sitemap first
\* met as a page, and a page first met as a sitemap.  A failure to fetch one sitemap passes
\* over that one only (worker.go:635-703).
THEOREM WalkLeavesNothingOut == Spec => []SitemapsAreFollowed
<1>1. Init => FollowInv
  BY DEF Init, FollowInv, Open
<1>2. TypeOK /\ WalkInv /\ FollowInv => SitemapsAreFollowed
  BY AllFollowed
<1> QED
  BY <1>1, <1>2, StepFollow, WalksHold, PTL DEF Spec

=============================================================================
