--------------------------- MODULE DecisionLemmas ---------------------------
(***************************************************************************)
(* What the operators Decisions calls compute: the loops over a list, the  *)
(* prompt's sanitiser, the rules' scores and the pages of a list.          *)
(*                                                                         *)
(* A loop is a recursive function in its model.  It is reasoned about by   *)
(* induction on its counter, which is stated with sets of naturals: a set  *)
(* that holds 0 and with each number the next one is Nat.                  *)
(***************************************************************************)
EXTENDS Decisions, SequenceTheorems, FiniteSetTheorems, TLAPS

\* A set of naturals that is not empty has a least element.
LEMMA Least ==
    ASSUME NEW T \in SUBSET Nat, T # {}
    PROVE  \E x \in T : \A y \in T : x <= y
<1> DEFINE R == OpToRel(<, Nat)
<1>1. IsWellFoundedOn(R, Nat)
  BY NatLessThanWellFounded
<1>2. \A x, y \in Nat : x < y => <<x, y>> \in R
  BY DEF OpToRel
<1> HIDE DEF R
<1>3. \E x \in T : \A y \in T : ~(<<y, x>> \in R)
  BY <1>1, WFMin
<1>4. PICK x \in T : \A y \in T : ~(<<y, x>> \in R)
  BY <1>3
<1>5. \A y \in T : ~(y < x)
  BY <1>2, <1>4
<1>6. \A y \in T : x \in Nat /\ y \in Nat
  OBVIOUS
<1>7. \A y \in T : x <= y
  BY ONLY <1>5, <1>6
<1>8. QED
  BY <1>7

\* Induction, for a property given as the set of the numbers that have it.
LEMMA Induct ==
    ASSUME NEW T \in SUBSET Nat, 0 \in T, \A n \in T : n + 1 \in T
    PROVE  T = Nat
<1> SUFFICES ASSUME Nat \ T # {} PROVE FALSE
  OBVIOUS
<1>1. PICK m \in Nat \ T : \A y \in Nat \ T : m <= y
  BY Least
<1>2. m - 1 \in Nat /\ m - 1 < m
  BY <1>1
<1>3. m - 1 \in T
  BY <1>1, <1>2
<1>4. m - 1 + 1 \in T
  BY <1>3
<1>5. QED
  BY <1>1, <1>2, <1>4

\* The same up to a bound, as a loop counts.
LEMMA UpTo ==
    ASSUME NEW n \in Nat, NEW T, 0 \in T,
           \A m \in 1 .. n : m - 1 \in T => m \in T
    PROVE  \A m \in 0 .. n : m \in T
<1> DEFINE U == {m \in Nat : m > n \/ m \in T}
<1>1. ASSUME NEW m \in U PROVE m + 1 \in U
  <2>1. CASE m + 1 > n
    BY <2>1
  <2>2. CASE m + 1 \in 1 .. n
    <3>1. m \in T /\ m + 1 - 1 = m
      BY <2>2
    <3>2. QED
      BY <2>2, <3>1
  <2>3. QED
    BY <2>1, <2>2
<1>2. 0 \in U /\ U \subseteq Nat
  OBVIOUS
<1> HIDE DEF U
<1>3. U = Nat
  BY <1>1, <1>2, Induct
<1>4. QED
  BY <1>3 DEF U

\* g has the values of a loop of n turns: base at first, and after turn m what
\* F makes of the value before.
LoopOf(S, base, F, n, g) ==
    /\ g \in [0 .. n -> S] /\ g[0] = base
    /\ \A m \in 1 .. n : g[m] = F[<<m, g[m - 1]>>]

\* A loop has values, whatever its body.
LEMMA LoopRuns ==
    ASSUME NEW S, NEW base \in S, NEW F \in [Nat \X S -> S], NEW n \in Nat
    PROVE  \E g : LoopOf(S, base, F, n, g)
<1> USE DEF LoopOf
<1> DEFINE T == {k \in Nat : \E g : LoopOf(S, base, F, k, g)}
<1>1. 0 \in T
  <2> DEFINE g == [m \in 0 .. 0 |-> base]
  <2>1. LoopOf(S, base, F, 0, g)
    OBVIOUS
  <2>2. QED
    BY <2>1
<1>2. ASSUME NEW k \in T PROVE k + 1 \in T
  <2>1. k \in Nat
    OBVIOUS
  <2>2. PICK g : LoopOf(S, base, F, k, g)
    OBVIOUS
  <2> DEFINE next == F[<<k + 1, g[k]>>]
             h == [m \in 0 .. k + 1 |-> IF m = k + 1 THEN next ELSE g[m]]
  <2>3. next \in S
    BY <2>1, <2>2
  <2>4. h \in [0 .. k + 1 -> S]
    BY <2>1, <2>2, <2>3
  <2>5. \A m \in 0 .. k : h[m] = g[m]
    BY <2>1
  <2>6. h[k + 1] = next
    BY <2>1
  <2> HIDE DEF h
  <2>7. ASSUME NEW m \in 1 .. k + 1 PROVE h[m] = F[<<m, h[m - 1]>>]
    <3>1. CASE m = k + 1
      <4>1. m - 1 = k /\ h[m - 1] = g[k]
        BY <2>1, <2>5, <3>1
      <4>2. QED
        BY <2>6, <3>1, <4>1
    <3>2. CASE m \in 1 .. k
      <4>1. m - 1 \in 0 .. k /\ m \in 0 .. k
        BY <2>1, <3>2
      <4>2. h[m - 1] = g[m - 1] /\ h[m] = g[m]
        BY <2>5, <4>1
      <4>3. QED
        BY <2>2, <3>2, <4>2
    <3>3. QED
      BY <2>1, <3>1, <3>2
  <2>8. h[0] = base
    BY <2>1, <2>2, <2>5
  <2>9. QED
    BY <2>1, <2>4, <2>7, <2>8
<1>3. T \subseteq Nat
  OBVIOUS
<1> HIDE DEF T
<1>4. T = Nat
  BY <1>1, <1>2, <1>3, Induct
<1>5. QED
  BY <1>4 DEF T

\* Two lists put together.
LEMMA Concat ==
    ASSUME NEW S, NEW a \in Seq(S), NEW b \in Seq(S)
    PROVE  /\ a \o b \in Seq(S) /\ Len(a \o b) = Len(a) + Len(b)
           /\ Len(a) \in Nat /\ Len(b) \in Nat
           /\ \A i \in 1 .. Len(a) : (a \o b)[i] = a[i]
           /\ \A i \in 1 .. Len(b) : (a \o b)[Len(a) + i] = b[i]
OBVIOUS

-----------------------------------------------------------------------------
(* A list without one kind of entry.                                       *)

\* The value of Without's loop after turn m.
Sifted(s, x, g, m) ==
    IF m = 0 THEN <<>>
    ELSE IF s[m] = x THEN g[m - 1] ELSE Append(g[m - 1], s[m])

\* g holds the values of Without's loop.
Sifting(s, x, g) ==
    /\ g[0] = <<>>
    /\ \A m \in 1 .. Len(s) :
          g[m] = IF s[m] = x THEN g[m - 1] ELSE Append(g[m - 1], s[m])

\* Without is a loop that ran.
LEMMA WithoutRuns ==
    ASSUME NEW S, NEW s \in Seq(S), NEW x
    PROVE  \E g : Sifting(s, x, g) /\ Without(s, x) = g[Len(s)]
<1> DEFINE n == Len(s)
           F == [p \in Nat \X Seq(S) |->
                   IF p[1] \in 1 .. n /\ s[p[1]] # x
                   THEN Append(p[2], s[p[1]]) ELSE p[2]]
<1>1. F \in [Nat \X Seq(S) -> Seq(S)]
  OBVIOUS
<1>2. \A m \in 1 .. n, t \in Seq(S) :
         F[<<m, t>>] = IF s[m] = x THEN t ELSE Append(t, s[m])
  OBVIOUS
<1>3. n \in Nat /\ <<>> \in Seq(S)
  OBVIOUS
<1> HIDE DEF F, n
<1>4. PICK g \in [0 .. n -> Seq(S)] :
         g[0] = <<>> /\ \A m \in 1 .. n : g[m] = F[<<m, g[m - 1]>>]
  <2>1. \E g : LoopOf(Seq(S), <<>>, F, n, g)
    BY <1>1, <1>3, LoopRuns
  <2>2. QED
    BY <2>1 DEF LoopOf
<1>5. \A m \in 0 .. n : g[m] = Sifted(s, x, g, m)
  <2>1. \A m \in 1 .. n : g[m - 1] \in Seq(S)
    BY <1>3
  <2>2. \A m \in 1 .. n :
           g[m] = IF s[m] = x THEN g[m - 1] ELSE Append(g[m - 1], s[m])
    BY <1>2, <1>4, <2>1
  <2>3. \A m \in 0 .. n : m # 0 => m \in 1 .. n
    BY <1>3
  <2>4. QED
    BY <1>4, <2>2, <2>3 DEF Sifted
<1>6. g = [m \in 0 .. n |-> Sifted(s, x, g, m)]
  BY <1>5
<1> DEFINE kept == CHOOSE f : f = [m \in 0 .. n |-> Sifted(s, x, f, m)]
<1>7. kept = [m \in 0 .. n |-> Sifted(s, x, kept, m)]
  BY <1>6
<1>8. Without(s, x) = kept[n]
  BY DEF Without, Sifted, n
<1> HIDE DEF kept
<1>9. \A m \in 0 .. n : kept[m] = Sifted(s, x, kept, m)
  BY <1>7
<1>10. 0 \in 0 .. n /\ \A m \in 1 .. n : m \in 0 .. n /\ m # 0
  BY <1>3
<1>11. Sifting(s, x, kept)
  BY <1>9, <1>10 DEF n, Sifting, Sifted
<1>12. QED
  BY <1>8, <1>11 DEF n

\* It is a list of the same kind, and x is not in it.
LEMMA WithoutDrops ==
    ASSUME NEW S, NEW s \in Seq(S), NEW x
    PROVE  /\ Without(s, x) \in Seq(S)
           /\ \A i \in 1 .. Len(Without(s, x)) : Without(s, x)[i] # x
<1> DEFINE Good(t) == t \in Seq(S) /\ \A i \in 1 .. Len(t) : t[i] # x
<1>1. PICK g : Sifting(s, x, g) /\ Without(s, x) = g[Len(s)]
  BY WithoutRuns
<1> DEFINE T == {m \in 0 .. Len(s) : Good(g[m])}
<1>2. Len(s) \in Nat /\ 0 \in 0 .. Len(s) /\ Good(<<>>)
  OBVIOUS
<1>3. 0 \in T
  BY <1>1, <1>2 DEF Sifting
<1>4. ASSUME NEW m \in 1 .. Len(s), m - 1 \in T PROVE m \in T
  <2>1. Good(g[m - 1]) /\ m \in 0 .. Len(s) /\ s[m] \in S
    BY <1>4
  <2>2. CASE s[m] = x
    <3>1. g[m] = g[m - 1]
      BY <1>1, <2>2 DEF Sifting
    <3>2. QED
      BY <2>1, <3>1
  <2>3. CASE s[m] # x
    <3>1. g[m] = Append(g[m - 1], s[m])
      BY <1>1, <2>3 DEF Sifting
    <3>2. Good(Append(g[m - 1], s[m]))
      BY <2>1, <2>3
    <3> HIDE DEF Good
    <3>3. QED
      BY <2>1, <3>1, <3>2
  <2>4. QED
    BY <2>2, <2>3
<1> HIDE DEF T
<1>5. \A m \in 0 .. Len(s) : m \in T
  BY <1>2, <1>3, <1>4, UpTo
<1>6. Len(s) \in T
  BY <1>2, <1>5
<1>7. QED
  BY <1>1, <1>6 DEF T

\* What stands behind a list is kept as it is, if x is not in it.
LEMMA WithoutBehind ==
    ASSUME NEW S, NEW s \in Seq(S), NEW t \in Seq(S), NEW x,
           \A i \in 1 .. Len(t) : t[i] # x
    PROVE  Without(s \o t, x) = Without(s, x) \o t
<1> DEFINE n == Len(s)
           k == Len(t)
           st == s \o t
           w == Without(s, x)
<1>1. n \in Nat /\ k \in Nat
  OBVIOUS
<1>2. /\ Len(st) = n + k /\ st \in Seq(S)
      /\ \A m \in 1 .. n : st[m] = s[m]
      /\ \A m \in 1 .. k : st[n + m] = t[m]
  OBVIOUS
<1>3. w \in Seq(S)
  BY WithoutDrops
<1>4. PICK f : Sifting(s, x, f) /\ w = f[n]
  BY WithoutRuns
<1>5. PICK g : Sifting(st, x, g) /\ Without(st, x) = g[n + k]
  <2> HIDE DEF st
  <2>1. QED
    BY <1>2, WithoutRuns
<1>6. \A m \in 1 .. n : f[m] = IF s[m] = x THEN f[m - 1]
                                          ELSE Append(f[m - 1], s[m])
  BY <1>4 DEF Sifting
<1>7. \A m \in 1 .. n + k : g[m] = IF st[m] = x THEN g[m - 1]
                                              ELSE Append(g[m - 1], st[m])
  <2> HIDE DEF st
  <2>1. QED
    BY <1>2, <1>5 DEF Sifting
<1> HIDE DEF n, k, w, st
<1>8. g[n] = w
  <2> DEFINE T == {m \in 0 .. n : g[m] = f[m]}
  <2>1. 0 \in T
    BY <1>1, <1>4, <1>5 DEF Sifting
  <2>2. ASSUME NEW m \in 1 .. n, m - 1 \in T PROVE m \in T
    <3>1. m \in 1 .. n + k /\ m \in 0 .. n /\ g[m - 1] = f[m - 1]
      BY <1>1, <2>2
    <3>2. g[m] = f[m]
      BY <1>2, <1>6, <1>7, <3>1
    <3>3. QED
      BY <3>1, <3>2
  <2> HIDE DEF T
  <2>3. \A m \in 0 .. n : m \in T
    BY <1>1, <2>1, <2>2, UpTo
  <2>4. QED
    BY <1>1, <1>4, <2>3 DEF T
<1> DEFINE Got(m) == w \o SubSeq(t, 1, m)
           U == {m \in 0 .. k : g[n + m] = Got(m)}
<1>9. 0 \in U
  <2>1. SubSeq(t, 1, 0) = <<>> /\ w \o <<>> = w
    BY <1>3, SubSeqEmpty, ConcatEmptySeq
  <2>2. Got(0) = w
    BY <2>1
  <2>3. n + 0 = n /\ 0 \in 0 .. k
    BY <1>1
  <2> HIDE DEF Got
  <2>4. QED
    BY <1>8, <2>2, <2>3
<1>10. ASSUME NEW m \in 1 .. k, m - 1 \in U PROVE m \in U
  <2>1. /\ n + m \in 1 .. n + k /\ n + m - 1 = n + (m - 1) /\ m \in 0 .. k
        /\ g[n + (m - 1)] = Got(m - 1)
    BY <1>1, <1>10
  <2>2. st[n + m] = t[m] /\ t[m] # x /\ t[m] \in S
    BY <1>2 DEF k
  <2>3. g[n + m] = Append(Got(m - 1), t[m])
    <3> HIDE DEF Got
    <3>1. g[n + m] = Append(g[n + m - 1], t[m])
      <4>1. g[n + m] = IF st[n + m] = x THEN g[n + m - 1]
                       ELSE Append(g[n + m - 1], st[n + m])
        BY <1>1, <1>7, <2>1
      <4>2. QED
        BY <2>2, <4>1
    <3>2. QED
      BY <2>1, <3>1
  <2>4. SubSeq(t, 1, m) = SubSeq(t, 1, m - 1) \o <<t[m]>>
    <3>1. 1 \in 1 .. Len(t) /\ m \in 1 .. Len(t)
      BY DEF k
    <3>2. QED
      BY <3>1, SubSeqRecursiveSecond
  <2>5. Append(Got(m - 1), t[m]) = Got(m)
    <3> DEFINE u == SubSeq(t, 1, m - 1)
               e == <<t[m]>>
    <3>1. u \in Seq(S) /\ e \in Seq(S)
      BY <1>1, <2>2, SubSeqProperties DEF k
    <3> HIDE DEF u
    <3>2. w \o u \in Seq(S)
      BY <1>3, <3>1
    <3>3. Append(w \o u, t[m]) = (w \o u) \o e
      BY <2>2, <3>2, AppendIsConcat
    <3> HIDE DEF e
    <3>4. (w \o u) \o e = w \o (u \o e)
      <4>1. \A a, b, c \in Seq(S) : (a \o b) \o c = a \o (b \o c)
        OBVIOUS
      <4>2. QED
        BY <1>3, <3>1, <4>1
    <3>5. QED
      BY <2>4, <3>3, <3>4 DEF u, e
  <2> HIDE DEF Got
  <2>6. QED
    BY <2>1, <2>3, <2>5
<1> HIDE DEF U
<1>11. \A m \in 0 .. k : m \in U
  BY <1>1, <1>9, <1>10, UpTo
<1>12. k \in 0 .. k
  BY <1>1
<1>13. g[n + k] = Got(k)
  BY <1>11, <1>12 DEF U
<1>14. SubSeq(t, 1, k) = t
  BY SubSeqFull DEF k
<1>15. QED
  BY <1>5, <1>13, <1>14 DEF w, st

\* A list that x is not in is kept.
LEMMA WithoutKeeps ==
    ASSUME NEW S, NEW s \in Seq(S), NEW x, \A i \in 1 .. Len(s) : s[i] # x
    PROVE  Without(s, x) = s
<1> DEFINE none == <<>>
<1>1. none \in Seq(S) /\ Len(none) = 0 /\ none \o s = s
  BY ConcatEmptySeq
<1>2. Without(none, x) = none
  <2>1. PICK g : Sifting(none, x, g) /\ Without(none, x) = g[0]
    BY <1>1, WithoutRuns
  <2>2. QED
    BY <2>1 DEF Sifting
<1>3. Without(none \o s, x) = Without(none, x) \o s
  <2> HIDE DEF none
  <2>1. QED
    BY <1>1, WithoutBehind
<1>4. QED
  BY <1>1, <1>2, <1>3

-----------------------------------------------------------------------------
(* What the inputs of the calls are.                                       *)

\* A member of SeqsUpTo is a sequence.
LEMMA SeqsAreSeqs ==
    ASSUME NEW S, NEW n \in Nat, NEW s \in SeqsUpTo(S, n)
    PROVE  s \in Seq(S) /\ Len(s) \in 0 .. n
<1>1. PICK m \in 0 .. n : s \in [1 .. m -> S]
  BY DEF SeqsUpTo
<1>2. QED
  BY <1>1

-----------------------------------------------------------------------------
(* The client's address.                                                   *)

\* What client_ip takes of the entries.
AddressIn(xff, peer, trusted_hops) ==
    IF trusted_hops <= 0 \/ Len(xff) < trusted_hops THEN peer
    ELSE xff[Len(xff) - trusted_hops + 1]

\* Entries of any kind but x are left out: counted from the end, the address
\* is the one before those of the path, however the list begins.
LEMMA CountedFromEnd ==
    ASSUME NEW S, NEW x, NEW sent \in Seq(S), NEW citizen \in S, citizen # x,
           NEW path \in Seq(S), \A i \in 1 .. Len(path) : path[i] # x
    PROVE  AddressIn(Without(Forwarded(sent, citizen, path), x),
                     _peer_host(citizen, path), Len(path)) = citizen
<1>1. CASE path = <<>>
  <2>1. Len(path) <= 0
    BY <1>1
  <2>2. QED
    BY <1>1, <2>1 DEF AddressIn, _peer_host
<1>2. CASE path # <<>>
  <2> DEFINE n == Len(path)
             own == <<citizen>>
             behind == SubSeq(path, 1, n - 1)
             added == own \o behind
             w == Without(sent, x)
             header == (sent \o own) \o behind
             xff == Without(header, x)
  <2>1. n \in Nat \ {0} /\ \A i \in 1 .. n : path[i] \in S
    BY <1>2
  <2>2. own \in Seq(S) /\ Len(own) = 1 /\ own[1] = citizen
    OBVIOUS
  <2>3. \A i \in 1 .. n : path[i] # x
    OBVIOUS
  <2>4. /\ behind \in Seq(S) /\ Len(behind) = n - 1
        /\ \A i \in 1 .. n - 1 : behind[i] = path[i]
    <3> HIDE DEF n
    <3>1. \A i \in 1 .. n - 1 : path[i] \in S
      BY <2>1
    <3>2. QED
      BY <2>1, <3>1
  <2> HIDE DEF n, own, behind, header
  <2>5. /\ added \in Seq(S) /\ Len(added) = n /\ added[1] = citizen
        /\ \A i \in 1 .. n - 1 : added[1 + i] = behind[i]
    <3>1. /\ added \in Seq(S) /\ Len(added) = Len(own) + Len(behind)
          /\ \A i \in 1 .. Len(own) : added[i] = own[i]
          /\ \A i \in 1 .. Len(behind) : added[Len(own) + i] = behind[i]
      <4>1. own \in Seq(S) /\ behind \in Seq(S)
        BY <2>2, <2>4
      <4>2. QED
        BY ONLY <4>1, Concat
    <3> HIDE DEF added
    <3>2. QED
      BY <2>1, <2>2, <2>4, <3>1
  <2>6. \A i \in 1 .. n : added[i] # x
    <3> HIDE DEF added
    <3>1. \A i \in 2 .. n : i - 1 \in 1 .. n - 1 /\ i = 1 + (i - 1)
      BY <2>1
    <3>2. \A i \in 1 .. n - 1 : i \in 1 .. n /\ added[1 + i] # x
      <4>1. \A i \in 1 .. n - 1 : i \in 1 .. n
        BY <2>1
      <4>2. \A i \in 1 .. n - 1 : added[1 + i] = path[i]
        BY <2>4, <2>5
      <4>3. QED
        BY <2>3, <4>1, <4>2
    <3>3. \A i \in 1 .. n : i = 1 \/ i \in 2 .. n
      BY <2>1
    <3>4. QED
      BY <2>5, <3>1, <3>2, <3>3
  <2>7. header = sent \o added
    <3>1. \A a, b, c \in Seq(S) : (a \o b) \o c = a \o (b \o c)
      OBVIOUS
    <3>2. QED
      BY <2>2, <2>4, <3>1 DEF header
  <2> HIDE DEF added
  <2>8. xff = w \o added
    BY <2>5, <2>6, <2>7, WithoutBehind
  <2>9. w \in Seq(S)
    BY WithoutDrops
  <2> HIDE DEF w
  <2>10. /\ Len(w) \in Nat /\ Len(w \o added) = Len(w) + n
         /\ (w \o added)[Len(w) + 1] = added[1]
    <3>1. /\ Len(w) \in Nat /\ Len(w \o added) = Len(w) + Len(added)
          /\ \A i \in 1 .. Len(added) : (w \o added)[Len(w) + i] = added[i]
      <4>1. added \in Seq(S)
        BY <2>5
      <4>2. QED
        BY ONLY <2>9, <4>1, Concat
    <3>2. 1 \in 1 .. n
      BY <2>1
    <3>3. QED
      BY <2>5, <3>1, <3>2
  <2> HIDE DEF xff
  <2>11. Len(xff) >= n /\ Len(xff) - n + 1 = Len(w) + 1
    BY <2>1, <2>8, <2>10
  <2>12. xff[Len(xff) - n + 1] = citizen
    BY <2>5, <2>8, <2>10, <2>11
  <2>13. Len(path) > 0
    BY <2>1 DEF n
  <2>14. Forwarded(sent, citizen, path) = header
    BY <1>2 DEF Forwarded, header, own, behind, n
  <2>15. QED
    BY <2>11, <2>12, <2>13, <2>14 DEF AddressIn, xff, n
<1>3. QED
  BY <1>1, <1>2

\* client_ip.py: behind as many proxies as are trusted, which all report an
\* address, the address is the citizen's, whatever header the citizen sent.
LEMMA AddressIsCitizens ==
    ASSUME NEW S, NEW sent \in Seq(S), NEW citizen \in S, citizen # "",
           NEW path \in Seq(S), \A i \in 1 .. Len(path) : path[i] # ""
    PROVE  client_ip(Forwarded(sent, citizen, path),
                     _peer_host(citizen, path), Len(path)) = citizen
<1> DEFINE header == Forwarded(sent, citizen, path)
           peer == _peer_host(citizen, path)
           hops == Len(path)
<1>1. client_ip(header, peer, hops)
          = AddressIn(Without(header, ""), peer, hops)
  BY Zenon DEF client_ip, AddressIn
<1>2. AddressIn(Without(header, ""), peer, hops) = citizen
  BY CountedFromEnd, Zenon
<1>3. QED
  BY <1>1, <1>2, Zenon

-----------------------------------------------------------------------------
(* The prompt.                                                             *)

\* Every bracket stands in a longest run of its kind.
LEMMA RunAround ==
    ASSUME NEW S, NEW text \in Seq(S), NEW i \in 1 .. Len(text),
           NEW k \in i .. Len(text), \A j \in i .. k : text[j] = text[i]
    PROVE  \E s \in 1 .. i, e \in k .. Len(text) : LongestRun(text, s, e)
<1> DEFINE n == Len(text)
           Ends == {e \in k .. n : e = n \/ text[e + 1] # text[i]}
           Begins == {d \in 0 .. i - 1 : d = i - 1 \/ text[i - d - 1] # text[i]}
<1>1. n \in Nat /\ i \in Nat /\ k \in Nat /\ i <= k /\ k <= n /\ 1 <= i
  OBVIOUS
<1> HIDE DEF n
<1>2. Ends \in SUBSET Nat /\ Ends # {} /\ Begins \in SUBSET Nat /\ Begins # {}
  <2>1. n \in Ends /\ i - 1 \in Begins
    BY <1>1
  <2>2. \A e \in k .. n : e \in Nat
    BY <1>1
  <2>3. \A d \in 0 .. i - 1 : d \in Nat
    BY <1>1
  <2>4. QED
    BY <2>1, <2>2, <2>3
<1>3. PICK e \in Ends : \A f \in Ends : e <= f
  <2> HIDE DEF Ends
  <2>1. QED
    BY <1>2, Least
<1>4. PICK d \in Begins : \A f \in Begins : d <= f
  <2> HIDE DEF Begins
  <2>1. QED
    BY <1>2, Least
<1>5. e \in k .. n /\ d \in 0 .. i - 1
  OBVIOUS
<1>6. ASSUME NEW j \in i .. e PROVE text[j] = text[i]
  <2>1. CASE j <= k
    BY <1>1, <1>5, <2>1
  <2>2. CASE j > k
    <3>1. j - 1 \in k .. n /\ j - 1 < e /\ j - 1 # n /\ j - 1 + 1 = j
      BY <1>1, <1>5, <2>2
    <3>2. j - 1 \notin Ends
      BY <1>3, <1>5, <3>1
    <3>3. QED
      BY <3>1, <3>2
  <2>3. QED
    BY <1>1, <1>5, <2>1, <2>2
<1>7. ASSUME NEW j \in i - d .. i PROVE text[j] = text[i]
  <2>1. CASE j = i
    BY <2>1
  <2>2. CASE j < i
    <3> DEFINE f == i - j - 1
    <3>1. f \in 0 .. i - 1 /\ f < d /\ f # i - 1 /\ i - f - 1 = j
      BY <1>1, <1>5, <2>2
    <3>2. f \notin Begins
      <4> HIDE DEF f
      <4>1. QED
        BY <1>4, <1>5, <3>1
    <3>3. QED
      BY <3>1, <3>2
  <2>3. QED
    BY <1>1, <1>5, <2>1, <2>2
<1>8. text[i - d] = text[i] /\ i - d \in 1 .. i
  BY <1>1, <1>5, <1>7
<1>9. LongestRun(text, i - d, e)
  <2>1. \A j \in i - d .. e : text[j] = text[i - d]
    BY <1>1, <1>5, <1>6, <1>7, <1>8
  <2>2. i - d > 1 => text[i - d - 1] # text[i - d]
    BY <1>1, <1>4, <1>5, <1>8
  <2>3. e < n => text[e + 1] # text[i - d]
    BY <1>1, <1>3, <1>5, <1>8
  <2>4. QED
    BY <2>1, <2>2, <2>3 DEF LongestRun, n
<1>10. QED
  BY <1>5, <1>8, <1>9 DEF n

\* prompt.py: no text, of any length, comes out with a delimiter in it.
LEMMA SanitisedHasNoSentinel ==
    ASSUME NEW text \in Seq(Marks)
    PROVE  ~HasSentinel(sanitise_user_text(text))
<1> DEFINE s == normalise_for_prompt(text)
           out == neutralise_sentinels(s)
           n == Len(s)
<1>1. s \in Seq(Marks) /\ \A i \in 1 .. Len(s) : s[i] # "hidden"
  BY WithoutDrops DEF normalise_for_prompt
<1> HIDE DEF s
<1>2. n \in Nat /\ \A i \in 1 .. n : s[i] \in Marks
  BY <1>1
<1> DEFINE Seen == Marks \cup {"[", "]", "3ND"}
<1>3. out = [i \in 1 .. n |-> IF InSentinel(s, i) THEN _neutralise_match[s[i]]
                                                ELSE s[i]]
  BY DEF neutralise_sentinels
<1>4. ASSUME NEW i \in 1 .. n
      PROVE  /\ InSentinel(s, i) => out[i] \in {"[", "]", "3ND"}
             /\ ~InSentinel(s, i) => out[i] = s[i]
  <2> HIDE DEF out
  <2>1. out[i] = IF InSentinel(s, i) THEN _neutralise_match[s[i]] ELSE s[i]
    BY <1>3
  <2>2. InSentinel(s, i) => s[i] \in {"<", ">", "END"}
    BY DEF InSentinel
  <2>3. s[i] \in {"<", ">", "END"} => _neutralise_match[s[i]] \in {"[", "]", "3ND"}
    BY DEF _neutralise_match
  <2>4. QED
    BY <2>1, <2>2, <2>3
<1>5. \A i \in 1 .. n : out[i] \in Seen /\ out[i] # "hidden"
  <2> HIDE DEF out
  <2>1. QED
    BY <1>1, <1>2, <1>4
<1>6. out \in Seq(Seen) /\ Len(out) = n
  BY <1>2, <1>3, <1>5
<1> HIDE DEF out
<1>7. normalise_for_prompt(out) = out
  BY <1>5, <1>6, WithoutKeeps DEF normalise_for_prompt
<1> HIDE DEF Seen
<1>8. ASSUME NEW i \in 1 .. n, out[i] = "END", Bounded(out, i) PROVE FALSE
  <2>1. s[i] = "END" /\ ~InSentinel(s, i)
    BY <1>4, <1>8
  <2>2. ~Bounded(s, i)
    BY <2>1 DEF InSentinel
  <2>3. PICK j \in {i - 1, i + 1} \cap DOMAIN s : s[j] \in {"END", "w"}
    BY <2>2 DEF Bounded
  <2>4. j \in 1 .. n /\ i \in {j - 1, j + 1} /\ j \in DOMAIN out
    BY <1>1, <1>2, <1>6
  <2>5. ~InSentinel(s, j)
    <3>1. CASE s[j] = "w"
      BY <3>1 DEF InSentinel
    <3>2. CASE s[j] = "END"
      <4>1. i \in DOMAIN s
        BY <1>1, <1>2
      <4>2. ~Bounded(s, j)
        BY <2>1, <2>4, <4>1 DEF Bounded
      <4>3. QED
        BY <3>2, <4>2 DEF InSentinel
    <3>3. QED
      BY <2>3, <3>1, <3>2
  <2>6. out[j] \in {"END", "w"}
    BY <1>4, <2>3, <2>4, <2>5
  <2>7. QED
    BY <1>8, <2>3, <2>4, <2>6 DEF Bounded
<1>9. ASSUME NEW i \in 1 .. n, out[i] \in {"<", ">"}, i + 2 <= n,
             out[i + 1] = out[i], out[i + 2] = out[i]
      PROVE  FALSE
  <2>1. \A j \in i .. i + 2 : j \in 1 .. n /\ out[j] \in {"<", ">"}
    BY <1>2, <1>9
  <2>2. \A j \in i .. i + 2 : ~InSentinel(s, j) /\ out[j] = s[j]
    BY <1>4, <2>1
  <2>3. \A j \in i .. i + 2 : s[j] = s[i]
    BY <1>2, <1>9, <2>2
  <2>4. PICK a \in 1 .. i, e \in i + 2 .. n : LongestRun(s, a, e)
    <3>1. i + 2 \in i .. n
      BY <1>2, <1>9
    <3>2. QED
      BY <1>1, <2>3, <3>1, RunAround
  <2>5. \A j \in i .. i + 2 : ~(j - a < 3 * ((e - a + 1) \div 3))
    <3>1. \A j \in i .. i + 2 : s[j] \in {"<", ">"}
      BY <2>1, <2>2
    <3>2. \A j \in i .. i + 2 : a \in 1 .. j /\ e \in j .. n
      BY <1>2
    <3>3. QED
      BY <2>2, <2>4, <3>1, <3>2 DEF InSentinel
  <2>6. QED
    BY <1>2, <2>5
<1>10. QED
  <2>1. sanitise_user_text(text) = out
    BY DEF sanitise_user_text, out, s
  <2>2. QED
    BY <1>6, <1>7, <1>8, <1>9, <2>1 DEF HasSentinel

-----------------------------------------------------------------------------
(* The rules' scores.                                                      *)

\* A finite set stays one with three elements more.
LEMMA ThreeMore ==
    ASSUME NEW S, IsFiniteSet(S), NEW a, NEW b, NEW c
    PROVE  IsFiniteSet(S \cup {a, b, c})
<1>1. IsFiniteSet(S \cup {a})
  BY FS_AddElement
<1>2. IsFiniteSet((S \cup {a}) \cup {b})
  BY <1>1, FS_AddElement
<1>3. IsFiniteSet(((S \cup {a}) \cup {b}) \cup {c})
  BY <1>2, FS_AddElement
<1>4. ((S \cup {a}) \cup {b}) \cup {c} = S \cup {a, b, c}
  OBVIOUS
<1>5. QED
  BY <1>3, <1>4

\* Nine things are finitely many.
LEMMA NineAreFinite ==
    ASSUME NEW a, NEW b, NEW c, NEW d, NEW e, NEW f, NEW g, NEW h, NEW i
    PROVE  IsFiniteSet({a, b, c, d, e, f, g, h, i})
<1>1. IsFiniteSet({})
  BY FS_EmptySet
<1>2. IsFiniteSet({} \cup {a, b, c})
  BY <1>1, ThreeMore
<1>3. IsFiniteSet(({} \cup {a, b, c}) \cup {d, e, f})
  BY <1>2, ThreeMore
<1>4. IsFiniteSet((({} \cup {a, b, c}) \cup {d, e, f}) \cup {g, h, i})
  BY <1>3, ThreeMore
<1>5. (({} \cup {a, b, c}) \cup {d, e, f}) \cup {g, h, i}
          = {a, b, c, d, e, f, g, h, i}
  OBVIOUS
<1>6. QED
  BY <1>4, <1>5

\* So are the terms made of nine words and those of several words.
LEMMA WordsAreFinite ==
    ASSUME NEW W, IsFiniteSet(W)
    PROVE  IsFiniteSet(Words(W))
<1> DEFINE f == [w \in W |-> <<w>>]
<1>1. f \in Surjection(W, Words(W))
  BY DEF Surjection, Words
<1>2. QED
  BY <1>1, FS_Surjection

\* The table has finitely many terms of each category.
LEMMA TermsAreFinite ==
    ASSUME NEW c \in Range(CategoryOrder)
    PROVE  IsFiniteSet(CATEGORY_TERMS[c])
<1>1. c \in {"water", "electricity", "sanitation", "roads", "streetlights"}
  BY DEF CategoryOrder, Range
<1>2. CASE c = "water"
  <2> DEFINE W == {"water", "pani", "burst", "main", "leak", "tank",
                   "supply", "pipeline", "boring"}
  <2>1. IsFiniteSet(Words(W))
    <3>1. IsFiniteSet(W)
      BY NineAreFinite
    <3> HIDE DEF W
    <3>2. QED
      BY <3>1, WordsAreFinite
  <2>2. CATEGORY_TERMS[c] = Words(W) \cup {<<"sewer", "line">>}
    BY <1>2 DEF CATEGORY_TERMS
  <2> HIDE DEF W
  <2>3. QED
    BY <2>1, <2>2, FS_AddElement
<1>3. CASE c = "electricity"
  <2> DEFINE W == {"electric", "bijli", "power", "transformer", "wire",
                   "meter", "kunda", "tripping", "tripping"}
  <2>1. IsFiniteSet(Words(W))
    <3>1. IsFiniteSet(W)
      BY NineAreFinite
    <3> HIDE DEF W
    <3>2. QED
      BY <3>1, WordsAreFinite
  <2>2. CATEGORY_TERMS[c] = Words(W) \cup {<<"load", "shedding">>}
    <3>1. W = {"electric", "bijli", "power", "transformer", "wire", "meter",
               "kunda", "tripping"}
      OBVIOUS
    <3> HIDE DEF W
    <3>2. QED
      BY <1>3, <3>1 DEF CATEGORY_TERMS
  <2> HIDE DEF W
  <2>3. QED
    BY <2>1, <2>2, FS_AddElement
<1>4. CASE c = "sanitation"
  <2> DEFINE W == {"garbage", "kachra", "sewerage", "drain", "gutter",
                   "sanitation", "waste", "smell", "choked"}
  <2>1. IsFiniteSet(W)
    BY NineAreFinite
  <2>2. CATEGORY_TERMS[c] = Words(W)
    BY <1>4 DEF CATEGORY_TERMS
  <2> HIDE DEF W
  <2>3. QED
    BY <2>1, <2>2, WordsAreFinite
<1>5. CASE c = "roads"
  <2> DEFINE W == {"road", "sarak", "pothole", "khudda", "footpath",
                   "manhole", "tarcoal", "tarcoal", "tarcoal"}
  <2>1. IsFiniteSet(Words(W))
    <3>1. IsFiniteSet(W)
      BY NineAreFinite
    <3> HIDE DEF W
    <3>2. QED
      BY <3>1, WordsAreFinite
  <2>2. CATEGORY_TERMS[c] = Words(W) \cup {<<"speed", "breaker">>}
    <3>1. W = {"road", "sarak", "pothole", "khudda", "footpath", "manhole",
               "tarcoal"}
      OBVIOUS
    <3> HIDE DEF W
    <3>2. QED
      BY <1>5, <3>1 DEF CATEGORY_TERMS
  <2> HIDE DEF W
  <2>3. QED
    BY <2>1, <2>2, FS_AddElement
<1>6. CASE c = "streetlights"
  <2> DEFINE W == {"streetlight", "pole", "lamp", "fused", "dark", "bulb",
                   "bulb", "bulb", "bulb"}
             a == <<"street", "light">>
             b == <<"light", "of", "pole">>
  <2>1. IsFiniteSet(Words(W))
    <3>1. IsFiniteSet(W)
      BY NineAreFinite
    <3> HIDE DEF W
    <3>2. QED
      BY <3>1, WordsAreFinite
  <2>2. CATEGORY_TERMS[c] = Words(W) \cup {a, b}
    <3>1. W = {"streetlight", "pole", "lamp", "fused", "dark", "bulb"}
      OBVIOUS
    <3> HIDE DEF W
    <3>2. QED
      BY <1>6, <3>1 DEF CATEGORY_TERMS
  <2> HIDE DEF W, a, b
  <2>3. {a, b, b} = {a, b}
    OBVIOUS
  <2>4. IsFiniteSet(Words(W) \cup {a, b, b})
    BY <2>1, ThreeMore
  <2>5. QED
    BY <2>2, <2>3, <2>4
<1>7. QED
  BY <1>1, <1>2, <1>3, <1>4, <1>5, <1>6

\* So a score is a number.
LEMMA ScoreIsNat ==
    ASSUME NEW text, NEW c \in Range(CategoryOrder)
    PROVE  Score(text, c) \in Nat
<1> DEFINE M == Matched(text, c)
           L == {t \in M : Len(t) > 1}
<1>1. IsFiniteSet(M)
  BY TermsAreFinite, FS_Subset DEF Matched
<1>2. IsFiniteSet(L)
  <2> HIDE DEF M
  <2>1. QED
    BY <1>1, FS_Subset
<1>3. Cardinality(M) \in Nat /\ Cardinality(L) \in Nat
  <2> HIDE DEF M, L
  <2>1. QED
    BY <1>1, <1>2, FS_CardinalityType
<1>4. QED
  BY <1>3 DEF Score

\* A best category so far, of those in C or none.
Bests(C) == [category : C \cup {"other"}, score : Nat]

\* The value of BestOf's loop after turn m.
Leading(text, order, g, m) ==
    IF m = 0 THEN [category |-> "other", score |-> 0]
    ELSE Better(text, g[m - 1], order[m])

\* BestOf is a loop that ran.
LEMMA BestRuns ==
    ASSUME NEW C, NEW text, NEW order \in Seq(C),
           \A c \in C : Score(text, c) \in Nat
    PROVE  \E g : /\ g[0] = [category |-> "other", score |-> 0]
                  /\ \A m \in 1 .. Len(order) :
                        g[m] = Better(text, g[m - 1], order[m])
                  /\ BestOf(text, order) = g[Len(order)]
<1> DEFINE n == Len(order)
           base == [category |-> "other", score |-> 0]
           F == [p \in Nat \X Bests(C) |->
                   IF p[1] \in 1 .. n THEN Better(text, p[2], order[p[1]])
                                      ELSE p[2]]
<1>1. n \in Nat /\ base \in Bests(C) /\ \A m \in 1 .. n : order[m] \in C
  BY DEF Bests
<1> HIDE DEF n
<1>2. \A c \in C, best \in Bests(C) : Better(text, best, c) \in Bests(C)
  BY DEF Better, Bests
<1>3. F \in [Nat \X Bests(C) -> Bests(C)]
  BY <1>1, <1>2
<1>4. \A m \in 1 .. n, best \in Bests(C) :
         F[<<m, best>>] = Better(text, best, order[m])
  BY <1>1
<1> HIDE DEF F, base
<1>5. PICK g : LoopOf(Bests(C), base, F, n, g)
  BY <1>1, <1>3, LoopRuns
<1>6. \A m \in 0 .. n : g[m] = Leading(text, order, g, m)
  <2>1. \A m \in 1 .. n : g[m - 1] \in Bests(C)
    BY <1>1, <1>5 DEF LoopOf
  <2>2. \A m \in 1 .. n : g[m] = Better(text, g[m - 1], order[m])
    BY <1>4, <1>5, <2>1 DEF LoopOf
  <2>3. \A m \in 0 .. n : m # 0 => m \in 1 .. n
    BY <1>1
  <2>4. g[0] = base
    BY <1>5 DEF LoopOf
  <2>5. QED
    BY <2>2, <2>3, <2>4 DEF Leading, base
<1>7. g = [m \in 0 .. n |-> Leading(text, order, g, m)]
  BY <1>5, <1>6 DEF LoopOf
<1> DEFINE best == CHOOSE f : f = [m \in 0 .. n |-> Leading(text, order, f, m)]
<1>8. best = [m \in 0 .. n |-> Leading(text, order, best, m)]
  BY <1>7
<1>9. BestOf(text, order) = best[n]
  BY DEF BestOf, Leading, n
<1> HIDE DEF best
<1>10. \A m \in 0 .. n : best[m] = Leading(text, order, best, m)
  BY <1>8
<1>11. 0 \in 0 .. n /\ \A m \in 1 .. n : m \in 0 .. n /\ m # 0
  BY <1>1
<1>12. /\ best[0] = base
       /\ \A m \in 1 .. n : best[m] = Better(text, best[m - 1], order[m])
  BY <1>10, <1>11 DEF Leading, base
<1>13. QED
  BY <1>9, <1>12 DEF base, n

\* _score_categories: no score is above the one of the loop, and a category
\* has it unless it is zero.
LEMMA BestIsBest ==
    ASSUME NEW C, NEW text, NEW order \in Seq(C),
           \A c \in C : Score(text, c) \in Nat
    PROVE  LET best == BestOf(text, order)
           IN  /\ best.score \in Nat
               /\ \A c \in Range(order) : Score(text, c) <= best.score
               /\ best.score > 0 => /\ best.category \in Range(order)
                                    /\ Score(text, best.category) = best.score
<1> DEFINE n == Len(order)
           Good(best, m) ==
             /\ best.score \in Nat
             /\ \A i \in 1 .. m : Score(text, order[i]) <= best.score
             /\ best.score > 0 =>
                   \E i \in 1 .. m : /\ best.category = order[i]
                                     /\ Score(text, order[i]) = best.score
<1>1. PICK g : /\ g[0] = [category |-> "other", score |-> 0]
               /\ \A m \in 1 .. n : g[m] = Better(text, g[m - 1], order[m])
               /\ BestOf(text, order) = g[n]
  BY BestRuns
<1>2. n \in Nat /\ \A m \in 1 .. n : Score(text, order[m]) \in Nat
  OBVIOUS
<1> DEFINE T == {m \in 0 .. n : Good(g[m], m)}
<1>3. 0 \in T
  <2>1. Good(g[0], 0)
    BY <1>1
  <2> HIDE DEF Good, n
  <2>2. QED
    BY <1>2, <2>1
<1>4. ASSUME NEW m \in 1 .. n, m - 1 \in T PROVE m \in T
  <2> DEFINE old == g[m - 1]
             c == order[m]
  <2>1. /\ Good(old, m - 1) /\ m \in 0 .. n
        /\ g[m] = Better(text, old, c)
    BY <1>1, <1>2, <1>4
  <2> HIDE DEF old, n
  <2>2. \A i \in 1 .. m : i = m \/ i \in 1 .. m - 1
    BY <1>2
  <2>3. m \in 1 .. m /\ \A i \in 1 .. m - 1 : i \in 1 .. m
    BY <1>2
  <2>4. Score(text, c) \in Nat
    BY <1>2
  <2>5. CASE Score(text, c) > old.score
    <3>1. g[m].category = c /\ g[m].score = Score(text, c)
      BY <2>1, <2>5 DEF Better
    <3>2. \A i \in 1 .. m - 1 : Score(text, order[i]) \in Nat
      BY <1>2
    <3>3. \A i \in 1 .. m : Score(text, order[i]) <= g[m].score
      BY <2>1, <2>2, <2>4, <2>5, <3>1, <3>2
    <3>4. Good(g[m], m)
      BY <2>3, <2>4, <3>1, <3>3
    <3> HIDE DEF Good
    <3>5. QED
      BY <2>1, <3>4
  <2>6. CASE ~(Score(text, c) > old.score)
    <3>1. g[m] = old
      BY <2>1, <2>6 DEF Better
    <3>2. \A i \in 1 .. m : Score(text, order[i]) <= old.score
      BY <2>1, <2>2, <2>4, <2>6
    <3>3. Good(old, m)
      BY <2>1, <2>3, <3>2
    <3> HIDE DEF Good
    <3>4. QED
      BY <2>1, <3>1, <3>3
  <2>7. QED
    BY <2>5, <2>6
<1> HIDE DEF T
<1>5. \A m \in 0 .. n : m \in T
  BY <1>2, <1>3, <1>4, UpTo
<1>6. Good(g[n], n)
  <2>1. n \in T
    BY <1>2, <1>5
  <2> HIDE DEF Good
  <2>2. QED
    BY <2>1 DEF T
<1>7. Range(order) = {order[i] : i \in 1 .. n}
  BY DEF Range
<1>8. QED
  BY <1>1, <1>6, <1>7

\* c beats all others of D.
Wins(text, c, D) ==
    /\ c \in D /\ Score(text, c) > 0
    /\ \A d \in D \ {c} : Score(text, d) < Score(text, c)

\* The range of a sequence is finite.
LEMMA RangeIsFinite ==
    ASSUME NEW C, NEW s \in Seq(C)
    PROVE  IsFiniteSet(Range(s)) /\ Range(s) \subseteq C
<1>1. DOMAIN s = 1 .. Len(s) /\ Len(s) \in Nat
  OBVIOUS
<1>2. s \in Surjection(1 .. Len(s), Range(s))
  BY <1>1 DEF Surjection, Range
<1>3. IsFiniteSet(1 .. Len(s))
  BY <1>1, FS_Interval
<1>4. QED
  BY <1>1, <1>2, <1>3, FS_Surjection DEF Range

\* _score_categories: the category that beats all others, or "other" if none
\* does.
LEMMA WinnerIsChosen ==
    ASSUME NEW C, NEW text, NEW order \in Seq(C),
           \A c \in C : Score(text, c) \in Nat
    PROVE  LET chosen == _score_categories(text, order)
           IN  \/ Wins(text, chosen, Range(order))
               \/ /\ chosen = "other"
                  /\ \A c \in C : ~Wins(text, c, Range(order))
<1> DEFINE best == BestOf(text, order)
           D == Range(order)
           ties == {c \in D : Score(text, c) = best.score}
           chosen == _score_categories(text, order)
<1>1. /\ best.score \in Nat
      /\ \A c \in D : Score(text, c) <= best.score
      /\ best.score > 0 => /\ best.category \in D
                           /\ Score(text, best.category) = best.score
  BY BestIsBest
<1>2. IsFiniteSet(D) /\ D \subseteq C
  BY RangeIsFinite
<1>3. IsFiniteSet(ties) /\ Cardinality(ties) \in Nat
  <2>1. ties \in SUBSET D
    OBVIOUS
  <2> HIDE DEF ties, D
  <2>2. QED
    BY <1>2, <2>1, FS_Subset, FS_CardinalityType
<1>4. chosen = IF best.score = 0 \/ Cardinality(ties) > 1
               THEN "other" ELSE best.category
  BY DEF _score_categories
<1> HIDE DEF best, D, chosen
<1>5. CASE best.score = 0
  <2>1. \A c \in C : ~Wins(text, c, D)
    BY <1>1, <1>2, <1>5 DEF Wins
  <2>2. QED
    BY <1>4, <1>5, <2>1 DEF chosen, D
<1>6. CASE best.score # 0 /\ Cardinality(ties) > 1
  <2>1. best.category \in ties
    BY <1>1, <1>6
  <2>2. ~(\E c : ties = {c})
    <3> HIDE DEF ties
    <3>1. Cardinality(ties) # 1
      BY <1>3, <1>6
    <3>2. QED
      BY <1>3, <3>1, FS_Singleton
  <2>3. \E d \in ties : d # best.category
    <3> DEFINE b == best.category
    <3> SUFFICES ASSUME \A d \in ties : d = b PROVE FALSE
      OBVIOUS
    <3> HIDE DEF ties, b
    <3>1. b \in ties
      BY <2>1 DEF b
    <3>2. ties = {b}
      BY <3>1
    <3>3. QED
      BY <2>2, <3>2
  <2>4. \A c \in C : ~Wins(text, c, D)
    <3> SUFFICES ASSUME NEW c \in C, Wins(text, c, D) PROVE FALSE
      OBVIOUS
    <3>1. \E e \in ties : e # c
      BY <2>1, <2>3
    <3>2. PICK e \in D : e # c /\ Score(text, e) = best.score
      BY <3>1
    <3>3. Score(text, e) < Score(text, c) /\ Score(text, c) <= best.score
      BY <1>1, <3>2 DEF Wins
    <3>4. Score(text, c) \in Nat
      OBVIOUS
    <3>5. QED
      BY <1>1, <3>2, <3>3, <3>4
  <2>5. QED
    BY <1>4, <1>6, <2>4 DEF chosen, D
<1>7. CASE best.score # 0 /\ ~(Cardinality(ties) > 1)
  <2> DEFINE b == best.category
  <2>1. b \in ties /\ best.score > 0
    BY <1>1, <1>7
  <2>2. Cardinality(ties) = 1
    <3> HIDE DEF ties
    <3>1. Cardinality(ties) # 0
      BY <1>3, <2>1, FS_EmptySet
    <3>2. QED
      BY <1>3, <1>7, <3>1
  <2>3. ties = {b}
    <3> HIDE DEF ties
    <3>1. PICK c : ties = {c}
      BY <1>3, <2>2, FS_Singleton
    <3>2. QED
      BY <2>1, <3>1
  <2>4. \A d \in D \ {b} : Score(text, d) # best.score
    BY <2>3
  <2>5. \A d \in D : Score(text, d) \in Nat
    BY <1>2
  <2>6. Wins(text, b, D)
    BY <1>1, <2>1, <2>4, <2>5 DEF Wins
  <2>7. chosen = b
    BY <1>4, <1>7
  <2>8. QED
    BY <2>6, <2>7 DEF chosen, D
<1>8. QED
  BY <1>5, <1>6, <1>7

\* At most one category beats all others.
LEMMA OneWinner ==
    ASSUME NEW D, NEW text, NEW c, NEW d, Wins(text, c, D), Wins(text, d, D),
           \A e \in D : Score(text, e) \in Nat
    PROVE  c = d
BY DEF Wins

\* A list of five.
LEMMA FiveListed ==
    ASSUME NEW a, NEW b, NEW c, NEW d, NEW e
    PROVE  LET s == <<a, b, c, d, e>>
           IN  /\ Len(s) = 5 /\ DOMAIN s = 1 .. 5
               /\ s = [i \in 1 .. 5 |-> s[i]]
OBVIOUS

\* rules.py: whatever the text, the category the rules choose beats every
\* other one, whichever way the table lists them.
LEMMA RulesChooseClearly ==
    ASSUME NEW text
    PROVE  LET chosen == _score_categories(text, CategoryOrder)
           IN  /\ chosen # "other" =>
                     \A c \in Range(CategoryOrder) \ {chosen} :
                         Score(text, c) < Score(text, chosen)
               /\ _score_categories(text, Reverse(CategoryOrder)) = chosen
<1> DEFINE D == Range(CategoryOrder)
           back == Reverse(CategoryOrder)
           chosen == _score_categories(text, CategoryOrder)
           other == _score_categories(text, back)
<1>1. CategoryOrder \in Seq(D)
  <2>1. /\ Len(CategoryOrder) = 5 /\ DOMAIN CategoryOrder = 1 .. 5
        /\ CategoryOrder = [i \in 1 .. 5 |-> CategoryOrder[i]]
    BY FiveListed DEF CategoryOrder
  <2>2. D = {CategoryOrder[i] : i \in 1 .. 5}
    BY <2>1 DEF Range
  <2> HIDE DEF D
  <2>3. \A i \in 1 .. 5 : CategoryOrder[i] \in D
    BY <2>2
  <2>4. [i \in 1 .. 5 |-> CategoryOrder[i]] \in Seq(D)
    BY <2>3
  <2>5. QED
    BY <2>1, <2>4
<1>2. back \in Seq(D) /\ Range(back) = D
  <2> DEFINE s == CategoryOrder
             n == Len(s)
  <2>1. n \in Nat /\ DOMAIN s = 1 .. n /\ \A i \in 1 .. n : s[i] \in D
    BY <1>1
  <2>2. back = [i \in 1 .. n |-> s[(n - i) + 1]]
    BY DEF Reverse
  <2>3. D = {s[i] : i \in 1 .. n}
    BY <2>1 DEF Range
  <2> HIDE DEF s, n, D, back
  <2>4. \A i \in 1 .. n : /\ (n - i) + 1 \in 1 .. n
                         /\ n - ((n - i) + 1) + 1 = i
    BY <2>1
  <2>5. back \in Seq(D)
    BY <2>1, <2>2, <2>4
  <2>6. DOMAIN back = 1 .. n /\ \A i \in 1 .. n : back[(n - i) + 1] = s[i]
    BY <2>1, <2>2, <2>4
  <2>7. Range(back) \subseteq D
    BY <2>1, <2>2, <2>4 DEF Range
  <2>8. \A i \in 1 .. n : s[i] \in Range(back)
    BY <2>4, <2>6 DEF Range
  <2>9. QED
    BY <2>3, <2>5, <2>7, <2>8
<1>3. \A c \in D : Score(text, c) \in Nat
  BY ScoreIsNat
<1>4. "other" \notin D
  BY DEF Range, CategoryOrder
<1> HIDE DEF D, back
<1>5. \/ Wins(text, chosen, D)
      \/ chosen = "other" /\ \A c \in D : ~Wins(text, c, D)
  BY <1>1, <1>3, WinnerIsChosen DEF D
<1>6. \/ Wins(text, other, D)
      \/ other = "other" /\ \A c \in D : ~Wins(text, c, D)
  BY <1>2, <1>3, WinnerIsChosen
<1> HIDE DEF chosen, other
<1>7. other = chosen
  <2>1. CASE Wins(text, chosen, D)
    <3>1. Wins(text, other, D)
      BY <1>6, <2>1 DEF Wins
    <3>2. QED
      BY <1>3, <2>1, <3>1, OneWinner
  <2>2. CASE \A c \in D : ~Wins(text, c, D)
    BY <1>5, <1>6, <2>2 DEF Wins
  <2>3. QED
    BY <1>5, <2>1, <2>2
<1>8. chosen # "other" => \A c \in D \ {chosen} :
                             Score(text, c) < Score(text, chosen)
  BY <1>5 DEF Wins
<1>9. QED
  BY <1>7, <1>8 DEF chosen, other, D, back
-----------------------------------------------------------------------------
(* The pages of a list.                                                    *)

\* An order of the rows is a permutation of them, with rising keys.
LEMMA OrderRises ==
    ASSUME NEW keys \in Seq(Int), NEW p \in Orders(keys),
           NEW i \in 1 .. Len(keys), NEW j \in i .. Len(keys)
    PROVE  keys[p[i]] <= keys[p[j]]
<1> DEFINE n == Len(keys)
           k == [m \in 1 .. n |-> keys[p[m]]]
           T == {m \in 0 .. n - i : k[i] <= k[i + m]}
<1>1. n \in Nat /\ i \in 1 .. n /\ j \in i .. n
  OBVIOUS
<1>2. /\ p \in [1 .. n -> 1 .. n]
      /\ \A m \in 1 .. n - 1 : keys[p[m]] <= keys[p[m + 1]]
  BY DEF Orders
<1>3. /\ k \in [1 .. n -> Int] /\ \A m \in 1 .. n : k[m] = keys[p[m]]
      /\ \A m \in 1 .. n - 1 : k[m] <= k[m + 1]
  BY <1>1, <1>2
<1> HIDE DEF k, n
<1>4. 0 \in T
  BY <1>1, <1>3
<1>5. ASSUME NEW m \in 1 .. n - i, m - 1 \in T PROVE m \in T
  <2>1. /\ i + (m - 1) \in 1 .. n - 1 /\ i + (m - 1) + 1 = i + m
        /\ k[i] <= k[i + (m - 1)] /\ i + m \in 1 .. n
    BY <1>1, <1>5
  <2>2. k[i + (m - 1)] <= k[i + m]
    BY <1>3, <2>1
  <2>3. k[i] \in Int /\ k[i + (m - 1)] \in Int /\ k[i + m] \in Int
    BY <1>1, <1>3, <2>1
  <2>4. k[i] <= k[i + m]
    BY <2>1, <2>2, <2>3
  <2>5. QED
    BY <1>1, <2>4
<1> HIDE DEF T
<1>6. n - i \in Nat
  BY <1>1
<1>7. \A m \in 0 .. n - i : m \in T
  BY <1>4, <1>5, <1>6, UpTo
<1>8. j - i \in 0 .. n - i /\ i + (j - i) = j
  BY <1>1
<1>9. k[i] <= k[j]
  BY <1>7, <1>8 DEF T
<1>10. QED
  BY <1>1, <1>3, <1>9

\* Every row is in an order.
LEMMA OrderHasAll ==
    ASSUME NEW keys \in Seq(Int), NEW p \in Orders(keys),
           NEW row \in 1 .. Len(keys)
    PROVE  \E m \in 1 .. Len(keys) : p[m] = row
<1> DEFINE S == 1 .. Len(keys)
<1>1. /\ p \in [S -> S]
      /\ \A i, j \in S : i # j => p[i] # p[j]
  BY DEF Orders
<1>2. p \in Injection(S, S)
  BY <1>1 DEF Injection, IsInjective
<1>3. IsFiniteSet(S)
  BY FS_Interval
<1> HIDE DEF S
<1>4. p \in Surjection(S, S)
  BY <1>2, <1>3, FS_Injection
<1>5. QED
  BY <1>4 DEF Surjection, S

\* Two orders have the same keys in the same places: a row of lesser key in
\* one would leave more rows before it than the other has places for.
LEMMA OrderNotLess ==
    ASSUME NEW keys \in Seq(Int), NEW p \in Orders(keys),
           NEW q \in Orders(keys), NEW i \in 1 .. Len(keys)
    PROVE  ~(keys[p[i]] < keys[q[i]])
<1> SUFFICES ASSUME keys[p[i]] < keys[q[i]] PROVE FALSE
  OBVIOUS
<1> DEFINE n == Len(keys)
           Place(j) == CHOOSE m \in 1 .. n : q[m] = p[j]
           f == [j \in 1 .. i |-> Place(j)]
<1>1. n \in Nat /\ i \in 1 .. n /\ \A m \in 1 .. n : keys[m] \in Int
  OBVIOUS
<1>2. /\ p \in [1 .. n -> 1 .. n] /\ q \in [1 .. n -> 1 .. n]
      /\ \A a, b \in 1 .. n : a # b => p[a] # p[b]
  BY DEF Orders
<1>3. ASSUME NEW j \in 1 .. i PROVE keys[p[j]] <= keys[p[i]]
  <2>1. j \in 1 .. Len(keys) /\ i \in j .. Len(keys)
    OBVIOUS
  <2>2. QED
    BY <2>1, OrderRises
<1>4. \A j \in i .. n : keys[q[i]] <= keys[q[j]]
  BY OrderRises
<1>5. ASSUME NEW j \in 1 .. i
      PROVE  Place(j) \in 1 .. n /\ q[Place(j)] = p[j]
  <2>1. p[j] \in 1 .. Len(keys)
    <3>1. j \in 1 .. Len(keys)
      BY <1>1
    <3> HIDE DEF Place, f
    <3>2. QED
      BY <1>2, <3>1
  <2>2. \E m \in 1 .. n : q[m] = p[j]
    BY <2>1, OrderHasAll
  <2>3. QED
    BY <2>2, Zenon
<1> HIDE DEF n, Place
<1>6. ASSUME NEW j \in 1 .. i PROVE Place(j) \in 1 .. i - 1
  <2>1. /\ keys[p[j]] \in Int /\ keys[p[i]] \in Int /\ keys[q[i]] \in Int
        /\ keys[p[j]] <= keys[p[i]]
    <3>1. j \in 1 .. n /\ i \in 1 .. n
      BY <1>1
    <3>2. p[j] \in 1 .. n /\ p[i] \in 1 .. n /\ q[i] \in 1 .. n
      BY <1>2, <3>1
    <3>3. QED
      BY <1>1, <1>3, <3>2
  <2>2. CASE Place(j) \in i .. n
    <3>1. keys[q[i]] <= keys[p[j]]
      BY <1>4, <1>5, <2>2
    <3>2. QED
      BY <2>1, <3>1
  <2>3. QED
    BY <1>1, <1>5, <2>2
<1>7. f \in [1 .. i -> 1 .. i - 1]
  BY <1>6
<1>8. /\ IsFiniteSet(1 .. i) /\ IsFiniteSet(1 .. i - 1)
      /\ Cardinality(1 .. i - 1) < Cardinality(1 .. i)
  <2>1. i \in Int /\ i - 1 \in Int /\ i > 0
    BY <1>1
  <2>2. 1 \in Int
    OBVIOUS
  <2>3. /\ IsFiniteSet(1 .. i)
        /\ Cardinality(1 .. i) = IF 1 > i THEN 0 ELSE i - 1 + 1
    BY <2>1, <2>2, FS_Interval, Zenon
  <2>4. /\ IsFiniteSet(1 .. i - 1)
        /\ Cardinality(1 .. i - 1) = IF 1 > i - 1 THEN 0 ELSE (i - 1) - 1 + 1
    BY <2>1, <2>2, FS_Interval, Zenon
  <2>5. QED
    BY <2>1, <2>2, <2>3, <2>4
<1> HIDE DEF f
<1>9. PICK a, b \in 1 .. i : a # b /\ f[a] = f[b]
  BY <1>7, <1>8, FS_PigeonHole
<1>10. p[a] = p[b]
  BY <1>5, <1>9 DEF f
<1>11. a \in 1 .. n /\ b \in 1 .. n
  BY <1>1
<1>12. QED
  BY <1>2, <1>9, <1>10, <1>11

\* g holds the values of Joined's loop.
Joining(pages, n, g) ==
    g[0] = <<>> /\ \A m \in 1 .. n : g[m] = g[m - 1] \o pages[m].items

\* Joined is a loop that ran.
LEMMA JoinedRuns ==
    ASSUME NEW S, NEW pages, NEW n \in Nat, Len(pages) = n,
           \A m \in 1 .. n : pages[m].items \in Seq(S)
    PROVE  \E g : Joining(pages, n, g) /\ Joined(pages) = g[n]
<1> DEFINE Turn(h, m) == IF m = 0 THEN <<>> ELSE h[m - 1] \o pages[m].items
           F == [x \in Nat \X Seq(S) |->
                   IF x[1] \in 1 .. n THEN x[2] \o pages[x[1]].items ELSE x[2]]
<1>1. F \in [Nat \X Seq(S) -> Seq(S)]
  OBVIOUS
<1>2. ASSUME NEW m \in 1 .. n, NEW t \in Seq(S)
      PROVE  F[<<m, t>>] = t \o pages[m].items
  <2> DEFINE x == <<m, t>>
  <2>1. x \in Nat \X Seq(S) /\ x[1] = m /\ x[2] = t
    OBVIOUS
  <2> HIDE DEF x
  <2>2. F[x] = t \o pages[m].items
    BY <2>1
  <2>3. QED
    BY <2>2 DEF x
<1>3. <<>> \in Seq(S)
  OBVIOUS
<1> HIDE DEF F
<1>4. PICK g \in [0 .. n -> Seq(S)] :
         g[0] = <<>> /\ \A m \in 1 .. n : g[m] = F[<<m, g[m - 1]>>]
  <2>1. \E g : LoopOf(Seq(S), <<>>, F, n, g)
    BY <1>1, <1>3, LoopRuns
  <2>2. QED
    BY <2>1 DEF LoopOf
<1>5. \A m \in 0 .. n : g[m] = Turn(g, m)
  <2>1. \A m \in 1 .. n : m - 1 \in 0 .. n
    OBVIOUS
  <2>2. \A m \in 1 .. n : g[m] = g[m - 1] \o pages[m].items
    BY <1>2, <1>4, <2>1
  <2>3. \A m \in 0 .. n : m # 0 => m \in 1 .. n
    OBVIOUS
  <2>4. QED
    BY <1>4, <2>2, <2>3
<1>6. g = [m \in 0 .. n |-> Turn(g, m)]
  BY <1>4, <1>5
<1> DEFINE read == CHOOSE f : f = [m \in 0 .. n |-> Turn(f, m)]
<1>7. read = [m \in 0 .. n |-> Turn(read, m)]
  BY <1>6
<1>8. Joined(pages) = read[n]
  BY DEF Joined
<1> HIDE DEF read
<1>9. \A m \in 0 .. n : read[m] = Turn(read, m)
  <2> HIDE DEF Turn
  <2>1. QED
    BY <1>7
<1>10. 0 \in 0 .. n /\ \A m \in 1 .. n : m \in 0 .. n /\ m # 0
  OBVIOUS
<1>11. Joining(pages, n, read)
  BY <1>9, <1>10 DEF Joining
<1>12. QED
  BY <1>8, <1>11

\* A page holds the rows from its offset on, and the total if it holds any.
PageIs(r, o, a, n, z) ==
    /\ a \in Nat /\ r.items \in Seq(1 .. n)
    /\ r.pages = (r.total + z - 1) \div z
    /\ a >= n => r.items = <<>> /\ r.total = 0
    /\ a < n => /\ Len(r.items) = LeastOf(n, a + z) - a
                /\ \A k \in 1 .. Len(r.items) : r.items[k] = o[a + k]
                /\ r.total = n

\* complaint_repo.py, list_page: what a page of an order is.
LEMMA PageHolds ==
    ASSUME NEW n \in Nat, NEW o \in [1 .. n -> 1 .. n],
           NEW page \in Nat \ {0}, NEW z \in Nat \ {0}
    PROVE  PageIs(list_complaints(o, page, z), o, (page - 1) * z, n, z)
<1> DEFINE r == list_complaints(o, page, z)
           a == (page - 1) * z
           b == LeastOf(n, a + z)
           items == SubSeq(o, a + 1, b)
<1>1. a \in Nat /\ page * z = a + z
  OBVIOUS
<1>2. o \in Seq(1 .. n) /\ Len(o) = n
  OBVIOUS
<1>3. /\ r.items = items
      /\ r.total = IF items = <<>> THEN 0 ELSE n
      /\ r.pages = (r.total + z - 1) \div z
  BY <1>1, <1>2 DEF list_complaints, list_page
<1> HIDE DEF a, r
<1>4. b \in 0 .. n /\ (a >= n => b = n) /\ (a < n => b > a)
  BY <1>1 DEF LeastOf
<1> HIDE DEF b
<1>5. CASE a >= n
  <2>1. items = <<>>
    BY <1>1, <1>2, <1>4, <1>5, SubSeqEmpty
  <2>2. <<>> \in Seq(1 .. n) /\ ~(a < n)
    BY <1>1, <1>5
  <2> HIDE DEF items
  <2>3. QED
    BY <1>1, <1>3, <1>5, <2>1, <2>2, Zenon DEF PageIs, a, r
<1>6. CASE a < n
  <2>1. a + 1 \in 1 .. n /\ b \in 1 .. n /\ b - (a + 1) + 1 = b - a
    BY <1>1, <1>4, <1>6
  <2>2. /\ items \in Seq(1 .. n) /\ Len(items) = b - a
        /\ \A k \in 1 .. b - a : items[k] = o[a + k]
    BY <1>1, <1>2, <1>4, <1>6, <2>1
  <2> HIDE DEF items
  <2>3. items # <<>>
    BY <1>1, <1>4, <1>6, <2>2
  <2>4. QED
    BY <1>1, <1>3, <1>6, <2>2, <2>3 DEF PageIs, a, b, r
<1>7. QED
  BY <1>1, <1>4, <1>5, <1>6

\* The pages of one reading, each of an order of its own.
Reading(orders, last, z) ==
    [page \in 1 .. last |-> list_complaints(orders[page], page, z)]

\* What was read has as many rows as there are, each in the place it has in the
\* order of the page that shows this place.
AllRead(read, keys, orders, last, z) ==
    /\ Len(read) = Len(keys) /\ DOMAIN read = 1 .. Len(keys)
    /\ \A i \in 1 .. Len(keys) :
          \E page \in 1 .. last : OnPage(i, page, z) /\ read[i] = orders[page][i]

\* Page after page, each row read is the one its page's order has in that
\* place, and all places are read.
LEMMA PagesRead ==
    ASSUME NEW keys \in Seq(Int), NEW z \in Nat \ {0}, NEW last \in Nat \ {0},
           NEW orders \in [1 .. last -> Orders(keys)], Len(keys) <= last * z
    PROVE  AllRead(Joined(Reading(orders, last, z)), keys, orders, last, z)
<1> DEFINE n == Len(keys)
           pages == [page \in 1 .. last |->
                        list_complaints(orders[page], page, z)]
           read == Joined(pages)
           Start(m) == (m - 1) * z
           Reach(m) == LeastOf(n, m * z)
<1>1. n \in Nat /\ n <= last * z
  OBVIOUS
<1>2. \A m \in 1 .. last : orders[m] \in [1 .. n -> 1 .. n]
  BY DEF Orders
<1>3. ASSUME NEW m \in 1 .. last
      PROVE  PageIs(pages[m], orders[m], Start(m), n, z)
  <2>1. pages[m] = list_complaints(orders[m], m, z)
    OBVIOUS
  <2>2. m \in Nat \ {0} /\ orders[m] \in [1 .. n -> 1 .. n]
    BY <1>2
  <2> HIDE DEF pages, n
  <2>3. QED
    BY <1>1, <2>1, <2>2, PageHolds
<1>4. \A m \in 1 .. last : Start(m) \in Nat /\ m * z = Start(m) + z
  OBVIOUS
<1>5. Len(pages) = last
  OBVIOUS
<1>6. Reach(0) = 0 /\ Reach(last) = n
  BY <1>1 DEF LeastOf
<1>7. \A m \in 1 .. last : /\ Reach(m) = LeastOf(n, Start(m) + z)
                           /\ Reach(m - 1) = LeastOf(n, Start(m))
  BY <1>4
<1> HIDE DEF n, pages, Start, Reach
<1>8. PICK g : Joining(pages, last, g) /\ read = g[last]
  <2>1. last \in Nat /\ \A m \in 1 .. last : pages[m].items \in Seq(1 .. n)
    BY <1>3 DEF PageIs
  <2>2. QED
    BY <1>5, <2>1, JoinedRuns
<1> DEFINE Taken(t, i) == \E page \in 1 .. last :
                           OnPage(i, page, z) /\ t[i] = orders[page][i]
           Good(t, k) == /\ t \in Seq(1 .. n) /\ Len(t) = k
                         /\ \A i \in 1 .. k : Taken(t, i)
           T == {m \in 0 .. last : Good(g[m], Reach(m))}
<1>9. 0 \in T
  <2>1. Good(<<>>, 0)
    OBVIOUS
  <2> HIDE DEF Good
  <2>2. QED
    BY <1>6, <1>8, <2>1 DEF Joining
<1>10. ASSUME NEW m \in 1 .. last, m - 1 \in T PROVE m \in T
  <2> DEFINE a == Start(m)
             items == pages[m].items
             before == g[m - 1]
             after == before \o items
  <2>1. Good(before, Reach(m - 1)) /\ g[m] = after /\ m \in 0 .. last
    <3> HIDE DEF Good
    <3>1. Good(before, Reach(m - 1)) /\ m \in 0 .. last
      BY <1>10
    <3>2. g[m] = after
      BY <1>8 DEF Joining
    <3>3. QED
      BY <3>1, <3>2
  <2>2. a \in Nat /\ Reach(m) = LeastOf(n, a + z) /\ Reach(m - 1) = LeastOf(n, a)
    BY <1>4, <1>7
  <2>3. /\ items \in Seq(1 .. n)
        /\ a >= n => items = <<>>
        /\ a < n => /\ Len(items) = LeastOf(n, a + z) - a
                    /\ \A k \in 1 .. Len(items) : items[k] = orders[m][a + k]
    BY <1>3 DEF PageIs
  <2> HIDE DEF a, items, before, Taken
  <2>4. before \in Seq(1 .. n)
    BY <2>1
  <2>5. CASE a >= n
    <3>1. after = before
      BY <2>3, <2>4, <2>5, ConcatEmptySeq
    <3>2. Reach(m) = Reach(m - 1)
      BY <1>1, <2>2, <2>5 DEF LeastOf
    <3> HIDE DEF after, Good
    <3>3. QED
      BY <2>1, <3>1, <3>2
  <2>6. CASE a < n
    <3> DEFINE b == Reach(m)
    <3>1. Reach(m - 1) = a /\ b = LeastOf(n, a + z) /\ b \in Nat /\ b >= a
      BY <1>1, <2>2, <2>6 DEF LeastOf
    <3>2. Len(before) = a /\ Len(items) = b - a
      BY <2>1, <2>3, <2>6, <3>1
    <3>3. /\ after \in Seq(1 .. n) /\ Len(after) = Len(before) + Len(items)
          /\ \A i \in 1 .. Len(before) : after[i] = before[i]
          /\ \A i \in 1 .. Len(items) : after[Len(before) + i] = items[i]
      BY <2>3, <2>4, Concat
    <3> HIDE DEF after, b
    <3>4. after \in Seq(1 .. n) /\ Len(after) = b
      BY <2>2, <3>1, <3>2, <3>3
    <3>5. ASSUME NEW i \in 1 .. b PROVE Taken(after, i)
      <4>1. CASE i \in 1 .. a
        <5>1. Taken(before, i) /\ after[i] = before[i]
          BY <2>1, <3>1, <3>2, <3>3, <4>1
        <5>2. QED
          BY <5>1 DEF Taken
      <4>2. CASE i > a
        <5>1. i - a \in 1 .. b - a /\ a + (i - a) = i
          BY <2>2, <3>1, <4>2
        <5>2. after[i] = items[i - a] /\ items[i - a] = orders[m][i]
          BY <2>3, <2>6, <3>2, <3>3, <5>1
        <5>3. OnPage(i, m, z)
          BY <1>4, <2>2, <3>1, <4>2 DEF a, Start, LeastOf, OnPage
        <5>4. QED
          BY <5>2, <5>3 DEF Taken
      <4>3. QED
        BY <2>2, <3>1, <4>1, <4>2
    <3>6. QED
      BY <2>1, <3>4, <3>5 DEF b
  <2>7. QED
    BY <1>1, <2>2, <2>5, <2>6
<1> HIDE DEF T
<1>11. \A m \in 0 .. last : m \in T
  BY <1>9, <1>10, UpTo
<1>12. Good(read, n)
  <2> HIDE DEF Good
  <2>1. last \in T
    BY <1>11
  <2>2. QED
    BY <1>6, <1>8, <2>1 DEF T
<1>13. /\ Len(read) = n /\ DOMAIN read = 1 .. n
       /\ \A i \in 1 .. n : \E page \in 1 .. last :
             OnPage(i, page, z) /\ read[i] = orders[page][i]
  <2> HIDE DEF read, Taken
  <2>1. /\ Len(read) = n /\ DOMAIN read = 1 .. n
        /\ \A i \in 1 .. n : Taken(read, i)
    BY <1>12
  <2>2. QED
    BY <2>1 DEF Taken
<1>14. pages = Reading(orders, last, z)
  BY DEF pages, Reading
<1>15. AllRead(read, keys, orders, last, z)
  <2> HIDE DEF read
  <2>1. QED
    BY <1>13 DEF n, AllRead
<1>16. QED
  BY <1>14, <1>15

\* A quotient rounded up is the number of pages that begin before the end.
LEMMA PagesCounted ==
    ASSUME NEW n \in Nat, NEW z \in Nat \ {0}, NEW page \in Nat \ {0}
    PROVE  page <= (n + z - 1) \div z <=> (page - 1) * z < n
<1> DEFINE x == n + z - 1
           q == x \div z
<1>1. x \in Nat /\ q \in Nat /\ q * z <= x /\ x < q * z + z
  OBVIOUS
<1> HIDE DEF q
<1>2. (page - 1) * z = page * z - z /\ page * z \in Nat /\ q * z \in Nat
  BY <1>1
<1>3. page <= q => page * z <= q * z
  BY <1>1
<1>4. ~(page <= q) => q * z + z <= page * z
  BY <1>1
<1>5. page <= q <=> page * z <= x
  BY <1>1, <1>2, <1>3, <1>4
<1>6. QED
  BY <1>2, <1>5 DEF q

=============================================================================
